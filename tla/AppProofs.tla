-------------------------------- MODULE AppProofs ---------------------------
(***************************************************************************)
(* The app above the sessions: AudioCore, the screens and the catalog.     *)
(*                                                                         *)
(* AudioCore, for any number of sessions and calls: a session that was     *)
(* stopped has no thread left, one that the pool started is only deleted   *)
(* after that, and the last start of the pool is not undone.  Stop returns *)
(* at once for a session that was stopped before, so deleting relies on an *)
(* earlier Stop having waited (StoppedThreadsEnded).  While a task stops a *)
(* session the main thread may store another one, which is then the one    *)
(* deleted: but only one that plays a local track (Stopping).  Tasks are   *)
(* run in their order, so while the last call was a start, its task is the *)
(* last in the queue or the one at work (LastStart).                       *)
(*                                                                         *)
(* The screens, for any songs, lists and number of changes: what they show *)
(* may be old, but of the news on their way the last of each kind says     *)
(* what the session has now (FullScreenInv; MainInv, where each            *)
(* registration has its own).                                              *)
(*                                                                         *)
(* The catalog, whatever the server answers and is searched for: what was  *)
(* listed has an ID from which the genre, the queue and the track come     *)
(* again, wherever there are separators in its names, unless there is no   *)
(* name before them (CatalogInv, Nameless).                                *)
(***************************************************************************)
EXTENDS AudioCoreLifecycle, MCScreens, SequenceTheorems, FiniteSetTheorems, TLAPS

Starts == {"file", "listen"}

\* Whatever refers to a session, refers to one that was created.
Made ==
  /\ \A s \in Session : ~Created(s) => isRunning[s]
  /\ main # NULL => kind[main] = "asset"
  /\ audioSession # NULL => Created(audioSession)
  /\ \A s \in freed : Created(s)
  /\ PoolAt("create") => pool.task \in Starts
  /\ PoolAt("store") => pool.sess # NULL /\ Created(pool.sess)

Stopping ==
  /\ pool.at \in {"join network", "join ntp"} =>
       /\ pool.sess # NULL /\ ~isRunning[pool.sess]
       /\ audioSession # NULL /\ (audioSession = pool.sess \/ kind[audioSession] = "asset")
  /\ PoolAt("join ntp") => network[pool.sess] = "ended"
  /\ PoolAt("delete") /\ audioSession # NULL =>
       kind[audioSession] = "asset" \/ Ended(audioSession)

LastStart ==
  /\ main # NULL => lastCall = "asset"
  /\ lastCall = "start" =>
       \/ tasks # <<>> /\ tasks[Len(tasks)] \in Starts
       \/ tasks = <<>> /\ PoolAt("create")
       \/ tasks = <<>> /\ PoolAt("store") /\ isRunning[pool.sess]
       \/ tasks = <<>> /\ PoolAt("idle") /\ audioSession # NULL /\ isRunning[audioSession]

Threads == StoppedThreadsEnded /\ DeletedIsQuiet

IInv == TypeOK /\ Made /\ Stopping /\ LastStart /\ Threads

Task == {"file", "listen", "stop", "cleanup"}

USE DEF mainVars, coreVars, sessionVars
-----------------------------------------------------------------------------
LEMMA Sessions == Session \subseteq Nat /\ NULL \notin Session
BY LifecycleAssumption DEF Session, NULL

LEMMA Adding ==
  ASSUME NEW q \in Seq(Task), NEW t \in Task
  PROVE  /\ Append(q, t) \in Seq(Task) /\ Append(q, t) # <<>>
         /\ Append(q, t)[Len(Append(q, t))] = t
OBVIOUS

LEMMA Taking ==
  ASSUME NEW q \in Seq(Task), q # <<>>
  PROVE  /\ Head(q) \in Task /\ Tail(q) \in Seq(Task)
         /\ Tail(q) # <<>> => Tail(q)[Len(Tail(q))] = q[Len(q)]
         /\ Tail(q) = <<>> => Head(q) = q[Len(q)]
<1>1. /\ Len(q) \in Nat /\ Len(q) >= 1 /\ DOMAIN q = 1 .. Len(q)
      /\ Head(q) = q[1] /\ q[1] \in Task /\ Tail(q) \in Seq(Task) /\ Len(Tail(q)) = Len(q) - 1
      /\ \A i \in 1 .. Len(q) - 1 : Tail(q)[i] = q[i + 1]
  OBVIOUS
<1>2. Tail(q) # <<>> => Len(Tail(q)) >= 1
  BY <1>1, EmptySeq
<1>3. Tail(q) = <<>> => Len(q) = 1
  BY <1>1
<1> QED BY <1>1, <1>2, <1>3

LEMMA InitIInv == Init => IInv
<1> SUFFICES ASSUME Init PROVE IInv
  OBVIOUS
<1>1. TypeOK
  BY LifecycleAssumption DEF Init, TypeOK, Idle, Stages
<1>2. Made /\ Stopping /\ LastStart
  BY DEF Init, Made, Stopping, LastStart, Idle, PoolAt
<1>3. Threads
  BY DEF Init, Threads, StoppedThreadsEnded, DeletedIsQuiet
<1> QED BY <1>1, <1>2, <1>3 DEF IInv
-----------------------------------------------------------------------------
(* The threads of a session: what has ended stays so.                      *)

LEMMA EndedStays ==
  ASSUME TypeOK, NEW s \in Session, NetworkThread(s) \/ NTPThread(s)
  PROVE  /\ UNCHANGED <<mainVars, coreVars, kind, isRunning>>
         /\ network' \in [Session -> Stages]
         /\ ntp' \in [Session -> {"none", "checking", "asking", "ended"}]
         /\ \A r \in Session : network[r] = "ended" => network'[r] = "ended"
         /\ \A r \in Session : Ended(r) => Ended(r)'
<1>1. CASE NetworkThread(s)
  <2>1. UNCHANGED <<mainVars, coreVars, kind, isRunning, ntp>>
    BY <1>1 DEF NetworkThread, NetworkStarts, BYEDestroyBegins, BYEDestroyEnds, PlayingEnds
  <2>2. /\ network[s] # "ended"
        /\ \E t \in Stages : network' = [network EXCEPT ![s] = t]
    BY <1>1 DEF NetworkThread, NetworkStarts, BYEDestroyBegins, BYEDestroyEnds, PlayingEnds,
                Step, Stages
  <2>3. PICK t \in Stages : network' = [network EXCEPT ![s] = t]
    BY <2>2
  <2>4. network' \in [Session -> Stages]
    BY <2>3 DEF TypeOK
  <2>5. \A r \in Session : network[r] = "ended" => network'[r] = "ended"
    BY <2>2, <2>3 DEF TypeOK
  <2> QED BY <2>1, <2>4, <2>5 DEF TypeOK, Ended
<1>2. CASE NTPThread(s)
  <2>1. UNCHANGED <<mainVars, coreVars, kind, isRunning, network>>
    BY <1>2 DEF NTPThread, AskTime, TimeAnswered, NTPEnds
  <2>2. /\ ntp[s] # "ended"
        /\ \E t \in {"checking", "asking", "ended"} : ntp' = [ntp EXCEPT ![s] = t]
    BY <1>2 DEF NTPThread, AskTime, TimeAnswered, NTPEnds, Step
  <2>3. PICK t \in {"checking", "asking", "ended"} : ntp' = [ntp EXCEPT ![s] = t]
    BY <2>2
  <2>4. ntp' \in [Session -> {"none", "checking", "asking", "ended"}]
    BY <2>3 DEF TypeOK
  <2>5. \A r \in Session : ntp[r] = "ended" => ntp'[r] = "ended"
    BY <2>2, <2>3 DEF TypeOK
  <2> QED BY <2>1, <2>4, <2>5 DEF TypeOK, Ended
<1> QED BY <1>1, <1>2

LEMMA ThreadStep ==
  ASSUME IInv, NEW s \in Session, NetworkThread(s) \/ NTPThread(s)
  PROVE  IInv'
<1>1. TypeOK /\ Made /\ Stopping /\ LastStart /\ StoppedThreadsEnded /\ DeletedIsQuiet
  BY DEF IInv, Threads
<1>2. /\ UNCHANGED <<mainVars, coreVars, kind, isRunning>>
      /\ network' \in [Session -> Stages]
      /\ ntp' \in [Session -> {"none", "checking", "asking", "ended"}]
      /\ \A r \in Session : network[r] = "ended" => network'[r] = "ended"
      /\ \A r \in Session : Ended(r) => Ended(r)'
  BY <1>1, EndedStays
<1>3. TypeOK'
  <2>1. /\ UNCHANGED <<main, casting, downloads, resolving, mayListen, calls, lastCall>>
        /\ UNCHANGED <<tasks, pool, audioSession, freed, kind, isRunning>>
    BY <1>2
  <2>2. /\ network' \in [Session -> Stages]
        /\ ntp' \in [Session -> {"none", "checking", "asking", "ended"}]
    BY <1>2
  <2> HIDE DEF mainVars, coreVars, sessionVars
  <2> QED BY <1>1, <2>1, <2>2, ZenonT(60) DEF TypeOK
<1>4. Made' /\ LastStart'
  BY <1>1, <1>2 DEF Made, LastStart, Created, PoolAt
<1>5. Stopping'
  <2>1. pool.sess \in Session \cup {NULL} /\ audioSession \in Session \cup {NULL}
    BY <1>1 DEF TypeOK
  <2> QED BY <1>1, <1>2, <2>1 DEF Stopping, PoolAt
<1>6. StoppedThreadsEnded'
  BY <1>1, <1>2 DEF StoppedThreadsEnded, Joining
<1>7. DeletedIsQuiet'
  BY <1>1, <1>2 DEF DeletedIsQuiet, TypeOK
<1> QED BY <1>3, <1>4, <1>5, <1>6, <1>7 DEF IInv, Threads
-----------------------------------------------------------------------------
(* The main thread.                                                        *)

\* Calls that only add a task, or nothing: the last call is the last task.
LEMMA CallStep ==
  ASSUME IInv,
         \/ PlayFile \/ DownloadDone \/ PauseCasting \/ StopCasting
         \/ StartListening \/ ServiceResolved \/ LeaveActivity \/ DestroyService
  PROVE  IInv'
<1>1. TypeOK /\ Made /\ Stopping /\ LastStart /\ StoppedThreadsEnded /\ DeletedIsQuiet
  BY DEF IInv, Threads
<1>2. main = NULL /\ UNCHANGED <<main, pool, audioSession, freed, sessionVars>>
  BY DEF PlayFile, DownloadDone, PauseCasting, StopCasting, StartListening, ServiceResolved,
         LeaveActivity, DestroyService, MainIsFree
<1>3. \/ UNCHANGED <<tasks, lastCall>>
      \/ tasks' = Append(tasks, "stop") /\ lastCall' = "stop"
      \/ tasks' = Append(tasks, "cleanup") /\ lastCall' = "stop"
      \/ tasks' = Append(tasks, "file") /\ lastCall' = "start"
      \/ tasks' = Append(tasks, "listen") /\ lastCall' = "start"
  BY DEF PlayFile, DownloadDone, PauseCasting, StopCasting, StartListening, ServiceResolved,
         LeaveActivity, DestroyService, BeforePlay
<1>4. tasks \in Seq(Task)
  BY <1>1 DEF TypeOK, Task
<1>5. TypeOK'
  <2>1. tasks' \in Seq(Task) /\ lastCall' \in {"none", "start", "asset", "stop"}
    <3>1. {"stop", "cleanup", "file", "listen"} \subseteq Task
      BY DEF Task
    <3>2. tasks' \in Seq(Task)
      BY <1>3, <1>4, <3>1
    <3>3. lastCall \in {"none", "start", "asset", "stop"}
      BY <1>1 DEF TypeOK
    <3>4. lastCall' = lastCall \/ lastCall' = "stop" \/ lastCall' = "start"
      BY <1>3
    <3> QED BY <3>2, <3>3, <3>4
  <2>2. calls' \in 0 .. MaxCalls
    <3>1. calls \in 0 .. MaxCalls /\ MaxCalls \in Nat
      BY <1>1, LifecycleAssumption DEF TypeOK
    <3>2. calls' = calls \/ (calls < MaxCalls /\ calls' = calls + 1)
      BY DEF PlayFile, DownloadDone, PauseCasting, StopCasting, StartListening,
             ServiceResolved, LeaveActivity, DestroyService, MainIsFree
    <3> QED BY <3>1, <3>2
  <2>3. downloads' \in Nat /\ resolving' \in Nat
    <3>1. downloads \in Nat /\ resolving \in Nat
      BY <1>1 DEF TypeOK
    <3>2. /\ \/ downloads' = downloads
             \/ downloads' = downloads + 1
             \/ downloads > 0 /\ downloads' = downloads - 1
          /\ \/ resolving' = resolving
             \/ resolving' = resolving + 1
             \/ resolving > 0 /\ resolving' = resolving - 1
      BY DEF PlayFile, DownloadDone, PauseCasting, StopCasting, StartListening,
             ServiceResolved, LeaveActivity, DestroyService
    <3> QED BY <3>1, <3>2
  <2>4. casting' \in {"stopped", "playing", "paused"} /\ mayListen' \in BOOLEAN
    BY <1>1 DEF TypeOK, PlayFile, DownloadDone, PauseCasting, StopCasting, StartListening,
                ServiceResolved, LeaveActivity, DestroyService
  <2> QED BY <1>1, <1>2, <2>1, <2>2, <2>3, <2>4 DEF TypeOK, Task
<1>6. Made' /\ Stopping'
  BY <1>1, <1>2 DEF Made, Stopping, Created, PoolAt, Ended
<1>7. LastStart'
  <2>1. CASE UNCHANGED <<tasks, lastCall>>
    BY <1>1, <1>2, <2>1 DEF LastStart, PoolAt
  <2>2. CASE lastCall' = "stop"
    BY <1>2, <2>2 DEF LastStart
  <2>3. CASE \E t \in Starts : tasks' = Append(tasks, t)
    BY <1>2, <1>4, <2>3, Adding DEF LastStart, Starts, Task
  <2> QED BY <1>3, <2>1, <2>2, <2>3 DEF Starts
<1>8. StoppedThreadsEnded' /\ DeletedIsQuiet'
  BY <1>1, <1>2 DEF StoppedThreadsEnded, DeletedIsQuiet, Joining, Ended
<1> QED BY <1>5, <1>6, <1>7, <1>8 DEF IInv, Threads

\* A new session is running, and nothing referred to it.
LEMMA Spawning ==
  ASSUME TypeOK, Made, NEW s \in Session, NEW k \in {"asset", "file", "listen"},
         NewSession(s, k)
  PROVE  /\ kind' \in [Session -> {"none", "asset", "file", "listen"}]
         /\ network' \in [Session -> Stages]
         /\ ntp' \in [Session -> {"none", "checking", "asking", "ended"}]
         /\ isRunning' = isRunning /\ isRunning[s] /\ s \notin freed
         /\ ~Created(s) /\ kind'[s] = k
         /\ \A r \in Session : r # s =>
              kind'[r] = kind[r] /\ network'[r] = network[r] /\ ntp'[r] = ntp[r]
BY DEF NewSession, TypeOK, Made, Created, Stages

LEMMA PlayAssetStep ==
  ASSUME IInv, NEW s \in Session, PlayAsset(s)
  PROVE  IInv'
<1>1. TypeOK /\ Made /\ Stopping /\ LastStart /\ StoppedThreadsEnded /\ DeletedIsQuiet
  BY DEF IInv, Threads
<1>2. /\ main = NULL /\ main' = s /\ lastCall' = "asset" /\ NewSession(s, "asset")
      /\ calls \in 0 .. MaxCalls /\ calls < MaxCalls /\ calls' = calls + 1
      /\ casting' = "playing" /\ tasks' = BeforePlay
      /\ UNCHANGED <<downloads, resolving, mayListen, pool, audioSession, freed>>
  BY <1>1 DEF PlayAsset, MainIsFree, TypeOK
<1>3. /\ kind' \in [Session -> {"none", "asset", "file", "listen"}]
      /\ network' \in [Session -> Stages]
      /\ ntp' \in [Session -> {"none", "checking", "asking", "ended"}]
      /\ isRunning' = isRunning /\ isRunning[s] /\ s \notin freed
      /\ ~Created(s) /\ kind'[s] = "asset"
      /\ \A r \in Session : r # s =>
           kind'[r] = kind[r] /\ network'[r] = network[r] /\ ntp'[r] = ntp[r]
  BY <1>1, <1>2, Spawning
<1>4. TypeOK'
  <2>1. tasks' \in Seq(Task)
    BY <1>1, <1>2, Adding DEF BeforePlay, TypeOK, Task
  <2>2. calls' \in 0 .. MaxCalls
    BY <1>2, LifecycleAssumption
  <2> QED BY <1>1, <1>2, <1>3, <2>1, <2>2 DEF TypeOK, Task
<1>5. audioSession \in Session \cup {NULL} /\ pool.sess \in Session \cup {NULL} /\ freed \subseteq Session
  BY <1>1 DEF TypeOK
<1>6. Made'
  BY <1>1, <1>2, <1>3, <1>5 DEF Made, Created, PoolAt
<1>7. Stopping'
  <2>1. audioSession # NULL => audioSession # s
    BY <1>1, <1>3 DEF Made
  <2>2. pool.at \in {"join network", "join ntp"} => pool.sess # s
    BY <1>1, <1>3 DEF Stopping
  <2> QED BY <1>1, <1>2, <1>3, <1>5, <2>1, <2>2 DEF Stopping, PoolAt, Ended
<1>8. LastStart'
  BY <1>2 DEF LastStart
<1>9. StoppedThreadsEnded' /\ DeletedIsQuiet'
  BY <1>1, <1>2, <1>3, <1>5 DEF StoppedThreadsEnded, DeletedIsQuiet, Joining, Ended
<1> QED BY <1>4, <1>6, <1>7, <1>8, <1>9 DEF IInv, Threads

LEMMA PlayAssetReturnsStep ==
  ASSUME IInv, PlayAssetReturns
  PROVE  IInv'
<1>1. TypeOK /\ Made /\ Stopping /\ LastStart /\ StoppedThreadsEnded /\ DeletedIsQuiet
  BY DEF IInv, Threads
<1>2. /\ main \in Session /\ audioSession' = main /\ main' = NULL
      /\ kind[main] = "asset" /\ lastCall = "asset" /\ main # NULL
      /\ UNCHANGED <<casting, downloads, resolving, mayListen, calls, lastCall, tasks, pool, freed,
                     sessionVars>>
  BY <1>1 DEF PlayAssetReturns, TypeOK, Made, LastStart
<1>3. TypeOK'
  BY <1>1, <1>2 DEF TypeOK
<1>4. Made' /\ Stopping' /\ LastStart'
  BY <1>1, <1>2 DEF Made, Stopping, LastStart, Created, PoolAt
<1>5. StoppedThreadsEnded' /\ DeletedIsQuiet'
  BY <1>1, <1>2 DEF StoppedThreadsEnded, DeletedIsQuiet, Joining, Ended
<1> QED BY <1>3, <1>4, <1>5 DEF IInv, Threads
-----------------------------------------------------------------------------
(* The pool's thread.                                                      *)

LEMMA TakeTaskStep ==
  ASSUME IInv, TakeTask
  PROVE  IInv'
<1>1. TypeOK /\ Made /\ Stopping /\ LastStart /\ StoppedThreadsEnded /\ DeletedIsQuiet
  BY DEF IInv, Threads
<1>2. /\ pool.at = "idle" /\ tasks # <<>> /\ tasks' = Tail(tasks) /\ tasks \in Seq(Task)
      /\ UNCHANGED <<mainVars, audioSession, freed, sessionVars>>
  BY <1>1 DEF TakeTask, PoolAt, TypeOK, Task
<1>3. Head(tasks) \in Task /\ Tail(tasks) \in Seq(Task)
  BY <1>2, Taking
<1>4. /\ pool'.task = Head(tasks) /\ pool'.sess = NULL
      /\ pool'.at = IF Head(tasks) \in Starts THEN "create" ELSE "stop"
      /\ pool' \in [task : Task, at : {"create", "stop"}, sess : {NULL}]
  BY <1>3 DEF TakeTask, Starts
<1>5. TypeOK'
  BY <1>1, <1>2, <1>3, <1>4 DEF TypeOK, Task
<1>6. Made' /\ Stopping'
  BY <1>1, <1>2, <1>4 DEF Made, Stopping, Created, PoolAt
<1>7. LastStart'
  <2> SUFFICES ASSUME lastCall = "start" PROVE LastStart'
    BY <1>1, <1>2 DEF LastStart
  <2>1. tasks[Len(tasks)] \in Starts
    BY <1>1, <1>2 DEF LastStart
  <2>2. CASE Tail(tasks) = <<>>
    BY <1>1, <1>2, <1>4, <2>1, <2>2, Taking DEF LastStart, PoolAt
  <2>3. CASE Tail(tasks) # <<>>
    BY <1>1, <1>2, <2>1, <2>3, Taking DEF LastStart
  <2> QED BY <2>2, <2>3
<1>8. StoppedThreadsEnded' /\ DeletedIsQuiet'
  BY <1>1, <1>2, <1>4 DEF StoppedThreadsEnded, DeletedIsQuiet, Joining, Ended
<1> QED BY <1>5, <1>6, <1>7, <1>8 DEF IInv, Threads

LEMMA CreateSessionStep ==
  ASSUME IInv, NEW s \in Session, CreateSession(s)
  PROVE  IInv'
<1>1. TypeOK /\ Made /\ Stopping /\ LastStart /\ StoppedThreadsEnded /\ DeletedIsQuiet
  BY DEF IInv, Threads
<1>2. /\ pool.at = "create" /\ pool.task \in Starts /\ NewSession(s, pool.task)
      /\ pool' = [pool EXCEPT !.at = "store", !.sess = s]
      /\ UNCHANGED <<mainVars, tasks, audioSession, freed>>
  BY <1>1 DEF CreateSession, PoolAt, Made
<1>3. /\ kind' \in [Session -> {"none", "asset", "file", "listen"}]
      /\ network' \in [Session -> Stages]
      /\ ntp' \in [Session -> {"none", "checking", "asking", "ended"}]
      /\ isRunning' = isRunning /\ isRunning[s] /\ s \notin freed
      /\ ~Created(s) /\ kind'[s] \in Starts
      /\ \A r \in Session : r # s =>
           kind'[r] = kind[r] /\ network'[r] = network[r] /\ ntp'[r] = ntp[r]
  BY <1>1, <1>2, Spawning DEF Starts
<1>4. pool'.at = "store" /\ pool'.sess = s
  BY <1>1, <1>2 DEF TypeOK
<1>5. TypeOK'
  BY <1>1, <1>2, <1>3 DEF TypeOK
<1>6. /\ main \in Session \cup {NULL} /\ audioSession \in Session \cup {NULL}
      /\ freed \subseteq Session /\ s # NULL
  BY <1>1, Sessions DEF TypeOK
<1>7. Made'
  BY <1>1, <1>2, <1>3, <1>4, <1>6 DEF Made, Created, PoolAt, Starts
<1>8. Stopping'
  BY <1>4 DEF Stopping, PoolAt
<1>9. LastStart'
  <2>1. tasks # <<>> => UNCHANGED tasks
    BY <1>2
  <2> QED BY <1>1, <1>2, <1>3, <1>4 DEF LastStart, PoolAt
<1>10. StoppedThreadsEnded' /\ DeletedIsQuiet'
  BY <1>1, <1>2, <1>3, <1>4, <1>6 DEF StoppedThreadsEnded, DeletedIsQuiet, Joining, Ended
<1> QED BY <1>5, <1>7, <1>8, <1>9, <1>10 DEF IInv, Threads

LEMMA StoreSessionStep ==
  ASSUME IInv, StoreSession
  PROVE  IInv'
<1>1. TypeOK /\ Made /\ Stopping /\ LastStart /\ StoppedThreadsEnded /\ DeletedIsQuiet
  BY DEF IInv, Threads
<1>2. /\ pool.at = "store" /\ pool.sess \in Session /\ pool.sess # NULL /\ Created(pool.sess)
      /\ audioSession' = pool.sess /\ pool' = Idle /\ pool'.at = "idle"
      /\ UNCHANGED <<mainVars, tasks, freed, sessionVars>>
  BY <1>1 DEF StoreSession, PoolAt, Made, TypeOK, Idle
<1>3. TypeOK'
  BY <1>1, <1>2 DEF TypeOK, Idle
<1>4. Made' /\ Stopping'
  BY <1>1, <1>2 DEF Made, Stopping, Created, PoolAt
<1>5. LastStart'
  BY <1>1, <1>2 DEF LastStart, PoolAt
<1>6. StoppedThreadsEnded' /\ DeletedIsQuiet'
  BY <1>1, <1>2 DEF StoppedThreadsEnded, DeletedIsQuiet, Joining, Ended
<1> QED BY <1>3, <1>4, <1>5, <1>6 DEF IInv, Threads

\* A task that stops is not the last start, which is still in the queue.
LEMMA WhileStopping ==
  ASSUME LastStart, pool.at \in {"stop", "join network", "join ntp", "delete", "playback"},
         UNCHANGED <<mainVars, tasks>>
  PROVE  LastStart'
BY DEF LastStart, PoolAt

LEMMA StopBeginsStep ==
  ASSUME IInv, StopBegins
  PROVE  IInv'
<1>1. TypeOK /\ Made /\ Stopping /\ LastStart /\ StoppedThreadsEnded /\ DeletedIsQuiet
  BY DEF IInv, Threads
<1>2. pool.at = "stop" /\ UNCHANGED <<mainVars, tasks, audioSession, freed, kind, network, ntp>>
  BY DEF StopBegins, PoolAt
<1>3. LastStart'
  BY <1>1, <1>2, WhileStopping
<1>4. CASE /\ UNCHANGED isRunning
           /\ \/ pool' = [pool EXCEPT !.at = "crashed"]
              \/ /\ pool' = [pool EXCEPT !.at = AfterStop]
                 /\ \/ audioSession = NULL
                    \/ audioSession \in Session \ freed /\ ~isRunning[audioSession]
  <2>1. pool'.at \in {"crashed", "delete", "playback"}
    BY <1>1, <1>4 DEF TypeOK, AfterStop
  <2>2. TypeOK'
    BY <1>1, <1>2, <1>4 DEF TypeOK, AfterStop
  <2>3. Made'
    BY <1>1, <1>2, <1>4, <2>1 DEF Made, Created, PoolAt
  <2>4. PoolAt("delete")' /\ audioSession # NULL => Ended(audioSession)
    BY <1>1, <1>2, <1>4 DEF PoolAt, TypeOK, StoppedThreadsEnded, Joining
  <2>5. Stopping'
    BY <1>2, <2>1, <2>4 DEF Stopping, PoolAt, Ended
  <2>6. StoppedThreadsEnded' /\ DeletedIsQuiet'
    BY <1>1, <1>2, <1>4 DEF StoppedThreadsEnded, DeletedIsQuiet, Joining, Ended
  <2> QED BY <1>3, <2>2, <2>3, <2>5, <2>6 DEF IInv, Threads
<1>5. CASE /\ audioSession \in Session \ freed /\ isRunning[audioSession]
           /\ ClearRunning(audioSession)
           /\ pool' = [pool EXCEPT !.at = "join network", !.sess = audioSession]
  <2>1. pool'.at = "join network" /\ pool'.sess = audioSession /\ audioSession # NULL
    BY <1>1, <1>5, Sessions DEF TypeOK
  <2>2. /\ isRunning' \in [Session -> BOOLEAN] /\ ~isRunning'[audioSession]
        /\ \A s \in Session : s # audioSession => isRunning'[s] = isRunning[s]
    BY <1>1, <1>5 DEF ClearRunning, TypeOK
  <2>3. TypeOK'
    BY <1>1, <1>2, <1>5, <2>2 DEF TypeOK
  <2>4. Made'
    BY <1>1, <1>2, <2>1, <2>2 DEF Made, Created, PoolAt
  <2>5. Stopping'
    BY <1>2, <2>1, <2>2 DEF Stopping, PoolAt
  <2>6. StoppedThreadsEnded' /\ DeletedIsQuiet'
    BY <1>1, <1>2, <2>1, <2>2 DEF StoppedThreadsEnded, DeletedIsQuiet, Joining, Ended
  <2> QED BY <1>3, <2>3, <2>4, <2>5, <2>6 DEF IInv, Threads
<1> QED BY <1>4, <1>5 DEF StopBegins

LEMMA JoinNetworkStep ==
  ASSUME IInv, JoinNetwork
  PROVE  IInv'
<1>1. TypeOK /\ Made /\ Stopping /\ LastStart /\ StoppedThreadsEnded /\ DeletedIsQuiet
  BY DEF IInv, Threads
<1>2. /\ pool.at = "join network" /\ network[pool.sess] = "ended"
      /\ pool' = [pool EXCEPT !.at = "join ntp"]
      /\ pool'.at = "join ntp" /\ pool'.sess = pool.sess /\ pool'.task = pool.task
      /\ UNCHANGED <<mainVars, tasks, audioSession, freed, sessionVars>>
  BY <1>1 DEF JoinNetwork, PoolAt, TypeOK
<1>3. TypeOK'
  BY <1>1, <1>2 DEF TypeOK
<1>4. Made' /\ Stopping'
  BY <1>1, <1>2 DEF Made, Stopping, Created, PoolAt
<1>5. LastStart'
  BY <1>1, <1>2, WhileStopping
<1>6. StoppedThreadsEnded' /\ DeletedIsQuiet'
  BY <1>1, <1>2 DEF StoppedThreadsEnded, DeletedIsQuiet, Joining, Ended
<1> QED BY <1>3, <1>4, <1>5, <1>6 DEF IInv, Threads

\* The join that makes it true that both threads have ended.
LEMMA JoinNTPStep ==
  ASSUME IInv, JoinNTP
  PROVE  IInv'
<1>1. TypeOK /\ Made /\ Stopping /\ LastStart /\ StoppedThreadsEnded /\ DeletedIsQuiet
  BY DEF IInv, Threads
<1>2. /\ pool.at = "join ntp" /\ Ended(pool.sess)
      /\ pool' = [pool EXCEPT !.at = AfterStop]
      /\ pool'.at \in {"delete", "playback"}
      /\ UNCHANGED <<mainVars, tasks, audioSession, freed, sessionVars>>
  BY <1>1 DEF JoinNTP, PoolAt, TypeOK, AfterStop, Stopping, Ended
<1>3. TypeOK'
  BY <1>1, <1>2 DEF TypeOK, AfterStop
<1>4. Made' /\ Stopping'
  BY <1>1, <1>2 DEF Made, Stopping, Created, PoolAt, Ended
<1>5. LastStart'
  BY <1>1, <1>2, WhileStopping
<1>6. StoppedThreadsEnded' /\ DeletedIsQuiet'
  BY <1>1, <1>2 DEF StoppedThreadsEnded, DeletedIsQuiet, Joining, Ended
<1> QED BY <1>3, <1>4, <1>5, <1>6 DEF IInv, Threads

LEMMA DeleteSessionStep ==
  ASSUME IInv, DeleteSession
  PROVE  IInv'
<1>1. TypeOK /\ Made /\ Stopping /\ LastStart /\ StoppedThreadsEnded /\ DeletedIsQuiet
  BY DEF IInv, Threads
<1>2. /\ pool.at = "delete" /\ freed' = freed \cup ({audioSession} \ {NULL})
      /\ pool' = [pool EXCEPT !.at = IF audioSession \in freed THEN "crashed" ELSE "playback"]
      /\ pool'.at \in {"crashed", "playback"}
      /\ UNCHANGED <<mainVars, tasks, audioSession, sessionVars>>
  BY <1>1 DEF DeleteSession, PoolAt, TypeOK
<1>3. audioSession # NULL =>
        /\ audioSession \in Session /\ Created(audioSession)
        /\ kind[audioSession] = "asset" \/ Ended(audioSession)
  BY <1>1, <1>2 DEF Stopping, Made, PoolAt, TypeOK
<1>4. TypeOK'
  BY <1>1, <1>2, <1>3 DEF TypeOK
<1>5. Made' /\ Stopping'
  BY <1>1, <1>2, <1>3 DEF Made, Stopping, Created, PoolAt
<1>6. LastStart'
  BY <1>1, <1>2, WhileStopping
<1>7. StoppedThreadsEnded'
  BY <1>1, <1>2 DEF StoppedThreadsEnded, Joining, Ended
<1>8. DeletedIsQuiet'
  BY <1>1, <1>2, <1>3 DEF DeletedIsQuiet, Ended
<1> QED BY <1>4, <1>5, <1>6, <1>7, <1>8 DEF IInv, Threads

LEMMA StopPlaybackStep ==
  ASSUME IInv, StopPlayback
  PROVE  IInv'
<1>1. TypeOK /\ Made /\ Stopping /\ LastStart /\ StoppedThreadsEnded /\ DeletedIsQuiet
  BY DEF IInv, Threads
<1>2. /\ pool.at = "playback" /\ pool' = Idle /\ pool'.at = "idle"
      /\ UNCHANGED <<mainVars, tasks, audioSession, freed, sessionVars>>
  BY DEF StopPlayback, PoolAt, Idle
<1>3. TypeOK'
  BY <1>1, <1>2 DEF TypeOK, Idle
<1>4. Made' /\ Stopping'
  BY <1>1, <1>2 DEF Made, Stopping, Created, PoolAt
<1>5. LastStart'
  BY <1>1, <1>2, WhileStopping
<1>6. StoppedThreadsEnded' /\ DeletedIsQuiet'
  BY <1>1, <1>2 DEF StoppedThreadsEnded, DeletedIsQuiet, Joining, Ended
<1> QED BY <1>3, <1>4, <1>5, <1>6 DEF IInv, Threads
-----------------------------------------------------------------------------
LEMMA NextIInv == IInv /\ [Next]_vars => IInv'
<1> SUFFICES ASSUME IInv, [Next]_vars PROVE IInv'
  OBVIOUS
<1>1. CASE \E s \in Session : PlayAsset(s)
  BY <1>1, PlayAssetStep
<1>2. CASE PlayAssetReturns
  BY <1>2, PlayAssetReturnsStep
<1>3. CASE \/ PlayFile \/ DownloadDone \/ PauseCasting \/ StopCasting
           \/ StartListening \/ ServiceResolved \/ LeaveActivity \/ DestroyService
  BY <1>3, CallStep
<1>4. CASE TakeTask
  BY <1>4, TakeTaskStep
<1>5. CASE \E s \in Session : CreateSession(s)
  BY <1>5, CreateSessionStep
<1>6. CASE StoreSession
  BY <1>6, StoreSessionStep
<1>7. CASE StopBegins
  BY <1>7, StopBeginsStep
<1>8. CASE JoinNetwork
  BY <1>8, JoinNetworkStep
<1>9. CASE JoinNTP
  BY <1>9, JoinNTPStep
<1>10. CASE DeleteSession
  BY <1>10, DeleteSessionStep
<1>11. CASE StopPlayback
  BY <1>11, StopPlaybackStep
<1>12. CASE \E s \in Session : NetworkThread(s) \/ NTPThread(s)
  <2>1. PICK s \in Session : NetworkThread(s) \/ NTPThread(s)
    BY <1>12
  <2> QED BY <2>1, ThreadStep
<1>13. CASE UNCHANGED vars
  <2>1. /\ UNCHANGED <<main, casting, downloads, resolving, mayListen, calls, lastCall>>
        /\ UNCHANGED <<tasks, pool, audioSession, freed, kind, isRunning, network, ntp>>
    BY <1>13 DEF vars
  <2>2. TypeOK'
    BY <2>1, ZenonT(60) DEF IInv, TypeOK
  <2>3. Made' /\ Stopping' /\ LastStart'
    BY <2>1 DEF IInv, Made, Stopping, LastStart, Created, PoolAt, Ended
  <2>4. StoppedThreadsEnded' /\ DeletedIsQuiet'
    BY <2>1 DEF IInv, Threads, StoppedThreadsEnded, DeletedIsQuiet, Joining, Ended
  <2> QED BY <2>2, <2>3, <2>4 DEF IInv, Threads
<1> QED BY <1>1, <1>2, <1>3, <1>4, <1>5, <1>6, <1>7, <1>8, <1>9, <1>10, <1>11, <1>12, <1>13
        DEF Next, Main, Pool

LEMMA Invariant == Spec => []IInv
BY InitIInv, NextIInv, PTL DEF Spec
-----------------------------------------------------------------------------
\* When Stop has returned, neither thread of the session is left
\* (AudioStreamSession.h:29-40), also when it returned at once because the
\* session had been stopped before.
THEOREM StopWaits == Spec => []StoppedThreadsEnded
<1>1. IInv => StoppedThreadsEnded
  BY DEF IInv, Threads
<1> QED BY <1>1, Invariant, PTL

\* deinitAudio (AudioCore.cpp:99-105) deletes no session of the pool whose threads
\* still run, whatever the main thread starts while it stops one.
THEOREM DeletesQuietSessions == Spec => []DeletedIsQuiet
<1>1. IInv => DeletedIsQuiet
  BY DEF IInv, Threads
<1> QED BY <1>1, Invariant, PTL

\* Calls take effect in their order (AudioCore.java:95-115): no earlier stop
\* reaches the session that the last start has created.
THEOREM LastStartRuns == Spec => []StartedAtLast
<1>1. IInv => StartedAtLast
  BY DEF IInv, LastStart, StartedAtLast, Quiet, PoolAt
<1> QED BY <1>1, Invariant, PTL

\* Stop and deinitAudio together leave no thread that could use a session they
\* have stopped or deleted.
THEOREM StopIsClean == Spec => []StopsCleanly
<1>1. IInv => StopsCleanly
  BY DEF IInv, Threads, StopsCleanly
<1> QED BY <1>1, Invariant, PTL
-----------------------------------------------------------------------------
(* News on their way.  Of those of one topic the last one counts: when it  *)
(* has been taken, what is shown is what is wanted.                        *)

\* Where news of a topic are in a queue.
Places(q, topic) == {i \in 1..Len(q) : q[i] \in topic}

Settles(q, topic, says, shows, wanted) ==
  /\ Places(q, topic) = {} => shows = wanted
  /\ \A i \in Places(q, topic) : (\A j \in Places(q, topic) : j <= i) => says[q[i]] = wanted

LEMMA AppendPlaces ==
  ASSUME NEW M, NEW q \in Seq(M), NEW m \in M, NEW topic
  PROVE  Places(Append(q, m), topic) = Places(q, topic) \cup (IF m \in topic THEN {Len(q) + 1} ELSE {})
<1>1. /\ Len(Append(q, m)) = Len(q) + 1 /\ Len(q) \in Nat
      /\ Append(q, m)[Len(q) + 1] = m
      /\ \A i \in 1..Len(q) : Append(q, m)[i] = q[i]
  OBVIOUS
<1> QED BY <1>1 DEF Places

LEMMA OtherNews ==
  ASSUME NEW M, NEW q \in Seq(M), NEW m \in M, NEW topic, NEW says, NEW shows, NEW wanted,
         m \notin topic, Settles(q, topic, says, shows, wanted)
  PROVE  Settles(Append(q, m), topic, says, shows, wanted)
<1>0. Places(Append(q, m), topic) = Places(q, topic) \cup (IF m \in topic THEN {Len(q) + 1} ELSE {})
  BY AppendPlaces
<1>1. Places(Append(q, m), topic) = Places(q, topic)
  BY <1>0
<1>2. \A i \in Places(q, topic) : Append(q, m)[i] = q[i]
  BY DEF Places
<1> QED BY <1>1, <1>2 DEF Settles

LEMMA LastNews ==
  ASSUME NEW M, NEW q \in Seq(M), NEW m \in M, NEW topic, NEW says, NEW shows, NEW wanted,
         m \in topic, says[m] = wanted
  PROVE  /\ Settles(Append(q, m), topic, says, shows, wanted)
         /\ Places(Append(q, m), topic) # {}
<1>1. Places(Append(q, m), topic) = Places(q, topic) \cup {Len(q) + 1}
  BY AppendPlaces
<1>2. Append(q, m)[Len(q) + 1] = m /\ Len(q) \in Nat
  OBVIOUS
<1>3. \A i \in Places(q, topic) : i \in 1..Len(q)
  BY DEF Places
<1>4. \A i \in Places(q, topic) : ~(Len(q) + 1 <= i)
  BY <1>2, <1>3
<1> QED BY <1>1, <1>2, <1>4 DEF Settles

LEMMA TailPlaces ==
  ASSUME NEW M, NEW q \in Seq(M), q # <<>>, NEW topic
  PROVE  /\ \A i \in Places(Tail(q), topic) : i + 1 \in Places(q, topic) /\ Tail(q)[i] = q[i + 1]
         /\ \A i \in Places(q, topic) : i = 1 \/ (i - 1 \in Places(Tail(q), topic) /\ Tail(q)[i - 1] = q[i])
         /\ Places(Tail(q), topic) \subseteq Int /\ Places(q, topic) \subseteq Int
         /\ (1 \in Places(q, topic)) = (Head(q) \in topic)
         /\ 0 \notin Places(Tail(q), topic)
<1>1. /\ Len(Tail(q)) = Len(q) - 1 /\ Len(q) \in Nat \ {0} /\ Head(q) = q[1]
      /\ \A i \in 1..(Len(q) - 1) : Tail(q)[i] = q[i + 1]
  OBVIOUS
<1>2. \A i \in Places(Tail(q), topic) : i + 1 \in Places(q, topic) /\ Tail(q)[i] = q[i + 1]
  BY <1>1 DEF Places
<1>3. \A i \in Places(q, topic) : i = 1 \/ (i - 1 \in Places(Tail(q), topic) /\ Tail(q)[i - 1] = q[i])
  BY <1>1 DEF Places
<1> QED BY <1>1, <1>2, <1>3 DEF Places

LEMMA OtherTaken ==
  ASSUME NEW M, NEW q \in Seq(M), q # <<>>, NEW topic, NEW says, NEW shows, NEW wanted,
         Head(q) \notin topic, Settles(q, topic, says, shows, wanted)
  PROVE  Settles(Tail(q), topic, says, shows, wanted)
<1>0. /\ \A i \in Places(Tail(q), topic) : i + 1 \in Places(q, topic) /\ Tail(q)[i] = q[i + 1]
      /\ \A i \in Places(q, topic) : i = 1 \/ (i - 1 \in Places(Tail(q), topic) /\ Tail(q)[i - 1] = q[i])
      /\ Places(Tail(q), topic) \subseteq Int /\ Places(q, topic) \subseteq Int
      /\ 1 \notin Places(q, topic)
  BY TailPlaces
<1>1. \A i \in Places(q, topic) : i - 1 \in Places(Tail(q), topic) /\ Tail(q)[i - 1] = q[i]
  BY <1>0
<1>2. Places(Tail(q), topic) = {} => Places(q, topic) = {}
  BY <1>1
<1>3. ASSUME NEW i \in Places(Tail(q), topic), \A j \in Places(Tail(q), topic) : j <= i
      PROVE  says[Tail(q)[i]] = wanted
  <2>1. i + 1 \in Places(q, topic) /\ Tail(q)[i] = q[i + 1] /\ i \in Int
    BY <1>0
  <2>2. ASSUME NEW j \in Places(q, topic) PROVE j <= i + 1
    <3>1. j \in Int /\ j - 1 <= i
      BY <1>0, <1>1, <1>3
    <3> QED BY <3>1, <2>1
  <2> QED BY <2>1, <2>2 DEF Settles
<1> QED BY <1>2, <1>3 DEF Settles

LEMMA NewsTaken ==
  ASSUME NEW M, NEW q \in Seq(M), q # <<>>, NEW topic, NEW says, NEW shows, NEW wanted,
         Head(q) \in topic, Settles(q, topic, says, shows, wanted)
  PROVE  Settles(Tail(q), topic, says, says[Head(q)], wanted)
<1>1. 1 \in Places(q, topic) /\ Head(q) = q[1]
  BY TailPlaces
<1>2. ASSUME Places(Tail(q), topic) = {} PROVE says[Head(q)] = wanted
  <2>1. \A j \in Places(q, topic) : j <= 1
    BY <1>2, TailPlaces
  <2> QED BY <1>1, <2>1 DEF Settles
<1>3. ASSUME NEW i \in Places(Tail(q), topic), \A j \in Places(Tail(q), topic) : j <= i
      PROVE  says[Tail(q)[i]] = wanted
  <2>1. i + 1 \in Places(q, topic) /\ Tail(q)[i] = q[i + 1] /\ i \in 1..Len(Tail(q)) /\ Len(Tail(q)) \in Nat
    BY TailPlaces DEF Places
  <2>2. ASSUME NEW j \in Places(q, topic) PROVE j <= i + 1
    <3>1. j \in Int /\ (j = 1 \/ j - 1 <= i)
      BY <1>3, TailPlaces
    <3> QED BY <3>1, <2>1
  <2> QED BY <2>1, <2>2 DEF Settles
<1> QED BY <1>2, <1>3 DEF Settles
-----------------------------------------------------------------------------
(* The full screen player.                                                 *)

ScreenTracks == DOMAIN Art \cup {NONE}
StateNews == [state : FullScreen!States]
TrackNews == [track : ScreenTracks]
SaysState == [m \in StateNews |-> m.state]
SaysTrack == [m \in TrackNews |-> m.track]

FullScreenTypes ==
  /\ played \in [state : FullScreen!States, track : ScreenTracks]
  /\ shown \in [state : FullScreen!States, track : ScreenTracks]
  /\ told \in Seq(StateNews \cup TrackNews)
  /\ commands \in Seq({"pause", "play", "seek"})
  /\ scheduled \in BOOLEAN /\ tracking \in BOOLEAN /\ failed \in BOOLEAN

\* The session calls the screen back while that is started and connected.
CalledBack ==
  /\ bound \in {"connecting", "connected"} => screen = "started"
  /\ listening = (bound = "connected")
  /\ ~listening => told = <<>>

\* Whoever stopped the seek bar while the session plays has not been heard yet.
BarMoves ==
  played.state = "playing" /\ ~tracking =>
    scheduled \/ Places(told, StateNews) # {} \/ \E i \in 1..Len(commands) : commands[i] = "pause"

NewsCome ==
  bound = "connected" =>
    /\ Settles(told, StateNews, SaysState, shown.state, played.state)
    /\ Settles(told, TrackNews, SaysTrack, shown.track, played.track)
    /\ BarMoves

FullScreenInv == FullScreenTypes /\ CalledBack /\ NewsCome /\ FullScreen!PictureIsWanted

LEMMA NewsAreOne ==
  /\ \A m \in StateNews : DOMAIN m = {"state"} /\ m.state \in FullScreen!States /\ m \notin TrackNews /\ SaysState[m] = m.state
  /\ \A m \in TrackNews : DOMAIN m = {"track"} /\ m.track \in ScreenTracks /\ m \notin StateNews /\ SaysTrack[m] = m.track
  /\ \A s \in FullScreen!States : [state |-> s] \in StateNews /\ [state |-> s].state = s
  /\ \A t \in ScreenTracks : [track |-> t] \in TrackNews /\ [track |-> t].track = t
<1>1. \A m \in StateNews : DOMAIN m = {"state"} /\ m.state \in FullScreen!States /\ SaysState[m] = m.state
  BY DEF StateNews, SaysState
<1>2. \A m \in TrackNews : DOMAIN m = {"track"} /\ m.track \in ScreenTracks /\ SaysTrack[m] = m.track
  BY DEF TrackNews, SaysTrack
<1>3. {"state"} # {"track"}
  OBVIOUS
<1>4. \A m \in StateNews : m \notin TrackNews
  BY <1>1, <1>2, <1>3
<1>5. \A s \in FullScreen!States : [state |-> s] \in StateNews /\ [state |-> s].state = s
  BY DEF StateNews
<1>6. \A t \in ScreenTracks : [track |-> t] \in TrackNews /\ [track |-> t].track = t
  BY DEF TrackNews
<1> QED BY <1>1, <1>2, <1>4, <1>5, <1>6

LEMMA FullScreenBegins == FullScreen!Init => FullScreenInv
<1> SUFFICES ASSUME FullScreen!Init PROVE FullScreenInv
  OBVIOUS
<1>1. FullScreenTypes
  <2>1. /\ played \in [state : FullScreen!States, track : ScreenTracks]
        /\ shown \in [state : FullScreen!States, track : ScreenTracks]
    BY DEF FullScreen!Init, FullScreen!Blank, FullScreen!States, FullScreen!Tracks, ScreenTracks
  <2>2. told = <<>> /\ commands = <<>> /\ scheduled = FALSE /\ tracking = FALSE /\ failed = FALSE
    BY DEF FullScreen!Init
  <2>3. told \in Seq(StateNews \cup TrackNews) /\ commands \in Seq({"pause", "play", "seek"})
    BY <2>2, EmptySeq
  <2> QED BY <2>1, <2>2, <2>3 DEF FullScreenTypes
<1>2. CalledBack
  BY DEF FullScreen!Init, CalledBack
<1>3. FullScreen!PictureIsWanted
  BY DEF FullScreen!Init, FullScreen!PictureIsWanted
<1>4. NewsCome
  BY DEF FullScreen!Init, NewsCome
<1> QED BY <1>1, <1>2, <1>3, <1>4 DEF FullScreenInv

\* fetchImageAsync, however the picture is found.
LEMMA PictureStaysWanted ==
  ASSUME NEW track, NEW incache, FullScreen!PictureIsWanted, failed \in BOOLEAN,
         FullScreen!fetchImageAsync(track, incache)
  PROVE  FullScreen!PictureIsWanted' /\ failed' \in BOOLEAN
<1>1. CASE UNCHANGED FullScreen!artVars
  BY <1>1 DEF FullScreen!PictureIsWanted, FullScreen!artVars
<1>2. CASE mCurrentArtUrl' = Art[track] /\ failed' = FALSE /\ picture' = Art[track]
  BY <1>2 DEF FullScreen!PictureIsWanted
<1>3. CASE mCurrentArtUrl' = Art[track] /\ failed' = FALSE /\ fetches' = fetches \cup {Art[track]}
  BY <1>3 DEF FullScreen!PictureIsWanted
<1> QED BY <1>1, <1>2, <1>3 DEF FullScreen!fetchImageAsync

LEMMA FullScreenHandles == FullScreenInv /\ FullScreen!Handle => FullScreenInv'
<1> SUFFICES ASSUME FullScreenInv, FullScreen!Handle PROVE FullScreenInv'
  OBVIOUS
<1> USE DEF FullScreenInv
<1>1. PICK m : m = Head(told)
  OBVIOUS
<1>2. /\ told # <<>> /\ told' = Tail(told)
      /\ UNCHANGED <<played, commands, screen, bound, listening, tracking>>
  BY DEF FullScreen!Handle, FullScreen!lifeVars
<1>3. /\ told \in Seq(StateNews \cup TrackNews) /\ m \in StateNews \cup TrackNews
      /\ told' \in Seq(StateNews \cup TrackNews)
  BY <1>1, <1>2 DEF FullScreenTypes
<1>4. CalledBack'
  BY <1>2 DEF CalledBack
<1>5. NewsCome /\ bound = "connected"
  BY <1>2 DEF CalledBack
<1>6. CASE m \in TrackNews
  <2>1. /\ m.track \in ScreenTracks /\ m \notin StateNews /\ "track" \in DOMAIN m /\ SaysTrack[m] = m.track
    BY <1>6, NewsAreOne
  <2>2. /\ shown' = [shown EXCEPT !.track = m.track]
        /\ \E incache \in BOOLEAN : FullScreen!fetchImageAsync(m.track, incache)
        /\ UNCHANGED scheduled
    BY <1>1, <2>1 DEF FullScreen!Handle
  <2>3. FullScreen!PictureIsWanted' /\ failed' \in BOOLEAN
    BY <2>2, PictureStaysWanted DEF FullScreenTypes
  <2>4. FullScreenTypes'
    BY <1>2, <1>3, <2>1, <2>2, <2>3 DEF FullScreenTypes
  <2>5. shown'.state = shown.state /\ shown'.track = m.track
    BY <2>2 DEF FullScreenTypes
  <2>6. Settles(told', StateNews, SaysState, shown.state, played.state)
    BY <1>1, <1>2, <1>3, <1>5, <2>1, OtherTaken DEF NewsCome
  <2>7. Settles(told', TrackNews, SaysTrack, m.track, played.track)
    BY <1>1, <1>2, <1>3, <1>5, <1>6, <2>1, NewsTaken DEF NewsCome
  <2>8. BarMoves'
    <3>1. Places(told, StateNews) # {} => Places(told', StateNews) # {}
      BY <1>1, <1>2, <1>3, <2>1, TailPlaces
    <3> QED BY <1>2, <1>5, <2>2, <3>1 DEF BarMoves, NewsCome
  <2> QED BY <1>2, <1>4, <2>3, <2>4, <2>5, <2>6, <2>7, <2>8 DEF NewsCome
<1>7. CASE m \in StateNews
  <2>1. /\ m.state \in FullScreen!States /\ m \notin TrackNews /\ "track" \notin DOMAIN m /\ SaysState[m] = m.state
    BY <1>7, NewsAreOne
  <2>2. /\ shown' = [shown EXCEPT !.state = m.state]
        /\ scheduled' = FullScreen!StillScheduled(m.state)
        /\ UNCHANGED FullScreen!artVars
    BY <1>1, <2>1 DEF FullScreen!Handle
  <2>3. FullScreen!PictureIsWanted' /\ failed' = failed
    BY <2>2 DEF FullScreen!artVars, FullScreen!PictureIsWanted
  <2>4. FullScreenTypes'
    <3>1. scheduled' \in BOOLEAN
      BY <2>2 DEF FullScreen!StillScheduled, FullScreenTypes
    <3> QED BY <1>2, <1>3, <2>1, <2>2, <2>3, <3>1 DEF FullScreenTypes
  <2>5. shown'.track = shown.track /\ shown'.state = m.state
    BY <2>2 DEF FullScreenTypes
  <2>6. Settles(told', TrackNews, SaysTrack, shown.track, played.track)
    BY <1>1, <1>2, <1>3, <1>5, <2>1, OtherTaken DEF NewsCome
  <2>7. Settles(told', StateNews, SaysState, m.state, played.state)
    BY <1>1, <1>2, <1>3, <1>5, <1>7, <2>1, NewsTaken DEF NewsCome
  <2>8. BarMoves'
    <3>1. ASSUME played.state = "playing", Places(told', StateNews) = {} PROVE scheduled'
      BY <2>2, <2>7, <3>1 DEF Settles, FullScreen!StillScheduled
    <3> QED BY <1>2, <3>1 DEF BarMoves
  <2> QED BY <1>2, <1>4, <2>3, <2>4, <2>5, <2>6, <2>7, <2>8 DEF NewsCome
<1> QED BY <1>3, <1>6, <1>7

LEMMA FullScreenFetches == FullScreenInv /\ FullScreen!FetchEnds => FullScreenInv'
<1> SUFFICES ASSUME FullScreenInv, FullScreen!FetchEnds PROVE FullScreenInv'
  OBVIOUS
<1>1. PICK url \in fetches : fetches' = fetches \ {url} /\ (FullScreen!Fetched(url) \/ FullScreen!NotFetched(url))
  BY DEF FullScreen!FetchEnds
<1>2. UNCHANGED <<played, told, commands, screen, bound, listening, shown, scheduled, tracking>>
  BY DEF FullScreen!FetchEnds, FullScreen!lifeVars, FullScreen!barVars
<1>3. failed' \in BOOLEAN
  BY <1>1 DEF FullScreen!Fetched, FullScreen!NotFetched, FullScreenInv, FullScreenTypes
<1>4. FullScreen!PictureIsWanted'
  BY <1>1 DEF FullScreen!Fetched, FullScreen!NotFetched, FullScreen!PictureIsWanted, FullScreenInv, FullScreenTypes
<1> QED BY <1>2, <1>3, <1>4 DEF FullScreenInv, FullScreenTypes, CalledBack, NewsCome, BarMoves
-----------------------------------------------------------------------------
\* SetState, by the service of itself or on a command.
LEMMA StateIsSet ==
  ASSUME FullScreenInv, NEW s \in FullScreen!States, FullScreen!SetState(s),
         UNCHANGED <<bound, listening, screen, shown, scheduled, tracking>>
  PROVE  /\ played' \in [state : FullScreen!States, track : ScreenTracks]
         /\ told' \in Seq(StateNews \cup TrackNews)
         /\ played'.state = s
         /\ CalledBack'
         /\ bound = "connected" =>
              /\ Settles(told', StateNews, SaysState, shown.state, s)
              /\ Settles(told', TrackNews, SaysTrack, shown.track, played'.track)
              /\ \/ s = played.state /\ told' = told
                 \/ Places(told', StateNews) # {}
<1> USE DEF FullScreenInv
<1>1. /\ played' \in [state : FullScreen!States, track : ScreenTracks]
      /\ played'.state = s /\ played'.track = played.track
  BY DEF FullScreen!SetState, FullScreenTypes
<1>2. CASE s = played.state
  <2>1. told' = told
    BY <1>2 DEF FullScreen!SetState
  <2> QED BY <1>1, <1>2, <2>1 DEF FullScreenTypes, CalledBack, NewsCome
<1>3. CASE s # played.state
  <2>1. PICK m : m = [state |-> s]
    OBVIOUS
  <2>2. m \in StateNews /\ m \notin TrackNews /\ SaysState[m] = s
    BY <2>1, NewsAreOne
  <2>3. told' = IF listening THEN Append(told, m) ELSE told
    BY <1>3, <2>1 DEF FullScreen!SetState, FullScreen!Tell
  <2>4. told \in Seq(StateNews \cup TrackNews) /\ m \in StateNews \cup TrackNews
    BY <2>2 DEF FullScreenTypes
  <2>5. told' \in Seq(StateNews \cup TrackNews)
    BY <2>3, <2>4
  <2>6. CalledBack'
    BY <2>3 DEF CalledBack
  <2>7. CASE bound = "connected"
    <3>1. told' = Append(told, m)
      BY <2>3, <2>7 DEF CalledBack
    <3>2. Settles(Append(told, m), StateNews, SaysState, shown.state, s) /\ Places(Append(told, m), StateNews) # {}
      BY <2>2, <2>4, LastNews
    <3>3. Settles(told, TrackNews, SaysTrack, shown.track, played.track)
      BY <2>7 DEF NewsCome
    <3>4. Settles(Append(told, m), TrackNews, SaysTrack, shown.track, played.track)
      BY <2>2, <2>4, <3>3, OtherNews
    <3> QED BY <1>1, <2>5, <2>6, <3>1, <3>2, <3>4
  <2> QED BY <1>1, <2>5, <2>6, <2>7
<1> QED BY <1>2, <1>3

LEMMA FullScreenChanges == FullScreenInv /\ FullScreen!SessionChanges => FullScreenInv'
<1> SUFFICES ASSUME FullScreenInv, FullScreen!SessionChanges PROVE FullScreenInv'
  OBVIOUS
<1>1. UNCHANGED <<commands, screen, bound, listening, shown, scheduled, tracking, mCurrentArtUrl, picture, fetches, failed>>
  BY DEF FullScreen!SessionChanges, FullScreen!lifeVars, FullScreen!barVars, FullScreen!artVars
<1>2. FullScreen!PictureIsWanted'
  BY <1>1 DEF FullScreen!PictureIsWanted, FullScreenInv
<1>3. CASE \E s \in FullScreen!States : FullScreen!SetState(s)
  <2>1. PICK s \in FullScreen!States : FullScreen!SetState(s)
    BY <1>3
  <2>2. /\ played' \in [state : FullScreen!States, track : ScreenTracks]
        /\ told' \in Seq(StateNews \cup TrackNews)
        /\ played'.state = s
        /\ CalledBack'
        /\ bound = "connected" =>
             /\ Settles(told', StateNews, SaysState, shown.state, s)
             /\ Settles(told', TrackNews, SaysTrack, shown.track, played'.track)
             /\ \/ s = played.state /\ told' = told
                \/ Places(told', StateNews) # {}
    BY <1>1, <2>1, StateIsSet
  <2>3. FullScreenTypes'
    BY <1>1, <2>2 DEF FullScreenInv, FullScreenTypes
  <2>4. NewsCome'
    BY <1>1, <2>2 DEF FullScreenInv, NewsCome, BarMoves
  <2> QED BY <1>2, <2>2, <2>3, <2>4 DEF FullScreenInv
<1>4. CASE \E t \in FullScreen!Tracks : played' = [played EXCEPT !.track = t] /\ FullScreen!Tell([track |-> t])
  <2>1. PICK t \in FullScreen!Tracks : played' = [played EXCEPT !.track = t] /\ FullScreen!Tell([track |-> t])
    BY <1>4
  <2>2. PICK m : m = [track |-> t]
    OBVIOUS
  <2>3. t \in ScreenTracks
    BY DEF ScreenTracks, FullScreen!Tracks
  <2>4. m \in TrackNews /\ m \notin StateNews /\ SaysTrack[m] = t
    BY <2>2, <2>3, NewsAreOne
  <2>5. /\ played' \in [state : FullScreen!States, track : ScreenTracks]
        /\ played'.state = played.state /\ played'.track = t
    BY <2>1, <2>3 DEF FullScreenInv, FullScreenTypes
  <2>6. told' = IF listening THEN Append(told, m) ELSE told
    BY <2>1, <2>2 DEF FullScreen!Tell
  <2>7. told \in Seq(StateNews \cup TrackNews) /\ m \in StateNews \cup TrackNews
    BY <2>4 DEF FullScreenInv, FullScreenTypes
  <2>8. told' \in Seq(StateNews \cup TrackNews)
    BY <2>6, <2>7
  <2>9. FullScreenTypes'
    BY <1>1, <2>5, <2>8 DEF FullScreenInv, FullScreenTypes
  <2>10. CalledBack'
    BY <1>1, <2>6 DEF CalledBack, FullScreenInv
  <2>11. ASSUME bound = "connected" PROVE NewsCome'
    <3>1. told' = Append(told, m) /\ NewsCome
      BY <2>6, <2>11 DEF CalledBack, FullScreenInv
    <3>2. Settles(Append(told, m), TrackNews, SaysTrack, shown.track, t)
      BY <2>4, <2>7, LastNews
    <3>3. Settles(told, StateNews, SaysState, shown.state, played.state) /\ BarMoves
      BY <2>11, <3>1 DEF NewsCome
    <3>4. Settles(Append(told, m), StateNews, SaysState, shown.state, played.state)
      BY <2>4, <2>7, <3>3, OtherNews
    <3>5. Places(Append(told, m), StateNews) = Places(told, StateNews)
      <4>1. Places(Append(told, m), StateNews) =
              Places(told, StateNews) \cup (IF m \in StateNews THEN {Len(told) + 1} ELSE {})
        BY <2>4, <2>7, AppendPlaces
      <4> QED BY <2>4, <4>1
    <3>6. BarMoves'
      BY <1>1, <2>5, <3>1, <3>3, <3>5 DEF BarMoves
    <3> QED BY <1>1, <2>5, <3>1, <3>2, <3>4, <3>6 DEF NewsCome
  <2> QED BY <1>1, <1>2, <2>9, <2>10, <2>11 DEF FullScreenInv, NewsCome
<1> QED BY <1>3, <1>4 DEF FullScreen!SessionChanges

LEMMA FullScreenObeys == FullScreenInv /\ FullScreen!Obeys => FullScreenInv'
<1> SUFFICES ASSUME FullScreenInv, FullScreen!Obeys PROVE FullScreenInv'
  OBVIOUS
<1>1. /\ UNCHANGED <<screen, bound, listening, shown, scheduled, tracking, mCurrentArtUrl, picture, fetches, failed>>
      /\ commands # <<>> /\ commands' = Tail(commands)
  BY DEF FullScreen!Obeys, FullScreen!lifeVars, FullScreen!barVars, FullScreen!artVars
<1>2. FullScreen!PictureIsWanted'
  BY <1>1 DEF FullScreen!PictureIsWanted, FullScreenInv
<1>3. /\ commands \in Seq({"pause", "play", "seek"}) /\ Head(commands) = commands[1]
      /\ Head(commands) \in {"pause", "play", "seek"}
      /\ commands' \in Seq({"pause", "play", "seek"})
      /\ \A i \in 1..Len(commands) : i # 1 => i - 1 \in 1..Len(commands') /\ commands'[i - 1] = commands[i]
  BY <1>1 DEF FullScreenInv, FullScreenTypes
<1>4. ASSUME NEW s \in FullScreen!States \ {"playing"}, FullScreen!SetState(s) PROVE FullScreenInv'
  <2>1. /\ played' \in [state : FullScreen!States, track : ScreenTracks]
        /\ told' \in Seq(StateNews \cup TrackNews)
        /\ played'.state = s
        /\ CalledBack'
        /\ bound = "connected" =>
             /\ Settles(told', StateNews, SaysState, shown.state, s)
             /\ Settles(told', TrackNews, SaysTrack, shown.track, played'.track)
    BY <1>1, <1>4, StateIsSet
  <2>2. FullScreenTypes'
    BY <1>1, <1>3, <2>1 DEF FullScreenInv, FullScreenTypes
  <2>3. NewsCome'
    BY <1>1, <2>1 DEF NewsCome, BarMoves
  <2> QED BY <1>2, <2>1, <2>2, <2>3 DEF FullScreenInv
<1>5. CASE Head(commands) = "pause"
  BY <1>4, <1>5 DEF FullScreen!Obeys, FullScreen!States
<1>6. CASE Head(commands) = "play"
  BY <1>4, <1>6 DEF FullScreen!Obeys, FullScreen!States
<1>7. CASE Head(commands) = "seek"
  <2>1. UNCHANGED <<played, told>>
    BY <1>7 DEF FullScreen!Obeys
  <2>2. FullScreenTypes' /\ CalledBack'
    BY <1>1, <1>3, <2>1 DEF FullScreenInv, FullScreenTypes, CalledBack
  <2>3. (\E i \in 1..Len(commands) : commands[i] = "pause") => \E i \in 1..Len(commands') : commands'[i] = "pause"
    BY <1>3, <1>7
  <2> QED BY <1>1, <1>2, <2>1, <2>2, <2>3 DEF FullScreenInv, NewsCome, BarMoves
<1> QED BY <1>3, <1>5, <1>6, <1>7

LEMMA FullScreenClicks == FullScreenInv /\ FullScreen!ClickPlayPause => FullScreenInv'
<1> SUFFICES ASSUME FullScreenInv, FullScreen!ClickPlayPause PROVE FullScreenInv'
  OBVIOUS
<1>1. UNCHANGED <<played, told, screen, bound, listening, shown, tracking, mCurrentArtUrl, picture, fetches, failed>>
  BY DEF FullScreen!ClickPlayPause, FullScreen!lifeVars, FullScreen!artVars
<1>2. \/ commands' = Append(commands, "pause") /\ scheduled' = FALSE
      \/ commands' = Append(commands, "play") /\ scheduled' = TRUE
  BY DEF FullScreen!ClickPlayPause
<1>3. commands \in Seq({"pause", "play", "seek"})
  BY DEF FullScreenInv, FullScreenTypes
<1>4. commands' \in Seq({"pause", "play", "seek"}) /\ (scheduled' \/ \E i \in 1..Len(commands') : commands'[i] = "pause")
  <2>1. CASE commands' = Append(commands, "pause")
    <3>1. Len(commands') = Len(commands) + 1 /\ commands'[Len(commands) + 1] = "pause" /\ Len(commands) \in Nat
      BY <1>3, <2>1
    <3>2. Len(commands) + 1 \in 1..Len(commands')
      BY <3>1
    <3> QED BY <1>3, <2>1, <3>1, <3>2
  <2>2. CASE commands' = Append(commands, "play") /\ scheduled'
    BY <1>3, <2>2
  <2> QED BY <1>2, <2>1, <2>2
<1>5. FullScreenTypes' /\ CalledBack'
  BY <1>1, <1>2, <1>4 DEF FullScreenInv, FullScreenTypes, CalledBack
<1>6. FullScreen!PictureIsWanted'
  BY <1>1 DEF FullScreen!PictureIsWanted, FullScreenInv
<1> QED BY <1>1, <1>4, <1>5, <1>6 DEF FullScreenInv, NewsCome, BarMoves

LEMMA FullScreenSeeks ==
  FullScreenInv /\ (FullScreen!onStartTrackingTouch \/ FullScreen!onStopTrackingTouch) => FullScreenInv'
<1> SUFFICES ASSUME FullScreenInv, FullScreen!onStartTrackingTouch \/ FullScreen!onStopTrackingTouch
             PROVE  FullScreenInv'
  OBVIOUS
<1>1. UNCHANGED <<played, told, screen, bound, listening, shown, mCurrentArtUrl, picture, fetches, failed>>
  BY DEF FullScreen!onStartTrackingTouch, FullScreen!onStopTrackingTouch, FullScreen!lifeVars, FullScreen!artVars
<1>2. \/ tracking' = TRUE /\ scheduled' = FALSE /\ commands' = commands
      \/ tracking' = FALSE /\ scheduled' = TRUE /\ commands' = Append(commands, "seek")
  BY DEF FullScreen!onStartTrackingTouch, FullScreen!onStopTrackingTouch
<1>3. FullScreenTypes' /\ CalledBack'
  <2>1. commands \in Seq({"pause", "play", "seek"}) /\ "seek" \in {"pause", "play", "seek"}
    BY DEF FullScreenInv, FullScreenTypes
  <2>2. Append(commands, "seek") \in Seq({"pause", "play", "seek"})
    BY <2>1
  <2>3. commands' \in Seq({"pause", "play", "seek"})
    BY <1>2, <2>1, <2>2
  <2>4. scheduled' \in BOOLEAN /\ tracking' \in BOOLEAN
    BY <1>2
  <2> QED BY <1>1, <2>3, <2>4 DEF FullScreenInv, FullScreenTypes, CalledBack
<1>4. FullScreen!PictureIsWanted'
  BY <1>1 DEF FullScreen!PictureIsWanted, FullScreenInv
<1> QED BY <1>1, <1>2, <1>3, <1>4 DEF FullScreenInv, NewsCome, BarMoves

LEMMA FullScreenOpens ==
  ASSUME FullScreenInv, NEW t \in FullScreen!Tracks \cup {NONE}, NEW incache, FullScreen!onCreate(t, incache)
  PROVE  FullScreenInv'
<1>1. /\ UNCHANGED <<played, told, commands, bound, listening, scheduled, tracking>>
      /\ screen = "none"
  BY DEF FullScreen!onCreate, FullScreen!barVars
<1>2. FullScreen!PictureIsWanted' /\ failed' \in BOOLEAN
  BY PictureStaysWanted DEF FullScreen!onCreate, FullScreenInv, FullScreenTypes
<1>3. shown' \in [state : FullScreen!States, track : ScreenTracks]
  BY DEF FullScreen!onCreate, FullScreen!Blank, FullScreen!States, ScreenTracks, FullScreen!Tracks
<1>4. bound # "connected" /\ bound # "connecting"
  BY <1>1 DEF FullScreenInv, CalledBack
<1> QED BY <1>1, <1>2, <1>3, <1>4 DEF FullScreenInv, FullScreenTypes, CalledBack, NewsCome

LEMMA FullScreenConnects ==
  ASSUME FullScreenInv, NEW incache, FullScreen!onConnected(incache)
  PROVE  FullScreenInv'
<1>1. /\ UNCHANGED <<played, told, commands, screen, tracking>> /\ bound = "connecting"
  BY DEF FullScreen!onConnected
<1>2. told = <<>> /\ screen = "started" /\ ~listening
  BY <1>1 DEF FullScreenInv, CalledBack
<1>3. CASE played.track = NONE
  <2>1. bound' = "finishing" /\ UNCHANGED <<listening, shown, scheduled, mCurrentArtUrl, picture, fetches, failed>>
    BY <1>3 DEF FullScreen!onConnected, FullScreen!artVars
  <2>2. FullScreen!PictureIsWanted'
    BY <2>1 DEF FullScreen!PictureIsWanted, FullScreenInv
  <2> QED BY <1>1, <1>2, <2>1, <2>2 DEF FullScreenInv, FullScreenTypes, CalledBack, NewsCome
<1>4. CASE played.track # NONE
  <2>1. /\ bound' = "connected" /\ listening' = TRUE /\ shown' = played
        /\ scheduled' = (FullScreen!StillScheduled(played.state) \/ played.state \in {"playing", "buffering"})
        /\ FullScreen!fetchImageAsync(played.track, incache)
    BY <1>4 DEF FullScreen!onConnected
  <2>2. FullScreen!PictureIsWanted' /\ failed' \in BOOLEAN
    BY <2>1, PictureStaysWanted DEF FullScreenInv, FullScreenTypes
  <2>3. FullScreenTypes'
    BY <1>1, <2>1, <2>2 DEF FullScreenInv, FullScreenTypes
  <2>4. CalledBack'
    BY <1>1, <1>2, <2>1 DEF CalledBack
  <2>5. \A topic : Places(<<>>, topic) = {}
    BY DEF Places
  <2>6. NewsCome'
    BY <1>1, <1>2, <2>1, <2>5 DEF NewsCome, BarMoves, Settles
  <2> QED BY <2>2, <2>3, <2>4, <2>6 DEF FullScreenInv
<1> QED BY <1>3, <1>4

LEMMA FullScreenLives ==
  FullScreenInv /\ (FullScreen!onStart \/ FullScreen!onStop \/ FullScreen!onDestroy) => FullScreenInv'
<1> USE DEF FullScreenInv
<1>1. ASSUME FullScreenInv, FullScreen!onStart PROVE FullScreenInv'
  <2>1. /\ UNCHANGED <<played, told, commands, listening, shown, scheduled, tracking, mCurrentArtUrl, picture, fetches, failed>>
        /\ screen' = "started" /\ bound = "off" /\ bound' = "connecting"
    BY <1>1 DEF FullScreen!onStart, FullScreen!barVars, FullScreen!artVars
  <2>2. FullScreen!PictureIsWanted'
    BY <1>1, <2>1 DEF FullScreen!PictureIsWanted
  <2> QED BY <1>1, <2>1, <2>2 DEF FullScreenTypes, CalledBack, NewsCome
<1>2. ASSUME FullScreenInv, FullScreen!onStop PROVE FullScreenInv'
  <2>1. /\ UNCHANGED <<played, commands, shown, scheduled, mCurrentArtUrl, picture, fetches, failed>>
        /\ listening' = FALSE /\ told' = <<>> /\ tracking' = FALSE
        /\ screen = "started" /\ bound' \in {"off", "finishing"}
    BY <1>2 DEF FullScreen!onStop, FullScreen!artVars
  <2>2. FullScreen!PictureIsWanted'
    BY <1>2, <2>1 DEF FullScreen!PictureIsWanted
  <2>3. told' \in Seq(StateNews \cup TrackNews)
    BY <2>1, EmptySeq
  <2> QED BY <1>2, <2>1, <2>2, <2>3 DEF FullScreenTypes, CalledBack, NewsCome
<1>3. ASSUME FullScreenInv, FullScreen!onDestroy PROVE FullScreenInv'
  <2>1. /\ UNCHANGED <<played, told, commands, listening, tracking>>
        /\ screen = "stopped" /\ bound' = "off" /\ scheduled' = FALSE /\ shown' = FullScreen!Blank
        /\ mCurrentArtUrl' = NONE /\ picture' = NONE /\ failed' = FALSE
    BY <1>3 DEF FullScreen!onDestroy
  <2>2. FullScreen!PictureIsWanted'
    BY <2>1 DEF FullScreen!PictureIsWanted
  <2>3. shown' \in [state : FullScreen!States, track : ScreenTracks]
    BY <2>1 DEF FullScreen!Blank, FullScreen!States, ScreenTracks
  <2> QED BY <1>3, <2>1, <2>2, <2>3 DEF FullScreenTypes, CalledBack, NewsCome
<1> QED BY <1>1, <1>2, <1>3

LEMMA FullScreenStep == FullScreenInv /\ [FullScreen!Next]_fullScreenVars => FullScreenInv'
<1> SUFFICES ASSUME FullScreenInv, [FullScreen!Next]_fullScreenVars PROVE FullScreenInv'
  OBVIOUS
<1>1. CASE UNCHANGED fullScreenVars
  BY <1>1 DEF fullScreenVars, FullScreenInv, FullScreenTypes, CalledBack, NewsCome, BarMoves,
              FullScreen!PictureIsWanted
<1>2. CASE FullScreen!Next
  BY <1>2, FullScreenHandles, FullScreenFetches, FullScreenChanges, FullScreenObeys, FullScreenClicks,
     FullScreenSeeks, FullScreenOpens, FullScreenConnects, FullScreenLives DEF FullScreen!Next
<1> QED BY <1>1, <1>2

LEMMA FullScreenRests == FullScreenInv => FullScreenIsCurrent
<1> SUFFICES ASSUME FullScreenInv PROVE FullScreenIsCurrent
  OBVIOUS
<1>1. ASSUME bound = "connected", told = <<>>, commands = <<>>
      PROVE  shown = played /\ (played.state = "playing" /\ ~tracking => scheduled)
  <2>1. \A topic : Places(<<>>, topic) = {}
    BY DEF Places
  <2>2. NewsCome /\ FullScreenTypes
    BY DEF FullScreenInv
  <2>3. shown.state = played.state /\ shown.track = played.track
    BY <1>1, <2>1, <2>2 DEF NewsCome, Settles
  <2> QED BY <1>1, <2>1, <2>2, <2>3 DEF NewsCome, BarMoves, FullScreenTypes
<1> QED BY <1>1 DEF FullScreenIsCurrent, FullScreen!FollowsSession, FullScreenInv
-----------------------------------------------------------------------------
(* The numbers of a set in order, and the news that are left when some     *)
(* callbacks are unregistered.                                             *)

Below(S, i) == {j \in S : j <= i}

Enumerates(o, S) ==
  /\ o \in [1..Cardinality(S) -> S]
  /\ \A i, j \in 1..Cardinality(S) : i < j => o[i] < o[j]
  /\ \A x \in S : \E i \in 1..Cardinality(S) : o[i] = x

LEMMA RankGrows ==
  ASSUME NEW S \in SUBSET Int, IsFiniteSet(S)
  PROVE  /\ \A i \in S : Cardinality(Below(S, i)) \in 1..Cardinality(S)
         /\ \A i, j \in S : i < j => Cardinality(Below(S, i)) < Cardinality(Below(S, j))
<1>1. \A i \in S : Below(S, i) \in SUBSET S /\ i \in Below(S, i)
  BY DEF Below
<1>2. \A i \in S : IsFiniteSet(Below(S, i)) /\ Cardinality(Below(S, i)) <= Cardinality(S)
  BY <1>1, FS_Subset
<1>3. \A i \in S : Cardinality(Below(S, i)) \in Nat /\ Cardinality(S) \in Nat
  BY <1>2, FS_CardinalityType
<1>4. \A i \in S : Cardinality(Below(S, i)) # 0
  BY <1>1, <1>2, FS_EmptySet
<1>5. ASSUME NEW i \in S, NEW j \in S, i < j
      PROVE  Cardinality(Below(S, i)) < Cardinality(Below(S, j))
  <2>1. Below(S, i) \in SUBSET Below(S, j)
    <3>1. \A x \in S : x <= i => x <= j
      BY <1>5
    <3> QED BY <3>1 DEF Below
  <2>2. j \in Below(S, j) /\ j \notin Below(S, i)
    BY <1>5 DEF Below
  <2>3. Cardinality(Below(S, i)) <= Cardinality(Below(S, j)) /\ Cardinality(Below(S, i)) # Cardinality(Below(S, j))
    BY <1>2, <2>1, <2>2, FS_Subset
  <2> QED BY <1>3, <2>3
<1> QED BY <1>2, <1>3, <1>4, <1>5

LEMMA RanksEnumerate ==
  ASSUME NEW S \in SUBSET Int, IsFiniteSet(S), NEW o,
         (\A k \in 1..Cardinality(S) : \E i \in S : Cardinality(Below(S, i)) = k) =>
           o \in [1..Cardinality(S) -> S] /\ \A k \in 1..Cardinality(S) : Cardinality(Below(S, o[k])) = k
  PROVE  Enumerates(o, S)
<1> DEFINE n == Cardinality(S)
           rank == [i \in S |-> Cardinality(Below(S, i))]
<1>1. n \in Nat /\ IsFiniteSet(1..n) /\ Cardinality(1..n) = n
  BY FS_CardinalityType, FS_Interval
<1>2. rank \in [S -> 1..n]
  BY RankGrows
<1>3. \A i, j \in S : rank[i] = rank[j] => i = j
  <2> SUFFICES ASSUME NEW i \in S, NEW j \in S, i # j PROVE rank[i] # rank[j]
    OBVIOUS
  <2>1. i \in Int /\ j \in Int
    OBVIOUS
  <2>2. rank[i] \in Int /\ rank[j] \in Int
    BY <1>1, <1>2
  <2>3. i < j \/ j < i
    BY <2>1
  <2>4. rank[i] < rank[j] \/ rank[j] < rank[i]
    BY <2>3, RankGrows
  <2> QED BY <2>2, <2>4
<1>4. rank \in Injection(S, 1..n)
  BY <1>2, <1>3 DEF Injection, IsInjective
<1>5. rank \in Surjection(S, 1..n)
  BY <1>1, <1>4, FS_Injection
<1>6. \A k \in 1..n : \E i \in S : Cardinality(Below(S, i)) = k
  BY <1>5 DEF Surjection
<1>7. \A k \in 1..n : o[k] \in S /\ Cardinality(Below(S, o[k])) = k
  BY <1>6
<1>8. ASSUME NEW i \in 1..n, NEW j \in 1..n, i < j PROVE o[i] < o[j]
  <2>1. o[i] \in S /\ o[j] \in S /\ o[i] \in Int /\ o[j] \in Int
    BY <1>7
  <2>2. ~(o[j] < o[i])
    BY <1>1, <1>7, <1>8, <2>1, RankGrows
  <2>3. o[i] # o[j]
    BY <1>1, <1>7, <1>8
  <2> QED BY <2>1, <2>2, <2>3
<1>9. ASSUME NEW x \in S PROVE \E i \in 1..n : o[i] = x
  <2>1. rank[x] \in 1..n
    BY <1>2
  <2>2. o[rank[x]] \in S /\ Cardinality(Below(S, o[rank[x]])) = rank[x]
    BY <1>7, <2>1
  <2>3. rank[o[rank[x]]] = rank[x]
    BY <2>2
  <2> QED BY <1>3, <2>1, <2>2, <2>3
<1>10. o \in [1..n -> S]
  BY <1>7
<1> QED BY <1>8, <1>9, <1>10 DEF Enumerates

Picked(q, o) == [k \in 1..Len(o) |-> q[o[k]]]

LEMMA PickedNews ==
  ASSUME NEW M, NEW q \in Seq(M), NEW at \in SUBSET (1..Len(q)), NEW o, Enumerates(o, at)
  PROVE  /\ Len(o) \in Nat /\ Len(o) = Cardinality(at) /\ o \in [1..Len(o) -> at]
         /\ Picked(q, o) \in Seq(M) /\ Len(Picked(q, o)) = Len(o)
         /\ \A k \in 1..Len(o) : Picked(q, o)[k] = q[o[k]] /\ o[k] \in at /\ o[k] \in 1..Len(q)
<1>1. IsFiniteSet(1..Len(q)) /\ Len(q) \in Nat
  BY FS_Interval
<1>2. IsFiniteSet(at)
  BY <1>1, FS_Subset
<1>3. Cardinality(at) \in Nat
  BY <1>2, FS_CardinalityType
<1>4. Len(o) = Cardinality(at) /\ o \in [1..Cardinality(at) -> at]
  BY <1>3 DEF Enumerates
<1>5. \A k \in 1..Len(o) : o[k] \in at /\ o[k] \in 1..Len(q)
  BY <1>3, <1>4
<1>6. \A k \in 1..Len(o) : q[o[k]] \in M
  BY <1>5
<1>7. Picked(q, o) \in [1..Len(o) -> M]
  BY <1>6 DEF Picked
<1>8. Picked(q, o) \in Seq(M) /\ Len(Picked(q, o)) = Len(o)
  BY <1>3, <1>4, <1>7
<1>9. \A k \in 1..Len(o) : Picked(q, o)[k] = q[o[k]]
  BY DEF Picked
<1> QED BY <1>3, <1>4, <1>5, <1>8, <1>9

LEMMA PickedSettle ==
  ASSUME NEW M, NEW q \in Seq(M), NEW at \in SUBSET (1..Len(q)), NEW o, Enumerates(o, at),
         NEW topic, NEW says, NEW shows, NEW wanted, Places(q, topic) \subseteq at,
         Settles(q, topic, says, shows, wanted)
  PROVE  Settles(Picked(q, o), topic, says, shows, wanted)
<1> DEFINE p == Picked(q, o)
           n == Cardinality(at)
<1>1. /\ n \in Nat /\ Len(o) = n /\ o \in [1..n -> at]
      /\ Len(p) = n /\ \A k \in 1..n : p[k] = q[o[k]] /\ o[k] \in 1..Len(q)
  <2>1. /\ Len(o) \in Nat /\ Len(o) = Cardinality(at) /\ o \in [1..Len(o) -> at]
        /\ Picked(q, o) \in Seq(M) /\ Len(Picked(q, o)) = Len(o)
        /\ \A k \in 1..Len(o) : Picked(q, o)[k] = q[o[k]] /\ o[k] \in at /\ o[k] \in 1..Len(q)
    BY PickedNews
  <2> QED BY <2>1
<1>2. \A x \in at : \E k \in 1..n : o[k] = x
  BY DEF Enumerates
<1>3. \A i, j \in 1..n : i < j => o[i] < o[j]
  BY DEF Enumerates
<1> HIDE DEF p, n
<1>4. \A k \in Places(p, topic) : k \in 1..n /\ o[k] \in Places(q, topic) /\ p[k] = q[o[k]]
  BY <1>1 DEF Places
<1>5. \A x \in Places(q, topic) : \E k \in Places(p, topic) : o[k] = x
  <2> SUFFICES ASSUME NEW x \in Places(q, topic) PROVE \E k \in Places(p, topic) : o[k] = x
    OBVIOUS
  <2>1. PICK k \in 1..n : o[k] = x
    BY <1>2
  <2>2. p[k] = q[x] /\ q[x] \in topic
    BY <1>1, <2>1 DEF Places
  <2> QED BY <1>1, <2>1, <2>2 DEF Places
<1>6. Places(p, topic) = {} => shows = wanted
  BY <1>5 DEF Settles
<1>7. ASSUME NEW i \in Places(p, topic), \A j \in Places(p, topic) : j <= i
      PROVE  says[p[i]] = wanted
  <2>1. i \in 1..n /\ o[i] \in Places(q, topic) /\ p[i] = q[o[i]]
    BY <1>4
  <2>2. ASSUME NEW x \in Places(q, topic) PROVE x <= o[i]
    <3>1. PICK k \in Places(p, topic) : o[k] = x
      BY <1>5
    <3>2. k \in 1..n /\ k <= i
      BY <1>4, <1>7
    <3>3. k = i \/ o[k] < o[i]
      BY <1>1, <1>3, <2>1, <3>2
    <3> QED BY <1>1, <2>1, <3>1, <3>2, <3>3
  <2> QED BY <2>1, <2>2 DEF Settles
<1> QED BY <1>6, <1>7 DEF Settles, p

LEMMA BatchPlaces ==
  ASSUME NEW M, NEW q \in Seq(M), NEW b \in Seq(M), NEW topic
  PROVE  /\ Places(q \o b, topic) = Places(q, topic) \cup {Len(q) + i : i \in Places(b, topic)}
         /\ \A i \in Places(q, topic) : (q \o b)[i] = q[i] /\ i \in 1..Len(q)
         /\ \A i \in Places(b, topic) : (q \o b)[Len(q) + i] = b[i] /\ i \in 1..Len(b)
         /\ Len(q) \in Nat /\ Len(b) \in Nat
<1>1. /\ Len(q \o b) = Len(q) + Len(b) /\ Len(q) \in Nat /\ Len(b) \in Nat
      /\ \A i \in 1..Len(q) : (q \o b)[i] = q[i]
      /\ \A i \in 1..Len(b) : (q \o b)[Len(q) + i] = b[i]
  OBVIOUS
<1>2. \A i \in 1..(Len(q) + Len(b)) : i \in 1..Len(q) \/ (i - Len(q) \in 1..Len(b) /\ i = Len(q) + (i - Len(q)))
  BY <1>1
<1>3. \A i \in Places(q \o b, topic) : i \in Places(q, topic) \/ (i - Len(q) \in Places(b, topic) /\ i = Len(q) + (i - Len(q)))
  BY <1>1, <1>2 DEF Places
<1>4. \A i \in Places(q, topic) : i \in Places(q \o b, topic)
  BY <1>1 DEF Places
<1>5. \A i \in Places(b, topic) : Len(q) + i \in Places(q \o b, topic)
  BY <1>1 DEF Places
<1>6. Places(q \o b, topic) = Places(q, topic) \cup {Len(q) + i : i \in Places(b, topic)}
  BY <1>3, <1>4, <1>5
<1> QED BY <1>1, <1>6 DEF Places

LEMMA OtherBatch ==
  ASSUME NEW M, NEW q \in Seq(M), NEW b \in Seq(M), NEW topic, NEW says, NEW shows, NEW wanted,
         Places(b, topic) = {}, Settles(q, topic, says, shows, wanted)
  PROVE  Settles(q \o b, topic, says, shows, wanted)
<1>1. /\ Places(q \o b, topic) = Places(q, topic) \cup {Len(q) + i : i \in Places(b, topic)}
      /\ \A i \in Places(q, topic) : (q \o b)[i] = q[i]
  BY BatchPlaces
<1>2. Places(q \o b, topic) = Places(q, topic)
  BY <1>1
<1> QED BY <1>1, <1>2 DEF Settles

LEMMA NewsBatch ==
  ASSUME NEW M, NEW q \in Seq(M), NEW b \in Seq(M), NEW topic, NEW says, NEW shows, NEW wanted,
         Places(b, topic) # {}, \A i \in Places(b, topic) : says[b[i]] = wanted
  PROVE  Settles(q \o b, topic, says, shows, wanted) /\ Places(q \o b, topic) # {}
<1>1. /\ Places(q \o b, topic) = Places(q, topic) \cup {Len(q) + i : i \in Places(b, topic)}
      /\ \A i \in Places(q, topic) : (q \o b)[i] = q[i] /\ i \in 1..Len(q)
      /\ \A i \in Places(b, topic) : (q \o b)[Len(q) + i] = b[i] /\ i \in 1..Len(b)
      /\ Len(q) \in Nat /\ Len(b) \in Nat
  BY BatchPlaces
<1>2. PICK e \in Places(b, topic) : TRUE
  OBVIOUS
<1>3. Len(q) + e \in Places(q \o b, topic) /\ e \in 1..Len(b)
  BY <1>1
<1>4. ASSUME NEW i \in Places(q \o b, topic), \A j \in Places(q \o b, topic) : j <= i
      PROVE  says[(q \o b)[i]] = wanted
  <2>1. CASE i \in Places(q, topic)
    <3>1. i \in 1..Len(q) /\ Len(q) + e <= i
      BY <1>1, <1>3, <1>4, <2>1
    <3> QED BY <1>1, <1>3, <3>1
  <2>2. CASE \E k \in Places(b, topic) : i = Len(q) + k
    BY <1>1, <2>2
  <2> QED BY <1>1, <2>1, <2>2
<1> QED BY <1>3, <1>4 DEF Settles
-----------------------------------------------------------------------------
(* The main screen.                                                        *)

Callbacks == {"activity", "controls", "list"}
Registrations == Callbacks \X Nat
StateChanged == [state : Screen!States]
TrackChanged == [track : Songs]
Messages == [to : Registrations, news : StateChanged \cup TrackChanged]
NewState == [m \in Messages |-> m.news.state]
NewTrack == [m \in Messages |-> m.news.track]

StatesTo(r) == {m \in Messages : m.to = r /\ m.news \in StateChanged}
TracksTo(r) == {m \in Messages : m.to = r /\ m.news \in TrackChanged}
ControlsStates == {m \in Messages : m.to[1] = "controls" /\ m.news \in StateChanged}
ControlsTracks == {m \in Messages : m.to[1] = "controls" /\ m.news \in TrackChanged}
ActivityNews == {m \in Messages : m.to[1] = "activity"}

MainTypes ==
  /\ session \in [state : Screen!States, track : Songs \cup {NONE}]
  /\ online \in BOOLEAN /\ missed \in BOOLEAN
  /\ controls \in [visible : BOOLEAN, track : Songs \cup {NONE}, enablePlay : BOOLEAN]
  /\ messages \in Seq(Messages)
  /\ controller \in Nat
  /\ registered \in SUBSET Registrations /\ IsFiniteSet(registered)

\* Who is called back, and that the activity's own callback is, by the current
\* controller and only while it is started and connected.
CalledBackBy ==
  /\ \A i \in 1..Len(messages) : messages[i].to \in registered
  /\ browser \in {"connecting", "connected"} => activity = "started"
  /\ browser = "connected" => {<<"activity", controller>>, <<"controls", controller>>} \subseteq registered
  /\ \A r \in registered : r[1] = "activity" => browser = "connected" /\ r[2] = controller

\* The last news on its way to a callback is the session's.
LastIsCurrent ==
  \A r \in Registrations :
    /\ Settles(messages, StatesTo(r), NewState, session.state, session.state)
    /\ Settles(messages, TracksTo(r), NewTrack, session.track, session.track)

\* What is not on its way is shown.
ButtonShown ==
  Places(messages, ControlsStates) = {} =>
    controls.enablePlay = (session.state \in {"paused", "stopped"})

TrackShown ==
  Places(messages, ControlsTracks) = {} => (session.track # NONE => controls.track = session.track)

ControlsShown ==
  Places(messages, ActivityNews) = {} => controls.visible = (Screen!shouldShowControls /\ ~missed)

Fragments ==
  /\ fragments \in Seq(DOMAIN Parent \cup {"root"}) /\ fragments # <<>>
  /\ pending \in DOMAIN Parent \cup {NONE, "back"}
  /\ pending = "back" => Len(fragments) > 1

MainInv ==
  /\ MainTypes /\ CalledBackBy /\ LastIsCurrent
  /\ browser = "connected" => ButtonShown /\ TrackShown /\ ControlsShown
  /\ Fragments /\ Screen!ListLoads

LEMMA MessagesAreFor ==
  ASSUME NEW m \in Messages
  PROVE  /\ m.to \in Registrations /\ m.to[1] \in Callbacks
         /\ m.news \in StateChanged => /\ m.news \notin TrackChanged /\ DOMAIN m.news = {"state"}
                                       /\ m.news.state \in Screen!States
         /\ m.news \in TrackChanged => /\ m.news \notin StateChanged /\ DOMAIN m.news = {"track"}
                                       /\ m.news.track \in Songs
         /\ m.news \in StateChanged \cup TrackChanged
<1>1. m.to \in Registrations /\ m.news \in StateChanged \cup TrackChanged
  BY DEF Messages
<1>2. m.to[1] \in Callbacks
  BY <1>1 DEF Registrations
<1>3. m.news \in StateChanged => DOMAIN m.news = {"state"} /\ m.news.state \in Screen!States
  BY DEF StateChanged
<1>4. m.news \in TrackChanged => DOMAIN m.news = {"track"} /\ m.news.track \in Songs
  BY DEF TrackChanged
<1> QED BY <1>1, <1>2, <1>3, <1>4

LEMMA MainBegins == Screen!Init => MainInv
<1> SUFFICES ASSUME Screen!Init PROVE MainInv
  OBVIOUS
<1>1. /\ messages = <<>> /\ registered = {} /\ browser = "off" /\ pending = NONE /\ fragments = <<"root">>
      /\ controller = 0 /\ online = TRUE /\ missed = FALSE
  BY DEF Screen!Init
<1>2. session \in [state : Screen!States, track : Songs \cup {NONE}]
  BY DEF Screen!Init, Screen!States
<1>3. controls \in [visible : BOOLEAN, track : Songs \cup {NONE}, enablePlay : BOOLEAN]
  BY DEF Screen!Init
<1>4. messages \in Seq(Messages) /\ IsFiniteSet({}) /\ \A topic : Places(<<>>, topic) = {}
  BY <1>1, EmptySeq, FS_EmptySet DEF Places
<1>5. MainTypes
  BY <1>1, <1>2, <1>3, <1>4 DEF MainTypes
<1>6. CalledBackBy
  BY <1>1 DEF CalledBackBy
<1>7. LastIsCurrent
  BY <1>1, <1>4 DEF LastIsCurrent, Settles
<1>8. Fragments
  BY <1>1, ScreensAssumption DEF Fragments
<1> QED BY <1>1, <1>5, <1>6, <1>7, <1>8 DEF MainInv, Screen!ListLoads

\* What an action leaves alone.
LEMMA SameNews ==
  ASSUME LastIsCurrent, UNCHANGED <<session, messages>>
  PROVE  LastIsCurrent'
BY DEF LastIsCurrent, Settles, Places

LEMMA SameFragments ==
  ASSUME Fragments, Screen!ListLoads, UNCHANGED <<fragments, pending, loaded, subs, loads, activity, browser>>
  PROVE  Fragments' /\ Screen!ListLoads'
BY DEF Fragments, Screen!ListLoads, Screen!Top, Screen!Last
-----------------------------------------------------------------------------
(* The session changes.                                                    *)

ScreenCardinality == \A S : Screen!Cardinality(S) = Cardinality(S)

LEMMA ScreenCardinalityIs == ScreenCardinality
  BY DEF ScreenCardinality, Screen!Cardinality, Cardinality

\* SetToSeq names each element.
LEMMA InSomeOrder ==
  ASSUME NEW S, IsFiniteSet(S)
  PROVE  /\ Cardinality(S) \in Nat
         /\ Screen!SetToSeq(S) \in [1..Cardinality(S) -> S]
         /\ \A x \in S : \E i \in 1..Cardinality(S) : Screen!SetToSeq(S)[i] = x
<1> DEFINE n == Cardinality(S)
<1>1. n \in Nat /\ ExistsBijection(1..n, S)
  BY FS_CardinalityType
<1>2. \E f \in [1..n -> S] : Screen!IsInjective(f)
  BY <1>1 DEF ExistsBijection, Bijection, Injection, IsInjective, Screen!IsInjective
<1>3. PICK f : f = Screen!SetToSeq(S)
  OBVIOUS
<1>4. f = CHOOSE g \in [1..n -> S] : Screen!IsInjective(g)
  BY <1>3, ScreenCardinalityIs DEF Screen!SetToSeq, ScreenCardinality
<1>5. f \in [1..n -> S] /\ Screen!IsInjective(f)
  BY <1>2, <1>4
<1>6. f \in Injection(1..n, S)
  BY <1>5 DEF Injection, IsInjective, Screen!IsInjective
<1>7. IsFiniteSet(1..n) /\ Cardinality(1..n) = n
  BY <1>1, FS_Interval
<1>8. f \in Surjection(1..n, S)
  BY <1>6, <1>7, FS_Injection
<1> QED BY <1>1, <1>3, <1>5, <1>8 DEF Surjection

Batch(S, news) == [i \in 1..Cardinality(S) |-> [to |-> Screen!SetToSeq(S)[i], news |-> news]]

LEMMA EachIsTold ==
  ASSUME MainTypes, NEW news \in StateChanged \cup TrackChanged
  PROVE  /\ Screen!Told(news) = messages \o Batch(registered, news)
         /\ Batch(registered, news) \in Seq(Messages)
         /\ \A i \in 1..Len(Batch(registered, news)) :
              /\ Batch(registered, news)[i].news = news
              /\ Batch(registered, news)[i].to \in registered
         /\ \A r \in registered : \E i \in 1..Len(Batch(registered, news)) : Batch(registered, news)[i].to = r
<1> DEFINE n == Cardinality(registered)
           b == Batch(registered, news)
<1>1. /\ n \in Nat
      /\ Screen!SetToSeq(registered) \in [1..n -> registered]
      /\ \A x \in registered : \E i \in 1..n : Screen!SetToSeq(registered)[i] = x
  BY InSomeOrder DEF MainTypes
<1>2. Screen!Told(news) = messages \o b
  BY ScreenCardinalityIs DEF Screen!Told, ScreenCardinality, Batch
<1>3. \A i \in 1..n : b[i] = [to |-> Screen!SetToSeq(registered)[i], news |-> news]
  BY DEF Batch
<1>4. \A i \in 1..n : b[i] \in Messages /\ b[i].news = news /\ b[i].to = Screen!SetToSeq(registered)[i]
  <2> SUFFICES ASSUME NEW i \in 1..n
               PROVE  b[i] \in Messages /\ b[i].news = news /\ b[i].to = Screen!SetToSeq(registered)[i]
    OBVIOUS
  <2>1. PICK r : r = Screen!SetToSeq(registered)[i]
    OBVIOUS
  <2>2. r \in Registrations
    BY <1>1, <2>1 DEF MainTypes
  <2>3. b[i] = [to |-> r, news |-> news]
    BY <1>3, <2>1
  <2> QED BY <2>1, <2>2, <2>3 DEF Messages
<1>5. b \in Seq(Messages) /\ Len(b) = n
  BY <1>1, <1>4 DEF Batch
<1> QED BY <1>1, <1>2, <1>4, <1>5
-----------------------------------------------------------------------------
LEMMA ToldReach ==
  ASSUME MainTypes, CalledBackBy, NEW news \in StateChanged \cup TrackChanged, messages' = Screen!Told(news),
         UNCHANGED <<registered, browser, activity, controller>>
  PROVE  /\ messages' \in Seq(Messages)
         /\ CalledBackBy'
         /\ browser = "connected" =>
              /\ Places(messages', ActivityNews) # {}
              /\ news \in StateChanged => Places(messages', ControlsStates) # {}
              /\ news \in TrackChanged => Places(messages', ControlsTracks) # {}
         /\ news \in StateChanged => Places(messages', ControlsTracks) = Places(messages, ControlsTracks)
         /\ news \in TrackChanged => Places(messages', ControlsStates) = Places(messages, ControlsStates)
<1> DEFINE b == Batch(registered, news)
<1>1. /\ messages' = messages \o b /\ messages \in Seq(Messages) /\ b \in Seq(Messages)
      /\ \A i \in 1..Len(b) : b[i].news = news /\ b[i].to \in registered /\ b[i] \in Messages
      /\ \A r \in registered : \E i \in 1..Len(b) : b[i].to = r
  <2>1. messages \in Seq(Messages)
    BY DEF MainTypes
  <2> QED BY <2>1, EachIsTold
<1> HIDE DEF b
<1>2. /\ Len(messages') = Len(messages) + Len(b) /\ Len(messages) \in Nat /\ Len(b) \in Nat
      /\ messages' \in Seq(Messages)
      /\ \A i \in 1..Len(messages) : messages'[i] = messages[i]
      /\ \A i \in 1..Len(b) : messages'[Len(messages) + i] = b[i]
  BY <1>1
<1>3. \A i \in 1..Len(messages') : i \in 1..Len(messages) \/ \E k \in 1..Len(b) : i = Len(messages) + k
  <2>1. PICK n \in Nat, m \in Nat : n = Len(messages) /\ m = Len(b) /\ Len(messages') = n + m
    BY <1>2
  <2>2. \A i \in 1..(n + m) : i \in 1..n \/ (i - n \in 1..m /\ i = n + (i - n))
    OBVIOUS
  <2> QED BY <2>1, <2>2
<1>4. \A i \in 1..Len(messages') : messages'[i].to \in registered
  BY <1>1, <1>2, <1>3 DEF CalledBackBy
<1>5. CalledBackBy'
  BY <1>4 DEF CalledBackBy
<1>6. \A topic : Places(messages', topic) = Places(messages, topic) \cup {Len(messages) + i : i \in Places(b, topic)}
  BY <1>1, BatchPlaces
<1>7. news \in StateChanged => Places(b, ControlsTracks) = {}
  BY <1>1, MessagesAreFor DEF Places, ControlsTracks
<1>8. news \in TrackChanged => Places(b, ControlsStates) = {}
  BY <1>1, MessagesAreFor DEF Places, ControlsStates
<1>9. ASSUME browser = "connected"
      PROVE  /\ Places(b, ActivityNews) # {}
             /\ news \in StateChanged => Places(b, ControlsStates) # {}
             /\ news \in TrackChanged => Places(b, ControlsTracks) # {}
  <2>1. <<"activity", controller>> \in registered /\ <<"controls", controller>> \in registered
    BY <1>9 DEF CalledBackBy
  <2>2. PICK i \in 1..Len(b) : b[i].to = <<"activity", controller>>
    BY <1>1, <2>1
  <2>3. PICK k \in 1..Len(b) : b[k].to = <<"controls", controller>>
    BY <1>1, <2>1
  <2>4. b[i].to[1] = "activity" /\ b[k].to[1] = "controls"
    BY <2>2, <2>3
  <2>5. i \in Places(b, ActivityNews)
    BY <1>1, <2>4 DEF Places, ActivityNews
  <2>6. news \in StateChanged => k \in Places(b, ControlsStates)
    BY <1>1, <2>4 DEF Places, ControlsStates
  <2>7. news \in TrackChanged => k \in Places(b, ControlsTracks)
    BY <1>1, <2>4 DEF Places, ControlsTracks
  <2> QED BY <2>5, <2>6, <2>7
<1>10. \A topic : Places(b, topic) = {} => Places(messages', topic) = Places(messages, topic)
  BY <1>6
<1>11. ASSUME NEW topic, Places(b, topic) # {} PROVE Places(messages', topic) # {}
  <2>1. PICK i \in Places(b, topic) : TRUE
    BY <1>11
  <2>2. Len(messages) + i \in Places(messages', topic)
    BY <1>6
  <2> QED BY <2>2
<1>12. ASSUME browser = "connected"
       PROVE  /\ Places(messages', ActivityNews) # {}
              /\ news \in StateChanged => Places(messages', ControlsStates) # {}
              /\ news \in TrackChanged => Places(messages', ControlsTracks) # {}
  BY <1>9, <1>11, <1>12
<1>13. /\ news \in StateChanged => Places(messages', ControlsTracks) = Places(messages, ControlsTracks)
       /\ news \in TrackChanged => Places(messages', ControlsStates) = Places(messages, ControlsStates)
  BY <1>7, <1>8, <1>10
<1>14. messages' \in Seq(Messages)
  BY <1>2
<1> HIDE DEF b
<1> QED BY ONLY <1>5, <1>12, <1>13, <1>14

LEMMA ToldLast ==
  ASSUME MainTypes, CalledBackBy, LastIsCurrent, NEW news \in StateChanged \cup TrackChanged,
         messages' = Screen!Told(news),
         session' \in [state : Screen!States, track : Songs \cup {NONE}],
         news \in StateChanged => session'.state = news.state /\ session'.track = session.track,
         news \in TrackChanged => session'.track = news.track /\ session'.state = session.state
  PROVE  LastIsCurrent'
<1> DEFINE b == Batch(registered, news)
<1>1. /\ messages' = messages \o b /\ messages \in Seq(Messages) /\ b \in Seq(Messages)
      /\ \A i \in 1..Len(b) : b[i].news = news /\ b[i].to \in registered /\ b[i] \in Messages
      /\ \A r \in registered : \E i \in 1..Len(b) : b[i].to = r
  <2>1. messages \in Seq(Messages)
    BY DEF MainTypes
  <2> QED BY <2>1, EachIsTold
<1> HIDE DEF b
<1>2. \A i \in 1..Len(messages) : messages[i].to \in registered
  BY DEF CalledBackBy
<1>3. \A m \in Messages : NewState[m] = m.news.state /\ NewTrack[m] = m.news.track
  BY DEF NewState, NewTrack
<1> SUFFICES ASSUME NEW r \in Registrations
             PROVE  /\ Settles(messages', StatesTo(r), NewState, session'.state, session'.state)
                    /\ Settles(messages', TracksTo(r), NewTrack, session'.track, session'.track)
  BY DEF LastIsCurrent
<1>4. Settles(messages, StatesTo(r), NewState, session.state, session.state)
  BY DEF LastIsCurrent
<1>5. Settles(messages, TracksTo(r), NewTrack, session.track, session.track)
  BY DEF LastIsCurrent
<1>6. CASE news \in StateChanged
  <2>1. Places(b, TracksTo(r)) = {}
    BY <1>1, <1>6, MessagesAreFor DEF Places, TracksTo
  <2>2. Settles(messages \o b, TracksTo(r), NewTrack, session.track, session.track)
    BY <1>1, <1>5, <2>1, OtherBatch
  <2>3. Settles(messages \o b, StatesTo(r), NewState, session'.state, session'.state)
    <3>1. CASE r \in registered
      <4>1. PICK i \in 1..Len(b) : b[i].to = r
        BY <1>1, <3>1
      <4>2. i \in Places(b, StatesTo(r))
        BY <1>1, <1>6, <4>1 DEF Places, StatesTo
      <4>3. \A k \in Places(b, StatesTo(r)) : NewState[b[k]] = session'.state
        BY <1>1, <1>3, <1>6 DEF Places
      <4> QED BY <1>1, <4>2, <4>3, NewsBatch
    <3>2. CASE r \notin registered
      <4>1. Places(b, StatesTo(r)) = {} /\ Places(messages, StatesTo(r)) = {}
        BY <1>1, <1>2, <3>2 DEF Places, StatesTo
      <4>2. Settles(messages, StatesTo(r), NewState, session'.state, session'.state)
        BY <4>1 DEF Settles
      <4> QED BY <1>1, <4>1, <4>2, OtherBatch
    <3> QED BY <3>1, <3>2
  <2> QED BY <1>1, <1>6, <2>2, <2>3
<1>7. CASE news \in TrackChanged
  <2>1. Places(b, StatesTo(r)) = {}
    BY <1>1, <1>7, MessagesAreFor DEF Places, StatesTo
  <2>2. Settles(messages \o b, StatesTo(r), NewState, session.state, session.state)
    BY <1>1, <1>4, <2>1, OtherBatch
  <2>3. Settles(messages \o b, TracksTo(r), NewTrack, session'.track, session'.track)
    <3>1. CASE r \in registered
      <4>1. PICK i \in 1..Len(b) : b[i].to = r
        BY <1>1, <3>1
      <4>2. i \in Places(b, TracksTo(r))
        BY <1>1, <1>7, <4>1 DEF Places, TracksTo
      <4>3. \A k \in Places(b, TracksTo(r)) : NewTrack[b[k]] = session'.track
        BY <1>1, <1>3, <1>7 DEF Places
      <4> QED BY <1>1, <4>2, <4>3, NewsBatch
    <3>2. CASE r \notin registered
      <4>1. Places(b, TracksTo(r)) = {} /\ Places(messages, TracksTo(r)) = {}
        BY <1>1, <1>2, <3>2 DEF Places, TracksTo
      <4>2. Settles(messages, TracksTo(r), NewTrack, session'.track, session'.track)
        BY <4>1 DEF Settles
      <4> QED BY <1>1, <4>1, <4>2, OtherBatch
    <3> QED BY <3>1, <3>2
  <2> QED BY <1>1, <1>7, <2>2, <2>3
<1> QED BY <1>6, <1>7

LEMMA MainChangesState == \A s \in Screen!States : MainInv /\ Screen!ChangeState(s) => MainInv'
<1> SUFFICES ASSUME NEW s \in Screen!States, MainInv, Screen!ChangeState(s) PROVE MainInv'
  OBVIOUS
<1>1. /\ UNCHANGED <<online, activity, controller, registered, browser, controls, missed, fragments, pending, loaded, subs, loads>>
      /\ session' = [session EXCEPT !.state = s]
      /\ messages' = Screen!Told([state |-> s])
  BY DEF Screen!ChangeState, Screen!screenVars, Screen!controlVars, Screen!listVars
<1>2. PICK news : news = [state |-> s]
  OBVIOUS
<1>3. news \in StateChanged /\ news.state = s
  BY <1>2 DEF StateChanged
<1>4. news \notin TrackChanged
  <2>1. DOMAIN news = {"state"}
    BY <1>2
  <2>2. \A m \in TrackChanged : DOMAIN m = {"track"}
    BY DEF TrackChanged
  <2> QED BY <2>1, <2>2
<1>5. session' \in [state : Screen!States, track : Songs \cup {NONE}] /\ session'.state = s /\ session'.track = session.track
  BY <1>1 DEF MainInv, MainTypes
<1>6. /\ messages' \in Seq(Messages)
      /\ CalledBackBy'
      /\ browser = "connected" => Places(messages', ActivityNews) # {} /\ Places(messages', ControlsStates) # {}
      /\ Places(messages', ControlsTracks) = Places(messages, ControlsTracks)
  BY <1>1, <1>2, <1>3, ToldReach DEF MainInv
<1>7. LastIsCurrent'
  BY <1>1, <1>2, <1>3, <1>4, <1>5, ToldLast DEF MainInv
<1>8. MainTypes'
  BY <1>1, <1>5, <1>6 DEF MainInv, MainTypes
<1>9. Fragments' /\ Screen!ListLoads'
  BY <1>1, SameFragments DEF MainInv
<1>10. browser' = "connected" => ButtonShown' /\ TrackShown' /\ ControlsShown'
  BY <1>1, <1>5, <1>6 DEF MainInv, ButtonShown, TrackShown, ControlsShown
<1> QED BY <1>6, <1>7, <1>8, <1>9, <1>10 DEF MainInv

LEMMA MainChangesTrack == \A t \in Songs : MainInv /\ Screen!ChangeTrack(t) => MainInv'
<1> SUFFICES ASSUME NEW t \in Songs, MainInv, Screen!ChangeTrack(t) PROVE MainInv'
  OBVIOUS
<1>1. /\ UNCHANGED <<online, activity, controller, registered, browser, controls, missed, fragments, pending, loaded, subs, loads>>
      /\ session' = [session EXCEPT !.track = t]
      /\ messages' = Screen!Told([track |-> t])
  BY DEF Screen!ChangeTrack, Screen!screenVars, Screen!controlVars, Screen!listVars
<1>2. PICK news : news = [track |-> t]
  OBVIOUS
<1>3. news \in TrackChanged /\ news.track = t
  BY <1>2 DEF TrackChanged
<1>4. news \notin StateChanged
  <2>1. DOMAIN news = {"track"}
    BY <1>2
  <2>2. \A m \in StateChanged : DOMAIN m = {"state"}
    BY DEF StateChanged
  <2> QED BY <2>1, <2>2
<1>5. session' \in [state : Screen!States, track : Songs \cup {NONE}] /\ session'.track = t /\ session'.state = session.state
  BY <1>1 DEF MainInv, MainTypes
<1>6. /\ messages' \in Seq(Messages)
      /\ CalledBackBy'
      /\ browser = "connected" => Places(messages', ActivityNews) # {} /\ Places(messages', ControlsTracks) # {}
      /\ Places(messages', ControlsStates) = Places(messages, ControlsStates)
  BY <1>1, <1>2, <1>3, ToldReach DEF MainInv
<1>7. LastIsCurrent'
  BY <1>1, <1>2, <1>3, <1>4, <1>5, ToldLast DEF MainInv
<1>8. MainTypes'
  BY <1>1, <1>5, <1>6 DEF MainInv, MainTypes
<1>9. Fragments' /\ Screen!ListLoads'
  BY <1>1, SameFragments DEF MainInv
<1>10. browser' = "connected" => ButtonShown' /\ TrackShown' /\ ControlsShown'
  BY <1>1, <1>5, <1>6 DEF MainInv, ButtonShown, TrackShown, ControlsShown
<1> QED BY <1>6, <1>7, <1>8, <1>9, <1>10 DEF MainInv

LEMMA MainNetwork == MainInv /\ Screen!NetworkChanges => MainInv'
<1> SUFFICES ASSUME MainInv, Screen!NetworkChanges PROVE MainInv'
  OBVIOUS
<1>1. /\ UNCHANGED <<session, messages, activity, controller, registered, browser, controls, missed, fragments, pending, loaded, subs, loads>>
      /\ online' = ~online
  BY DEF Screen!NetworkChanges, Screen!screenVars, Screen!controlVars, Screen!listVars
<1>2. MainTypes' /\ CalledBackBy'
  BY <1>1 DEF MainInv, MainTypes, CalledBackBy
<1>3. browser' = "connected" => ButtonShown' /\ TrackShown' /\ ControlsShown'
  BY <1>1 DEF MainInv, ButtonShown, TrackShown, ControlsShown, Screen!shouldShowControls
<1> QED BY <1>1, <1>2, <1>3, SameFragments, SameNews DEF MainInv
-----------------------------------------------------------------------------
(* A message is handled.                                                   *)

\* What is visible and what was missed follow the session as it is now.
LEMMA ShownNow ==
  ASSUME MainTypes, NEW c, c \in [visible : BOOLEAN, track : Songs \cup {NONE}, enablePlay : BOOLEAN],
         c.visible = controls.visible
  PROVE  /\ Screen!Shown(c) \in [visible : BOOLEAN, track : Songs \cup {NONE}, enablePlay : BOOLEAN]
         /\ Screen!Shown(c).track = c.track /\ Screen!Shown(c).enablePlay = c.enablePlay
         /\ Screen!Shown(c).visible = (Screen!shouldShowControls /\ ~Screen!Missed)
         /\ Screen!Missed \in BOOLEAN
<1>1. Screen!shouldShowControls \in BOOLEAN /\ online \in BOOLEAN /\ controls.visible \in BOOLEAN
  BY DEF MainTypes, Screen!shouldShowControls
<1>2. Screen!Missed \in BOOLEAN
  BY DEF Screen!Missed
<1>3. Screen!Shown(c) = [c EXCEPT !.visible = IF ~Screen!shouldShowControls THEN FALSE ELSE online \/ c.visible]
  BY DEF Screen!Shown
<1>4. PICK v : v = IF ~Screen!shouldShowControls THEN FALSE ELSE online \/ c.visible
  OBVIOUS
<1>5. v \in BOOLEAN /\ v = (Screen!shouldShowControls /\ ~Screen!Missed)
  BY <1>1, <1>4 DEF Screen!Missed
<1>6. Screen!Shown(c) = [c EXCEPT !.visible = v]
  BY <1>3, <1>4
<1> QED BY <1>2, <1>5, <1>6

LEMMA ToOne ==
  ASSUME NEW m \in Messages
  PROVE  /\ \A r : m \in StatesTo(r) => r = m.to /\ m.news \in StateChanged
         /\ \A r : m \in TracksTo(r) => r = m.to /\ m.news \in TrackChanged
         /\ m \in ControlsStates => m \in StatesTo(m.to) /\ StatesTo(m.to) \subseteq ControlsStates
         /\ m \in ControlsTracks => m \in TracksTo(m.to) /\ TracksTo(m.to) \subseteq ControlsTracks
BY DEF StatesTo, TracksTo, ControlsStates, ControlsTracks

LEMMA LastIsTaken ==
  ASSUME LastIsCurrent, messages \in Seq(Messages), messages # <<>>, messages' = Tail(messages), UNCHANGED session
  PROVE  LastIsCurrent'
<1> SUFFICES ASSUME NEW r \in Registrations
             PROVE  /\ Settles(messages', StatesTo(r), NewState, session.state, session.state)
                    /\ Settles(messages', TracksTo(r), NewTrack, session.track, session.track)
  BY DEF LastIsCurrent
<1>1. /\ Settles(messages, StatesTo(r), NewState, session.state, session.state)
      /\ Settles(messages, TracksTo(r), NewTrack, session.track, session.track)
  BY DEF LastIsCurrent
<1>2. Settles(messages', StatesTo(r), NewState, session.state, session.state)
  <2>1. CASE Head(messages) \notin StatesTo(r)
    BY <1>1, <2>1, OtherTaken
  <2>2. CASE Head(messages) \in StatesTo(r)
    <3>1. Settles(Tail(messages), StatesTo(r), NewState, NewState[Head(messages)], session.state)
      BY <1>1, <2>2, NewsTaken
    <3> QED BY <3>1 DEF Settles
  <2> QED BY <2>1, <2>2
<1>3. Settles(messages', TracksTo(r), NewTrack, session.track, session.track)
  <2>1. CASE Head(messages) \notin TracksTo(r)
    BY <1>1, <2>1, OtherTaken
  <2>2. CASE Head(messages) \in TracksTo(r)
    <3>1. Settles(Tail(messages), TracksTo(r), NewTrack, NewTrack[Head(messages)], session.track)
      BY <1>1, <2>2, NewsTaken
    <3> QED BY <3>1 DEF Settles
  <2> QED BY <2>1, <2>2
<1> QED BY <1>2, <1>3

\* A message to the controls that is the last of its topic says what the session is.
LEMMA LastTakenIsCurrent ==
  ASSUME LastIsCurrent, messages \in Seq(Messages), messages # <<>>
  PROVE  /\ Head(messages) \in ControlsStates /\ Places(Tail(messages), ControlsStates) = {}
              => Head(messages).news.state = session.state
         /\ Head(messages) \in ControlsTracks /\ Places(Tail(messages), ControlsTracks) = {}
              => Head(messages).news.track = session.track
<1>1. PICK m \in Messages : m = Head(messages)
  OBVIOUS
<1>2. m.to \in Registrations /\ NewState[m] = m.news.state /\ NewTrack[m] = m.news.track
  BY MessagesAreFor DEF NewState, NewTrack
<1>3. ASSUME m \in ControlsStates, Places(Tail(messages), ControlsStates) = {}
      PROVE  m.news.state = session.state
  <2>1. m \in StatesTo(m.to) /\ StatesTo(m.to) \subseteq ControlsStates
    BY <1>3, ToOne
  <2>2. Settles(messages, StatesTo(m.to), NewState, session.state, session.state)
    BY <1>2 DEF LastIsCurrent
  <2>3. Settles(Tail(messages), StatesTo(m.to), NewState, NewState[m], session.state)
    BY <1>1, <2>1, <2>2, NewsTaken
  <2>4. Places(Tail(messages), StatesTo(m.to)) = {}
    BY <1>3, <2>1 DEF Places
  <2> QED BY <1>2, <2>3, <2>4 DEF Settles
<1>4. ASSUME m \in ControlsTracks, Places(Tail(messages), ControlsTracks) = {}
      PROVE  m.news.track = session.track
  <2>1. m \in TracksTo(m.to) /\ TracksTo(m.to) \subseteq ControlsTracks
    BY <1>4, ToOne
  <2>2. Settles(messages, TracksTo(m.to), NewTrack, session.track, session.track)
    BY <1>2 DEF LastIsCurrent
  <2>3. Settles(Tail(messages), TracksTo(m.to), NewTrack, NewTrack[m], session.track)
    BY <1>1, <2>1, <2>2, NewsTaken
  <2>4. Places(Tail(messages), TracksTo(m.to)) = {}
    BY <1>4, <2>1 DEF Places
  <2> QED BY <1>2, <2>3, <2>4 DEF Settles
<1> QED BY <1>1, <1>3, <1>4

LEMMA OtherNotTaken ==
  ASSUME messages \in Seq(Messages), messages # <<>>, NEW topic, Head(messages) \notin topic,
         Places(Tail(messages), topic) = {}
  PROVE  Places(messages, topic) = {}
BY TailPlaces

LEMMA MainHandles == MainInv /\ Screen!Handle => MainInv'
<1> SUFFICES ASSUME MainInv, Screen!Handle PROVE MainInv'
  OBVIOUS
<1>1. /\ UNCHANGED <<session, online, activity, controller, registered, browser, fragments, pending, loaded, subs, loads>>
      /\ messages # <<>> /\ messages' = Tail(messages)
  BY DEF Screen!Handle, Screen!screenVars, Screen!sessionVars, Screen!listVars
<1>2. messages \in Seq(Messages) /\ MainTypes /\ LastIsCurrent
  BY DEF MainInv, MainTypes
<1>3. PICK m \in Messages : m = Head(messages)
  BY <1>1, <1>2
<1>4. /\ m.to[1] \in Callbacks
      /\ m.news \in StateChanged => /\ m.news \notin TrackChanged /\ DOMAIN m.news = {"state"}
                                    /\ m.news.state \in Screen!States
      /\ m.news \in TrackChanged => /\ m.news \notin StateChanged /\ DOMAIN m.news = {"track"}
                                    /\ m.news.track \in Songs
      /\ m.news \in StateChanged \cup TrackChanged
  BY MessagesAreFor
<1>5. messages' \in Seq(Messages) /\ \A i \in 1..Len(messages') : messages'[i].to \in registered
  <2>1. /\ messages' \in Seq(Messages) /\ Len(messages') = Len(messages) - 1 /\ Len(messages) \in Nat
        /\ \A i \in 1..Len(messages') : messages'[i] = messages[i + 1] /\ i + 1 \in 1..Len(messages)
    BY <1>1, <1>2
  <2> QED BY <2>1 DEF MainInv, CalledBackBy
<1>6. CalledBackBy'
  BY <1>1, <1>5 DEF MainInv, CalledBackBy
<1>7. LastIsCurrent'
  BY <1>1, <1>2, LastIsTaken
<1>8. Fragments' /\ Screen!ListLoads'
  BY <1>1, SameFragments DEF MainInv
<1>9. \A topic : m \notin topic /\ Places(messages', topic) = {} => Places(messages, topic) = {}
  BY <1>1, <1>2, <1>3, OtherNotTaken
<1>10. ASSUME /\ controls' \in [visible : BOOLEAN, track : Songs \cup {NONE}, enablePlay : BOOLEAN]
              /\ missed' \in BOOLEAN,
              browser = "connected" => ButtonShown' /\ TrackShown' /\ ControlsShown'
       PROVE  MainInv'
  <2>1. MainTypes'
    BY <1>1, <1>2, <1>5, <1>10 DEF MainTypes
  <2> QED BY <1>1, <1>6, <1>7, <1>8, <1>10, <2>1 DEF MainInv
<1>11. CASE m.to[1] = "activity"
  <2>1. controls' = Screen!Shown(controls) /\ missed' = Screen!Missed
    BY <1>3, <1>11 DEF Screen!Handle
  <2>2. /\ Screen!Shown(controls) \in [visible : BOOLEAN, track : Songs \cup {NONE}, enablePlay : BOOLEAN]
        /\ Screen!Shown(controls).track = controls.track /\ Screen!Shown(controls).enablePlay = controls.enablePlay
        /\ Screen!Shown(controls).visible = (Screen!shouldShowControls /\ ~Screen!Missed)
        /\ Screen!Missed \in BOOLEAN
    BY <1>2, ShownNow DEF MainTypes
  <2>3. m \notin ControlsStates /\ m \notin ControlsTracks
    BY <1>11 DEF ControlsStates, ControlsTracks
  <2>4. Screen!shouldShowControls' = Screen!shouldShowControls
    BY <1>1 DEF Screen!shouldShowControls
  <2>5. browser = "connected" => ButtonShown' /\ TrackShown' /\ ControlsShown'
    BY <1>1, <1>9, <2>1, <2>2, <2>3, <2>4 DEF MainInv, ButtonShown, TrackShown, ControlsShown
  <2> QED BY <1>10, <2>1, <2>2, <2>5
<1>12. CASE m.to[1] = "controls"
  <2>1. /\ controls' = IF "track" \in DOMAIN m.news THEN Screen!onMetadataChanged(controls, m.news.track)
                       ELSE Screen!onPlaybackStateChanged(controls, m.news.state)
        /\ missed' = missed
    BY <1>3, <1>12 DEF Screen!Handle
  <2>2. m \notin ActivityNews
    BY <1>12 DEF ActivityNews
  <2>3. Screen!shouldShowControls' = Screen!shouldShowControls
    BY <1>1 DEF Screen!shouldShowControls
  <2>4. CASE m.news \in TrackChanged
    <3>1. /\ controls' = Screen!onMetadataChanged(controls, m.news.track) /\ m.news.track \in Songs
          /\ m \notin ControlsStates /\ m \in ControlsTracks
      BY <1>4, <1>12, <2>1, <2>4 DEF ControlsStates, ControlsTracks
    <3>2. /\ controls' \in [visible : BOOLEAN, track : Songs \cup {NONE}, enablePlay : BOOLEAN]
          /\ controls'.visible = controls.visible /\ controls'.enablePlay = controls.enablePlay
          /\ m.news.track # NONE => controls'.track = m.news.track
      BY <1>2, <3>1 DEF Screen!onMetadataChanged, MainTypes
    <3>3. Places(messages', ControlsTracks) = {} => m.news.track = session.track
      BY <1>1, <1>2, <1>3, <3>1, LastTakenIsCurrent
    <3>4. browser = "connected" => ButtonShown' /\ TrackShown' /\ ControlsShown'
      BY <1>1, <1>9, <2>1, <2>2, <2>3, <3>1, <3>2, <3>3 DEF MainInv, ButtonShown, TrackShown, ControlsShown
    <3> QED BY <1>2, <1>10, <2>1, <3>2, <3>4 DEF MainTypes
  <2>5. CASE m.news \in StateChanged
    <3>1. /\ controls' = Screen!onPlaybackStateChanged(controls, m.news.state)
          /\ m \notin ControlsTracks /\ m \in ControlsStates
      BY <1>4, <1>12, <2>1, <2>5 DEF ControlsStates, ControlsTracks
    <3>2. /\ controls' \in [visible : BOOLEAN, track : Songs \cup {NONE}, enablePlay : BOOLEAN]
          /\ controls'.visible = controls.visible /\ controls'.track = controls.track
          /\ controls'.enablePlay = (m.news.state \in {"paused", "stopped"})
      <4>0. (m.news.state \in {"paused", "stopped"}) \in BOOLEAN
        OBVIOUS
      <4>1. PICK v \in BOOLEAN : v = (m.news.state \in {"paused", "stopped"})
        BY <4>0
      <4>2. controls' = [controls EXCEPT !.enablePlay = v]
        BY <3>1, <4>1 DEF Screen!onPlaybackStateChanged
      <4> QED BY <1>2, <4>1, <4>2 DEF MainTypes
    <3>3. Places(messages', ControlsStates) = {} => m.news.state = session.state
      BY <1>1, <1>2, <1>3, <3>1, LastTakenIsCurrent
    <3>4. browser = "connected" => ButtonShown' /\ TrackShown' /\ ControlsShown'
      BY <1>1, <1>9, <2>1, <2>2, <2>3, <3>1, <3>2, <3>3 DEF MainInv, ButtonShown, TrackShown, ControlsShown
    <3> QED BY <1>2, <1>10, <2>1, <3>2, <3>4 DEF MainTypes
  <2> QED BY <1>4, <2>4, <2>5
<1>13. CASE m.to[1] = "list"
  <2>1. UNCHANGED <<controls, missed>>
    BY <1>3, <1>13 DEF Screen!Handle, Screen!controlVars
  <2>2. m \notin ControlsStates /\ m \notin ControlsTracks /\ m \notin ActivityNews
    BY <1>13 DEF ControlsStates, ControlsTracks, ActivityNews
  <2>3. Screen!shouldShowControls' = Screen!shouldShowControls
    BY <1>1 DEF Screen!shouldShowControls
  <2>4. browser = "connected" => ButtonShown' /\ TrackShown' /\ ControlsShown'
    BY <1>1, <1>9, <2>1, <2>2, <2>3 DEF MainInv, ButtonShown, TrackShown, ControlsShown
  <2> QED BY <1>2, <1>10, <2>1, <2>4 DEF MainTypes
<1> QED BY <1>4, <1>11, <1>12, <1>13 DEF Callbacks
-----------------------------------------------------------------------------
(* The list.                                                               *)

LEMMA MainOpens == \A id \in DOMAIN Parent : MainInv /\ Screen!Open(id) => MainInv'
<1> SUFFICES ASSUME NEW id \in DOMAIN Parent, MainInv, Screen!Open(id) PROVE MainInv'
  OBVIOUS
<1>1. /\ UNCHANGED <<session, online, messages, activity, controller, registered, browser, controls, missed, fragments, loaded, subs, loads>>
      /\ pending = NONE /\ pending' = id
  BY DEF Screen!Open, Screen!sessionVars, Screen!screenVars, Screen!controlVars
<1>2. Fragments'
  BY <1>1, ScreensAssumption DEF MainInv, Fragments
<1>3. Screen!ListLoads'
  BY <1>1 DEF MainInv, Screen!ListLoads, Screen!Top, Screen!Last
<1>4. MainTypes' /\ CalledBackBy'
  BY <1>1 DEF MainInv, MainTypes, CalledBackBy
<1>5. browser' = "connected" => ButtonShown' /\ TrackShown' /\ ControlsShown'
  BY <1>1 DEF MainInv, ButtonShown, TrackShown, ControlsShown, Screen!shouldShowControls
<1> QED BY <1>1, <1>2, <1>3, <1>4, <1>5, SameNews DEF MainInv

LEMMA MainGoesBack == MainInv /\ Screen!Back => MainInv'
<1> SUFFICES ASSUME MainInv, Screen!Back PROVE MainInv'
  OBVIOUS
<1>1. /\ UNCHANGED <<session, online, messages, activity, controller, registered, browser, controls, missed, fragments, loaded, subs, loads>>
      /\ pending' = "back" /\ Len(fragments) > 1
  BY DEF Screen!Back, Screen!sessionVars, Screen!screenVars, Screen!controlVars
<1>2. Fragments'
  BY <1>1 DEF MainInv, Fragments
<1>3. Screen!ListLoads'
  BY <1>1, ScreensAssumption DEF Screen!ListLoads
<1>4. MainTypes' /\ CalledBackBy'
  BY <1>1 DEF MainInv, MainTypes, CalledBackBy
<1>5. browser' = "connected" => ButtonShown' /\ TrackShown' /\ ControlsShown'
  BY <1>1 DEF MainInv, ButtonShown, TrackShown, ControlsShown, Screen!shouldShowControls
<1> QED BY <1>1, <1>2, <1>3, <1>4, <1>5, SameNews DEF MainInv

LEMMA MainExecutes == MainInv /\ Screen!Execute => MainInv'
<1> SUFFICES ASSUME MainInv, Screen!Execute PROVE MainInv'
  OBVIOUS
<1>1. /\ UNCHANGED <<session, online, messages, activity, controller, browser, controls, missed>>
      /\ pending # NONE /\ pending' = NONE /\ loaded' = FALSE
      /\ fragments' = IF pending = "back" THEN Screen!Front(fragments) ELSE Append(fragments, pending)
      /\ IF activity = "started" THEN Screen!StartedFragment(Screen!Last(fragments'))
         ELSE UNCHANGED <<subs, loads, registered>>
  BY DEF Screen!Execute, Screen!sessionVars, Screen!controlVars
<1>2. /\ fragments \in Seq(DOMAIN Parent \cup {"root"}) /\ fragments # <<>>
      /\ pending \in DOMAIN Parent \cup {NONE, "back"} /\ (pending = "back" => Len(fragments) > 1)
  BY DEF MainInv, Fragments
<1>3. fragments' \in Seq(DOMAIN Parent \cup {"root"}) /\ fragments' # <<>>
  <2>1. CASE pending = "back"
    <3>1. fragments' = SubSeq(fragments, 1, Len(fragments) - 1)
      BY <1>1, <2>1 DEF Screen!Front
    <3>2. fragments' = [k \in 1..(Len(fragments) - 1) |-> fragments[k]] /\ Len(fragments) - 1 \in Nat \ {0}
      BY <1>2, <2>1, <3>1
    <3>3. \A k \in 1..(Len(fragments) - 1) : fragments[k] \in DOMAIN Parent \cup {"root"}
      BY <1>2
    <3>4. PICK n \in Nat \ {0} : n = Len(fragments) - 1
      BY <3>2
    <3>5. fragments' \in Seq(DOMAIN Parent \cup {"root"}) /\ Len(fragments') = n
      BY <3>2, <3>3, <3>4
    <3> QED BY <3>5, EmptySeq
  <2>2. CASE pending # "back"
    BY <1>1, <1>2, <2>2
  <2> QED BY <2>1, <2>2
<1>4. Fragments'
  BY <1>1, <1>3, ScreensAssumption DEF Fragments
<1>5. registered' = registered \/ registered' = registered \cup {<<"list", controller>>}
  BY <1>1 DEF Screen!StartedFragment
<1>6. MainTypes'
  <2>1. <<"list", controller>> \in Registrations
    BY DEF MainInv, MainTypes, Registrations, Callbacks
  <2>2. IsFiniteSet(registered \cup {<<"list", controller>>})
    BY FS_AddElement DEF MainInv, MainTypes
  <2> QED BY <1>1, <1>5, <2>1, <2>2 DEF MainInv, MainTypes
<1>7. CalledBackBy'
  <2>1. \A r \in registered' : r[1] = "activity" => r \in registered
    BY <1>5
  <2> QED BY <1>1, <1>5, <2>1 DEF MainInv, CalledBackBy
<1>8. ASSUME activity = "started", browser = "connected"
      PROVE  /\ Screen!Last(fragments') \in DOMAIN subs' /\ subs'[Screen!Last(fragments')] = "list"
             /\ Screen!Last(fragments') \in loads'
  <2>1. PICK id : id = Screen!Last(fragments')
    OBVIOUS
  <2>2. /\ subs' = [i \in (DOMAIN Screen!Subscribed(id) \ {Screen!Top}) \cup Screen!Asked(id) |-> Screen!Subscribed(id)[i]]
        /\ loads' = loads \cup Screen!Asked(id)
    BY <1>1, <1>8, <2>1 DEF Screen!StartedFragment
  <2>3. id \in Screen!Asked(id)
    BY DEF Screen!Asked
  <2>4. Screen!Subscribed(id)[id] = "list"
    BY DEF Screen!Subscribed
  <2> QED BY <2>1, <2>2, <2>3, <2>4
<1>9. Screen!ListLoads'
  BY <1>1, <1>8 DEF Screen!ListLoads, Screen!Top
<1>10. browser' = "connected" => ButtonShown' /\ TrackShown' /\ ControlsShown'
  BY <1>1 DEF MainInv, ButtonShown, TrackShown, ControlsShown, Screen!shouldShowControls
<1> QED BY <1>1, <1>4, <1>6, <1>7, <1>9, <1>10, SameNews DEF MainInv

LEMMA MainLoads == \A id, found : MainInv /\ Screen!Load(id, found) => MainInv'
<1> SUFFICES ASSUME NEW id, NEW found, MainInv, Screen!Load(id, found) PROVE MainInv'
  OBVIOUS
<1>1. /\ UNCHANGED <<session, online, messages, activity, controller, registered, browser, controls, missed, fragments, pending>>
      /\ loads' = loads \ {id}
      /\ loaded' = (loaded \/ (id = Screen!Top /\ id \in DOMAIN subs /\ subs[id] = "list"))
      /\ subs' = IF id \in DOMAIN subs /\ subs[id] = "title" /\ ~found THEN Screen!Unsubscribed(id) ELSE subs
  BY DEF Screen!Load, Screen!sessionVars, Screen!screenVars, Screen!controlVars
<1>2. Fragments'
  BY <1>1 DEF MainInv, Fragments
<1>3. ASSUME activity = "started", browser = "connected", pending = NONE
      PROVE  /\ Screen!Top \in DOMAIN subs' /\ subs'[Screen!Top] = "list"
             /\ loaded' \/ Screen!Top \in loads'
  <2>1. /\ Screen!Top \in DOMAIN subs /\ subs[Screen!Top] = "list"
        /\ loaded \/ Screen!Top \in loads
    BY <1>3 DEF MainInv, Screen!ListLoads
  <2>2. Screen!Top \in DOMAIN subs' /\ subs'[Screen!Top] = "list"
    BY <1>1, <2>1 DEF Screen!Unsubscribed
  <2> QED BY <1>1, <2>1, <2>2
<1>4. Screen!Top' = Screen!Top
  BY <1>1 DEF Screen!Top, Screen!Last
<1>5. Screen!ListLoads'
  BY <1>1, <1>3, <1>4 DEF Screen!ListLoads
<1>6. MainTypes' /\ CalledBackBy'
  BY <1>1 DEF MainInv, MainTypes, CalledBackBy
<1>7. browser' = "connected" => ButtonShown' /\ TrackShown' /\ ControlsShown'
  BY <1>1 DEF MainInv, ButtonShown, TrackShown, ControlsShown, Screen!shouldShowControls
<1> QED BY <1>1, <1>2, <1>5, <1>6, <1>7, SameNews DEF MainInv
-----------------------------------------------------------------------------
(* The life of the activity.                                               *)

LEMMA MainIsCreated == MainInv /\ Screen!onCreate => MainInv'
<1> SUFFICES ASSUME MainInv, Screen!onCreate PROVE MainInv'
  OBVIOUS
<1>1. /\ UNCHANGED <<session, online, messages, controller, registered, browser, fragments, pending, subs, loads>>
      /\ activity = "none" /\ activity' = "stopped" /\ missed' = FALSE
      /\ controls' = [visible |-> FALSE, track |-> NONE, enablePlay |-> FALSE]
  BY DEF Screen!onCreate, Screen!sessionVars
<1>2. browser # "connected" /\ browser # "connecting"
  BY <1>1 DEF MainInv, CalledBackBy
<1>3. MainTypes'
  BY <1>1 DEF MainInv, MainTypes
<1>4. CalledBackBy' /\ Fragments'
  BY <1>1, <1>2 DEF MainInv, CalledBackBy, Fragments
<1>5. Screen!ListLoads'
  BY <1>1 DEF Screen!ListLoads
<1> QED BY <1>1, <1>2, <1>3, <1>4, <1>5, SameNews DEF MainInv

\* PlaybackControlsFragment.onConnected
LEMMA UpdatedNow ==
  ASSUME MainTypes, NEW c \in [visible : BOOLEAN, track : Songs \cup {NONE}, enablePlay : BOOLEAN]
  PROVE  /\ Screen!Updated(c) \in [visible : BOOLEAN, track : Songs \cup {NONE}, enablePlay : BOOLEAN]
         /\ Screen!Updated(c).visible = c.visible
         /\ session.track # NONE => Screen!Updated(c).track = session.track
         /\ Screen!Updated(c).enablePlay = (session.state \in {"paused", "stopped"})
<1>1. (session.state \in {"paused", "stopped"}) \in BOOLEAN /\ session.track \in Songs \cup {NONE}
  BY DEF MainTypes
<1>2. PICK v \in BOOLEAN : v = (session.state \in {"paused", "stopped"})
  BY <1>1
<1>3. PICK d : d = Screen!onMetadataChanged(c, session.track)
  OBVIOUS
<1>4. /\ d \in [visible : BOOLEAN, track : Songs \cup {NONE}, enablePlay : BOOLEAN]
      /\ d.visible = c.visible /\ (session.track # NONE => d.track = session.track)
  BY <1>1, <1>3 DEF Screen!onMetadataChanged
<1>5. Screen!Updated(c) = [d EXCEPT !.enablePlay = v]
  BY <1>2, <1>3 DEF Screen!Updated, Screen!onPlaybackStateChanged
<1> QED BY <1>2, <1>4, <1>5

LEMMA MainStarts == MainInv /\ Screen!onStart => MainInv'
<1> SUFFICES ASSUME MainInv, Screen!onStart PROVE MainInv'
  OBVIOUS
<1>1. PICK hidden : hidden = [controls EXCEPT !.visible = FALSE]
  OBVIOUS
<1>2. /\ UNCHANGED <<session, online, messages, controller, missed, fragments, pending, loaded, subs, loads>>
      /\ activity = "stopped" /\ activity' = "started" /\ browser' = "connecting"
      /\ \/ controls' = hidden /\ registered' = registered
         \/ controls' = Screen!Updated(hidden) /\ registered' = registered \cup {<<"controls", controller>>}
  BY <1>1 DEF Screen!onStart, Screen!sessionVars, Screen!listVars
<1>3. MainTypes
  BY DEF MainInv
<1>4. hidden \in [visible : BOOLEAN, track : Songs \cup {NONE}, enablePlay : BOOLEAN]
  BY <1>1, <1>3 DEF MainTypes
<1>5. controls' \in [visible : BOOLEAN, track : Songs \cup {NONE}, enablePlay : BOOLEAN]
  BY <1>2, <1>3, <1>4, UpdatedNow
<1>6. <<"controls", controller>> \in Registrations
  BY <1>3 DEF MainTypes, Registrations, Callbacks
<1>7. IsFiniteSet(registered \cup {<<"controls", controller>>})
  BY <1>3, FS_AddElement DEF MainTypes
<1>8. MainTypes'
  BY <1>2, <1>3, <1>5, <1>6, <1>7 DEF MainTypes
<1>9. browser # "connected" /\ CalledBackBy
  BY <1>2 DEF MainInv, CalledBackBy
<1>10. \A r \in registered' : r[1] = "activity" => r \in registered
  BY <1>2
<1>11. CalledBackBy'
  BY <1>2, <1>9, <1>10 DEF CalledBackBy
<1>12. Fragments' /\ Screen!ListLoads'
  BY <1>2 DEF MainInv, Fragments, Screen!ListLoads
<1> QED BY <1>2, <1>8, <1>11, <1>12, SameNews DEF MainInv

LEMMA MainConnects == MainInv /\ Screen!onConnected => MainInv'
<1> SUFFICES ASSUME MainInv, Screen!onConnected PROVE MainInv'
  OBVIOUS
<1>1. /\ UNCHANGED <<session, online, messages, activity, fragments, pending, loaded>>
      /\ browser = "connecting" /\ browser' = "connected" /\ controller' = controller + 1
      /\ controls' = Screen!Updated(Screen!Shown(controls)) /\ missed' = Screen!Missed
      /\ registered' = registered \cup ({"activity", "controls", "list"} \X {controller'})
      /\ subs' = Screen!Subscribed(Screen!Top) /\ loads' = DOMAIN subs'
  BY DEF Screen!onConnected, Screen!sessionVars, Screen!ConnectedControls
<1>2. MainTypes /\ CalledBackBy
  BY DEF MainInv
<1>3. PICK c : c = Screen!Shown(controls)
  OBVIOUS
<1>4. /\ c \in [visible : BOOLEAN, track : Songs \cup {NONE}, enablePlay : BOOLEAN]
      /\ c.visible = (Screen!shouldShowControls /\ ~Screen!Missed)
      /\ Screen!Missed \in BOOLEAN
  BY <1>2, <1>3, ShownNow DEF MainTypes
<1>5. /\ controls' \in [visible : BOOLEAN, track : Songs \cup {NONE}, enablePlay : BOOLEAN]
      /\ controls'.visible = c.visible
      /\ session.track # NONE => controls'.track = session.track
      /\ controls'.enablePlay = (session.state \in {"paused", "stopped"})
  BY <1>1, <1>2, <1>3, <1>4, UpdatedNow
<1>6. Screen!shouldShowControls' = Screen!shouldShowControls
  BY <1>1 DEF Screen!shouldShowControls
<1>7. ButtonShown' /\ TrackShown' /\ ControlsShown'
  BY <1>1, <1>4, <1>5, <1>6 DEF ButtonShown, TrackShown, ControlsShown
<1>8. PICK d : d = controller'
  OBVIOUS
<1>9. /\ registered' = ((registered \cup {<<"activity", d>>}) \cup {<<"controls", d>>}) \cup {<<"list", d>>}
      /\ d \in Nat
  BY <1>1, <1>2, <1>8 DEF MainTypes
<1>10. IsFiniteSet(registered')
  <2>1. IsFiniteSet(registered \cup {<<"activity", d>>})
    BY <1>2, FS_AddElement DEF MainTypes
  <2>2. IsFiniteSet((registered \cup {<<"activity", d>>}) \cup {<<"controls", d>>})
    BY <2>1, FS_AddElement
  <2> QED BY <1>9, <2>2, FS_AddElement
<1>11. registered' \in SUBSET Registrations
  BY <1>2, <1>9 DEF MainTypes, Registrations, Callbacks
<1>12. MainTypes'
  BY <1>1, <1>2, <1>4, <1>5, <1>8, <1>9, <1>10, <1>11 DEF MainTypes
<1>13. \A r \in registered : r[1] # "activity"
  BY <1>1, <1>2 DEF CalledBackBy
<1>14. \A r \in registered' : r[1] = "activity" => r[2] = d
  BY <1>9, <1>13
<1>15. {<<"activity", d>>, <<"controls", d>>} \subseteq registered' /\ registered \subseteq registered'
  BY <1>9
<1>16. CalledBackBy'
  BY <1>1, <1>2, <1>8, <1>14, <1>15 DEF CalledBackBy
<1>17. Screen!ListLoads'
  <2>1. Screen!Top' = Screen!Top
    BY <1>1 DEF Screen!Top, Screen!Last
  <2>2. \A id : id \in DOMAIN Screen!Subscribed(id) /\ Screen!Subscribed(id)[id] = "list"
    BY DEF Screen!Subscribed
  <2> QED BY <1>1, <2>1, <2>2 DEF Screen!ListLoads
<1>18. Fragments'
  BY <1>1 DEF MainInv, Fragments
<1> QED BY <1>1, <1>7, <1>12, <1>16, <1>17, <1>18, SameNews DEF MainInv

LEMMA InOrderEnumerates ==
  ASSUME NEW S \in SUBSET Int, IsFiniteSet(S)
  PROVE  Enumerates(Screen!InOrder(S), S)
<1> DEFINE n == Cardinality(S)
           o == Screen!InOrder(S)
<1>1. n = Screen!Cardinality(S) /\ \A i : Cardinality(Below(S, i)) = Screen!Cardinality({j \in S : j <= i})
  BY ScreenCardinalityIs DEF ScreenCardinality, Below
<1>2. o = [k \in 1..n |-> CHOOSE i \in S : Screen!Cardinality({j \in S : j <= i}) = k]
  BY <1>1 DEF Screen!InOrder
<1> HIDE DEF o, n
<1>3. ASSUME \A k \in 1..n : \E i \in S : Cardinality(Below(S, i)) = k
      PROVE  o \in [1..n -> S] /\ \A k \in 1..n : Cardinality(Below(S, o[k])) = k
  <2> SUFFICES ASSUME NEW k \in 1..n PROVE o[k] \in S /\ Cardinality(Below(S, o[k])) = k
    BY <1>2
  <2>1. o[k] = CHOOSE i \in S : Screen!Cardinality({j \in S : j <= i}) = k
    BY <1>2
  <2>2. \E i \in S : Screen!Cardinality({j \in S : j <= i}) = k
    BY <1>1, <1>3
  <2>3. o[k] \in S /\ Screen!Cardinality({j \in S : j <= o[k]}) = k
    BY <2>1, <2>2
  <2> QED BY <1>1, <2>3
<1> QED BY <1>3, RanksEnumerate DEF o, n

LEMMA MainStops == MainInv /\ Screen!onStop => MainInv'
<1> SUFFICES ASSUME MainInv, Screen!onStop PROVE MainInv'
  OBVIOUS
<1> DEFINE gone == {"activity", "controls", "list"} \X {controller}
           at == {i \in 1..Len(messages) : messages[i].to \notin gone}
           kept == Screen!InOrder(at)
<1>1. /\ UNCHANGED <<session, online, controller, controls, missed, fragments, pending>>
      /\ activity = "started" /\ activity' = "stopped" /\ browser' = "off"
      /\ registered' = registered \ gone
      /\ messages' = [k \in 1..Len(kept) |-> messages[kept[k]]]
  BY DEF Screen!onStop, Screen!sessionVars, Screen!controlVars, Screen!UnregisterAll, Screen!Unregister
<1>2. MainTypes /\ CalledBackBy /\ LastIsCurrent /\ messages \in Seq(Messages)
  BY DEF MainInv, MainTypes
<1>3. at \in SUBSET (1..Len(messages)) /\ at \in SUBSET Int
  BY <1>2
<1>4. IsFiniteSet(at)
  BY <1>2, <1>3, FS_Interval, FS_Subset
<1>6. Enumerates(kept, at)
  <2> HIDE DEF at
  <2> QED BY <1>3, <1>4, InOrderEnumerates
<1>7. messages' = Picked(messages, kept)
  BY <1>1 DEF Picked
<1> HIDE DEF kept
<1> HIDE DEF at
<1>8. /\ messages' \in Seq(Messages) /\ Len(messages') = Len(kept)
      /\ \A k \in 1..Len(messages') : messages'[k] = messages[kept[k]] /\ kept[k] \in at
  <2>1. messages \in Seq(Messages) /\ at \in SUBSET (1..Len(messages)) /\ Enumerates(kept, at)
    BY <1>2, <1>3, <1>6
  <2>2. /\ Picked(messages, kept) \in Seq(Messages) /\ Len(Picked(messages, kept)) = Len(kept)
        /\ \A k \in 1..Len(kept) : Picked(messages, kept)[k] = messages[kept[k]] /\ kept[k] \in at
    <3>1. PICK o : o = kept
      OBVIOUS
    <3>2. messages \in Seq(Messages) /\ at \in SUBSET (1..Len(messages)) /\ Enumerates(o, at)
      BY <2>1, <3>1
    <3>3. /\ Picked(messages, o) \in Seq(Messages) /\ Len(Picked(messages, o)) = Len(o)
          /\ \A k \in 1..Len(o) : Picked(messages, o)[k] = messages[o[k]] /\ o[k] \in at
      BY <3>2, PickedNews
    <3> QED BY <3>1, <3>3
  <2> QED BY <1>7, <2>2
<1> USE DEF at
<1>9. \A k \in 1..Len(messages') : messages'[k].to \in registered' /\ messages'[k].to \notin gone
  BY <1>1, <1>2, <1>8 DEF CalledBackBy
<1>10. LastIsCurrent'
  <2> SUFFICES ASSUME NEW r \in Registrations
               PROVE  /\ Settles(messages', StatesTo(r), NewState, session.state, session.state)
                      /\ Settles(messages', TracksTo(r), NewTrack, session.track, session.track)
    BY <1>1 DEF LastIsCurrent
  <2>1. CASE r \in gone
    <3>1. Places(messages', StatesTo(r)) = {} /\ Places(messages', TracksTo(r)) = {}
      BY <1>9, <2>1 DEF Places, StatesTo, TracksTo
    <3> QED BY <3>1 DEF Settles
  <2>2. CASE r \notin gone
    <3>1. Places(messages, StatesTo(r)) \subseteq at /\ Places(messages, TracksTo(r)) \subseteq at
      BY <2>2 DEF Places, StatesTo, TracksTo
    <3>2. /\ Settles(messages, StatesTo(r), NewState, session.state, session.state)
          /\ Settles(messages, TracksTo(r), NewTrack, session.track, session.track)
      BY <1>2 DEF LastIsCurrent
    <3> HIDE DEF at
    <3> QED BY <1>2, <1>3, <1>6, <1>7, <3>1, <3>2, PickedSettle
  <2> QED BY <2>1, <2>2
<1>11. IsFiniteSet(registered')
  BY <1>1, <1>2, FS_Subset DEF MainTypes
<1>12. MainTypes'
  BY <1>1, <1>2, <1>8, <1>11 DEF MainTypes
<1>13. \A r \in registered' : r[1] # "activity"
  <2> SUFFICES ASSUME NEW r \in registered', r[1] = "activity" PROVE FALSE
    OBVIOUS
  <2>1. r \in registered /\ r \in Registrations /\ r[2] = controller
    BY <1>1, <1>2 DEF CalledBackBy, MainTypes
  <2>2. r = <<"activity", controller>>
    BY <2>1 DEF Registrations
  <2> QED BY <1>1, <2>2
<1>14. CalledBackBy'
  BY <1>1, <1>9, <1>13 DEF CalledBackBy
<1>15. Fragments' /\ Screen!ListLoads'
  BY <1>1 DEF MainInv, Fragments, Screen!ListLoads
<1> QED BY <1>1, <1>10, <1>12, <1>14, <1>15 DEF MainInv

LEMMA MainIsDestroyed == MainInv /\ Screen!onDestroy => MainInv'
<1> SUFFICES ASSUME MainInv, Screen!onDestroy PROVE MainInv'
  OBVIOUS
<1>1. /\ UNCHANGED <<session, online, browser, controls, missed, fragments, pending, loaded, loads>>
      /\ activity = "stopped" /\ activity' = "none" /\ controller' = 0 /\ registered' = {} /\ messages' = <<>>
  BY DEF Screen!onDestroy, Screen!sessionVars, Screen!controlVars
<1>2. messages' \in Seq(Messages) /\ IsFiniteSet({}) /\ \A topic : Places(<<>>, topic) = {}
  BY <1>1, EmptySeq, FS_EmptySet DEF Places
<1>3. MainTypes'
  BY <1>1, <1>2 DEF MainInv, MainTypes
<1>4. browser # "connected" /\ browser # "connecting" /\ 1..Len(messages') = {}
  BY <1>1 DEF MainInv, CalledBackBy
<1>5. CalledBackBy'
  BY <1>1, <1>4 DEF CalledBackBy
<1>6. LastIsCurrent'
  BY <1>1, <1>2 DEF LastIsCurrent, Settles
<1>7. Fragments' /\ Screen!ListLoads'
  BY <1>1 DEF MainInv, Fragments, Screen!ListLoads
<1> QED BY <1>1, <1>3, <1>4, <1>5, <1>6, <1>7 DEF MainInv

LEMMA MainStep == MainInv /\ [Screen!Next]_screenVars => MainInv'
<1> SUFFICES ASSUME MainInv, [Screen!Next]_screenVars PROVE MainInv'
  OBVIOUS
<1>1. CASE UNCHANGED screenVars
  <2>1. UNCHANGED <<session, online, messages, activity, controller, registered, browser, controls, missed,
                    fragments, pending, loaded, subs, loads>>
    BY <1>1 DEF screenVars
  <2>2. MainTypes' /\ CalledBackBy'
    BY <2>1 DEF MainInv, MainTypes, CalledBackBy
  <2>3. browser' = "connected" => ButtonShown' /\ TrackShown' /\ ControlsShown'
    BY <2>1 DEF MainInv, ButtonShown, TrackShown, ControlsShown, Screen!shouldShowControls
  <2> QED BY <2>1, <2>2, <2>3, SameNews, SameFragments DEF MainInv
<1>2. CASE Screen!Next
  BY <1>2, MainChangesState, MainChangesTrack, MainNetwork, MainHandles, MainOpens, MainGoesBack, MainExecutes,
     MainLoads, MainIsCreated, MainStarts, MainConnects, MainStops, MainIsDestroyed DEF Screen!Next
<1> QED BY <1>1, <1>2

LEMMA MainRests == MainInv => MainScreenIsCurrent
<1> SUFFICES ASSUME MainInv PROVE MainScreenIsCurrent
  OBVIOUS
<1>1. \A topic : Places(<<>>, topic) = {}
  BY DEF Places
<1>2. Screen!ShowsSession
  BY <1>1 DEF MainInv, ButtonShown, TrackShown, ControlsShown, Screen!ShowsSession
<1>3. Screen!NoCommitAfterStop
  BY DEF MainInv, CalledBackBy, Screen!NoCommitAfterStop
<1> QED BY <1>2, <1>3 DEF MainScreenIsCurrent, MainInv
-----------------------------------------------------------------------------
\* Whatever is opened, left, stopped, started and connected again, and however many
\* changes of the session are still on their way, the main screen comes to show the
\* session, fills the list it was asked for and commits nothing after it was stopped.
THEOREM MainScreenFollows == ScreensSpec => []MainScreenIsCurrent
<1>1. ScreensInit => MainInv
  BY MainBegins DEF ScreensInit
<1>2. MainInv /\ [ScreensNext]_screensVars => MainInv'
  BY MainStep DEF ScreensNext, screensVars
<1> QED BY <1>1, <1>2, MainRests, PTL DEF ScreensSpec

\* Whatever the user presses and drags, and in whatever order pictures come, the full screen
\* player comes to show the session, moves its bar while that plays, and keeps the picture asked for last.
THEOREM FullScreenFollows == ScreensSpec => []FullScreenIsCurrent
<1>1. ScreensInit => FullScreenInv
  BY FullScreenBegins DEF ScreensInit
<1>2. FullScreenInv /\ [ScreensNext]_screensVars => FullScreenInv'
  BY FullScreenStep DEF ScreensNext, screensVars
<1> QED BY <1>1, <1>2, FullScreenRests, PTL DEF ScreensSpec
-----------------------------------------------------------------------------
(* The catalog.                                                            *)

Separators == {"/", "|"}

\* A name that can be a part of a media ID.
Plain(name) == name \in Seq(Music!Words) /\ \A i \in 1..Len(name) : name[i] \notin Separators

Known == [track : Music!Tracks, art : BOOLEAN]

KnownById ==
  /\ IsFiniteSet(DOMAIN mMusicListById)
  /\ \A id \in DOMAIN mMusicListById : mMusicListById[id] \in Known /\ mMusicListById[id].track.id = id

\* While a catalog is loaded, no other counts.
Loading ==
  /\ loading \in [at : {"idle", "fetch", "tracks", "built"}, rest : Seq(Music!Tracks \cup {BAD})]
  /\ loading.at # "idle" => mCurrentState # "INITIALIZED"

\* A catalog that was built has the tracks in their genres, as they were then.
Grouped ==
  loading.at = "built" \/ mCurrentState = "INITIALIZED" =>
    /\ DOMAIN mMusicListByGenre = {mMusicListById[id].track.genre : id \in DOMAIN mMusicListById}
    /\ \A genre \in DOMAIN mMusicListByGenre :
         /\ mMusicListByGenre[genre] \subseteq Known /\ IsFiniteSet(mMusicListByGenre[genre])
         /\ \A metadata \in mMusicListByGenre[genre] : metadata.track.genre = genre
         /\ {metadata.track.id : metadata \in mMusicListByGenre[genre]} =
              {id \in DOMAIN mMusicListById : mMusicListById[id].track.genre = genre}

\* What was listed is a way to a track, or one on that way.
Ways ==
  \A item \in listed :
    IF item.playable
    THEN /\ mCurrentState = "INITIALIZED"
         /\ \E genre \in DOMAIN mMusicListByGenre : \E metadata \in mMusicListByGenre[genre] :
              Plain(genre) /\ item.id = Music!createMediaID(metadata.track.id, "BY_GENRE", genre)
    ELSE \/ item.id \in {<<"ROOT">>, <<"BY_GENRE">>}
         \/ \E genre \in Seq(Music!Words) : item.id = Music!createBrowseCategoryMediaID("BY_GENRE", genre)

\* A queue names its tracks by ways to them.
Queued(queue) ==
  \A i \in DOMAIN queue : \E type \in {"BY_GENRE", "BY_SEARCH"}, value \in Seq(Music!Words) :
    queue[i].id = Music!createMediaID(queue[i].track, type, value)

CatalogInv ==
  /\ KnownById /\ Loading /\ Grouped /\ Ways
  /\ mPlayingQueue # NOTHING => Queued(mPlayingQueue)
-----------------------------------------------------------------------------
(* Media IDs.                                                              *)

LEMMA MusicCardinality == \A S : Music!Cardinality(S) = Cardinality(S)
  BY DEF Music!Cardinality, Cardinality

LEMMA CutsEnumerate ==
  ASSUME NEW S \in SUBSET Int, IsFiniteSet(S)
  PROVE  Enumerates(Music!InOrder(S), S)
<1> DEFINE n == Cardinality(S)
           o == Music!InOrder(S)
<1>1. n = Music!Cardinality(S) /\ \A i : Cardinality(Below(S, i)) = Music!Cardinality({j \in S : j <= i})
  BY MusicCardinality DEF Below
<1>2. o = [k \in 1..n |-> CHOOSE i \in S : Music!Cardinality({j \in S : j <= i}) = k]
  BY <1>1 DEF Music!InOrder
<1> HIDE DEF o, n
<1>3. ASSUME \A k \in 1..n : \E i \in S : Cardinality(Below(S, i)) = k
      PROVE  o \in [1..n -> S] /\ \A k \in 1..n : Cardinality(Below(S, o[k])) = k
  <2> SUFFICES ASSUME NEW k \in 1..n PROVE o[k] \in S /\ Cardinality(Below(S, o[k])) = k
    BY <1>2
  <2>1. o[k] = CHOOSE i \in S : Music!Cardinality({j \in S : j <= i}) = k
    BY <1>2
  <2>2. \E i \in S : Music!Cardinality({j \in S : j <= i}) = k
    BY <1>1, <1>3
  <2>3. o[k] \in S /\ Music!Cardinality({j \in S : j <= o[k]}) = k
    BY <2>1, <2>2
  <2> QED BY <1>1, <2>3
<1> QED BY <1>3, RanksEnumerate DEF o, n

LEMMA FirstOfAll ==
  ASSUME NEW places \in SUBSET Int, NEW x \in places, \A j \in places : x <= j
  PROVE  Music!First(places) = x
<1>1. PICK y : y = Music!First(places)
  OBVIOUS
<1>2. y = CHOOSE i \in places : \A j \in places : i <= j
  BY <1>1 DEF Music!First
<1>3. y \in places /\ \A j \in places : y <= j
  BY <1>2
<1>4. y \in Int /\ x \in Int /\ x <= y /\ y <= x
  BY <1>3
<1> QED BY <1>1, <1>4

\* The smallest of the cuts, the next one, and nothing between two of them.
LEMMA Cuts ==
  ASSUME NEW S \in SUBSET Int, IsFiniteSet(S), NEW o, Enumerates(o, S), NEW n, n = Cardinality(S)
  PROVE  /\ n \in Nat /\ Len(o) = n /\ o \in [1..n -> S]
         /\ \A x \in S : \A k \in 1..n : k < n => ~(o[k] < x /\ x < o[k + 1])
         /\ \A x \in S : (\A y \in S : x <= y) => n >= 1 /\ o[1] = x
<1>1. n \in Nat /\ o \in [1..n -> S]
  BY FS_CardinalityType DEF Enumerates
<1>2. Len(o) = n
  BY <1>1
<1>3. \A i, j \in 1..n : i < j => o[i] < o[j]
  BY DEF Enumerates
<1>4. \A x \in S : \E i \in 1..n : o[i] = x
  BY DEF Enumerates
<1>5. ASSUME NEW x \in S, NEW k \in 1..n, k < n, o[k] < x, x < o[k + 1] PROVE FALSE
  <2>1. PICK i \in 1..n : o[i] = x
    BY <1>4
  <2>2. k + 1 \in 1..n /\ k \in Int /\ i \in Int
    BY <1>1, <1>5
  <2>3. PICK a \in Int, b \in Int : a = o[k] /\ b = o[k + 1]
    BY <1>1, <2>2
  <2>4. x \in Int /\ a < x /\ x < b
    BY <1>5, <2>3
  <2>5. ~(i <= k)
    BY <1>3, <2>1, <2>2, <2>3, <2>4
  <2>6. ~(k + 1 <= i)
    BY <1>3, <2>1, <2>2, <2>3, <2>4
  <2> QED BY <2>2, <2>5, <2>6
<1>6. ASSUME NEW x \in S, \A y \in S : x <= y PROVE n >= 1 /\ o[1] = x
  <2>1. PICK i \in 1..n : o[i] = x
    BY <1>4
  <2>2. n >= 1 /\ i \in Int /\ 1 \in 1..n
    BY <1>1
  <2>3. PICK a \in Int : a = o[1] /\ a \in S
    BY <1>1, <2>2
  <2>4. x \in Int /\ x <= a
    BY <1>6, <2>3
  <2>5. i # 1 => a < x
    BY <1>3, <2>1, <2>2, <2>3
  <2> QED BY <2>1, <2>2, <2>3, <2>4, <2>5
<1> QED BY <1>1, <1>2, <1>5, <1>6

IsWay(id, mid, type, value) ==
  /\ id \in Seq(Music!Words \cup {mid}) /\ Len(value) \in Nat /\ Len(id) = Len(value) + 4
  /\ id[1] = type /\ id[2] = "/" /\ id[Len(value) + 3] = "|" /\ id[Len(value) + 4] = mid
  /\ \A k \in 1..Len(value) : id[k + 2] = value[k]

LEMMA MediaIDIs ==
  ASSUME NEW mid, NEW type \in Music!Words, NEW value \in Seq(Music!Words)
  PROVE  IsWay(Music!createMediaID(mid, type, value), mid, type, value)
<1>0. PICK id : id = Music!createMediaID(mid, type, value)
  OBVIOUS
<1> DEFINE W == Music!Words \cup {mid}
<1>1. value \in Seq(W) /\ <<type, "/">> \in Seq(W) /\ <<"|", mid>> \in Seq(W)
  <2>1. "/" \in Music!Words /\ "|" \in Music!Words
    BY DEF Music!Words
  <2>2. type \in W /\ "/" \in W /\ "|" \in W /\ mid \in W
    BY <2>1
  <2>3. value \in Seq(W)
    <3>1. \A k \in 1..Len(value) : value[k] \in W
      OBVIOUS
    <3>2. Len(value) \in Nat /\ value = [k \in 1..Len(value) |-> value[k]]
      OBVIOUS
    <3>3. value \in [1..Len(value) -> W]
      BY <3>1, <3>2
    <3> QED BY <3>2, <3>3
  <2> HIDE DEF W
  <2>4. <<type, "/">> \in Seq(W)
    BY <2>2
  <2>5. <<"|", mid>> \in Seq(W)
    BY <2>2
  <2> QED BY <2>3, <2>4, <2>5
<1>2. PICK way : way = <<type, "/">> \o value
  OBVIOUS
<1>3. PICK n : n = Len(value) /\ n \in Nat
  OBVIOUS
<1>4. /\ way \in Seq(W) /\ Len(way) = n + 2 /\ way[1] = type /\ way[2] = "/"
      /\ \A k \in 1..n : way[k + 2] = value[k]
  BY <1>1, <1>2, <1>3
<1>5. id = way \o <<"|", mid>>
  BY <1>0, <1>2 DEF Music!createMediaID
<1>6. /\ id \in Seq(W) /\ Len(id) = n + 4 /\ id[n + 3] = "|" /\ id[n + 4] = mid
      /\ \A k \in 1..(n + 2) : id[k] = way[k]
  BY <1>1, <1>3, <1>4, <1>5
<1>7. 1 \in 1..(n + 2) /\ 2 \in 1..(n + 2) /\ \A k \in 1..n : k + 2 \in 1..(n + 2)
  BY <1>3
<1> QED BY <1>0, <1>3, <1>4, <1>6, <1>7 DEF IsWay

LEMMA OneWord ==
  ASSUME NEW W, NEW s \in Seq(W), NEW i \in 1..Len(s)
  PROVE  SubSeq(s, i, i) = <<s[i]>>
<1>1. PICK a : a = SubSeq(s, i, i)
  OBVIOUS
<1>2. a \in Seq(W) /\ Len(a) = 1 /\ a[1] = s[i]
  BY <1>1
<1>3. PICK x \in W : x = s[i]
  OBVIOUS
<1>4. PICK t : t = <<x>> /\ t \in Seq(W) /\ Len(t) = 1 /\ t[1] = x
  <2>1. <<x>> \in Seq(W)
    OBVIOUS
  <2>2. Len(<<x>>) = 1 /\ <<x>>[1] = x
    OBVIOUS
  <2> QED BY <2>1, <2>2
<1>5. \A j \in 1..Len(a) : a[j] = t[j]
  BY <1>2, <1>3, <1>4
<1>6. a = t
  BY <1>2, <1>4, <1>5, SeqEqual
<1> QED BY <1>1, <1>3, <1>4, <1>6

LEMMA LeafIs ==
  ASSUME NEW W, NEW id \in Seq(W), NEW n \in 1..Len(id), id[n] = "|", n + 1 = Len(id),
         \A k \in 1..Len(id) : id[k] = "|" => n <= k
  PROVE  Music!extractMusicIDFromMediaID(id) = <<id[n + 1]>>
<1> DEFINE bars == Music!Where(id, "|")
<1>1. n \in bars /\ bars \in SUBSET Int /\ \A j \in bars : n <= j
  BY DEF Music!Where
<1>2. Music!First(bars) = n
  BY <1>1, FirstOfAll
<1>3. Music!extractMusicIDFromMediaID(id) = SubSeq(id, n + 1, n + 1)
  BY <1>1, <1>2 DEF Music!extractMusicIDFromMediaID
<1>4. PICK l : l = n + 1 /\ l \in 1..Len(id)
  OBVIOUS
<1>5. SubSeq(id, l, l) = <<id[l]>>
  BY <1>4, OneWord
<1> QED BY <1>3, <1>4, <1>5

\* Of a way to a track the track is found again.
LEMMA TrackOfWay ==
  ASSUME NEW mid, NEW value, Plain(value), NEW id, id = Music!createMediaID(mid, "BY_GENRE", value)
  PROVE  Music!extractMusicIDFromMediaID(id) = <<mid>>
<1>0. value \in Seq(Music!Words)
  BY DEF Plain
<1>1. PICK n : n = Len(value) /\ n \in Nat
  BY <1>0
<1>2. /\ id \in Seq(Music!Words \cup {mid}) /\ Len(id) = n + 4
      /\ id[1] = "BY_GENRE" /\ id[2] = "/" /\ id[n + 3] = "|" /\ id[n + 4] = mid
      /\ \A k \in 1..n : id[k + 2] = value[k]
  <2>1. "BY_GENRE" \in Music!Words
    BY DEF Music!Words
  <2>2. IsWay(Music!createMediaID(mid, "BY_GENRE", value), mid, "BY_GENRE", value)
    BY <1>0, <2>1, MediaIDIs
  <2>3. IsWay(id, mid, "BY_GENRE", value)
    BY <2>2
  <2> QED BY <1>1, <2>3 DEF IsWay
<1>3. ASSUME NEW k \in 1..Len(id), id[k] = "|" PROVE n + 3 <= k
  <2>1. k # 1 /\ k # 2
    BY <1>2, <1>3
  <2>2. k \in Int /\ ~(k < n + 3 /\ k > 2)
    <3> SUFFICES ASSUME k < n + 3, k > 2 PROVE FALSE
      OBVIOUS
    <3>1. PICK j \in 1..n : k = j + 2
      <4>1. k - 2 \in 1..n /\ k = (k - 2) + 2
        BY <1>1, <1>2
      <4> QED BY <4>1
    <3>2. value[j] = "|"
      BY <1>2, <1>3, <3>1
    <3> QED BY <1>1, <3>1, <3>2 DEF Plain, Separators
  <2> QED BY <1>1, <2>1, <2>2
<1>4. n + 3 \in 1..Len(id) /\ (n + 3) + 1 = Len(id) /\ (n + 3) + 1 = n + 4
  BY <1>1, <1>2
<1>5. PICK m : m = n + 3 /\ m \in 1..Len(id) /\ m + 1 = Len(id) /\ id[m] = "|" /\ id[m + 1] = mid
  BY <1>2, <1>4
<1>6. \A k \in 1..Len(id) : id[k] = "|" => m <= k
  BY <1>3, <1>5
<1>7. Music!extractMusicIDFromMediaID(id) = <<id[m + 1]>>
  BY <1>2, <1>5, <1>6, LeafIs
<1> QED BY <1>5, <1>7

\* With one separator of music IDs, whatever else is in it.
LEMMA TrackOfOne ==
  ASSUME NEW mid, NEW type \in Music!Words, NEW value \in Seq(Music!Words), NEW id,
         id = Music!createMediaID(mid, type, value), Cardinality(Music!Where(id, "|")) = 1
  PROVE  Music!extractMusicIDFromMediaID(id) = <<mid>>
<1> DEFINE bars == Music!Where(id, "|")
<1>1. PICK n : n = Len(value) /\ n \in Nat
  OBVIOUS
<1>2. id \in Seq(Music!Words \cup {mid}) /\ Len(id) = n + 4 /\ id[n + 3] = "|" /\ id[n + 4] = mid
  <2>1. IsWay(Music!createMediaID(mid, type, value), mid, type, value)
    BY MediaIDIs
  <2>2. IsWay(id, mid, type, value)
    BY <2>1
  <2> QED BY <1>1, <2>2 DEF IsWay
<1>3. PICK m : m = n + 3 /\ m \in 1..Len(id) /\ m + 1 = Len(id) /\ id[m] = "|" /\ id[m + 1] = mid
  <2>1. n + 3 \in 1..Len(id) /\ (n + 3) + 1 = Len(id) /\ (n + 3) + 1 = n + 4
    BY <1>1, <1>2
  <2> QED BY <1>2, <2>1
<1>4. m \in bars /\ bars \subseteq 1..Len(id) /\ IsFiniteSet(1..Len(id))
  BY <1>2, <1>3, FS_Interval DEF Music!Where
<1>5. IsFiniteSet(bars)
  BY <1>4, FS_Subset
<1>6. \E x : bars = {x}
  BY <1>5, FS_Singleton
<1>7. \A k \in 1..Len(id) : id[k] = "|" => m <= k
  <2>1. \A k \in 1..Len(id) : id[k] = "|" => k \in bars
    BY <1>2 DEF Music!Where
  <2>2. m \in Int
    BY <1>1, <1>3
  <2> QED BY <1>4, <1>6, <2>1, <2>2
<1>8. Music!extractMusicIDFromMediaID(id) = <<id[m + 1]>>
  BY <1>2, <1>3, <1>7, LeafIs
<1> QED BY <1>3, <1>8

\* The parts of what is before the leaf, and what getHierarchy keeps of them.
Parts(path) ==
  LET cuts == Music!InOrder({0, Len(path) + 1} \cup Music!Where(path, "/"))
  IN [i \in 1..Len(cuts) - 1 |-> SubSeq(path, cuts[i] + 1, cuts[i + 1] - 1)]

Kept(parts) == SubSeq(parts, 1, Music!LastOf({i \in DOMAIN parts : parts[i] # <<>>}))

LEMMA SomeFirst ==
  ASSUME NEW S \in SUBSET Int, IsFiniteSet(S), S # {}
  PROVE  \E x \in S : \A y \in S : x <= y
<1>1. PICK o : Enumerates(o, S)
  BY CutsEnumerate
<1>2. PICK n : n = Cardinality(S)
  OBVIOUS
<1>3. n \in Nat /\ o \in [1..n -> S]
  BY <1>1, <1>2, FS_CardinalityType DEF Enumerates
<1>4. \A x \in S : \E i \in 1..n : o[i] = x
  BY <1>1, <1>2 DEF Enumerates
<1>5. n >= 1 /\ 1 \in 1..n /\ o[1] \in S
  <2>1. PICK x : x \in S
    OBVIOUS
  <2>2. PICK i \in 1..n : o[i] = x
    BY <1>4, <2>1
  <2>3. n >= 1 /\ 1 \in 1..n
    BY <1>3, <2>2
  <2> QED BY <1>3, <2>3
<1>6. ASSUME NEW y \in S PROVE o[1] <= y
  <2>1. PICK i \in 1..n : o[i] = y
    BY <1>4
  <2>2. i = 1 \/ 1 < i
    BY <1>3
  <2>3. 1 < i => o[1] < o[i]
    BY <1>1, <1>2, <1>5 DEF Enumerates
  <2>4. o[1] \in Int /\ y \in Int
    BY <1>5
  <2> QED BY <2>1, <2>2, <2>3, <2>4
<1> QED BY <1>5, <1>6

LEMMA SomeLast ==
  ASSUME NEW S \in SUBSET Int, IsFiniteSet(S), S # {}
  PROVE  \E x \in S : \A y \in S : y <= x
<1>1. PICK o : Enumerates(o, S)
  BY CutsEnumerate
<1>2. PICK n : n = Cardinality(S)
  OBVIOUS
<1>3. n \in Nat /\ o \in [1..n -> S]
  BY <1>1, <1>2, FS_CardinalityType DEF Enumerates
<1>4. \A x \in S : \E i \in 1..n : o[i] = x
  BY <1>1, <1>2 DEF Enumerates
<1>5. n \in 1..n /\ o[n] \in S
  <2>1. PICK x : x \in S
    OBVIOUS
  <2>2. PICK i \in 1..n : o[i] = x
    BY <1>4, <2>1
  <2>3. n \in 1..n
    BY <1>3, <2>2
  <2> QED BY <1>3, <2>3
<1>6. ASSUME NEW y \in S PROVE y <= o[n]
  <2>1. PICK i \in 1..n : o[i] = y
    BY <1>4
  <2>2. i = n \/ i < n
    BY <1>3
  <2>3. i < n => o[i] < o[n]
    BY <1>1, <1>2, <1>5 DEF Enumerates
  <2>4. o[n] \in Int /\ y \in Int
    BY <1>5
  <2> QED BY <2>1, <2>2, <2>3, <2>4
<1> QED BY <1>5, <1>6

\* The parts up to the last that is not empty.
LEMMA PartsKept ==
  ASSUME NEW T, NEW parts \in Seq(T), NEW h, h = Kept(parts)
  PROVE  /\ Len(h) \in 0..Len(parts) /\ \A i \in 1..Len(h) : h[i] = parts[i]
         /\ Len(h) # 0 => parts[Len(h)] # <<>>
         /\ \A i \in 1..Len(parts) : parts[i] # <<>> => i <= Len(h)
<1>1. PICK l : l = Len(parts) /\ l \in Nat /\ DOMAIN parts = 1..l
  OBVIOUS
<1>2. PICK full : full = {i \in 1..l : parts[i] # <<>>}
  OBVIOUS
<1>3. PICK S : S = full \cup {0}
  OBVIOUS
<1>4. S \subseteq 0..l /\ S \in SUBSET Int /\ 0 \in S
  BY <1>1, <1>2, <1>3
<1>5. IsFiniteSet(S)
  <2>1. IsFiniteSet(0..l)
    BY <1>1, FS_Interval
  <2> QED BY <1>4, <2>1, FS_Subset
<1>6. \E x \in S : \A y \in S : y <= x
  BY <1>4, <1>5, SomeLast
<1>7. PICK e : e = Music!LastOf(full)
  OBVIOUS
<1>8. e = CHOOSE i \in S : \A j \in full : j <= i
  BY <1>3, <1>7 DEF Music!LastOf
<1>9. e \in S /\ \A j \in full : j <= e
  <2>1. \E x \in S : \A y \in full : y <= x
    BY <1>3, <1>6
  <2> QED BY <1>8, <2>1
<1>10. e \in 0..l /\ (e # 0 => parts[e] # <<>>)
  BY <1>2, <1>3, <1>4, <1>9
<1>11. h = SubSeq(parts, 1, e)
  BY <1>1, <1>2, <1>7 DEF Kept
<1>12. Len(h) = e /\ \A i \in 1..e : h[i] = parts[i]
  BY <1>1, <1>10, <1>11
<1> QED BY <1>1, <1>2, <1>9, <1>10, <1>12

\* A path with a separator after the first word: that word, what is up to the next separator, and
\* a part for every other word.
LEMMA TwoParts ==
  ASSUME NEW W, NEW path \in Seq(W), Len(path) >= 2, path[1] # "/", path[2] = "/"
  PROVE  /\ Len(Parts(path)) \in Nat /\ Len(Parts(path)) >= 2
         /\ Parts(path) \in Seq(Seq(W)) /\ Parts(path)[1] = <<path[1]>>
         /\ \A k \in 3..Len(path) : path[k] # "/" => \E i \in 2..Len(Parts(path)) : Parts(path)[i] # <<>>
         /\ \E e \in 3..(Len(path) + 1) :
              /\ Parts(path)[2] = SubSeq(path, 3, e - 1)
              /\ \A k \in 3..(e - 1) : path[k] # "/"
         /\ (\A k \in 3..Len(path) : path[k] # "/") =>
              Len(Parts(path)) = 2 /\ Parts(path)[2] = SubSeq(path, 3, Len(path))
<1> DEFINE S == {0, Len(path) + 1} \cup Music!Where(path, "/")
<1>1. PICK l : l = Len(path) /\ l \in Nat /\ l >= 2
  OBVIOUS
<1>2. /\ \A x \in S : x = 0 \/ x = l + 1 \/ (x \in 1..l /\ path[x] = "/")
      /\ 0 \in S /\ l + 1 \in S /\ \A x \in 1..l : path[x] = "/" => x \in S
  BY <1>1 DEF Music!Where
<1>3. S \in SUBSET Int /\ S \subseteq 0..(l + 1)
  <2> HIDE DEF S
  <2>1. \A x \in S : x \in 0..(l + 1) /\ x \in Int
    BY <1>1, <1>2
  <2> QED BY <2>1
<1>4. IsFiniteSet(S)
  <2>1. IsFiniteSet(0..(l + 1))
    BY <1>1, FS_Interval
  <2> QED BY <1>3, <2>1, FS_Subset
<1>5. PICK o : o = Music!InOrder(S)
  OBVIOUS
<1>6. Enumerates(o, S)
  <2> HIDE DEF S
  <2> QED BY <1>3, <1>4, <1>5, CutsEnumerate
<1>7. PICK n : n = Cardinality(S)
  OBVIOUS
<1>8. Parts(path) = [i \in 1..Len(o) - 1 |-> SubSeq(path, o[i] + 1, o[i + 1] - 1)]
  BY <1>5 DEF Parts
<1> HIDE DEF S
<1>9. /\ n \in Nat /\ Len(o) = n /\ o \in [1..n -> S]
      /\ \A x \in S : \A k \in 1..n : k < n => ~(o[k] < x /\ x < o[k + 1])
      /\ \A x \in S : (\A y \in S : x <= y) => n >= 1 /\ o[1] = x
  BY <1>3, <1>4, <1>6, <1>7, Cuts
<1>10. /\ \A i, j \in 1..n : i < j => o[i] < o[j]
       /\ \A x \in S : \E i \in 1..n : o[i] = x
  BY <1>6, <1>7 DEF Enumerates
<1>11. \A i \in 1..n : o[i] \in S /\ o[i] \in Int
  BY <1>3, <1>9
<1>12. n >= 1 /\ o[1] = 0
  <2>1. \A y \in S : 0 <= y
    BY <1>1, <1>2
  <2> QED BY <1>2, <1>9, <2>1
<1>13. n >= 2 /\ o[2] = 2
  <2>1. 2 \in S /\ 1 \notin S
    BY <1>1, <1>2
  <2>2. PICK i \in 1..n : o[i] = 2
    BY <1>10, <2>1
  <2>3. i # 1 /\ n >= 2 /\ 2 \in 1..n
    BY <1>9, <1>12, <2>2
  <2>4. 0 < o[2]
    BY <1>10, <1>12, <2>3
  <2>5. o[2] # 1
    BY <1>11, <2>1, <2>3
  <2>6. i # 2 => o[2] < 2
    BY <1>10, <2>2, <2>3
  <2> QED BY <1>11, <2>2, <2>3, <2>4, <2>5, <2>6
<1>14. n >= 3 /\ 3 \in 1..n
  <2>1. PICK i \in 1..n : o[i] = l + 1
    BY <1>2, <1>10
  <2> QED BY <1>1, <1>9, <1>12, <1>13, <2>1
<1>15. PICK e : e = o[3] /\ e \in S /\ e \in Int /\ e > 2
  BY <1>10, <1>11, <1>13, <1>14
<1>16. e \in 3..(l + 1)
  BY <1>3, <1>15
<1>17. ASSUME NEW k \in 3..(e - 1), path[k] = "/" PROVE FALSE
  <2>1. k \in S
    BY <1>1, <1>2, <1>16, <1>17
  <2>2. o[2] < k /\ k < o[2 + 1]
    BY <1>13, <1>15
  <2> QED BY <1>9, <1>14, <2>1, <2>2
<1>18. Len(Parts(path)) = n - 1 /\ Parts(path)[1] = SubSeq(path, 1, 1) /\ Parts(path)[2] = SubSeq(path, 3, e - 1)
  <2>1. n - 1 \in Nat /\ 1 \in 1..(n - 1) /\ 2 \in 1..(n - 1)
    BY <1>9, <1>14
  <2>2. PICK p : p = Parts(path)
    OBVIOUS
  <2>3. p = [i \in 1..(n - 1) |-> SubSeq(path, o[i] + 1, o[i + 1] - 1)]
    BY <1>8, <1>9, <2>2
  <2>4. Len(p) = n - 1 /\ p[1] = SubSeq(path, o[1] + 1, o[1 + 1] - 1) /\ p[2] = SubSeq(path, o[2] + 1, o[2 + 1] - 1)
    <3>1. PICK m : m = n - 1 /\ m \in Nat
      BY <2>1
    <3>2. p = [i \in 1..m |-> SubSeq(path, o[i] + 1, o[i + 1] - 1)]
      BY <2>3, <3>1
    <3>3. Len(p) = m
      BY <3>1, <3>2
    <3>4. \A i \in 1..m : p[i] = SubSeq(path, o[i] + 1, o[i + 1] - 1)
      BY <3>2
    <3> QED BY <2>1, <3>1, <3>3, <3>4
  <2>5. o[1] + 1 = 1 /\ o[1 + 1] - 1 = 1 /\ o[2] + 1 = 3 /\ o[2 + 1] - 1 = e - 1
    BY <1>12, <1>13, <1>15
  <2> QED BY <2>2, <2>4, <2>5
<1>19. SubSeq(path, 1, 1) = <<path[1]>>
  BY <1>1, OneWord
<1>20. ASSUME \A k \in 3..l : path[k] # "/" PROVE e = l + 1 /\ n = 3
  <2>1. e = l + 1
    BY <1>1, <1>2, <1>15, <1>16, <1>20
  <2>2. ASSUME n # 3 PROVE FALSE
    <3>1. 4 \in 1..n
      BY <1>9, <1>14, <2>2
    <3>2. o[3] < o[4] /\ o[4] \in S
      BY <1>10, <1>11, <1>14, <3>1
    <3>3. o[4] \in 0..(l + 1) /\ o[4] > l + 1
      BY <1>3, <1>15, <2>1, <3>2
    <3> QED BY <1>1, <3>3
  <2> QED BY <2>1, <2>2
<1>21. n - 1 \in Nat /\ n - 1 >= 2 /\ (n = 3 => n - 1 = 2) /\ (e = l + 1 => e - 1 = l)
  BY <1>1, <1>9, <1>14
<1>22. Parts(path) \in Seq(Seq(W)) /\ \A i \in 1..(n - 1) : Parts(path)[i] = SubSeq(path, o[i] + 1, o[i + 1] - 1)
  <2>1. PICK m : m = n - 1 /\ m \in Nat
    BY <1>21
  <2>2. PICK p : p = Parts(path)
    OBVIOUS
  <2>3. p = [i \in 1..m |-> SubSeq(path, o[i] + 1, o[i + 1] - 1)]
    BY <1>8, <1>9, <2>1, <2>2
  <2>4. ASSUME NEW i \in 1..m PROVE SubSeq(path, o[i] + 1, o[i + 1] - 1) \in Seq(W)
    <3>1. i \in 1..n /\ i + 1 \in 1..n
      BY <1>9, <2>1
    <3>2. PICK a, b : a = o[i] /\ b = o[i + 1] /\ a \in 0..(l + 1) /\ b \in 0..(l + 1)
      BY <1>3, <1>11, <3>1
    <3>3. PICK c \in Int : c = a + 1 /\ c >= 1
      BY <1>1, <3>2
    <3>4. PICK d \in Int : d = b - 1 /\ d <= l
      BY <1>1, <3>2
    <3>5. SubSeq(path, c, d) \in Seq(W)
      BY <1>1, <3>3, <3>4
    <3> QED BY <3>2, <3>3, <3>4, <3>5
  <2>5. p \in [1..m -> Seq(W)]
    BY <2>3, <2>4
  <2>6. p \in Seq(Seq(W))
    BY <2>1, <2>5
  <2> QED BY <2>1, <2>2, <2>3, <2>6
<1>23. ASSUME NEW k \in 3..l, path[k] # "/" PROVE \E i \in 2..(n - 1) : Parts(path)[i] # <<>>
  <2>1. PICK R : R = {x \in S : k <= x}
    OBVIOUS
  <2>2. R \subseteq S /\ R \in SUBSET Int /\ IsFiniteSet(R) /\ l + 1 \in R
    <3>1. R \subseteq S /\ l + 1 \in R
      BY <1>1, <1>2, <2>1
    <3> QED BY <1>3, <1>4, <3>1, FS_Subset
  <2>3. PICK c \in R : \A y \in R : c <= y
    BY <2>2, SomeFirst
  <2>4. PICK j \in 1..n : o[j] = c
    BY <1>10, <2>2
  <2>5. c \in Int /\ c > k /\ c <= l + 1
    <3>1. c \in S /\ c \in Int /\ k <= c
      BY <2>1, <2>2
    <3>2. c # k
      BY <1>1, <1>2, <1>23, <3>1
    <3> QED BY <1>1, <2>2, <2>3, <3>1, <3>2
  <2>6. j \in Int /\ j >= 3 /\ j <= n
    <3>1. j # 1 /\ j # 2
      BY <1>12, <1>13, <2>4, <2>5
    <3> QED BY <1>9, <2>4, <3>1
  <2>7. PICK i : i = j - 1 /\ i \in 2..(n - 1) /\ i \in 1..n /\ i + 1 = j
    BY <1>9, <2>6
  <2>8. PICK a : a = o[i] /\ a \in S /\ a \in Int /\ a < c
    BY <1>10, <1>11, <2>4, <2>7
  <2>9. a < k /\ a >= 0
    <3>1. a \notin R
      BY <2>3, <2>5, <2>8
    <3> QED BY <1>3, <2>1, <2>8, <3>1
  <2>10. Parts(path)[i] = SubSeq(path, a + 1, c - 1)
    <3>1. i \in 1..(n - 1)
      BY <1>9, <2>7
    <3> QED BY <1>22, <2>4, <2>7, <2>8, <3>1
  <2>11. SubSeq(path, a + 1, c - 1) # <<>>
    <3>1. PICK f \in 1..l : f = a + 1 /\ f <= k
      BY <1>1, <2>5, <2>8, <2>9
    <3>2. PICK g \in 1..l : g = c - 1 /\ k <= g
      BY <1>1, <2>5, <2>8, <2>9
    <3>3. f <= g
      BY <1>1, <3>1, <3>2
    <3>4. PICK t : t = SubSeq(path, f, g)
      OBVIOUS
    <3>5. Len(t) = g - f + 1
      BY <1>1, <3>1, <3>2, <3>3, <3>4
    <3>6. Len(t) # 0
      BY <1>1, <3>1, <3>2, <3>3, <3>5
    <3> QED BY <3>1, <3>2, <3>4, <3>6, EmptySeq
  <2> QED BY <2>7, <2>10, <2>11
<1>24. /\ Len(Parts(path)) \in Nat /\ Len(Parts(path)) >= 2 /\ Parts(path)[1] = <<path[1]>>
       /\ (\A k \in 3..Len(path) : path[k] # "/") => Len(Parts(path)) = 2 /\ Parts(path)[2] = SubSeq(path, 3, Len(path))
  BY <1>1, <1>18, <1>19, <1>20, <1>21
<1>25. \A k \in 3..Len(path) : path[k] # "/" => \E i \in 2..Len(Parts(path)) : Parts(path)[i] # <<>>
  BY <1>1, <1>18, <1>23
<1> QED BY <1>1, <1>16, <1>17, <1>18, <1>22, <1>24, <1>25

\* The way to a track is its category and its genre, but for an empty genre.
LEMMA HierarchyOfTrack ==
  ASSUME NEW mid, NEW value, Plain(value), NEW id, id = Music!createMediaID(mid, "BY_GENRE", value)
  PROVE  /\ value = <<>> => Len(Music!getHierarchy(id)) # 2
         /\ value # <<>> => /\ Len(Music!getHierarchy(id)) = 2
                            /\ Music!getHierarchy(id)[1] = <<"BY_GENRE">> /\ Music!getHierarchy(id)[2] = value
<1> DEFINE W == Music!Words \cup {mid}
           bars == Music!Where(id, "|")
<1>0. value \in Seq(Music!Words)
  BY DEF Plain
<1>1. PICK n : n = Len(value) /\ n \in Nat
  BY <1>0
<1>2. /\ id \in Seq(W) /\ Len(id) = n + 4
      /\ id[1] = "BY_GENRE" /\ id[2] = "/" /\ id[n + 3] = "|"
      /\ \A k \in 1..n : id[k + 2] = value[k]
  <2>1. "BY_GENRE" \in Music!Words
    BY DEF Music!Words
  <2>2. IsWay(Music!createMediaID(mid, "BY_GENRE", value), mid, "BY_GENRE", value)
    BY <1>0, <2>1, MediaIDIs
  <2>3. IsWay(id, mid, "BY_GENRE", value)
    BY <2>2
  <2> QED BY <1>1, <2>3 DEF IsWay
<1>3. \A k \in 1..n : value[k] # "/" /\ value[k] # "|"
  BY <1>1 DEF Plain, Separators
<1>4. \A k \in 3..(n + 2) : id[k] # "/" /\ id[k] # "|" /\ id[k] = value[k - 2]
  <2> SUFFICES ASSUME NEW k \in 3..(n + 2) PROVE id[k] # "/" /\ id[k] # "|" /\ id[k] = value[k - 2]
    OBVIOUS
  <2>1. PICK j : j = k - 2 /\ j \in 1..n /\ k = j + 2
    BY <1>1
  <2> QED BY <1>2, <1>3, <2>1
<1>5. n + 3 \in bars /\ bars \in SUBSET Int /\ \A j \in bars : n + 3 <= j
  <2>1. n + 3 \in 1..Len(id)
    BY <1>1, <1>2
  <2>2. \A j \in bars : j \in 1..Len(id) /\ id[j] = "|"
    BY <1>2 DEF Music!Where
  <2>3. ASSUME NEW j \in bars PROVE n + 3 <= j
    <3>1. j \in Int /\ j >= 1 /\ j # 1 /\ j # 2 /\ j \notin 3..(n + 2)
      BY <1>1, <1>2, <1>4, <2>2
    <3> QED BY <1>1, <3>1
  <2>4. n + 3 \in bars
    BY <1>2, <2>1 DEF Music!Where
  <2> QED BY <1>1, <1>2, <2>2, <2>3, <2>4
<1>6. Music!First(bars) = n + 3
  BY <1>5, FirstOfAll
<1>7. PICK path : path = SubSeq(id, 1, n + 2)
  OBVIOUS
<1>8. /\ path \in Seq(W) /\ Len(path) = n + 2 /\ path[1] = "BY_GENRE" /\ path[2] = "/"
      /\ \A k \in 1..(n + 2) : path[k] = id[k]
  BY <1>1, <1>2, <1>7
<1>9. Music!getHierarchy(id) = Kept(Parts(path))
  <2>1. Music!First(bars) - 1 = n + 2 /\ bars # {}
    BY <1>1, <1>5, <1>6
  <2> QED BY <1>7, <2>1 DEF Music!getHierarchy, Parts, Kept
<1>10. Len(path) >= 2 /\ path[1] # "/" /\ \A k \in 3..Len(path) : path[k] # "/"
  BY <1>1, <1>4, <1>8
<1>11. /\ Len(Parts(path)) = 2 /\ Parts(path)[1] = <<"BY_GENRE">> /\ Parts(path)[2] = SubSeq(path, 3, Len(path))
       /\ Parts(path) \in Seq(Seq(W))
  <2> HIDE DEF W
  <2> QED BY <1>8, <1>10, TwoParts
<1>12. SubSeq(path, 3, Len(path)) = value
  <2>1. PICK s : s = SubSeq(path, 3, n + 2)
    OBVIOUS
  <2>2. s \in Seq(W) /\ Len(s) = n /\ \A k \in 1..n : s[k] = path[k + 2]
    BY <1>1, <1>8, <2>1
  <2>3. \A k \in 1..n : s[k] = value[k]
    <3>1. \A k \in 1..n : k + 2 \in 1..(n + 2)
      BY <1>1
    <3> QED BY <1>2, <1>8, <2>2, <3>1
  <2>4. value \in Seq(W)
    BY <1>0, SeqMonotonic
  <2>5. s = value
    BY <1>1, <2>2, <2>3, <2>4, SeqEqual
  <2> QED BY <1>8, <2>1, <2>5
<1>13. PICK parts : parts = Parts(path) /\ parts \in Seq(Seq(W)) /\ Len(parts) = 2 /\ parts[1] = <<"BY_GENRE">> /\ parts[2] = value
  BY <1>11, <1>12
<1>14. PICK h : h = Kept(parts)
  OBVIOUS
<1>15. /\ Len(h) \in 0..2 /\ \A i \in 1..Len(h) : h[i] = parts[i]
       /\ Len(h) # 0 => parts[Len(h)] # <<>>
       /\ \A i \in 1..2 : parts[i] # <<>> => i <= Len(h)
  <2> HIDE DEF W
  <2> QED BY <1>13, <1>14, PartsKept
<1>16. ASSUME value = <<>>, Len(h) = 2 PROVE FALSE
  <2>1. parts[Len(h)] # <<>>
    BY <1>15, <1>16
  <2> QED BY <1>13, <1>16, <2>1
<1>17. value # <<>> => Len(h) = 2 /\ h[1] = parts[1] /\ h[2] = parts[2]
  BY <1>13, <1>15
<1> QED BY <1>9, <1>13, <1>14, <1>16, <1>17

\* A genre that is taken from an ID has no separators, and there is one unless the ID is nameless.
LEMMA HierarchyOfGenre ==
  ASSUME NEW value \in Seq(Music!Words), NEW id, id = Music!createBrowseCategoryMediaID("BY_GENRE", value)
  PROVE  /\ ~(Len(Music!getHierarchy(id)) < 2) => Plain(Music!GenreOf(id))
         /\ ~Music!Nameless(id) => ~(Len(Music!getHierarchy(id)) < 2)
<1> DEFINE W == Music!Words
           bars == Music!Where(id, "|")
<1>1. PICK n : n = Len(value) /\ n \in Nat
  OBVIOUS
<1>2. id \in Seq(W) /\ Len(id) = n + 2 /\ id[1] = "BY_GENRE" /\ id[2] = "/"
  <2>1. "BY_GENRE" \in W /\ "/" \in W
    BY DEF Music!Words
  <2> HIDE DEF W
  <2>2. PICK head : head = <<"BY_GENRE", "/">> /\ head \in Seq(W) /\ Len(head) = 2 /\ head[1] = "BY_GENRE" /\ head[2] = "/"
    <3>1. <<"BY_GENRE", "/">> \in Seq(W)
      BY <2>1
    <3>2. Len(<<"BY_GENRE", "/">>) = 2 /\ <<"BY_GENRE", "/">>[1] = "BY_GENRE" /\ <<"BY_GENRE", "/">>[2] = "/"
      OBVIOUS
    <3> QED BY <3>1, <3>2
  <2>3. id = head \o value
    BY <2>2 DEF Music!createBrowseCategoryMediaID
  <2>4. value \in Seq(W)
    BY DEF W
  <2>5. id \in Seq(W) /\ Len(id) = n + 2 /\ id[1] = head[1] /\ id[2] = head[2]
    <3>1. head \in Seq(W) /\ Len(head) = 2 /\ 1 \in 1..(2 + n) /\ 2 \in 1..(2 + n)
      BY <1>1, <2>2
    <3>2. /\ head \o value \in Seq(W) /\ Len(head \o value) = Len(head) + Len(value)
          /\ \A i \in 1..Len(head) + Len(value) :
               (head \o value)[i] = IF i <= Len(head) THEN head[i] ELSE value[i - Len(head)]
      BY <2>4, <3>1, ConcatProperties
    <3>3. PICK both : both = head \o value
      OBVIOUS
    <3>4. both \in Seq(W) /\ Len(both) = 2 + n /\ both[1] = head[1] /\ both[2] = head[2]
      <4>1. Len(head) + Len(value) = 2 + n
        BY <1>1, <3>1
      <4>2. \A i \in 1..(2 + n) : both[i] = IF i <= 2 THEN head[i] ELSE value[i - 2]
        BY <3>1, <3>2, <3>3, <4>1
      <4>3. both[1] = head[1] /\ both[2] = head[2]
        BY <3>1, <4>2
      <4> QED BY <3>2, <3>3, <4>1, <4>3
    <3>5. id = both
      BY <2>3, <3>3
    <3>6. 2 + n = n + 2
      BY <1>1
    <3> QED BY <3>4, <3>5, <3>6
  <2>6. id[1] = "BY_GENRE" /\ id[2] = "/"
    BY <2>2, <2>5
  <2> QED BY <2>5, <2>6 DEF W
<1>3. bars \in SUBSET Int /\ IsFiniteSet(bars) /\ \A j \in bars : j \in 3..Len(id)
  <2>1. \A j \in bars : j \in 1..Len(id) /\ id[j] = "|"
    BY <1>2 DEF Music!Where
  <2>2. IsFiniteSet(1..Len(id))
    BY <1>1, <1>2, FS_Interval
  <2>3. \A j \in bars : j # 1 /\ j # 2
    BY <1>2, <2>1
  <2>4. \A j \in bars : j \in 3..Len(id) /\ j \in Int
    BY <1>1, <1>2, <2>1, <2>3
  <2>5. bars \subseteq 1..Len(id)
    BY <2>1
  <2>6. IsFiniteSet(bars)
    BY <2>2, <2>5, FS_Subset
  <2> HIDE DEF bars
  <2> QED BY <2>4, <2>6
<1>4. PICK path : path = IF bars = {} THEN id ELSE SubSeq(id, 1, Music!First(bars) - 1)
  OBVIOUS
<1>5. Music!getHierarchy(id) = Kept(Parts(path))
  BY <1>4 DEF Music!getHierarchy, Parts, Kept
<1>6. /\ path \in Seq(W) /\ Len(path) >= 2 /\ path[1] = "BY_GENRE" /\ path[2] = "/"
      /\ \A k \in 1..Len(path) : path[k] # "|"
      /\ \A k \in 1..Len(id) : (\A j \in 3..k : id[j] # "|") => k \in 1..Len(path) /\ path[k] = id[k]
  <2>1. CASE bars = {}
    <3>1. \A k \in 1..Len(id) : id[k] # "|"
      BY <1>2, <2>1 DEF Music!Where
    <3> QED BY <1>1, <1>2, <1>4, <2>1, <3>1
  <2>2. CASE bars # {}
    <3>0. PICK x \in bars : \A y \in bars : x <= y
      <4> HIDE DEF bars
      <4> QED BY <1>3, <2>2, SomeFirst
    <3>1. Music!First(bars) = x
      BY <1>3, <3>0, FirstOfAll
    <3>2. PICK m : m = x - 1 /\ m \in Nat /\ m >= 2 /\ m <= Len(id)
      BY <1>1, <1>2, <1>3
    <3>3. path = SubSeq(id, 1, m)
      BY <1>4, <2>2, <3>1, <3>2
    <3>4. path \in Seq(W) /\ Len(path) = m /\ \A k \in 1..m : path[k] = id[k]
      <4>1. \A k \in 1..m : k \in 1..Len(id) /\ id[k] \in W
        BY <1>1, <1>2, <3>2
      <4>2. path = [k \in 1..m |-> id[k]]
        BY <1>2, <3>2, <3>3
      <4> HIDE DEF W
      <4>3. path \in [1..m -> W]
        BY <4>1, <4>2
      <4>4. m \in Nat
        BY <3>2
      <4>5. Len(path) = m
        BY <4>2, <4>4
      <4>6. path \in Seq(W)
        BY <4>3, <4>4
      <4> QED BY <4>2, <4>5, <4>6 DEF W
    <3>5. ASSUME NEW k \in 1..m, id[k] = "|" PROVE FALSE
      <4>0. x \in Int /\ Len(id) \in Nat
        BY <1>1, <1>2, <1>3
      <4>1. k \in 1..Len(id) /\ k < x
        BY <3>2, <4>0
      <4>2. k \in bars
        BY <1>2, <3>5, <4>1 DEF Music!Where
      <4> QED BY <1>3, <3>0, <4>1, <4>2
    <3>6. ASSUME NEW k \in 1..Len(id), \A j \in 3..k : id[j] # "|" PROVE k \in 1..m
      <4>1. x \in Int /\ Len(id) \in Nat /\ x >= 3 /\ id[x] = "|"
        BY <1>1, <1>2, <1>3 DEF Music!Where
      <4>2. ~(x <= k)
        BY <3>6, <4>1
      <4> QED BY <3>2, <4>1, <4>2
    <3>7. path[1] = "BY_GENRE" /\ path[2] = "/"
      BY <1>2, <3>2, <3>4
    <3> QED BY <3>2, <3>4, <3>5, <3>6, <3>7
  <2> QED BY <2>1, <2>2
<1>7. PICK e \in 3..(Len(path) + 1) :
        Parts(path)[2] = SubSeq(path, 3, e - 1) /\ \A k \in 3..(e - 1) : path[k] # "/"
  <2>1. path[1] # "/"
    BY <1>6
  <2> HIDE DEF W
  <2> QED BY <1>6, <2>1, TwoParts
<1>8. PICK s : s = SubSeq(path, 3, e - 1)
  OBVIOUS
<1>9. PICK l : l = e - 3 /\ l \in Nat /\ l + 2 <= Len(path) /\ e - 1 = l + 2
  BY <1>6
<1>10. s \in Seq(W) /\ Len(s) = l /\ \A k \in 1..l : s[k] = path[k + 2]
  BY <1>6, <1>8, <1>9
<1>11. \A k \in 1..l : k + 2 \in 3..(e - 1) /\ k + 2 \in 1..Len(path)
  BY <1>6, <1>9
<1>12. Plain(s)
  BY <1>6, <1>7, <1>10, <1>11 DEF Plain, Separators
<1>13. /\ Parts(path) \in Seq(Seq(W)) /\ Len(Parts(path)) \in Nat /\ Len(Parts(path)) >= 2
       /\ \A k \in 3..Len(path) : path[k] # "/" => \E i \in 2..Len(Parts(path)) : Parts(path)[i] # <<>>
  <2>1. path[1] # "/"
    BY <1>6
  <2> HIDE DEF W
  <2> QED BY <1>6, <2>1, TwoParts
<1>14. PICK h : h = Kept(Parts(path)) /\ h = Music!getHierarchy(id)
  BY <1>5
<1>15. /\ Len(h) \in 0..Len(Parts(path)) /\ \A i \in 1..Len(h) : h[i] = Parts(path)[i]
       /\ \A i \in 1..Len(Parts(path)) : Parts(path)[i] # <<>> => i <= Len(h)
  <2> HIDE DEF W
  <2> QED BY <1>13, <1>14, PartsKept
<1>16. ASSUME ~(Len(h) < 2) PROVE Plain(h[2])
  <2>1. 2 \in 1..Len(h)
    BY <1>15, <1>16
  <2> QED BY <1>7, <1>8, <1>12, <1>15, <2>1
<1>17. ASSUME ~Music!Nameless(id) PROVE ~(Len(h) < 2)
  <2>1. PICK k \in 3..Len(id) : id[k] # "/" /\ \A j \in 3..k : id[j] # "|"
    BY <1>17 DEF Music!Nameless
  <2>2. k \in 1..Len(id) /\ k \in Int /\ k >= 3
    BY <1>1, <1>2
  <2>3. k \in 1..Len(path) /\ path[k] # "/"
    BY <1>6, <2>1, <2>2
  <2>4. k \in 3..Len(path)
    BY <2>2, <2>3
  <2>5. PICK i \in 2..Len(Parts(path)) : Parts(path)[i] # <<>>
    BY <1>13, <2>3, <2>4
  <2>6. i \in 1..Len(Parts(path)) /\ i >= 2
    BY <1>13, <2>5
  <2>7. i <= Len(h)
    BY <1>15, <2>5, <2>6
  <2> QED BY <1>13, <1>15, <2>6, <2>7
<1> QED BY <1>14, <1>16, <1>17 DEF Music!GenreOf
-----------------------------------------------------------------------------
LEMMA CatalogFacts ==
  /\ IsFiniteSet(Local) /\ Local \subseteq Music!Tracks
  /\ \A track \in Music!Tracks : track.id \in Music!Words /\ track.genre \in Seq(Music!Words)
  /\ \A request \in Requests : request.query \in Seq(Music!Words)
  /\ <<"random">> \in Seq(Music!Words)
  /\ \A answer \in Catalogs : answer = NOTHING \/ answer \in Seq(Music!Tracks \cup {BAD})
  /\ NOTHING \notin Known /\ NOTHING \notin Seq([id : Seq(Music!Words), track : Music!Words])
<1>1. Music!Constants
  BY CatalogAssumption
<1>2. Local \subseteq Music!Tracks
  BY DEF Music!Tracks
<1>3. /\ \A track \in Music!Tracks : track.id \in Music!Words /\ track.genre \in Music!Names
      /\ \A request \in Requests : request.query \in Music!Names
      /\ <<"random">> \in Music!Names
  BY DEF Music!Words, Music!Names
<1>4. Music!Names \subseteq Seq(Music!Words)
  BY <1>1 DEF Music!Constants
<1>5. IsFiniteSet(Local)
  BY <1>1 DEF Music!Constants, Music!IsFiniteSet, IsFiniteSet
<1> QED BY <1>1, <1>2, <1>3, <1>4, <1>5 DEF Music!Constants, Known

LEMMA FiniteImage ==
  ASSUME NEW S, IsFiniteSet(S), NEW T, NEW f \in [S -> T], \A y \in T : \E x \in S : f[x] = y
  PROVE  IsFiniteSet(T)
<1>1. f \in Surjection(S, T)
  BY DEF Surjection
<1> QED BY <1>1, FS_Surjection

\* SetToSeq names each element.
LEMMA MusicOrder ==
  ASSUME NEW S, IsFiniteSet(S)
  PROVE  /\ Cardinality(S) \in Nat
         /\ Music!SetToSeq(S) \in [1..Cardinality(S) -> S]
         /\ \A x \in S : \E i \in 1..Cardinality(S) : Music!SetToSeq(S)[i] = x
<1> DEFINE n == Cardinality(S)
<1>1. n \in Nat /\ ExistsBijection(1..n, S)
  BY FS_CardinalityType
<1>2. \E f \in [1..n -> S] : Music!IsInjective(f)
  BY <1>1 DEF ExistsBijection, Bijection, Injection, IsInjective, Music!IsInjective
<1>3. PICK f : f = Music!SetToSeq(S)
  OBVIOUS
<1>4. f = CHOOSE g \in [1..n -> S] : Music!IsInjective(g)
  BY <1>3, MusicCardinality DEF Music!SetToSeq
<1>5. f \in [1..n -> S] /\ Music!IsInjective(f)
  BY <1>2, <1>4
<1>6. f \in Injection(1..n, S)
  BY <1>5 DEF Injection, IsInjective, Music!IsInjective
<1>7. IsFiniteSet(1..n) /\ Cardinality(1..n) = n
  BY <1>1, FS_Interval
<1>8. f \in Surjection(1..n, S)
  BY <1>6, <1>7, FS_Injection
<1> QED BY <1>1, <1>3, <1>5, <1>8 DEF Surjection

LEMMA EmptyIsQueued == Queued(<<>>)
  BY DEF Queued

LEMMA ConvertedIsQueued ==
  ASSUME NEW tracks, NEW type \in {"BY_GENRE", "BY_SEARCH"}, NEW value \in Seq(Music!Words)
  PROVE  Queued(Music!convertToQueue(tracks, type, value))
<1>1. PICK queue : queue = Music!convertToQueue(tracks, type, value)
  OBVIOUS
<1>2. \A i \in DOMAIN queue : queue[i].id = Music!createMediaID(queue[i].track, type, value)
  BY <1>1 DEF Music!convertToQueue
<1> QED BY <1>1, <1>2 DEF Queued

LEMMA MusicBegins == Music!Init => CatalogInv
<1> SUFFICES ASSUME Music!Init PROVE CatalogInv
  OBVIOUS
<1>1. /\ mCurrentState = "NON_INITIALIZED" /\ loading = [at |-> "idle", rest |-> <<>>]
      /\ mMusicListById = [id \in {track.id : track \in Local} |->
                             Music!Metadata(CHOOSE track \in Local : track.id = id)]
      /\ listed = {[id |-> <<"ROOT">>, playable |-> FALSE]} /\ mPlayingQueue = <<>>
  BY DEF Music!Init, Music!Idle, Music!onGetRoot
<1>2. KnownById
  <2>1. IsFiniteSet(DOMAIN mMusicListById)
    <3> DEFINE f == [track \in Local |-> track.id]
               T == {track.id : track \in Local}
    <3>1. f \in [Local -> T] /\ \A y \in T : \E x \in Local : f[x] = y
      OBVIOUS
    <3>2. DOMAIN mMusicListById = T
      BY <1>1
    <3> HIDE DEF f, T
    <3> QED BY <3>1, <3>2, CatalogFacts, FiniteImage
  <2>2. ASSUME NEW id \in DOMAIN mMusicListById
        PROVE  mMusicListById[id] \in Known /\ mMusicListById[id].track.id = id
    <3>1. PICK track : track = CHOOSE t \in Local : t.id = id
      OBVIOUS
    <3>2. track \in Local /\ track.id = id
      BY <1>1, <3>1
    <3>3. mMusicListById[id] = [track |-> track, art |-> FALSE]
      BY <1>1, <3>1 DEF Music!Metadata
    <3> QED BY <3>2, <3>3, CatalogFacts DEF Known
  <2> QED BY <2>1, <2>2 DEF KnownById
<1>3. Loading
  BY <1>1, EmptySeq DEF Loading
<1>4. Grouped /\ Ways
  BY <1>1 DEF Grouped, Ways
<1> QED BY <1>1, <1>2, <1>3, <1>4, EmptyIsQueued DEF CatalogInv

\* A catalog that counts is the one things were listed of.
LEMMA SameWays ==
  ASSUME Ways, listed' = listed,
         mCurrentState = "INITIALIZED" => mCurrentState' = mCurrentState /\ mMusicListByGenre' = mMusicListByGenre
  PROVE  Ways'
<1> SUFFICES ASSUME NEW item \in listed
             PROVE  IF item.playable
                    THEN /\ mCurrentState' = "INITIALIZED"
                         /\ \E genre \in DOMAIN mMusicListByGenre' : \E metadata \in (mMusicListByGenre')[genre] :
                              Plain(genre) /\ item.id = Music!createMediaID(metadata.track.id, "BY_GENRE", genre)
                    ELSE \/ item.id \in {<<"ROOT">>, <<"BY_GENRE">>}
                         \/ \E genre \in Seq(Music!Words) : item.id = Music!createBrowseCategoryMediaID("BY_GENRE", genre)
  BY DEF Ways
<1> QED BY DEF Ways

LEMMA SameQueue == CatalogInv /\ UNCHANGED mPlayingQueue => (mPlayingQueue' # NOTHING => Queued(mPlayingQueue'))
  BY DEF CatalogInv

LEMMA CatalogIsAskedFor == CatalogInv /\ Music!retrieveMedia => CatalogInv'
<1> SUFFICES ASSUME CatalogInv, Music!retrieveMedia PROVE CatalogInv'
  OBVIOUS
<1>1. /\ UNCHANGED <<mMusicListById, mMusicListByGenre, listed, mPlayingQueue>>
      /\ mCurrentState = "NON_INITIALIZED" /\ mCurrentState' = "INITIALIZING"
      /\ loading' = [at |-> "fetch", rest |-> <<>>]
  BY DEF Music!retrieveMedia
<1>2. KnownById' /\ Loading' /\ Grouped'
  BY <1>1, EmptySeq DEF CatalogInv, KnownById, Loading, Grouped
<1> QED BY <1>1, <1>2, SameWays, SameQueue DEF CatalogInv

LEMMA CatalogIsFetched == CatalogInv /\ Music!fetchJSONFromUrl => CatalogInv'
<1> SUFFICES ASSUME CatalogInv, Music!fetchJSONFromUrl PROVE CatalogInv'
  OBVIOUS
<1>1. /\ UNCHANGED <<mCurrentState, mMusicListById, mMusicListByGenre, listed, mPlayingQueue>>
      /\ loading.at = "fetch"
      /\ \E answer \in Catalogs :
           loading' = [at |-> "tracks", rest |-> IF answer = NOTHING THEN <<>> ELSE answer]
  BY DEF Music!fetchJSONFromUrl
<1>2. loading' \in [at : {"idle", "fetch", "tracks", "built"}, rest : Seq(Music!Tracks \cup {BAD})] /\ loading'.at = "tracks"
  BY <1>1, EmptySeq, CatalogFacts
<1>3. KnownById' /\ Loading' /\ Grouped'
  BY <1>1, <1>2 DEF CatalogInv, KnownById, Loading, Grouped
<1> QED BY <1>1, <1>3, SameWays, SameQueue DEF CatalogInv

LEMMA TrackIsBuilt == CatalogInv /\ Music!buildFromJSON => CatalogInv'
<1> SUFFICES ASSUME CatalogInv, Music!buildFromJSON PROVE CatalogInv'
  OBVIOUS
<1>1. PICK track : track = Head(loading.rest)
  OBVIOUS
<1>2. /\ UNCHANGED <<mCurrentState, mMusicListByGenre, listed, mPlayingQueue>>
      /\ loading.at = "tracks" /\ loading.rest # <<>> /\ track # BAD
      /\ mMusicListById' = [id \in DOMAIN mMusicListById \cup {track.id} |->
                              IF id = track.id THEN Music!Metadata(track) ELSE mMusicListById[id]]
      /\ loading' = [loading EXCEPT !.rest = Tail(@)]
  BY <1>1 DEF Music!buildFromJSON
<1>3. loading.rest \in Seq(Music!Tracks \cup {BAD}) /\ mCurrentState # "INITIALIZED"
  BY <1>2 DEF CatalogInv, Loading
<1>4. track \in Music!Tracks /\ Tail(loading.rest) \in Seq(Music!Tracks \cup {BAD})
  BY <1>1, <1>2, <1>3, HeadTailProperties
<1>5. KnownById'
  <2>1. IsFiniteSet(DOMAIN mMusicListById \cup {track.id})
    BY FS_AddElement DEF CatalogInv, KnownById
  <2>2. Music!Metadata(track) \in Known /\ Music!Metadata(track).track.id = track.id
    BY <1>4 DEF Music!Metadata, Known
  <2> QED BY <1>2, <2>1, <2>2 DEF CatalogInv, KnownById
<1>6. Loading' /\ Grouped'
  BY <1>2, <1>3, <1>4 DEF CatalogInv, Loading, Grouped
<1> QED BY <1>2, <1>3, <1>5, <1>6, SameWays, SameQueue DEF CatalogInv

LEMMA CatalogIsBroken == CatalogInv /\ Music!JSONException => CatalogInv'
<1> SUFFICES ASSUME CatalogInv, Music!JSONException PROVE CatalogInv'
  OBVIOUS
<1>1. /\ UNCHANGED <<mMusicListById, mMusicListByGenre, listed, mPlayingQueue>>
      /\ loading.at = "tracks" /\ mCurrentState' = "NON_INITIALIZED"
      /\ loading' = [at |-> "idle", rest |-> <<>>]
  BY DEF Music!JSONException, Music!Idle
<1>2. KnownById' /\ Loading' /\ Grouped' /\ mCurrentState # "INITIALIZED"
  BY <1>1, EmptySeq DEF CatalogInv, KnownById, Loading, Grouped
<1> QED BY <1>1, <1>2, SameWays, SameQueue DEF CatalogInv

LEMMA GenresAreBuilt == CatalogInv /\ Music!buildListsByGenre => CatalogInv'
<1> SUFFICES ASSUME CatalogInv, Music!buildListsByGenre PROVE CatalogInv'
  OBVIOUS
<1>1. /\ UNCHANGED <<mCurrentState, mMusicListById, listed, mPlayingQueue>>
      /\ loading.at = "tracks" /\ mCurrentState # "INITIALIZED"
      /\ mMusicListByGenre' = Music!ListsByGenre(mMusicListById)
      /\ loading' = [loading EXCEPT !.at = "built"]
  BY DEF Music!buildListsByGenre, CatalogInv, Loading
<1>2. PICK byId : byId = mMusicListById
  OBVIOUS
<1>3. /\ IsFiniteSet(DOMAIN byId)
      /\ \A id \in DOMAIN byId : byId[id] \in Known /\ byId[id].track.id = id
  BY <1>2 DEF CatalogInv, KnownById
<1>4. PICK byGenre : byGenre = Music!ListsByGenre(byId)
  OBVIOUS
<1>5. byGenre = [genre \in {byId[id].track.genre : id \in DOMAIN byId} |->
                   {metadata \in {byId[id] : id \in DOMAIN byId} : metadata.track.genre = genre}]
  BY <1>4 DEF Music!ListsByGenre
<1>6. DOMAIN byGenre = {byId[id].track.genre : id \in DOMAIN byId}
  BY <1>5
<1>7. ASSUME NEW genre \in DOMAIN byGenre
      PROVE  /\ byGenre[genre] \subseteq Known /\ IsFiniteSet(byGenre[genre])
             /\ \A metadata \in byGenre[genre] : metadata.track.genre = genre
             /\ {metadata.track.id : metadata \in byGenre[genre]} =
                  {id \in DOMAIN byId : byId[id].track.genre = genre}
  <2>1. byGenre[genre] = {metadata \in {byId[id] : id \in DOMAIN byId} : metadata.track.genre = genre}
    BY <1>5, <1>7
  <2>2. \A metadata \in byGenre[genre] :
          \E id \in DOMAIN byId : metadata = byId[id] /\ metadata.track.genre = genre
    BY <2>1
  <2>3. \A id \in DOMAIN byId : byId[id].track.genre = genre => byId[id] \in byGenre[genre]
    BY <2>1
  <2>4. IsFiniteSet(byGenre[genre])
    <3> DEFINE mine == {id \in DOMAIN byId : byId[id].track.genre = genre}
               f == [id \in mine |-> byId[id]]
    <3>1. IsFiniteSet(mine)
      BY <1>3, FS_Subset
    <3>2. f \in [mine -> byGenre[genre]]
      BY <2>3
    <3>3. \A y \in byGenre[genre] : \E x \in mine : f[x] = y
      BY <2>2
    <3> HIDE DEF f, mine
    <3> QED BY <3>1, <3>2, <3>3, FiniteImage
  <2>5. ASSUME NEW x
        PROVE  x \in {metadata.track.id : metadata \in byGenre[genre]} <=>
                 x \in {id \in DOMAIN byId : byId[id].track.genre = genre}
    <3>1. ASSUME x \in {metadata.track.id : metadata \in byGenre[genre]}
          PROVE  x \in {id \in DOMAIN byId : byId[id].track.genre = genre}
      <4>1. PICK metadata \in byGenre[genre] : x = metadata.track.id
        BY <3>1
      <4>2. PICK id \in DOMAIN byId : metadata = byId[id] /\ metadata.track.genre = genre
        BY <2>2
      <4>3. byId[id].track.id = id
        BY <1>3
      <4>4. x = id
        BY <4>1, <4>2, <4>3
      <4> QED BY <4>2, <4>4
    <3>2. ASSUME x \in {id \in DOMAIN byId : byId[id].track.genre = genre}
          PROVE  x \in {metadata.track.id : metadata \in byGenre[genre]}
      <4>1. x \in DOMAIN byId /\ byId[x].track.genre = genre /\ byId[x].track.id = x
        BY <1>3, <3>2
      <4> QED BY <2>3, <4>1
    <3> QED BY <3>1, <3>2
  <2>6. byGenre[genre] \subseteq Known
    BY <1>3, <2>2
  <2> QED BY <2>2, <2>4, <2>5, <2>6
<1>8. mMusicListByGenre' = byGenre /\ mMusicListById' = byId
  BY <1>1, <1>2, <1>4
<1>9. Grouped'
  BY <1>6, <1>7, <1>8 DEF Grouped
<1>10. KnownById' /\ Loading'
  BY <1>1 DEF CatalogInv, KnownById, Loading
<1> QED BY <1>1, <1>9, <1>10, SameWays, SameQueue DEF CatalogInv

LEMMA CatalogCounts == CatalogInv /\ Music!Retrieved => CatalogInv'
<1> SUFFICES ASSUME CatalogInv, Music!Retrieved PROVE CatalogInv'
  OBVIOUS
<1>1. /\ UNCHANGED <<mMusicListById, mMusicListByGenre, listed, mPlayingQueue>>
      /\ loading.at = "built" /\ mCurrentState' = "INITIALIZED"
      /\ loading' = [at |-> "idle", rest |-> <<>>]
  BY DEF Music!Retrieved, Music!Idle
<1>2. KnownById' /\ Loading' /\ mCurrentState # "INITIALIZED"
  BY <1>1, EmptySeq DEF CatalogInv, KnownById, Loading
<1>3. Grouped'
  BY <1>1 DEF CatalogInv, Grouped
<1> QED BY <1>1, <1>2, <1>3, SameWays, SameQueue DEF CatalogInv

LEMMA PictureArrives == CatalogInv /\ Music!updateMusic => CatalogInv'
<1> SUFFICES ASSUME CatalogInv, Music!updateMusic PROVE CatalogInv'
  OBVIOUS
<1>1. /\ UNCHANGED <<mCurrentState, mMusicListByGenre, loading, listed, mPlayingQueue>>
      /\ \E id \in DOMAIN mMusicListById : mMusicListById' = [mMusicListById EXCEPT ![id].art = TRUE]
  BY DEF Music!updateMusic
<1>2. /\ DOMAIN mMusicListById' = DOMAIN mMusicListById
      /\ \A id \in DOMAIN mMusicListById :
           (mMusicListById')[id] \in Known /\ (mMusicListById')[id].track = mMusicListById[id].track
  <2>1. PICK at \in DOMAIN mMusicListById : mMusicListById' = [mMusicListById EXCEPT ![at].art = TRUE]
    BY <1>1
  <2>2. PICK seen : seen = [mMusicListById[at] EXCEPT !.art = TRUE]
    OBVIOUS
  <2>3. mMusicListById' = [mMusicListById EXCEPT ![at] = seen]
    BY <2>1, <2>2
  <2>4. \A id \in DOMAIN mMusicListById : mMusicListById[id] \in [track : Music!Tracks, art : BOOLEAN]
    BY DEF CatalogInv, KnownById, Known
  <2>5. seen \in [track : Music!Tracks, art : BOOLEAN] /\ seen.track = mMusicListById[at].track
    BY <2>2, <2>4
  <2>6. /\ DOMAIN mMusicListById' = DOMAIN mMusicListById
        /\ \A id \in DOMAIN mMusicListById :
             (mMusicListById')[id] = IF id = at THEN seen ELSE mMusicListById[id]
    BY <2>3
  <2> QED BY <2>4, <2>5, <2>6 DEF Known
<1>3. KnownById'
  BY <1>2 DEF CatalogInv, KnownById
<1>4. Grouped'
  <2>1. {(mMusicListById')[id].track.genre : id \in DOMAIN mMusicListById'} =
          {mMusicListById[id].track.genre : id \in DOMAIN mMusicListById}
    BY <1>2
  <2>2. \A genre : {id \in DOMAIN mMusicListById' : (mMusicListById')[id].track.genre = genre} =
                     {id \in DOMAIN mMusicListById : mMusicListById[id].track.genre = genre}
    BY <1>2
  <2>3. ASSUME NEW d, d = {(mMusicListById')[id].track.genre : id \in DOMAIN mMusicListById'},
               d = {mMusicListById[id].track.genre : id \in DOMAIN mMusicListById},
               loading.at = "built" \/ mCurrentState = "INITIALIZED"
        PROVE  DOMAIN mMusicListByGenre = d
    BY <2>3 DEF CatalogInv, Grouped
  <2>4. ASSUME loading.at = "built" \/ mCurrentState = "INITIALIZED", NEW genre \in DOMAIN mMusicListByGenre
        PROVE  /\ mMusicListByGenre[genre] \subseteq Known /\ IsFiniteSet(mMusicListByGenre[genre])
               /\ \A metadata \in mMusicListByGenre[genre] : metadata.track.genre = genre
               /\ {metadata.track.id : metadata \in mMusicListByGenre[genre]} =
                    {id \in DOMAIN mMusicListById' : (mMusicListById')[id].track.genre = genre}
    <3>1. {metadata.track.id : metadata \in mMusicListByGenre[genre]} =
            {id \in DOMAIN mMusicListById : mMusicListById[id].track.genre = genre}
      BY <2>4 DEF CatalogInv, Grouped
    <3>2. /\ mMusicListByGenre[genre] \subseteq Known /\ IsFiniteSet(mMusicListByGenre[genre])
          /\ \A metadata \in mMusicListByGenre[genre] : metadata.track.genre = genre
      BY <2>4 DEF CatalogInv, Grouped
    <3> QED BY <2>2, <3>1, <3>2
  <2>5. loading.at = "built" \/ mCurrentState = "INITIALIZED" =>
          DOMAIN mMusicListByGenre = {(mMusicListById')[id].track.genre : id \in DOMAIN mMusicListById'}
    BY <2>1, <2>3
  <2>6. mCurrentState' = mCurrentState /\ loading' = loading /\ mMusicListByGenre' = mMusicListByGenre
    BY <1>1
  <2> QED BY <2>4, <2>5, <2>6 DEF Grouped
<1>5. Loading'
  BY <1>1 DEF CatalogInv, Loading
<1> QED BY <1>1, <1>3, <1>4, <1>5, SameWays, SameQueue DEF CatalogInv

LEMMA GenresAreNames ==
  ASSUME CatalogInv, mCurrentState = "INITIALIZED", NEW genre \in DOMAIN mMusicListByGenre
  PROVE  genre \in Seq(Music!Words)
<1>1. PICK id \in DOMAIN mMusicListById : genre = mMusicListById[id].track.genre
  BY DEF CatalogInv, Grouped
<1>2. mMusicListById[id].track \in Music!Tracks
  BY DEF CatalogInv, KnownById, Known
<1> QED BY <1>1, <1>2, CatalogFacts

LEMMA ItemsAreListed == CatalogInv /\ Music!onLoadChildren => CatalogInv'
<1> SUFFICES ASSUME CatalogInv, Music!onLoadChildren PROVE CatalogInv'
  OBVIOUS
<1>1. /\ UNCHANGED <<mCurrentState, mMusicListById, mMusicListByGenre, loading, mPlayingQueue>>
      /\ mCurrentState = "INITIALIZED"
      /\ \E item \in listed : /\ ~item.playable /\ ~Music!OutOfBounds(item.id)
                              /\ listed' = listed \cup Music!loadChildrenImpl(item.id)
  BY DEF Music!onLoadChildren, Music!Initialized
<1>2. PICK item \in listed : /\ ~item.playable /\ ~Music!OutOfBounds(item.id)
                             /\ listed' = listed \cup Music!loadChildrenImpl(item.id)
  BY <1>1
<1>3. PICK parent : parent = item.id
  OBVIOUS
<1>4. \/ parent \in {<<"ROOT">>, <<"BY_GENRE">>}
      \/ \E genre \in Seq(Music!Words) : parent = Music!createBrowseCategoryMediaID("BY_GENRE", genre)
  BY <1>2, <1>3 DEF CatalogInv, Ways
<1>5. Music!getGenres = DOMAIN mMusicListByGenre
  BY <1>1 DEF Music!getGenres, Music!Initialized
<1>6. ASSUME NEW new \in Music!loadChildrenImpl(parent)
      PROVE  IF new.playable
             THEN \E genre \in DOMAIN mMusicListByGenre : \E metadata \in mMusicListByGenre[genre] :
                    Plain(genre) /\ new.id = Music!createMediaID(metadata.track.id, "BY_GENRE", genre)
             ELSE \/ new.id \in {<<"ROOT">>, <<"BY_GENRE">>}
                  \/ \E genre \in Seq(Music!Words) : new.id = Music!createBrowseCategoryMediaID("BY_GENRE", genre)
  <2>1. CASE parent = <<"ROOT">>
    <3>1. new = [id |-> <<"BY_GENRE">>, playable |-> FALSE]
      BY <1>6, <2>1 DEF Music!loadChildrenImpl
    <3> QED BY <3>1
  <2>2. CASE parent # <<"ROOT">> /\ parent = <<"BY_GENRE">>
    <3>1. PICK genre \in DOMAIN mMusicListByGenre :
            new = [id |-> Music!createBrowseCategoryMediaID("BY_GENRE", genre), playable |-> FALSE]
      BY <1>5, <1>6, <2>2 DEF Music!loadChildrenImpl
    <3>2. genre \in Seq(Music!Words)
      BY <1>1, GenresAreNames
    <3> QED BY <3>1, <3>2
  <2>3. CASE parent # <<"ROOT">> /\ parent # <<"BY_GENRE">>
    <3>1. Plain(Music!GenreOf(parent))
      BY <1>2, <1>3, <1>4, <2>3, HierarchyOfGenre DEF Music!OutOfBounds
    <3>2. PICK metadata \in Music!getMusicsByGenre(Music!GenreOf(parent)) :
            new = [id |-> Music!createMediaID(metadata.track.id, "BY_GENRE", Music!GenreOf(parent)), playable |-> TRUE]
      BY <1>6, <2>3 DEF Music!loadChildrenImpl
    <3>3. PICK genre : genre = Music!GenreOf(parent)
      OBVIOUS
    <3>4. genre \in DOMAIN mMusicListByGenre /\ metadata \in mMusicListByGenre[genre]
      BY <1>5, <3>2, <3>3 DEF Music!getMusicsByGenre
    <3> QED BY <3>1, <3>2, <3>3, <3>4
  <2> QED BY <2>1, <2>2, <2>3
<1>7. Ways'
  <2>1. ASSUME NEW one \in listed'
        PROVE  IF one.playable
               THEN /\ mCurrentState' = "INITIALIZED"
                    /\ \E genre \in DOMAIN mMusicListByGenre' : \E metadata \in (mMusicListByGenre')[genre] :
                         Plain(genre) /\ one.id = Music!createMediaID(metadata.track.id, "BY_GENRE", genre)
               ELSE \/ one.id \in {<<"ROOT">>, <<"BY_GENRE">>}
                    \/ \E genre \in Seq(Music!Words) : one.id = Music!createBrowseCategoryMediaID("BY_GENRE", genre)
    <3>1. CASE one \in listed
      BY <1>1, <3>1 DEF CatalogInv, Ways
    <3>2. CASE one \notin listed
      <4>1. one \in Music!loadChildrenImpl(parent)
        BY <1>2, <1>3, <3>2
      <4> QED BY <1>1, <1>6, <4>1
    <3> QED BY <3>1, <3>2
  <2> QED BY <2>1 DEF Ways
<1>8. KnownById' /\ Loading' /\ Grouped'
  BY <1>1 DEF CatalogInv, KnownById, Loading, Grouped
<1> QED BY <1>1, <1>7, <1>8, SameQueue DEF CatalogInv

\* From the way to a track its genre is queued again, but for an empty genre.
LEMMA QueueOfWay ==
  ASSUME NEW mid, NEW genre, Plain(genre), NEW id, id = Music!createMediaID(mid, "BY_GENRE", genre)
  PROVE  Music!getPlayingQueue(id) =
           IF genre = <<>> THEN NOTHING
           ELSE Music!convertToQueue(Music!getMusicsByGenre(genre), "BY_GENRE", genre)
<1>1. CASE genre = <<>>
  <2>1. Len(Music!getHierarchy(id)) # 2
    BY <1>1, HierarchyOfTrack
  <2> QED BY <1>1, <2>1 DEF Music!getPlayingQueue
<1>2. CASE genre # <<>>
  <2>1. /\ Len(Music!getHierarchy(id)) = 2
        /\ Music!getHierarchy(id)[1] = <<"BY_GENRE">> /\ Music!getHierarchy(id)[2] = genre
    BY <1>2, HierarchyOfTrack
  <2> QED BY <1>2, <2>1 DEF Music!getPlayingQueue
<1> QED BY <1>1, <1>2

LEMMA ItemIsPlayed == CatalogInv /\ Music!onPlayFromMediaId => CatalogInv'
<1> SUFFICES ASSUME CatalogInv, Music!onPlayFromMediaId PROVE CatalogInv'
  OBVIOUS
<1>1. UNCHANGED <<mCurrentState, mMusicListById, mMusicListByGenre, loading, listed>>
  BY DEF Music!onPlayFromMediaId
<1>2. PICK item \in listed : item.playable /\ mPlayingQueue' = Music!getPlayingQueue(item.id)
  BY DEF Music!onPlayFromMediaId
<1>3. PICK genre, mid : Plain(genre) /\ item.id = Music!createMediaID(mid, "BY_GENRE", genre)
  BY <1>2 DEF CatalogInv, Ways
<1>4. \/ mPlayingQueue' = NOTHING
      \/ mPlayingQueue' = Music!convertToQueue(Music!getMusicsByGenre(genre), "BY_GENRE", genre)
  BY <1>2, <1>3, QueueOfWay
<1>5. mPlayingQueue' # NOTHING => Queued(mPlayingQueue')
  BY <1>3, <1>4, ConvertedIsQueued DEF Plain
<1>6. KnownById' /\ Loading' /\ Grouped'
  BY <1>1 DEF CatalogInv, KnownById, Loading, Grouped
<1>7. Ways'
  BY <1>1, SameWays DEF CatalogInv
<1> QED BY <1>5, <1>6, <1>7 DEF CatalogInv

LEMMA SearchIsPlayed == CatalogInv /\ Music!onPlayFromSearch => CatalogInv'
<1> SUFFICES ASSUME CatalogInv, Music!onPlayFromSearch PROVE CatalogInv'
  OBVIOUS
<1>1. UNCHANGED <<mCurrentState, mMusicListById, mMusicListByGenre, loading, listed>>
  BY DEF Music!onPlayFromSearch
<1>2. PICK request \in Requests : mPlayingQueue' \in Music!getPlayingQueueFromSearch(request)
  BY DEF Music!onPlayFromSearch
<1>3. PICK value \in Seq(Music!Words) :
        \E tracks : mPlayingQueue' = Music!convertToQueue(tracks, "BY_SEARCH", value)
  <2>1. CASE request.query = <<>>
    <3>1. PICK tracks : mPlayingQueue' = Music!convertToQueue(tracks, "BY_SEARCH", <<"random">>)
      BY <1>2, <2>1 DEF Music!getPlayingQueueFromSearch
    <3>2. <<"random">> \in Seq(Music!Words)
      BY CatalogFacts
    <3> QED BY <3>1, <3>2
  <2>2. CASE request.query # <<>>
    <3>1. PICK tracks : mPlayingQueue' = Music!convertToQueue(tracks, "BY_SEARCH", request.query)
      BY <1>2, <2>2 DEF Music!getPlayingQueueFromSearch
    <3>2. request.query \in Seq(Music!Words)
      BY CatalogFacts
    <3> QED BY <3>1, <3>2
  <2> QED BY <2>1, <2>2
<1>4. Queued(mPlayingQueue')
  BY <1>3, ConvertedIsQueued
<1>5. KnownById' /\ Loading' /\ Grouped'
  BY <1>1 DEF CatalogInv, KnownById, Loading, Grouped
<1>6. Ways'
  BY <1>1, SameWays DEF CatalogInv
<1> QED BY <1>4, <1>5, <1>6 DEF CatalogInv

LEMMA AppEnds == CatalogInv /\ Music!ArrayIndexOutOfBounds => CatalogInv'
<1> SUFFICES ASSUME CatalogInv, Music!ArrayIndexOutOfBounds PROVE CatalogInv'
  OBVIOUS
<1>1. UNCHANGED <<mCurrentState, mMusicListById, mMusicListByGenre, loading, listed, mPlayingQueue>>
  BY DEF Music!ArrayIndexOutOfBounds
<1>2. KnownById' /\ Loading' /\ Grouped'
  BY <1>1 DEF CatalogInv, KnownById, Loading, Grouped
<1> QED BY <1>1, <1>2, SameWays, SameQueue DEF CatalogInv

LEMMA CatalogStep == CatalogInv /\ [Music!Next]_musicVars => CatalogInv'
<1> SUFFICES ASSUME CatalogInv, [Music!Next]_musicVars PROVE CatalogInv'
  OBVIOUS
<1>1. CASE UNCHANGED musicVars
  <2>1. UNCHANGED <<mCurrentState, mMusicListById, mMusicListByGenre, loading, listed, mPlayingQueue>>
    BY <1>1 DEF musicVars
  <2>2. KnownById' /\ Loading' /\ Grouped'
    BY <2>1 DEF CatalogInv, KnownById, Loading, Grouped
  <2> QED BY <2>1, <2>2, SameWays, SameQueue DEF CatalogInv
<1>2. CASE Music!Next
  BY <1>2, CatalogIsAskedFor, CatalogIsFetched, TrackIsBuilt, CatalogIsBroken, GenresAreBuilt, CatalogCounts,
     ItemsAreListed, AppEnds, ItemIsPlayed, SearchIsPlayed, PictureArrives DEF Music!Next, Music!Load, Music!Main
<1> QED BY <1>1, <1>2

LEMMA GenresOpen ==
  ASSUME CatalogInv, NEW item \in listed, ~item.playable, ~Music!Nameless(item.id)
  PROVE  ~Music!OutOfBounds(item.id)
<1>1. PICK id : id = item.id
  OBVIOUS
<1>2. \/ id \in {<<"ROOT">>, <<"BY_GENRE">>}
      \/ \E genre \in Seq(Music!Words) : id = Music!createBrowseCategoryMediaID("BY_GENRE", genre)
  BY <1>1 DEF CatalogInv, Ways
<1>3. CASE id \in {<<"ROOT">>, <<"BY_GENRE">>}
  BY <1>1, <1>3 DEF Music!OutOfBounds
<1>4. CASE \E genre \in Seq(Music!Words) : id = Music!createBrowseCategoryMediaID("BY_GENRE", genre)
  <2>1. PICK genre \in Seq(Music!Words) : id = Music!createBrowseCategoryMediaID("BY_GENRE", genre)
    BY <1>4
  <2>2. ~(Len(Music!getHierarchy(id)) < 2)
    BY <1>1, <2>1, HierarchyOfGenre
  <2> QED BY <1>1, <2>2 DEF Music!OutOfBounds
<1> QED BY <1>2, <1>3, <1>4

\* The way to a track of the empty genre has no name.
LEMMA EmptyIsNameless ==
  ASSUME NEW mid, NEW id, id = Music!createMediaID(mid, "BY_GENRE", <<>>)
  PROVE  Music!Nameless(id)
<1>1. "BY_GENRE" \in Music!Words /\ <<>> \in Seq(Music!Words)
  BY EmptySeq DEF Music!Words
<1>2. IsWay(id, mid, "BY_GENRE", <<>>)
  BY <1>1, MediaIDIs
<1>3. Len(<<>>) = 0
  BY EmptySeq
<1>4. id[3] = "|"
  BY <1>2, <1>3 DEF IsWay
<1> SUFFICES ASSUME NEW i \in 3..Len(id) PROVE \E j \in 3..i : id[j] = "|"
  BY DEF Music!Nameless
<1>5. 3 \in 3..i
  OBVIOUS
<1> QED BY <1>4, <1>5

LEMMA WaysPlay == CatalogInv => Music!ListedPlays
<1> SUFFICES ASSUME CatalogInv, NEW item \in listed, item.playable, ~Music!Nameless(item.id)
             PROVE  /\ Music!getPlayingQueue(item.id) # NOTHING
                    /\ Music!getMusicIndexOnQueue(Music!getPlayingQueue(item.id), item.id) # -1
                    /\ Music!getMusic(Music!extractMusicIDFromMediaID(item.id)) # NOTHING
  BY GenresOpen DEF Music!ListedPlays
<1>1. mCurrentState = "INITIALIZED"
  BY DEF CatalogInv, Ways
<1>2. PICK genre \in DOMAIN mMusicListByGenre : \E metadata \in mMusicListByGenre[genre] :
        Plain(genre) /\ item.id = Music!createMediaID(metadata.track.id, "BY_GENRE", genre)
  BY DEF CatalogInv, Ways
<1>3. PICK metadata \in mMusicListByGenre[genre] :
        Plain(genre) /\ item.id = Music!createMediaID(metadata.track.id, "BY_GENRE", genre)
  BY <1>2
<1>4. PICK tracks : tracks = mMusicListByGenre[genre]
  OBVIOUS
<1>5. IsFiniteSet(tracks) /\ tracks \subseteq Known /\ metadata \in tracks
  BY <1>1, <1>3, <1>4 DEF CatalogInv, Grouped
<1>6. Music!getMusicsByGenre(genre) = tracks
  BY <1>1, <1>4 DEF Music!getMusicsByGenre, Music!getGenres, Music!Initialized
<1>7. PICK queue : queue = Music!convertToQueue(tracks, "BY_GENRE", genre)
  OBVIOUS
<1>8. Music!getPlayingQueue(item.id) = queue
  <2>1. genre # <<>>
    BY <1>3, EmptyIsNameless
  <2> QED BY <1>3, <1>6, <1>7, <2>1, QueueOfWay
<1>9. PICK order : order = Music!SetToSeq(tracks)
  OBVIOUS
<1>10. PICK n : n = Cardinality(tracks)
  OBVIOUS
<1>11. n \in Nat /\ order \in [1..n -> tracks] /\ \E i \in 1..n : order[i] = metadata
  BY <1>5, <1>9, <1>10, MusicOrder
<1>12. queue = [i \in 1..n |-> [id |-> Music!createMediaID(order[i].track.id, "BY_GENRE", genre),
                                track |-> order[i].track.id]]
  BY <1>7, <1>9, <1>11 DEF Music!convertToQueue
<1>13. queue # NOTHING
  <2>1. ASSUME NEW i \in 1..n PROVE queue[i] \in [id : Seq(Music!Words), track : Music!Words]
    <3>1. PICK mid : mid = order[i].track.id
      OBVIOUS
    <3>2. mid \in Music!Words
      BY <1>5, <1>11, <3>1, CatalogFacts DEF Known
    <3>3. "BY_GENRE" \in Music!Words
      BY DEF Music!Words
    <3>4. IsWay(Music!createMediaID(mid, "BY_GENRE", genre), mid, "BY_GENRE", genre)
      BY <1>3, <3>3, MediaIDIs DEF Plain
    <3>5. Music!Words \cup {mid} = Music!Words
      BY <3>2
    <3>6. Music!createMediaID(mid, "BY_GENRE", genre) \in Seq(Music!Words)
      BY <3>4, <3>5 DEF IsWay
    <3> QED BY <1>12, <3>1, <3>2, <3>6
  <2>2. queue \in Seq([id : Seq(Music!Words), track : Music!Words])
    <3>1. queue \in [1..n -> [id : Seq(Music!Words), track : Music!Words]]
      BY <1>12, <2>1
    <3>2. n \in Nat
      BY <1>11
    <3>3. PICK T : T = [id : Seq(Music!Words), track : Music!Words]
      OBVIOUS
    <3>4. queue \in [1..n -> T]
      BY <3>1, <3>3
    <3>5. queue \in Seq(T)
      BY <3>2, <3>4
    <3> QED BY <3>3, <3>5
  <2> QED BY <2>2, CatalogFacts
<1>14. Music!getMusicIndexOnQueue(queue, item.id) # -1
  <2> DEFINE P == {i \in DOMAIN queue : queue[i].id = item.id}
  <2>1. PICK i \in 1..n : order[i] = metadata
    BY <1>11
  <2>2. i \in P /\ DOMAIN queue = 1..n /\ P \subseteq 1..n
    BY <1>3, <1>12, <2>1
  <2>3. IsFiniteSet(P)
    <3>1. IsFiniteSet(1..n)
      BY <1>11, FS_Interval
    <3> QED BY <2>2, <3>1, FS_Subset
  <2>4. P \in SUBSET Int /\ \A x \in P : x \in Int /\ x >= 1
    BY <1>11, <2>2
  <2>5. Music!getMusicIndexOnQueue(queue, item.id) = Music!First(P) - 1
    BY <2>2 DEF Music!getMusicIndexOnQueue
  <2> HIDE DEF P
  <2>6. PICK x \in P : \A y \in P : x <= y
    BY <2>2, <2>3, <2>4, SomeFirst
  <2>7. Music!First(P) = x
    BY <2>4, <2>6, FirstOfAll
  <2>8. x \in Int /\ x >= 1
    BY <2>4
  <2> QED BY <2>5, <2>7, <2>8
<1>15. PICK mid : mid = metadata.track.id
  OBVIOUS
<1>16. Music!extractMusicIDFromMediaID(item.id) = <<mid>>
  BY <1>3, <1>15, TrackOfWay
<1>17. mid \in DOMAIN mMusicListById
  <2>1. mid \in {m.track.id : m \in mMusicListByGenre[genre]}
    BY <1>3, <1>15
  <2>2. {m.track.id : m \in mMusicListByGenre[genre]} =
          {id \in DOMAIN mMusicListById : mMusicListById[id].track.genre = genre}
    BY <1>1 DEF CatalogInv, Grouped
  <2> QED BY <2>1, <2>2
<1>18. Music!getMusic(<<mid>>) = mMusicListById[mid]
  BY <1>17 DEF Music!getMusic
<1>19. mMusicListById[mid] # NOTHING
  BY <1>17, CatalogFacts DEF CatalogInv, KnownById
<1> QED BY <1>8, <1>13, <1>14, <1>16, <1>18, <1>19

LEMMA CatalogRests == CatalogInv => CatalogPlays
<1> SUFFICES ASSUME CatalogInv PROVE CatalogPlays
  OBVIOUS
<1>1. Music!QueuedIsKnown
  <2> SUFFICES ASSUME mPlayingQueue # NOTHING, NEW i \in DOMAIN mPlayingQueue,
                      Music!Cardinality(Music!Where(mPlayingQueue[i].id, "|")) = 1
               PROVE  Music!extractMusicIDFromMediaID(mPlayingQueue[i].id) = <<mPlayingQueue[i].track>>
    BY DEF Music!QueuedIsKnown
  <2>1. PICK type \in {"BY_GENRE", "BY_SEARCH"}, value \in Seq(Music!Words) :
          mPlayingQueue[i].id = Music!createMediaID(mPlayingQueue[i].track, type, value)
    BY DEF CatalogInv, Queued
  <2>2. type \in Music!Words
    BY DEF Music!Words
  <2>3. PICK id : id = mPlayingQueue[i].id
    OBVIOUS
  <2>4. Cardinality(Music!Where(id, "|")) = 1
    BY <2>3, MusicCardinality
  <2> QED BY <2>1, <2>2, <2>3, <2>4, TrackOfOne
<1>2. Music!ListsMatch
  <2> SUFFICES ASSUME mCurrentState = "INITIALIZED"
               PROVE  [genre \in DOMAIN mMusicListByGenre |-> {metadata.track.id : metadata \in mMusicListByGenre[genre]}] =
                        [genre \in {mMusicListById[id].track.genre : id \in DOMAIN mMusicListById} |->
                           {id \in DOMAIN mMusicListById : mMusicListById[id].track.genre = genre}]
    BY DEF Music!ListsMatch, Music!Initialized
  <2>1. DOMAIN mMusicListByGenre = {mMusicListById[id].track.genre : id \in DOMAIN mMusicListById}
    BY DEF CatalogInv, Grouped
  <2>2. \A genre \in DOMAIN mMusicListByGenre :
          {metadata.track.id : metadata \in mMusicListByGenre[genre]} =
            {id \in DOMAIN mMusicListById : mMusicListById[id].track.genre = genre}
    BY DEF CatalogInv, Grouped
  <2> QED BY <2>1, <2>2
<1> QED BY <1>1, <1>2, WaysPlay DEF CatalogPlays

\* Whatever the server answers and whoever browses while a catalog is loaded: every genre that was
\* listed opens without an exception, and every track that was is played by its media ID from the
\* queue and at the index it came from, unless the genre in the ID has no name before a "|"
\* (Nameless); and the lists by genre have the tracks known by ID (MediaIDHelper.java,
\* MusicProvider.java, QueueHelper.java).
THEOREM CatalogFollows == ScreensSpec => []CatalogPlays
<1>1. ScreensInit => CatalogInv
  BY MusicBegins DEF ScreensInit
<1>2. CatalogInv /\ [ScreensNext]_screensVars => CatalogInv'
  BY CatalogStep DEF ScreensNext, screensVars
<1> QED BY <1>1, <1>2, CatalogRests, PTL DEF ScreensSpec
=============================================================================
