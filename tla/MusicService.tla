----------------------------- MODULE MusicService -----------------------------
(***************************************************************************)
(* MusicService.java with what it steers: the queue of QueueHelper.java,   *)
(* the catalog of MusicProvider.java, the playback on this device or on    *)
(* streaming devices (CastPlayback.java), the announcement of the stream   *)
(* by NsdHelper.java and the notification of MediaNotificationManager.java.*)
(*                                                                         *)
(* Every handler runs on the main thread.  Catalog, artwork and tracks are *)
(* fetched by AsyncTasks, one after the other, and their results wait for  *)
(* the main thread while the user goes on: each of them meets a state that *)
(* is not the one it was asked for in.                                     *)
(*                                                                         *)
(* What AudioCore does with the calls it is given is AudioCoreLifecycle's, *)
(* and what goes on inside LocalPlayback is LocalPlayback's subject; here  *)
(* the one is its last call, the other what it shows to the service.  Left *)
(* out: browsing, favourites, positions, and a crash of the process.       *)
(***************************************************************************)
EXTENDS Integers, Sequences, SequencesExt

CONSTANTS
  Local,     \* tracks that are assets of the program
  Remote,    \* tracks that have to be downloaded
  Queues,    \* the queues the catalog can make
  Port,      \* ports play() may choose
  MaxCalls,  \* bound: requests of the user, and events of the local player
  NULL

Track == Local \cup Remote

ASSUME ServiceAssumption ==
  /\ Local \cap Remote = {} /\ NULL \notin Track /\ NULL \notin Port /\ NULL \notin Queues
  /\ \A queue \in Queues : queue \in Seq(Track)
  /\ MaxCalls \in Nat

VARIABLES
  \* MusicService
  mPlayingQueue, mCurrentIndexOnQueue,
  mServiceStarted,
  stopDue,        \* mDelayedStopHandler has a message
  mPlayback,
  metadata,       \* the track mSession shows
  \* the system
  requested,      \* it wants the service to run: startService, and no stopSelf since
  starting,       \* the service's own startService has not reached onStartCommand
  destroyed, crashed,
  \* MediaNotificationManager
  notification,   \* mStarted, and whether a stop is on the way to its callback
  \* MusicProvider, and the AsyncTasks
  catalog,        \* whether it is INITIALIZED
  art,            \* tracks whose picture is in the catalog
  tasks,          \* waiting for their turn
  results,        \* waiting for the main thread
  \* NsdHelper and AudioCore
  announced,      \* the port that is registered, NULL while mSendingBroadcasts is false
  asked,          \* the last call of AudioCore: Stop, or the port and the track to stream
  \* history
  calls,
  left,           \* the stream was left to itself: a stop, a switch or a search while it was on
  raced,          \* downloads were under way at the last request that needs none
  failed,         \* the download of the current track failed
  stranded,       \* the index was left outside the queue, by a request that plays nothing
  missed          \* playback ended without the service

queueVars == <<mPlayingQueue, mCurrentIndexOnQueue, stranded>>
runVars == <<mServiceStarted, requested, starting, stopDue, missed>>
streamVars == <<announced, asked, left, raced, failed>>
fetchVars == <<catalog, art, tasks, results>>
vars == <<queueVars, runVars, streamVars, fetchVars, mPlayback, metadata, notification,
          destroyed, crashed, calls>>

Stop == [port |-> NULL, track |-> NULL]

NewPlayback(kind) ==
  [kind |-> kind, state |-> "NONE", playing |-> FALSE, mediaId |-> NULL, port |-> NULL]

Init ==
  /\ mPlayingQueue = <<>> /\ mCurrentIndexOnQueue = 0 /\ stranded = FALSE
  /\ mServiceStarted = FALSE /\ requested = FALSE /\ starting = FALSE
  /\ stopDue = FALSE /\ missed = FALSE
  /\ mPlayback = NewPlayback("local") /\ metadata = NULL
  /\ destroyed = FALSE /\ crashed = FALSE
  /\ notification = [mStarted |-> FALSE, stopping |-> FALSE]
  /\ catalog = FALSE /\ art = {} /\ tasks = <<>> /\ results = <<>>
  /\ announced = NULL /\ asked = Stop
  /\ calls = 0 /\ left = FALSE /\ raced = FALSE /\ failed = FALSE
-----------------------------------------------------------------------------
(* Parts of the handlers.                                                  *)

isIndexPlayable(index, queue) == queue # NULL /\ index \in 0 .. Len(queue) - 1

\* There is nothing to play, or the track was not found.
Nowhere(index, queue) == queue \in {NULL, <<>>} \/ index = -1

Casting == mPlayback.kind = "cast"

isPlaying == IF Casting THEN mPlayback.state = "PLAYING" ELSE mPlayback.playing

\* The cast has a stream, or announces one.
Streaming == Casting /\ (announced # NULL \/ asked # Stop)

\* p takes the place of a playback whose stream goes on.
Abandons(p) == p # mPlayback /\ Streaming

Kind(k) == {i \in DOMAIN tasks : tasks[i].kind = k} \cup {i \in DOMAIN results : results[i].kind = k}

Downloading == Kind("download") # {}

\* startNotification needs metadata; a stop is reported to mCb once it is registered.
updatePlaybackState(state, shown) ==
  notification' =
    [mStarted |-> notification.mStarted \/ (state \in {"PLAYING", "PAUSED"} /\ shown # NULL),
     stopping |-> notification.stopping \/ (state \in {"STOPPED", "NONE"} /\ notification.mStarted)]

\* updateMetadata: the picture is in the catalog, in the cache, or still to be fetched.
updateMetadata(track, waiting) ==
  /\ metadata' = track
  /\ \/ track \in art /\ waiting = tasks /\ UNCHANGED art
     \/ track \notin art /\ art # {} /\ waiting = tasks /\ art' = art \cup {track}
     \/ /\ track \notin art /\ UNCHANGED art
        /\ waiting = Append(tasks, [kind |-> "artwork", track |-> track, port |-> NULL])

\* Mutated form: the delayed stop is left as it is.
ScheduleNothing == UNCHANGED <<stopDue, missed>>

\* The delayed stop is removed and sent anew.
ScheduleStop == stopDue' = TRUE /\ missed' = FALSE

unregisterService == announced' = NULL

\* CastPlayback.pause; a download that is under way will start its stream all the same.
CastPause(p) ==
  /\ mPlayback' = [p EXCEPT !.state = "PAUSED"]
  /\ unregisterService /\ asked' = Stop
  /\ left' = FALSE /\ raced' = Downloading /\ failed' = FALSE

\* LocalPlayback.pause pauses a player that is known to play.
LocalPause(p) ==
  /\ \E on \in IF p.state = "PLAYING" THEN BOOLEAN ELSE {p.playing} :
       mPlayback' = [p EXCEPT !.state = "PAUSED", !.playing = on]
  /\ left' = (left \/ Abandons(p)) /\ UNCHANGED <<announced, asked, raced, failed>>

Pause(p) == IF p.kind = "cast" THEN CastPause(p) ELSE LocalPause(p)

\* stop: CastPlayback leaves the stream and its announcement as they are.
Halt(p) ==
  /\ \E on \in IF p.playing THEN BOOLEAN ELSE {FALSE} :
       mPlayback' = [p EXCEPT !.state = "STOPPED", !.playing = on]
  /\ left' = (left \/ Streaming)
  /\ UNCHANGED <<announced, asked, raced, failed>>

LocalPlay(track, p) ==
  /\ \E state \in IF p.state = "PAUSED" /\ p.mediaId = track THEN {"BUFFERING", "PLAYING", "PAUSED"}
                  ELSE {"BUFFERING"} :
       mPlayback' = [p EXCEPT !.state = state, !.playing = TRUE, !.mediaId = track]
  /\ UNCHANGED streamVars

\* Mutated form: registerService replaces nothing, and play() does not pause.
PausesNever(p) == FALSE

PausesFirst(p) == p.state = "PLAYING"

\* registerService does nothing while a port is announced.
registerService(port, before) == announced' = IF before = NULL THEN port ELSE before

\* CastPlayback.play; waiting are the tasks before its own.
CastPlay(track, p, waiting) ==
  \E port \in Port :
    /\ mPlayback' = [p EXCEPT !.state = "PLAYING", !.mediaId = track, !.port = port]
    /\ registerService(port, IF PausesFirst(p) THEN NULL ELSE announced)
    /\ left' = (~PausesFirst(p) /\ (left \/ Abandons(p)))
    /\ \/ /\ track \in Local /\ asked' = [port |-> port, track |-> track]
          /\ raced' = Downloading /\ failed' = FALSE
          /\ tasks' = waiting
       \/ /\ track \in Remote /\ asked' = (IF PausesFirst(p) THEN Stop ELSE asked)
          /\ raced' = FALSE
          /\ \/ failed' = FALSE
                /\ tasks' = Append(waiting, [kind |-> "download", track |-> track, port |-> port])
             \/ failed' = TRUE /\ tasks' = waiting     \* createTempFile failed

\* handlePlayRequest, with the queue and the index of this step.
handlePlayRequest(p) ==
  /\ stopDue' = FALSE
  /\ mServiceStarted' = TRUE
  /\ requested' = (requested \/ ~mServiceStarted) /\ starting' = (starting \/ ~mServiceStarted)
  /\ IF isIndexPlayable(mCurrentIndexOnQueue', mPlayingQueue')
     THEN LET track == mPlayingQueue'[mCurrentIndexOnQueue' + 1] IN
          /\ missed' = FALSE /\ stranded' = FALSE
          /\ \E waiting \in {tasks, Append(tasks, [kind |-> "artwork", track |-> track, port |-> NULL])} :
               /\ updateMetadata(track, waiting)
               /\ IF p.kind = "cast" THEN CastPlay(track, p, waiting)
                  ELSE LocalPlay(track, p) /\ tasks' = waiting
          /\ updatePlaybackState(mPlayback'.state, track)
     ELSE /\ missed' = TRUE /\ stranded' = (stranded \/ Nowhere(mCurrentIndexOnQueue', mPlayingQueue'))
          /\ mPlayback' = p /\ UNCHANGED <<metadata, notification, streamVars, art, tasks>>

\* stop(true) shows the stop before an error is shown.
handleStopRequest(p, error) ==
  /\ Halt(p)
  /\ ScheduleStop
  /\ updatePlaybackState("STOPPED", metadata)
  /\ mServiceStarted' = FALSE /\ requested' = FALSE /\ UNCHANGED starting
  /\ stranded' = (stranded \/ Nowhere(mCurrentIndexOnQueue', mPlayingQueue'))
  /\ UNCHANGED <<metadata, art, tasks>>

\* getMusicIndexOnQueue: the first item of the track, -1 if there is none.
IsIndexOf(index, track, queue) ==
  LET items == {i \in 0 .. Len(queue) - 1 : queue[i + 1] = track}
  IN IF items = {} THEN index = -1 ELSE index \in items /\ \A i \in items : index <= i
-----------------------------------------------------------------------------
(* MediaSessionCallback.                                                   *)

Request == ~destroyed /\ ~crashed /\ calls < MaxCalls /\ calls' = calls + 1
Unrelated == UNCHANGED <<destroyed, crashed, catalog, results>>

\* A catalog that is not there makes an empty queue.
Results == IF catalog THEN Queues ELSE {<<>>}

onPlay ==
  /\ Request /\ Unrelated
  /\ \/ /\ mPlayingQueue \in {NULL, <<>>}
        /\ mPlayingQueue' \in Results /\ mCurrentIndexOnQueue' = 0
     \/ /\ mPlayingQueue \notin {NULL, <<>>}
        /\ UNCHANGED <<mPlayingQueue, mCurrentIndexOnQueue>>
  /\ IF mPlayingQueue' # <<>> THEN handlePlayRequest(mPlayback)
     ELSE UNCHANGED <<stranded, runVars, streamVars, mPlayback, metadata, notification, art, tasks>>

\* The controller may have seen another queue.
onSkipToQueueItem(id) ==
  /\ Request /\ Unrelated
  /\ mPlayingQueue \notin {NULL, <<>>}
  /\ mCurrentIndexOnQueue' = (IF id < Len(mPlayingQueue) THEN id ELSE -1) /\ UNCHANGED mPlayingQueue
  /\ handlePlayRequest(mPlayback)

\* A track of a category that does not have it any more, or of no category.
onPlayFromMediaId(track) ==
  /\ Request /\ Unrelated
  /\ mPlayingQueue' \in Results \cup {NULL}
  /\ IF mPlayingQueue' \in {NULL, <<>>} THEN UNCHANGED mCurrentIndexOnQueue
     ELSE \E index \in -1 .. Len(mPlayingQueue') - 1 :
            IsIndexOf(index, track, mPlayingQueue') /\ mCurrentIndexOnQueue' = index
  /\ IF isIndexPlayable(mCurrentIndexOnQueue', mPlayingQueue') THEN handlePlayRequest(mPlayback)
     ELSE /\ stranded' = TRUE
          /\ UNCHANGED <<runVars, streamVars, mPlayback, metadata, notification, art, tasks>>

onPause ==
  /\ Request /\ Unrelated
  /\ Pause(mPlayback) /\ updatePlaybackState("PAUSED", metadata) /\ ScheduleStop
  /\ UNCHANGED <<queueVars, mServiceStarted, requested, starting, metadata, art, tasks>>

onStop ==
  /\ Request /\ Unrelated
  /\ UNCHANGED <<mPlayingQueue, mCurrentIndexOnQueue>>
  /\ handleStopRequest(mPlayback, FALSE)

PlayOrStop ==
  IF isIndexPlayable(mCurrentIndexOnQueue', mPlayingQueue') THEN handlePlayRequest(mPlayback)
  ELSE handleStopRequest(mPlayback, TRUE)

\* Past its end the queue begins again.
NextIndex(queue) ==
  IF queue # NULL /\ mCurrentIndexOnQueue + 1 >= Len(queue) THEN 0 ELSE mCurrentIndexOnQueue + 1

onSkipToNext ==
  /\ Request /\ Unrelated /\ UNCHANGED mPlayingQueue
  /\ mCurrentIndexOnQueue' = NextIndex(mPlayingQueue)
  /\ PlayOrStop

onSkipToPrevious ==
  /\ Request /\ Unrelated /\ UNCHANGED mPlayingQueue
  /\ mCurrentIndexOnQueue' =
       IF mPlayingQueue # NULL /\ mCurrentIndexOnQueue < 1 THEN 0 ELSE mCurrentIndexOnQueue - 1
  /\ PlayOrStop

\* onCustomAction: the favourite is not modelled, the state is shown again.
onCustomAction ==
  /\ Request /\ Unrelated
  /\ updatePlaybackState(mPlayback.state, metadata)
  /\ UNCHANGED <<queueVars, runVars, streamVars, mPlayback, metadata, art, tasks>>

\* onMusicCatalogReady of a search, with the queue that was found.
SearchEnds(queue, p) ==
  /\ mPlayingQueue' = queue
  /\ \/ /\ queue # <<>> /\ mCurrentIndexOnQueue' = 0
        /\ handlePlayRequest(p)
     \/ /\ queue = <<>> /\ UNCHANGED mCurrentIndexOnQueue
        /\ handleStopRequest(p, TRUE)

\* onPlayFromSearch: retrieveMediaAsync answers at once when it has the catalog.
Connecting == [mPlayback EXCEPT !.state = "CONNECTING"]

onPlayFromSearch ==
  /\ Request /\ UNCHANGED <<destroyed, crashed, catalog, results>>
  /\ IF catalog
     THEN \E queue \in Queues : SearchEnds(queue, Connecting)
     ELSE /\ mPlayback' = Connecting
          /\ left' = (left \/ Streaming)
          /\ missed' = (missed \/ (Casting /\ isPlaying))
          /\ tasks' = Append(tasks, [kind |-> "search", track |-> NULL, port |-> NULL])
          /\ UNCHANGED <<queueVars, mServiceStarted, requested, starting, stopDue, announced, asked,
                         raced, failed, metadata, notification, art>>

\* onLoadChildren of a browser asks for the catalog.
onLoadChildren ==
  /\ Request /\ ~catalog
  /\ tasks' = Append(tasks, [kind |-> "catalog", track |-> NULL, port |-> NULL])
  /\ UNCHANGED <<queueVars, runVars, streamVars, mPlayback, metadata, notification, destroyed, crashed,
                 catalog, art, results>>
-----------------------------------------------------------------------------
(* The life of the service, and the playback it uses.                      *)

\* switchToPlayer, after stop(false) of the old one.
switchToPlayer(kind, resumePlaying) ==
  LET p == [NewPlayback(kind) EXCEPT !.mediaId = mPlayback.mediaId]
      playable == isIndexPlayable(mCurrentIndexOnQueue, mPlayingQueue)
  IN \/ /\ \/ mPlayback.state \in {"BUFFERING", "CONNECTING", "PAUSED"}
           \/ mPlayback.state = "PLAYING" /\ ~resumePlaying
        /\ Pause(p) /\ updatePlaybackState("PAUSED", metadata)
        /\ UNCHANGED tasks
     \/ /\ mPlayback.state = "PLAYING" /\ resumePlaying /\ playable
        /\ CastPlay(mPlayingQueue[mCurrentIndexOnQueue + 1], p, tasks)
        /\ updatePlaybackState("PLAYING", metadata)
     \/ /\ mPlayback.state = "PLAYING" /\ resumePlaying /\ ~playable
        /\ Halt(p) /\ updatePlaybackState("STOPPED", metadata)
        /\ UNCHANGED tasks
     \/ /\ mPlayback.state \in {"NONE", "STOPPED"}
        /\ mPlayback' = p /\ left' = (left \/ Streaming)
        /\ UNCHANGED <<announced, asked, raced, failed, notification, tasks>>

\* onStartCommand: another part of the program has sent a command.
Command == Request /\ requested' = TRUE /\ ScheduleStop

StartCasting ==
  /\ Command /\ Unrelated /\ switchToPlayer("cast", TRUE)
  /\ UNCHANGED <<queueVars, mServiceStarted, starting, metadata, art>>

StopCasting ==
  /\ Command /\ Unrelated /\ switchToPlayer("local", FALSE)
  /\ UNCHANGED <<queueVars, mServiceStarted, starting, metadata, art>>

CommandPause ==
  /\ Command /\ Unrelated
  /\ IF isPlaying THEN Pause(mPlayback) /\ updatePlaybackState("PAUSED", metadata)
     ELSE UNCHANGED <<mPlayback, streamVars, notification>>
  /\ UNCHANGED <<queueVars, mServiceStarted, starting, metadata, art, tasks>>

\* onStartCommand of the start the service has asked for itself.
OwnStart ==
  /\ starting /\ ~destroyed /\ ~crashed
  /\ starting' = FALSE /\ ScheduleStop
  /\ UNCHANGED <<queueVars, streamVars, fetchVars, mServiceStarted, requested, mPlayback, metadata,
                 notification, destroyed, crashed, calls>>

\* DelayedStopHandler
DelayedStop ==
  /\ stopDue /\ ~crashed /\ stopDue' = FALSE
  /\ IF isPlaying THEN UNCHANGED <<mServiceStarted, requested>>
     ELSE mServiceStarted' = FALSE /\ requested' = FALSE
  /\ UNCHANGED <<queueVars, streamVars, fetchVars, starting, missed, mPlayback, metadata, notification,
                 destroyed, crashed, calls>>

\* The system destroys a service nobody needs: cleanup(), handleStopRequest, stopRemotePlayback.
onDestroy ==
  /\ ~requested /\ ~destroyed /\ ~crashed
  /\ destroyed' = TRUE /\ asked' = Stop
  /\ mPlayback' = [NewPlayback("local") EXCEPT !.mediaId = mPlayback.mediaId]
  /\ left' = (left \/ (Casting /\ announced # NULL)) /\ raced' = Downloading
  /\ mServiceStarted' = FALSE /\ starting' = FALSE /\ stopDue' = FALSE /\ missed' = FALSE
  /\ notification' = [mStarted |-> FALSE, stopping |-> FALSE]
  /\ UNCHANGED <<queueVars, fetchVars, requested, announced, failed, metadata, crashed, calls>>

\* What LocalPlayback does by itself and tells the service.
LocalReports(state, on) ==
  /\ ~crashed /\ ~Casting /\ calls < MaxCalls /\ calls' = calls + 1
  /\ \/ /\ mPlayback.playing /\ on                                  \* prepared, or the focus is back
        /\ mPlayback.state \in {"BUFFERING", "CONNECTING", "PAUSED"} /\ state = "PLAYING"
     \/ mPlayback.state = "PLAYING" /\ state = "PAUSED"              \* lost the focus
     \/ mPlayback.state = "PLAYING" /\ state = "PLAYING" /\ ~on      \* an error
  /\ mPlayback' = [mPlayback EXCEPT !.state = state, !.playing = on]
  /\ missed' = (missed \/ ~on)
  /\ updatePlaybackState(IF state = mPlayback.state THEN "ERROR" ELSE state, metadata)
  /\ UNCHANGED <<queueVars, streamVars, fetchVars, mServiceStarted, requested, starting, stopDue,
                 metadata, destroyed, crashed>>

\* The player has come to the end of the track.
onCompletion ==
  /\ ~crashed /\ ~Casting /\ mPlayback.state = "PLAYING" /\ calls < MaxCalls /\ calls' = calls + 1
  /\ Unrelated /\ UNCHANGED mPlayingQueue
  /\ IF mPlayingQueue \notin {NULL, <<>>}
     THEN mCurrentIndexOnQueue' = NextIndex(mPlayingQueue) /\ handlePlayRequest(mPlayback)
     ELSE UNCHANGED mCurrentIndexOnQueue /\ handleStopRequest(mPlayback, FALSE)
-----------------------------------------------------------------------------
(* AsyncTasks: the serial executor, and the messages of the main thread.   *)

FirstOf(waiting) == DOMAIN waiting \cap {1}

\* doInBackground of any of them: it ends, with what was to be fetched or with an error.
doInBackground(task) ==
  {[kind |-> task.kind, track |-> task.track, port |-> task.port, ok |-> ok] : ok \in BOOLEAN}

\* retrieveMedia loads the catalog unless it is there.
TaskRuns ==
  \E i \in FirstOf(tasks) : \E result \in doInBackground(tasks[i]) :
    /\ ~crashed
    /\ tasks' = RemoveAt(tasks, i) /\ results' = Append(results, result)
    /\ catalog' = (catalog \/ (result.kind \in {"search", "catalog"} /\ result.ok))
    /\ UNCHANGED <<queueVars, runVars, streamVars, mPlayback, metadata, notification, destroyed,
                   crashed, calls, art>>

Takes(kind) == results # <<>> /\ Head(results).kind = kind /\ ~crashed /\ results' = Tail(results)

CatalogLoaded ==
  /\ Takes("catalog")
  /\ UNCHANGED <<queueVars, runVars, streamVars, mPlayback, metadata, notification, destroyed, crashed,
                 calls, catalog, art, tasks>>

\* Mutated form: nothing is done when the catalog could not be loaded.
SearchedIfLoaded ==
  /\ Takes("search")
  /\ IF catalog THEN \E queue \in Results : SearchEnds(queue, mPlayback)
     ELSE UNCHANGED <<queueVars, runVars, streamVars, mPlayback, metadata, notification, art, tasks>>
  /\ UNCHANGED <<destroyed, crashed, calls, catalog>>

Searched ==
  /\ Takes("search")
  /\ \E queue \in Results : SearchEnds(queue, mPlayback)
  /\ UNCHANGED <<destroyed, crashed, calls, catalog>>

\* Mutated form: whatever has been fetched is shown.
ShowsFetched(track) == metadata' = track

\* The picture is shown if its track is still the one at the index.
ShowsCurrent(track) ==
  metadata' = IF mPlayingQueue[mCurrentIndexOnQueue + 1] = track THEN track ELSE metadata

\* onFetched
ArtworkFetched ==
  /\ Takes("artwork")
  /\ \/ ~Head(results).ok /\ UNCHANGED <<metadata, art, crashed>>
     \/ /\ Head(results).ok /\ ~isIndexPlayable(mCurrentIndexOnQueue, mPlayingQueue)
        /\ crashed' = TRUE /\ UNCHANGED <<metadata, art>>
     \/ /\ Head(results).ok /\ isIndexPlayable(mCurrentIndexOnQueue, mPlayingQueue)
        /\ art' = art \cup {Head(results).track} /\ ShowsCurrent(Head(results).track)
        /\ UNCHANGED crashed
  /\ UNCHANGED <<queueVars, runVars, streamVars, mPlayback, notification, destroyed, calls, catalog, tasks>>

\* onPostExecute of a DownloadTask
Downloaded ==
  /\ Takes("download")
  /\ LET stream == [port |-> Head(results).port, track |-> Head(results).track] IN
     IF Head(results).ok THEN asked' = stream /\ UNCHANGED failed
     ELSE /\ failed' = (failed \/ stream = [port |-> mPlayback.port, track |-> mPlayback.mediaId])
          /\ UNCHANGED asked
  /\ UNCHANGED <<queueVars, runVars, announced, left, raced, mPlayback, metadata, notification,
                 destroyed, crashed, calls, catalog, art, tasks>>

\* mCb learns of the stop: stopNotification, which unregisters it.
StopReported ==
  /\ notification.stopping /\ ~crashed
  /\ notification' = [mStarted |-> FALSE, stopping |-> FALSE]
  /\ UNCHANGED <<queueVars, runVars, streamVars, fetchVars, mPlayback, metadata, destroyed, crashed, calls>>

User ==
  \/ onPlay \/ onPause \/ onStop \/ onSkipToNext \/ onSkipToPrevious \/ onCustomAction
  \/ onPlayFromSearch \/ onLoadChildren
  \/ \E id \in 0 .. 1 : onSkipToQueueItem(id)
  \/ \E track \in Track : onPlayFromMediaId(track)
  \/ StartCasting \/ StopCasting \/ CommandPause

Player == onCompletion \/ \E state \in {"PLAYING", "PAUSED"}, on \in BOOLEAN : LocalReports(state, on)

System == OwnStart \/ DelayedStop \/ onDestroy \/ StopReported

Result == CatalogLoaded \/ Searched \/ ArtworkFetched \/ Downloaded

Next == User \/ Player \/ System \/ TaskRuns \/ Result

(* The system runs the tasks, which end with a result or an error, and the *)
(* main thread takes its messages.  That the user does anything, or that   *)
(* the service is ever destroyed, is not assumed.                          *)
Fairness == WF_vars(TaskRuns) /\ WF_vars(Result)

Spec == Init /\ [][Next]_vars /\ Fairness
-----------------------------------------------------------------------------
(* Properties.                                                             *)

Kinds == {"search", "catalog", "artwork", "download"}
Task == [kind : Kinds, track : Track \cup {NULL}, port : Port \cup {NULL}]
Answer == [kind : Kinds, track : Track \cup {NULL}, port : Port \cup {NULL}, ok : BOOLEAN]
States == {"NONE", "STOPPED", "PAUSED", "PLAYING", "BUFFERING", "CONNECTING"}
Playback == [kind : {"local", "cast"}, state : States, playing : BOOLEAN,
             mediaId : Track \cup {NULL}, port : Port \cup {NULL}]

TypeOK ==
  /\ mPlayingQueue \in Queues \cup {NULL, <<>>} /\ mCurrentIndexOnQueue \in Int
  /\ mServiceStarted \in BOOLEAN /\ requested \in BOOLEAN /\ starting \in BOOLEAN /\ stopDue \in BOOLEAN
  /\ mPlayback \in Playback
  /\ metadata \in Track \cup {NULL} /\ destroyed \in BOOLEAN /\ crashed \in BOOLEAN
  /\ notification \in [mStarted : BOOLEAN, stopping : BOOLEAN]
  /\ catalog \in BOOLEAN /\ art \subseteq Track
  /\ tasks \in Seq(Task) /\ results \in Seq(Answer)
  /\ announced \in Port \cup {NULL}
  /\ asked \in [port : Port \cup {NULL}, track : Track \cup {NULL}]
  /\ calls \in 0 .. MaxCalls /\ left \in BOOLEAN /\ raced \in BOOLEAN /\ failed \in BOOLEAN
  /\ stranded \in BOOLEAN /\ missed \in BOOLEAN

(* "If we are still playing the same music" (MusicService.java:657): the   *)
(* session never shows another track than the one its playback was given   *)
(* last, although pictures arrive for tracks that were skipped, the queue  *)
(* is replaced, and the playback is exchanged.                             *)
MetadataNamesWhatPlays == metadata = mPlayback.mediaId

(* Once its downloads are done, a playing cast has asked AudioCore for the *)
(* current track at the port receivers are told of: play() may come while  *)
(* older tracks are being fetched and an older port is announced.  Known   *)
(* exceptions: a download ends after a local track has begun, the current  *)
(* one fails, or the stream before was left to itself.                     *)
StreamsCurrentTrack ==
  Casting /\ mPlayback.state = "PLAYING" /\ ~Downloading /\ ~raced /\ ~failed /\ ~left =>
    /\ asked = [port |-> mPlayback.port, track |-> mPlayback.mediaId]
    /\ announced = mPlayback.port

(* While no cast is playing, nothing is streamed and nothing is announced, *)
(* whatever was paused, switched or destroyed; with the same exceptions:   *)
(* CastPlayback.stop ends neither, and a download that was under way       *)
(* starts its stream later.                                                *)
QuietUnlessCasting ==
  ~(Casting /\ mPlayback.state = "PLAYING") /\ ~left =>
    announced = NULL /\ (asked = Stop \/ raced)

(* "Reset the delay handler to enqueue a message to stop the service if    *)
(* nothing is playing" (MusicService.java:243): a service that was started *)
(* and does not play has the message to stop it pending, or is about to be *)
(* given it, unless playback ended behind its back.                        *)
StopIsDue == mServiceStarted /\ ~isPlaying /\ ~missed => stopDue

(* The artwork callback finds an item at the index of its own time, unless *)
(* a request has left the index outside the queue and played nothing.      *)
ThrowsOnlyStranded == crashed => stranded

(* "We only handle the search after the musicProvider is ready"            *)
(* (MusicService.java:524): STATE_CONNECTING ends, whether or not the      *)
(* catalog could be loaded.                                                *)
ConnectingEnds == mPlayback.state = "CONNECTING" ~> mPlayback.state # "CONNECTING" \/ crashed

(* The artwork callback (line 639) reads queue and index when the picture  *)
(* arrives, long after the track it was fetched for: it finds an item, and *)
(* the session never shows another than the one that plays.                *)
ArtworkIsCurrent == MetadataNamesWhatPlays /\ ThrowsOnlyStranded

(* The network hears from a cast what the service plays there, at the port *)
(* it is told of, and nothing otherwise (CastPlayback.java:111 to 330).    *)
CastsWhatPlays == StreamsCurrentTrack /\ QuietUnlessCasting
=============================================================================
