-------------------------- MODULE MusicServiceProofs --------------------------
(***************************************************************************)
(* For any catalog, queues and ports, and any number of requests, what the *)
(* service shows, announces and streams agrees with what it plays.         *)
(***************************************************************************)
EXTENDS MusicService, SequenceTheorems, TLAPS

-----------------------------------------------------------------------------
(* Types.                                                                  *)

\* A picture or a track is asked for by the track.
Asked == {task \in Task : task.kind \in {"artwork", "download"} => task.track \in Track}
Answered == {answer \in Answer : answer.kind \in {"artwork", "download"} => answer.track \in Track}

\* What a request changes besides the queue.
HandledTypes ==
  /\ mServiceStarted \in BOOLEAN /\ requested \in BOOLEAN /\ starting \in BOOLEAN
  /\ stopDue \in BOOLEAN /\ missed \in BOOLEAN /\ stranded \in BOOLEAN
  /\ mPlayback \in Playback
  /\ metadata \in Track \cup {NULL}
  /\ notification \in [mStarted : BOOLEAN, stopping : BOOLEAN]
  /\ announced \in Port \cup {NULL}
  /\ asked \in [port : Port \cup {NULL}, track : Track \cup {NULL}]
  /\ left \in BOOLEAN /\ raced \in BOOLEAN /\ failed \in BOOLEAN
  /\ art \subseteq Track /\ tasks \in Seq(Asked)

QueueTypes ==
  mPlayingQueue \in Queues \cup {NULL, <<>>} /\ mCurrentIndexOnQueue \in Int

OtherTypes ==
  /\ destroyed \in BOOLEAN /\ crashed \in BOOLEAN /\ catalog \in BOOLEAN
  /\ results \in Seq(Answered) /\ calls \in 0 .. MaxCalls

\* Every variable in its type.  TypeOK alone is not inductive: a picture that
\* arrives is one of a track because it was asked for with one.
TypeInv == HandledTypes /\ QueueTypes /\ OtherTypes

LEMMA TypesBefore == TypeInv <=> HandledTypes /\ QueueTypes /\ OtherTypes
BY DEF TypeInv

LEMMA TypesAfter == HandledTypes' /\ QueueTypes' /\ OtherTypes' => TypeInv'
BY DEF TypeInv

\* An item that can be played is a track.
LEMMA PlayableItem ==
  ASSUME NEW queue \in Queues \cup {NULL, <<>>}, NEW index \in Int,
         isIndexPlayable(index, queue)
  PROVE  /\ queue \in Seq(Track) /\ queue # <<>> /\ queue # NULL
         /\ index + 1 \in 1 .. Len(queue) /\ queue[index + 1] \in Track
<1>1. queue # NULL /\ index \in 0 .. Len(queue) - 1
  BY DEF isIndexPlayable
<1>2. queue \in Seq(Track)
  BY <1>1, ServiceAssumption, EmptySeq
<1>3. index + 1 \in 1 .. Len(queue)
  BY <1>1, <1>2, LenProperties
<1>4. queue[index + 1] \in Track
  BY <1>2, <1>3, ElementOfSeq
<1>5. queue # <<>>
  BY <1>3, EmptySeq
<1> QED BY <1>1, <1>2, <1>3, <1>4, <1>5

\* A new task goes to the end.
LEMMA TasksGrow ==
  ASSUME NEW s \in Seq(Asked), NEW kind \in Kinds, NEW track \in Track \cup {NULL},
         NEW port \in Port \cup {NULL}, kind \in {"artwork", "download"} => track \in Track
  PROVE  Append(s, [kind |-> kind, track |-> track, port |-> port]) \in Seq(Asked)
<1>1. [kind |-> kind, track |-> track, port |-> port] \in Asked
  BY DEF Task, Asked
<1> QED BY <1>1, AppendProperties

LEMMA NewPlaybackType ==
  ASSUME NEW kind \in {"local", "cast"}
  PROVE  NewPlayback(kind) \in Playback
BY DEF NewPlayback, Playback, States

\* What a request hands to the parts of the handlers.

LEMMA StreamTypesPause ==
  ASSUME HandledTypes, NEW p \in Playback, Pause(p)
  PROVE  /\ mPlayback' \in Playback /\ announced' \in Port \cup {NULL}
         /\ asked' \in [port : Port \cup {NULL}, track : Track \cup {NULL}]
         /\ left' \in BOOLEAN /\ raced' \in BOOLEAN /\ failed' \in BOOLEAN
<1>1. CASE CastPause(p)
  BY <1>1 DEF CastPause, unregisterService, Stop, Playback, States, HandledTypes, Downloading
<1>2. CASE LocalPause(p)
  <2>1. mPlayback' \in Playback
    BY <1>2 DEF LocalPause, Playback, States
  <2> QED BY <1>2, <2>1 DEF LocalPause, HandledTypes
<1> QED BY <1>1, <1>2 DEF Pause

LEMMA StreamTypesHalt ==
  ASSUME HandledTypes, NEW p \in Playback, Halt(p)
  PROVE  /\ mPlayback' \in Playback /\ announced' \in Port \cup {NULL}
         /\ asked' \in [port : Port \cup {NULL}, track : Track \cup {NULL}]
         /\ left' \in BOOLEAN /\ raced' \in BOOLEAN /\ failed' \in BOOLEAN
<1>1. mPlayback' \in Playback
  BY DEF Halt, Playback, States
<1> QED BY <1>1 DEF Halt, HandledTypes

LEMMA StreamTypesCastPlay ==
  ASSUME HandledTypes, NEW p \in Playback, NEW track \in Track, NEW waiting \in Seq(Asked),
         CastPlay(track, p, waiting)
  PROVE  /\ mPlayback' \in Playback /\ announced' \in Port \cup {NULL}
         /\ asked' \in [port : Port \cup {NULL}, track : Track \cup {NULL}]
         /\ left' \in BOOLEAN /\ raced' \in BOOLEAN /\ failed' \in BOOLEAN
         /\ tasks' \in Seq(Asked)
<1>1. PICK port \in Port :
        /\ mPlayback' = [p EXCEPT !.state = "PLAYING", !.mediaId = track, !.port = port]
        /\ registerService(port, IF PausesFirst(p) THEN NULL ELSE announced)
        /\ left' = (~PausesFirst(p) /\ (left \/ Abandons(p)))
        /\ \/ /\ track \in Local /\ asked' = [port |-> port, track |-> track]
              /\ raced' = Downloading /\ failed' = FALSE
              /\ tasks' = waiting
           \/ /\ track \in Remote /\ asked' = (IF PausesFirst(p) THEN Stop ELSE asked)
              /\ raced' = FALSE
              /\ \/ failed' = FALSE
                    /\ tasks' = Append(waiting, [kind |-> "download", track |-> track, port |-> port])
                 \/ failed' = TRUE /\ tasks' = waiting
  BY Zenon DEF CastPlay
<1>2. mPlayback' \in Playback
  <2>1. mPlayback' = [p EXCEPT !.state = "PLAYING", !.mediaId = track, !.port = port]
    BY <1>1
  <2> QED BY <2>1 DEF Playback, States
<1>3. announced' \in Port \cup {NULL} /\ left' \in BOOLEAN
  BY <1>1 DEF registerService, HandledTypes
<1>4. asked' \in [port : Port \cup {NULL}, track : Track \cup {NULL}]
  BY <1>1 DEF Stop, HandledTypes
<1>5. raced' \in BOOLEAN /\ failed' \in BOOLEAN
  BY <1>1 DEF Downloading
<1>6. tasks' \in Seq(Asked)
  BY <1>1, TasksGrow DEF Kinds
<1> QED BY <1>2, <1>3, <1>4, <1>5, <1>6

LEMMA NotificationTypes ==
  ASSUME HandledTypes, NEW state, NEW shown, updatePlaybackState(state, shown)
  PROVE  notification' \in [mStarted : BOOLEAN, stopping : BOOLEAN]
<1> DEFINE on == notification.mStarted \/ (state \in {"PLAYING", "PAUSED"} /\ shown # NULL)
           off == notification.stopping \/ (state \in {"STOPPED", "NONE"} /\ notification.mStarted)
<1>1. on \in BOOLEAN /\ off \in BOOLEAN
  OBVIOUS
<1> HIDE DEF on, off
<1>2. notification' = [mStarted |-> on, stopping |-> off]
  BY DEF updatePlaybackState, on, off
<1> QED BY <1>1, <1>2

LEMMA LocalPlayTypes ==
  ASSUME NEW p \in Playback, NEW track \in Track, LocalPlay(track, p)
  PROVE  mPlayback' \in Playback
BY DEF LocalPlay, Playback, States

LEMMA MetadataTypes ==
  ASSUME HandledTypes, NEW track \in Track, NEW waiting, updateMetadata(track, waiting)
  PROVE  /\ metadata' \in Track \cup {NULL} /\ art' \subseteq Track
         /\ waiting \in Seq(Asked)
<1>1. Append(tasks, [kind |-> "artwork", track |-> track, port |-> NULL]) \in Seq(Asked)
  BY TasksGrow DEF HandledTypes, Kinds
<1> QED BY <1>1 DEF updateMetadata, HandledTypes

LEMMA PlayTypes ==
  ASSUME HandledTypes, QueueTypes', NEW p \in Playback, handlePlayRequest(p)
  PROVE  HandledTypes'
<1> DEFINE index == mCurrentIndexOnQueue'
           queue == mPlayingQueue'
           item == queue[index + 1]
<1>1. /\ stopDue' = FALSE /\ mServiceStarted' = TRUE
      /\ requested' = (requested \/ ~mServiceStarted) /\ starting' = (starting \/ ~mServiceStarted)
  BY DEF handlePlayRequest
<1>2. CASE isIndexPlayable(index, queue)
  <2>1. item \in Track
    BY <1>2, PlayableItem DEF QueueTypes
  <2>2. missed' = FALSE /\ stranded' = FALSE /\ updatePlaybackState(mPlayback'.state, item)
    BY <1>2 DEF handlePlayRequest
  <2>3. PICK waiting \in {tasks, Append(tasks, [kind |-> "artwork", track |-> item, port |-> NULL])} :
          /\ updateMetadata(item, waiting)
          /\ IF p.kind = "cast" THEN CastPlay(item, p, waiting)
             ELSE LocalPlay(item, p) /\ tasks' = waiting
    BY <1>2, Zenon DEF handlePlayRequest
  <2> HIDE DEF item
  <2>4. metadata' \in Track \cup {NULL} /\ art' \subseteq Track /\ waiting \in Seq(Asked)
    BY <2>1, <2>3, MetadataTypes
  <2>5. notification' \in [mStarted : BOOLEAN, stopping : BOOLEAN]
    BY <2>2, NotificationTypes
  <2>6. CASE p.kind = "cast"
    BY <1>1, <2>1, <2>2, <2>3, <2>4, <2>5, <2>6, StreamTypesCastPlay DEF HandledTypes
  <2>7. CASE p.kind # "cast"
    <3>1. LocalPlay(item, p) /\ tasks' = waiting
      BY <2>3, <2>7
    <3>2. UNCHANGED streamVars
      BY <3>1 DEF LocalPlay
    <3> QED BY <1>1, <2>1, <2>2, <2>4, <2>5, <3>1, <3>2, LocalPlayTypes
            DEF HandledTypes, streamVars
  <2> QED BY <2>6, <2>7
<1>3. CASE ~isIndexPlayable(index, queue)
  <2>1. /\ missed' = TRUE /\ stranded' = (stranded \/ Nowhere(index, queue))
        /\ mPlayback' = p /\ UNCHANGED <<metadata, notification, streamVars, art, tasks>>
    BY <1>3, Zenon DEF handlePlayRequest
  <2> QED BY <1>1, <2>1 DEF HandledTypes, streamVars
<1> QED BY <1>2, <1>3

LEMMA StopTypes ==
  ASSUME HandledTypes, NEW p \in Playback, NEW error, handleStopRequest(p, error)
  PROVE  HandledTypes'
<1>1. /\ Halt(p) /\ ScheduleStop /\ updatePlaybackState("STOPPED", metadata)
      /\ mServiceStarted' = FALSE /\ requested' = FALSE /\ UNCHANGED starting
      /\ stranded' = (stranded \/ Nowhere(mCurrentIndexOnQueue', mPlayingQueue'))
      /\ UNCHANGED <<metadata, art, tasks>>
  BY DEF handleStopRequest
<1> QED BY <1>1, StreamTypesHalt, NotificationTypes DEF HandledTypes, ScheduleStop

LEMMA SwitchTypes ==
  ASSUME HandledTypes, QueueTypes, NEW kind \in {"local", "cast"}, NEW resume,
         switchToPlayer(kind, resume)
  PROVE  /\ mPlayback' \in Playback /\ announced' \in Port \cup {NULL}
         /\ asked' \in [port : Port \cup {NULL}, track : Track \cup {NULL}]
         /\ left' \in BOOLEAN /\ raced' \in BOOLEAN /\ failed' \in BOOLEAN
         /\ notification' \in [mStarted : BOOLEAN, stopping : BOOLEAN]
         /\ tasks' \in Seq(Asked)
<1> DEFINE p == [NewPlayback(kind) EXCEPT !.mediaId = mPlayback.mediaId]
           item == mPlayingQueue[mCurrentIndexOnQueue + 1]
<1>1. p \in Playback
  BY NewPlaybackType DEF Playback, HandledTypes
<1>2. isIndexPlayable(mCurrentIndexOnQueue, mPlayingQueue) => item \in Track
  BY PlayableItem DEF QueueTypes
<1>3. \/ Pause(p) /\ updatePlaybackState("PAUSED", metadata) /\ UNCHANGED tasks
      \/ /\ isIndexPlayable(mCurrentIndexOnQueue, mPlayingQueue)
         /\ CastPlay(item, p, tasks) /\ updatePlaybackState("PLAYING", metadata)
      \/ Halt(p) /\ updatePlaybackState("STOPPED", metadata) /\ UNCHANGED tasks
      \/ /\ mPlayback' = p /\ left' = (left \/ Streaming)
         /\ UNCHANGED <<announced, asked, raced, failed, notification, tasks>>
  BY Zenon DEF switchToPlayer
<1> HIDE DEF p, item
<1>4. CASE Pause(p) /\ updatePlaybackState("PAUSED", metadata) /\ UNCHANGED tasks
  BY <1>1, <1>4, StreamTypesPause, NotificationTypes DEF HandledTypes
<1>5. CASE /\ isIndexPlayable(mCurrentIndexOnQueue, mPlayingQueue)
           /\ CastPlay(item, p, tasks) /\ updatePlaybackState("PLAYING", metadata)
  <2>1. tasks \in Seq(Asked)
    BY DEF HandledTypes
  <2> QED BY <1>1, <1>2, <1>5, <2>1, StreamTypesCastPlay, NotificationTypes
<1>6. CASE Halt(p) /\ updatePlaybackState("STOPPED", metadata) /\ UNCHANGED tasks
  BY <1>1, <1>6, StreamTypesHalt, NotificationTypes DEF HandledTypes
<1>7. CASE /\ mPlayback' = p /\ left' = (left \/ Streaming)
           /\ UNCHANGED <<announced, asked, raced, failed, notification, tasks>>
  BY <1>1, <1>7 DEF HandledTypes
<1> QED BY <1>3, <1>4, <1>5, <1>6, <1>7

LEMMA RequestTypes ==
  ASSUME OtherTypes, Request, UNCHANGED <<destroyed, crashed, catalog, results>>
  PROVE  OtherTypes'
BY ServiceAssumption DEF OtherTypes, Request

\* A request that only plays, stops or does nothing with what is handled.
LEMMA HandledUnchanged ==
  ASSUME HandledTypes,
         UNCHANGED <<stranded, runVars, streamVars, mPlayback, metadata, notification, art, tasks>>
  PROVE  HandledTypes'
BY DEF HandledTypes, runVars, streamVars

LEMMA SearchTypes ==
  ASSUME HandledTypes, QueueTypes, NEW queue \in Queues \cup {<<>>}, NEW p \in Playback,
         SearchEnds(queue, p)
  PROVE  HandledTypes' /\ QueueTypes'
<1>1. QueueTypes'
  <2>1. mPlayingQueue' = queue /\ (mCurrentIndexOnQueue' = 0 \/ mCurrentIndexOnQueue' = mCurrentIndexOnQueue)
    BY DEF SearchEnds
  <2> QED BY <2>1 DEF QueueTypes
<1>2. handlePlayRequest(p) \/ handleStopRequest(p, TRUE)
  BY DEF SearchEnds
<1> QED BY <1>1, <1>2, PlayTypes, StopTypes

LEMMA ConnectingType ==
  ASSUME HandledTypes
  PROVE  Connecting \in Playback
BY DEF HandledTypes, Connecting, Playback, States

LEMMA UserTypes ==
  ASSUME TypeInv, User
  PROVE  TypeInv'
<1>0. HandledTypes /\ QueueTypes /\ OtherTypes /\ mPlayback \in Playback
  BY TypesBefore DEF HandledTypes
<1>1. ASSUME onPlay PROVE TypeInv'
  <2>1. OtherTypes'
    BY <1>0, <1>1, RequestTypes DEF onPlay, Unrelated
  <2>2. QueueTypes'
    BY <1>0, <1>1 DEF onPlay, QueueTypes, Results
  <2>3. HandledTypes'
    BY <1>0, <1>1, <2>2, PlayTypes, HandledUnchanged DEF onPlay
  <2> QED BY <2>1, <2>2, <2>3, TypesAfter
<1>2. ASSUME NEW id \in 0 .. 1, onSkipToQueueItem(id) PROVE TypeInv'
  <2>1. OtherTypes'
    BY <1>0, <1>2, RequestTypes DEF onSkipToQueueItem, Unrelated
  <2>2. QueueTypes'
    BY <1>0, <1>2 DEF onSkipToQueueItem, QueueTypes
  <2>3. HandledTypes'
    BY <1>0, <1>2, <2>2, PlayTypes DEF onSkipToQueueItem
  <2> QED BY <2>1, <2>2, <2>3, TypesAfter
<1>3. ASSUME NEW track \in Track, onPlayFromMediaId(track) PROVE TypeInv'
  <2>1. OtherTypes'
    BY <1>0, <1>3, RequestTypes DEF onPlayFromMediaId, Unrelated
  <2>2. mPlayingQueue' \in Queues \cup {NULL, <<>>}
    BY <1>3 DEF onPlayFromMediaId, Results
  <2>3. mCurrentIndexOnQueue' \in Int
    <3>1. CASE mPlayingQueue' \in {NULL, <<>>}
      BY <1>0, <1>3, <3>1 DEF onPlayFromMediaId, QueueTypes
    <3>2. CASE mPlayingQueue' \notin {NULL, <<>>}
      <4>1. mPlayingQueue' \in Seq(Track) /\ Len(mPlayingQueue') \in Nat
        BY <2>2, <3>2, ServiceAssumption, LenProperties
      <4>2. \E index \in -1 .. Len(mPlayingQueue') - 1 : mCurrentIndexOnQueue' = index
        BY <1>3, <3>2, Zenon DEF onPlayFromMediaId
      <4> QED BY <4>1, <4>2
    <3> QED BY <3>1, <3>2
  <2>4. handlePlayRequest(mPlayback)
        \/ /\ stranded' = TRUE
           /\ UNCHANGED <<runVars, streamVars, mPlayback, metadata, notification, art, tasks>>
    BY <1>3, Zenon DEF onPlayFromMediaId
  <2>5. QueueTypes'
    BY <2>2, <2>3 DEF QueueTypes
  <2>6. HandledTypes'
    BY <1>0, <2>4, <2>5, PlayTypes DEF HandledTypes, runVars, streamVars
  <2> QED BY <2>1, <2>5, <2>6, TypesAfter
<1>4. ASSUME onPause PROVE TypeInv'
  <2>1. OtherTypes' /\ QueueTypes'
    BY <1>0, <1>4, RequestTypes DEF onPause, Unrelated, QueueTypes, queueVars
  <2>2. HandledTypes'
    BY <1>0, <1>4, StreamTypesPause, NotificationTypes DEF onPause, HandledTypes, queueVars, ScheduleStop
  <2> QED BY <2>1, <2>2, TypesAfter
<1>5. ASSUME onStop PROVE TypeInv'
  <2>1. OtherTypes' /\ QueueTypes'
    BY <1>0, <1>5, RequestTypes DEF onStop, Unrelated, QueueTypes
  <2>2. HandledTypes'
    BY <1>0, <1>5, StopTypes DEF onStop
  <2> QED BY <2>1, <2>2, TypesAfter
<1>6. ASSUME onSkipToNext \/ onSkipToPrevious PROVE TypeInv'
  <2>1. OtherTypes'
    BY <1>0, <1>6, RequestTypes DEF onSkipToNext, onSkipToPrevious, Unrelated
  <2>2. QueueTypes'
    BY <1>0, <1>6 DEF onSkipToNext, onSkipToPrevious, NextIndex, QueueTypes
  <2>3. HandledTypes'
    BY <1>0, <1>6, <2>2, PlayTypes, StopTypes DEF onSkipToNext, onSkipToPrevious, PlayOrStop
  <2> QED BY <2>1, <2>2, <2>3, TypesAfter
<1>7. ASSUME onCustomAction PROVE TypeInv'
  <2>1. OtherTypes' /\ QueueTypes'
    BY <1>0, <1>7, RequestTypes DEF onCustomAction, Unrelated, QueueTypes, queueVars
  <2>2. HandledTypes'
    BY <1>0, <1>7, NotificationTypes DEF onCustomAction, HandledTypes, runVars, streamVars, queueVars
  <2> QED BY <2>1, <2>2, TypesAfter
<1>8. ASSUME onPlayFromSearch PROVE TypeInv'
  <2>1. OtherTypes'
    BY <1>0, <1>8, RequestTypes DEF onPlayFromSearch
  <2>2. CASE \E queue \in Queues : SearchEnds(queue, Connecting)
    <3>1. Connecting \in Playback
      BY <1>0, ConnectingType
    <3>2. HandledTypes' /\ QueueTypes'
      <4>1. PICK queue \in Queues : SearchEnds(queue, Connecting)
        BY <2>2
      <4> HIDE DEF Connecting
      <4>2. queue \in Queues \cup {<<>>}
        OBVIOUS
      <4> QED BY <1>0, <3>1, <4>1, <4>2, SearchTypes
    <3> QED BY <2>1, <3>2, TypesAfter
  <2>3. CASE /\ mPlayback' = Connecting
             /\ left' = (left \/ Streaming)
             /\ missed' = (missed \/ (Casting /\ isPlaying))
             /\ tasks' = Append(tasks, [kind |-> "search", track |-> NULL, port |-> NULL])
             /\ UNCHANGED <<queueVars, mServiceStarted, requested, starting, stopDue, announced,
                            asked, raced, failed, metadata, notification, art>>
    <3>1. tasks' \in Seq(Asked)
      BY <1>0, <2>3, TasksGrow DEF HandledTypes, Kinds
    <3>2. HandledTypes'
      BY <1>0, <2>3, <3>1, ConnectingType DEF HandledTypes, queueVars
    <3>3. QueueTypes'
      BY <1>0, <2>3 DEF QueueTypes, queueVars
    <3> QED BY <2>1, <3>2, <3>3, TypesAfter
  <2> QED BY <1>8, <2>2, <2>3, Zenon DEF onPlayFromSearch
<1>9. ASSUME onLoadChildren PROVE TypeInv'
  <2>1. OtherTypes' /\ QueueTypes'
    BY <1>0, <1>9, RequestTypes DEF onLoadChildren, QueueTypes, queueVars
  <2>2. tasks' \in Seq(Asked)
    BY <1>0, <1>9, TasksGrow DEF onLoadChildren, HandledTypes, Kinds
  <2>3. HandledTypes'
    BY <1>0, <1>9, <2>2 DEF onLoadChildren, HandledTypes, runVars, streamVars, queueVars
  <2> QED BY <2>1, <2>3, TypesAfter
<1>10. ASSUME StartCasting \/ StopCasting PROVE TypeInv'
  <2>1. OtherTypes' /\ QueueTypes'
    BY <1>0, <1>10, RequestTypes DEF StartCasting, StopCasting, Command, Unrelated, QueueTypes, queueVars
  <2>2. \E kind \in {"local", "cast"}, resume \in BOOLEAN : switchToPlayer(kind, resume)
    BY <1>10 DEF StartCasting, StopCasting
  <2>3. /\ mPlayback' \in Playback /\ announced' \in Port \cup {NULL}
        /\ asked' \in [port : Port \cup {NULL}, track : Track \cup {NULL}]
        /\ left' \in BOOLEAN /\ raced' \in BOOLEAN /\ failed' \in BOOLEAN
        /\ notification' \in [mStarted : BOOLEAN, stopping : BOOLEAN]
        /\ tasks' \in Seq(Asked)
    BY <1>0, <2>2, SwitchTypes, Zenon
  <2>4. /\ requested' = TRUE /\ ScheduleStop
        /\ UNCHANGED <<queueVars, mServiceStarted, starting, metadata, art>>
    BY <1>10, Zenon DEF StartCasting, StopCasting, Command
  <2>5. HandledTypes'
    BY <1>0, <2>3, <2>4 DEF HandledTypes, ScheduleStop, queueVars
  <2> QED BY <2>1, <2>5, TypesAfter
<1>11. ASSUME CommandPause PROVE TypeInv'
  <2>1. OtherTypes' /\ QueueTypes'
    BY <1>0, <1>11, RequestTypes DEF CommandPause, Command, Unrelated, QueueTypes, queueVars
  <2>2. HandledTypes'
    BY <1>0, <1>11, StreamTypesPause, NotificationTypes
       DEF CommandPause, Command, HandledTypes, ScheduleStop, queueVars, streamVars
  <2> QED BY <2>1, <2>2, TypesAfter
<1> QED BY <1>1, <1>2, <1>3, <1>4, <1>5, <1>6, <1>7, <1>8, <1>9, <1>10, <1>11 DEF User

\* The first task or result is taken off.
LEMMA FirstTask ==
  ASSUME NEW S, NEW s \in Seq(S), NEW i \in FirstOf(s)
  PROVE  s # <<>> /\ i = 1 /\ s[i] = Head(s) /\ RemoveAt(s, i) = Tail(s)
<1>1. i = 1 /\ s # <<>> /\ Len(s) \in Nat
  BY LenProperties, EmptySeq DEF FirstOf
<1>2. s[1] = Head(s)
  BY <1>1, HeadTailProperties
<1>3. SubSeq(s, 1, 0) = <<>> /\ Tail(s) = SubSeq(s, 2, Len(s))
  BY <1>1, SubSeqEmpty, TailIsSubSeq
<1>4. <<>> \o Tail(s) = Tail(s)
  BY <1>1, HeadTailProperties, ConcatEmptySeq
<1> QED BY <1>1, <1>2, <1>3, <1>4 DEF RemoveAt

LEMMA TaskRunsTypes ==
  ASSUME TypeInv, TaskRuns
  PROVE  TypeInv'
<1>1. PICK i \in FirstOf(tasks) : \E result \in doInBackground(tasks[i]) :
        /\ ~crashed
        /\ tasks' = RemoveAt(tasks, i) /\ results' = Append(results, result)
        /\ catalog' = (catalog \/ (result.kind \in {"search", "catalog"} /\ result.ok))
        /\ UNCHANGED <<queueVars, runVars, streamVars, mPlayback, metadata, notification, destroyed,
                       crashed, calls, art>>
  BY DEF TaskRuns
<1>2. PICK result \in doInBackground(tasks[i]) :
        /\ tasks' = RemoveAt(tasks, i) /\ results' = Append(results, result)
        /\ catalog' = (catalog \/ (result.kind \in {"search", "catalog"} /\ result.ok))
        /\ UNCHANGED <<queueVars, runVars, streamVars, mPlayback, metadata, notification, destroyed,
                       crashed, calls, art>>
  BY <1>1
<1>3. tasks \in Seq(Asked) /\ results \in Seq(Answered)
  BY DEF TypeInv, HandledTypes, OtherTypes
<1>4. tasks # <<>> /\ tasks[i] = Head(tasks) /\ tasks' = Tail(tasks)
  BY <1>2, <1>3, FirstTask
<1>5. Head(tasks) \in Asked /\ tasks' \in Seq(Asked)
  BY <1>3, <1>4, HeadTailProperties
<1>6. result \in Answered
  BY <1>4, <1>5 DEF doInBackground, Task, Answer, Asked, Answered
<1>7. results' \in Seq(Answered)
  BY <1>2, <1>3, <1>6, AppendProperties
<1> QED BY <1>2, <1>5, <1>7 DEF TypeInv, HandledTypes, QueueTypes, OtherTypes, queueVars, runVars, streamVars

LEMMA TakesTypes ==
  ASSUME TypeInv, NEW kind, Takes(kind)
  PROVE  results # <<>> /\ Head(results) \in Answered /\ results' = Tail(results) /\ results' \in Seq(Answered)
BY HeadTailProperties DEF TypeInv, OtherTypes, Takes

LEMMA ResultTypes ==
  ASSUME TypeInv, Result
  PROVE  TypeInv'
<1>0. HandledTypes /\ QueueTypes /\ OtherTypes /\ mPlayback \in Playback
  BY TypesBefore DEF HandledTypes
<1>1. ASSUME CatalogLoaded PROVE TypeInv'
  <2>1. results' \in Seq(Answered)
    BY <1>1, TakesTypes DEF CatalogLoaded
  <2> QED BY <1>1, <2>1 DEF CatalogLoaded, TypeInv, HandledTypes, QueueTypes, OtherTypes, queueVars, runVars, streamVars
<1>2. ASSUME Searched PROVE TypeInv'
  <2>1. results' \in Seq(Answered)
    BY <1>2, TakesTypes DEF Searched
  <2>2. PICK queue \in Results : SearchEnds(queue, mPlayback)
    BY <1>2 DEF Searched
  <2>3. queue \in Queues \cup {<<>>}
    BY <2>2 DEF Results
  <2>4. HandledTypes' /\ QueueTypes'
    BY <1>0, <2>2, <2>3, SearchTypes
  <2>5. OtherTypes'
    BY <1>0, <1>2, <2>1 DEF Searched, OtherTypes
  <2> QED BY <2>4, <2>5, TypesAfter
<1>3. ASSUME ArtworkFetched PROVE TypeInv'
  <2>1. results' \in Seq(Answered) /\ Head(results) \in Answered
    BY <1>3, TakesTypes DEF ArtworkFetched
  <2> DEFINE track == Head(results).track
  <2>2. UNCHANGED <<queueVars, runVars, streamVars, mPlayback, notification, destroyed, calls, catalog, tasks>>
    BY <1>3 DEF ArtworkFetched
  <2>3. /\ crashed' \in BOOLEAN
        /\ \/ UNCHANGED <<metadata, art>>
           \/ /\ isIndexPlayable(mCurrentIndexOnQueue, mPlayingQueue)
              /\ art' = art \cup {track} /\ ShowsCurrent(track)
    BY <1>0, <1>3 DEF ArtworkFetched, OtherTypes
  <2>4. CASE UNCHANGED <<metadata, art>>
    BY <2>1, <2>2, <2>3, <2>4 DEF TypeInv, HandledTypes, QueueTypes, OtherTypes, queueVars, runVars, streamVars
  <2>5. CASE /\ isIndexPlayable(mCurrentIndexOnQueue, mPlayingQueue)
             /\ art' = art \cup {track} /\ ShowsCurrent(track)
    <3>1. metadata' \in Track \cup {NULL}
      <4>1. track \in Track \cup {NULL}
        BY <2>1 DEF Answer, Answered
      <4> HIDE DEF track
      <4> QED BY <1>0, <2>5, <4>1 DEF ShowsCurrent, HandledTypes
    <3>2. art' \subseteq Track
      <4>1. track \in Track
        BY <1>3, <2>1 DEF ArtworkFetched, Takes, Answered
      <4> HIDE DEF track
      <4> QED BY <1>0, <2>5, <4>1 DEF HandledTypes
    <3> QED BY <2>1, <2>2, <2>3, <3>1, <3>2 DEF TypeInv, HandledTypes, QueueTypes, OtherTypes, queueVars, runVars, streamVars
  <2> QED BY <2>3, <2>4, <2>5
<1>4. ASSUME Downloaded PROVE TypeInv'
  <2>1. results' \in Seq(Answered) /\ Head(results) \in Answered
    BY <1>4, TakesTypes DEF Downloaded
  <2> DEFINE stream == [port |-> Head(results).port, track |-> Head(results).track]
  <2>2. stream \in [port : Port \cup {NULL}, track : Track \cup {NULL}]
    BY <2>1 DEF Answer, Answered
  <2>3. /\ asked' = stream /\ UNCHANGED failed
        \/ /\ failed' = (failed \/ stream = [port |-> mPlayback.port, track |-> mPlayback.mediaId])
           /\ UNCHANGED asked
    BY <1>4 DEF Downloaded
  <2> HIDE DEF stream
  <2>4. /\ asked' \in [port : Port \cup {NULL}, track : Track \cup {NULL}]
        /\ failed' \in BOOLEAN
    BY <1>0, <2>2, <2>3 DEF HandledTypes
  <2>5. UNCHANGED <<queueVars, runVars, announced, left, raced, mPlayback, metadata, notification,
                 destroyed, crashed, calls, catalog, art, tasks>>
    BY <1>4 DEF Downloaded
  <2> QED BY <2>1, <2>4, <2>5 DEF TypeInv, HandledTypes, QueueTypes, OtherTypes, queueVars, runVars
<1> QED BY <1>1, <1>2, <1>3, <1>4 DEF Result

LEMMA SystemTypes ==
  ASSUME TypeInv, System \/ Player
  PROVE  TypeInv'
<1>0. HandledTypes /\ QueueTypes /\ OtherTypes /\ mPlayback \in Playback
  BY TypesBefore DEF HandledTypes
<1>1. ASSUME OwnStart \/ DelayedStop PROVE TypeInv'
  <2>1. QueueTypes' /\ OtherTypes'
    BY <1>0, <1>1 DEF OwnStart, DelayedStop, QueueTypes, OtherTypes, queueVars, fetchVars
  <2>2. CASE OwnStart
    <3>1. HandledTypes'
      BY <1>0, <2>2 DEF OwnStart, HandledTypes, ScheduleStop, queueVars, streamVars, fetchVars
    <3> QED BY <2>1, <3>1, TypesAfter
  <2>3. CASE DelayedStop
    <3>1. stopDue' \in BOOLEAN /\ mServiceStarted' \in BOOLEAN /\ requested' \in BOOLEAN
      BY <1>0, <2>3 DEF DelayedStop, HandledTypes
    <3>2. HandledTypes'
      BY <1>0, <2>3, <3>1 DEF DelayedStop, HandledTypes, queueVars, streamVars, fetchVars
    <3> QED BY <2>1, <3>2, TypesAfter
  <2> QED BY <1>1, <2>2, <2>3
<1>2. ASSUME onDestroy PROVE TypeInv'
  <2>1. mPlayback' \in Playback
    BY <1>0, <1>2, NewPlaybackType DEF onDestroy, Playback
  <2> QED BY <1>2, <2>1 DEF onDestroy, TypeInv, HandledTypes, QueueTypes, OtherTypes, Stop, Downloading, queueVars, fetchVars
<1>3. ASSUME StopReported PROVE TypeInv'
  BY <1>3 DEF StopReported, TypeInv, HandledTypes, QueueTypes, OtherTypes, queueVars, runVars, streamVars, fetchVars
<1>4. ASSUME NEW state \in {"PLAYING", "PAUSED"}, NEW on \in BOOLEAN, LocalReports(state, on)
      PROVE  TypeInv'
  <2>1. mPlayback' \in Playback
    BY <1>0, <1>4 DEF LocalReports, Playback, States
  <2>2. notification' \in [mStarted : BOOLEAN, stopping : BOOLEAN]
    BY <1>0, <1>4, NotificationTypes DEF LocalReports
  <2>3. calls' \in 0 .. MaxCalls
    BY <1>0, <1>4, ServiceAssumption DEF LocalReports, OtherTypes
  <2> QED BY <1>4, <2>1, <2>2, <2>3 DEF LocalReports, TypeInv, HandledTypes, QueueTypes, OtherTypes, queueVars, streamVars, fetchVars
<1>5. ASSUME onCompletion PROVE TypeInv'
  <2>1. OtherTypes'
    BY <1>0, <1>5, ServiceAssumption DEF onCompletion, Unrelated, OtherTypes
  <2>2. QueueTypes'
    <3>1. mPlayingQueue' = mPlayingQueue
      BY <1>5 DEF onCompletion
    <3>2. mCurrentIndexOnQueue' \in Int
      <4>1. mCurrentIndexOnQueue' \in {0, mCurrentIndexOnQueue, mCurrentIndexOnQueue + 1}
        BY <1>5, Zenon DEF onCompletion, NextIndex
      <4> QED BY <1>0, <4>1 DEF QueueTypes
    <3> QED BY <1>0, <3>1, <3>2 DEF QueueTypes
  <2>3. HandledTypes'
    BY <1>0, <1>5, <2>2, PlayTypes, StopTypes DEF onCompletion
  <2> QED BY <2>1, <2>2, <2>3, TypesAfter
<1> QED BY <1>1, <1>2, <1>3, <1>4, <1>5 DEF System, Player

LEMMA TypesInit == Init => TypeInv
<1> SUFFICES ASSUME Init PROVE TypeInv
  OBVIOUS
<1>1. mPlayback \in Playback
  BY NewPlaybackType DEF Init
<1>2. tasks \in Seq(Asked) /\ results \in Seq(Answered)
  BY EmptySeq DEF Init
<1>3. QueueTypes /\ OtherTypes
  <2>1. QueueTypes
    BY DEF Init, QueueTypes
  <2>2. calls \in 0 .. MaxCalls
    BY ServiceAssumption DEF Init
  <2> QED BY <1>2, <2>1, <2>2 DEF Init, OtherTypes
<1>4. HandledTypes
  BY <1>1, <1>2 DEF Init, HandledTypes, Stop
<1> QED BY <1>3, <1>4 DEF TypeInv

LEMMA TypesNext == TypeInv /\ [Next]_vars => TypeInv'
<1>1. TypeInv /\ Next => TypeInv'
  BY UserTypes, SystemTypes, TaskRunsTypes, ResultTypes DEF Next
<1>2. TypeInv /\ UNCHANGED vars => TypeInv'
  BY DEF TypeInv, HandledTypes, QueueTypes, OtherTypes, vars, queueVars, runVars, streamVars, fetchVars
<1> QED BY <1>1, <1>2

\* A sequence over a set is one over a larger set.
LEMMA SeqLarger ==
  ASSUME NEW S, NEW T, S \subseteq T, NEW s \in Seq(S)
  PROVE  s \in Seq(T)
<1>1. Len(s) \in Nat /\ s \in [1 .. Len(s) -> T]
  BY LenProperties
<1> QED BY <1>1, SeqDef

(* No request, answer or command gives a variable a value of another kind. *)
THEOREM TypeCorrect == Spec => []TypeOK
<1>1. TypeInv => TypeOK
  <2>1. Asked \subseteq Task /\ Answered \subseteq Answer
    BY DEF Asked, Answered
  <2>2. TypeInv => tasks \in Seq(Task) /\ results \in Seq(Answer)
    BY <2>1, SeqLarger DEF TypeInv, HandledTypes, OtherTypes
  <2> QED BY <2>2 DEF TypeInv, TypeOK, HandledTypes, QueueTypes, OtherTypes
<1> QED BY <1>1, TypesInit, TypesNext, PTL DEF Spec
-----------------------------------------------------------------------------
(* What waits to be fetched.  The executor is serial, so what was asked    *)
(* for last is answered last.                                              *)

Lacks(s, kind) == \A i \in DOMAIN s : s[i].kind # kind

IsFor(task, p) == task.kind = "download" /\ task.port = p.port /\ task.track = p.mediaId

LastIsFor(s, p) ==
  \E i \in DOMAIN s : IsFor(s[i], p) /\ \A j \in DOMAIN s : j > i => s[j].kind # "download"

\* The last download that is not answered yet is the one of p.
Due(p) == LastIsFor(tasks, p) \/ (Lacks(tasks, "download") /\ LastIsFor(results, p))

LEMMA NoneOfKind ==
  ASSUME NEW kind
  PROVE  Kind(kind) = {} <=> Lacks(tasks, kind) /\ Lacks(results, kind)
BY DEF Kind, Lacks

LEMMA LacksAppended ==
  ASSUME NEW S, NEW s \in Seq(S), NEW task \in S, NEW kind
  PROVE  Lacks(Append(s, task), kind) <=> Lacks(s, kind) /\ task.kind # kind
<1>1. /\ DOMAIN s = 1 .. Len(s) /\ Len(s) \in Nat
      /\ DOMAIN Append(s, task) = 1 .. Len(s) + 1
      /\ \A i \in 1 .. Len(s) : Append(s, task)[i] = s[i]
      /\ Append(s, task)[Len(s) + 1] = task
  BY LenProperties, AppendProperties
<1>2. 1 .. Len(s) + 1 = (1 .. Len(s)) \cup {Len(s) + 1}
  BY <1>1
<1> QED BY <1>1, <1>2, Zenon DEF Lacks

LEMMA LacksRest ==
  ASSUME NEW S, NEW s \in Seq(S), s # <<>>, NEW kind
  PROVE  Lacks(s, kind) <=> Lacks(Tail(s), kind) /\ Head(s).kind # kind
<1>1. /\ DOMAIN s = 1 .. Len(s) /\ Len(s) \in Nat \ {0} /\ Head(s) = s[1]
      /\ DOMAIN Tail(s) = 1 .. Len(s) - 1
      /\ \A i \in 1 .. Len(s) - 1 : Tail(s)[i] = s[i + 1]
  <2>1. Tail(s) \in Seq(S) /\ Len(Tail(s)) = Len(s) - 1
    BY HeadTailProperties
  <2> QED BY <2>1, LenProperties, EmptySeq, HeadTailProperties
<1>2. \A i \in 1 .. Len(s) : i = 1 \/ (i - 1 \in 1 .. Len(s) - 1 /\ Tail(s)[i - 1] = s[i])
  BY <1>1
<1>3. \A i \in 1 .. Len(s) - 1 : i + 1 \in 1 .. Len(s)
  BY <1>1
<1>4. Lacks(s, kind) => Lacks(Tail(s), kind) /\ Head(s).kind # kind
  BY <1>1, <1>3 DEF Lacks
<1>5. Lacks(Tail(s), kind) /\ Head(s).kind # kind => Lacks(s, kind)
  BY <1>1, <1>2 DEF Lacks
<1> QED BY <1>4, <1>5

\* What is asked for last is last, and nothing but a download comes in between.
LEMMA LastAppended ==
  ASSUME NEW S, NEW s \in Seq(S), NEW task \in S, NEW p
  PROVE  LastIsFor(Append(s, task), p)
           <=> IsFor(task, p) \/ (task.kind # "download" /\ LastIsFor(s, p))
<1> DEFINE t == Append(s, task)
           n == Len(s)
<1>1. /\ DOMAIN s = 1 .. n /\ n \in Nat /\ DOMAIN t = 1 .. n + 1
      /\ \A i \in 1 .. n : t[i] = s[i]
      /\ t[n + 1] = task
  BY LenProperties, AppendProperties
<1> HIDE DEF t, n
<1>2. ASSUME LastIsFor(t, p) PROVE IsFor(task, p) \/ (task.kind # "download" /\ LastIsFor(s, p))
  <2>1. PICK i \in 1 .. n + 1 : IsFor(t[i], p) /\ \A j \in 1 .. n + 1 : j > i => t[j].kind # "download"
    BY <1>1, <1>2 DEF LastIsFor
  <2>2. CASE i = n + 1
    BY <1>1, <2>1, <2>2
  <2>3. CASE i \in 1 .. n
    <3>1. task.kind # "download" /\ IsFor(s[i], p)
      BY <1>1, <2>1, <2>3
    <3>2. \A j \in 1 .. n : j > i => s[j].kind # "download"
      BY <1>1, <2>1, <2>3
    <3> QED BY <1>1, <2>3, <3>1, <3>2 DEF LastIsFor
  <2> QED BY <1>1, <2>2, <2>3
<1>3. ASSUME IsFor(task, p) PROVE LastIsFor(t, p)
  <2>1. n + 1 \in DOMAIN t /\ \A j \in DOMAIN t : ~ j > n + 1
    BY <1>1
  <2> QED BY <1>1, <1>3, <2>1 DEF LastIsFor
<1>4. ASSUME task.kind # "download", LastIsFor(s, p) PROVE LastIsFor(t, p)
  <2>1. PICK i \in 1 .. n : IsFor(s[i], p) /\ \A j \in 1 .. n : j > i => s[j].kind # "download"
    BY <1>1, <1>4 DEF LastIsFor
  <2>2. i \in 1 .. n + 1 /\ IsFor(t[i], p)
    BY <1>1, <2>1
  <2>3. \A j \in 1 .. n + 1 : j > i => t[j].kind # "download"
    <3>1. \A j \in 1 .. n + 1 : j \in 1 .. n \/ j = n + 1
      BY <1>1
    <3> QED BY <1>1, <1>4, <2>1, <3>1
  <2> QED BY <1>1, <2>2, <2>3 DEF LastIsFor
<1> QED BY <1>2, <1>3, <1>4 DEF t

LEMMA LastOfRest ==
  ASSUME NEW S, NEW s \in Seq(S), s # <<>>, NEW p
  PROVE  LastIsFor(s, p)
           <=> LastIsFor(Tail(s), p) \/ (IsFor(Head(s), p) /\ Lacks(Tail(s), "download"))
<1> DEFINE t == Tail(s)
           n == Len(s)
<1>1. /\ DOMAIN s = 1 .. n /\ n \in Nat \ {0} /\ Head(s) = s[1] /\ DOMAIN t = 1 .. n - 1
      /\ \A i \in 1 .. n - 1 : t[i] = s[i + 1]
  <2>1. t \in Seq(S) /\ Len(t) = n - 1
    BY HeadTailProperties
  <2> QED BY <2>1, LenProperties, EmptySeq, HeadTailProperties
<1> HIDE DEF t, n
<1>2. ASSUME LastIsFor(s, p) PROVE LastIsFor(t, p) \/ (IsFor(Head(s), p) /\ Lacks(t, "download"))
  <2>1. PICK i \in 1 .. n : IsFor(s[i], p) /\ \A j \in 1 .. n : j > i => s[j].kind # "download"
    BY <1>1, <1>2 DEF LastIsFor
  <2>2. \A j \in 1 .. n - 1 : j + 1 \in 1 .. n /\ (j > i - 1 => j + 1 > i)
    BY <1>1, <2>1
  <2>3. \A j \in 1 .. n - 1 : j > i - 1 => t[j].kind # "download"
    BY <1>1, <2>1, <2>2
  <2>4. CASE i = 1
    <3>1. \A j \in 1 .. n - 1 : j > i - 1
      BY <1>1, <2>4
    <3> QED BY <1>1, <2>1, <2>3, <2>4, <3>1 DEF Lacks
  <2>5. CASE i # 1
    <3>1. i - 1 \in 1 .. n - 1 /\ t[i - 1] = s[i]
      BY <1>1, <2>1, <2>5
    <3> QED BY <1>1, <2>1, <2>3, <3>1 DEF LastIsFor
  <2> QED BY <2>4, <2>5
<1>3. ASSUME LastIsFor(t, p) PROVE LastIsFor(s, p)
  <2>1. PICK i \in 1 .. n - 1 : IsFor(t[i], p) /\ \A j \in 1 .. n - 1 : j > i => t[j].kind # "download"
    BY <1>1, <1>3 DEF LastIsFor
  <2>2. i + 1 \in 1 .. n /\ IsFor(s[i + 1], p)
    BY <1>1, <2>1
  <2>3. \A j \in 1 .. n : j > i + 1 => j - 1 \in 1 .. n - 1 /\ j - 1 > i /\ t[j - 1] = s[j]
    BY <1>1, <2>1
  <2>4. \A j \in 1 .. n : j > i + 1 => s[j].kind # "download"
    BY <2>1, <2>3
  <2> QED BY <1>1, <2>2, <2>4 DEF LastIsFor
<1>4. ASSUME IsFor(Head(s), p), Lacks(t, "download") PROVE LastIsFor(s, p)
  <2>1. \A j \in 1 .. n : j > 1 => j - 1 \in 1 .. n - 1 /\ t[j - 1] = s[j]
    BY <1>1
  <2>2. \A j \in 1 .. n : j > 1 => s[j].kind # "download"
    BY <1>1, <1>4, <2>1 DEF Lacks
  <2>3. 1 \in 1 .. n
    BY <1>1
  <2> QED BY <1>1, <1>4, <2>2, <2>3 DEF LastIsFor
<1> QED BY <1>2, <1>3, <1>4 DEF t

\* A step that changes nothing about the downloads that wait.
SameDownloads == (Downloading' <=> Downloading) /\ \A p \in Playback : Due(p)' <=> Due(p)

\* A step that asks for no picture.
NoNewPicture == Kind("artwork") = {} => Kind("artwork")' = {}

LEMMA NoneOfKindAfter ==
  ASSUME NEW kind
  PROVE  Kind(kind)' = {} <=> Lacks(tasks, kind)' /\ Lacks(results, kind)'
BY DEF Kind, Lacks

LEMMA NotDownloading ==
  /\ ~Downloading <=> Lacks(tasks, "download") /\ Lacks(results, "download")
  /\ ~Downloading' <=> Lacks(tasks, "download")' /\ Lacks(results, "download")'
BY NoneOfKind, NoneOfKindAfter DEF Downloading

LEMMA WaitingUnchanged ==
  ASSUME UNCHANGED <<tasks, results>>
  PROVE  SameDownloads /\ NoNewPicture
BY DEF SameDownloads, NoNewPicture, Downloading, Kind, Due, LastIsFor, IsFor, Lacks

LEMMA WaitingAppended ==
  ASSUME tasks \in Seq(Asked), NEW task \in Asked, task.kind # "download",
         tasks' = Append(tasks, task), results' = results
  PROVE  SameDownloads /\ (task.kind # "artwork" => NoNewPicture)
<1>1. \A kind : Lacks(tasks, kind)' <=> Lacks(tasks, kind) /\ task.kind # kind
  BY LacksAppended
<1>2. \A kind : Lacks(results, kind)' <=> Lacks(results, kind)
  BY DEF Lacks
<1>3. \A p \in Playback : LastIsFor(tasks, p)' <=> LastIsFor(tasks, p)
  BY LastAppended DEF IsFor
<1>4. \A p \in Playback : LastIsFor(results, p)' <=> LastIsFor(results, p)
  BY DEF LastIsFor, IsFor
<1>5. Downloading' <=> Downloading
  BY <1>1, <1>2, NotDownloading
<1>6. task.kind # "artwork" => NoNewPicture
  BY <1>1, <1>2, NoneOfKind, NoneOfKindAfter DEF NoNewPicture
<1> QED BY <1>1, <1>2, <1>3, <1>4, <1>5, <1>6 DEF SameDownloads, Due

\* A download asks for no picture, and is the last.
LEMMA DownloadAsked ==
  ASSUME NEW waiting \in Seq(Asked), NEW track \in Track, NEW port \in Port,
         tasks' = Append(waiting, [kind |-> "download", track |-> track, port |-> port])
  PROVE  /\ waiting = tasks /\ results' = results => NoNewPicture
         /\ Downloading'
         /\ \A p \in Playback : p.port = port /\ p.mediaId = track => Due(p)'
<1> DEFINE task == [kind |-> "download", track |-> track, port |-> port]
<1>1. task \in Asked
  BY DEF Asked, Task, Kinds
<1>2. \A k : Lacks(tasks, k)' <=> Lacks(waiting, k) /\ "download" # k
  BY <1>1, LacksAppended
<1>3. results' = results => \A k : Lacks(results, k)' <=> Lacks(results, k)
  BY DEF Lacks
<1>4. (waiting = tasks /\ results' = results => NoNewPicture) /\ Downloading'
  BY <1>2, <1>3, NoneOfKind, NoneOfKindAfter, NotDownloading DEF NoNewPicture
<1>5. \A p \in Playback : p.port = port /\ p.mediaId = track => LastIsFor(tasks, p)'
  BY <1>1, LastAppended DEF IsFor
<1> QED BY <1>4, <1>5 DEF Due

\* An answer is taken that is not a download.
LEMMA AnswerTaken ==
  ASSUME results \in Seq(Answered), NEW kind, Takes(kind), tasks' = tasks
  PROVE  NoNewPicture /\ (kind # "download" => SameDownloads)
<1>1. results # <<>> /\ Head(results).kind = kind /\ results' = Tail(results)
  BY DEF Takes
<1>2. \A k : Lacks(results, k) <=> Lacks(results, k)' /\ kind # k
  BY <1>1, LacksRest
<1>3. \A k : Lacks(tasks, k)' <=> Lacks(tasks, k)
  BY DEF Lacks
<1>4. NoNewPicture
  BY <1>2, <1>3, NoneOfKind, NoneOfKindAfter DEF NoNewPicture
<1>5. ASSUME kind # "download" PROVE SameDownloads
  <2>1. Downloading' <=> Downloading
    BY <1>2, <1>3, <1>5, NotDownloading
  <2>2. \A p \in Playback : LastIsFor(results, p) <=> LastIsFor(results, p)'
    BY <1>1, <1>5, LastOfRest DEF IsFor
  <2>3. \A p \in Playback : LastIsFor(tasks, p)' <=> LastIsFor(tasks, p)
    BY DEF LastIsFor, IsFor
  <2> QED BY <1>3, <2>1, <2>2, <2>3 DEF SameDownloads, Due
<1> QED BY <1>4, <1>5

\* A task becomes an answer, in its turn.
LEMMA WaitingRuns ==
  ASSUME tasks \in Seq(Asked), results \in Seq(Answered), TaskRuns
  PROVE  SameDownloads /\ NoNewPicture
<1>0. PICK i \in FirstOf(tasks) : \E answer \in doInBackground(tasks[i]) :
        tasks' = RemoveAt(tasks, i) /\ results' = Append(results, answer)
  BY DEF TaskRuns
<1>1. PICK answer \in doInBackground(tasks[i]) :
        tasks' = RemoveAt(tasks, i) /\ results' = Append(results, answer)
  BY <1>0
<1>2. tasks # <<>> /\ tasks[i] = Head(tasks) /\ tasks' = Tail(tasks)
  BY <1>1, FirstTask
<1>3. Head(tasks) \in Asked
  BY <1>2, HeadTailProperties
<1>4. /\ answer.kind = Head(tasks).kind /\ answer.track = Head(tasks).track
      /\ answer.port = Head(tasks).port /\ answer \in Answered
  BY <1>1, <1>2, <1>3 DEF doInBackground, Task, Answer, Asked, Answered
<1>5. \A k : Lacks(tasks, k) <=> Lacks(tasks, k)' /\ answer.kind # k
  BY <1>2, <1>4, LacksRest
<1>6. \A k : Lacks(results, k)' <=> Lacks(results, k) /\ answer.kind # k
  BY <1>1, <1>4, LacksAppended
<1>7. \A p \in Playback : LastIsFor(tasks, p)
        <=> LastIsFor(tasks, p)' \/ (IsFor(answer, p) /\ Lacks(tasks, "download")')
  BY <1>2, <1>4, LastOfRest DEF IsFor
<1>8. \A p \in Playback : LastIsFor(results, p)'
        <=> IsFor(answer, p) \/ (answer.kind # "download" /\ LastIsFor(results, p))
  BY <1>1, <1>4, LastAppended
<1>9. Downloading' <=> Downloading
  BY <1>5, <1>6, NotDownloading
<1>10. NoNewPicture
  BY <1>5, <1>6, NoneOfKind, NoneOfKindAfter DEF NoNewPicture
<1>11. \A p \in Playback : IsFor(answer, p) => answer.kind = "download"
  BY DEF IsFor
<1>12. \A p \in Playback : LastIsFor(tasks, p)' => ~Lacks(tasks, "download")'
  BY DEF LastIsFor, IsFor, Lacks
<1>13. \A p \in Playback : Due(p)' <=> Due(p)
  BY <1>5, <1>7, <1>8, <1>11, <1>12 DEF Due
<1> QED BY <1>9, <1>10, <1>13 DEF SameDownloads
-----------------------------------------------------------------------------
(* What the session shows.  ArtworkIsCurrent is not inductive: that a      *)
(* picture which arrives belongs to what plays takes that the item at the  *)
(* index, if there is one, is what the session shows, and that while any   *)
(* picture is under way there is one or the index was left outside.        *)

Playable == isIndexPlayable(mCurrentIndexOnQueue, mPlayingQueue)

\* The index is at an item of the queue, or says that a track was not found.
Placed ==
  mPlayingQueue \notin {NULL, <<>>} => mCurrentIndexOnQueue \in -1 .. Len(mPlayingQueue) - 1

ItemIsShown == Playable => mPlayingQueue[mCurrentIndexOnQueue + 1] = metadata

PictureFindsItem == Kind("artwork") # {} => Playable \/ stranded

ShowsInv ==
  /\ Placed /\ ItemIsShown /\ PictureFindsItem
  /\ MetadataNamesWhatPlays /\ ThrowsOnlyStranded

LEMMA ShowsInit == Init => ShowsInv
<1> SUFFICES ASSUME Init PROVE ShowsInv
  OBVIOUS
<1>1. mPlayingQueue = <<>> /\ mCurrentIndexOnQueue = 0 /\ ~crashed /\ metadata = NULL /\ mPlayback.mediaId = NULL
  BY DEF Init, NewPlayback
<1>2. ~Playable
  <2>1. Len(<<>>) = 0
    BY EmptySeq
  <2> QED BY <1>1, <2>1, SMT DEF Playable, isIndexPlayable
<1>3. Kind("artwork") = {}
  BY DEF Init, Kind
<1> QED BY <1>1, <1>2, <1>3
        DEF ShowsInv, Placed, ItemIsShown, PictureFindsItem, MetadataNamesWhatPlays, ThrowsOnlyStranded

\* Where the index is not at an item, there is nothing to play or the track
\* was not found.
LEMMA PlacedSomewhere ==
  ASSUME QueueTypes', Placed', ~Playable'
  PROVE  Nowhere(mCurrentIndexOnQueue', mPlayingQueue')
<1> SUFFICES ASSUME mPlayingQueue' # NULL, mPlayingQueue' # <<>>
             PROVE  mCurrentIndexOnQueue' = -1
  BY DEF Nowhere
<1>1. mCurrentIndexOnQueue' \in -1 .. Len(mPlayingQueue') - 1
  BY DEF Placed
<1>2. mCurrentIndexOnQueue' \notin 0 .. Len(mPlayingQueue') - 1
  BY DEF Playable, isIndexPlayable
<1> QED BY <1>1, <1>2, SMT DEF QueueTypes

\* A request that plays shows what it plays, or strands the index.
LEMMA ShowsPlayed ==
  ASSUME TypeInv, ShowsInv, QueueTypes', Placed', ~crashed, UNCHANGED crashed,
         NEW p \in Playback, p.mediaId = mPlayback.mediaId, handlePlayRequest(p)
  PROVE  ShowsInv'
<1> DEFINE index == mCurrentIndexOnQueue'
           queue == mPlayingQueue'
           item == queue[index + 1]
<1>1. ThrowsOnlyStranded'
  BY DEF ThrowsOnlyStranded
<1>2. CASE isIndexPlayable(index, queue)
  <2>1. Playable'
    BY <1>2 DEF Playable, isIndexPlayable
  <2>2. PICK waiting \in {tasks, Append(tasks, [kind |-> "artwork", track |-> item, port |-> NULL])} :
          /\ updateMetadata(item, waiting)
          /\ IF p.kind = "cast" THEN CastPlay(item, p, waiting)
             ELSE LocalPlay(item, p) /\ tasks' = waiting
    BY <1>2, Zenon DEF handlePlayRequest
  <2> HIDE DEF item
  <2>3. metadata' = item
    BY <2>2 DEF updateMetadata
  <2>4. mPlayback'.mediaId = item
    <3>1. CASE CastPlay(item, p, waiting)
      <4>1. PICK port \in Port : mPlayback' = [p EXCEPT !.state = "PLAYING", !.mediaId = item, !.port = port]
        BY <3>1, Zenon DEF CastPlay
      <4> QED BY <4>1 DEF Playback
    <3>2. CASE LocalPlay(item, p)
      BY <3>2 DEF LocalPlay, Playback
    <3> QED BY <2>2, <3>1, <3>2
  <2>5. ItemIsShown' /\ MetadataNamesWhatPlays'
    BY <2>3, <2>4 DEF ItemIsShown, MetadataNamesWhatPlays, item
  <2>6. PictureFindsItem'
    BY <2>1 DEF PictureFindsItem
  <2> QED BY <1>1, <2>5, <2>6 DEF ShowsInv
<1>3. CASE ~isIndexPlayable(index, queue)
  <2>1. ~Playable'
    BY <1>3 DEF Playable, isIndexPlayable
  <2>2. /\ stranded' = (stranded \/ Nowhere(index, queue))
        /\ mPlayback' = p /\ UNCHANGED metadata
    BY <1>3, Zenon DEF handlePlayRequest
  <2>3. stranded' = TRUE
    BY <2>1, <2>2, PlacedSomewhere
  <2>4. ItemIsShown' /\ PictureFindsItem' /\ MetadataNamesWhatPlays'
    BY <2>1, <2>2, <2>3 DEF ShowsInv, ItemIsShown, PictureFindsItem, MetadataNamesWhatPlays
  <2> QED BY <1>1, <2>4 DEF ShowsInv
<1> QED BY <1>2, <1>3

\* A request that stops leaves what is shown.
LEMMA ShowsStopped ==
  ASSUME TypeInv, ShowsInv, QueueTypes', Placed', ~crashed, UNCHANGED crashed,
         NEW p \in Playback, p.mediaId = mPlayback.mediaId, NEW error, handleStopRequest(p, error),
         ~Playable' \/ UNCHANGED <<mPlayingQueue, mCurrentIndexOnQueue>>
  PROVE  ShowsInv'
<1>1. /\ mPlayback'.mediaId = p.mediaId /\ UNCHANGED metadata
      /\ stranded' = (stranded \/ Nowhere(mCurrentIndexOnQueue', mPlayingQueue'))
  BY DEF handleStopRequest, Halt, Playback
<1>2. MetadataNamesWhatPlays' /\ ThrowsOnlyStranded'
  BY <1>1 DEF ShowsInv, MetadataNamesWhatPlays, ThrowsOnlyStranded
<1>3. ItemIsShown'
  BY <1>1 DEF ShowsInv, ItemIsShown, Playable
<1>4. PictureFindsItem'
  BY <1>1, PlacedSomewhere DEF PictureFindsItem
<1> QED BY <1>2, <1>3, <1>4 DEF ShowsInv

\* What leaves the queue, the index and the track alone, and asks for no picture.
LEMMA ShowsUnchanged ==
  ASSUME ShowsInv, UNCHANGED <<queueVars, metadata, crashed>>, mPlayback'.mediaId = mPlayback.mediaId,
         NoNewPicture
  PROVE  ShowsInv'
BY DEF ShowsInv, Placed, ItemIsShown, PictureFindsItem, MetadataNamesWhatPlays, ThrowsOnlyStranded,
       Playable, queueVars, NoNewPicture

\* A queue that cannot be played takes the place of one that could not, or
\* the index is left outside.
LEMMA ShowsNothing ==
  ASSUME ShowsInv, Placed', ~Playable', UNCHANGED <<metadata, crashed>>, ~crashed,
         mPlayback'.mediaId = mPlayback.mediaId, NoNewPicture,
         stranded' = TRUE \/ (~Playable /\ stranded' = stranded)
  PROVE  ShowsInv'
BY DEF ShowsInv, ItemIsShown, PictureFindsItem, MetadataNamesWhatPlays, ThrowsOnlyStranded, NoNewPicture

\* An index at the start of a queue, or anywhere in it, is placed.
LEMMA PlacedAt ==
  ASSUME QueueTypes', mPlayingQueue' \notin {NULL, <<>>} =>
           mCurrentIndexOnQueue' \in {0, -1} \/ mCurrentIndexOnQueue' \in 0 .. Len(mPlayingQueue') - 1
  PROVE  Placed'
<1> SUFFICES ASSUME mPlayingQueue' \notin {NULL, <<>>}
             PROVE  mCurrentIndexOnQueue' \in -1 .. Len(mPlayingQueue') - 1
  BY DEF Placed
<1>1. mPlayingQueue' \in Seq(Track) /\ Len(mPlayingQueue') \in Nat \ {0}
  BY ServiceAssumption, EmptySeq DEF QueueTypes
<1> QED BY <1>1

LEMMA PlacedUnchanged ==
  ASSUME Placed, UNCHANGED <<mPlayingQueue, mCurrentIndexOnQueue>>
  PROVE  Placed'
BY DEF Placed

LEMMA ShowsSearched ==
  ASSUME TypeInv, TypeInv', ShowsInv, ~crashed, UNCHANGED crashed,
         NEW p \in Playback, p.mediaId = mPlayback.mediaId, NEW queue \in Queues \cup {<<>>},
         SearchEnds(queue, p)
  PROVE  ShowsInv'
<1>1. QueueTypes'
  BY DEF TypeInv
<1>2. CASE queue # <<>> /\ mCurrentIndexOnQueue' = 0 /\ handlePlayRequest(p)
  BY <1>1, <1>2, PlacedAt, ShowsPlayed
<1>3. CASE queue = <<>> /\ mPlayingQueue' = queue /\ handleStopRequest(p, TRUE)
  <2>1. Placed'
    BY <1>3 DEF Placed
  <2>2. ~Playable'
    <3>1. Len(mPlayingQueue') = 0
      BY <1>3, EmptySeq
    <3> QED BY <3>1, SMT DEF Playable, isIndexPlayable
  <2> QED BY <1>1, <1>3, <2>1, <2>2, ShowsStopped
<1> QED BY <1>2, <1>3 DEF SearchEnds

\* A playback that is paused or stopped keeps its track.
LEMMA TrackKept ==
  ASSUME NEW p \in Playback, Pause(p) \/ Halt(p) \/ mPlayback' = p
  PROVE  mPlayback'.mediaId = p.mediaId
<1>1. CASE CastPause(p)
  BY <1>1 DEF CastPause, Playback
<1>2. CASE LocalPause(p)
  BY <1>2 DEF LocalPause, Playback
<1>3. CASE Halt(p)
  <2>1. PICK on : mPlayback' = [p EXCEPT !.state = "STOPPED", !.playing = on]
    BY <1>3, Zenon DEF Halt
  <2> QED BY <2>1 DEF Playback
<1> QED BY <1>1, <1>2, <1>3 DEF Pause

LEMMA ShowsUser ==
  ASSUME TypeInv, TypeInv', ShowsInv, User
  PROVE  ShowsInv'
<1>0. /\ QueueTypes /\ QueueTypes' /\ HandledTypes /\ Placed /\ mPlayback \in Playback
      /\ tasks \in Seq(Asked)
  BY DEF TypeInv, ShowsInv, HandledTypes
<1>1. ASSUME onPlay PROVE ShowsInv'
  <2>1. ~crashed /\ UNCHANGED crashed /\ results' = results
    BY <1>1 DEF onPlay, Request, Unrelated
  <2>2. Placed'
    BY <1>0, <1>1, PlacedAt, PlacedUnchanged DEF onPlay
  <2>3. CASE handlePlayRequest(mPlayback)
    BY <1>0, <2>1, <2>2, <2>3, ShowsPlayed
  <2>4. CASE mPlayingQueue' = <<>>
    <3>1. UNCHANGED <<stranded, runVars, streamVars, mPlayback, metadata, notification, art, tasks>>
      BY <1>1, <2>4 DEF onPlay
    <3>2. ~Playable /\ ~Playable'
      <4>1. mPlayingQueue \in {NULL, <<>>} /\ Len(<<>>) = 0
        BY <1>1, <2>4, EmptySeq DEF onPlay
      <4> QED BY <2>4, <4>1, SMT DEF Playable, isIndexPlayable
    <3> QED BY <2>1, <2>2, <3>1, <3>2, ShowsNothing, WaitingUnchanged
  <2> QED BY <1>1, <2>3, <2>4 DEF onPlay
<1>2. ASSUME NEW id \in 0 .. 1, onSkipToQueueItem(id) PROVE ShowsInv'
  <2>1. ~crashed /\ UNCHANGED crashed /\ handlePlayRequest(mPlayback)
    BY <1>2 DEF onSkipToQueueItem, Request, Unrelated
  <2>2. Placed'
    BY <1>0, <1>2, PlacedAt, ServiceAssumption, LenProperties DEF onSkipToQueueItem, QueueTypes
  <2> QED BY <1>0, <2>1, <2>2, ShowsPlayed
<1>3. ASSUME NEW track \in Track, onPlayFromMediaId(track) PROVE ShowsInv'
  <2>1. ~crashed /\ UNCHANGED crashed /\ results' = results
    BY <1>3 DEF onPlayFromMediaId, Request, Unrelated
  <2>2. Placed'
    <3> SUFFICES ASSUME mPlayingQueue' \notin {NULL, <<>>}
                 PROVE  mCurrentIndexOnQueue' \in -1 .. Len(mPlayingQueue') - 1
      BY DEF Placed
    <3> QED BY <1>3, Zenon DEF onPlayFromMediaId
  <2>3. CASE handlePlayRequest(mPlayback)
    BY <1>0, <2>1, <2>2, <2>3, ShowsPlayed
  <2>4. CASE ~isIndexPlayable(mCurrentIndexOnQueue', mPlayingQueue')
    <3>1. /\ stranded' = TRUE
          /\ UNCHANGED <<runVars, streamVars, mPlayback, metadata, notification, art, tasks>>
      BY <1>3, <2>4, Zenon DEF onPlayFromMediaId
    <3>2. ~Playable'
      BY <2>4 DEF Playable, isIndexPlayable
    <3> QED BY <2>1, <2>2, <3>1, <3>2, ShowsNothing, WaitingUnchanged
  <2> QED BY <1>3, <2>3, <2>4, Zenon DEF onPlayFromMediaId
<1>4. ASSUME onPause \/ CommandPause PROVE ShowsInv'
  <2>1. UNCHANGED <<queueVars, metadata, crashed, tasks, results>>
    BY <1>4 DEF onPause, CommandPause, Command, Unrelated
  <2>2. mPlayback'.mediaId = mPlayback.mediaId
    <3>1. Pause(mPlayback) \/ UNCHANGED mPlayback
      BY <1>4 DEF onPause, CommandPause
    <3> QED BY <1>0, <3>1, TrackKept
  <2> QED BY <2>1, <2>2, ShowsUnchanged, WaitingUnchanged
<1>5. ASSUME onStop PROVE ShowsInv'
  <2>1. /\ ~crashed /\ UNCHANGED <<crashed, mPlayingQueue, mCurrentIndexOnQueue>>
        /\ handleStopRequest(mPlayback, FALSE)
    BY <1>5 DEF onStop, Request, Unrelated
  <2> QED BY <1>0, <2>1, PlacedUnchanged, ShowsStopped
<1>6. ASSUME onSkipToNext \/ onSkipToPrevious PROVE ShowsInv'
  <2>1. ~crashed /\ UNCHANGED crashed /\ PlayOrStop /\ mPlayingQueue' = mPlayingQueue
    BY <1>6 DEF onSkipToNext, onSkipToPrevious, Request, Unrelated
  <2>2. Placed'
    <3> SUFFICES ASSUME mPlayingQueue' \notin {NULL, <<>>}
                 PROVE  mCurrentIndexOnQueue' \in -1 .. Len(mPlayingQueue') - 1
      BY DEF Placed
    <3>1. Len(mPlayingQueue) \in Nat \ {0} /\ mCurrentIndexOnQueue \in -1 .. Len(mPlayingQueue) - 1
      BY <1>0, <2>1, ServiceAssumption, EmptySeq DEF QueueTypes, Placed
    <3> QED BY <1>6, <2>1, <3>1 DEF onSkipToNext, onSkipToPrevious, NextIndex
  <2>3. CASE handlePlayRequest(mPlayback)
    BY <1>0, <2>1, <2>2, <2>3, ShowsPlayed
  <2>4. CASE handleStopRequest(mPlayback, TRUE) /\ ~Playable'
    BY <1>0, <2>1, <2>2, <2>4, ShowsStopped
  <2> QED BY <2>1, <2>3, <2>4 DEF PlayOrStop, Playable, isIndexPlayable
<1>7. ASSUME onCustomAction PROVE ShowsInv'
  <2>1. UNCHANGED <<queueVars, metadata, crashed, tasks, results, mPlayback>>
    BY <1>7 DEF onCustomAction, Unrelated
  <2> QED BY <2>1, ShowsUnchanged, WaitingUnchanged
<1>8. ASSUME onPlayFromSearch PROVE ShowsInv'
  <2>1. ~crashed /\ UNCHANGED crashed /\ results' = results
    BY <1>8 DEF onPlayFromSearch, Request
  <2>2. Connecting \in Playback /\ Connecting.mediaId = mPlayback.mediaId
    BY <1>0 DEF Connecting, Playback, States
  <2>3. CASE \E queue \in Queues : SearchEnds(queue, Connecting)
    <3>1. PICK queue \in Queues : SearchEnds(queue, Connecting)
      BY <2>3
    <3>2. queue \in Queues \cup {<<>>}
      OBVIOUS
    <3> QED BY <2>1, <2>2, <3>1, <3>2, ShowsSearched
  <2>4. CASE /\ mPlayback' = Connecting
             /\ tasks' = Append(tasks, [kind |-> "search", track |-> NULL, port |-> NULL])
             /\ UNCHANGED <<queueVars, metadata>>
    <3>1. [kind |-> "search", track |-> NULL, port |-> NULL] \in Asked
      BY DEF Asked, Task, Kinds
    <3>2. NoNewPicture
      BY <1>0, <2>1, <2>4, <3>1, WaitingAppended
    <3> QED BY <2>1, <2>2, <2>4, <3>2, ShowsUnchanged
  <2> QED BY <1>8, <2>3, <2>4, Zenon DEF onPlayFromSearch
<1>9. ASSUME onLoadChildren PROVE ShowsInv'
  <2>1. /\ tasks' = Append(tasks, [kind |-> "catalog", track |-> NULL, port |-> NULL])
        /\ UNCHANGED <<queueVars, metadata, crashed, results, mPlayback>>
    BY <1>9 DEF onLoadChildren
  <2>2. [kind |-> "catalog", track |-> NULL, port |-> NULL] \in Asked
    BY DEF Asked, Task, Kinds
  <2>3. NoNewPicture
    BY <1>0, <2>1, <2>2, WaitingAppended
  <2> QED BY <2>1, <2>3, ShowsUnchanged
<1>10. ASSUME StartCasting \/ StopCasting PROVE ShowsInv'
  <2>1. PICK kind \in {"local", "cast"}, resume \in BOOLEAN : switchToPlayer(kind, resume)
    BY <1>10, Zenon DEF StartCasting, StopCasting
  <2>2. UNCHANGED <<queueVars, metadata, crashed, results>>
    BY <1>10, Zenon DEF StartCasting, StopCasting, Unrelated
  <2> DEFINE p == [NewPlayback(kind) EXCEPT !.mediaId = mPlayback.mediaId]
             item == mPlayingQueue[mCurrentIndexOnQueue + 1]
  <2>3. p \in Playback /\ p.mediaId = mPlayback.mediaId
    BY <1>0, NewPlaybackType DEF Playback
  <2>4. \/ (Pause(p) \/ Halt(p) \/ mPlayback' = p) /\ UNCHANGED tasks
        \/ Playable /\ CastPlay(item, p, tasks)
    BY <2>1, Zenon DEF switchToPlayer, Playable
  <2> HIDE DEF p
  <2>5. CASE (Pause(p) \/ Halt(p) \/ mPlayback' = p) /\ UNCHANGED tasks
    <3>1. mPlayback'.mediaId = p.mediaId
      BY <2>3, <2>5, TrackKept
    <3> QED BY <2>2, <2>3, <2>5, <3>1, ShowsUnchanged, WaitingUnchanged
  <2>6. CASE Playable /\ CastPlay(item, p, tasks)
    <3>1. item = metadata /\ metadata = mPlayback.mediaId /\ item \in Track
      BY <1>0, <2>6, PlayableItem DEF ShowsInv, ItemIsShown, MetadataNamesWhatPlays, QueueTypes, Playable
    <3> HIDE DEF item
    <3>2. PICK port \in Port :
            /\ mPlayback' = [p EXCEPT !.state = "PLAYING", !.mediaId = item, !.port = port]
            /\ \/ tasks' = tasks
               \/ tasks' = Append(tasks, [kind |-> "download", track |-> item, port |-> port])
      BY <2>6, Zenon DEF CastPlay
    <3>3. mPlayback'.mediaId = mPlayback.mediaId
      <4>1. mPlayback' = [p EXCEPT !.state = "PLAYING", !.mediaId = item, !.port = port]
        BY <3>2
      <4> QED BY <2>3, <3>1, <4>1 DEF Playback
    <3>4. NoNewPicture
      BY <1>0, <2>2, <3>1, <3>2, WaitingUnchanged, DownloadAsked
    <3> QED BY <2>2, <3>3, <3>4, ShowsUnchanged
  <2> QED BY <2>4, <2>5, <2>6
<1> QED BY <1>1, <1>2, <1>3, <1>4, <1>5, <1>6, <1>7, <1>8, <1>9, <1>10
        DEF User
LEMMA ShowsPlayerAndSystem ==
  ASSUME TypeInv, TypeInv', ShowsInv, Player \/ System
  PROVE  ShowsInv'
<1>0. QueueTypes /\ QueueTypes' /\ HandledTypes /\ Placed /\ mPlayback \in Playback
  BY DEF TypeInv, ShowsInv, HandledTypes
<1>1. ASSUME onCompletion PROVE ShowsInv'
  <2>1. ~crashed /\ UNCHANGED crashed /\ mPlayingQueue' = mPlayingQueue
    BY <1>1 DEF onCompletion, Unrelated
  <2>2. CASE /\ mPlayingQueue \notin {NULL, <<>>}
             /\ mCurrentIndexOnQueue' = NextIndex(mPlayingQueue) /\ handlePlayRequest(mPlayback)
    <3>1. Len(mPlayingQueue) \in Nat \ {0} /\ mCurrentIndexOnQueue \in -1 .. Len(mPlayingQueue) - 1
      BY <1>0, <2>2, ServiceAssumption, EmptySeq DEF QueueTypes, Placed
    <3>2. Placed'
      BY <2>1, <2>2, <3>1 DEF Placed, NextIndex
    <3> QED BY <1>0, <2>1, <2>2, <3>2, ShowsPlayed
  <2>3. CASE UNCHANGED mCurrentIndexOnQueue /\ handleStopRequest(mPlayback, FALSE)
    BY <1>0, <2>1, <2>3, PlacedUnchanged, ShowsStopped
  <2> QED BY <1>1, <2>2, <2>3, Zenon DEF onCompletion
<1>2. ASSUME NEW state, NEW on, LocalReports(state, on) PROVE ShowsInv'
  <2>1. UNCHANGED <<queueVars, metadata, crashed, tasks, results>> /\ mPlayback'.mediaId = mPlayback.mediaId
    BY <1>0, <1>2 DEF LocalReports, fetchVars, Playback
  <2> QED BY <2>1, ShowsUnchanged, WaitingUnchanged
<1>3. ASSUME OwnStart \/ DelayedStop \/ StopReported PROVE ShowsInv'
  <2>1. UNCHANGED <<queueVars, metadata, crashed, tasks, results, mPlayback>>
    BY <1>3 DEF OwnStart, DelayedStop, StopReported, fetchVars
  <2> QED BY <2>1, ShowsUnchanged, WaitingUnchanged
<1>4. ASSUME onDestroy PROVE ShowsInv'
  <2>1. /\ mPlayback' = [NewPlayback("local") EXCEPT !.mediaId = mPlayback.mediaId]
        /\ UNCHANGED <<queueVars, metadata, crashed, tasks, results>>
    BY <1>4 DEF onDestroy, fetchVars
  <2>2. mPlayback'.mediaId = mPlayback.mediaId
    BY <2>1 DEF NewPlayback
  <2> QED BY <2>1, <2>2, ShowsUnchanged, WaitingUnchanged
<1> QED BY <1>1, <1>2, <1>3, <1>4 DEF Player, System

LEMMA ShowsAnswers ==
  ASSUME TypeInv, TypeInv', ShowsInv, TaskRuns \/ Result
  PROVE  ShowsInv'
<1>0. tasks \in Seq(Asked) /\ results \in Seq(Answered) /\ mPlayback \in Playback
  BY DEF TypeInv, HandledTypes, OtherTypes
<1>1. ASSUME TaskRuns PROVE ShowsInv'
  <2>1. UNCHANGED <<queueVars, metadata, crashed, mPlayback>>
    BY <1>1 DEF TaskRuns
  <2> QED BY <1>0, <1>1, <2>1, WaitingRuns, ShowsUnchanged
<1>2. ASSUME CatalogLoaded \/ Downloaded PROVE ShowsInv'
  <2>1. UNCHANGED <<queueVars, metadata, crashed, mPlayback, tasks>>
    BY <1>2 DEF CatalogLoaded, Downloaded
  <2>2. NoNewPicture
    BY <1>0, <1>2, <2>1, AnswerTaken DEF CatalogLoaded, Downloaded
  <2> QED BY <2>1, <2>2, ShowsUnchanged
<1>3. ASSUME Searched PROVE ShowsInv'
  <2>1. ~crashed /\ UNCHANGED crashed
    BY <1>3 DEF Searched, Takes
  <2>2. PICK queue \in Results : SearchEnds(queue, mPlayback)
    BY <1>3 DEF Searched
  <2>3. queue \in Queues \cup {<<>>}
    BY <2>2 DEF Results
  <2> QED BY <1>0, <2>1, <2>2, <2>3, ShowsSearched
<1>4. ASSUME ArtworkFetched PROVE ShowsInv'
  <2>1. /\ ~crashed /\ UNCHANGED <<queueVars, tasks>> /\ mPlayback' = mPlayback
        /\ results # <<>> /\ Head(results).kind = "artwork"
    BY <1>4 DEF ArtworkFetched, Takes
  <2>2. NoNewPicture
    BY <1>0, <1>4, <2>1, AnswerTaken DEF ArtworkFetched
  <2>3. Playable \/ stranded
    BY <1>0, <2>1, LacksRest, NoneOfKind DEF ShowsInv, PictureFindsItem
  <2>4. CASE UNCHANGED <<metadata, crashed>>
    BY <2>1, <2>2, <2>4, ShowsUnchanged
  <2>5. CASE crashed' = TRUE /\ ~Playable /\ UNCHANGED metadata
    <3>1. stranded'
      BY <2>1, <2>3, <2>5 DEF queueVars
    <3> QED BY <2>1, <2>2, <2>5, <3>1
            DEF ShowsInv, Placed, ItemIsShown, PictureFindsItem, MetadataNamesWhatPlays,
                ThrowsOnlyStranded, Playable, queueVars
  <2>6. CASE Playable /\ ShowsCurrent(Head(results).track) /\ UNCHANGED crashed
    <3>1. mPlayingQueue[mCurrentIndexOnQueue + 1] = metadata
      BY <2>6 DEF ShowsInv, ItemIsShown
    <3>2. metadata' = metadata
      BY <2>6, <3>1 DEF ShowsCurrent
    <3> QED BY <2>1, <2>2, <2>6, <3>2, ShowsUnchanged
  <2> QED BY <1>4, <2>4, <2>5, <2>6, Zenon DEF ArtworkFetched, Playable
<1> QED BY <1>1, <1>2, <1>3, <1>4 DEF Result

LEMMA ShowsNext == TypeInv /\ TypeInv' /\ ShowsInv /\ [Next]_vars => ShowsInv'
<1> SUFFICES ASSUME TypeInv, TypeInv', ShowsInv, [Next]_vars PROVE ShowsInv'
  OBVIOUS
<1>1. CASE Next
  BY <1>1, ShowsUser, ShowsPlayerAndSystem, ShowsAnswers DEF Next
<1>2. CASE UNCHANGED vars
  BY <1>2, ShowsUnchanged, WaitingUnchanged DEF vars, fetchVars
<1> QED BY <1>1, <1>2

(* Whenever a picture arrives, the session goes on to show the track the   *)
(* playback was given last, and the callback finds an item to compare the  *)
(* picture with, unless a request has left the index outside the queue     *)
(* (MusicService.java:639 to 663).                                         *)
THEOREM ShowsWhatPlays == Spec => []ArtworkIsCurrent
<1>1. ShowsInv => ArtworkIsCurrent
  BY DEF ShowsInv, ArtworkIsCurrent
<1> QED BY <1>1, TypesInit, TypesNext, ShowsInit, ShowsNext, PTL DEF Spec
-----------------------------------------------------------------------------
(* The delayed stop.  StopIsDue is inductive, with the types.              *)

LEMMA StopDueWhenPlayed ==
  ASSUME NEW p \in Playback, handlePlayRequest(p), TypeInv'
  PROVE  StopIsDue'
<1> DEFINE item == mPlayingQueue'[mCurrentIndexOnQueue' + 1]
<1>1. CASE isIndexPlayable(mCurrentIndexOnQueue', mPlayingQueue')
  <2>1. \E waiting : IF p.kind = "cast" THEN CastPlay(item, p, waiting) ELSE LocalPlay(item, p)
    BY <1>1, Zenon DEF handlePlayRequest
  <2> HIDE DEF item
  <2>2. CASE p.kind = "cast"
    <3>1. PICK port : mPlayback' = [p EXCEPT !.state = "PLAYING", !.mediaId = item, !.port = port]
      BY <2>1, <2>2, Zenon DEF CastPlay
    <3>2. mPlayback'.kind = "cast" /\ mPlayback'.state = "PLAYING"
      BY <2>2, <3>1 DEF Playback
    <3> QED BY <3>2 DEF StopIsDue, isPlaying, Casting
  <2>3. CASE p.kind # "cast"
    <3>1. PICK state : mPlayback' = [p EXCEPT !.state = state, !.playing = TRUE, !.mediaId = item]
      BY <2>1, <2>3, Zenon DEF LocalPlay
    <3>2. mPlayback'.kind # "cast" /\ mPlayback'.playing
      BY <2>3, <3>1 DEF Playback
    <3> QED BY <3>2 DEF StopIsDue, isPlaying, Casting
  <2> QED BY <2>2, <2>3
<1>2. CASE ~isIndexPlayable(mCurrentIndexOnQueue', mPlayingQueue')
  <2>1. missed' = TRUE
    BY <1>2, Zenon DEF handlePlayRequest
  <2> QED BY <2>1 DEF StopIsDue
<1> QED BY <1>1, <1>2

LEMMA StopDueWhenStopped ==
  ASSUME mServiceStarted' = FALSE \/ stopDue' = TRUE \/ missed' = TRUE
  PROVE  StopIsDue'
BY DEF StopIsDue

LEMMA StopDueUnchanged ==
  ASSUME StopIsDue, UNCHANGED <<mServiceStarted, stopDue, missed, mPlayback>>
  PROVE  StopIsDue'
BY DEF StopIsDue, isPlaying, Casting

LEMMA StopDueSearched ==
  ASSUME TypeInv', NEW p \in Playback, NEW queue, SearchEnds(queue, p)
  PROVE  StopIsDue'
BY StopDueWhenPlayed, StopDueWhenStopped DEF SearchEnds, handleStopRequest

LEMMA StopDueNext == TypeInv /\ TypeInv' /\ StopIsDue /\ [Next]_vars => StopIsDue'
<1> SUFFICES ASSUME TypeInv, TypeInv', StopIsDue, [Next]_vars PROVE StopIsDue'
  OBVIOUS
<1>0. mPlayback \in Playback /\ mPlayback' \in Playback
  BY DEF TypeInv, HandledTypes
<1>1. ASSUME onPlay PROVE StopIsDue'
  <2>1. handlePlayRequest(mPlayback) \/ UNCHANGED <<runVars, mPlayback>>
    BY <1>1 DEF onPlay
  <2> QED BY <1>0, <2>1, StopDueWhenPlayed, StopDueUnchanged DEF runVars
<1>2. ASSUME NEW id \in 0 .. 1, onSkipToQueueItem(id) PROVE StopIsDue'
  BY <1>0, <1>2, StopDueWhenPlayed DEF onSkipToQueueItem
<1>3. ASSUME NEW track \in Track, onPlayFromMediaId(track) PROVE StopIsDue'
  <2>1. handlePlayRequest(mPlayback) \/ UNCHANGED <<runVars, mPlayback>>
    BY <1>3, Zenon DEF onPlayFromMediaId
  <2> QED BY <1>0, <2>1, StopDueWhenPlayed, StopDueUnchanged DEF runVars
<1>4. ASSUME onPause \/ onStop \/ StartCasting \/ StopCasting \/ CommandPause \/ OwnStart
      PROVE  StopIsDue'
  <2>1. stopDue' = TRUE
    BY <1>4, Zenon DEF onPause, onStop, StartCasting, StopCasting, CommandPause, OwnStart, Command,
                handleStopRequest, ScheduleStop
  <2> QED BY <2>1, StopDueWhenStopped
<1>5. ASSUME onSkipToNext \/ onSkipToPrevious PROVE StopIsDue'
  BY <1>0, <1>5, StopDueWhenPlayed, StopDueWhenStopped
     DEF onSkipToNext, onSkipToPrevious, PlayOrStop, handleStopRequest
<1>6. ASSUME onCustomAction \/ onLoadChildren PROVE StopIsDue'
  BY <1>6, StopDueUnchanged DEF onCustomAction, onLoadChildren, runVars
<1>7. ASSUME onPlayFromSearch PROVE StopIsDue'
  <2>1. Connecting \in Playback /\ Connecting.kind = mPlayback.kind /\ Connecting.playing = mPlayback.playing
    BY <1>0 DEF Connecting, Playback, States
  <2>2. CASE \E queue \in Queues : SearchEnds(queue, Connecting)
    BY <2>1, <2>2, StopDueSearched
  <2>3. CASE /\ mPlayback' = Connecting /\ missed' = (missed \/ (Casting /\ isPlaying))
             /\ UNCHANGED <<mServiceStarted, stopDue>>
    BY <2>1, <2>3 DEF StopIsDue, isPlaying, Casting
  <2> QED BY <1>7, <2>2, <2>3, Zenon DEF onPlayFromSearch
<1>8. ASSUME onCompletion PROVE StopIsDue'
  BY <1>0, <1>8, StopDueWhenPlayed, StopDueWhenStopped DEF onCompletion, handleStopRequest
<1>9. ASSUME NEW state, NEW on \in BOOLEAN, LocalReports(state, on) PROVE StopIsDue'
  <2>1. /\ mPlayback' = [mPlayback EXCEPT !.state = state, !.playing = on]
        /\ missed' = (missed \/ ~on) /\ ~Casting
    BY <1>9 DEF LocalReports
  <2>2. mPlayback'.kind = mPlayback.kind /\ mPlayback'.playing = on
    BY <1>0, <2>1 DEF Playback
  <2> QED BY <2>1, <2>2 DEF StopIsDue, isPlaying, Casting
<1>10. ASSUME DelayedStop PROVE StopIsDue'
  <2>1. CASE isPlaying /\ UNCHANGED mPlayback
    BY <2>1 DEF StopIsDue, isPlaying, Casting
  <2>2. CASE ~isPlaying
    <3>1. mServiceStarted' = FALSE
      BY <1>10, <2>2, Zenon DEF DelayedStop
    <3> QED BY <3>1, Zenon DEF StopIsDue
  <2> QED BY <1>10, <2>1, <2>2 DEF DelayedStop
<1>11. ASSUME onDestroy PROVE StopIsDue'
  BY <1>11, StopDueWhenStopped DEF onDestroy
<1>12. ASSUME StopReported \/ TaskRuns \/ CatalogLoaded \/ ArtworkFetched \/ Downloaded PROVE StopIsDue'
  BY <1>12, StopDueUnchanged DEF StopReported, TaskRuns, CatalogLoaded, ArtworkFetched, Downloaded, runVars
<1>13. ASSUME Searched PROVE StopIsDue'
  <2>1. PICK queue : SearchEnds(queue, mPlayback)
    BY <1>13 DEF Searched
  <2> QED BY <1>0, <2>1, StopDueSearched
<1>14. CASE UNCHANGED vars
  BY <1>14, StopDueUnchanged DEF vars, runVars
<1> QED BY <1>1, <1>2, <1>3, <1>4, <1>5, <1>6, <1>7, <1>8, <1>9, <1>10, <1>11, <1>12, <1>13, <1>14
        DEF Next, User, Player, System, Result

(* A service that was started and does not play has its stop pending,      *)
(* however pauses, errors, commands and its own start interleave           *)
(* (MusicService.java:243), unless playback ended behind its back.         *)
THEOREM StopStaysDue == Spec => []StopIsDue
<1>1. Init => StopIsDue
  BY DEF Init, StopIsDue
<1> QED BY <1>1, TypesInit, TypesNext, StopDueNext, PTL DEF Spec
-----------------------------------------------------------------------------
(* What is streamed.  CastsWhatPlays says nothing of a cast that still     *)
(* waits for its download, nor of what waits while none plays; the         *)
(* invariant does: while downloads are under way, the last of them is the  *)
(* one of the current track, or the next pause will know that they race.   *)

CastPlaying == Casting /\ mPlayback.state = "PLAYING"

Stream(p) == [port |-> p.port, track |-> p.mediaId]

\* A cast that plays is announced at its port.
Announces == CastPlaying => mPlayback.port \in Port /\ (~left => announced = mPlayback.port)

\* It has asked for its track, or will when the last download has come.
Asks ==
  CastPlaying /\ ~raced /\ ~failed /\ ~left =>
    IF Downloading THEN Due(mPlayback) ELSE asked = Stream(mPlayback)

\* While none plays nothing is announced, and a stream begins only if downloads raced.
Quiet ==
  ~CastPlaying /\ ~left => announced = NULL /\ ((asked = Stop /\ ~Downloading) \/ raced)

CastInv == Announces /\ Asks /\ Quiet

LEMMA CastInitially == Init => CastInv
<1> SUFFICES ASSUME Init PROVE CastInv
  OBVIOUS
<1>1. ~CastPlaying
  BY DEF Init, CastPlaying, Casting, NewPlayback
<1>2. ~Downloading
  BY DEF Init, Downloading, Kind
<1> QED BY <1>1, <1>2 DEF Init, CastInv, Announces, Asks, Quiet

\* What leaves the playback, the announcement and the downloads alone.
LEMMA CastUnchanged ==
  ASSUME TypeInv, CastInv, UNCHANGED <<streamVars, mPlayback>>, SameDownloads
  PROVE  CastInv'
<1>1. PICK p \in Playback : p = mPlayback
  BY DEF TypeInv, HandledTypes
<1>2. Due(p)' <=> Due(p)
  BY DEF SameDownloads
<1>3. Due(mPlayback)' <=> Due(mPlayback)
  BY <1>1, <1>2 DEF Due, LastIsFor, IsFor
<1>4. (CastPlaying' <=> CastPlaying) /\ (Downloading' <=> Downloading)
  BY DEF CastPlaying, Casting, SameDownloads
<1> QED BY <1>3, <1>4 DEF CastInv, Announces, Asks, Quiet, Stream, streamVars

\* A playback that does not cast, or does not play, takes over from one that
\* is quiet; a stream that is left to itself is noted.
LEMMA CastEnds ==
  ASSUME TypeInv, CastInv, ~CastPlaying', SameDownloads, UNCHANGED <<announced, asked, raced>>,
         left' = TRUE \/ (left' = left /\ ~CastPlaying)
  PROVE  CastInv'
BY DEF CastInv, Announces, Asks, Quiet, SameDownloads

\* A cast that plays and was not left to itself is announced, so it streams.
LEMMA CastStreams ==
  ASSUME CastInv, CastPlaying, ~left
  PROVE  Streaming
BY ServiceAssumption DEF CastInv, Announces, CastPlaying, Streaming

LEMMA CastPaused ==
  ASSUME NEW p \in Playback, CastPause(p), SameDownloads
  PROVE  CastInv'
<1>1. mPlayback'.state = "PAUSED"
  BY DEF CastPause, Playback
<1>2. ~CastPlaying'
  BY <1>1 DEF CastPlaying
<1>3. announced' = NULL /\ asked' = Stop /\ (raced' <=> Downloading)
  BY DEF CastPause, unregisterService
<1> QED BY <1>2, <1>3 DEF CastInv, Announces, Asks, Quiet, SameDownloads
\* A stream that a playback leaves behind is noted.
LEMMA CastLeft ==
  ASSUME TypeInv, CastInv, ~CastPlaying', left' = (left \/ Streaming), SameDownloads,
         UNCHANGED <<announced, asked, raced>>
  PROVE  CastInv'
<1>1. left' = TRUE \/ (left' = left /\ ~CastPlaying)
  BY CastStreams DEF TypeInv, HandledTypes
<1> QED BY <1>1, CastEnds

LEMMA CastHalted ==
  ASSUME TypeInv, CastInv, NEW p \in Playback, Halt(p), SameDownloads
  PROVE  CastInv'
<1>1. PICK on : mPlayback' = [p EXCEPT !.state = "STOPPED", !.playing = on]
  BY Zenon DEF Halt
<1>2. mPlayback'.state = "STOPPED"
  BY <1>1 DEF Playback
<1>3. ~CastPlaying'
  BY <1>2 DEF CastPlaying
<1>4. left' = (left \/ Streaming) /\ UNCHANGED <<announced, asked, raced>>
  BY DEF Halt
<1> QED BY <1>3, <1>4, CastLeft

LEMMA LocalPaused ==
  ASSUME TypeInv, CastInv, NEW p \in Playback, p.kind # "cast", LocalPause(p), SameDownloads
  PROVE  CastInv'
<1>1. PICK on : mPlayback' = [p EXCEPT !.state = "PAUSED", !.playing = on]
  BY Zenon DEF LocalPause
<1>2. mPlayback'.kind # "cast"
  BY <1>1 DEF Playback
<1>3. ~CastPlaying'
  BY <1>2 DEF CastPlaying, Casting
<1>4. left' = (left \/ Abandons(p)) /\ UNCHANGED <<announced, asked, raced>>
  BY DEF LocalPause
<1>5. CastPlaying => p # mPlayback
  BY DEF CastPlaying, Casting
<1>6. left' = TRUE \/ (left' = left /\ ~CastPlaying)
  BY <1>4, <1>5, CastStreams DEF TypeInv, HandledTypes, Abandons
<1> QED BY <1>3, <1>4, <1>6, CastEnds

LEMMA EitherPaused ==
  ASSUME TypeInv, CastInv, NEW p \in Playback, Pause(p), SameDownloads
  PROVE  CastInv'
BY CastPaused, LocalPaused DEF Pause

\* play() on a cast that was paused, found or made: unless a stream was left
\* to itself, nothing is announced but its own port.
LEMMA CastPlayed ==
  ASSUME TypeInv, CastInv, NEW p \in Playback, p.kind = "cast",
         p = mPlayback \/ p.state # "PLAYING",
         NEW track \in Track, NEW waiting \in Seq(Asked), CastPlay(track, p, waiting),
         tasks' = waiting => SameDownloads
  PROVE  CastInv'
<1>1. PICK port \in Port :
        /\ mPlayback' = [p EXCEPT !.state = "PLAYING", !.mediaId = track, !.port = port]
        /\ registerService(port, IF PausesFirst(p) THEN NULL ELSE announced)
        /\ left' = (~PausesFirst(p) /\ (left \/ Abandons(p)))
        /\ \/ /\ track \in Local /\ asked' = [port |-> port, track |-> track]
              /\ raced' = Downloading /\ failed' = FALSE
              /\ tasks' = waiting
           \/ /\ track \in Remote /\ asked' = (IF PausesFirst(p) THEN Stop ELSE asked)
              /\ raced' = FALSE
              /\ \/ failed' = FALSE
                    /\ tasks' = Append(waiting, [kind |-> "download", track |-> track, port |-> port])
                 \/ failed' = TRUE /\ tasks' = waiting
  BY Zenon DEF CastPlay
<1>2. /\ mPlayback' \in Playback /\ mPlayback'.kind = "cast" /\ mPlayback'.state = "PLAYING"
      /\ mPlayback'.port = port /\ mPlayback'.mediaId = track
  <2>1. mPlayback' = [p EXCEPT !.state = "PLAYING", !.mediaId = track, !.port = port]
    BY <1>1
  <2> QED BY <2>1 DEF Playback, States
<1>3. CastPlaying'
  BY <1>2 DEF CastPlaying, Casting
<1>4. Announces'
  <2>1. SUFFICES ASSUME ~left' PROVE announced' = port
    BY <1>2 DEF Announces
  <2>2. CASE PausesFirst(p)
    BY <1>1, <2>2 DEF registerService
  <2>3. CASE ~PausesFirst(p)
    <3>1. ~left /\ ~Abandons(p)
      BY <1>1, <2>1, <2>3
    <3>2. CASE p = mPlayback \/ ~Casting
      <4>1. ~CastPlaying
        BY <2>3, <3>2 DEF CastPlaying, PausesFirst
      <4> QED BY <1>1, <2>3, <3>1, <4>1 DEF CastInv, Quiet, registerService
    <3>3. CASE p # mPlayback /\ Casting
      BY <1>1, <2>3, <3>1, <3>3 DEF Abandons, Streaming, registerService
    <3> QED BY <3>2, <3>3
  <2> QED BY <2>2, <2>3
<1>5. Asks'
  <2>1. CASE asked' = [port |-> port, track |-> track] /\ raced' = Downloading /\ tasks' = waiting
    BY <1>2, <2>1 DEF Asks, Stream, SameDownloads
  <2>2. CASE tasks' = Append(waiting, [kind |-> "download", track |-> track, port |-> port])
    <3>1. Downloading' /\ \A x \in Playback : x.port = port /\ x.mediaId = track => Due(x)'
      BY <2>2, DownloadAsked
    <3>2. PICK x \in Playback : x = mPlayback'
      BY <1>2
    <3>3. Due(x)'
      BY <1>2, <3>1, <3>2
    <3>4. Due(mPlayback)'
      BY <3>2, <3>3 DEF Due, LastIsFor, IsFor
    <3> QED BY <3>1, <3>4 DEF Asks
  <2>3. CASE failed' = TRUE
    BY <2>3 DEF Asks
  <2> QED BY <1>1, <2>1, <2>2, <2>3
<1> QED BY <1>3, <1>4, <1>5 DEF CastInv, Quiet
\* A step that takes no download that was answered.
AnswersKept ==
  /\ Lacks(results, "download")' <=> Lacks(results, "download")
  /\ \A p \in Playback : LastIsFor(results, p)' <=> LastIsFor(results, p)

LEMMA AnswersUnchanged == results' = results => AnswersKept
BY DEF AnswersKept, Lacks, LastIsFor, IsFor

LEMMA OtherAnswerTaken ==
  ASSUME TypeInv, NEW kind, kind # "download", Takes(kind)
  PROVE  AnswersKept
<1>1. results \in Seq(Answered) /\ results # <<>> /\ Head(results).kind = kind /\ results' = Tail(results)
  BY DEF Takes, TypeInv, OtherTypes
<1>2. Lacks(results, "download") <=> Lacks(results, "download")'
  BY <1>1, LacksRest
<1>3. \A p \in Playback : LastIsFor(results, p) <=> LastIsFor(results, p)'
  BY <1>1, LastOfRest DEF IsFor
<1> QED BY <1>2, <1>3 DEF AnswersKept

LEMMA TasksUnchanged == AnswersKept /\ tasks' = tasks => SameDownloads
<1> SUFFICES ASSUME AnswersKept, tasks' = tasks PROVE SameDownloads
  OBVIOUS
<1>1. Lacks(tasks, "download")' <=> Lacks(tasks, "download")
  BY DEF Lacks
<1>2. \A p \in Playback : LastIsFor(tasks, p)' <=> LastIsFor(tasks, p)
  BY DEF LastIsFor, IsFor
<1>3. Downloading' <=> Downloading
  BY <1>1, NotDownloading DEF AnswersKept
<1> QED BY <1>1, <1>2, <1>3 DEF AnswersKept, SameDownloads, Due

LEMMA TaskAppended ==
  ASSUME AnswersKept, tasks \in Seq(Asked), NEW task \in Asked, task.kind # "download",
         tasks' = Append(tasks, task)
  PROVE  SameDownloads
<1>1. Lacks(tasks, "download")' <=> Lacks(tasks, "download")
  BY LacksAppended
<1>2. \A p \in Playback : LastIsFor(tasks, p)' <=> LastIsFor(tasks, p)
  BY LastAppended DEF IsFor
<1>3. Downloading' <=> Downloading
  BY <1>1, NotDownloading DEF AnswersKept
<1> QED BY <1>1, <1>2, <1>3 DEF AnswersKept, SameDownloads, Due

\* The tasks before those of a play request.
LEMMA PictureAsked ==
  ASSUME TypeInv, AnswersKept, NEW track \in Track,
         NEW waiting \in {tasks, Append(tasks, [kind |-> "artwork", track |-> track, port |-> NULL])}
  PROVE  waiting \in Seq(Asked) /\ (tasks' = waiting => SameDownloads)
<1> DEFINE task == [kind |-> "artwork", track |-> track, port |-> NULL]
<1>1. task \in Asked /\ task.kind # "download" /\ tasks \in Seq(Asked)
  BY DEF Asked, Task, Kinds, TypeInv, HandledTypes
<1> HIDE DEF task
<1>2. Append(tasks, task) \in Seq(Asked)
  BY <1>1, AppendProperties
<1>3. tasks' = tasks => SameDownloads
  BY TasksUnchanged
<1>4. tasks' = Append(tasks, task) => SameDownloads
  BY <1>1, TaskAppended
<1> QED BY <1>1, <1>2, <1>3, <1>4 DEF task

LEMMA CastHandled ==
  ASSUME TypeInv, TypeInv', CastInv, NEW p \in Playback, p.kind = mPlayback.kind, AnswersKept,
         \/ p = mPlayback
         \/ p.state # "PLAYING" /\ isIndexPlayable(mCurrentIndexOnQueue', mPlayingQueue'),
         handlePlayRequest(p)
  PROVE  CastInv'
<1> DEFINE item == mPlayingQueue'[mCurrentIndexOnQueue' + 1]
<1>1. CASE isIndexPlayable(mCurrentIndexOnQueue', mPlayingQueue')
  <2>1. item \in Track
    BY <1>1, PlayableItem DEF TypeInv, QueueTypes
  <2>2. PICK waiting \in {tasks, Append(tasks, [kind |-> "artwork", track |-> item, port |-> NULL])} :
          IF p.kind = "cast" THEN CastPlay(item, p, waiting)
          ELSE LocalPlay(item, p) /\ tasks' = waiting
    BY <1>1, Zenon DEF handlePlayRequest
  <2> HIDE DEF item
  <2>3. waiting \in Seq(Asked) /\ (tasks' = waiting => SameDownloads)
    BY <2>1, PictureAsked
  <2>4. CASE p.kind = "cast"
    BY <2>1, <2>2, <2>3, <2>4, CastPlayed
  <2>5. CASE p.kind # "cast"
    <3>1. LocalPlay(item, p) /\ tasks' = waiting
      BY <2>2, <2>5
    <3>2. PICK state : mPlayback' = [p EXCEPT !.state = state, !.playing = TRUE, !.mediaId = item]
      BY <3>1, Zenon DEF LocalPlay
    <3>3. mPlayback'.kind # "cast"
      BY <2>5, <3>2 DEF Playback
    <3>4. ~CastPlaying' /\ ~CastPlaying
      BY <2>5, <3>3 DEF CastPlaying, Casting
    <3>5. UNCHANGED <<announced, asked, raced, left>>
      BY <3>1 DEF LocalPlay, streamVars
    <3> QED BY <2>3, <3>1, <3>4, <3>5, CastEnds
  <2> QED BY <2>4, <2>5
<1>2. CASE ~isIndexPlayable(mCurrentIndexOnQueue', mPlayingQueue')
  <2>1. mPlayback' = p /\ UNCHANGED streamVars /\ UNCHANGED tasks
    BY <1>2, Zenon DEF handlePlayRequest
  <2> QED BY <1>2, <2>1, CastUnchanged, TasksUnchanged
<1> QED BY <1>1, <1>2

LEMMA CastStopped ==
  ASSUME TypeInv, CastInv, NEW p \in Playback, AnswersKept, NEW error, handleStopRequest(p, error)
  PROVE  CastInv'
BY CastHalted, TasksUnchanged DEF handleStopRequest

LEMMA CastSearched ==
  ASSUME TypeInv, TypeInv', CastInv, NEW p \in Playback, p.kind = mPlayback.kind, AnswersKept,
         p = mPlayback \/ p.state # "PLAYING", NEW queue \in Queues \cup {<<>>}, SearchEnds(queue, p)
  PROVE  CastInv'
<1>1. CASE queue # <<>> /\ mPlayingQueue' = queue /\ mCurrentIndexOnQueue' = 0 /\ handlePlayRequest(p)
  <2>1. Len(queue) \in Nat \ {0} /\ queue # NULL
    BY <1>1, ServiceAssumption, EmptySeq
  <2>2. isIndexPlayable(mCurrentIndexOnQueue', mPlayingQueue')
    BY <1>1, <2>1 DEF isIndexPlayable
  <2> QED BY <1>1, <2>2, CastHandled
<1>2. CASE handleStopRequest(p, TRUE)
  BY <1>2, CastStopped
<1> QED BY <1>1, <1>2 DEF SearchEnds
LEMMA CastSwitched ==
  ASSUME TypeInv, CastInv, NEW kind \in {"local", "cast"}, NEW resume \in BOOLEAN, results' = results,
         resume => kind = "cast", switchToPlayer(kind, resume)
  PROVE  CastInv'
<1> DEFINE p == [NewPlayback(kind) EXCEPT !.mediaId = mPlayback.mediaId]
           item == mPlayingQueue[mCurrentIndexOnQueue + 1]
<1>1. p \in Playback /\ p.state = "NONE" /\ p.kind = kind
  BY DEF TypeInv, HandledTypes, NewPlayback, Playback, States
<1>2. isIndexPlayable(mCurrentIndexOnQueue, mPlayingQueue) => item \in Track
  BY PlayableItem DEF TypeInv, QueueTypes
<1>3. \/ (Pause(p) \/ Halt(p)) /\ UNCHANGED tasks
      \/ resume /\ isIndexPlayable(mCurrentIndexOnQueue, mPlayingQueue) /\ CastPlay(item, p, tasks)
      \/ /\ mPlayback' = p /\ left' = (left \/ Streaming)
         /\ UNCHANGED <<announced, asked, raced, tasks>>
  BY Zenon DEF switchToPlayer
<1> HIDE DEF p, item
<1>4. tasks' = tasks => SameDownloads
  BY AnswersUnchanged, TasksUnchanged
<1>5. CASE (Pause(p) \/ Halt(p)) /\ UNCHANGED tasks
  BY <1>1, <1>4, <1>5, EitherPaused, CastHalted
<1>6. CASE resume /\ isIndexPlayable(mCurrentIndexOnQueue, mPlayingQueue) /\ CastPlay(item, p, tasks)
  <2>1. item \in Track /\ tasks \in Seq(Asked) /\ p.kind = "cast" /\ p.state # "PLAYING"
    BY <1>1, <1>2, <1>6 DEF TypeInv, HandledTypes
  <2> QED BY <1>1, <1>4, <1>6, <2>1, CastPlayed
<1>7. CASE /\ mPlayback' = p /\ left' = (left \/ Streaming)
           /\ UNCHANGED <<announced, asked, raced, tasks>>
  <2>1. ~CastPlaying'
    BY <1>1, <1>7 DEF CastPlaying
  <2> QED BY <1>4, <1>7, <2>1, CastLeft
<1> QED BY <1>3, <1>5, <1>6, <1>7

LEMMA CastUser ==
  ASSUME TypeInv, TypeInv', CastInv, User
  PROVE  CastInv'
<1>0. mPlayback \in Playback /\ tasks \in Seq(Asked)
  BY DEF TypeInv, HandledTypes
<1>1. ASSUME onPlay PROVE CastInv'
  <2>1. AnswersKept
    BY <1>1, AnswersUnchanged DEF onPlay, Unrelated
  <2>2. handlePlayRequest(mPlayback) \/ UNCHANGED <<streamVars, mPlayback, tasks>>
    BY <1>1 DEF onPlay
  <2> QED BY <1>0, <2>1, <2>2, CastHandled, CastUnchanged, TasksUnchanged
<1>2. ASSUME NEW id \in 0 .. 1, onSkipToQueueItem(id) PROVE CastInv'
  <2>1. AnswersKept
    BY <1>2, AnswersUnchanged DEF onSkipToQueueItem, Unrelated
  <2> QED BY <1>0, <1>2, <2>1, CastHandled DEF onSkipToQueueItem
<1>3. ASSUME NEW track \in Track, onPlayFromMediaId(track) PROVE CastInv'
  <2>1. AnswersKept
    BY <1>3, AnswersUnchanged DEF onPlayFromMediaId, Unrelated
  <2>2. handlePlayRequest(mPlayback) \/ UNCHANGED <<streamVars, mPlayback, tasks>>
    BY <1>3, Zenon DEF onPlayFromMediaId
  <2> QED BY <1>0, <2>1, <2>2, CastHandled, CastUnchanged, TasksUnchanged
<1>4. ASSUME onPause \/ CommandPause PROVE CastInv'
  <2>1. SameDownloads
    BY <1>4, AnswersUnchanged, TasksUnchanged DEF onPause, CommandPause, Command, Unrelated
  <2>2. Pause(mPlayback) \/ UNCHANGED <<streamVars, mPlayback>>
    BY <1>4 DEF onPause, CommandPause
  <2> QED BY <1>0, <2>1, <2>2, EitherPaused, CastUnchanged
<1>5. ASSUME onStop PROVE CastInv'
  <2>1. AnswersKept
    BY <1>5, AnswersUnchanged DEF onStop, Unrelated
  <2> QED BY <1>0, <1>5, <2>1, CastStopped DEF onStop
<1>6. ASSUME onSkipToNext \/ onSkipToPrevious PROVE CastInv'
  <2>1. AnswersKept
    BY <1>6, AnswersUnchanged DEF onSkipToNext, onSkipToPrevious, Unrelated
  <2> QED BY <1>0, <1>6, <2>1, CastHandled, CastStopped DEF onSkipToNext, onSkipToPrevious, PlayOrStop
<1>7. ASSUME onCustomAction PROVE CastInv'
  <2>1. UNCHANGED <<streamVars, mPlayback, tasks, results>>
    BY <1>7 DEF onCustomAction, Unrelated
  <2> QED BY <2>1, CastUnchanged, AnswersUnchanged, TasksUnchanged
<1>8. ASSUME onPlayFromSearch PROVE CastInv'
  <2>1. AnswersKept
    BY <1>8, AnswersUnchanged DEF onPlayFromSearch
  <2>2. Connecting \in Playback /\ Connecting.kind = mPlayback.kind /\ Connecting.state = "CONNECTING"
    BY <1>0 DEF Connecting, Playback, States
  <2>3. CASE \E queue \in Queues : SearchEnds(queue, Connecting)
    <3>1. PICK queue \in Queues : SearchEnds(queue, Connecting)
      BY <2>3
    <3>2. queue \in Queues \cup {<<>>}
      OBVIOUS
    <3> QED BY <2>1, <2>2, <3>1, <3>2, CastSearched
  <2>4. CASE /\ mPlayback' = Connecting /\ left' = (left \/ Streaming)
             /\ tasks' = Append(tasks, [kind |-> "search", track |-> NULL, port |-> NULL])
             /\ UNCHANGED <<announced, asked, raced>>
    <3>1. [kind |-> "search", track |-> NULL, port |-> NULL] \in Asked
      BY DEF Asked, Task, Kinds
    <3>2. SameDownloads
      BY <1>0, <2>1, <2>4, <3>1, TaskAppended
    <3>3. ~CastPlaying'
      BY <2>2, <2>4 DEF CastPlaying
    <3> QED BY <2>4, <3>2, <3>3, CastLeft
  <2> QED BY <1>8, <2>3, <2>4, Zenon DEF onPlayFromSearch
<1>9. ASSUME onLoadChildren PROVE CastInv'
  <2>1. /\ tasks' = Append(tasks, [kind |-> "catalog", track |-> NULL, port |-> NULL])
        /\ UNCHANGED <<streamVars, mPlayback, results>>
    BY <1>9 DEF onLoadChildren
  <2>2. [kind |-> "catalog", track |-> NULL, port |-> NULL] \in Asked
    BY DEF Asked, Task, Kinds
  <2>3. SameDownloads
    BY <1>0, <2>1, <2>2, AnswersUnchanged, TaskAppended
  <2> QED BY <2>1, <2>3, CastUnchanged
<1>10. ASSUME StartCasting \/ StopCasting PROVE CastInv'
  <2>1. results' = results
    BY <1>10, Zenon DEF StartCasting, StopCasting, Unrelated
  <2>2. PICK kind \in {"local", "cast"}, resume \in BOOLEAN :
          (resume => kind = "cast") /\ switchToPlayer(kind, resume)
    BY <1>10, Zenon DEF StartCasting, StopCasting
  <2> QED BY <2>1, <2>2, CastSwitched
<1> QED BY <1>1, <1>2, <1>3, <1>4, <1>5, <1>6, <1>7, <1>8, <1>9, <1>10
        DEF User

LEMMA CastDownloaded ==
  ASSUME TypeInv, CastInv, Downloaded
  PROVE  CastInv'
<1> DEFINE answer == Head(results)
<1>1. /\ results \in Seq(Answered) /\ results # <<>> /\ answer.kind = "download"
      /\ results' = Tail(results) /\ UNCHANGED <<announced, left, raced, mPlayback, tasks>>
  BY DEF Downloaded, Takes, TypeInv, OtherTypes
<1>2. \/ asked' = [port |-> answer.port, track |-> answer.track] /\ failed' = failed
      \/ failed' = (failed \/ [port |-> answer.port, track |-> answer.track] = Stream(mPlayback))
  BY DEF Downloaded, Stream
<1>3. Downloading
  BY <1>1, LacksRest, NotDownloading
<1>4. Announces' /\ Quiet'
  BY <1>1, <1>3 DEF CastInv, Announces, Quiet, CastPlaying, Casting
<1>5. Asks'
  <2> SUFFICES ASSUME CastPlaying', ~raced', ~failed', ~left'
               PROVE  IF Downloading' THEN Due(mPlayback)' ELSE asked' = Stream(mPlayback)'
    BY DEF Asks
  <2>1. Due(mPlayback)
    BY <1>1, <1>2, <1>3 DEF CastInv, Asks, CastPlaying, Casting, TypeInv, HandledTypes
  <2>2. CASE LastIsFor(tasks, mPlayback)
    <3>1. LastIsFor(tasks, mPlayback)'
      BY <1>1, <2>2 DEF LastIsFor, IsFor
    <3>2. ~Lacks(tasks, "download")'
      BY <3>1 DEF LastIsFor, IsFor, Lacks
    <3> QED BY <3>1, <3>2, NotDownloading DEF Due
  <2>3. CASE Lacks(tasks, "download") /\ LastIsFor(results, mPlayback)
    <3>1. Lacks(tasks, "download")'
      BY <1>1, <2>3 DEF Lacks
    <3>2. CASE LastIsFor(Tail(results), mPlayback)
      <4>1. LastIsFor(results, mPlayback)'
        BY <1>1, <3>2 DEF LastIsFor, IsFor
      <4>2. ~Lacks(results, "download")'
        BY <4>1 DEF LastIsFor, IsFor, Lacks
      <4> QED BY <3>1, <4>1, <4>2, NotDownloading DEF Due
    <3>3. CASE IsFor(answer, mPlayback) /\ Lacks(Tail(results), "download")
      <4>1. Lacks(results, "download")'
        BY <1>1, <3>3 DEF Lacks
      <4>2. ~Downloading'
        BY <3>1, <4>1, NotDownloading
      <4>3. [port |-> answer.port, track |-> answer.track] = Stream(mPlayback)
        BY <3>3 DEF IsFor, Stream
      <4>4. asked' = Stream(mPlayback)'
        BY <1>1, <1>2, <4>3 DEF Stream
      <4> QED BY <4>2, <4>4
    <3> QED BY <1>1, <2>3, <3>2, <3>3, LastOfRest
  <2> QED BY <2>1, <2>2, <2>3 DEF Due
<1> QED BY <1>4, <1>5 DEF CastInv

LEMMA CastOthers ==
  ASSUME TypeInv, TypeInv', CastInv, Player \/ System \/ TaskRuns \/ Result
  PROVE  CastInv'
<1>0. mPlayback \in Playback /\ tasks \in Seq(Asked) /\ results \in Seq(Answered)
  BY DEF TypeInv, HandledTypes, OtherTypes
<1>1. ASSUME onCompletion PROVE CastInv'
  <2>1. AnswersKept
    BY <1>1, AnswersUnchanged DEF onCompletion, Unrelated
  <2> QED BY <1>0, <1>1, <2>1, CastHandled, CastStopped DEF onCompletion
<1>2. ASSUME NEW state, NEW on, LocalReports(state, on) PROVE CastInv'
  <2>1. /\ mPlayback' = [mPlayback EXCEPT !.state = state, !.playing = on] /\ ~Casting
        /\ UNCHANGED <<announced, asked, raced, left, tasks, results>>
    BY <1>2 DEF LocalReports, streamVars, fetchVars
  <2>2. ~CastPlaying' /\ ~CastPlaying
    BY <1>0, <2>1 DEF CastPlaying, Casting, Playback
  <2> QED BY <2>1, <2>2, CastEnds, AnswersUnchanged, TasksUnchanged
<1>3. ASSUME OwnStart \/ DelayedStop \/ StopReported PROVE CastInv'
  <2>1. UNCHANGED <<streamVars, mPlayback, tasks, results>>
    BY <1>3 DEF OwnStart, DelayedStop, StopReported, fetchVars
  <2> QED BY <2>1, CastUnchanged, AnswersUnchanged, TasksUnchanged
<1>4. ASSUME onDestroy PROVE CastInv'
  <2>1. /\ mPlayback' = [NewPlayback("local") EXCEPT !.mediaId = mPlayback.mediaId]
        /\ asked' = Stop /\ raced' = Downloading /\ announced' = announced
        /\ left' = (left \/ (Casting /\ announced # NULL))
        /\ UNCHANGED <<tasks, results>>
    BY <1>4 DEF onDestroy, fetchVars
  <2>2. ~CastPlaying'
    BY <2>1 DEF CastPlaying, Casting, NewPlayback
  <2>3. Downloading' <=> Downloading
    BY <2>1, AnswersUnchanged, TasksUnchanged DEF SameDownloads
  <2>4. ~left' => announced = NULL
    BY <2>1, ServiceAssumption DEF CastInv, Announces, Quiet, CastPlaying
  <2> QED BY <2>1, <2>2, <2>3, <2>4 DEF CastInv, Announces, Asks, Quiet
<1>5. ASSUME TaskRuns PROVE CastInv'
  <2>1. UNCHANGED <<streamVars, mPlayback>>
    BY <1>5 DEF TaskRuns
  <2> QED BY <1>0, <1>5, <2>1, WaitingRuns, CastUnchanged
<1>6. ASSUME CatalogLoaded \/ ArtworkFetched PROVE CastInv'
  <2>1. UNCHANGED <<streamVars, mPlayback, tasks>> /\ (Takes("catalog") \/ Takes("artwork"))
    BY <1>6 DEF CatalogLoaded, ArtworkFetched
  <2> QED BY <2>1, OtherAnswerTaken, TasksUnchanged, CastUnchanged
<1>7. ASSUME Searched PROVE CastInv'
  <2>1. PICK queue \in Results : SearchEnds(queue, mPlayback)
    BY <1>7 DEF Searched
  <2>2. queue \in Queues \cup {<<>>}
    BY <2>1 DEF Results
  <2>3. AnswersKept
    BY <1>7, OtherAnswerTaken DEF Searched
  <2> QED BY <1>0, <2>1, <2>2, <2>3, CastSearched
<1> QED BY <1>1, <1>2, <1>3, <1>4, <1>5, <1>6, <1>7, CastDownloaded
        DEF Player, System, Result

LEMMA CastNext == TypeInv /\ TypeInv' /\ CastInv /\ [Next]_vars => CastInv'
<1> SUFFICES ASSUME TypeInv, TypeInv', CastInv, [Next]_vars PROVE CastInv'
  OBVIOUS
<1>1. CASE Next
  BY <1>1, CastUser, CastOthers DEF Next
<1>2. CASE UNCHANGED vars
  BY <1>2, CastUnchanged, AnswersUnchanged, TasksUnchanged DEF vars, fetchVars
<1> QED BY <1>1, <1>2

(* However downloads, pauses, switches and the end of the service          *)
(* interleave, a cast that plays has asked for its track at the port it is *)
(* announced at, and none is streamed or announced otherwise, but for the  *)
(* exceptions the property names (CastPlayback.java:111 to 330).           *)
THEOREM CastsTheCurrentTrack == Spec => []CastsWhatPlays
<1>1. CastInv => CastsWhatPlays
  BY DEF CastInv, Announces, Asks, Quiet, CastsWhatPlays, StreamsCurrentTrack, QuietUnlessCasting,
         CastPlaying, Stream
<1> QED BY <1>1, TypesInit, TypesNext, CastInitially, CastNext, PTL DEF Spec
=============================================================================
