---------------------------- MODULE LocalPlayback -----------------------------
(***************************************************************************)
(* LocalPlayback.java: plays a track on the device itself.  It follows     *)
(* three parties that do not wait for each other: the user, whose requests *)
(* MusicService passes on; Android's MediaPlayer, which prepares and seeks *)
(* in the background; and Android's audio focus.  All code runs on the     *)
(* main thread, but what MediaPlayer and AudioManager report waits in the  *)
(* thread's queue while the user goes on.                                  *)
(*                                                                         *)
(* Positions matter only as equal or not.  Left out: volumes, metadata,    *)
(* the foreground service, a search before the catalog has been loaded,    *)
(* and failures to abandon the focus.                                      *)
(***************************************************************************)
EXTENDS Integers, Sequences

CONSTANTS
  Item,       \* tracks
  Position,   \* positions in a track, 0 is its beginning
  MaxCalls,   \* bound: requests of the user and of MusicService
  MaxFocus    \* bound: changes of the audio focus

ASSUME PlaybackAssumption ==
  /\ 0 \in Position
  /\ MaxCalls \in Nat /\ MaxFocus \in Nat

CONSTANT NULL
ASSUME NullAssumption == NULL \notin Item

VARIABLES
  \* LocalPlayback
  mState, mPlayOnFocusGain, mCurrentPosition, mCurrentMediaId, mAudioFocus,
  mWifiLock,                      \* isHeld()
  mAudioNoisyReceiverRegistered,
  crashed,                        \* the exception that ended the program, if any
  \* MediaPlayer, and where the system sees the audio focus
  player,       \* state of mMediaPlayer, "none" for null
  seeking,      \* it is seeking
  position,     \* its position, unless it is started
  source,       \* the track it was given
  systemFocus,  \* what the system grants: nothing, or all, or for now less
  listening,    \* whether AudioManager passes changes on
  messages,     \* queue of the main thread
  \* history
  calls, changes,
  settled,      \* the last request was a pause, found the player playing and no resumption due
  disturbed     \* the player was paused or lost the focus while a seek was under way

playbackVars == <<mState, mPlayOnFocusGain, mCurrentPosition, mWifiLock, crashed>>
playerVars == <<player, seeking, position, source>>
focusVars == <<mAudioFocus, systemFocus, listening>>
vars == <<playbackVars, playerVars, focusVars, mCurrentMediaId, mAudioNoisyReceiverRegistered,
          messages, calls, changes, settled, disturbed>>

NoFocus == "AUDIO_NO_FOCUS_NO_DUCK"
CanDuck == "AUDIO_NO_FOCUS_CAN_DUCK"
Focused == "AUDIO_FOCUSED"

FromPlayer == {"prepared", "seeked", "completed", "error"}
FromFocus == {"gain", "loss", "transient", "duck"}

\* MediaPlayer throws an IllegalStateException in any other state.
MayStart == {"prepared", "started", "paused", "completed"}

\* A new instance, or one that switchToPlayer has just set up.
Init ==
  /\ mState = "NONE" /\ mPlayOnFocusGain = FALSE /\ mAudioFocus = NoFocus
  /\ mCurrentPosition \in Position /\ mCurrentMediaId \in Item \cup {NULL}
  /\ mWifiLock = FALSE /\ mAudioNoisyReceiverRegistered = FALSE /\ crashed = "no"
  /\ player = "none" /\ seeking = FALSE /\ position = 0 /\ source = NULL
  /\ systemFocus = "none" /\ listening = FALSE /\ messages = <<>>
  /\ calls = 0 /\ changes = 0 /\ settled = FALSE /\ disturbed = FALSE
-----------------------------------------------------------------------------
(* Parts of the handlers.                                                  *)

isPlaying == mPlayOnFocusGain \/ player = "started"

SeekUnderWay == seeking \/ \E i \in DOMAIN messages : messages[i] = "seeked"

\* reset() of MediaPlayer: what it was about to report is void.
Forgotten(queue) ==
  [i \in DOMAIN queue |-> IF queue[i] \in FromPlayer THEN "void" ELSE queue[i]]

tryToGetAudioFocus ==
  \/ mAudioFocus = Focused /\ UNCHANGED focusVars
  \/ mAudioFocus # Focused /\ mAudioFocus' = Focused /\ systemFocus' = "owner" /\ listening' = TRUE
  \/ mAudioFocus # Focused /\ UNCHANGED focusVars

\* Only a focus that is held in full is given up.
giveUpAudioFocus ==
  IF mAudioFocus = Focused
  THEN mAudioFocus' = NoFocus /\ systemFocus' = "none" /\ listening' = FALSE
  ELSE UNCHANGED focusVars

\* mMediaPlayer.start(), after which the playback counts as playing.
StartPlayer ==
  \/ /\ player \in MayStart
     /\ player' = "started" /\ mState' = "PLAYING"
     /\ UNCHANGED crashed
  \/ /\ player \notin MayStart
     /\ crashed' = "start"
     /\ UNCHANGED <<player, mState>>

\* mMediaPlayer.seekTo(to), after which the state is the given one.
SeekPlayer(to, state) ==
  \/ /\ player \in MayStart
     /\ seeking' = TRUE /\ position' = to /\ mState' = state
     /\ UNCHANGED crashed
  \/ /\ player \notin MayStart
     /\ crashed' = "seek"
     /\ UNCHANGED <<seeking, position, mState>>

\* What pause() does in STATE_PLAYING, apart from the focus.
PausePlayer ==
  /\ \/ /\ player = "started" /\ player' = "paused"
        /\ position' \in Position /\ mCurrentPosition' = position'
     \/ player # "started" /\ UNCHANGED <<player, position, mCurrentPosition>>
  /\ mWifiLock' = FALSE

\* configMediaPlayerState
ConfigMediaPlayerState(focus, resume) ==
  \/ /\ focus = NoFocus /\ mState = "PLAYING"
     /\ PausePlayer /\ mState' = "PAUSED" /\ mPlayOnFocusGain' = resume
     /\ UNCHANGED <<seeking, crashed>>
  \/ /\ focus = NoFocus /\ mState # "PLAYING"
     /\ mPlayOnFocusGain' = resume
     /\ UNCHANGED <<mState, mCurrentPosition, mWifiLock, crashed, player, seeking, position>>
  \/ /\ focus = CanDuck /\ player = "none"      \* setVolume of a player that is null
     /\ crashed' = "null" /\ mPlayOnFocusGain' = resume
     /\ UNCHANGED <<mState, mCurrentPosition, mWifiLock, player, seeking, position>>
  \/ /\ focus # NoFocus /\ (focus = CanDuck => player # "none")
     /\ mPlayOnFocusGain' = FALSE /\ UNCHANGED mWifiLock
     /\ IF resume /\ player \notin {"none", "started"}
        THEN \/ /\ mCurrentPosition = position /\ StartPlayer
                /\ UNCHANGED <<seeking, position, mCurrentPosition>>
             \/ /\ mCurrentPosition # position /\ SeekPlayer(mCurrentPosition, "BUFFERING")
                /\ UNCHANGED <<player, mCurrentPosition>>
        ELSE UNCHANGED <<mState, mCurrentPosition, crashed, player, seeking, position>>

\* The branch of play() that prepares the player anew; the source may be unusable.
Prepare(item, queue) ==
  /\ seeking' = FALSE /\ position' = 0 /\ messages' = Forgotten(queue) /\ disturbed' = FALSE
  /\ mState' = "BUFFERING" /\ mPlayOnFocusGain' = TRUE
  /\ mCurrentPosition' = IF item = mCurrentMediaId THEN mCurrentPosition ELSE 0
  /\ \/ player' = "preparing" /\ source' = item /\ mWifiLock' = TRUE
     \/ player' = "idle" /\ source' = NULL /\ mWifiLock' = FALSE
  /\ UNCHANGED crashed

\* Whether play() goes on with a player that was paused.
Resumes(item, state) == state = "PAUSED" /\ item = mCurrentMediaId /\ player # "none"

\* play(), called in the given state with this queue.
Play(item, state, queue) ==
  /\ tryToGetAudioFocus
  /\ mAudioNoisyReceiverRegistered' = TRUE
  /\ mCurrentMediaId' = item
  /\ IF Resumes(item, state)
     THEN /\ ConfigMediaPlayerState(mAudioFocus', TRUE)
          /\ messages' = queue /\ UNCHANGED <<source, disturbed>>
     ELSE Prepare(item, queue)
  /\ settled' = FALSE

\* pause()
Pause(queue) ==
  /\ IF mState = "PLAYING"
     THEN PausePlayer /\ giveUpAudioFocus
     ELSE UNCHANGED <<player, position, mCurrentPosition, mWifiLock, focusVars>>
  /\ mState' = "PAUSED" /\ mAudioNoisyReceiverRegistered' = FALSE
  /\ settled' = (mState = "PLAYING" /\ ~mPlayOnFocusGain)
  /\ disturbed' = (disturbed \/ (mState = "BUFFERING" /\ SeekUnderWay))
  /\ messages' = queue
  /\ UNCHANGED <<mPlayOnFocusGain, crashed, seeking, source, mCurrentMediaId>>

ReleasePlayer(queue) ==
  /\ player' = "none" /\ seeking' = FALSE /\ position' = 0 /\ source' = NULL
  /\ messages' = Forgotten(queue)

\* stop()
Stop(queue) ==
  /\ mState' = "STOPPED"
  /\ mCurrentPosition' \in IF player = "started" THEN Position
                           ELSE {IF player = "none" THEN mCurrentPosition ELSE position}
  /\ giveUpAudioFocus
  /\ mAudioNoisyReceiverRegistered' = FALSE /\ mWifiLock' = FALSE
  /\ ReleasePlayer(queue)
  /\ settled' = FALSE /\ disturbed' = FALSE
  /\ UNCHANGED <<mPlayOnFocusGain, crashed, mCurrentMediaId>>
-----------------------------------------------------------------------------
(* Requests of the user, by way of MusicService.                           *)

Call == crashed = "no" /\ calls < MaxCalls /\ calls' = calls + 1

PlayItem(item) == Call /\ Play(item, mState, messages) /\ UNCHANGED changes

\* onPlayFromSearch sets STATE_CONNECTING first.
PlayFromSearch(item) == Call /\ Play(item, "CONNECTING", messages) /\ UNCHANGED changes

UserPauses == Call /\ Pause(messages) /\ UNCHANGED changes

UserStops == Call /\ Stop(messages) /\ UNCHANGED changes

SeekTo(to) ==
  /\ Call
  /\ IF player = "none"
     THEN mCurrentPosition' = to /\ UNCHANGED <<mState, crashed, seeking, position>>
     ELSE /\ SeekPlayer(to, IF player = "started" THEN "BUFFERING" ELSE mState)
          /\ UNCHANGED mCurrentPosition
  /\ disturbed' = (disturbed \/ (mState = "BUFFERING" /\ mAudioFocus = NoFocus))
  /\ UNCHANGED <<mPlayOnFocusGain, mWifiLock, player, source, focusVars, mCurrentMediaId,
                 mAudioNoisyReceiverRegistered, messages, changes, settled>>

\* Headphones are unplugged: mAudioNoisyReceiver sends MusicService a command.
BecomesNoisy ==
  /\ Call /\ mAudioNoisyReceiverRegistered /\ isPlaying
  /\ messages' = Append(messages, "pause")
  /\ UNCHANGED <<playbackVars, playerVars, focusVars, mCurrentMediaId,
                 mAudioNoisyReceiverRegistered, changes, settled, disturbed>>
-----------------------------------------------------------------------------
(* MediaPlayer and the audio focus, in the background.                     *)

PlayerReports(m) ==
  /\ crashed = "no" /\ messages' = Append(messages, m)
  /\ UNCHANGED <<playbackVars, focusVars, mCurrentMediaId, mAudioNoisyReceiverRegistered,
                 changes, settled, disturbed, source>>

PreparationEnds ==
  /\ player = "preparing"
  /\ \/ player' = "prepared" /\ PlayerReports("prepared")
     \/ player' = "error" /\ PlayerReports("error")
  /\ UNCHANGED <<seeking, position, calls>>

SeekEnds ==
  /\ seeking /\ seeking' = FALSE /\ PlayerReports("seeked")
  /\ UNCHANGED <<player, position, calls>>

\* MusicService will ask for the next track: this counts as a request.
TrackEnds ==
  /\ player = "started" /\ player' = "completed" /\ PlayerReports("completed")
  /\ calls < MaxCalls /\ calls' = calls + 1
  /\ position' \in Position /\ UNCHANGED seeking

PlayerFails ==
  /\ player \in MayStart /\ player' = "error" /\ PlayerReports("error")
  /\ seeking' = FALSE /\ UNCHANGED <<position, calls>>

FocusChanges(m) ==
  /\ crashed = "no" /\ changes < MaxFocus /\ changes' = changes + 1
  /\ \/ m = "loss" /\ systemFocus # "none" /\ systemFocus' = "none"
     \/ m \in {"transient", "duck"} /\ systemFocus = "owner" /\ systemFocus' = m
     \/ m = "gain" /\ systemFocus \in {"transient", "duck"} /\ systemFocus' = "owner"
  /\ messages' = Append(messages, m)
  /\ UNCHANGED <<playbackVars, playerVars, mAudioFocus, listening, mCurrentMediaId,
                 mAudioNoisyReceiverRegistered, calls, settled, disturbed>>
-----------------------------------------------------------------------------
(* The main thread takes the next message.                                 *)

Takes(m) == crashed = "no" /\ messages # <<>> /\ Head(messages) = m

\* Whether configMediaPlayerState pauses, which unregisters the receiver.
Registered(focus) ==
  mAudioNoisyReceiverRegistered /\ ~(focus = NoFocus /\ mState = "PLAYING")

\* Mutated form: relies on the focus play() has asked for.
OnPreparedTrusting ==
  /\ Takes("prepared") /\ messages' = Tail(messages)
  /\ ConfigMediaPlayerState(Focused, mPlayOnFocusGain)
  /\ mAudioNoisyReceiverRegistered' = Registered(Focused)
  /\ UNCHANGED <<source, focusVars, mCurrentMediaId, calls, changes, settled, disturbed>>

OnPrepared ==
  /\ Takes("prepared") /\ messages' = Tail(messages)
  /\ ConfigMediaPlayerState(mAudioFocus, mPlayOnFocusGain)
  /\ mAudioNoisyReceiverRegistered' = Registered(mAudioFocus)
  /\ UNCHANGED <<source, focusVars, mCurrentMediaId, calls, changes, settled, disturbed>>

\* Mutated form: starts whatever the state.
OnSeekCompleteAnyState ==
  /\ Takes("seeked") /\ messages' = Tail(messages)
  /\ mCurrentPosition' \in IF player = "started" THEN Position ELSE {position}
  /\ StartPlayer
  /\ UNCHANGED <<mPlayOnFocusGain, mWifiLock, seeking, position, source, focusVars,
                 mCurrentMediaId, mAudioNoisyReceiverRegistered, calls, changes, settled, disturbed>>

\* Mutated form: takes the position but does not start.
OnSeekCompletePosition ==
  /\ Takes("seeked") /\ messages' = Tail(messages)
  /\ mCurrentPosition' \in IF player = "started" THEN Position ELSE {position}
  /\ UNCHANGED <<mState, player, crashed>>
  /\ UNCHANGED <<mPlayOnFocusGain, mWifiLock, seeking, position, source, focusVars,
                 mCurrentMediaId, mAudioNoisyReceiverRegistered, calls, changes, settled, disturbed>>

OnSeekComplete ==
  /\ Takes("seeked") /\ messages' = Tail(messages)
  /\ mCurrentPosition' \in IF player = "started" THEN Position ELSE {position}
  /\ IF mState = "BUFFERING" THEN StartPlayer ELSE UNCHANGED <<mState, player, crashed>>
  /\ UNCHANGED <<mPlayOnFocusGain, mWifiLock, seeking, position, source, focusVars,
                 mCurrentMediaId, mAudioNoisyReceiverRegistered, calls, changes, settled, disturbed>>

\* MusicService plays the next track of its queue, or stops if it has none.
OnCompletion ==
  /\ Takes("completed")
  /\ (\E item \in Item : Play(item, mState, Tail(messages))) \/ Stop(Tail(messages))
  /\ UNCHANGED <<calls, changes>>

\* onError only tells the user.
OnError ==
  /\ Takes("error") \/ Takes("void")
  /\ messages' = Tail(messages)
  /\ UNCHANGED <<playbackVars, playerVars, focusVars, mCurrentMediaId,
                 mAudioNoisyReceiverRegistered, calls, changes, settled, disturbed>>

\* CMD_PAUSE of MusicService.onStartCommand.
OnPauseCommand ==
  /\ Takes("pause")
  /\ \/ isPlaying /\ Pause(Tail(messages))
     \/ /\ ~isPlaying /\ messages' = Tail(messages)
        /\ UNCHANGED <<playbackVars, playerVars, focusVars, mCurrentMediaId,
                       mAudioNoisyReceiverRegistered, settled, disturbed>>
  /\ UNCHANGED <<calls, changes>>

FocusAfter(m) ==
  CASE m = "gain" -> Focused
    [] m = "duck" -> CanDuck
    [] OTHER -> NoFocus

OnAudioFocusChange(m) ==
  /\ Takes(m) /\ messages' = Tail(messages)
  /\ IF listening
     THEN LET focus == FocusAfter(m)
              resume == mPlayOnFocusGain \/ (mState = "PLAYING" /\ focus = NoFocus) IN
          /\ mAudioFocus' = focus
          /\ ConfigMediaPlayerState(focus, resume)
          /\ mAudioNoisyReceiverRegistered' = Registered(focus)
          /\ disturbed' = (disturbed \/ (focus = NoFocus /\ mState = "BUFFERING" /\ SeekUnderWay))
     ELSE UNCHANGED <<playbackVars, player, seeking, position, mAudioFocus,
                      mAudioNoisyReceiverRegistered, disturbed>>
  /\ UNCHANGED <<source, systemFocus, listening, mCurrentMediaId, calls, changes, settled>>

User ==
  \/ \E item \in Item : PlayItem(item) \/ PlayFromSearch(item)
  \/ \E to \in Position : SeekTo(to)
  \/ UserPauses \/ UserStops \/ BecomesNoisy

MediaPlayer == PreparationEnds \/ SeekEnds

MainThread ==
  \/ OnPrepared \/ OnSeekComplete \/ OnCompletion \/ OnError \/ OnPauseCommand
  \/ \E m \in FromFocus : OnAudioFocusChange(m)

Next ==
  \/ User \/ MediaPlayer \/ MainThread
  \/ TrackEnds \/ PlayerFails
  \/ \E m \in FromFocus : FocusChanges(m)

(* MediaPlayer ends what it has begun, and the main thread works off its   *)
(* queue.  That a track ends, or that the focus returns, is not assumed.   *)
Fairness == WF_vars(PreparationEnds) /\ WF_vars(SeekEnds) /\ WF_vars(MainThread)

Spec == Init /\ [][Next]_vars /\ Fairness
-----------------------------------------------------------------------------
(* Properties.                                                             *)

TypeOK ==
  /\ mState \in {"NONE", "STOPPED", "BUFFERING", "PLAYING", "PAUSED"}
  /\ mCurrentPosition \in Position /\ mCurrentMediaId \in Item \cup {NULL}
  /\ mAudioFocus \in {NoFocus, CanDuck, Focused}
  /\ {mPlayOnFocusGain, mWifiLock, mAudioNoisyReceiverRegistered, listening, settled, disturbed}
       \subseteq BOOLEAN
  /\ crashed \in {"no", "start", "seek", "null"}
  /\ player \in MayStart \cup {"none", "idle", "preparing", "error"}
  /\ seeking \in BOOLEAN /\ (seeking => player \in MayStart)
  /\ position \in Position /\ source \in Item \cup {NULL}
  /\ systemFocus \in {"none", "owner", "transient", "duck"}
  /\ messages \in Seq(FromPlayer \cup FromFocus \cup {"pause", "void"})
  /\ calls \in 0 .. MaxCalls /\ changes \in 0 .. MaxFocus

(* Lines 292 to 297, "respecting the current audio focus state": whatever  *)
(* is heard has the focus, at least in part, and is in a state in which    *)
(* the user can pause it.  A pause and a loss of the focus take no notice  *)
(* of a player that is seeking, and the end of a seek none of the focus.   *)
PlaysWithFocus ==
  player = "started" /\ ~disturbed =>
    mAudioFocus # NoFocus /\ mState \in {"PLAYING", "BUFFERING"}

(* Who pauses while the track is playing and nothing is to be resumed, is  *)
(* not played to before the next request, whatever was under way.          *)
PauseHolds == settled => player # "started"

(* The player has the track the service takes for the current one.         *)
PlaysCurrentItem == source \in {mCurrentMediaId, NULL}

(* Lines 116 to 123: a playback that is stopped has given back the player, *)
(* the WiFi lock and the receiver, and nothing that was under way wakes it.*)
StoppedHoldsNothing ==
  mState \in {"NONE", "STOPPED"} =>
    player = "none" /\ ~mWifiLock /\ ~mAudioNoisyReceiverRegistered

(* What the service has asked for last, it has got: a pause lasts, the     *)
(* player has the track that was asked for, and after a stop it has none   *)
(* (stop, play and pause, lines 110 to 225), whatever message of the player *)
(* or about the focus was under way.                                       *)
RequestsHold == PauseHolds /\ PlaysCurrentItem /\ StoppedHoldsNothing

(* Buffering comes to an end, by itself if need be, unless the player      *)
(* fails or the focus is missing.                                          *)
BufferingEnds ==
  mState = "BUFFERING" ~>
    \/ mState # "BUFFERING" \/ mAudioFocus = NoFocus
    \/ player \in {"idle", "error"} \/ crashed # "no"
=============================================================================
