---------------------------- MODULE PlayerScreen ----------------------------
(***************************************************************************)
(* FullScreenPlayerActivity: what is playing, with its picture, and a seek *)
(* bar that a scheduled task moves.  All but the fetching of pictures is   *)
(* on the main thread: changes of the media session come as messages, in   *)
(* order, and what the user asks for goes to MusicService as commands.     *)
(*                                                                         *)
(* Positions are left out: the seek bar moves as long as the task is       *)
(* scheduled.  A picture may be in the cache at any time, or not.          *)
(***************************************************************************)
EXTENDS Integers, Sequences

CONSTANTS
  Art,         \* the icon URI of each track, NONE when it has none
  NONE,
  MaxChanges,  \* bound: how often session or commands change
  MaxStarts    \* bound

VARIABLES
  session,         \* [state, track] of the media session
  changes,
  messages, commands,
  activity,        \* "none", "stopped" or "started"
  starts,
  browser,         \* "off", "connecting", "connected", or "finishing" for good
  registered,      \* mCallback, with the current controller
  shown,           \* the state and the track the screen shows
  scheduled,       \* mScheduleFuture is there and not cancelled
  tracking,        \* the user holds the seek bar
  mCurrentArtUrl,
  picture,         \* whose picture is shown
  fetches,         \* URIs that are being fetched for this screen
  failed           \* history: so was the current one, in vain

artVars == <<mCurrentArtUrl, picture, fetches, failed>>
lifeVars == <<activity, starts, browser, registered>>
barVars == <<scheduled, tracking>>
vars == <<session, changes, messages, commands, lifeVars, shown, barVars, artVars>>

States == {"none", "stopped", "playing", "paused", "buffering", "connecting"}
Tracks == DOMAIN Art
Blank == [state |-> "none", track |-> NONE]

Init ==
  /\ session \in [state : {"none"}, track : Tracks \cup {NONE}]
  /\ changes = 0 /\ messages = <<>> /\ commands = <<>>
  /\ activity = "none" /\ starts = 0 /\ browser = "off" /\ registered = FALSE
  /\ shown = Blank /\ scheduled = FALSE /\ tracking = FALSE
  /\ mCurrentArtUrl = NONE /\ picture = NONE /\ fetches = {} /\ failed = FALSE
-----------------------------------------------------------------------------
(* Showing.                                                                *)

\* fetchImageAsync, which finds the picture in the cache or not
fetchImageAsync(track, incache) ==
  IF track = NONE \/ Art[track] = NONE THEN UNCHANGED artVars
  ELSE /\ mCurrentArtUrl' = Art[track] /\ failed' = FALSE
       /\ IF incache THEN picture' = Art[track] /\ UNCHANGED fetches
          ELSE fetches' = fetches \cup {Art[track]} /\ UNCHANGED picture

\* updatePlaybackState: whether the seek bar moves after a state was shown
StillScheduled(state) == state = "playing" \/ (state = "connecting" /\ scheduled)

Tell(news) == messages' = IF registered THEN Append(messages, news) ELSE messages

Handle ==
  /\ messages # <<>> /\ messages' = Tail(messages)
  /\ LET news == Head(messages)
     IN IF "track" \in DOMAIN news
        THEN /\ shown' = [shown EXCEPT !.track = news.track]
             /\ \E incache \in BOOLEAN : fetchImageAsync(news.track, incache)
             /\ UNCHANGED scheduled
        ELSE /\ shown' = [shown EXCEPT !.state = news.state]
             /\ scheduled' = StillScheduled(news.state)
             /\ UNCHANGED artVars
  /\ UNCHANGED <<session, changes, commands, lifeVars, tracking>>

\* Mutated form: whatever arrives is shown.
FetchedUnchecked(url) == picture' = url /\ UNCHANGED <<mCurrentArtUrl, failed>>

\* onFetched: only when nothing else is wanted by now
Fetched(url) ==
  picture' = (IF url = mCurrentArtUrl THEN url ELSE picture) /\ UNCHANGED <<mCurrentArtUrl, failed>>

NotFetched(url) ==
  failed' = (failed \/ url = mCurrentArtUrl) /\ UNCHANGED <<mCurrentArtUrl, picture>>

FetchEnds ==
  /\ \E url \in fetches : fetches' = fetches \ {url} /\ (Fetched(url) \/ NotFetched(url))
  /\ UNCHANGED <<session, changes, messages, commands, lifeVars, shown, barVars>>
-----------------------------------------------------------------------------
(* The session and the user.                                               *)

SetState(s) ==
  /\ session' = [session EXCEPT !.state = s]
  /\ IF s = session.state THEN UNCHANGED messages ELSE Tell([state |-> s])

\* MusicService plays, buffers, stops or goes to another track.
SessionChanges ==
  /\ changes < MaxChanges /\ changes' = changes + 1
  /\ \/ \E s \in States : SetState(s)
     \/ \E t \in Tracks : session' = [session EXCEPT !.track = t] /\ Tell([track |-> t])
  /\ UNCHANGED <<commands, lifeVars, shown, barVars, artVars>>

\* It plays from a buffer, and pauses whatever it was doing; seeking alone changes no state.
Obeys ==
  /\ commands # <<>> /\ commands' = Tail(commands)
  /\ CASE Head(commands) = "pause" -> SetState("paused")
       [] Head(commands) = "play" -> SetState("buffering")
       [] Head(commands) = "seek" -> UNCHANGED <<session, messages>>
  /\ UNCHANGED <<changes, lifeVars, shown, barVars, artVars>>

\* The button, by the session's state of now
ClickPlayPause ==
  /\ activity = "started" /\ browser = "connected" /\ changes < MaxChanges /\ changes' = changes + 1
  /\ \/ /\ session.state \in {"playing", "buffering"}
        /\ commands' = Append(commands, "pause") /\ scheduled' = FALSE
     \/ /\ session.state \in {"paused", "stopped"}
        /\ commands' = Append(commands, "play") /\ scheduled' = TRUE
  /\ UNCHANGED <<session, messages, lifeVars, shown, tracking, artVars>>

onStartTrackingTouch ==
  /\ activity = "started" /\ browser = "connected" /\ ~tracking
  /\ tracking' = TRUE /\ scheduled' = FALSE
  /\ UNCHANGED <<session, changes, messages, commands, lifeVars, shown, artVars>>

onStopTrackingTouch ==
  /\ tracking /\ browser = "connected" /\ changes < MaxChanges /\ changes' = changes + 1
  /\ tracking' = FALSE /\ scheduled' = TRUE
  /\ commands' = Append(commands, "seek")
  /\ UNCHANGED <<session, messages, lifeVars, shown, artVars>>
-----------------------------------------------------------------------------
(* The life of the activity.                                               *)

\* The intent may say what was playing when the screen was asked for.
onCreate(described, incache) ==
  /\ activity = "none" /\ starts < MaxStarts /\ activity' = "stopped"
  /\ shown' = [Blank EXCEPT !.track = described]
  /\ fetchImageAsync(described, incache)
  /\ UNCHANGED <<session, changes, messages, commands, starts, browser, registered, barVars>>

onStart ==
  /\ activity = "stopped" /\ browser = "off" /\ starts < MaxStarts
  /\ activity' = "started" /\ starts' = starts + 1 /\ browser' = "connecting"
  /\ UNCHANGED <<session, changes, messages, commands, registered, shown, barVars, artVars>>

\* connectToSession: without a track there is nothing to show.
onConnected(incache) ==
  /\ browser = "connecting"
  /\ IF session.track = NONE
     THEN browser' = "finishing" /\ UNCHANGED <<registered, shown, scheduled, artVars>>
     ELSE /\ browser' = "connected" /\ registered' = TRUE
          /\ shown' = session
          /\ scheduled' = (StillScheduled(session.state) \/ session.state \in {"playing", "buffering"})
          /\ fetchImageAsync(session.track, incache)
  /\ UNCHANGED <<session, changes, messages, commands, activity, starts, tracking>>

\* The task goes on.
onStop ==
  /\ activity = "started" /\ activity' = "stopped"
  /\ browser' = (IF browser = "finishing" THEN browser ELSE "off") /\ registered' = FALSE /\ messages' = <<>> /\ tracking' = FALSE
  /\ UNCHANGED <<session, changes, commands, starts, shown, scheduled, artVars>>

\* Pictures for it that still come are not shown anywhere.
onDestroy ==
  /\ activity = "stopped" /\ activity' = "none"
  /\ scheduled' = FALSE /\ browser' = "off"
  /\ shown' = Blank /\ mCurrentArtUrl' = NONE /\ picture' = NONE /\ fetches' = {} /\ failed' = FALSE
  /\ UNCHANGED <<session, changes, messages, commands, starts, registered, tracking>>

Next ==
  \/ Handle \/ FetchEnds
  \/ SessionChanges \/ Obeys
  \/ ClickPlayPause \/ onStartTrackingTouch \/ onStopTrackingTouch
  \/ \E t \in Tracks \cup {NONE}, incache \in BOOLEAN : onCreate(t, incache)
  \/ \E incache \in BOOLEAN : onConnected(incache)
  \/ onStart \/ onStop \/ onDestroy
-----------------------------------------------------------------------------
(* Properties.                                                             *)

\* At rest the screen shows the session, and its seek bar moves if that
\* plays, unless the user holds it: however clicks, seeking, stops of the
\* screen and messages about earlier states have crossed.
FollowsSession ==
  activity = "started" /\ browser = "connected" /\ messages = <<>> /\ commands = <<>> =>
    /\ shown = session
    /\ session.state = "playing" /\ ~tracking => scheduled

\* In whatever order pictures arrive, the last one asked for stays, if it could
\* be fetched.
PictureIsWanted ==
  mCurrentArtUrl \notin fetches /\ ~failed => picture = mCurrentArtUrl
=============================================================================
