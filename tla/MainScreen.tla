----------------------------- MODULE MainScreen -----------------------------
(***************************************************************************)
(* The browsing screen: BaseActivity with its PlaybackControlsFragment,    *)
(* and MusicPlayerActivity with the MediaBrowserFragment it shows.  The    *)
(* system starts, stops and recreates the activity; between them it        *)
(* connects to MusicService, each time with another MediaController.       *)
(*                                                                         *)
(* All of it is on the main thread.  What changes in the media session     *)
(* reaches the callbacks as messages, in order; a callback that is         *)
(* unregistered gets none of those still on their way.  Callbacks are      *)
(* registered with one controller and count once there.  MusicService      *)
(* lives on while the activity is stopped, as it does while it plays.      *)
(***************************************************************************)
EXTENDS Integers, Sequences, SequencesExt, FiniteSets

CONSTANTS
  Parent,      \* MediaIDHelper.getParentMediaID: function on the ids below ROOT
  ROOT, NONE,
  Tracks,
  MaxStarts,   \* bound: how often the activity is started
  MaxChanges   \* bound: how often the session changes

VARIABLES
  session,     \* [state, track]: PlaybackState and MediaMetadata, NONE for null
  changes,
  online,
  messages,    \* to callbacks, on their way in the main thread
  activity,    \* "none", "stopped" or "started"
  starts,
  controller,  \* number of getMediaController(), 0 for null
  registered,  \* pairs of a callback and the controller it is registered with
  browser,     \* MediaBrowser: "off", "connecting" or "connected"
  controls,    \* the controls: whether they are visible and what they show
  missed,      \* history: they were not shown because the network was down
  voice,       \* mVoiceSearchParams
  intent,      \* "play" or "search", what the activity was started with
  fragments,   \* ids of the MediaBrowserFragments, the shown one last
  pending,     \* the transaction that was committed but not executed
  loaded,      \* whether the list of the shown one is filled
  subs,        \* mSubscriptions: whose callback an id has, "list" or "title"
  loads        \* ids whose children the service is asked for

screenVars == <<activity, starts, controller, registered, browser>>
controlVars == <<controls, missed>>
sessionVars == <<session, changes, online>>
intentVars == <<voice, intent>>
listVars == <<fragments, pending, loaded, subs, loads>>
vars == <<sessionVars, messages, screenVars, controlVars, intentVars, listVars>>

States == {"none", "stopped", "playing", "paused", "error"}
Ids == DOMAIN Parent \cup {ROOT}
Top == Last(fragments)

Init ==
  /\ session = [state |-> "none", track |-> NONE] /\ changes = 0 /\ online = TRUE
  /\ messages = <<>>
  /\ activity = "none" /\ starts = 0 /\ controller = 0 /\ registered = {} /\ browser = "off"
  /\ controls = [visible |-> FALSE, track |-> NONE, enablePlay |-> FALSE] /\ missed = FALSE
  /\ voice = FALSE /\ intent \in {"play", "search"}
  /\ fragments = <<ROOT>> /\ pending = NONE /\ loaded = FALSE /\ subs = <<>> /\ loads = {}
-----------------------------------------------------------------------------
(* The media session.                                                      *)

\* A message for every registration, in whatever order they were made.
Told(news) ==
  messages \o [i \in 1 .. Cardinality(registered) |->
                 [to |-> SetToSeq(registered)[i], news |-> news]]

ChangeState(s) ==
  /\ changes < MaxChanges /\ s # session.state
  /\ session' = [session EXCEPT !.state = s] /\ changes' = changes + 1
  /\ messages' = Told([state |-> s])
  /\ UNCHANGED <<online, screenVars, controlVars, intentVars, listVars>>

ChangeTrack(t) ==
  /\ changes < MaxChanges /\ t # session.track
  /\ session' = [session EXCEPT !.track = t] /\ changes' = changes + 1
  /\ messages' = Told([track |-> t])
  /\ UNCHANGED <<online, screenVars, controlVars, intentVars, listVars>>

NetworkChanges ==
  /\ changes < MaxChanges /\ changes' = changes + 1
  /\ online' = ~online
  /\ UNCHANGED <<session, messages, screenVars, controlVars, intentVars, listVars>>
-----------------------------------------------------------------------------
(* The controls.                                                           *)

shouldShowControls ==
  session.track # NONE /\ session.state \notin {"error", "none", "stopped"}

\* showPlaybackControls or hidePlaybackControls
Shown(c) ==
  [c EXCEPT !.visible = IF ~shouldShowControls THEN FALSE ELSE online \/ @]

Missed == shouldShowControls /\ ~online /\ ~controls.visible

onMetadataChanged(c, track) == IF track = NONE THEN c ELSE [c EXCEPT !.track = track]
onPlaybackStateChanged(c, state) == [c EXCEPT !.enablePlay = state \in {"paused", "stopped"}]

\* PlaybackControlsFragment.onConnected
Updated(c) == onPlaybackStateChanged(onMetadataChanged(c, session.track), session.state)

\* One message is handled; the list is only drawn anew.
Handle ==
  /\ messages # <<>>
  /\ messages' = Tail(messages)
  /\ LET to == Head(messages).to[1]
         news == Head(messages).news
     IN CASE to = "activity" ->
               controls' = Shown(controls) /\ missed' = Missed
          [] to = "controls" ->
               /\ controls' = IF "track" \in DOMAIN news
                              THEN onMetadataChanged(controls, news.track)
                              ELSE onPlaybackStateChanged(controls, news.state)
               /\ UNCHANGED missed
          [] to = "list" -> UNCHANGED controlVars
  /\ UNCHANGED <<sessionVars, screenVars, intentVars, listVars>>

\* The numbers of a finite set, in order.
InOrder(S) == [k \in 1 .. Cardinality(S) |-> CHOOSE i \in S : Cardinality({j \in S : j <= i}) = k]

\* unregisterCallback of some callbacks, with the current controller
Unregister(callbacks) ==
  LET gone == callbacks \X {controller}
      kept == InOrder({i \in 1 .. Len(messages) : messages[i].to \notin gone})
  IN /\ registered' = registered \ gone
     /\ messages' = [k \in 1 .. Len(kept) |-> messages[kept[k]]]
-----------------------------------------------------------------------------
(* The list.                                                               *)

\* What MediaBrowser has subscribed, after a fragment with this id connected:
\* its parent for the title, itself for the list.
Subscribed(id) ==
  [i \in DOMAIN subs \cup {id} \cup (IF id = ROOT THEN {} ELSE {Parent[id]}) |->
     IF i = id THEN "list" ELSE IF id # ROOT /\ i = Parent[id] THEN "title" ELSE subs[i]]

Asked(id) == {id} \cup (IF id = ROOT THEN {} ELSE {Parent[id]})

Unsubscribed(id) == [i \in DOMAIN subs \ {id} |-> subs[i]]

\* A transaction replaces the shown fragment by one with this id, or goes back to
\* the one before: the old one is stopped, then the new one is started.
Open(id) ==
  /\ activity = "started" /\ loaded /\ pending = NONE
  /\ Parent[id] = Top
  /\ pending' = id
  /\ UNCHANGED <<sessionVars, messages, screenVars, controlVars, intentVars, fragments, loaded, subs, loads>>

Back ==
  /\ activity = "started" /\ pending = NONE /\ Len(fragments) > 1
  /\ pending' = "back"
  /\ UNCHANGED <<sessionVars, messages, screenVars, controlVars, intentVars, fragments, loaded, subs, loads>>

\* onStop of the shown fragment and onStart of the other one, which connects at once when it can.
StartedFragment(id) ==
  IF browser = "connected"
  THEN /\ subs' = [i \in (DOMAIN Subscribed(id) \ {Top}) \cup Asked(id) |-> Subscribed(id)[i]]
       /\ loads' = loads \cup Asked(id)
       /\ registered' = registered \cup {<<"list", controller>>}
  ELSE UNCHANGED <<subs, loads, registered>>

Execute ==
  /\ pending # NONE /\ activity # "none"
  /\ fragments' = IF pending = "back" THEN Front(fragments) ELSE Append(fragments, pending)
  /\ pending' = NONE /\ loaded' = FALSE
  /\ IF activity = "started"
     THEN StartedFragment(Last(fragments'))
     ELSE UNCHANGED <<subs, loads, registered>>
  /\ UNCHANGED <<sessionVars, messages, activity, starts, controller, browser, controlVars, intentVars>>

\* onChildrenLoaded.  The title's callback keeps its subscription when it finds the title.
Load(id, found) ==
  /\ id \in loads /\ loads' = loads \ {id}
  /\ loaded' = (loaded \/ (id = Top /\ id \in DOMAIN subs /\ subs[id] = "list"))
  /\ subs' = IF id \in DOMAIN subs /\ subs[id] = "title" /\ ~found THEN Unsubscribed(id) ELSE subs
  /\ UNCHANGED <<sessionVars, messages, screenVars, controlVars, intentVars, fragments, pending>>
-----------------------------------------------------------------------------
(* The life of the activity.                                               *)

\* A recreated activity finds its fragments again, and the intent.
onCreate ==
  /\ activity = "none" /\ starts < MaxStarts
  /\ activity' = "stopped" /\ voice' = (intent = "search")
  /\ controls' = [visible |-> FALSE, track |-> NONE, enablePlay |-> FALSE] /\ missed' = FALSE
  /\ loaded' = FALSE
  /\ UNCHANGED <<sessionVars, messages, starts, controller, registered, browser, intent,
                 fragments, pending, subs, loads>>

\* BaseActivity.onStart, then those of the fragments: the controls connect to
\* the controller of the time before, if there is one.
onStart ==
  /\ activity = "stopped" /\ starts < MaxStarts
  /\ activity' = "started" /\ starts' = starts + 1 /\ browser' = "connecting"
  /\ LET hidden == [controls EXCEPT !.visible = FALSE]
     IN IF controller = 0
        THEN controls' = hidden /\ UNCHANGED registered
        ELSE controls' = Updated(hidden) /\ registered' = registered \cup {<<"controls", controller>>}
  /\ UNCHANGED <<sessionVars, messages, controller, missed, intentVars, listVars>>

\* Mutated form: the controls keep what the old controller told them.
ConnectedControlsOnce ==
  /\ controls' = Shown(controls)
  /\ registered' = registered \cup ({"activity", "list"} \X {controller'})

\* Callbacks are registered with the new controller, and what it says is shown.
ConnectedControls ==
  /\ controls' = Updated(Shown(controls))
  /\ registered' = registered \cup ({"activity", "controls", "list"} \X {controller'})

\* connectToSession and MusicPlayerActivity.onMediaControllerConnected; the
\* browser then subscribes again to what was subscribed.
onConnected ==
  /\ browser = "connecting" /\ browser' = "connected"
  /\ controller' = controller + 1
  /\ ConnectedControls /\ missed' = Missed
  /\ voice' = FALSE
  /\ subs' = Subscribed(Top) /\ loads' = DOMAIN subs'
  /\ UNCHANGED <<sessionVars, messages, activity, starts, intent, fragments, pending, loaded>>

UnregisterAll == Unregister({"activity", "controls", "list"})

\* The fragments are stopped, then the activity: what was registered with an
\* earlier controller stays registered.
onStop ==
  /\ activity = "started" /\ activity' = "stopped"
  /\ UnregisterAll
  /\ browser' = "off" /\ loads' = {}
  /\ subs' = IF browser = "connected" THEN Unsubscribed(Top) ELSE subs
  /\ UNCHANGED <<sessionVars, starts, controller, controlVars, intentVars, fragments, pending, loaded>>

\* What is still registered has no activity any more, and does nothing.
onDestroy ==
  /\ activity = "stopped" /\ pending = NONE
  /\ intent = "search" => Len(fragments) = 1  \* restriction: otherwise it would open the root again
  /\ activity' = "none" /\ controller' = 0 /\ registered' = {} /\ messages' = <<>> /\ subs' = <<>>
  /\ UNCHANGED <<sessionVars, starts, browser, controlVars, intentVars, fragments, pending, loaded, loads>>

Next ==
  \/ \E s \in States : ChangeState(s)
  \/ \E t \in Tracks : ChangeTrack(t)
  \/ NetworkChanges
  \/ Handle
  \/ \E id \in DOMAIN Parent : Open(id)
  \/ Back
  \/ Execute
  \/ \E id \in Ids, found \in BOOLEAN : Load(id, found)
  \/ onCreate \/ onStart \/ onConnected \/ onStop \/ onDestroy
-----------------------------------------------------------------------------
(* Properties.                                                             *)

\* Once all messages are handled, a connected screen shows the session: the
\* track, the right button, and the controls just when there is something to
\* control (or they could not be shown, without network), whichever controllers
\* the messages have come through and however often it was stopped.
ShowsSession ==
  activity = "started" /\ browser = "connected" /\ messages = <<>> =>
    /\ session.track # NONE => controls.track = session.track
    /\ controls.enablePlay = (session.state \in {"paused", "stopped"})
    /\ controls.visible = (shouldShowControls /\ ~missed)

\* The callback that commits transactions is never registered while the
\* activity is stopped: a commit would throw.
NoCommitAfterStop == activity = "stopped" => \A r \in registered : r[1] # "activity"

\* Whether a list is opened, gone back to or returned to, before the browser
\* is connected or after, and whatever subscriptions for titles there are: it
\* is filled or being loaded.
ListLoads ==
  activity = "started" /\ browser = "connected" /\ pending = NONE =>
    /\ Top \in DOMAIN subs /\ subs[Top] = "list"
    /\ loaded \/ Top \in loads
=============================================================================
