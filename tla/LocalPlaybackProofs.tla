------------------------- MODULE LocalPlaybackProofs --------------------------
(***************************************************************************)
(* For any tracks, positions and numbers of requests and focus changes: a  *)
(* stopped playback holds nothing, an effective pause lasts, the player    *)
(* has the current track, and what is heard has the focus unless the       *)
(* player was disturbed while seeking.                                     *)
(*                                                                         *)
(* The first and the third are inductive.  A pause lasts because nothing   *)
(* is left that could end it: the state is PAUSED and no resumption is     *)
(* due (Held).  That what is heard has the focus depends on why the state  *)
(* is what it is (InStep): PLAYING is only reached with the focus, and a   *)
(* player that is started while BUFFERING is seeking, which is just when a *)
(* pause or a loss of the focus disturbs it.                               *)
(***************************************************************************)
EXTENDS LocalPlayback, TLAPS

Message == FromPlayer \cup FromFocus \cup {"pause", "void"}

Queue == messages \in Seq(Message)

Held ==
  settled => player # "started" /\ mState = "PAUSED" /\ ~mPlayOnFocusGain

InStep ==
  ~disturbed =>
    /\ player = "started" => mState \in {"PLAYING", "BUFFERING"}
    /\ mState = "PLAYING" => mAudioFocus # NoFocus
    /\ mState = "BUFFERING" /\ player = "started" => SeekUnderWay
    /\ mState = "BUFFERING" /\ SeekUnderWay => mAudioFocus # NoFocus

USE DEF playbackVars, playerVars, focusVars, MayStart
-----------------------------------------------------------------------------
(* The queue.                                                              *)

\* The names of messages, for the provers.
LEMMA Names == "seeked" \in FromPlayer /\ "seeked" \in Message /\ "void" # "seeked"
BY DEF FromPlayer, Message

\* Another message at the end leaves a seek under way or not, as it was.
LEMMA AppendKeepsSeek ==
  ASSUME Queue, NEW m, m # "seeked", messages' = Append(messages, m), UNCHANGED seeking
  PROVE  SeekUnderWay' <=> SeekUnderWay
<1>1. /\ DOMAIN messages' = 1 .. Len(messages) + 1
      /\ DOMAIN messages = 1 .. Len(messages) /\ Len(messages) \in Nat
  BY DEF Queue
<1>2. \A i \in 1 .. Len(messages) : messages'[i] = messages[i]
  BY DEF Queue
<1>3. messages'[Len(messages) + 1] = m
  BY DEF Queue
<1>4. QED BY <1>1, <1>2, <1>3 DEF SeekUnderWay

\* So does taking another message from its front.
LEMMA TailKeepsSeek ==
  ASSUME Queue, NEW m, m # "seeked", Takes(m), messages' = Tail(messages), UNCHANGED seeking
  PROVE  SeekUnderWay' <=> SeekUnderWay
<1>1. messages # <<>> /\ messages[1] = m
  BY DEF Takes, Queue
<1>2. /\ DOMAIN messages = 1 .. Len(messages) /\ Len(messages) \in Nat /\ Len(messages) >= 1
      /\ DOMAIN messages' = 1 .. Len(messages) - 1
  BY <1>1 DEF Queue
<1>3. \A i \in 1 .. Len(messages) - 1 : messages'[i] = messages[i + 1]
  BY <1>1 DEF Queue
<1>4. ASSUME NEW i \in 1 .. Len(messages), messages[i] = "seeked"
      PROVE  i - 1 \in 1 .. Len(messages) - 1 /\ messages'[i - 1] = "seeked"
  <2>1. i # 1
    BY <1>1, <1>4
  <2>2. i - 1 \in 1 .. Len(messages) - 1 /\ (i - 1) + 1 = i
    BY <1>2, <2>1
  <2>3. QED BY <1>3, <1>4, <2>2
<1>5. ASSUME NEW i \in 1 .. Len(messages) - 1, messages'[i] = "seeked"
      PROVE  i + 1 \in 1 .. Len(messages) /\ messages[i + 1] = "seeked"
  BY <1>2, <1>3, <1>5
<1>6. QED BY <1>2, <1>4, <1>5 DEF SeekUnderWay

\* After a reset nothing tells of a seek.
LEMMA NoSeekInForgotten ==
  ASSUME NEW queue \in Seq(Message)
  PROVE  /\ Forgotten(queue) \in Seq(Message)
         /\ \A i \in DOMAIN Forgotten(queue) : Forgotten(queue)[i] # "seeked"
<1>1. DOMAIN queue = 1 .. Len(queue) /\ Len(queue) \in Nat
  OBVIOUS
<1>2. \A i \in 1 .. Len(queue) : queue[i] \in Message
  OBVIOUS
<1>3. Forgotten(queue) \in [1 .. Len(queue) -> Message]
  BY <1>1, <1>2 DEF Forgotten, Message
<1>4. Forgotten(queue) \in Seq(Message)
  BY <1>1, <1>3
<1>5. \A i \in DOMAIN Forgotten(queue) : Forgotten(queue)[i] # "seeked"
  BY <1>1, Names DEF Forgotten
<1>6. QED BY <1>4, <1>5

\* What is left of the queue is a queue.
LEMMA TailIsQueue ==
  ASSUME Queue, messages # <<>>
  PROVE  Tail(messages) \in Seq(Message)
BY DEF Queue
-----------------------------------------------------------------------------
(* The steps.                                                              *)

\* A step is of one of these kinds.
LEMMA Kinds ==
  ASSUME [Next]_vars
  PROVE  \/ UNCHANGED vars
         \/ \E item \in Item, state \in {mState, "CONNECTING"} : Play(item, state, messages)
         \/ Pause(messages) \/ Stop(messages)
         \/ \E to \in Position : SeekTo(to)
         \/ BecomesNoisy \/ PreparationEnds \/ SeekEnds \/ TrackEnds \/ PlayerFails
         \/ \E m \in FromFocus : FocusChanges(m) \/ OnAudioFocusChange(m)
         \/ OnPrepared \/ OnSeekComplete \/ OnCompletion \/ OnError \/ OnPauseCommand
BY DEF Next, User, MediaPlayer, MainThread, PlayItem, PlayFromSearch, UserPauses, UserStops

\* The queue stays one.
LEMMA QueueStep == Queue /\ [Next]_vars => Queue'
<1> SUFFICES ASSUME Queue, [Next]_vars PROVE Queue'
  OBVIOUS
<1>1. ASSUME NEW queue \in Seq(Message), NEW item, NEW state, Play(item, state, queue)
      PROVE  Queue'
  BY <1>1, NoSeekInForgotten DEF Queue, Play, Prepare
<1>2. ASSUME NEW queue \in Seq(Message), Pause(queue) PROVE Queue'
  BY <1>2 DEF Queue, Pause
<1>3. ASSUME NEW queue \in Seq(Message), Stop(queue) PROVE Queue'
  BY <1>3, NoSeekInForgotten DEF Queue, Stop, ReleasePlayer
<1>4. ASSUME NEW m \in Message, messages' = Append(messages, m) PROVE Queue'
  BY <1>4 DEF Queue
<1>5. ASSUME NEW m, Takes(m), messages' = Tail(messages) PROVE Queue'
  BY <1>5, TailIsQueue DEF Queue, Takes
<1>6. CASE UNCHANGED messages
  BY <1>6 DEF Queue
<1>7. CASE \/ BecomesNoisy \/ PreparationEnds \/ SeekEnds \/ TrackEnds \/ PlayerFails
           \/ \E m \in FromFocus : FocusChanges(m)
  BY <1>4, <1>7 DEF BecomesNoisy, PreparationEnds, SeekEnds, TrackEnds, PlayerFails,
    PlayerReports, FocusChanges, Message, FromPlayer
<1>8. CASE OnPrepared \/ OnSeekComplete \/ OnError \/ \E m \in FromFocus : OnAudioFocusChange(m)
  BY <1>5, <1>8 DEF OnPrepared, OnSeekComplete, OnError, OnAudioFocusChange
<1>9. CASE OnCompletion \/ OnPauseCommand
  <2>1. messages # <<>>
    BY <1>9 DEF OnCompletion, OnPauseCommand, Takes
  <2>2. Tail(messages) \in Seq(Message)
    BY <2>1, TailIsQueue
  <2>3. CASE OnCompletion
    BY <1>1, <1>3, <2>2, <2>3 DEF OnCompletion
  <2>4. CASE OnPauseCommand
    BY <1>2, <2>2, <2>4 DEF OnPauseCommand, Queue
  <2>5. QED BY <1>9, <2>3, <2>4
<1>10. messages \in Seq(Message)
  BY DEF Queue
<1>11. QED
  BY <1>1, <1>2, <1>3, <1>6, <1>7, <1>8, <1>9, <1>10, Kinds DEF SeekTo, vars
-----------------------------------------------------------------------------
(* A stopped playback holds nothing.                                       *)

LEMMA StoppedStep == StoppedHoldsNothing /\ [Next]_vars => StoppedHoldsNothing'
<1> SUFFICES ASSUME StoppedHoldsNothing, [Next]_vars PROVE StoppedHoldsNothing'
  OBVIOUS
<1>1. ASSUME NEW focus, NEW resume, ConfigMediaPlayerState(focus, resume)
      PROVE  mState' \in {"NONE", "STOPPED"} =>
               mState' = mState /\ player' = player /\ mWifiLock' = mWifiLock
  BY <1>1 DEF ConfigMediaPlayerState, PausePlayer, StartPlayer, SeekPlayer, StoppedHoldsNothing
<1>2. ASSUME NEW queue, NEW item, NEW state \in {mState, "CONNECTING"}, Play(item, state, queue)
      PROVE  StoppedHoldsNothing'
  <2>1. CASE Resumes(item, state)
    <3>1. mState = "PAUSED"
      BY <2>1 DEF Resumes
    <3>2. ConfigMediaPlayerState(mAudioFocus', TRUE)
      BY <1>2, <2>1 DEF Play
    <3>3. QED BY <1>1, <3>1, <3>2 DEF StoppedHoldsNothing
  <2>2. CASE ~Resumes(item, state)
    BY <1>2, <2>2 DEF Play, Prepare, StoppedHoldsNothing
  <2>3. QED BY <2>1, <2>2
<1>3. ASSUME NEW queue, Pause(queue) PROVE StoppedHoldsNothing'
  BY <1>3 DEF Pause, StoppedHoldsNothing
<1>4. ASSUME NEW queue, Stop(queue) PROVE StoppedHoldsNothing'
  BY <1>4 DEF Stop, ReleasePlayer, StoppedHoldsNothing
<1>5. CASE \E to \in Position : SeekTo(to)
  BY <1>5 DEF SeekTo, SeekPlayer, StoppedHoldsNothing
<1>6. CASE \/ UNCHANGED vars \/ BecomesNoisy \/ PreparationEnds \/ SeekEnds \/ TrackEnds
           \/ PlayerFails \/ OnError \/ \E m \in FromFocus : FocusChanges(m)
  BY <1>6 DEF vars, BecomesNoisy, PreparationEnds, SeekEnds, TrackEnds, PlayerFails, OnError,
    PlayerReports, FocusChanges, StoppedHoldsNothing
<1>7. CASE OnPrepared
  BY <1>1, <1>7 DEF OnPrepared, Registered, StoppedHoldsNothing
<1>8. ASSUME NEW m, OnAudioFocusChange(m) PROVE StoppedHoldsNothing'
  BY <1>1, <1>8 DEF OnAudioFocusChange, Registered, StoppedHoldsNothing
<1>9. CASE OnSeekComplete
  BY <1>9 DEF OnSeekComplete, StartPlayer, StoppedHoldsNothing
<1>10. CASE OnCompletion
  BY <1>2, <1>4, <1>10 DEF OnCompletion
<1>11. CASE OnPauseCommand
  BY <1>3, <1>11 DEF OnPauseCommand, StoppedHoldsNothing
<1>12. QED
  BY <1>2, <1>3, <1>4, <1>5, <1>6, <1>7, <1>8, <1>9, <1>10, <1>11, Kinds

(* A playback that is stopped has given back the player, the WiFi lock and *)
(* the receiver, and no late message of the player or about the focus      *)
(* makes it take them again.                                               *)
THEOREM StoppedStaysReleased == Spec => []StoppedHoldsNothing
<1>1. Init => StoppedHoldsNothing
  BY DEF Init, StoppedHoldsNothing
<1>2. QED BY <1>1, StoppedStep, PTL DEF Spec
-----------------------------------------------------------------------------
(* An effective pause lasts.                                               *)

LEMMA HeldStep == Held /\ [Next]_vars => Held'
<1> SUFFICES ASSUME Held, [Next]_vars PROVE Held'
  OBVIOUS
<1>1. ASSUME NEW focus, NEW resume, ConfigMediaPlayerState(focus, resume), UNCHANGED settled,
             settled => ~resume
      PROVE  Held'
  BY <1>1 DEF ConfigMediaPlayerState, PausePlayer, Held
<1>2. ASSUME NEW queue, NEW item, NEW state, Play(item, state, queue) PROVE Held'
  BY <1>2 DEF Play, Held
<1>3. ASSUME NEW queue, Pause(queue) PROVE Held'
  BY <1>3 DEF Pause, PausePlayer, Held
<1>4. ASSUME NEW queue, Stop(queue) PROVE Held'
  BY <1>4 DEF Stop, Held
<1>5. CASE \E to \in Position : SeekTo(to)
  BY <1>5 DEF SeekTo, SeekPlayer, Held
<1>6. CASE \/ UNCHANGED vars \/ BecomesNoisy \/ PreparationEnds \/ SeekEnds \/ TrackEnds
           \/ PlayerFails \/ OnError \/ \E m \in FromFocus : FocusChanges(m)
  BY <1>6 DEF vars, BecomesNoisy, PreparationEnds, SeekEnds, TrackEnds, PlayerFails, OnError,
    PlayerReports, FocusChanges, Held
<1>7. CASE OnPrepared
  BY <1>1, <1>7 DEF OnPrepared, Held
<1>8. ASSUME NEW m, OnAudioFocusChange(m) PROVE Held'
  <2>1. CASE listening
    BY <1>1, <1>8, <2>1 DEF OnAudioFocusChange, Held
  <2>2. CASE ~listening
    BY <1>8, <2>2 DEF OnAudioFocusChange, Held
  <2>3. QED BY <2>1, <2>2
<1>9. CASE OnSeekComplete
  BY <1>9 DEF OnSeekComplete, Held
<1>10. CASE OnCompletion
  BY <1>2, <1>4, <1>10 DEF OnCompletion
<1>11. CASE OnPauseCommand
  BY <1>3, <1>11 DEF OnPauseCommand, Held
<1>12. QED
  BY <1>2, <1>3, <1>4, <1>5, <1>6, <1>7, <1>8, <1>9, <1>10, <1>11, Kinds

(* Once a pause has found the track playing and no resumption due, nothing *)
(* plays before the next request to play: no message that was waiting, no  *)
(* seek that ends and no focus that returns starts the player.             *)
THEOREM PauseLasts == Spec => []PauseHolds
<1>1. Init => Held
  BY DEF Init, Held
<1>2. Held => PauseHolds
  BY DEF Held, PauseHolds
<1>3. QED BY <1>1, <1>2, HeldStep, PTL DEF Spec
-----------------------------------------------------------------------------
(* The player has the current track.                                       *)

LEMMA CurrentStep == PlaysCurrentItem /\ [Next]_vars => PlaysCurrentItem'
<1> SUFFICES ASSUME PlaysCurrentItem, [Next]_vars PROVE PlaysCurrentItem'
  OBVIOUS
<1>1. ASSUME NEW queue, NEW item, NEW state, Play(item, state, queue) PROVE PlaysCurrentItem'
  BY <1>1 DEF Play, Resumes, Prepare, PlaysCurrentItem
<1>2. ASSUME NEW queue, Pause(queue) \/ Stop(queue) PROVE PlaysCurrentItem'
  BY <1>2 DEF Pause, Stop, ReleasePlayer, PlaysCurrentItem
<1>3. CASE UNCHANGED <<source, mCurrentMediaId>>
  BY <1>3 DEF PlaysCurrentItem
<1>4. CASE OnCompletion \/ OnPauseCommand
  BY <1>1, <1>2, <1>3, <1>4 DEF OnCompletion, OnPauseCommand
<1>5. QED
  BY <1>1, <1>2, <1>3, <1>4, Kinds DEF vars, SeekTo, BecomesNoisy, PreparationEnds, SeekEnds,
    TrackEnds, PlayerFails, PlayerReports, FocusChanges, OnAudioFocusChange, OnPrepared,
    OnSeekComplete, OnError

(* Whichever tracks are played, paused and played again, what the player   *)
(* has been given is the track the service takes for the current one.      *)
THEOREM TrackIsCurrent == Spec => []PlaysCurrentItem
<1>1. Init => PlaysCurrentItem
  BY DEF Init, PlaysCurrentItem
<1>2. QED BY <1>1, CurrentStep, PTL DEF Spec
-----------------------------------------------------------------------------
(* What is heard has the focus.                                            *)

LEMMA InStepStep == Queue /\ InStep /\ [Next]_vars => InStep'
<1> SUFFICES ASSUME Queue, InStep, [Next]_vars PROVE InStep'
  OBVIOUS
<1> USE DEF NoFocus, CanDuck, Focused
<1>1. ASSUME NEW queue, NEW item, NEW state \in {mState, "CONNECTING"}, Play(item, state, queue),
             queue \in Seq(Message),
             (seeking \/ \E i \in DOMAIN queue : queue[i] = "seeked") => SeekUnderWay
      PROVE  InStep'
  <2>1. CASE Resumes(item, state)
    <3>1. mState = "PAUSED" /\ UNCHANGED disturbed /\ messages' = queue
      BY <1>1, <2>1 DEF Resumes, Play
    <3>2. ConfigMediaPlayerState(mAudioFocus', TRUE)
      BY <1>1, <2>1 DEF Play
    <3>3. mAudioFocus' = NoFocus => mAudioFocus = NoFocus
      BY <1>1 DEF Play, tryToGetAudioFocus
    <3>4. QED BY <3>1, <3>2 DEF ConfigMediaPlayerState, PausePlayer, StartPlayer, SeekPlayer, InStep
  <2>2. CASE ~Resumes(item, state)
    <3>1. Prepare(item, queue)
      BY <1>1, <2>2 DEF Play
    <3>2. ~SeekUnderWay'
      BY <1>1, <3>1, NoSeekInForgotten DEF Prepare, SeekUnderWay
    <3>3. QED BY <3>1, <3>2 DEF Prepare, InStep
  <2>3. QED BY <2>1, <2>2
<1>2. ASSUME NEW queue, Pause(queue) PROVE InStep'
  BY <1>2 DEF Pause, PausePlayer, InStep
<1>3. ASSUME NEW queue, Stop(queue) PROVE InStep'
  BY <1>3 DEF Stop, ReleasePlayer, InStep
<1>4. CASE \E to \in Position : SeekTo(to)
  <2>1. SeekUnderWay => SeekUnderWay'
    BY <1>4 DEF SeekTo, SeekPlayer, SeekUnderWay
  <2>2. seeking' => SeekUnderWay'
    BY DEF SeekUnderWay
  <2>3. SeekUnderWay' => SeekUnderWay \/ seeking'
    BY <1>4 DEF SeekTo, SeekPlayer, SeekUnderWay
  <2>4. QED BY <1>4, <2>1, <2>2, <2>3 DEF SeekTo, SeekPlayer, InStep
<1>5. CASE UNCHANGED vars
  BY <1>5 DEF vars, InStep, SeekUnderWay
<1>6. CASE BecomesNoisy \/ PreparationEnds \/ TrackEnds \/ \E m \in FromFocus : FocusChanges(m)
  <2>1. SeekUnderWay' <=> SeekUnderWay
    BY <1>6, AppendKeepsSeek DEF BecomesNoisy, PreparationEnds, TrackEnds, PlayerReports,
      FocusChanges, FromFocus
  <2>2. QED BY <1>6, <2>1 DEF BecomesNoisy, PreparationEnds, TrackEnds, PlayerReports,
      FocusChanges, InStep
<1>7. CASE SeekEnds
  <2>1. SeekUnderWay
    BY <1>7 DEF SeekEnds, SeekUnderWay
  <2>2. SeekUnderWay'
    <3>1. messages' = Append(messages, "seeked")
      BY <1>7 DEF SeekEnds, PlayerReports
    <3>2. messages'[Len(messages) + 1] = "seeked" /\ Len(messages) + 1 \in DOMAIN messages'
      BY <3>1 DEF Queue
    <3>3. QED BY <3>2 DEF SeekUnderWay
  <2>3. QED BY <1>7, <2>1, <2>2 DEF SeekEnds, PlayerReports, InStep
<1>8. CASE PlayerFails
  <2>1. SeekUnderWay' => SeekUnderWay
    <3>1. messages' = Append(messages, "error") /\ ~seeking'
      BY <1>8 DEF PlayerFails, PlayerReports
    <3>2. ASSUME NEW i \in DOMAIN messages', messages'[i] = "seeked"
          PROVE  i \in DOMAIN messages /\ messages[i] = "seeked"
      BY <3>1, <3>2 DEF Queue
    <3>3. QED BY <3>1, <3>2 DEF SeekUnderWay
  <2>2. QED BY <1>8, <2>1 DEF PlayerFails, PlayerReports, InStep
<1>9. CASE OnError
  <2>1. SeekUnderWay' <=> SeekUnderWay
    BY <1>9, TailKeepsSeek DEF OnError
  <2>2. QED BY <1>9, <2>1 DEF OnError, InStep
<1>10. CASE OnPrepared
  <2>1. messages' = Tail(messages) /\ Takes("prepared")
    BY <1>10 DEF OnPrepared
  <2>2. UNCHANGED seeking => (SeekUnderWay' <=> SeekUnderWay)
    BY <2>1, TailKeepsSeek
  <2>3. QED BY <1>10, <2>2 DEF OnPrepared, ConfigMediaPlayerState, PausePlayer, StartPlayer,
      SeekPlayer, InStep
<1>11. ASSUME NEW m \in FromFocus, OnAudioFocusChange(m) PROVE InStep'
  <2>1. messages' = Tail(messages) /\ Takes(m) /\ m # "seeked"
    BY <1>11 DEF OnAudioFocusChange, FromFocus
  <2>2. UNCHANGED seeking => (SeekUnderWay' <=> SeekUnderWay)
    BY <2>1, TailKeepsSeek
  <2>3. CASE ~listening
    BY <1>11, <2>2, <2>3 DEF OnAudioFocusChange, InStep
  <2>4. CASE listening
    <3> DEFINE focus == FocusAfter(m)
    <3>1. PICK resume : ConfigMediaPlayerState(focus, resume)
      BY <1>11, <2>4 DEF OnAudioFocusChange
    <3>2. mAudioFocus' = focus
      BY <1>11, <2>4 DEF OnAudioFocusChange
    <3>3. disturbed' = (disturbed \/ (focus = NoFocus /\ mState = "BUFFERING" /\ SeekUnderWay))
      BY <1>11, <2>4 DEF OnAudioFocusChange
    <3> HIDE DEF focus
    <3>4. QED BY <2>2, <3>1, <3>2, <3>3 DEF ConfigMediaPlayerState, PausePlayer, StartPlayer,
        SeekPlayer, InStep
  <2>5. QED BY <2>3, <2>4
<1>12. CASE OnSeekComplete
  <2>1. SeekUnderWay
    <3>1. messages # <<>> /\ messages[1] = "seeked" /\ 1 \in DOMAIN messages
      BY <1>12 DEF OnSeekComplete, Takes, Queue
    <3>2. QED BY <3>1 DEF SeekUnderWay
  <2>2. QED BY <1>12, <2>1 DEF OnSeekComplete, StartPlayer, InStep
<1>13. CASE OnCompletion
  <2>1. messages # <<>> /\ Takes("completed") /\ Tail(messages) \in Seq(Message)
    BY <1>13, TailIsQueue DEF OnCompletion, Takes
  <2>2. CASE Stop(Tail(messages))
    BY <1>3, <2>2
  <2>3. ASSUME NEW i \in DOMAIN Tail(messages), Tail(messages)[i] = "seeked" PROVE SeekUnderWay
    <3>1. i + 1 \in DOMAIN messages /\ messages[i + 1] = "seeked"
      BY <2>1, <2>3 DEF Queue
    <3>2. QED BY <3>1 DEF SeekUnderWay
  <2>4. seeking => SeekUnderWay
    BY DEF SeekUnderWay
  <2>5. CASE \E item \in Item : Play(item, mState, Tail(messages))
    BY <1>1, <2>1, <2>3, <2>4, <2>5
  <2>6. QED BY <1>13, <2>2, <2>5 DEF OnCompletion
<1>14. CASE OnPauseCommand
  <2>1. CASE Pause(Tail(messages))
    BY <1>2, <2>1
  <2>2. CASE ~Pause(Tail(messages))
    <3>1. SeekUnderWay' <=> SeekUnderWay
      BY <1>14, <2>2, TailKeepsSeek DEF OnPauseCommand
    <3>2. QED BY <1>14, <2>2, <3>1 DEF OnPauseCommand, InStep
  <2>3. QED BY <2>1, <2>2
<1>15. messages \in Seq(Message) /\ ((seeking \/ \E i \in DOMAIN messages : messages[i] = "seeked") => SeekUnderWay)
  BY DEF Queue, SeekUnderWay
<1>16. QED
  BY <1>1, <1>2, <1>3, <1>4, <1>5, <1>6, <1>7, <1>8, <1>9, <1>10, <1>11, <1>12, <1>13, <1>14,
    <1>15, Kinds

(* What is heard has the audio focus, at least in part, and is in a state  *)
(* in which the user can pause it, however preparation, seeks, requests    *)
(* and changes of the focus follow each other, except for a player that    *)
(* was disturbed while it was seeking.                                     *)
THEOREM HeardWithFocus == Spec => []PlaysWithFocus
<1> DEFINE Both == Queue /\ InStep
<1>1. Init => Both
  BY DEF Init, Queue, InStep
<1>2. Both /\ [Next]_vars => Both'
  BY QueueStep, InStepStep
<1>3. Both => PlaysWithFocus
  BY DEF InStep, PlaysWithFocus
<1>4. QED BY <1>1, <1>2, <1>3, PTL DEF Spec

(* The three about requests together: what was asked for last holds.       *)
THEOREM LastRequestHolds == Spec => []RequestsHold
<1>1. PauseHolds /\ PlaysCurrentItem /\ StoppedHoldsNothing => RequestsHold
  BY DEF RequestsHold
<1> QED BY <1>1, PauseLasts, TrackIsCurrent, StoppedStaysReleased, PTL
=============================================================================
