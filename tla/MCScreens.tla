------------------------------- MODULE MCScreens -------------------------------
(***************************************************************************)
(* The main screen, the full screen player and the music catalog for TLC:  *)
(* in a behaviour one of them is at work while the others rest.  What they *)
(* share, the session and the lists of the service, each of them meets in  *)
(* every state it can have.                                                *)
(***************************************************************************)
EXTENDS Integers, Sequences, TLC

CONSTANTS
  Songs, Parent, Art, MaxStarts, MaxChanges, NONE,
  Local, Catalogs, Requests, MaxTries, NOTHING, BAD

VARIABLES which    \* the one at work

VARIABLES session, changes, online, messages, activity, starts, controller, registered, browser,
          controls, missed, voice, intent, fragments, pending, loaded, subs, loads
screenVars == <<session, changes, online, messages, activity, starts, controller, registered, browser,
                controls, missed, voice, intent, fragments, pending, loaded, subs, loads>>

VARIABLES played, plays, told, commands, screen, opened, bound, listening, shown, scheduled, tracking,
          mCurrentArtUrl, picture, fetches, failed
fullScreenVars == <<played, plays, told, commands, screen, opened, bound, listening, shown, scheduled,
                    tracking, mCurrentArtUrl, picture, fetches, failed>>

VARIABLES mCurrentState, mMusicListById, mMusicListByGenre, loading, tries, listed, mPlayingQueue,
          crashed
musicVars == <<mCurrentState, mMusicListById, mMusicListByGenre, loading, tries, listed, mPlayingQueue, crashed>>
-----------------------------------------------------------------------------
Screen == INSTANCE MainScreen WITH Tracks <- Songs, ROOT <- "root"

FullScreen == INSTANCE PlayerScreen WITH
  session <- played, changes <- plays, messages <- told, activity <- screen, starts <- opened,
  browser <- bound, registered <- listening, MaxChanges <- MaxChanges + 1

Music == INSTANCE Catalog WITH NULL <- NOTHING

\* "back" is a transaction of its own, and no media ID.
ASSUME ScreensAssumption == "back" \notin DOMAIN Parent \cup {NONE}

ASSUME CatalogAssumption == Music!Constants
-----------------------------------------------------------------------------
ScreensInit ==
  /\ which \in {"screen", "player", "music"}
  /\ Screen!Init /\ (which = "screen" \/ intent = "play")
  /\ FullScreen!Init /\ (which = "player" \/ played.track = NONE)
  /\ Music!Init

ScreensNext ==
  /\ UNCHANGED which
  /\ IF which = "screen" THEN Screen!Next ELSE UNCHANGED screenVars
  /\ IF which = "player" THEN FullScreen!Next ELSE UNCHANGED fullScreenVars
  /\ IF which = "music" THEN Music!Next ELSE UNCHANGED musicVars

screensVars == <<which, screenVars, fullScreenVars, musicVars>>

ScreensSpec == ScreensInit /\ [][ScreensNext]_screensVars
-----------------------------------------------------------------------------
(* Values for the constants.                                               *)

\* A genre below the root, and a track list below the genre.
GenreAndList == ("g" :> "root") @@ ("x" :> "g")

\* Two tracks with a picture, and one without.
TwoPictures == ("t1" :> "u1") @@ ("t2" :> "u2") @@ ("t3" :> NONE)

Track(id, genre, title, album) ==
  [id |-> id, genre |-> genre, title |-> title, album |-> album, artist |-> album]

OneLocal == {Track("l", <<"Rock">>, <<"x">>, <<"Demo">>)}

\* The server has genres with separators in them, at their start or at their end,
\* one without a name, two tracks with one ID, an entry that cannot be read, and
\* may not answer at all.
SomeCatalogs ==
  LET t1 == Track("1", <<"Rock", "/", "Pop">>, <<"x", "y">>, <<"A">>)
      t2 == Track("2", <<"Rock">>, <<"y">>, <<"A">>)
      t3 == Track("1", <<"Jazz", "|", "Soul">>, <<"x">>, <<"B">>)
      t4 == Track("4", <<"Jazz">>, <<"z">>, <<"B">>)
      t5 == Track("5", <<>>, <<"z">>, <<"A">>)
      t6 == Track("6", <<"/", "Pop">>, <<"y">>, <<"A">>)
      t7 == Track("7", <<"Rock", "/">>, <<"y">>, <<"B">>)
  IN {NOTHING, <<t1, BAD>>, <<t1, t2, t3>>, <<t5, t6, t7>>, <<t3, t4>>}

SomeRequests ==
  {[query |-> q, focus |-> "none", value |-> q] : q \in {<<>>, <<"y">>}} \cup
  {[query |-> <<"A">>, focus |-> "album", value |-> <<"A">>]} \cup
  {[query |-> g, focus |-> "genre", value |-> g] : g \in {<<"Rock", "/", "Pop">>, <<"Jazz", "|", "Soul">>}}
-----------------------------------------------------------------------------
(* The properties, each of the module that defines it.                     *)

\* The main screen shows the controls and the list that the session and the
\* catalog have now, and commits nothing after its activity has stopped,
\* whatever has been opened, left, stopped and started (MediaBrowserFragment,
\* PlaybackControlsFragment, BaseActivity).
MainScreenIsCurrent == Screen!ShowsSession /\ Screen!ListLoads /\ Screen!NoCommitAfterStop

\* The full screen player shows the track and the state of the session, and of
\* the pictures that are under way the one of that track (FullScreenPlayerActivity).
FullScreenIsCurrent == FullScreen!FollowsSession /\ FullScreen!PictureIsWanted

\* What is listed can be opened or played, but for genres without a name, and what
\* is queued and listed is in the catalog, whether or not its server answers
\* (MusicProvider, QueueHelper, MediaIDHelper).
CatalogPlays == Music!ListedPlays /\ Music!QueuedIsKnown /\ Music!ListsMatch
=============================================================================
