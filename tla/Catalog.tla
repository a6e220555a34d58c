-------------------------------- MODULE Catalog --------------------------------
(***************************************************************************)
(* The music catalog: MusicProvider.java, which loads it in the background *)
(* and groups it by genre, the lists MusicService.onLoadChildren makes of  *)
(* it for browsers, and the queues QueueHelper.java makes of it for a      *)
(* request.  An item of a list is known to a browser by a media ID alone,  *)
(* and may be played at any later time: MediaIDHelper.java packs the way   *)
(* to the track into the ID, and everything is looked up again.            *)
(*                                                                         *)
(* A name, a query or an ID is a sequence of words and separators; a word  *)
(* is not taken apart.  Positions, durations and URLs are left out, and    *)
(* what is done with a queue is MusicService's subject.                    *)
(***************************************************************************)
EXTENDS Integers, Sequences, SequencesExt, FiniteSets

CONSTANTS
  Local,       \* the tracks of createLocal, with their id and what can be searched
  Catalogs,    \* what the server may answer: tracks and BAD entries, or NULL
  Requests,    \* voice searches: query, focus, and the value the focus comes with
  MaxTries,    \* bound: loads of the catalog
  NULL, BAD

Tracks == Local \cup (UNION {Range(answer) : answer \in Catalogs \ {NULL}} \ {BAD})

\* The names of genres and the queries, and the words and separators in them and in IDs.
Names == {track.genre : track \in Tracks} \cup {request.query : request \in Requests} \cup {<<"random">>}

Words ==
  {"ROOT", "BY_GENRE", "BY_SEARCH", "/", "|"} \cup {track.id : track \in Tracks} \cup
  UNION {Range(name) : name \in Names}

Constants ==
  /\ IsFiniteSet(Local)
  /\ \A answer \in Catalogs : answer = NULL \/ answer \in Seq(Tracks \cup {BAD})
  /\ Names \subseteq Seq(Words)
  /\ NULL \notin [track : Tracks, art : BOOLEAN]
  /\ NULL \notin Seq([id : Seq(Words), track : Words])

VARIABLES
  mCurrentState,
  mMusicListById,     \* id -> metadata
  mMusicListByGenre,  \* genre -> the metadata of its tracks
  loading,            \* what retrieveMedia has still to do
  tries,
  listed,             \* every item that was ever sent to a browser
  mPlayingQueue,
  crashed             \* an exception nobody catches has ended the process

vars == <<mCurrentState, mMusicListById, mMusicListByGenre, loading, tries, listed, mPlayingQueue, crashed>>

Idle == [at |-> "idle", rest |-> <<>>]

\* createLocal, and the metadata of a track without its picture.
Metadata(track) == [track |-> track, art |-> FALSE]

\* The browser begins at the root.
onGetRoot == [id |-> <<"ROOT">>, playable |-> FALSE]

Init ==
  /\ mCurrentState = "NON_INITIALIZED"
  /\ mMusicListById = [id \in {track.id : track \in Local} |->
                         Metadata(CHOOSE track \in Local : track.id = id)]
  /\ mMusicListByGenre = <<>>
  /\ loading = Idle /\ tries = 0
  /\ listed = {onGetRoot} /\ mPlayingQueue = <<>> /\ crashed = FALSE
-----------------------------------------------------------------------------
(* Media IDs.                                                              *)

createMediaID(musicID, categoryType, categoryValue) ==
  <<categoryType, "/">> \o categoryValue \o <<"|", musicID>>

createBrowseCategoryMediaID(categoryType, categoryValue) == <<categoryType, "/">> \o categoryValue

Where(mediaID, separator) == {i \in DOMAIN mediaID : mediaID[i] = separator}

First(places) == CHOOSE i \in places : \A j \in places : i <= j

\* The last of the places, or 0 when there is none.
LastOf(places) == CHOOSE i \in places \cup {0} : \A j \in places : j <= i

extractMusicIDFromMediaID(mediaID) ==
  IF Where(mediaID, "|") = {} THEN <<>>
  ELSE SubSeq(mediaID, First(Where(mediaID, "|")) + 1, Len(mediaID))

\* The numbers of a finite set, in order.
InOrder(S) == [k \in 1 .. Cardinality(S) |-> CHOOSE i \in S : Cardinality({j \in S : j <= i}) = k]

\* What is before the leaf, at each separator a new part; split drops the last
\* parts as long as they are empty.
getHierarchy(mediaID) ==
  LET path == IF Where(mediaID, "|") = {} THEN mediaID
              ELSE SubSeq(mediaID, 1, First(Where(mediaID, "|")) - 1)
      cuts == InOrder({0, Len(path) + 1} \cup Where(path, "/"))
      parts == [i \in 1 .. Len(cuts) - 1 |-> SubSeq(path, cuts[i] + 1, cuts[i + 1] - 1)]
  IN SubSeq(parts, 1, LastOf({i \in DOMAIN parts : parts[i] # <<>>}))
-----------------------------------------------------------------------------
(* MusicProvider: what it answers.                                         *)

Initialized == mCurrentState = "INITIALIZED"

getGenres == IF Initialized THEN DOMAIN mMusicListByGenre ELSE {}

getMusicsByGenre(genre) == IF genre \in getGenres THEN mMusicListByGenre[genre] ELSE {}

Within(query, text) ==
  \E i \in 0 .. Len(text) - Len(query) : SubSeq(text, i + 1, i + Len(query)) = query

searchMusic(field, query) ==
  IF Initialized
  THEN {mMusicListById[id] : id \in {i \in DOMAIN mMusicListById :
                                       Within(query, mMusicListById[i].track[field])}}
  ELSE {}

\* The music with an ID: there is none with an ID of several words.
getMusic(musicID) ==
  IF Len(musicID) = 1 /\ musicID[1] \in DOMAIN mMusicListById THEN mMusicListById[musicID[1]] ELSE NULL
-----------------------------------------------------------------------------
(* MusicProvider: retrieveMedia, in the background.  A browser or a search *)
(* asks for it while there is no catalog; the tasks run one after another. *)

retrieveMedia ==
  /\ loading = Idle /\ mCurrentState = "NON_INITIALIZED" /\ tries < MaxTries
  /\ tries' = tries + 1 /\ mCurrentState' = "INITIALIZING"
  /\ loading' = [at |-> "fetch", rest |-> <<>>]
  /\ UNCHANGED <<mMusicListById, mMusicListByGenre, listed, mPlayingQueue, crashed>>

\* No answer leaves the tracks of this device, and counts as a catalog.
fetchJSONFromUrl ==
  /\ loading.at = "fetch"
  /\ \E answer \in Catalogs :
       loading' = [at |-> "tracks", rest |-> IF answer = NULL THEN <<>> ELSE answer]
  /\ UNCHANGED <<mCurrentState, mMusicListById, mMusicListByGenre, tries, listed, mPlayingQueue, crashed>>

\* A track replaces the one that has its ID.
buildFromJSON ==
  /\ loading.at = "tracks" /\ loading.rest # <<>> /\ Head(loading.rest) # BAD
  /\ LET track == Head(loading.rest) IN
     mMusicListById' = [id \in DOMAIN mMusicListById \cup {track.id} |->
                          IF id = track.id THEN Metadata(track) ELSE mMusicListById[id]]
  /\ loading' = [loading EXCEPT !.rest = Tail(@)]
  /\ UNCHANGED <<mCurrentState, mMusicListByGenre, tries, listed, mPlayingQueue, crashed>>

\* A JSONException ends it; the tracks before it stay.
JSONException ==
  /\ loading.at = "tracks" /\ loading.rest # <<>> /\ Head(loading.rest) = BAD
  /\ mCurrentState' = "NON_INITIALIZED" /\ loading' = Idle
  /\ UNCHANGED <<mMusicListById, mMusicListByGenre, tries, listed, mPlayingQueue, crashed>>

ListsByGenre(byId) ==
  [genre \in {byId[id].track.genre : id \in DOMAIN byId} |->
     {metadata \in {byId[id] : id \in DOMAIN byId} : metadata.track.genre = genre}]

buildListsByGenre ==
  /\ loading.at = "tracks" /\ loading.rest = <<>>
  /\ mMusicListByGenre' = ListsByGenre(mMusicListById)
  /\ loading' = [loading EXCEPT !.at = "built"]
  /\ UNCHANGED <<mCurrentState, mMusicListById, tries, listed, mPlayingQueue, crashed>>

Retrieved ==
  /\ loading.at = "built"
  /\ mCurrentState' = "INITIALIZED" /\ loading' = Idle
  /\ UNCHANGED <<mMusicListById, mMusicListByGenre, tries, listed, mPlayingQueue, crashed>>
-----------------------------------------------------------------------------
(* The main thread: browsers and requests.                                 *)

\* Mutated form: the genre is whatever follows its type.
GenreAfterType(parent) == SubSeq(parent, 3, Len(parent))

GenreOf(parent) == getHierarchy(parent)[2]

\* There is no second part: getHierarchy(parent)[1] is out of bounds.
OutOfBounds(parent) == parent \notin {<<"ROOT">>, <<"BY_GENRE">>} /\ Len(getHierarchy(parent)) < 2

loadChildrenImpl(parent) ==
  IF parent = <<"ROOT">> THEN {[id |-> <<"BY_GENRE">>, playable |-> FALSE]}
  ELSE IF parent = <<"BY_GENRE">>
  THEN {[id |-> createBrowseCategoryMediaID("BY_GENRE", genre), playable |-> FALSE] : genre \in getGenres}
  ELSE {[id |-> createMediaID(metadata.track.id, "BY_GENRE", GenreOf(parent)), playable |-> TRUE] :
          metadata \in getMusicsByGenre(GenreOf(parent))}

\* A browser opens an item; without a catalog it is told of nothing.
onLoadChildren ==
  /\ Initialized
  /\ \E item \in listed :
       ~item.playable /\ ~OutOfBounds(item.id) /\ listed' = listed \cup loadChildrenImpl(item.id)
  /\ UNCHANGED <<mCurrentState, mMusicListById, mMusicListByGenre, loading, tries, mPlayingQueue, crashed>>

\* The exception is thrown on the main thread, where nothing catches it.
ArrayIndexOutOfBounds ==
  /\ Initialized
  /\ \E item \in listed : ~item.playable /\ OutOfBounds(item.id)
  /\ crashed' = TRUE
  /\ UNCHANGED <<mCurrentState, mMusicListById, mMusicListByGenre, loading, tries, listed, mPlayingQueue>>

\* The items, in an order that depends on the tracks alone.
convertToQueue(tracks, categoryType, categoryValue) ==
  LET order == SetToSeq(tracks) IN
  [i \in DOMAIN order |-> [id |-> createMediaID(order[i].track.id, categoryType, categoryValue),
                           track |-> order[i].track.id]]

getPlayingQueue(mediaID) ==
  LET hierarchy == getHierarchy(mediaID) IN
  IF Len(hierarchy) # 2 THEN NULL
  ELSE CASE hierarchy[1] = <<"BY_GENRE">> ->
              convertToQueue(getMusicsByGenre(hierarchy[2]), "BY_GENRE", hierarchy[2])
         [] hierarchy[1] = <<"BY_SEARCH">> ->
              convertToQueue(searchMusic("title", hierarchy[2]), "BY_SEARCH", hierarchy[2])
         [] OTHER -> NULL

getMusicIndexOnQueue(queue, mediaID) ==
  IF \E i \in DOMAIN queue : queue[i].id = mediaID
  THEN First({i \in DOMAIN queue : queue[i].id = mediaID}) - 1 ELSE -1

\* What has the focus of a voice search; another request has none.
Focused(request) ==
  CASE request.focus = "genre" -> getMusicsByGenre(request.value)
    [] request.focus \in {"album", "artist", "title"} -> searchMusic(request.focus, request.value)
    [] OTHER -> {}

\* getRandomQueue: some of the tracks.
RandomTracks == SUBSET UNION {getMusicsByGenre(genre) : genre \in getGenres}

getPlayingQueueFromSearch(request) ==
  IF request.query = <<>>
  THEN {convertToQueue(tracks, "BY_SEARCH", <<"random">>) : tracks \in RandomTracks}
  ELSE {convertToQueue(IF Focused(request) # {} THEN Focused(request) ELSE searchMusic("title", request.query),
                       "BY_SEARCH", request.query)}

onPlayFromMediaId ==
  /\ \E item \in listed : item.playable /\ mPlayingQueue' = getPlayingQueue(item.id)
  /\ UNCHANGED <<mCurrentState, mMusicListById, mMusicListByGenre, loading, tries, listed, crashed>>

\* onMusicCatalogReady of a search; it has failed if there is no catalog.
onPlayFromSearch ==
  /\ \E request \in Requests : mPlayingQueue' \in getPlayingQueueFromSearch(request)
  /\ UNCHANGED <<mCurrentState, mMusicListById, mMusicListByGenre, loading, tries, listed, crashed>>

\* The picture of a track that was played arrives; its genre stays, and with it the lists.
updateMusic ==
  /\ loading = Idle /\ Initialized
  /\ \E id \in DOMAIN mMusicListById : mMusicListById' = [mMusicListById EXCEPT ![id].art = TRUE]
  /\ UNCHANGED <<mCurrentState, mMusicListByGenre, loading, tries, listed, mPlayingQueue, crashed>>

Load == retrieveMedia \/ fetchJSONFromUrl \/ buildFromJSON \/ JSONException \/ buildListsByGenre \/ Retrieved

Main == onLoadChildren \/ ArrayIndexOutOfBounds \/ onPlayFromMediaId \/ onPlayFromSearch \/ updateMusic

Next == ~crashed /\ (Load \/ Main)
-----------------------------------------------------------------------------
(* Properties.                                                             *)

\* A genre of which nothing but separators is before the first "|" of its ID; of a
\* track's ID, its genre is empty.
Nameless(id) == \A i \in 3 .. Len(id) : id[i] = "/" \/ \E j \in 3 .. i : id[j] = "|"

\* Whatever was put on a browser's list can be opened, or played at any later
\* time: the queue made anew from nothing but its ID contains it, and the ID
\* leads to a track of the catalog.  Loads may have failed halfway before, two
\* tracks of the server may share an ID, and genres may contain the separators
\* of IDs, also at their ends.  Known exceptions: a genre without a name ends
\* the process when it is opened (MusicService.java:361); what "/x" lists, when
\* there is such a genre, has no queue (QueueHelper.java:47-50).
ListedPlays ==
  \A item \in listed :
    \/ Nameless(item.id)
    \/ ~item.playable /\ ~OutOfBounds(item.id)
    \/ /\ item.playable
       /\ getPlayingQueue(item.id) # NULL
       /\ getMusicIndexOnQueue(getPlayingQueue(item.id), item.id) # -1
       /\ getMusic(extractMusicIDFromMediaID(item.id)) # NULL

\* Every item of the queue names a track that is known, or updateMetadata and
\* CastPlayback.loadMedia throw.  Known exception: a query with the separator
\* of music IDs.
QueuedIsKnown ==
  mPlayingQueue # NULL =>
    \A i \in DOMAIN mPlayingQueue :
      Cardinality(Where(mPlayingQueue[i].id, "|")) = 1 =>
        extractMusicIDFromMediaID(mPlayingQueue[i].id) = <<mPlayingQueue[i].track>>

\* A catalog that counts as loaded lists each of its tracks in its genre, and
\* nothing else, although the tracks of failed loads stay.
ListsMatch ==
  Initialized =>
    [genre \in DOMAIN mMusicListByGenre |-> {metadata.track.id : metadata \in mMusicListByGenre[genre]}] =
      [genre \in {mMusicListById[id].track.genre : id \in DOMAIN mMusicListById} |->
         {id \in DOMAIN mMusicListById : mMusicListById[id].track.genre = genre}]
=============================================================================
