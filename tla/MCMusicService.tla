---------------------------- MODULE MCMusicService ----------------------------
(***************************************************************************)
(* Instances of MusicService for TLC: one track that is an asset, one that *)
(* has to be downloaded, and queues with either or both.                   *)
(***************************************************************************)
EXTENDS MusicService

CONSTANTS song, tune

OneLocal == {song}
OneRemote == {tune}
ShortQueues == {<<>>, <<song>>, <<tune, song>>}
TwoPorts == {1, 2}
=============================================================================
