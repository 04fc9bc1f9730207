-------------------------- MODULE MCSpotifyRemote --------------------------
(* SpotifyRemote on a small instance: three contexts, of which the file may *)
(* hold none or two.  The other values are in the .cfg files.               *)
EXTENDS SpotifyRemote

CONSTANTS a, b, c

MCUris == {a, b, c}
MCLoaded == {<<>>, <<a, b>>}
=============================================================================
