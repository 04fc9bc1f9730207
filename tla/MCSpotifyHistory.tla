-------------------------- MODULE MCSpotifyHistory -------------------------
(* SpotifyHistory with three contexts: two library playlists, the morning   *)
(* one among them, and an album.  One track has the name of the morning     *)
(* playlist.                                                                *)
EXTENDS SpotifyHistory

CONSTANTS morning, evening, album, sunrise, other

MCUris == {morning, evening, album}
MCPlaylists == {morning, evening}
MCTracks == {sunrise, other}
MCLibrary == <<[uri |-> evening, hint |-> other], [uri |-> morning, hint |-> sunrise]>>
=============================================================================
