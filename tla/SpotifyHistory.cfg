SPECIFICATION Spec
CONSTANTS
  morning = morning
  evening = evening
  album = album
  sunrise = sunrise
  other = other
  Uris <- MCUris
  IsPlaylist <- MCPlaylists
  Tracks <- MCTracks
  Library <- MCLibrary
  MorningName = sunrise
  NoUri = NoUri
  Nothing = Nothing
  Torn = Torn
  Cap = 2
  Window = 2
  MaxClock = 3
  MaxCrashes = 1
INVARIANTS HistoryCanonical PlayedAtKeptAtMaximum CapDropsOnlyOlder RestartRemembers
CHECK_DEADLOCK FALSE
