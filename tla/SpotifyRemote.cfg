SPECIFICATION FairSpec
CONSTANTS
  a = a
  b = b
  c = c
  Uris <- MCUris
  Loaded <- MCLoaded
  NoUri = NoUri
  Nothing = Nothing
  MorningUri = a
  Attempts = 2
  Rounds = 2
  MaxSeq = 2
  MaxEvents = 2
INVARIANTS CursorAligned LateRetryBounded
PROPERTIES SelectMovesOn PressesEnd
CHECK_DEADLOCK FALSE
