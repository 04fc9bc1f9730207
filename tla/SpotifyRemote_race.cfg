SPECIFICATION Spec
CONSTANTS
  a = a
  b = b
  c = c
  Uris <- MCUris
  Loaded <- MCLoaded
  NoUri = NoUri
  Nothing = Nothing
  MorningUri = a
  Attempts = 2
  Rounds = 2
  MaxSeq = 2
  MaxEvents = 2
INVARIANTS RetriesStopOnNewerCommand
CHECK_DEADLOCK FALSE
