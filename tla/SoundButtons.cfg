SPECIFICATION FairSpec
CONSTANTS
  Clients = {"sauna", "elutuba"}
  Groups = {g1, g2}
  Nobody = Nobody
  Streams <- MCStreams
  Zones <- MCZones
  ZoneStream <- MCZoneStream
  AtStart <- MCAtStart
  TvZone = "elutuba"
  LeftStream = "SpaMusic"
  RightStream = "SkyPlus"
  MorningStream = "SkyPlus"
  Top = 1
  Capacity = 1
  RetryMax = 2
  MaxEvents = 1
  MaxPresses = 2
INVARIANTS DiesOnlyInSilence
PROPERTIES UpdateLostOnlyByOverlap UnmutedOnlyIfOvertaken WorkDrains
CHECK_DEADLOCK FALSE
