SPECIFICATION FairSpec
CONSTANTS
  esik = esik
  kitchen = kitchen
  hall = hall
  Rooms <- MCRooms
  WallRooms <- MCRooms
  Valves <- MCValves
  RoomOf <- MCRoomOf
  Esik = esik
  Readings <- MCReadings
  NoReading = NoReading
  MaxFaults = 1
  MaxUser = 1
PROPERTIES ManualHolds EsikWarmOnceSeen NoChatter ValvesSettle
