SPECIFICATION FairSpec
CONSTANTS
  Hours = 6
  From = 4
  To = 8
  TankHours = 2
  DishHours = 2
  DishTo = 3
  DishLeast = 4
  Afternoon <- MCAfternoon
  Lists <- MCLists
  Rooms <- MCRooms
  Shifts <- MCShifts
  Unknown = Unknown
  MaxFaults = 1
  MaxChanges = 1
PROPERTIES CutsOnlyDearHours TimesFollowPrices InputsSettle
