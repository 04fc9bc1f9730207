SPECIFICATION CurveSpec
CONSTANTS
  Curves <- MCCurves
  Outside <- MCColdOutside
  Offsets <- MCOffsets
  UserTargets <- MCUserTargets
  Degrees <- MCDegrees
  NoReading = NoReading
  MaxCurveFaults = 1
  MaxCurveUser = 1
PROPERTIES FirstRowServesTheCold
