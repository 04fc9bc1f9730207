SPECIFICATION CurveFairSpec
CONSTANTS
  Curves <- MCCurves
  Outside <- MCColdOutside
  Offsets <- MCOffsets
  UserTargets <- MCUserTargets
  Degrees <- MCDegrees
  NoReading = NoReading
  MaxCurveFaults = 1
  MaxCurveUser = 1
INVARIANTS ManualOverruledOnce
PROPERTIES TargetWithinCurve TargetReachesCurve
