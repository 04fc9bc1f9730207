SPECIFICATION CoverFairSpec
CONSTANTS
  Gaps <- MCGaps
  Full = 7
  Interval = 2
  NoRow = NoRow
  MaxCoverFaults = 1
  MaxCoverUser = 1
INVARIANTS CoverTypeOK TableInTime StatsCountMoves
PROPERTIES CoverPaced CoverOpens
