---------------------------- MODULE WaterMixing ----------------------------
(***************************************************************************)
(* The mixing cover as a part of the whole heating: the state of FloorCover *)
(* under names that the pump (HeatPump) and the target (WaterTarget) do not *)
(* use, so that the three can be put together.                             *)
(***************************************************************************)
EXTENDS Integers

CONSTANTS
  Gaps, Full, Interval,
  NoRow,            \* Unknown of FloorCover
  MaxCoverFaults, MaxCoverUser

VARIABLES
  gap, pos, shown, coverManual,
  coverSeen, coverAt, age, row, since, unsaved, uncounted,
  coverFaults, coverUser

Cover == INSTANCE FloorCover
  WITH manual <- coverManual, seen <- coverSeen, at <- coverAt, faults <- coverFaults,
       user <- coverUser, MaxFaults <- MaxCoverFaults, MaxUser <- MaxCoverUser,
       Unknown <- NoRow

ASSUME CoverAssumed == Cover!CoverAssumption

CoverSpec == Cover!Spec
CoverFairSpec == Cover!FairSpec

\* Types hold; no command asks for a position outside 0 .. Full
\* (floorheating/floorheating.go:403-406).
CoverTypeOK == Cover!TypeOK

\* The time in the table is never older than the last command, except between
\* the command and its save, and after a save that failed
\* (floorheating/floorheating.go:412-420).
TableInTime == Cover!TableInTime

\* The statistics miss one command and one per failure at most
\* (floorheating/floorheating.go:421-427).
StatsCountMoves == Cover!StatsCountMoves

\* Any two commands are the interval apart, also across restarts, unless the
\* first one's time could not be saved (floorheating/floorheating.go:346-364).
CoverPaced == Cover!CoverPaced

\* While the water stays too cold, the cover gets to its open end
\* (floorheating/floorheating.go:366-410).
CoverOpens == Cover!CoverOpens
=============================================================================
