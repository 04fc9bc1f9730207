---------------------------- MODULE WaterTarget ----------------------------
(***************************************************************************)
(* The target temperature of the water as a part of the whole heating: the  *)
(* state of HeatingCurve under names that the pump (HeatPump) and the cover *)
(* (WaterMixing) do not use, so that the three can be put together.        *)
(***************************************************************************)
EXTENDS Integers

CONSTANTS
  Curves, Outside, Offsets, UserTargets, Degrees,
  NoReading,        \* Unknown of HeatingCurve
  MaxCurveFaults, MaxCurveUser

VARIABLES
  curve, outside, offset, winterMode, curveManual, target,
  curveSeen, curveAt, late,
  curveFaults, curveUser

Curve == INSTANCE HeatingCurve
  WITH manual <- curveManual, seen <- curveSeen, at <- curveAt, faults <- curveFaults,
       user <- curveUser, MaxFaults <- MaxCurveFaults, MaxUser <- MaxCurveUser,
       Unknown <- NoReading

ASSUME CurveAssumed == Curve!CurveAssumption

CurveSpec == Curve!Spec
CurveFairSpec == Curve!FairSpec

\* A user who takes the target over is overruled by the poll that was already
\* under way, and otherwise only by polls that did not see HA's entities
\* (brain/floorheating.go:153-157).
ManualOverruledOnce == Curve!ManualOverruledOnce

\* A target that is written lies between the table's lowest and its highest
\* (floorheating/floorheating.go:257-294, 309-319).
TargetWithinCurve == Curve!TargetWithinCurve

\* In settled weather, above the coldest row, the target gets to the curve's
\* and stays (floorheating/floorheating.go:296-306).
TargetReachesCurve == Curve!TargetReachesCurve

\* The comment at floorheating/floorheating.go:286: below the coldest row the
\* first row's target is taken.
FirstRowServesTheCold == Curve!FirstRowServesTheCold
=============================================================================
