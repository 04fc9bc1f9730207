--------------------------- MODULE MCHeatingCurve ---------------------------
(* HeatingCurve with tables whose targets fall, fall steeply, jump at two    *)
(* rows of one temperature, and with a single row.                           *)
EXTENDS WaterTarget

Of(e, t) == [ext |-> e, target |-> t]

MCCurves ==
  {{Of(-5, 40), Of(0, 35), Of(10, 28)},
   {Of(-1, 40), Of(-1, 38), Of(2, 37)},
   {Of(-5, 30)}}
MCColdOutside == {-50, 5, 120}
MCDegrees == -20 .. 20
MCOffsets == {0, 2}
MCUserTargets == {300, 355}
=============================================================================
