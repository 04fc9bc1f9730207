----------------------------- MODULE MCHeatPump -----------------------------
(* HeatPump with days of six hours: a day with every level of prices, one of *)
(* them twice, a day one hour short, and a list with most prices missing.    *)
EXTENDS HeatPump

MCLists == {<<15, 30, 70, 90, 250, 90>>, <<60, 30, 90, 10, 60>>, <<50, 60>>}
MCRooms == {190, 230}
MCShifts == {0, -11}
MCAfternoon == {2, 3}
=============================================================================
