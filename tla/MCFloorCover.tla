---------------------------- MODULE MCFloorCover ----------------------------
(* FloorCover with a cover of seven steps of one per cent: the ends are two   *)
(* moves apart.                                                             *)
EXTENDS WaterMixing

MCGaps == {-30, 0, 4, 5}
=============================================================================
