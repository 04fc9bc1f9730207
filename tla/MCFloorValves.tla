--------------------------- MODULE MCFloorValves ---------------------------
(* FloorValves with one room of the Uponor controller and its two valves,   *)
(* the entrance's and the kitchen's (floorheating.go:588-591).              *)
EXTENDS FloorValves

CONSTANTS esik, kitchen, hall

MCRooms == {hall}
MCValves == {esik, kitchen}
MCRoomOf == [v \in MCValves |-> hall]
MCReadings == {1, 3, 4}
=============================================================================
