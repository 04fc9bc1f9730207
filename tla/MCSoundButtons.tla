--------------------------- MODULE MCSoundButtons ---------------------------
(* Two zones that share the queue: a radio zone and the living room.  Two   *)
(* groups, in one of which both clients begin, and two streams.            *)
EXTENDS SoundButtons

MCZones == <<"sauna", "elutuba">>
MCStreams == <<"SkyPlus", "SpaMusic">>
MCZoneStream == [z \in {"sauna", "elutuba"} |->
                   IF z = "sauna" THEN "SpaMusic" ELSE "SkyPlus"]
\* the house is silent, or plays everywhere
MCAtStart == {[c \in {"sauna", "elutuba"} |-> m] : m \in BOOLEAN}
=============================================================================
