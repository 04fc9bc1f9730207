------------------------------ MODULE MCEmodul ------------------------------
(* Emodul for TLC: two temperatures, two requests at a time. *)
EXTENDS Emodul

MCStart == [top |-> 1, bottom |-> 1]
\* both targets up, and both down
MCJobs == {[top |-> 2, bottom |-> 2], [top |-> 1, bottom |-> 1]}
=============================================================================
