----------------------------- MODULE FloorCover -----------------------------
(***************************************************************************)
(* The mixing cover of the floor heating: with every poll of               *)
(* brain/brain.go SetFloorHeatingCoverPosition of                          *)
(* floorheating/floorheating.go moves the cover a step when the water is   *)
(* too cold or too warm and the last move is a minute old, as far as the   *)
(* table floor_heating_controller tells.  The command goes to the ESPHome  *)
(* device over its native API, which ends the whole process when the       *)
(* device cannot be reached.                                               *)
(*                                                                         *)
(* The gap is the target minus the temperature of the water, in tenths of  *)
(* a degree; time passes in ticks, of which Interval make the minute.      *)
(***************************************************************************)
EXTENDS Integers

CONSTANTS
  Gaps,        \* gaps between target and water temperature that occur
  Full,        \* the position of the open cover, 100 in the code
  Interval,    \* ticks between two moves
  Unknown,     \* a sensor never parsed, a row not there
  MaxFaults,   \* bound: failing calls, commands without answer, crashes
  MaxUser      \* bound: switching manual operation

CoverAssumption ==
  /\ Gaps \subseteq Int
  /\ Full \in Nat /\ Interval \in Nat \ {0} /\ MaxFaults \in Nat /\ MaxUser \in Nat
  /\ Unknown \notin Int

VARIABLES
  gap,         \* the house
  pos,         \* the cover's position
  shown,       \* its position in HA
  manual,      \* HA: the switch "manual water open control"
  seen,        \* the values parsed last
  at,          \* where the loop is
  age,         \* floor_heating_controller: ticks since last_state_change, at most Interval
  row,         \* SetFloorHeatingCoverPosition: there was a row when it began
  since,       \* history: ticks since the last command, at most Interval
  unsaved,     \* history: the time of the last command did not get into the table
  uncounted,   \* history: commands that the day statistics miss
  faults, user

house == <<gap, pos, manual>>
history == <<since, unsaved, uncounted>>
vars == <<gap, pos, shown, manual, seen, at, age, row, since, unsaved, uncounted, faults, user>>

Fault == faults < MaxFaults /\ faults' = faults + 1
Older(n) == IF n = Unknown THEN Unknown ELSE IF n < Interval THEN n + 1 ELSE n
Nothing == [gap |-> Unknown, pos |-> Unknown, manual |-> FALSE]
Size(n) == IF n < 0 THEN -n ELSE n

-----------------------------------------------------------------------------
(* The decision. *)

\* 5, 4 or 3 per cent, the closer the smaller
Steps(g) ==
  (IF Size(g) <= 20 THEN {3} ELSE {}) \cup (IF Size(g) \in 20 .. 30 THEN {4} ELSE {})
    \cup (IF Size(g) >= 30 THEN {5} ELSE {})

\* open above a gap of 0.4 degrees, close below -1; on a border the floating
\* point difference of the two temperatures decides
NewPositions(g, p) ==
  (IF g >= 4 THEN {p + s : s \in Steps(g)} ELSE {})
    \cup (IF g <= -10 THEN {p - s : s \in Steps(g)} ELSE {})
    \cup (IF g \in -10 .. 4 THEN {p} ELSE {})

\* mutants of Due: a tick early; no row, no move
DueEarly == IF age = Unknown THEN TRUE ELSE age >= Interval - 1
DueByRow == IF age = Unknown THEN FALSE ELSE age >= Interval

\* the last move known to the table is old enough
Due == IF age = Unknown THEN TRUE ELSE age >= Interval

\* mutant of InReach: the end stops are not respected
InReachBelow(p) == p >= 0

InReach(p) == p \in 0 .. Full

\* there is something to decide
Ready == at = "decide" /\ ~seen.manual /\ seen.gap # Unknown /\ seen.pos # Unknown /\ Due

\* the positions that can be asked for, and those of them that mean a move
Wanted == IF Ready THEN NewPositions(seen.gap, seen.pos) ELSE {}
Moves == {p \in Wanted : p # seen.pos /\ InReach(p)}

-----------------------------------------------------------------------------
(* The loop. *)

\* what is not found, or no number, keeps its value; the gap of two readings
\* of different polls can be any
Fetch ==
  /\ at = "wait" /\ at' = "decide"
  /\ \/ seen' = [gap |-> gap, pos |-> shown, manual |-> manual] /\ UNCHANGED faults
     \/ Fault /\ \E g \in {seen.gap, gap} \cup (IF seen.gap = Unknown THEN {} ELSE Gaps),
                    p \in {seen.pos, shown}, m \in {seen.manual, manual} :
                   seen' = [gap |-> g, pos |-> p, manual |-> m]
  /\ UNCHANGED <<house, shown, age, row, history, user>>

\* manual operation, nothing known yet, too early, in the band or at the end;
\* or the database fails
Skip ==
  /\ at = "decide" /\ at' = "wait"
  /\ IF Wanted # {} /\ Moves = Wanted THEN Fault ELSE UNCHANGED faults
  /\ UNCHANGED <<house, shown, seen, age, row, history, user>>

Count == uncounted' = uncounted + 1

\* SetCoverPosition
MoveCover ==
  /\ pos' \in Moves
  /\ row' = (age # Unknown)
  /\ since' = 0 /\ Count
  /\ at' = "save"
  /\ UNCHANGED <<gap, shown, manual, seen, age, unsaved, faults, user>>

\* the device does not answer any more once connected: moved or not, an error
MoveFails ==
  /\ Fault
  /\ at' = "wait"
  /\ \E p \in Moves :
       \/ UNCHANGED <<pos, history>>
       \/ pos' = p /\ since' = 0 /\ unsaved' = TRUE /\ Count
  /\ UNCHANGED <<gap, shown, manual, seen, age, row, user>>

\* the device cannot be reached: log.Fatalln
MoveKills ==
  /\ Moves # {}
  /\ Fault
  /\ at' = "down" /\ seen' = Nothing
  /\ UNCHANGED <<house, shown, age, row, history, user>>

\* mutant of SaveTime: the row is made once and not touched again
SaveTimeOnce ==
  \/ age' = (IF row THEN age ELSE 0) /\ unsaved' = FALSE /\ UNCHANGED faults
  \/ Fault /\ unsaved' = TRUE /\ UNCHANGED age

\* FloorHeatingControllerLastUpdateUpsert, an error is only logged
SaveTime ==
  \/ age' = 0 /\ unsaved' = FALSE /\ UNCHANGED faults
  \/ Fault /\ unsaved' = TRUE /\ UNCHANGED age

Save ==
  /\ at = "save" /\ at' = IF row THEN "count" ELSE "wait"
  /\ SaveTime
  /\ UNCHANGED <<house, shown, seen, row, since, uncounted, user>>

\* mutant of SaveStats: the first row of a day is not made
SaveStatsNever ==
  /\ at = "count" /\ at' = "wait" /\ row' = FALSE
  /\ UNCHANGED <<house, shown, seen, age, history, faults, user>>

\* FloorHeatingControllerIncDayStatsUpsert, when there was a row at the beginning
SaveStats ==
  /\ at = "count" /\ at' = "wait" /\ row' = FALSE
  /\ \/ uncounted' = uncounted - 1 /\ UNCHANGED faults
     \/ Fault /\ UNCHANGED uncounted
  /\ UNCHANGED <<house, shown, seen, age, since, unsaved, user>>

Loop == Fetch \/ Skip \/ MoveCover \/ MoveFails \/ MoveKills \/ Save \/ SaveStats

Crash ==
  /\ at # "down" /\ at' = "down"
  /\ Fault
  /\ seen' = Nothing /\ row' = FALSE
  /\ unsaved' = (unsaved \/ at = "save")
  /\ UNCHANGED <<house, shown, age, since, uncounted, user>>

Restart ==
  /\ at = "down" /\ at' = "wait"
  /\ UNCHANGED <<house, shown, seen, age, row, history, faults, user>>

-----------------------------------------------------------------------------
(* The house. *)

process == <<seen, at, row>>

Tick ==
  /\ age' = Older(age) /\ since' = Older(since)
  /\ UNCHANGED <<house, shown, process, unsaved, uncounted, faults, user>>

WaterTurns ==
  /\ gap' \in Gaps \ {gap}
  /\ UNCHANGED <<pos, shown, manual, process, age, history, faults, user>>

UserSwitchesManual ==
  /\ user < MaxUser /\ user' = user + 1
  /\ manual' = ~manual
  /\ UNCHANGED <<gap, pos, shown, process, age, history, faults>>

HaUpdates ==
  /\ shown' = pos
  /\ UNCHANGED <<house, process, age, history, faults, user>>

Init ==
  /\ gap \in Gaps /\ pos \in 0 .. Full /\ shown = pos /\ manual \in BOOLEAN
  /\ seen = Nothing /\ at = "wait"
  /\ age \in {Unknown, Interval} /\ row = FALSE
  /\ since = Interval /\ unsaved = FALSE /\ uncounted = 0
  /\ faults = 0 /\ user = 0

Next == Loop \/ Crash \/ Restart \/ Tick \/ WaterTurns \/ UserSwitchesManual \/ HaUpdates

Spec == Init /\ [][Next]_vars

\* Time passes, the ticker keeps the loop going, HA hears of the cover, a dead
\* process is started again.
FairSpec ==
  Spec /\ WF_vars(Loop) /\ WF_vars(Restart) /\ WF_vars(Tick) /\ WF_vars(HaUpdates)

-----------------------------------------------------------------------------
(* Properties. *)

\* Types; a position is never outside 0 .. Full.
TypeOK ==
  /\ gap \in Gaps /\ pos \in 0 .. Full /\ shown \in 0 .. Full /\ manual \in BOOLEAN
  /\ seen \in [gap : Gaps \cup {Unknown}, pos : 0 .. Full \cup {Unknown}, manual : BOOLEAN]
  /\ at \in {"wait", "decide", "save", "count", "down"}
  /\ age \in 0 .. Interval \cup {Unknown} /\ row \in BOOLEAN
  /\ since \in 0 .. Interval /\ unsaved \in BOOLEAN /\ uncounted \in Nat
  /\ faults \in 0 .. MaxFaults /\ user \in 0 .. MaxUser

\* Two commands are at least the interval apart, also when the process was
\* killed and started in between, unless the time of the first did not get
\* into the table (floorheating/floorheating.go:346-364, 417-420).
CoverPaced == [][ MoveCover => since = Interval \/ unsaved ]_vars

\* What CoverPaced rests on: the table is never older than the last command.
TableInTime ==
  at # "save" /\ ~unsaved /\ since < Interval => age # Unknown /\ age <= since

\* Between two commands the day statistics miss at most the command that made the row, and one for
\* each failure (floorheating/floorheating.go:422-427).
StatsCountMoves == at \notin {"save", "count"} => uncounted <= 1 + faults

\* While the water stays too cold under automatic operation the cover ends
\* open as far as whole steps go (floorheating/floorheating.go:366-403).
CoverOpens == <>[](gap > 4 /\ ~manual) => <>[](pos + 5 > Full)
=============================================================================
