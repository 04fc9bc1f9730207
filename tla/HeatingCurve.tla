---------------------------- MODULE HeatingCurve ----------------------------
(***************************************************************************)
(* The heating curve: with every poll of brain/brain.go the function       *)
(* UpdateFloorHeatingTargetTemp of floorheating/floorheating.go reads the   *)
(* outside temperature, interpolates the table heating_curve and writes the *)
(* water's target temperature to an input_number of Home Assistant, unless  *)
(* the user has taken the target over.                                      *)
(*                                                                         *)
(* Temperatures measured or shown are in tenths of a degree, those of the   *)
(* table and of the offset in degrees.                                      *)
(***************************************************************************)
EXTENDS Integers

CONSTANTS
  Curves,      \* contents of the table, non-empty sets of rows
  Outside,     \* outside temperatures
  Offsets,     \* the user's offsets
  UserTargets, \* targets the user sets by hand
  Degrees,     \* bound: the differences between rounded targets
  Unknown,     \* a sensor whose state was never parsed
  MaxFaults,   \* bound: failing calls and crashes
  MaxUser      \* bound: acts of the user

Row == [ext : Int, target : Int]

CurveAssumption ==
  /\ \A c \in Curves : c \subseteq Row /\ c # {}
  /\ Outside \subseteq Int /\ Offsets \subseteq Int /\ UserTargets \subseteq Int
  /\ Degrees \subseteq Int
  /\ Unknown \notin Int
  /\ MaxFaults \in Nat /\ MaxUser \in Nat

VARIABLES
  curve,       \* table heating_curve
  outside,     \* the boiler's sensor ("katel") and the heat pump's
  offset,      \* HA: input number of the offset
  winterMode,  \* HA: the boiler is in winter mode
  manual,      \* HA: the switch "curve target temperature manual operation"
  target,      \* HA: input number of the water's target
  seen,        \* the values parsed last, Unknown is nil
  at,          \* where the loop is
  late,        \* history: writes since the user took over
  faults, user

house == <<curve, outside, offset, winterMode, manual>>
vars == <<curve, outside, offset, winterMode, manual, target, seen, at, late, faults, user>>

Fault == faults < MaxFaults /\ faults' = faults + 1
UserActs == user < MaxUser /\ user' = user + 1

\* what a new process knows: without an offset it counts as 0
Nothing == [katel |-> Unknown, pump |-> Unknown, offset |-> 0, winterMode |-> FALSE,
            manual |-> FALSE, target |-> Unknown]

-----------------------------------------------------------------------------
(* The curve. *)

Below(c, t) == {r \in c : 10 * r.ext < t}
Above(c, t) == {r \in c : 10 * r.ext >= t}
Coldest(rows) == {r \in rows : \A s \in rows : r.ext <= s.ext}
Warmest(rows) == {r \in rows : \A s \in rows : s.ext <= r.ext}

\* math.Round of low.target + n / d: at an exact half the error of the
\* floating point division may turn it either way
Rounded(n, d) == {k \in Degrees : 2 * k * d <= 2 * n + d /\ 2 * n - d <= 2 * k * d}

\* mutant of Interpolated: the fraction is taken from the warmer row
InterpolatedFromAbove(low, high, t) ==
  {high.target + k : k \in Rounded((t - 10 * low.ext) * (high.target - low.target),
                                   10 * (high.ext - low.ext))}

Interpolated(low, high, t) ==
  {low.target + k : k \in Rounded((t - 10 * low.ext) * (high.target - low.target),
                                  10 * (high.ext - low.ext))}

\* The answers of the curve; rows of the same temperature are sorted in any
\* order.  There is none when the coldest row is not below t.
Answers(c, t) ==
  IF Above(c, t) = {}
    THEN {r.target : r \in Warmest(c)}
    ELSE UNION {Interpolated(low, high, t) :
                  low \in Warmest(Below(c, t)), high \in Coldest(Above(c, t))}

\* the heat pump's sensor replaces the boiler's when that is not in winter mode
OutsideSeen == IF ~seen.winterMode /\ seen.pump # Unknown THEN seen.pump ELSE seen.katel

\* int() of a float
Truncated(t) == IF t >= 0 THEN t \div 10 ELSE -((-t) \div 10)

-----------------------------------------------------------------------------
(* The loop. *)

Shown == [katel |-> outside.katel, pump |-> outside.pump, offset |-> offset,
          winterMode |-> winterMode, manual |-> manual, target |-> target]

\* mutant of Parse: the process remembers its own target, not HA's
ParseOwnTarget ==
  \/ seen' = [Shown EXCEPT !.target = IF seen.target = Unknown THEN target ELSE seen.target]
       /\ UNCHANGED faults
  \/ Fault /\ \E missing \in SUBSET DOMAIN Shown :
       seen' = [k \in DOMAIN Shown |-> IF k \in missing THEN seen[k] ELSE Shown[k]]

\* mutant of Parse: manual operation is looked at only once
ParseManualOnce ==
  \/ seen' = [Shown EXCEPT !.manual = IF seen.target = Unknown THEN manual ELSE seen.manual]
       /\ UNCHANGED faults
  \/ Fault /\ \E missing \in SUBSET DOMAIN Shown :
       seen' = [k \in DOMAIN Shown |-> IF k \in missing THEN seen[k] ELSE Shown[k]]

\* entities that HA does not have, or not with a number, keep the old value
Parse ==
  \/ seen' = Shown /\ UNCHANGED faults
  \/ Fault /\ \E missing \in SUBSET DOMAIN Shown :
       seen' = [k \in DOMAIN Shown |-> IF k \in missing THEN seen[k] ELSE Shown[k]]

Fetch ==
  /\ at = "wait" /\ at' = "decide"
  /\ Parse
  /\ UNCHANGED <<house, target, late, user>>

\* ready to look at the curve
Ready == at = "decide" /\ ~seen.manual /\ seen.target # Unknown /\ seen.katel # Unknown

\* manual operation, or no target or outside temperature yet
Skip ==
  /\ at = "decide" /\ ~Ready
  /\ at' = "wait"
  /\ UNCHANGED <<house, target, seen, late, faults, user>>

\* the database, or HA's service call, fails
UpdateFails ==
  /\ Ready /\ Fault
  /\ at' = "wait"
  /\ UNCHANGED <<house, target, seen, late, user>>

\* the target is written when it differs from the one in HA, as far as that was seen
Update ==
  /\ Ready
  /\ \E answer \in Answers(curve, OutsideSeen) :
       LET new == answer + seen.offset
       IN IF Truncated(seen.target) = new THEN UNCHANGED <<target, late>>
          ELSE target' = 10 * new /\ late' = IF manual THEN late + 1 ELSE late
  /\ at' = "wait"
  /\ UNCHANGED <<house, seen, faults, user>>

\* lowerItem is nil when not even the coldest row is below the temperature:
\* the call of interpolate kills the process
Panic ==
  /\ Ready
  /\ Below(curve, OutsideSeen) = {}
  /\ at' = "down" /\ seen' = Nothing
  /\ UNCHANGED <<house, target, late, faults, user>>

Loop == Fetch \/ Skip \/ UpdateFails \/ Update \/ Panic

Crash ==
  /\ at # "down" /\ at' = "down"
  /\ Fault
  /\ seen' = Nothing
  /\ UNCHANGED <<house, target, late, user>>

Restart ==
  /\ at = "down" /\ at' = "wait"
  /\ UNCHANGED <<house, target, seen, late, faults, user>>

-----------------------------------------------------------------------------
(* The weather and the user. *)

\* the sensors of the boiler and of the heat pump follow the weather
WeatherTurns(s) ==
  /\ \E t \in Outside \ {outside[s]} : outside' = [outside EXCEPT ![s] = t]
  /\ UNCHANGED <<curve, offset, winterMode, manual, target, seen, at, late, faults, user>>

BoilerMode ==
  /\ UserActs
  /\ winterMode' = ~winterMode
  /\ UNCHANGED <<curve, outside, offset, manual, target, seen, at, late, faults>>

UserTurnsOffset ==
  /\ UserActs
  /\ offset' \in Offsets \ {offset}
  /\ UNCHANGED <<curve, outside, winterMode, manual, target, seen, at, late, faults>>

UserSetsTarget ==
  /\ UserActs
  /\ target' \in UserTargets \ {target}
  /\ UNCHANGED <<house, seen, at, late, faults>>

UserSwitchesManual ==
  /\ UserActs
  /\ manual' = ~manual /\ late' = 0
  /\ UNCHANGED <<curve, outside, offset, winterMode, target, seen, at, faults>>

House ==
  \/ \E s \in {"katel", "pump"} : WeatherTurns(s)
  \/ BoilerMode \/ UserTurnsOffset \/ UserSetsTarget \/ UserSwitchesManual

Init ==
  /\ curve \in Curves
  /\ outside \in [{"katel", "pump"} -> Outside]
  /\ offset \in Offsets /\ winterMode \in BOOLEAN /\ manual = FALSE
  /\ target \in UserTargets
  /\ seen = Nothing /\ at = "wait" /\ late = 0
  /\ faults = 0 /\ user = 0

Next == Loop \/ Crash \/ Restart \/ House

Spec == Init /\ [][Next]_vars

\* The ticker keeps the loop going and a dead process is started again.
FairSpec == Spec /\ WF_vars(Loop) /\ WF_vars(Restart)

-----------------------------------------------------------------------------
(* Properties. *)

Seen ==
  [katel : Outside \cup {Unknown}, pump : Outside \cup {Unknown}, offset : Int,
   winterMode : BOOLEAN, manual : BOOLEAN, target : Int \cup {Unknown}]

\* Types of the table, of HA's entities and of what was parsed.
TypeOK ==
  /\ curve \in Curves
  /\ outside \in [{"katel", "pump"} -> Outside]
  /\ offset \in Offsets /\ winterMode \in BOOLEAN /\ manual \in BOOLEAN
  /\ target \in Int
  /\ seen \in Seen
  /\ at \in {"wait", "decide", "down"}
  /\ late \in Nat /\ faults \in 0 .. MaxFaults /\ user \in 0 .. MaxUser

\* What the curve asks of the water lies between the lowest and the highest
\* target of the table, wherever the rows are and whatever is between them
\* (floorheating/floorheating.go:257-294, 309-319).
TargetWithinCurve ==
  [][ Update /\ target' # target =>
        \E low, high \in curve :
           10 * (low.target + seen.offset) <= target' /\ target' <= 10 * (high.target + seen.offset) ]_vars

\* A user who takes the target over is overruled by the poll that was already
\* under way, and otherwise only by polls that did not see HA's entities
\* (brain/floorheating.go:153-157).
ManualOverruledOnce == late <= 1 + faults

OutsideNow == IF winterMode THEN outside.katel ELSE outside.pump

\* With settled weather above the coldest row and automatic operation the
\* target gets to the curve's and stays, whatever the user set it to, up to the
\* part of a degree that int() cuts off (floorheating/floorheating.go:296-306).
TargetReachesCurve ==
  (/\ <>[](~manual /\ Below(curve, outside.katel) # {} /\ Below(curve, outside.pump) # {})
   /\ <>[][FALSE]_house)
    => <>[](\E answer \in Answers(curve, OutsideNow) : Truncated(target) = answer + offset)

\* The comment at floorheating/floorheating.go:286: when one of the two rows
\* is missing, the first row's target temperature is taken.
FirstRowServesTheCold ==
  [][ at = "decide" /\ Ready /\ Below(curve, OutsideSeen) = {} /\ faults' = faults
        => /\ at' # "down"
           /\ \/ at' = "decide"
              \/ \E r \in Coldest(curve) : Truncated(target') = r.target + seen.offset ]_vars
=============================================================================
