---------------------------- MODULE FloorValves ----------------------------
(***************************************************************************)
(* The floor heating valves: the loop of brain/brain.go that every ten     *)
(* seconds fetches Home Assistant and the Uponor controller, saves the     *)
(* thermostats, and lets floorheating/floorheating.go open or close the    *)
(* valves of the rooms over MQTT (QoS 0).  The other jobs of the loop are  *)
(* left out; the water temperature is in HeatingCurve.                       *)
(*                                                                         *)
(* A temperature is its distance from the room's target, in tenths of a    *)
(* degree.  Temperatures are float32 and the gaps 0.3 and -0.1: at the two *)
(* borders rounding decides, so both outcomes are possible there.  The     *)
(* valves of one poll are commanded in any order.                          *)
(***************************************************************************)
EXTENDS Integers

CONSTANTS
  Rooms,       \* thermostats that drive valves
  WallRooms,   \* those of the Uponor controller, the others are entities of HA
  Valves,
  RoomOf,      \* resolveValves: the room that drives a valve
  Esik,        \* the valve of the entrance, kept open in the cold months
  Readings,    \* temperatures that occur
  NoReading,   \* no row in the thermostat table
  MaxFaults,   \* bound: failing calls, lost commands and entities, crashes
  MaxUser      \* bound: the user's own switching

ASSUME ValvesAssumption ==
  /\ WallRooms \subseteq Rooms
  /\ RoomOf \in [Valves -> Rooms]
  /\ Readings \subseteq Int /\ Readings # {}
  /\ NoReading \notin Int
  /\ MaxFaults \in Nat /\ MaxUser \in Nat

VARIABLES
  reading,     \* the rooms
  saved,       \* thermostat table
  valve,       \* the valves: "on" is open
  ha,          \* their state in HA
  seen,        \* b.floorHeatingValves, "missing" is nil
  manual,      \* HA: the switch "valves manual operation" is on
  entity,      \* HA: that switch's entity is "there", "unavailable" or "missing"
  manualSeen,  \* b.floorHeatingValvesManualOperation is on
  priced,      \* b.nordpoolPrices has prices of today
  winter,      \* the month is none of May .. September
  at,          \* where the loop is
  todo,        \* notInSync of this poll: "on", "off", or "keep" for the others
  left,        \* valves of todo not commanded yet
  recorded,    \* floor_heating_valve table, "none" without a row
  handsOff,    \* history: this process knows that the user took over
  guarded,     \* history: this winter this process has seen the Esik valve
  last,        \* history: last command of each of the other valves and the temperature behind it
  faults, user

house == <<reading, valve, manual, winter>>
history == <<handsOff, guarded, last>>
vars == <<reading, saved, valve, ha, seen, manual, entity, manualSeen, priced, winter,
          at, todo, left, recorded, handsOff, guarded, last, faults, user>>

Fault == faults < MaxFaults /\ faults' = faults + 1
UserActs == user < MaxUser /\ user' = user + 1

Others == Valves \ {Esik}
Idle == [v \in Valves |-> "keep"]

-----------------------------------------------------------------------------
(* What the loop decides. *)

\* mutant of Action: the lower border has the upper one's gap
ActionNoBand(t) ==
  IF t = NoReading THEN {"keep"} ELSE (IF t >= 3 THEN {"off"} ELSE {}) \cup (IF t <= 3 THEN {"on"} ELSE {})

\* OFF above target + 0.3, ON below target + 0.1
Action(t) ==
  IF t = NoReading THEN {"keep"}
  ELSE (IF t >= 3 THEN {"off"} ELSE {}) \cup (IF t <= 1 THEN {"on"} ELSE {})
         \cup (IF t \in 1 .. 3 THEN {"keep"} ELSE {})

\* mutants of Wanted: the entrance like any other valve; the table of commands
\* is taken for the state of the valve
WantedUnforced(v, action) ==
  IF action = "keep" \/ action = seen[v] THEN "keep" ELSE action

WantedByRecord(v, action) ==
  IF action = "keep" THEN "keep"
  ELSE LET to == IF v = Esik /\ winter /\ seen[v] # "missing" THEN "on" ELSE action
       IN IF recorded[v] = to THEN "keep" ELSE to

\* turnFloorHeatingValves: nothing for a valve in sync; the entrance is forced
\* ON in winter, but only when its state was ever parsed
Wanted(v, action) ==
  IF action = "keep" THEN "keep"
  ELSE LET to == IF v = Esik /\ winter /\ seen[v] # "missing" THEN "on" ELSE action
       IN IF seen[v] = to THEN "keep" ELSE to

-----------------------------------------------------------------------------
(* The loop. *)

\* ha.FetchData fails: nothing happens in this poll
FetchFails ==
  /\ at = "wait"
  /\ Fault
  /\ UNCHANGED <<house, saved, ha, seen, entity, manualSeen, priced, at, todo, left,
                 recorded, history, user>>

\* what the thermostat table may hold after the poll: the reading, the old row
\* (a failing controller, entity or database), or the nonsense the controller's
\* text is parsed to
SavedOnFault(r) ==
  {saved[r]} \cup (IF r \in WallRooms
                     THEN {t \in Readings : \A u \in Readings : u <= t}
                          \cup {t \in Readings : \A u \in Readings : t <= u}
                     ELSE {})

\* the state of the manual switch in HA is "on"
ManualShown == manual /\ entity = "there"

\* mutant of Parse: a switch that is not found counts as off
ParseForgets ==
  /\ seen' = [v \in Valves |-> IF ha[v] = "missing" THEN seen[v] ELSE ha[v]]
  /\ manualSeen' = ManualShown

\* FloorHeating: an entity that is not found keeps the value parsed before; an
\* unavailable one is parsed, its state is not "on"
Parse ==
  /\ seen' = [v \in Valves |-> IF ha[v] = "missing" THEN seen[v] ELSE ha[v]]
  /\ manualSeen' = IF entity = "missing" THEN manualSeen ELSE ManualShown

\* fetchData and the parsing half of onDataUpdate; without prices of today
\* updateData ends here
Fetch ==
  /\ at = "wait"
  /\ Parse
  /\ handsOff' = IF entity = "missing" THEN handsOff ELSE ManualShown
  /\ guarded' = (guarded \/ (winter /\ ha[Esik] # "missing"))
  /\ \/ /\ saved' = [r \in Rooms |-> reading[r]]
        /\ priced' = TRUE /\ UNCHANGED faults
     \/ /\ Fault
        /\ \/ /\ \E r \in Rooms, t \in Readings \cup {NoReading} :
                   t \in SavedOnFault(r) /\ saved' = [reading EXCEPT ![r] = t]
              /\ priced' = TRUE
           \/ saved' = reading /\ priced' \in {priced, FALSE}
  /\ at' = IF priced' THEN "decide" ELSE "wait"
  /\ UNCHANGED <<house, ha, entity, todo, left, recorded, last, user>>

\* UpdateFloorheatingValves does nothing in manual operation
LeaveToUser ==
  /\ at = "decide" /\ manualSeen
  /\ at' = "wait"
  /\ UNCHANGED <<house, saved, ha, seen, entity, manualSeen, priced, todo, left, recorded,
                 history, faults, user>>

\* CheckFloorHeatingValves: the database cannot be read
DecideFails ==
  /\ at = "decide" /\ ~manualSeen
  /\ Fault
  /\ at' = "wait"
  /\ UNCHANGED <<house, saved, ha, seen, entity, manualSeen, priced, todo, left, recorded,
                 history, user>>

\* CheckFloorHeatingValves: what each room asks of its valves
Decide ==
  /\ at = "decide" /\ ~manualSeen
  /\ \E action \in [Rooms -> {"on", "off", "keep"}] :
       /\ \A r \in Rooms : action[r] \in Action(saved[r])
       /\ todo' = [v \in Valves |-> Wanted(v, action[RoomOf[v]])]
  /\ left' = {v \in Valves : todo'[v] # "keep"}
  /\ at' = IF left' = {} THEN "wait" ELSE "publish"
  /\ last' = [v \in Others |-> IF todo'[v] = "keep" THEN last[v]
                               ELSE [to |-> todo'[v], t |-> saved[RoomOf[v]]]]
  /\ UNCHANGED <<house, saved, ha, seen, entity, manualSeen, priced, recorded, handsOff,
                 guarded, faults, user>>

\* MqPublishData: the command reaches the valve, or an error or QoS 0 loses it
Publish(v) ==
  /\ at = "publish" /\ v \in left
  /\ left' = left \ {v}
  /\ at' = IF left' = {} THEN "save" ELSE "publish"
  /\ \/ valve' = [valve EXCEPT ![v] = todo[v]] /\ UNCHANGED faults
     \/ Fault /\ UNCHANGED valve
  /\ UNCHANGED <<reading, manual, winter, saved, ha, seen, entity, manualSeen, priced, todo,
                 recorded, history, user>>

\* waitOnToken times out: having received from the timer it waits for the
\* timer once more, for ever
PublishHangs(v) ==
  /\ at = "publish" /\ v \in left
  /\ Fault
  /\ at' = "hung"
  /\ UNCHANGED <<house, saved, ha, seen, entity, manualSeen, priced, todo, left, recorded,
                 history, user>>

\* FloorHeatingValveUpsert, of failed commands too; an error is only logged
Save ==
  /\ at = "save" /\ at' = "wait"
  /\ \/ /\ recorded' = [v \in Valves |-> IF todo[v] = "keep" THEN recorded[v] ELSE todo[v]]
        /\ UNCHANGED faults
     \/ Fault /\ UNCHANGED recorded
  /\ todo' = Idle
  /\ UNCHANGED <<house, saved, ha, seen, entity, manualSeen, priced, left, history, user>>

Loop ==
  \/ FetchFails \/ Fetch \/ LeaveToUser \/ DecideFails \/ Decide
  \/ \E v \in Valves : Publish(v) \/ PublishHangs(v)
  \/ Save

\* the process dies and forgets what it has seen
Crash ==
  /\ at # "down" /\ at' = "down"
  /\ Fault
  /\ seen' = [v \in Valves |-> "missing"]
  /\ manualSeen' = FALSE /\ priced' = FALSE
  /\ todo' = Idle /\ left' = {}
  /\ handsOff' = FALSE /\ guarded' = FALSE
  /\ UNCHANGED <<house, saved, ha, entity, recorded, last, user>>

\* NewBrain and Run
Restart ==
  /\ at = "down" /\ at' = "wait"
  /\ UNCHANGED <<house, saved, ha, seen, entity, manualSeen, priced, todo, left, recorded,
                 history, faults, user>>

-----------------------------------------------------------------------------
(* The house and Home Assistant. *)

process == <<saved, seen, manualSeen, priced, at, todo, left, recorded, last>>

RoomChanges(r) ==
  /\ \E t \in Readings \ {reading[r]} : reading' = [reading EXCEPT ![r] = t]
  /\ UNCHANGED <<process, valve, ha, manual, entity, winter, handsOff, guarded, faults, user>>

SeasonTurns ==
  /\ UserActs
  /\ winter' = ~winter /\ guarded' = FALSE
  /\ UNCHANGED <<process, reading, valve, ha, manual, entity, handsOff, faults>>

UserSwitchesValve(v) ==
  /\ UserActs
  /\ valve' = [valve EXCEPT ![v] = IF @ = "on" THEN "off" ELSE "on"]
  /\ UNCHANGED <<process, reading, ha, manual, entity, winter, handsOff, guarded, faults>>

UserSwitchesManual ==
  /\ UserActs
  /\ manual' = ~manual /\ handsOff' = FALSE
  /\ UNCHANGED <<process, reading, valve, ha, entity, winter, guarded, faults>>

\* a valve reports its state to HA, or drops out
HaUpdates(v) ==
  /\ ha[v] # valve[v]
  /\ ha' = [ha EXCEPT ![v] = valve[v]]
  /\ UNCHANGED <<process, house, entity, handsOff, guarded, faults, user>>

HaLoses(v) ==
  /\ Fault
  /\ ha' \in {[ha EXCEPT ![v] = "unavailable"], [ha EXCEPT ![v] = "missing"]}
  /\ UNCHANGED <<process, house, entity, handsOff, guarded, user>>

\* the entity of the manual switch goes (HA restarts) and comes back
ManualGone ==
  /\ entity = "there" /\ entity' \in {"unavailable", "missing"}
  /\ Fault
  /\ UNCHANGED <<process, house, ha, handsOff, guarded, user>>

ManualBack ==
  /\ entity # "there" /\ entity' = "there"
  /\ UNCHANGED <<process, house, ha, handsOff, guarded, faults, user>>

House ==
  \/ \E r \in Rooms : RoomChanges(r)
  \/ SeasonTurns \/ UserSwitchesManual
  \/ \E v \in Valves : UserSwitchesValve(v) \/ HaLoses(v)
  \/ ManualGone

Init ==
  /\ reading \in [Rooms -> Readings]
  /\ saved = [r \in Rooms |-> NoReading]
  /\ valve \in [Valves -> {"on", "off"}]
  /\ ha = valve
  /\ seen = [v \in Valves |-> "missing"]
  /\ manual \in BOOLEAN /\ entity = "there" /\ manualSeen = FALSE
  /\ priced = FALSE /\ winter \in BOOLEAN
  /\ at = "wait" /\ todo = Idle /\ left = {}
  /\ recorded = [v \in Valves |-> "none"]
  /\ handsOff = FALSE /\ guarded = FALSE
  /\ last = [v \in Others |-> [to |-> "none", t |-> NoReading]]
  /\ faults = 0 /\ user = 0

Next ==
  \/ Loop \/ Crash \/ Restart \/ House \/ ManualBack
  \/ \E v \in Valves : HaUpdates(v)

Spec == Init /\ [][Next]_vars

\* The ticker keeps the loop going, a dead process is started again, HA hears
\* of its valves and finds its entities again.
FairSpec ==
  /\ Spec
  /\ WF_vars(Loop) /\ WF_vars(Restart) /\ WF_vars(ManualBack)
  /\ \A v \in Valves : WF_vars(HaUpdates(v))

-----------------------------------------------------------------------------
(* Properties. *)

\* Types of the house, the tables and the loop.
TypeOK ==
  /\ reading \in [Rooms -> Readings]
  /\ saved \in [Rooms -> Readings \cup {NoReading}]
  /\ valve \in [Valves -> {"on", "off"}]
  /\ ha \in [Valves -> {"on", "off", "unavailable", "missing"}]
  /\ seen \in [Valves -> {"on", "off", "unavailable", "missing"}]
  /\ manual \in BOOLEAN /\ entity \in {"there", "unavailable", "missing"} /\ manualSeen \in BOOLEAN
  /\ priced \in BOOLEAN /\ winter \in BOOLEAN
  /\ at \in {"wait", "decide", "publish", "save", "hung", "down"}
  /\ todo \in [Valves -> {"on", "off", "keep"}]
  /\ left \subseteq {v \in Valves : todo[v] # "keep"}
  /\ recorded \in [Valves -> {"on", "off", "none"}]
  /\ handsOff \in BOOLEAN /\ guarded \in BOOLEAN
  /\ last \in [Others -> [to : {"on", "off", "none"}, t : Readings \cup {NoReading}]]
  /\ faults \in 0 .. MaxFaults /\ user \in 0 .. MaxUser

\* A process that found the manual switch on once commands no valve until the
\* user switches it off again, also while the switch is missing from HA, unless
\* HA calls the switch unavailable: that counts as off
\* (brain/floorheating.go:12-18, 135-141).
ManualHolds == [][ \A v \in Valves : Publish(v) => ~handsOff ]_vars

\* In a winter in which this process has seen the entrance's valve, it never
\* closes it, whatever HA says of the valve later
\* (floorheating/floorheating.go:484-505).
EsikWarmOnceSeen == [][ Publish(Esik) /\ todo[Esik] = "off" => ~guarded ]_vars

\* A valve other than the entrance's is commanded the other way round only
\* when its room's saved temperature has moved by two tenths or more since, so
\* that a reading at a border cannot make the valve chatter
\* (floorheating/floorheating.go:448-462, 572-573).
NoChatter ==
  [][ \A v \in Others :
        last'[v] # last[v] /\ last[v].to \notin {"none", last'[v].to}
          => \/ last'[v].t >= last[v].t + 2
             \/ last[v].t >= last'[v].t + 2 ]_vars

\* A room that stays too warm has its valves closed in the end although
\* commands are lost and the user interferes, when operation is automatic, the
\* entrance in winter apart, unless the loop hangs in an MQTT timeout.
ValvesSettle ==
  \A v \in Valves :
    <>[](~manual /\ reading[RoomOf[v]] > 3 /\ ~(v = Esik /\ winter))
      => <>[](valve[v] = "off") \/ <>(at = "hung")
=============================================================================
