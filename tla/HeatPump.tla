------------------------------ MODULE HeatPump ------------------------------
(***************************************************************************)
(* The heat pump and the dishwasher around the prices of electricity       *)
(* (brain/heatpump.go, brain/dishwasher.go): with every poll the brain      *)
(* plans the cheapest hours for the water tank, turns water and heating on  *)
(* and off by the price of the hour, sets the offset of the heating, and    *)
(* plans the dishwasher's start.                                           *)
(*                                                                         *)
(* Everything is told to inputs of Home Assistant, whose automations pass   *)
(* it on to the pump.  Each function makes its calls one after the other    *)
(* and returns at the first that fails; the next function runs all the same.*)
(***************************************************************************)
EXTENDS Integers, Sequences, FiniteSets, FiniteSetsExt

CONSTANTS
  Hours,       \* hours of a day (24)
  From, To,    \* hours the tank may be heated in, counted from today's midnight (21, 31)
  TankHours,   \* WaterTankHeatingLength (3)
  DishHours,   \* hours in a row for the dishwasher (4)
  DishTo,      \* ... before this hour of tomorrow (7)
  DishLeast,   \* shortest list the dishwasher is planned with (12)
  Afternoon,   \* hours in which the house is warmed up for the evening (13 .. 17 from
               \* October to April, none in summer)
  Lists,       \* price lists of a day, as the sensor may have them
  Rooms,       \* temperatures of the living room, tenths of a degree
  Shifts,      \* the user's shift of the offset
  Unknown,     \* a time that was never set or read
  MaxFaults,   \* bound: failing calls, entities that are missing, crashes
  MaxChanges   \* bound: hours that pass and acts of the house and of its users

ASSUME PumpAssumption ==
  /\ Hours \in Nat
  /\ TankHours \in 1 .. Hours - 1 /\ From \in 0 .. Hours - 1
  /\ To \in From + TankHours .. 2 * Hours
  /\ DishHours \in Nat \ {0} /\ DishTo \in DishHours .. Hours
  /\ DishLeast \in Nat /\ DishTo <= DishLeast
  /\ Lists \subseteq Seq(Int) /\ <<>> \notin Lists
  /\ Rooms \subseteq Int /\ Shifts \subseteq Int /\ 0 \in Shifts
  /\ Unknown \notin Int
  /\ MaxFaults \in Nat /\ MaxChanges \in Nat

VARIABLES
  hour,        \* hour of the day
  today, tomorrow, \* HA: the sensor's price lists, <<>> until they are known
  rotated,     \* HA: the sensor has today's list, not yesterday's
  signed,      \* the build converts a negative float to uint64 with its sign
  house,       \* HA: boiler, switches of the users, living room
  inputs,      \* HA: the inputs the program writes
  pump,        \* the pump: water heater, heating, offset
  seen,        \* what was parsed last
  told,        \* the times last told to HA, with today's date
  at,          \* where the loop is
  faults, changes

prices == <<today, tomorrow, rotated>>
vars == <<hour, today, tomorrow, rotated, signed, house, inputs, pump, seen, told, at,
          faults, changes>>

MAX_PRICE_PER_HOUR == 200
MIDDLE_PRICE_LEVEL == 80
LOW_PRICE_LEVEL == 40
VERY_LOW_PRICE_LEVEL == 20

Fault == faults < MaxFaults /\ faults' = faults + 1
Changes == changes < MaxChanges /\ changes' = changes + 1

-----------------------------------------------------------------------------
(* Prices.  Hours count from 0, places in a list from 1. *)

PriceAt(list, h) == list[h + 1]

\* the prices of n hours from h on
Total(list, h, n) ==
  LET sum[k \in 0 .. n] == IF k = 0 THEN 0 ELSE sum[k - 1] + list[h + k] IN sum[n]

\* start of the n cheapest hours in a row: the first, as lists this short are
\* sorted by insertion
Cheapest(list, n, from, to) ==
  CHOOSE h \in from .. to - n :
    \A g \in from .. to - n :
      /\ Total(list, h, n) <= Total(list, g, n)
      /\ g < h => Total(list, h, n) < Total(list, g, n)

DearerThan(list, p) == {i \in DOMAIN list : list[i] > p}

\* mutant of FourthDearest: one hour too many is cut
FifthDearest(list) ==
  CHOOSE p \in {list[i] : i \in DOMAIN list} :
    /\ Cardinality(DearerThan(list, p)) <= 4
    /\ Cardinality(DearerThan(list, p - 1)) > 4

\* the first of the last four of the sorted prices
FourthDearest(list) ==
  CHOOSE p \in {list[i] : i \in DOMAIN list} :
    /\ Cardinality(DearerThan(list, p)) <= 3
    /\ Cardinality(DearerThan(list, p - 1)) > 3

PriceLists == Lists \cup {<<>>}

\* What follows from the lists alone: the tank's start, for two days with
\* prices enough, the dishwasher's for a day, the price above which a day's
\* heating is cut.
TankStart ==
  [days \in {d \in PriceLists \X PriceLists : To <= Len(d[1]) + Len(d[2])} |->
     Cheapest(days[1] \o days[2], TankHours, From, To)]
DishStart ==
  [list \in {l \in Lists : DishLeast <= Len(l)} |-> Cheapest(list, DishHours, 0, DishTo)]
CutAbove == [list \in {l \in Lists : 4 <= Len(l)} |-> FourthDearest(list)]

-----------------------------------------------------------------------------
(* The decisions, from what was seen. *)

Price == PriceAt(seen.today, hour)

\* the boiler is running and in winter mode
BoilerFirst == ~seen.damped /\ seen.boilerWinter

\* the schedule's hours by the clock, the stop hour included
InSchedule ==
  /\ seen.start # Unknown /\ seen.stop # Unknown
  /\ seen.start <= hour /\ hour <= seen.stop

Call(when, input, value) == IF when THEN <<<<input, value>>>> ELSE <<>>

WaterCalls ==
  IF InSchedule \/ Price < LOW_PRICE_LEVEL
    THEN Call(TRUE, "water", TRUE)
    ELSE Call(~seen.keepWater, "water", FALSE)

\* mutant of BoostCalls: a heater that is off keeps its boost
BoostCallsRunning ==
  IF Price < VERY_LOW_PRICE_LEVEL
    THEN Call(seen.water \notin {"off", "performance"}, "boost", TRUE)
    ELSE Call(seen.water = "performance" /\ ~seen.keepBoost, "boost", FALSE)

\* a state that was never parsed counts as running
BoostCalls ==
  IF seen.water = "off"
    THEN Call(~seen.keepBoost, "boost", FALSE)
    ELSE IF Price < VERY_LOW_PRICE_LEVEL
      THEN Call(seen.water # "performance", "boost", TRUE)
      ELSE Call(seen.water = "performance" /\ ~seen.keepBoost, "boost", FALSE)

Dear == Price > CutAbove[seen.today] \/ Price > MAX_PRICE_PER_HOUR

HeatingCalls ==
  WaterCalls \o BoostCalls \o Call(seen.keepWater, "water", TRUE)
    \o Call(TRUE, "heating", ~Dear \/ seen.ignoreMax)

\* uint64() of a float: the sign of a negative one may be lost
Unsigned(t) == IF t < 0 /\ ~signed THEN 0 ELSE t

BoilerCalls ==
  IF Unsigned(seen.temp) = -10 THEN <<>> ELSE <<<<"temp", -10>>, <<"shift", 0>>>>

\* the offset for a price, a room, and an hour of the afternoon in winter
Offset(price, room, warmUp) ==
  IF price <= VERY_LOW_PRICE_LEVEL /\ room < 242 THEN 10
  ELSE IF room < 202 THEN (IF price <= LOW_PRICE_LEVEL THEN 8 ELSE 6)
  ELSE IF room < 222 THEN (IF price <= LOW_PRICE_LEVEL THEN 6 ELSE 4)
  ELSE IF room < 242 /\ warmUp /\ price <= MIDDLE_PRICE_LEVEL THEN 2
  ELSE 0

Limited(t) == IF t < -10 THEN -10 ELSE IF t > 10 THEN 10 ELSE t

Wanted(price, room, shift, heat) ==
  IF heat = "off" THEN 0
  ELSE Limited(Offset(price, room, hour \in Afternoon) + shift)

TempCalls ==
  LET t == Wanted(Price, seen.room, seen.shift, seen.heat)
  IN Call(Unsigned(seen.temp) # Unsigned(t), "temp", t)

-----------------------------------------------------------------------------
(* The loop. *)

Shown ==
  [today |-> today, tomorrow |-> tomorrow,
   damped |-> house.damped, boilerWinter |-> house.boilerWinter,
   keepWater |-> house.keepWater, keepBoost |-> house.keepBoost, ignoreMax |-> house.ignoreMax,
   shift |-> inputs.shift, room |-> house.room,
   start |-> inputs.start, stop |-> inputs.stop,
   water |-> pump.water, heat |-> pump.heat, temp |-> pump.temp]

\* what a new process knows
Nothing ==
  [today |-> <<>>, tomorrow |-> <<>>, damped |-> FALSE, boilerWinter |-> FALSE,
   keepWater |-> FALSE, keepBoost |-> FALSE, ignoreMax |-> FALSE, shift |-> 0, room |-> 0,
   start |-> Unknown, stop |-> Unknown, water |-> "unknown", heat |-> "unknown", temp |-> 0]
NothingTold == [start |-> Unknown, stop |-> Unknown, dish |-> Unknown]

\* values of one entity
Entities ==
  {{"today", "tomorrow"}, {"heat", "temp"}} \cup
  {{k} : k \in DOMAIN Nothing \ {"today", "tomorrow", "heat", "temp"}}

\* A poll: an entity that HA does not have, or not with a number, keeps its old
\* value.  Without today's prices nothing is decided.
Fetch ==
  /\ at = "wait"
  /\ \/ seen' = Shown /\ UNCHANGED faults
     \/ Fault /\ \E missing \in Entities :
          seen' = [k \in DOMAIN Shown |-> IF k \in missing THEN seen[k] ELSE Shown[k]]
  /\ at' = IF seen'.today = <<>> THEN "wait" ELSE "plan"
  /\ UNCHANGED <<hour, prices, signed, house, inputs, pump, told, changes>>

\* the record r with the calls made: the last one for a field is its value
Made(r, calls) ==
  [k \in DOMAIN r |->
     LET mine == {n \in DOMAIN calls : calls[n][1] = k}
     IN IF mine = {} THEN r[k] ELSE calls[Max(mine)][2]]

\* The first n calls are answered, and there are no more or the next one fails:
\* HA may have taken it all the same.
Answered(calls, n) ==
  IF n = Len(calls)
    THEN inputs' = Made(inputs, calls) /\ UNCHANGED faults
    ELSE Fault /\ \E m \in {n, n + 1} : inputs' = Made(inputs, SubSeq(calls, 1, m))

\* The times are told when they differ from those told before: the stop time
\* is remembered by its start.
PlanTank(start) ==
  LET hourNr == IF start >= Hours THEN start - Hours ELSE start
      stop == (hourNr + TankHours) % Hours
      newStart == told.start # hourNr
      newStop == told.stop # hourNr
      calls == Call(newStart, "start", hourNr) \o Call(newStop, "stop", stop)
      times == Call(newStart, "start", hourNr) \o Call(newStop, "stop", hourNr)
  IN \E c \in {calls}, t \in {times} : \E n \in 0 .. Len(c) :
       Answered(c, n) /\ told' = Made(told, SubSeq(t, 1, n))

\* mutant of Plan: the stop time is told with a new start time only
PlanStopWithStart ==
  /\ at = "plan" /\ at' = "heat"
  /\ LET days == <<seen.today, seen.tomorrow>>
     IN IF days \notin DOMAIN TankStart THEN UNCHANGED <<inputs, told, faults>>
        ELSE \E hourNr \in {TankStart[days] % Hours} :
          IF told.start = hourNr THEN UNCHANGED <<inputs, told, faults>>
          ELSE \E c \in {<<<<"start", hourNr>>, <<"stop", (hourNr + TankHours) % Hours>>>>},
                  n \in 0 .. 2 :
                 /\ Answered(c, n)
                 /\ told' = IF n = 0 THEN told ELSE [told EXCEPT !.start = hourNr]
  /\ UNCHANGED <<hour, prices, signed, house, pump, seen, changes>>

\* SetHeatPumpWaterTankStartStopTime; lists too short for the night are an error
Plan ==
  /\ at = "plan" /\ at' = "heat"
  /\ LET days == <<seen.today, seen.tomorrow>>
     IN IF days \notin DOMAIN TankStart THEN UNCHANGED <<inputs, told, faults>>
        ELSE \E start \in {TankStart[days]} : PlanTank(start)
  /\ UNCHANGED <<hour, prices, signed, house, pump, seen, changes>>

\* the price of the hour can be looked up, and the fourth dearest
PricesServe == Len(seen.today) >= 4 /\ hour < Len(seen.today)

\* SetHeatPumpHeating, with SetHeatPumpWaterHeating
Heat ==
  /\ at = "heat" /\ (BoilerFirst \/ PricesServe)
  /\ \E calls \in {IF BoilerFirst THEN BoilerCalls ELSE HeatingCalls} :
       \E n \in 0 .. Len(calls) : Answered(calls, n)
  /\ at' = "temp"
  /\ UNCHANGED <<hour, prices, signed, house, pump, seen, told, changes>>

\* SetHeatPumpTemperature
SetTemp ==
  /\ at = "temp" /\ hour < Len(seen.today)
  /\ \E calls \in {IF BoilerFirst THEN <<>> ELSE TempCalls} :
       \E n \in 0 .. Len(calls) : Answered(calls, n)
  /\ at' = "dish"
  /\ UNCHANGED <<hour, prices, signed, house, pump, seen, told, changes>>

\* SetDishwasherStartTime
Dish ==
  /\ at = "dish" /\ at' = "wait"
  /\ IF seen.tomorrow \notin DOMAIN DishStart THEN UNCHANGED <<inputs, told, faults>>
     ELSE LET start == DishStart[seen.tomorrow]
              calls == Call(told.dish # start, "dish", start)
          IN \E n \in 0 .. Len(calls) :
               Answered(calls, n) /\ told' = Made(told, SubSeq(calls, 1, n))
  /\ UNCHANGED <<hour, prices, signed, house, pump, seen, changes>>

\* an index that a list of prices does not have kills the process
Panic ==
  /\ \/ at = "heat" /\ ~BoilerFirst /\ ~PricesServe
     \/ at = "temp" /\ hour >= Len(seen.today)
  /\ at' = "down" /\ seen' = Nothing /\ told' = NothingTold
  /\ UNCHANGED <<hour, prices, signed, house, inputs, pump, faults, changes>>

Loop == Fetch \/ Plan \/ Heat \/ SetTemp \/ Dish \/ Panic

Crash ==
  /\ at # "down" /\ at' = "down"
  /\ Fault
  /\ seen' = Nothing /\ told' = NothingTold
  /\ UNCHANGED <<hour, prices, signed, house, inputs, pump, changes>>

Restart ==
  /\ at = "down" /\ at' = "wait"
  /\ UNCHANGED <<hour, prices, signed, house, inputs, pump, seen, told, faults, changes>>

-----------------------------------------------------------------------------
(* The clock, the market, the house and the pump. *)

\* At midnight the times told before are those of another date.
HourPasses ==
  /\ Changes
  /\ hour' = (hour + 1) % Hours
  /\ IF hour' = 0 THEN told' = NothingTold /\ rotated' = FALSE ELSE UNCHANGED <<told, rotated>>
  /\ UNCHANGED <<today, tomorrow, signed, house, inputs, pump, seen, at, faults>>

\* The sensor turns to the new day at some time after midnight.
PricesRotate ==
  /\ ~rotated /\ rotated' = TRUE
  /\ today' = tomorrow /\ tomorrow' = <<>>
  /\ UNCHANGED <<hour, signed, house, inputs, pump, seen, told, at, faults, changes>>

\* Tomorrow's prices come once a day.
PricesPublished ==
  /\ Changes
  /\ rotated /\ tomorrow = <<>> /\ tomorrow' \in Lists
  /\ UNCHANGED <<hour, today, rotated, signed, house, inputs, pump, seen, told, at, faults>>

\* The boiler starts or stops, a user turns a switch, the room warms or cools.
HouseChanges ==
  /\ Changes
  /\ \/ \E s \in {"damped", "boilerWinter", "keepWater", "keepBoost", "ignoreMax"} :
          house' = [house EXCEPT ![s] = ~@]
     \/ \E t \in Rooms \ {house.room} : house' = [house EXCEPT !.room = t]
  /\ UNCHANGED <<hour, prices, signed, inputs, pump, seen, told, at, faults>>

UserShifts ==
  /\ Changes
  /\ \E t \in Shifts \ {inputs.shift} : inputs' = [inputs EXCEPT !.shift = t]
  /\ UNCHANGED <<hour, prices, signed, house, pump, seen, told, at, faults>>

Followed ==
  [water |-> IF ~inputs.water THEN "off" ELSE IF inputs.boost THEN "performance" ELSE "heat_pump",
   heat |-> IF inputs.heating THEN "heat" ELSE "off",
   temp |-> inputs.temp]

\* HA's automations pass the inputs on.
PumpFollows ==
  /\ pump # Followed /\ pump' = Followed
  /\ UNCHANGED <<hour, prices, signed, house, inputs, seen, told, at, faults, changes>>

World == HourPasses \/ PricesRotate \/ PricesPublished \/ HouseChanges \/ UserShifts \/ PumpFollows

Init ==
  /\ hour \in 0 .. Hours - 1
  /\ today \in Lists /\ tomorrow \in Lists \cup {<<>>} /\ rotated = TRUE
  /\ signed \in BOOLEAN
  /\ \E t \in Rooms :
       house = [damped |-> TRUE, boilerWinter |-> TRUE, keepWater |-> FALSE, keepBoost |-> FALSE,
                ignoreMax |-> FALSE, room |-> t]
  /\ inputs = [start |-> 0, stop |-> 0, dish |-> 0, water |-> FALSE, boost |-> FALSE,
               heating |-> TRUE, temp |-> 0, shift |-> 0]
  /\ pump = Followed
  /\ seen = Nothing /\ told = NothingTold /\ at = "wait"
  /\ faults = 0 /\ changes = 0

Next == Loop \/ Crash \/ Restart \/ World

Spec == Init /\ [][Next]_vars

\* The ticker keeps the loop going, a dead process is started again, HA passes
\* the inputs on.
FairSpec == Spec /\ WF_vars(Loop) /\ WF_vars(Restart) /\ WF_vars(PumpFollows)

-----------------------------------------------------------------------------
(* Properties. *)

Clock == 0 .. Hours - 1
Pump ==
  [water : {"off", "heat_pump", "performance"}, heat : {"off", "heat"}, temp : -10 .. 10]
Inputs ==
  [start : Clock, stop : Clock, dish : Clock, water : BOOLEAN, boost : BOOLEAN,
   heating : BOOLEAN, temp : -10 .. 10, shift : Shifts]
House ==
  [damped : BOOLEAN, boilerWinter : BOOLEAN, keepWater : BOOLEAN, keepBoost : BOOLEAN,
   ignoreMax : BOOLEAN, room : Rooms]
SeenValues ==
  [today : PriceLists, tomorrow : PriceLists, damped : BOOLEAN, boilerWinter : BOOLEAN,
   keepWater : BOOLEAN, keepBoost : BOOLEAN, ignoreMax : BOOLEAN, shift : Shifts,
   room : Rooms \cup {0}, start : Clock \cup {Unknown}, stop : Clock \cup {Unknown},
   water : {"unknown", "off", "heat_pump", "performance"}, heat : {"unknown", "off", "heat"},
   temp : -10 .. 10]

\* Types; the offset stays within the limits that the code validates
\* (brain/heatpump.go:544-549).
TypeOK ==
  /\ hour \in Clock /\ today \in PriceLists /\ tomorrow \in PriceLists
  /\ rotated \in BOOLEAN /\ signed \in BOOLEAN
  /\ house \in House /\ inputs \in Inputs /\ pump \in Pump
  /\ seen \in SeenValues
  /\ told \in [start : Clock \cup {Unknown}, stop : Clock \cup {Unknown}, dish : Clock \cup {Unknown}]
  /\ at \in {"wait", "plan", "heat", "temp", "dish", "down"}
  /\ faults \in 0 .. MaxFaults /\ changes \in 0 .. MaxChanges

\* Heating is cut in the three dearest hours of a day at most, and above the
\* hard limit, whatever the list, its length and its ties
\* (brain/heatpump.go:416-436).
CutsOnlyDearHours ==
  [][ inputs.heating /\ ~inputs'.heating =>
        \/ Price > MAX_PRICE_PER_HOUR
        \/ Cardinality({i \in DOMAIN seen.today : seen.today[i] >= Price}) <= 3 ]_vars

\* The times in HA get to the cheapest hours of the lists and stay there, start
\* and stop of the tank as well as the dishwasher's start, although either call
\* can fail or be taken without an answer, and a restart or a new date forgets
\* what was told (brain/heatpump.go:264-295, brain/dishwasher.go:30-40).
TimesFollowPrices ==
  <>[](/\ today # <<>> /\ <<today, tomorrow>> \in DOMAIN TankStart =>
            LET start == TankStart[<<today, tomorrow>>]
            IN inputs.start = start % Hours /\ inputs.stop = (start + TankHours) % Hours
       /\ hour < Len(today) /\ 4 <= Len(today) /\ tomorrow \in DOMAIN DishStart =>
            inputs.dish = DishStart[tomorrow])

WaterRight(price) ==
  inputs.water =
    \/ inputs.start <= hour /\ hour <= inputs.stop
    \/ price < LOW_PRICE_LEVEL
    \/ house.keepWater

BoostRight(price) ==
  ~house.keepBoost => inputs.boost = (inputs.water /\ price < VERY_LOW_PRICE_LEVEL)

HeatingRight(price) ==
  inputs.heating =
    \/ house.ignoreMax
    \/ price <= MAX_PRICE_PER_HOUR /\ Cardinality({i \in DOMAIN today : today[i] >= price}) > 3

TempRight(price) ==
  Unsigned(inputs.temp) = Unsigned(Wanted(price, house.room, inputs.shift, pump.heat))

\* Once the hour, the prices, the house and its users stay as they are, so do
\* the inputs, each as price, schedule and switches ask for, or at the minimum
\* while the boiler heats in winter mode.  The loop decides from the pump's
\* state of an earlier poll, which follows the inputs of an earlier one
\* (brain/heatpump.go:302-464, 466-569).
InputsSettle ==
  <>[](/\ hour < Len(today) /\ 4 <= Len(today)
       => IF ~house.damped /\ house.boilerWinter THEN inputs.temp = -10
          ELSE LET price == PriceAt(today, hour)
               IN WaterRight(price) /\ BoostRight(price) /\ HeatingRight(price) /\ TempRight(price))
=============================================================================
