------------------------- MODULE FloorValvesProofs -------------------------
(***************************************************************************)
(* For any number of rooms, valves, readings, faults and acts of the user: *)
(* a hand that took over is respected, the entrance is not closed in a     *)
(* winter in which it was seen, and a command turns round only when the    *)
(* temperature has.                                                        *)
(*                                                                         *)
(* The first two are about a poll under way: what it decided from must     *)
(* still hold when it commands.  The third needs to know on which side of  *)
(* the band each command was given.                                        *)
(***************************************************************************)
EXTENDS FloorValves, TLAPS

-----------------------------------------------------------------------------
(* The inductive invariant. *)

\* Only the types the rest needs, and that what is left to command is a command.
Types ==
  /\ saved \in [Rooms -> Readings \cup {NoReading}]
  /\ ha \in [Valves -> {"on", "off", "unavailable", "missing"}]
  /\ seen \in [Valves -> {"on", "off", "unavailable", "missing"}]
  /\ reading \in [Rooms -> Readings]
  /\ valve \in [Valves -> {"on", "off"}]
  /\ todo \in [Valves -> {"on", "off", "keep"}]
  /\ left \subseteq Valves
  /\ at = "publish" => \A v \in left : todo[v] # "keep"
  /\ DOMAIN last = Others

\* A process that knows of the manual switch has parsed it as on, and then is
\* in no poll that commands.
Respected ==
  /\ handsOff => manualSeen
  /\ at = "publish" => ~manualSeen

\* A guarded entrance was parsed in this winter, and the poll under way forces
\* it on.
Warm ==
  guarded /\ Esik \in Valves =>
    /\ winter /\ seen[Esik] # "missing"
    /\ at = "publish" => todo[Esik] # "off"

\* The side of the band on which a command was given.
Sided(l) ==
  /\ l.to \in {"none", "on", "off"}
  /\ l.to = "on" => l.t \in Int /\ l.t <= 1
  /\ l.to = "off" => l.t \in Int /\ l.t >= 3

IInv ==
  /\ Types
  /\ Respected
  /\ Warm
  /\ \A v \in Others : Sided(last[v])

-----------------------------------------------------------------------------
(* The steps of the house. *)

\* What the house and HA do is no concern of the loop.
LEMMA HouseKept ==
  ASSUME ValvesAssumption, IInv,
         House \/ ManualBack \/ \E v \in Valves : HaUpdates(v)
  PROVE  IInv'
  <1> USE DEF IInv, process, house
  <1>1. CASE \E r \in Rooms : RoomChanges(r)
    BY <1>1 DEF RoomChanges, Types, Respected, Warm, Sided
  <1>2. CASE SeasonTurns
    BY <1>2 DEF SeasonTurns, Types, Respected, Warm, Sided
  <1>3. CASE UserSwitchesManual
    BY <1>3 DEF UserSwitchesManual, Types, Respected, Warm, Sided
  <1>4. CASE \E v \in Valves : UserSwitchesValve(v)
    BY <1>4 DEF UserSwitchesValve, Types, Respected, Warm, Sided
  <1>5. CASE \E v \in Valves : HaUpdates(v) \/ HaLoses(v)
    <2>1. PICK v \in Valves : HaUpdates(v) \/ HaLoses(v)
      BY <1>5
    <2>2. ha' \in [Valves -> {"on", "off", "unavailable", "missing"}]
      <3>1. valve[v] \in {"on", "off"}
        BY <2>1 DEF Types
      <3>2. \A x \in {"on", "off", "unavailable", "missing"} :
              [ha EXCEPT ![v] = x] \in [Valves -> {"on", "off", "unavailable", "missing"}]
        BY DEF Types
      <3> QED
        BY <2>1, <3>1, <3>2 DEF HaUpdates, HaLoses
    <2> QED
      BY <2>1, <2>2 DEF HaUpdates, HaLoses, Types, Respected, Warm, Sided
  <1>6. CASE ManualGone \/ ManualBack
    BY <1>6 DEF ManualGone, ManualBack, Types, Respected, Warm, Sided
  <1> QED
    BY <1>1, <1>2, <1>3, <1>4, <1>5, <1>6 DEF House

-----------------------------------------------------------------------------
(* The steps of the loop. *)

\* A new poll: what it parses guards the entrance, and what it knows of the
\* manual switch is what it acts on.
LEMMA FetchKept ==
  ASSUME ValvesAssumption, IInv, Fetch
  PROVE  IInv'
  <1> USE DEF IInv, house
  <1>1. /\ seen' = [v \in Valves |-> IF ha[v] = "missing" THEN seen[v] ELSE ha[v]]
        /\ manualSeen' = IF entity = "missing" THEN manualSeen ELSE ManualShown
        /\ handsOff' = IF entity = "missing" THEN handsOff ELSE ManualShown
        /\ guarded' = (guarded \/ (winter /\ ha[Esik] # "missing"))
        /\ at' # "publish"
        /\ UNCHANGED <<reading, valve, winter, ha, todo, left, last>>
    BY DEF Fetch, Parse
  <1>2. saved' \in [Rooms -> Readings \cup {NoReading}]
    <2>1. [r \in Rooms |-> reading[r]] \in [Rooms -> Readings \cup {NoReading}]
          /\ reading \in [Rooms -> Readings \cup {NoReading}]
      BY DEF Types
    <2>2. \A r \in Rooms, t \in Readings \cup {NoReading} :
            [reading EXCEPT ![r] = t] \in [Rooms -> Readings \cup {NoReading}]
      BY <2>1
    <2> QED
      BY <2>1, <2>2 DEF Fetch
  <1>3. Types'
    BY <1>1, <1>2 DEF Types
  <1>4. Respected'
    BY <1>1 DEF Respected
  <1>5. Warm'
    <2> SUFFICES ASSUME guarded', Esik \in Valves
                 PROVE  winter /\ seen'[Esik] # "missing"
      BY <1>1 DEF Warm
    <2>1. CASE ha[Esik] = "missing"
      BY <1>1, <2>1 DEF Warm
    <2>2. CASE ha[Esik] # "missing"
      BY <1>1, <2>2 DEF Warm
    <2> QED
      BY <2>1, <2>2
  <1> QED
    BY <1>1, <1>3, <1>4, <1>5

\* Which temperatures may ask for what.
LEMMA ActionSide ==
  ASSUME ValvesAssumption, NEW t \in Readings \cup {NoReading}, NEW a \in Action(t)
  PROVE  /\ a = "on" => t \in Int /\ t <= 1
         /\ a = "off" => t \in Int /\ t >= 3
  <1>1. CASE t = NoReading
    BY <1>1 DEF Action
  <1>2. CASE t # NoReading
    <2>1. t \in Int
      BY <1>2 DEF ValvesAssumption
    <2>2. a \in (IF t >= 3 THEN {"off"} ELSE {}) \cup (IF t <= 1 THEN {"on"} ELSE {})
                  \cup (IF t \in 1 .. 3 THEN {"keep"} ELSE {})
      BY <1>2 DEF Action
    <2> QED
      BY <2>1, <2>2
  <1> QED
    BY <1>1, <1>2

\* What Decide asks of one valve.
LEMMA WantedOf ==
  ASSUME NEW v, NEW a \in {"on", "off", "keep"}
  PROVE  /\ Wanted(v, a) \in {"on", "off", "keep"}
         /\ v # Esik => Wanted(v, a) \in {a, "keep"}
         /\ winter /\ seen[Esik] # "missing" => Wanted(Esik, a) # "off"
  BY DEF Wanted

\* A command given is on the side of the band it belongs to.
LEMMA CommandSided ==
  ASSUME ValvesAssumption, IInv, Decide, NEW v \in Others, todo'[v] # "keep"
  PROVE  /\ last'[v] = [to |-> todo'[v], t |-> saved[RoomOf[v]]]
         /\ Sided(last'[v])
  <1>1. PICK action \in [Rooms -> {"on", "off", "keep"}] :
          /\ \A r \in Rooms : action[r] \in Action(saved[r])
          /\ todo' = [w \in Valves |-> Wanted(w, action[RoomOf[w]])]
    BY DEF Decide
  <1>2. v \in Valves /\ v # Esik /\ RoomOf[v] \in Rooms
    BY DEF Others, ValvesAssumption
  <1> DEFINE a == action[RoomOf[v]]
             t == saved[RoomOf[v]]
  <1>3. a \in {"on", "off"} /\ todo'[v] = a
    <2>1. a \in {"on", "off", "keep"} /\ todo'[v] = Wanted(v, a)
      BY <1>1, <1>2
    <2> HIDE DEF a
    <2>2. todo'[v] \in {a, "keep"}
      BY <1>2, <2>1, WantedOf
    <2> QED
      BY <2>1, <2>2
  <1>4. t \in Readings \cup {NoReading} /\ a \in Action(t)
    BY <1>1, <1>2 DEF IInv, Types
  <1>5. last'[v] = [to |-> todo'[v], t |-> t]
    BY DEF Decide
  <1> HIDE DEF a, t
  <1>6. /\ a = "on" => t \in Int /\ t <= 1
        /\ a = "off" => t \in Int /\ t >= 3
    BY <1>4, ActionSide
  <1>7. Sided([to |-> a, t |-> t])
    BY <1>3, <1>6 DEF Sided
  <1> QED
    BY <1>3, <1>5, <1>7 DEF t

\* A poll decides only in automatic operation, and never against a guarded
\* entrance.
LEMMA DecideKept ==
  ASSUME ValvesAssumption, IInv, Decide
  PROVE  IInv'
  <1> USE DEF IInv, house
  <1>1. PICK action \in [Rooms -> {"on", "off", "keep"}] :
          todo' = [v \in Valves |-> Wanted(v, action[RoomOf[v]])]
    BY DEF Decide
  <1>2. \A v \in Valves : action[RoomOf[v]] \in {"on", "off", "keep"}
    BY <1>1 DEF ValvesAssumption
  <1>3. \A v \in Valves : todo'[v] = Wanted(v, action[RoomOf[v]])
    BY <1>1
  <1>4. todo' \in [Valves -> {"on", "off", "keep"}]
    <2>1. \A v \in Valves : Wanted(v, action[RoomOf[v]]) \in {"on", "off", "keep"}
      BY <1>2, WantedOf
    <2> QED
      BY <1>1, <2>1
  <1>5. UNCHANGED <<reading, valve, winter, saved, ha, seen, manualSeen, handsOff, guarded>>
        /\ ~manualSeen
    BY DEF Decide
  <1>6. Types'
    BY <1>4, <1>5 DEF Types, Decide
  <1>7. Respected'
    BY <1>5 DEF Respected
  <1>8. Warm'
    <2> SUFFICES ASSUME guarded, Esik \in Valves
                 PROVE  winter /\ seen[Esik] # "missing" /\ todo'[Esik] # "off"
      BY <1>5 DEF Warm
    <2>1. winter /\ seen[Esik] # "missing"
      BY DEF Warm
    <2> QED
      BY <1>2, <1>3, <2>1, WantedOf
  <1>9. \A v \in Others : Sided(last[v])'
    <2> SUFFICES ASSUME NEW v \in Others PROVE Sided(last'[v])
      BY DEF Sided
    <2>1. CASE todo'[v] = "keep"
      BY <2>1 DEF Decide
    <2>2. CASE todo'[v] # "keep"
      BY <2>2, CommandSided
    <2> QED
      BY <2>1, <2>2
  <1> QED
    BY <1>6, <1>7, <1>8, <1>9

\* A command changes its valve and nothing the invariant compares.
LEMMA PublishKept ==
  ASSUME ValvesAssumption, IInv, NEW v \in Valves, Publish(v)
  PROVE  IInv'
  <1> USE DEF IInv
  <1>1. at = "publish" /\ v \in left /\ left' = left \ {v}
        /\ UNCHANGED <<reading, winter, saved, ha, seen, manualSeen, todo, handsOff, guarded, last>>
    BY DEF Publish, history
  <1>2. valve' \in [Valves -> {"on", "off"}] \/ todo[v] = "keep"
    <2>1. todo[v] \in {"on", "off"} => [valve EXCEPT ![v] = todo[v]] \in [Valves -> {"on", "off"}]
      BY DEF Types
    <2> QED
      BY <2>1 DEF Publish, Types
  <1>3. todo[v] # "keep" /\ \A w \in left' : todo'[w] # "keep"
    BY <1>1 DEF Types
  <1> QED
    BY <1>1, <1>2, <1>3 DEF Types, Respected, Warm, Sided

\* The other steps of the loop give up, wait or record what was done.
LEMMA LoopKept ==
  ASSUME ValvesAssumption, IInv, Loop
  PROVE  IInv'
  <1>1. CASE FetchFails \/ LeaveToUser \/ DecideFails
    BY <1>1 DEF FetchFails, LeaveToUser, DecideFails, house, history,
                IInv, Types, Respected, Warm, Sided
  <1>2. CASE Save
    BY <1>2 DEF Save, Idle, house, history, IInv, Types, Respected, Warm, Sided
  <1>3. CASE \E v \in Valves : PublishHangs(v)
    BY <1>3 DEF PublishHangs, house, history, IInv, Types, Respected, Warm, Sided
  <1> QED
    BY <1>1, <1>2, <1>3, FetchKept, DecideKept, PublishKept DEF Loop

\* A process that died knows nothing, and is in no poll.
LEMMA DeathKept ==
  ASSUME IInv, Crash \/ Restart
  PROVE  IInv'
  <1>1. CASE Crash
    BY <1>1 DEF Crash, Idle, house, IInv, Types, Respected, Warm, Sided
  <1>2. CASE Restart
    BY <1>2 DEF Restart, house, history, IInv, Types, Respected, Warm, Sided
  <1> QED
    BY <1>1, <1>2

\* Nothing is known at the start.
LEMMA InitInv ==
  ASSUME Init
  PROVE  IInv
  BY DEF Init, Idle, Others, IInv, Types, Respected, Warm, Sided

\* IInv is inductive.
LEMMA StepInv ==
  ASSUME ValvesAssumption, IInv, [Next]_vars
  PROVE  IInv'
  <1>1. CASE UNCHANGED vars
    BY <1>1 DEF vars, IInv, Types, Respected, Warm, Sided
  <1> QED
    BY <1>1, HouseKept, LoopKept, DeathKept DEF Next

-----------------------------------------------------------------------------
(* The invariant holds. *)

\* IInv holds in every state.
THEOREM ValvesInvariant == Spec => []IInv
  <1>1. Init => IInv
    BY InitInv
  <1>2. IInv /\ [Next]_vars => IInv'
    BY ValvesAssumption, StepInv
  <1> QED
    BY <1>1, <1>2, PTL DEF Spec

-----------------------------------------------------------------------------
(* The types. *)

Flags ==
  /\ manual \in BOOLEAN /\ entity \in {"there", "unavailable", "missing"}
  /\ manualSeen \in BOOLEAN /\ priced \in BOOLEAN /\ winter \in BOOLEAN
  /\ at \in {"wait", "decide", "publish", "save", "hung", "down"}
  /\ handsOff \in BOOLEAN /\ guarded \in BOOLEAN
Bounds == faults \in 0 .. MaxFaults /\ user \in 0 .. MaxUser

\* What is left to command is a command; nothing is left when it is recorded.
Left ==
  /\ left \subseteq {v \in Valves : todo[v] # "keep"}
  /\ at = "save" => left = {}

Records ==
  /\ recorded \in [Valves -> {"on", "off", "none"}]
  /\ last \in [Others -> [to : {"on", "off", "none"}, t : Readings \cup {NoReading}]]

LEMMA FlagsKept ==
  ASSUME Flags, [Next]_vars
  PROVE  Flags'
  <1> USE DEF Flags
  <1>1. CASE Fetch
    BY <1>1 DEF Fetch, Parse, ManualShown, house
  <1>2. CASE FetchFails \/ LeaveToUser \/ DecideFails \/ Decide
    BY <1>2 DEF FetchFails, LeaveToUser, DecideFails, Decide, house, history
  <1>3. CASE \E v \in Valves : Publish(v) \/ PublishHangs(v)
    BY <1>3 DEF Publish, PublishHangs, house, history
  <1>4. CASE Save \/ Crash \/ Restart \/ UNCHANGED vars
    BY <1>4 DEF Save, Crash, Restart, house, history, vars
  <1>5. CASE SeasonTurns \/ UserSwitchesManual
    BY <1>5 DEF SeasonTurns, UserSwitchesManual, process
  <1>6. CASE ManualGone \/ ManualBack
    BY <1>6 DEF ManualGone, ManualBack, house, process
  <1>7. CASE \/ \E r \in Rooms : RoomChanges(r)
             \/ \E v \in Valves : UserSwitchesValve(v) \/ HaLoses(v) \/ HaUpdates(v)
    BY <1>7 DEF RoomChanges, UserSwitchesValve, HaLoses, HaUpdates, house, process
  <1> QED
    BY <1>1, <1>2, <1>3, <1>4, <1>5, <1>6, <1>7 DEF Next, Loop, House

LEMMA BoundsKept ==
  ASSUME Bounds, [Next]_vars
  PROVE  Bounds'
  <1>1. faults' = faults \/ Fault
    BY DEF Next, Loop, House, Crash, Restart, ManualBack, FetchFails, Fetch, LeaveToUser,
       DecideFails, Decide, Publish, PublishHangs, Save, RoomChanges, SeasonTurns,
       UserSwitchesManual, UserSwitchesValve, HaLoses, ManualGone, HaUpdates, vars
  <1>2. user' = user \/ UserActs
    BY DEF Next, Loop, House, Crash, Restart, ManualBack, FetchFails, Fetch, LeaveToUser,
       DecideFails, Decide, Publish, PublishHangs, Save, RoomChanges, SeasonTurns,
       UserSwitchesManual, UserSwitchesValve, HaLoses, ManualGone, HaUpdates, vars
  <1> QED
    BY <1>1, <1>2, ValvesAssumption DEF Bounds, Fault, UserActs

LEMMA LeftKept ==
  ASSUME Left, [Next]_vars
  PROVE  Left'
  <1> USE DEF Left
  <1>1. CASE Decide
    BY <1>1 DEF Decide
  <1>2. CASE \E v \in Valves : Publish(v)
    BY <1>2 DEF Publish
  <1>3. CASE Save
    BY <1>3 DEF Save, Idle
  <1>4. CASE Crash
    BY <1>4 DEF Crash
  <1>5. CASE FetchFails \/ Fetch \/ LeaveToUser \/ DecideFails \/ Restart \/ UNCHANGED vars
             \/ \E v \in Valves : PublishHangs(v)
    BY <1>5 DEF FetchFails, Fetch, LeaveToUser, DecideFails, Restart, PublishHangs, vars
  <1>6. CASE House \/ ManualBack \/ \E v \in Valves : HaUpdates(v)
    BY <1>6 DEF House, ManualBack, HaUpdates, RoomChanges, SeasonTurns, UserSwitchesManual,
       UserSwitchesValve, HaLoses, ManualGone, process
  <1> QED
    BY <1>1, <1>2, <1>3, <1>4, <1>5, <1>6 DEF Next, Loop

LEMMA RecordsKept ==
  ASSUME IInv, IInv', Records, [Next]_vars
  PROVE  Records'
  <1>1. CASE Decide
    <2>1. recorded' = recorded
      BY <1>1 DEF Decide
    <2>2. ASSUME NEW v \in Others
          PROVE  last'[v] \in [to : {"on", "off", "none"}, t : Readings \cup {NoReading}]
      <3>1. CASE todo'[v] = "keep"
        BY <1>1, <3>1 DEF Decide, Records
      <3>2. CASE todo'[v] # "keep"
        <4>1. last'[v] = [to |-> todo'[v], t |-> saved[RoomOf[v]]]
          BY <1>1, <3>2 DEF Decide
        <4>2. todo'[v] \in {"on", "off"}
          BY <3>2 DEF IInv, Types, Others
        <4>3. saved[RoomOf[v]] \in Readings \cup {NoReading}
          BY ValvesAssumption DEF IInv, Types, Others
        <4> QED
          BY <4>1, <4>2, <4>3
      <3> QED
        BY <3>1, <3>2
    <2>3. last' = [v \in Others |-> last'[v]]
      BY <1>1 DEF Decide
    <2> QED
      BY <2>1, <2>2, <2>3 DEF Records
  <1>2. CASE Save
    <2>1. last' = last /\ todo \in [Valves -> {"on", "off", "keep"}]
      BY <1>2 DEF Save, history, IInv, Types
    <2> QED
      BY <1>2, <2>1 DEF Save, Records
  <1>3. CASE Crash \/ Restart \/ UNCHANGED vars
    BY <1>3 DEF Crash, Restart, vars, Records, history
  <1>4. CASE FetchFails \/ Fetch \/ LeaveToUser \/ DecideFails
             \/ \E v \in Valves : Publish(v) \/ PublishHangs(v)
    BY <1>4 DEF FetchFails, Fetch, LeaveToUser, DecideFails, Publish, PublishHangs, Records, history
  <1>5. CASE House \/ ManualBack \/ \E v \in Valves : HaUpdates(v)
    BY <1>5 DEF House, ManualBack, HaUpdates, RoomChanges, SeasonTurns, UserSwitchesManual,
       UserSwitchesValve, HaLoses, ManualGone, process, Records
  <1> QED
    BY <1>1, <1>2, <1>3, <1>4, <1>5 DEF Next, Loop

\* The types of the rooms, the valves, the tables and the loop; what a poll has
\* left to command are commands (floorheating/floorheating.go:507-569).
THEOREM ValvesTypes == Spec => []TypeOK
  <1> DEFINE Rest == Flags /\ Bounds /\ Left /\ Records
  <1>1. Init => Rest
    <2> SUFFICES ASSUME Init PROVE Rest
      OBVIOUS
    <2>1. Flags /\ Left /\ Records
      BY DEF Init, Flags, Left, Records
    <2>2. Bounds
      BY ValvesAssumption DEF Init, Bounds
    <2> QED
      BY <2>1, <2>2
  <1>2. IInv /\ IInv' /\ Rest /\ [Next]_vars => Rest'
    BY FlagsKept, BoundsKept, LeftKept, RecordsKept
  <1>3. IInv /\ Rest => TypeOK
    BY DEF IInv, Types, Flags, Bounds, Left, Records, TypeOK
  <1> HIDE DEF Rest
  <1> QED
    BY <1>1, <1>2, <1>3, ValvesInvariant, PTL DEF Spec

-----------------------------------------------------------------------------
(* The properties. *)

\* A process that found the manual switch on commands no valve
\* (brain/floorheating.go:12-18, 135-141).
THEOREM ValvesLeftToUser == Spec => ManualHolds
  <1>1. IInv /\ [Next]_vars => [ \A v \in Valves : Publish(v) => ~handsOff ]_vars
    BY DEF IInv, Respected, Publish
  <1> QED
    BY <1>1, ValvesInvariant, PTL DEF Spec, ManualHolds

\* The entrance is not closed in a winter in which this process has seen its
\* valve (floorheating/floorheating.go:484-505).
THEOREM ValvesEsikWarm == Spec => EsikWarmOnceSeen
  <1>1. IInv /\ [Next]_vars => [ Publish(Esik) /\ todo[Esik] = "off" => ~guarded ]_vars
    <2> SUFFICES ASSUME IInv, Publish(Esik)
                 PROVE  todo[Esik] = "off" => ~guarded
      OBVIOUS
    <2>1. at = "publish" /\ Esik \in Valves
      BY DEF Publish, IInv, Types
    <2> QED
      BY <2>1 DEF IInv, Warm
  <1> QED
    BY <1>1, ValvesInvariant, PTL DEF Spec, EsikWarmOnceSeen

\* Nobody but Decide gives commands.
LEMMA OnlyDecideCommands ==
  ASSUME Next, last' # last
  PROVE  Decide
  BY DEF Next, Loop, House, Crash, Restart, ManualBack, FetchFails, Fetch, LeaveToUser, DecideFails,
         Publish, PublishHangs, Save, RoomChanges, SeasonTurns, UserSwitchesManual,
         UserSwitchesValve, HaLoses, ManualGone, HaUpdates, house, history, process

\* A command turns round only when the temperature has moved by the band's
\* width (floorheating/floorheating.go:448-462, 572-573).
THEOREM ValvesNoChatter == Spec => NoChatter
  <1> DEFINE Moved(v) ==
        last'[v] # last[v] /\ last[v].to \notin {"none", last'[v].to}
          => \/ last'[v].t >= last[v].t + 2
             \/ last[v].t >= last'[v].t + 2
  <1>1. IInv /\ [Next]_vars => [ \A v \in Others : Moved(v) ]_vars
    <2> SUFFICES ASSUME IInv, Next, NEW v \in Others, last'[v] # last[v],
                        last[v].to \notin {"none", last'[v].to}
                 PROVE  \/ last'[v].t >= last[v].t + 2
                        \/ last[v].t >= last'[v].t + 2
      OBVIOUS
    <2>1. Decide
      BY OnlyDecideCommands
    <2>2. todo'[v] # "keep"
      BY <2>1 DEF Decide
    <2>3. Sided(last'[v]) /\ last'[v].to \in {"on", "off"}
      <3>1. todo'[v] \in {"on", "off", "keep"}
        <4>1. IInv'
          BY <2>1, DecideKept, ValvesAssumption
        <4> QED
          BY <4>1 DEF IInv, Types, Others
      <3>2. /\ last'[v] = [to |-> todo'[v], t |-> saved[RoomOf[v]]]
            /\ Sided(last'[v])
        BY <2>1, <2>2, CommandSided, ValvesAssumption
      <3> QED
        BY <2>2, <3>1, <3>2
    <2>4. Sided(last[v])
      BY DEF IInv
    <2> QED
      BY <2>3, <2>4 DEF Sided
  <1> QED
    BY <1>1, ValvesInvariant, PTL DEF Spec, NoChatter
=============================================================================
