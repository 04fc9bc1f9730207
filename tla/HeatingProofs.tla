---------------------------- MODULE HeatingProofs ---------------------------
(***************************************************************************)
(* The heating: the mixing cover of the floors, the target temperature of  *)
(* their water, and the heat pump.  Each is polled by functions of its own *)
(* that share no state (brain/brain.go), so each is proved by itself.      *)
(*                                                                         *)
(* The cover, for every interval, every range of positions and any number  *)
(* of failures and restarts.  TableInTime alone is inductive with the      *)
(* types: while no command waits to be saved, the row is at least as young *)
(* as the last command.  The statistics need to know what the row was like *)
(* when a command began: only the command that makes the row is never      *)
(* counted.                                                                *)
(*                                                                         *)
(* The target, for every table, every weather and any number of failures:  *)
(* it stays within the table's, and a user who takes over is overruled     *)
(* once and once more for each failure at most.  The first rests on the    *)
(* arithmetic of the interpolation (RoundedBetween) and on types; the      *)
(* second needs to know that a poll that is under way without having seen  *)
(* the switch has a write to spare (Spare).                                *)
(*                                                                         *)
(* The pump, for any price lists, hours, switches and failures: the        *)
(* heating is cut in three hours of a day at most, beside those above the  *)
(* hard limit; the times that are told are those of windows no other       *)
(* undercuts; and the offset stays within the limits that the code         *)
(* validates.  The fourth dearest price exists in every list long enough   *)
(* (FourthDearestExists), and so does the first of the cheapest windows    *)
(* (CheapestIs), as the sums of prices do (TotalIsSum).  Everything else   *)
(* rests on types (PumpTypes).                                             *)
(***************************************************************************)
EXTENDS HeatPump, WaterMixing, WaterTarget, FiniteSetTheorems, WellFoundedInduction, TLAPS

-----------------------------------------------------------------------------
(* The cover: its inductive invariant. *)

Pending == coverAt \in {"save", "count"}

\* The row was there when the command began, just as the command found it.
RowSeen ==
  /\ coverAt = "save" => (row <=> age # NoRow)
  /\ coverAt = "count" => age # NoRow
  /\ coverAt # "save" /\ coverAt # "count" => ~row

\* One command for each failure, one that made the row, and the one under way.
CoverCounted ==
  /\ Pending => uncounted >= 1 /\ uncounted <= 2 + coverFaults
  /\ Pending /\ age = NoRow => uncounted <= 1 + coverFaults
  /\ ~Pending => uncounted <= 1 + coverFaults
  /\ ~Pending /\ age = NoRow => uncounted <= coverFaults

CoverInv == Cover!TypeOK /\ Cover!TableInTime /\ RowSeen /\ CoverCounted

\* TypeOK in parts: the house and what was seen of it, the loop, the counters.
CoverValues == [gap : Gaps \cup {NoRow}, pos : 0 .. Full \cup {NoRow}, manual : BOOLEAN]
HouseTypes ==
  /\ gap \in Gaps /\ pos \in 0 .. Full /\ shown \in 0 .. Full /\ coverManual \in BOOLEAN
  /\ coverSeen \in CoverValues /\ coverUser \in 0 .. MaxCoverUser
LoopTypes ==
  /\ coverAt \in {"wait", "decide", "save", "count", "down"}
  /\ age \in 0 .. Interval \cup {NoRow} /\ since \in 0 .. Interval
FlagTypes == row \in BOOLEAN /\ unsaved \in BOOLEAN
CountTypes == uncounted \in Nat /\ coverFaults \in 0 .. MaxCoverFaults

LEMMA TypeParts == Cover!TypeOK <=> HouseTypes /\ LoopTypes /\ FlagTypes /\ CountTypes
  BY DEF Cover!TypeOK, HouseTypes, LoopTypes, FlagTypes, CountTypes, CoverValues

LEMMA TypePartsNext == Cover!TypeOK' <=> HouseTypes' /\ LoopTypes' /\ FlagTypes' /\ CountTypes'
  BY TypeParts, PTL

LEMMA NothingIsValue == Cover!Nothing \in CoverValues
  BY DEF Cover!Nothing, CoverValues

LEMMA CoverInitInv == Cover!Init => CoverInv
  <1> SUFFICES ASSUME Cover!Init PROVE CoverInv
    OBVIOUS
  <1> USE CoverAssumed DEF Cover!CoverAssumption, Cover!Init
  <1>1. Cover!TypeOK
    <2>1. HouseTypes
      BY NothingIsValue DEF HouseTypes
    <2>2. LoopTypes
      BY DEF LoopTypes
    <2>3. FlagTypes
      BY DEF FlagTypes
    <2>4. CountTypes
      BY DEF CountTypes
    <2> QED
      BY <2>1, <2>2, <2>3, <2>4, TypeParts
  <1>2. Cover!TableInTime /\ RowSeen
    BY DEF Cover!TableInTime, RowSeen
  <1>3. CoverCounted
    BY DEF CoverCounted, Pending
  <1> QED
    BY <1>1, <1>2, <1>3 DEF CoverInv

\* What can be asked of the cover is a position it has.
LEMMA MovesInReach == Cover!Moves \subseteq 0 .. Full
  BY DEF Cover!Moves, Cover!InReach

LEMMA FetchInv == CoverInv /\ Cover!Fetch => CoverInv'
  <1> SUFFICES ASSUME CoverInv, Cover!Fetch PROVE CoverInv'
    OBVIOUS
  <1> USE CoverAssumed
     DEF Cover!CoverAssumption, CoverInv, Cover!Fetch, Cover!house, Cover!history
  <1>1. Cover!TypeOK'
    BY DEF Cover!TypeOK, Cover!Fault
  <1>2. Cover!TableInTime' /\ RowSeen'
    BY DEF Cover!TypeOK, Cover!TableInTime, RowSeen
  <1>3. CoverCounted'
    BY DEF Cover!TypeOK, CoverCounted, Pending, Cover!Fault
  <1> QED
    BY <1>1, <1>2, <1>3

\* More failures leave room for as many commands.
LEMMA MoreFaults ==
  ASSUME NEW n \in Nat, NEW f \in Nat, NEW g \in Nat, n <= 1 + f, f <= g
  PROVE  n <= 1 + g
  OBVIOUS

LEMMA SkipInv == CoverInv /\ Cover!Skip => CoverInv'
  <1> SUFFICES ASSUME CoverInv, Cover!Skip PROVE CoverInv'
    OBVIOUS
  <1> USE CoverAssumed DEF Cover!CoverAssumption, CoverInv, Cover!Skip, Cover!house, Cover!history
  <1>1. coverFaults' \in Nat /\ coverFaults' >= coverFaults /\ coverFaults' <= MaxCoverFaults
    BY DEF Cover!TypeOK, Cover!Fault
  <1>2. Cover!TypeOK'
    BY <1>1 DEF Cover!TypeOK
  <1>3. Cover!TableInTime' /\ RowSeen'
    BY DEF Cover!TypeOK, Cover!TableInTime, RowSeen
  <1>4. CoverCounted'
    <2>1. ~Pending /\ ~Pending'
      BY DEF Pending
    <2>2. uncounted <= 1 + coverFaults
      BY <2>1 DEF CoverCounted
    <2>3. age = NoRow => uncounted <= coverFaults
      BY <2>1 DEF CoverCounted
    <2>4. uncounted' = uncounted /\ uncounted \in Nat /\ coverFaults \in Nat
      BY DEF Cover!TypeOK
    <2>5. age' = age
      OBVIOUS
    <2> HIDE DEF Cover!Skip, CoverInv
    <2>6. uncounted' <= 1 + coverFaults'
      BY <1>1, <2>2, <2>4, MoreFaults
    <2>7. age' = NoRow => uncounted' <= coverFaults'
      BY <1>1, <2>3, <2>4, <2>5
    <2> QED
      BY <2>1, <2>6, <2>7 DEF CoverCounted
  <1> QED
    BY <1>2, <1>3, <1>4

LEMMA MoveCoverInv == CoverInv /\ Cover!MoveCover => CoverInv'
  <1> SUFFICES ASSUME CoverInv, Cover!MoveCover PROVE CoverInv'
    OBVIOUS
  <1> USE CoverAssumed DEF Cover!CoverAssumption, CoverInv, Cover!MoveCover, Cover!Count
  <1>1. coverAt = "decide"
    BY DEF Cover!Moves, Cover!Wanted, Cover!Ready
  <1>2. Cover!TypeOK'
    BY MovesInReach DEF Cover!TypeOK
  <1>3. Cover!TableInTime' /\ RowSeen'
    BY DEF Cover!TableInTime, RowSeen
  <1>4. CoverCounted'
    BY <1>1 DEF Cover!TypeOK, CoverCounted, Pending
  <1> QED
    BY <1>2, <1>3, <1>4

LEMMA MoveFailsInv == CoverInv /\ Cover!MoveFails => CoverInv'
  <1> SUFFICES ASSUME CoverInv, Cover!MoveFails PROVE CoverInv'
    OBVIOUS
  <1> USE CoverAssumed
     DEF Cover!CoverAssumption, CoverInv, Cover!MoveFails, Cover!Count, Cover!Fault, Cover!history
  <1>1. coverAt = "decide"
    BY DEF Cover!Moves, Cover!Wanted, Cover!Ready
  <1>2. Cover!TypeOK'
    <2>1. HouseTypes'
      BY MovesInReach, TypeParts DEF HouseTypes
    <2>2. LoopTypes'
      BY TypeParts DEF LoopTypes
    <2>3. FlagTypes'
      BY TypeParts DEF FlagTypes
    <2>4. CountTypes'
      BY TypeParts DEF CountTypes
    <2> QED
      BY <2>1, <2>2, <2>3, <2>4, TypePartsNext
  <1>3. Cover!TableInTime' /\ RowSeen'
    BY <1>1 DEF Cover!TypeOK, Cover!TableInTime, RowSeen
  <1>4. CoverCounted'
    BY <1>1 DEF Cover!TypeOK, CoverCounted, Pending
  <1> QED
    BY <1>2, <1>3, <1>4

LEMMA DownInv == CoverInv /\ (Cover!MoveKills \/ Cover!Crash \/ Cover!Restart) => CoverInv'
  <1> SUFFICES ASSUME CoverInv, Cover!MoveKills \/ Cover!Crash \/ Cover!Restart PROVE CoverInv'
    OBVIOUS
  <1> USE CoverAssumed
     DEF Cover!CoverAssumption, CoverInv, Cover!house, Cover!history, Cover!Nothing
  <1>1. CASE Cover!MoveKills
    <2>1. coverAt = "decide"
      BY <1>1 DEF Cover!MoveKills, Cover!Moves, Cover!Wanted, Cover!Ready
    <2>2. Cover!TypeOK'
      BY <1>1 DEF Cover!MoveKills, Cover!Fault, Cover!TypeOK
    <2>3. Cover!TableInTime' /\ RowSeen' /\ CoverCounted'
      BY <1>1, <2>1
         DEF Cover!MoveKills, Cover!Fault, Cover!TypeOK, Cover!TableInTime, RowSeen,
           CoverCounted, Pending
    <2> QED
      BY <2>2, <2>3
  <1>2. CASE Cover!Crash
    <2>1. Cover!TypeOK'
      <4>1. HouseTypes'
        BY <1>2, TypeParts, NothingIsValue DEF Cover!Crash, Cover!Fault, HouseTypes
      <4>2. LoopTypes'
        BY <1>2, TypeParts DEF Cover!Crash, Cover!Fault, LoopTypes
      <4>3. FlagTypes'
        BY <1>2, TypeParts DEF Cover!Crash, Cover!Fault, FlagTypes
      <4>4. CountTypes'
        BY <1>2, TypeParts DEF Cover!Crash, Cover!Fault, CountTypes
      <4> QED
        BY <4>1, <4>2, <4>3, <4>4, TypePartsNext
    <2>2. Cover!TableInTime' /\ RowSeen' /\ CoverCounted'
      BY <1>2
         DEF Cover!Crash, Cover!Fault, Cover!TypeOK, Cover!TableInTime, RowSeen, CoverCounted,
           Pending
    <2> QED
      BY <2>1, <2>2
  <1>3. CASE Cover!Restart
    BY <1>3 DEF Cover!Restart, Cover!TypeOK, Cover!TableInTime, RowSeen, CoverCounted, Pending
  <1> QED
    BY <1>1, <1>2, <1>3

LEMMA SaveInv == CoverInv /\ (Cover!Save \/ Cover!SaveStats) => CoverInv'
  <1> SUFFICES ASSUME CoverInv, Cover!Save \/ Cover!SaveStats PROVE CoverInv'
    OBVIOUS
  <1> USE CoverAssumed DEF Cover!CoverAssumption, CoverInv, Cover!house
  <1>1. CASE Cover!Save
    <2>1. Cover!TypeOK'
      <4>1. HouseTypes'
        BY <1>1, TypeParts DEF Cover!Save, Cover!SaveTime, Cover!Fault, HouseTypes
      <4>2. LoopTypes'
        BY <1>1, TypeParts DEF Cover!Save, Cover!SaveTime, Cover!Fault, LoopTypes
      <4>3. FlagTypes'
        BY <1>1, TypeParts DEF Cover!Save, Cover!SaveTime, Cover!Fault, FlagTypes
      <4>4. CountTypes'
        BY <1>1, TypeParts DEF Cover!Save, Cover!SaveTime, Cover!Fault, CountTypes
      <4> QED
        BY <4>1, <4>2, <4>3, <4>4, TypePartsNext
    <2>2. Cover!TableInTime' /\ RowSeen'
      BY <1>1 DEF Cover!Save, Cover!SaveTime, Cover!TypeOK, Cover!TableInTime, RowSeen
    <2>3. CoverCounted'
      BY <1>1
         DEF Cover!Save, Cover!SaveTime, Cover!Fault, Cover!TypeOK, RowSeen, CoverCounted, Pending
    <2> QED
      BY <2>1, <2>2, <2>3
  <1>2. CASE Cover!SaveStats
    <2>1. Cover!TypeOK'
      <4>1. HouseTypes'
        BY <1>2, TypeParts DEF Cover!SaveStats, Cover!Fault, HouseTypes
      <4>2. LoopTypes'
        BY <1>2, TypeParts DEF Cover!SaveStats, Cover!Fault, LoopTypes
      <4>3. FlagTypes'
        BY <1>2, TypeParts DEF Cover!SaveStats, Cover!Fault, FlagTypes
      <4>4. CountTypes'
        BY <1>2, TypeParts DEF Cover!SaveStats, Cover!Fault, CountTypes, CoverCounted, Pending
      <4> QED
        BY <4>1, <4>2, <4>3, <4>4, TypePartsNext
    <2>2. Cover!TableInTime' /\ RowSeen'
      BY <1>2 DEF Cover!SaveStats, Cover!TypeOK, Cover!TableInTime, RowSeen
    <2>3. CoverCounted'
      BY <1>2 DEF Cover!SaveStats, Cover!Fault, Cover!TypeOK, RowSeen, CoverCounted, Pending
    <2> QED
      BY <2>1, <2>2, <2>3
  <1> QED
    BY <1>1, <1>2

LEMMA TickInv == CoverInv /\ Cover!Tick => CoverInv'
  <1> SUFFICES ASSUME CoverInv, Cover!Tick PROVE CoverInv'
    OBVIOUS
  <1> USE CoverAssumed DEF Cover!CoverAssumption, CoverInv, Cover!Tick, Cover!house, Cover!process
  <1>1. Cover!TypeOK'
    BY DEF Cover!TypeOK, Cover!Older
  <1>2. Cover!TableInTime' /\ RowSeen'
    BY DEF Cover!TypeOK, Cover!TableInTime, RowSeen, Cover!Older
  <1>3. CoverCounted'
    BY DEF Cover!TypeOK, CoverCounted, Pending, Cover!Older
  <1> QED
    BY <1>1, <1>2, <1>3

LEMMA HouseInv ==
  CoverInv /\ (Cover!WaterTurns \/ Cover!UserSwitchesManual \/ Cover!HaUpdates) => CoverInv'
  <1> SUFFICES ASSUME CoverInv, Cover!WaterTurns \/ Cover!UserSwitchesManual \/ Cover!HaUpdates
               PROVE CoverInv'
    OBVIOUS
  <1>1. UNCHANGED <<age, coverAt, row, since, unsaved, uncounted, coverFaults>>
    BY DEF Cover!WaterTurns, Cover!UserSwitchesManual, Cover!HaUpdates, Cover!process,
       Cover!history
  <1>2. Cover!TypeOK'
    <2>1. HouseTypes /\ LoopTypes /\ FlagTypes /\ CountTypes
      BY TypeParts DEF CoverInv
    <2>2. HouseTypes'
      <3>1. CASE Cover!WaterTurns
        BY <2>1, <3>1 DEF HouseTypes, CoverValues, Cover!WaterTurns, Cover!process
      <3>2. CASE Cover!UserSwitchesManual
        BY <2>1, <3>2, CoverAssumed
           DEF Cover!CoverAssumption, HouseTypes, CoverValues, Cover!UserSwitchesManual,
             Cover!process
      <3>3. CASE Cover!HaUpdates
        BY <2>1, <3>3 DEF HouseTypes, CoverValues, Cover!HaUpdates, Cover!house, Cover!process
      <3> QED
        BY <3>1, <3>2, <3>3
    <2>3. LoopTypes'
      BY <1>1, <2>1 DEF LoopTypes
    <2>4. FlagTypes' /\ CountTypes'
      BY <1>1, <2>1 DEF FlagTypes, CountTypes
    <2> QED
      BY <2>2, <2>3, <2>4, TypePartsNext
  <1> QED
    BY <1>1, <1>2 DEF CoverInv, Cover!TableInTime, RowSeen, CoverCounted, Pending

LEMMA StepInv == CoverInv /\ [Cover!Next]_(Cover!vars) => CoverInv'
  <1> SUFFICES ASSUME CoverInv, [Cover!Next]_(Cover!vars) PROVE CoverInv'
    OBVIOUS
  <1>1. CASE UNCHANGED Cover!vars
    BY <1>1
       DEF CoverInv, Cover!TypeOK, Cover!TableInTime, RowSeen, CoverCounted, Pending, Cover!vars
  <1> QED
    BY <1>1, FetchInv, SkipInv, MoveCoverInv, MoveFailsInv, DownInv, SaveInv, TickInv, HouseInv
       DEF Cover!Next, Cover!Loop

\* The inductive invariant: types, what the row knows of the last command and
\* the commands it has not counted yet.
THEOREM CoverInvariant == CoverSpec => []CoverInv
  BY CoverInitInv, StepInv, PTL DEF CoverSpec, Cover!Spec

\* Types hold; no command asks for a position outside 0 .. Full
\* (floorheating/floorheating.go:403-406).
THEOREM CoverTypeCorrect == CoverSpec => []CoverTypeOK
  <1>1. CoverInv => CoverTypeOK
    BY DEF CoverInv, CoverTypeOK
  <1> QED
    BY <1>1, CoverInvariant, PTL

\* The time in the table is never older than the last command, except between
\* the command and its save, and after a save that failed
\* (floorheating/floorheating.go:412-420).
THEOREM CoverTableInTime == CoverSpec => []TableInTime
  <1>1. CoverInv => TableInTime
    BY DEF CoverInv, TableInTime
  <1> QED
    BY <1>1, CoverInvariant, PTL

\* The statistics miss one command and one per failure at most
\* (floorheating/floorheating.go:421-427).
THEOREM CoverStatsCountMoves == CoverSpec => []StatsCountMoves
  <1>1. CoverInv => StatsCountMoves
    BY DEF CoverInv, StatsCountMoves, CoverCounted, Pending, Cover!StatsCountMoves
  <1> QED
    BY <1>1, CoverInvariant, PTL

\* Any two commands are the interval apart, across any number of crashes and
\* restarts, unless the first one's time could not be saved
\* (floorheating/floorheating.go:346-364).
THEOREM CoverIsPaced == CoverSpec => CoverPaced
  <1>1. CoverInv /\ Cover!MoveCover => since = Interval \/ unsaved
    <2> SUFFICES ASSUME CoverInv, Cover!MoveCover, ~unsaved PROVE since = Interval
      OBVIOUS
    <2>1. coverAt = "decide" /\ Cover!Due
      BY DEF Cover!MoveCover, Cover!Moves, Cover!Wanted, Cover!Ready
    <2>2. since < Interval => age # NoRow /\ age <= since
      BY <2>1 DEF CoverInv, Cover!TableInTime
    <2> QED
      BY <2>1, <2>2, CoverAssumed DEF Cover!CoverAssumption, CoverInv, Cover!TypeOK, Cover!Due
  <1>2. CoverInv /\ [Cover!Next]_(Cover!vars) =>
          [Cover!MoveCover => since = Interval \/ unsaved]_(Cover!vars)
    BY <1>1
  <1> QED
    BY <1>2, CoverInvariant, PTL DEF CoverSpec, Cover!Spec, CoverPaced, Cover!CoverPaced

-----------------------------------------------------------------------------
(* The target: the curve. *)

\* Multiplying by a natural number keeps the order.
LEMMA Scaled ==
  ASSUME NEW x \in Int, NEW y \in Int, NEW d \in Nat, x <= y
  PROVE  x * d <= y * d
  OBVIOUS

\* A fraction between 0 and 1 of a difference, rounded to the nearest degree,
\* is between 0 and the difference.
LEMMA RoundedBetween ==
  ASSUME NEW d \in Nat \ {0}, NEW a \in 0 .. d, NEW m \in Int,
         NEW k \in Curve!Rounded(a * m, d)
  PROVE  \/ 0 <= k /\ k <= m
         \/ m <= k /\ k <= 0
  <1> DEFINE n == a * m
  <1>1. k \in Int /\ n \in Int
    BY CurveAssumed DEF Curve!Rounded, Curve!CurveAssumption
  <1>2. 2 * k * d <= 2 * n + d /\ 2 * n - d <= 2 * k * d
    BY DEF Curve!Rounded
  <1>3. ASSUME NEW l \in Int, l <= k - 1 PROVE l * d + d <= k * d
    <2>1. (l + 1) * d <= k * d
      BY <1>1, <1>3, Scaled
    <2> QED
      BY <2>1
  <1>4. ASSUME NEW l \in Int, k + 1 <= l PROVE k * d + d <= l * d
    <2>1. (k + 1) * d <= l * d
      BY <1>1, <1>4, Scaled
    <2> QED
      BY <1>1, <2>1
  <1>5. CASE m >= 0
    <2>1. 0 <= n /\ n <= m * d
      <3>1. 0 * m <= a * m /\ a * m <= d * m
        BY <1>5, Scaled
      <3> QED
        BY <3>1
    <2>2. 0 <= k
      <3> SUFFICES ASSUME k + 1 <= 0 PROVE FALSE
        BY <1>1
      <3>1. k * d + d <= 0
        BY <1>4
      <3> QED
        BY <1>1, <1>2, <2>1, <3>1
    <2>3. k <= m
      <3> SUFFICES ASSUME m <= k - 1 PROVE FALSE
        BY <1>1
      <3>1. m * d + d <= k * d
        BY <1>3
      <3> QED
        BY <1>1, <1>2, <2>1, <3>1
    <2> QED
      BY <2>2, <2>3
  <1>6. CASE m < 0
    <2>1. m * d <= n /\ n <= 0
      <3>1. 0 * (-m) <= a * (-m) /\ a * (-m) <= d * (-m)
        BY <1>6, Scaled
      <3> QED
        BY <3>1
    <2>2. k <= 0
      <3> SUFFICES ASSUME 0 <= k - 1 PROVE FALSE
        BY <1>1
      <3>1. d <= k * d
        BY <1>3
      <3> QED
        BY <1>1, <1>2, <2>1, <3>1
    <2>3. m <= k
      <3> SUFFICES ASSUME k + 1 <= m PROVE FALSE
        BY <1>1
      <3>1. k * d + d <= m * d
        BY <1>4
      <3> QED
        BY <1>1, <1>2, <2>1, <3>1
    <2> QED
      BY <2>2, <2>3
  <1> QED
    BY <1>5, <1>6

\* What lies between two rows lies between their targets.
LEMMA InterpolatedBetween ==
  ASSUME NEW low \in Curve!Row, NEW high \in Curve!Row, NEW t \in Int,
         10 * low.ext < t, t <= 10 * high.ext, NEW answer \in Curve!Interpolated(low, high, t)
  PROVE  /\ answer \in Int
         /\ \/ low.target <= answer /\ answer <= high.target
            \/ high.target <= answer /\ answer <= low.target
  <1> DEFINE a == t - 10 * low.ext
             m == high.target - low.target
             d == 10 * (high.ext - low.ext)
  <1>1. low.ext \in Int /\ low.target \in Int /\ high.ext \in Int /\ high.target \in Int
    BY DEF Curve!Row
  <1>2. d \in Nat \ {0} /\ a \in 0 .. d /\ m \in Int
    BY <1>1
  <1>3. PICK k \in Curve!Rounded(a * m, d) : answer = low.target + k
    BY DEF Curve!Interpolated
  <1>4. k \in Int
    BY CurveAssumed, <1>3 DEF Curve!Rounded, Curve!CurveAssumption
  <1>5. \/ 0 <= k /\ k <= m
        \/ m <= k /\ k <= 0
    <2> HIDE DEF a, m, d
    <2> QED
      BY <1>2, RoundedBetween
  <1> QED
    BY <1>1, <1>3, <1>4, <1>5

\* Every answer of a table lies between two of its targets.
LEMMA AnswersBetween ==
  ASSUME NEW c \in Curves, NEW t \in Int, NEW answer \in Curve!Answers(c, t)
  PROVE  /\ answer \in Int
         /\ \E low, high \in c : low.target <= answer /\ answer <= high.target
  <1>1. c \subseteq Curve!Row
    BY CurveAssumed DEF Curve!CurveAssumption
  <1>2. CASE Curve!Above(c, t) = {}
    <2>1. PICK r \in c : answer = r.target
      BY <1>2 DEF Curve!Answers, Curve!Warmest
    <2>2. r.target \in Int
      BY <1>1 DEF Curve!Row
    <2> QED
      BY <2>1, <2>2
  <1>3. CASE Curve!Above(c, t) # {}
    <2>1. PICK low \in Curve!Below(c, t), high \in Curve!Above(c, t) :
          answer \in Curve!Interpolated(low, high, t)
      BY <1>3 DEF Curve!Answers, Curve!Warmest, Curve!Coldest
    <2>2. low \in c /\ high \in c /\ 10 * low.ext < t /\ 10 * high.ext >= t
      BY DEF Curve!Below, Curve!Above
    <2>3. low.ext \in Int /\ high.ext \in Int
      BY <1>1, <2>2 DEF Curve!Row
    <2>4. /\ answer \in Int
          /\ \/ low.target <= answer /\ answer <= high.target
             \/ high.target <= answer /\ answer <= low.target
      BY <1>1, <2>1, <2>2, <2>3, InterpolatedBetween
    <2> QED
      BY <2>2, <2>4
  <1> QED
    BY <1>2, <1>3

-----------------------------------------------------------------------------
(* The target: its inductive invariant. *)

\* A poll that did not see the switch has a write to spare.
Spare ==
  /\ late <= 1 + curveFaults
  /\ curveAt = "decide" /\ curveManual /\ ~curveSeen.manual => late <= curveFaults

\* The part of the types that the properties rest on.
CurveTypes ==
  /\ curve \in Curves
  /\ outside \in [{"katel", "pump"} -> Outside]
  /\ offset \in Offsets /\ winterMode \in BOOLEAN /\ curveManual \in BOOLEAN
  /\ target \in Int /\ curveSeen \in Curve!Seen

CurveCounters == late \in Nat /\ curveFaults \in Nat

CurveInv == CurveTypes /\ CurveCounters /\ Spare

LEMMA NothingSeen == Curve!Nothing \in Curve!Seen
  BY DEF Curve!Nothing, Curve!Seen

LEMMA CurveInitInv == Curve!Init => CurveInv
  <1> SUFFICES ASSUME Curve!Init PROVE CurveInv
    OBVIOUS
  <1>1. CurveTypes
    BY CurveAssumed, NothingSeen DEF CurveTypes, Curve!Init, Curve!CurveAssumption
  <1>2. CurveCounters /\ Spare
    BY DEF CurveCounters, Spare, Curve!Init
  <1> QED
    BY <1>1, <1>2 DEF CurveInv

\* A record is in Seen when its entities are.
LEMMA SeenByEntity ==
  ASSUME NEW katel \in Outside \cup {NoReading}, NEW other \in Outside \cup {NoReading},
         NEW o \in Int, NEW w \in BOOLEAN, NEW m \in BOOLEAN, NEW t \in Int \cup {NoReading}
  PROVE  [katel |-> katel, pump |-> other, offset |-> o, winterMode |-> w,
          manual |-> m, target |-> t] \in Curve!Seen
  BY DEF Curve!Seen

\* An old record with some entities of a new one.
LEMMA SeenMixed ==
  ASSUME NEW old \in Curve!Seen, NEW new \in Curve!Seen, NEW missing
  PROVE  [k \in DOMAIN new |-> IF k \in missing THEN old[k] ELSE new[k]] \in Curve!Seen
  BY DEF Curve!Seen

\* What a poll parses has the right types, entity by entity.
LEMMA ParseSeen ==
  ASSUME CurveTypes, Curve!Parse
  PROVE  curveSeen' \in Curve!Seen
  <1>1. Curve!Shown \in Curve!Seen
    <2>1. outside.katel \in Outside /\ outside.pump \in Outside
      BY DEF CurveTypes
    <2>2. offset \in Int /\ target \in Int /\ winterMode \in BOOLEAN /\ curveManual \in BOOLEAN
      BY CurveAssumed DEF CurveTypes, Curve!CurveAssumption
    <2> QED
      BY <2>1, <2>2, SeenByEntity DEF Curve!Shown
  <1>2. CASE curveSeen' = Curve!Shown
    BY <1>1, <1>2
  <1>3. ASSUME NEW missing \in SUBSET DOMAIN Curve!Shown,
               curveSeen' = [k \in DOMAIN Curve!Shown |->
                     IF k \in missing THEN curveSeen[k] ELSE Curve!Shown[k]]
        PROVE  curveSeen' \in Curve!Seen
    <2>1. curveSeen \in Curve!Seen
      BY DEF CurveTypes
    <2> QED
      BY <1>1, <1>3, <2>1, SeenMixed
  <1> QED
    BY <1>2, <1>3 DEF Curve!Parse

\* The temperature the curve is asked for is one.
LEMMA ReadyTypes ==
  ASSUME CurveTypes, Curve!Ready
  PROVE  /\ Curve!OutsideSeen \in Int /\ curveSeen.offset \in Int
         /\ curve \in Curves
  <1>1. /\ curveSeen.katel \in Outside \cup {NoReading}
        /\ curveSeen.pump \in Outside \cup {NoReading}
        /\ curveSeen.offset \in Int
    BY DEF CurveTypes, Curve!Seen
  <1>2. curveSeen.katel # NoReading
    BY DEF Curve!Ready
  <1>3. Curve!OutsideSeen \in Outside
    BY <1>1, <1>2 DEF Curve!OutsideSeen
  <1> QED
    BY CurveAssumed, <1>1, <1>3 DEF CurveTypes, Curve!CurveAssumption

\* Whatever Update writes is an integer.
LEMMA UpdateTarget ==
  ASSUME CurveTypes, Curve!Update
  PROVE  target' \in Int
  <1>1. Curve!Ready
    BY DEF Curve!Update
  <1>2. PICK answer \in Curve!Answers(curve, Curve!OutsideSeen) :
             target' = target \/ target' = 10 * (answer + curveSeen.offset)
    BY DEF Curve!Update
  <1>3. answer \in Int /\ curveSeen.offset \in Int
    BY <1>1, ReadyTypes, AnswersBetween
  <1> QED
    BY <1>2, <1>3 DEF CurveTypes

\* Types do not change but by the parse, the loop's write and the house.
LEMMA TypesStep ==
  ASSUME CurveTypes, [Curve!Next]_(Curve!vars)
  PROVE  CurveTypes'
  <1>1. CASE Curve!Fetch
    BY <1>1, ParseSeen DEF Curve!Fetch, CurveTypes, Curve!house
  <1>2. CASE Curve!Update
    BY <1>2, UpdateTarget DEF Curve!Update, CurveTypes, Curve!house
  <1>3. CASE Curve!Skip \/ Curve!UpdateFails \/ Curve!Restart \/ UNCHANGED Curve!vars
    BY <1>3 DEF Curve!Skip, Curve!UpdateFails, Curve!Restart, CurveTypes, Curve!house, Curve!vars
  <1>4. CASE Curve!Panic \/ Curve!Crash
    BY <1>4, NothingSeen DEF Curve!Panic, Curve!Crash, CurveTypes, Curve!house
  <1>5. CASE Curve!House
    <2>1. ASSUME NEW s \in {"katel", "pump"}, Curve!WeatherTurns(s) PROVE CurveTypes'
      <3>1. outside' \in [{"katel", "pump"} -> Outside]
        BY <2>1 DEF Curve!WeatherTurns, CurveTypes
      <3> QED
        BY <2>1, <3>1 DEF Curve!WeatherTurns, CurveTypes
    <2>2. CASE Curve!BoilerMode
      BY <2>2 DEF Curve!BoilerMode, CurveTypes
    <2>3. CASE Curve!UserTurnsOffset
      BY <2>3 DEF Curve!UserTurnsOffset, CurveTypes
    <2>4. CASE Curve!UserSetsTarget
      BY CurveAssumed, <2>4
         DEF Curve!UserSetsTarget, CurveTypes, Curve!CurveAssumption, Curve!house
    <2>5. CASE Curve!UserSwitchesManual
      BY <2>5 DEF Curve!UserSwitchesManual, CurveTypes
    <2> QED
      BY <1>5, <2>1, <2>2, <2>3, <2>4, <2>5 DEF Curve!House
  <1> QED
    BY <1>1, <1>2, <1>3, <1>4, <1>5 DEF Curve!Next, Curve!Loop

\* The counts of a step.
LEMMA CountersStep ==
  ASSUME CurveTypes, CurveCounters, [Curve!Next]_(Curve!vars)
  PROVE  CurveCounters'
  <1>1. CASE Curve!Update
    BY <1>1 DEF Curve!Update, CurveCounters
  <1>2. CASE Curve!Fetch
    BY <1>2 DEF Curve!Fetch, Curve!Parse, Curve!Fault, CurveCounters
  <1>3. CASE Curve!Skip \/ Curve!UpdateFails \/ Curve!Panic \/ Curve!Crash \/ Curve!Restart
             \/ UNCHANGED Curve!vars
    BY <1>3 DEF Curve!Skip, Curve!UpdateFails, Curve!Panic, Curve!Crash, Curve!Restart,
                Curve!vars, Curve!Fault, CurveCounters
  <1>4. CASE Curve!House
    BY <1>4 DEF Curve!House, Curve!WeatherTurns, Curve!BoilerMode, Curve!UserTurnsOffset,
                Curve!UserSetsTarget,
                Curve!UserSwitchesManual, CurveCounters
  <1> QED
    BY <1>1, <1>2, <1>3, <1>4 DEF Curve!Next, Curve!Loop

\* A write while the user has the target takes the spare one; a poll has one
\* only when the switch was turned after it or was not seen, which is a fault.
LEMMA SpareStep ==
  ASSUME CurveTypes, CurveCounters, Spare, [Curve!Next]_(Curve!vars)
  PROVE  Spare'
  <1>1. CASE Curve!Fetch
    <2>1. CASE curveSeen' = Curve!Shown /\ UNCHANGED curveFaults
      <3>1. curveSeen'.manual = curveManual
        BY <2>1 DEF Curve!Shown
      <3> QED
        BY <1>1, <2>1, <3>1 DEF Curve!Fetch, Spare, Curve!house
    <2>2. CASE Curve!Fault
      BY <1>1, <2>2 DEF Curve!Fetch, Curve!Fault, Spare, CurveCounters, Curve!house
    <2> QED
      BY <1>1, <2>1, <2>2 DEF Curve!Fetch, Curve!Parse
  <1>2. CASE Curve!Update
    <2>1. ~curveSeen.manual /\ curveAt = "decide" /\ curveAt' = "wait"
          /\ curveFaults' = curveFaults
      BY <1>2 DEF Curve!Update, Curve!Ready
    <2>2. late' = late \/ (curveManual /\ late' = late + 1)
      BY <1>2 DEF Curve!Update
    <2> QED
      BY <2>1, <2>2 DEF Spare, CurveCounters
  <1>3. CASE Curve!Skip \/ Curve!UpdateFails \/ Curve!Panic \/ Curve!Crash \/ Curve!Restart
             \/ UNCHANGED Curve!vars
    BY <1>3 DEF Curve!Skip, Curve!UpdateFails, Curve!Panic, Curve!Crash, Curve!Restart,
                Curve!vars, Curve!house, Curve!Fault, CurveCounters, Spare
  <1>4. CASE Curve!House
    BY <1>4 DEF Curve!House, Curve!WeatherTurns, Curve!BoilerMode, Curve!UserTurnsOffset,
                Curve!UserSetsTarget,
                Curve!UserSwitchesManual, CurveCounters, Spare, Curve!house
  <1> QED
    BY <1>1, <1>2, <1>3, <1>4 DEF Curve!Next, Curve!Loop

\* The inductive invariant: types and the write a poll has to spare
\* (brain/floorheating.go:152-160).
THEOREM CurveInvariant == CurveSpec => []CurveInv
  <1>1. Curve!Init => CurveInv
    BY CurveInitInv
  <1>2. CurveInv /\ [Curve!Next]_(Curve!vars) => CurveInv'
    BY TypesStep, CountersStep, SpareStep DEF CurveInv
  <1> QED
    BY <1>1, <1>2, PTL DEF CurveSpec, Curve!Spec

\* What the invariant leaves open of the types: where the loop is, the bounds.
CurveBounds ==
  /\ curveAt \in {"wait", "decide", "down"}
  /\ curveFaults \in 0 .. MaxCurveFaults /\ curveUser \in 0 .. MaxCurveUser

LEMMA BoundsStep ==
  ASSUME CurveBounds, [Curve!Next]_(Curve!vars)
  PROVE  CurveBounds'
  <1>1. curveAt' \in {"wait", "decide", "down"}
    BY DEF CurveBounds, Curve!Next, Curve!Loop, Curve!Fetch, Curve!Update, Curve!Skip,
       Curve!UpdateFails, Curve!Panic, Curve!Crash, Curve!Restart, Curve!House,
       Curve!WeatherTurns, Curve!BoilerMode, Curve!UserTurnsOffset, Curve!UserSetsTarget,
       Curve!UserSwitchesManual, Curve!vars
  <1>2. curveFaults' = curveFaults \/ Curve!Fault
    BY DEF Curve!Next, Curve!Loop, Curve!Fetch, Curve!Parse, Curve!Update, Curve!Skip,
       Curve!UpdateFails, Curve!Panic, Curve!Crash, Curve!Restart, Curve!House,
       Curve!WeatherTurns, Curve!BoilerMode, Curve!UserTurnsOffset, Curve!UserSetsTarget,
       Curve!UserSwitchesManual, Curve!vars
  <1>3. curveUser' = curveUser \/ Curve!UserActs
    BY DEF Curve!Next, Curve!Loop, Curve!Fetch, Curve!Update, Curve!Skip,
       Curve!UpdateFails, Curve!Panic, Curve!Crash, Curve!Restart, Curve!House,
       Curve!WeatherTurns, Curve!BoilerMode, Curve!UserTurnsOffset, Curve!UserSetsTarget,
       Curve!UserSwitchesManual, Curve!vars
  <1> QED
    BY <1>1, <1>2, <1>3, CurveAssumed
       DEF CurveBounds, Curve!Fault, Curve!UserActs, Curve!CurveAssumption

\* The types of the weather, the switches, the target and what was parsed.
THEOREM CurveTypeCorrect == CurveSpec => []Curve!TypeOK
  <1>1. Curve!Init => CurveBounds
    BY CurveAssumed DEF Curve!Init, CurveBounds, Curve!CurveAssumption
  <1>2. CurveBounds /\ [Curve!Next]_(Curve!vars) => CurveBounds'
    BY BoundsStep
  <1>3. CurveInv /\ CurveBounds => Curve!TypeOK
    BY DEF CurveInv, CurveTypes, CurveCounters, CurveBounds, Curve!TypeOK
  <1> QED
    BY <1>1, <1>2, <1>3, CurveInvariant, PTL DEF CurveSpec, Curve!Spec

\* A user who takes the target over is overruled by one poll at most, and by
\* one more for every fault (brain/floorheating.go:153-157).
THEOREM CurveYieldsToUser == CurveSpec => []ManualOverruledOnce
  <1>1. CurveInv => ManualOverruledOnce
    BY DEF CurveInv, Spare, ManualOverruledOnce, Curve!ManualOverruledOnce
  <1> QED
    BY <1>1, CurveInvariant, PTL

\* The step behind the next theorem.
LEMMA UpdateWithin ==
  ASSUME CurveTypes, Curve!Update, target' # target
  PROVE  \E low, high \in curve :
            10 * (low.target + curveSeen.offset) <= target'
                  /\ target' <= 10 * (high.target + curveSeen.offset)
  <1>1. Curve!Ready
    BY DEF Curve!Update
  <1>2. PICK answer \in Curve!Answers(curve, Curve!OutsideSeen) :
        target' = 10 * (answer + curveSeen.offset)
    BY DEF Curve!Update
  <1>3. answer \in Int /\ curveSeen.offset \in Int
    BY <1>1, ReadyTypes, AnswersBetween
  <1>4. PICK low, high \in curve : low.target <= answer /\ answer <= high.target
    BY <1>1, ReadyTypes, AnswersBetween
  <1>5. low.target \in Int /\ high.target \in Int
    BY CurveAssumed, <1>1, ReadyTypes DEF Curve!CurveAssumption, Curve!Row
  <1> QED
    BY <1>2, <1>3, <1>4, <1>5

\* For every table, offset and weather a target that the program writes lies
\* between the lowest and the highest of the table
\* (floorheating/floorheating.go:257-294, 309-319).
THEOREM CurveStaysWithin == CurveSpec => TargetWithinCurve
  <1>1. CurveInv /\ [Curve!Next]_(Curve!vars) =>
          [ Curve!Update /\ target' # target =>
              \E low, high \in curve :
                 10 * (low.target + curveSeen.offset) <= target'
                   /\ target' <= 10 * (high.target + curveSeen.offset) ]_(Curve!vars)
    BY UpdateWithin DEF CurveInv
  <1> QED
    BY <1>1, CurveInvariant, PTL
       DEF CurveSpec, Curve!Spec, TargetWithinCurve, Curve!TargetWithinCurve

-----------------------------------------------------------------------------
(* The pump: the fourth dearest hour. *)

LEMMA LeastExists ==
  ASSUME NEW S \in SUBSET Nat, S # {}
  PROVE  \E e \in S : \A f \in S : e <= f
  <1> DEFINE R == {p \in Nat \X Nat : p[1] < p[2]}
  <1>1. IsWellFoundedOn(R, Nat)
    <2>1. R = OpToRel(<, Nat)
      BY Zenon DEF OpToRel
    <2> QED
      BY <2>1, NatLessThanWellFounded, Zenon
  <1> HIDE DEF R
  <1>2. PICK e \in S : \A f \in S : ~ (<<f, e>> \in R)
    BY <1>1, WFMin
  <1>3. ASSUME NEW f \in S PROVE e <= f
    <2>1. ~ (f < e)
      BY <1>2 DEF R
    <2> QED
      BY <2>1
  <1> QED
    BY <1>3

\* How many hours are dearer is a number, less for a dearer price in the list.
LEMMA DearerCounted ==
  ASSUME NEW list \in Seq(Int), NEW p \in Int
  PROVE  /\ Cardinality(DearerThan(list, p)) \in Nat
         /\ \A S \in SUBSET DearerThan(list, p) :
              /\ Cardinality(S) \in Nat /\ Cardinality(S) <= Cardinality(DearerThan(list, p))
              /\ S # DearerThan(list, p)
                    => Cardinality(S) < Cardinality(DearerThan(list, p))
  <1> DEFINE D == DearerThan(list, p)
  <1>1. Len(list) \in Nat /\ DOMAIN list = 1 .. Len(list)
    OBVIOUS
  <1>2. IsFiniteSet(DOMAIN list)
    BY <1>1, FS_Interval
  <1>3. D \in SUBSET (DOMAIN list)
    BY DEF DearerThan
  <1>4. IsFiniteSet(D)
    BY <1>2, <1>3, FS_Subset
  <1> HIDE DEF D
  <1>5. Cardinality(D) \in Nat
    BY <1>4, FS_CardinalityType
  <1>6. ASSUME NEW S \in SUBSET D
        PROVE  /\ Cardinality(S) \in Nat /\ Cardinality(S) <= Cardinality(D)
               /\ S # D => Cardinality(S) < Cardinality(D)
    <2>1. IsFiniteSet(S) /\ Cardinality(S) <= Cardinality(D)
          /\ (Cardinality(D) = Cardinality(S) => D = S)
      BY <1>4, FS_Subset
    <2>2. Cardinality(S) \in Nat
      BY <2>1, FS_CardinalityType
    <2> QED
      BY <1>5, <2>1, <2>2
  <1> QED
    BY <1>5, <1>6 DEF D

LEMMA CountOfInterval ==
  ASSUME NEW n \in Nat
  PROVE  Cardinality(1 .. n) = n
  <1>1. 1 \in Int /\ n \in Int
    OBVIOUS
  <1>2. \A a, b \in Int : Cardinality(a .. b) = IF a > b THEN 0 ELSE b - a + 1
    BY FS_Interval, Zenon
  <1>3. Cardinality(1 .. n) = IF 1 > n THEN 0 ELSE n - 1 + 1
    BY <1>1, <1>2, Zenon
  <1> QED
    BY <1>3

LEMMA DearestExists ==
  ASSUME NEW list \in Seq(Int), NEW V \in SUBSET {list[i] : i \in DOMAIN list}, V # {}
  PROVE  \E q \in V : \A v \in V : v <= q
  <1>1. \A v \in V : v \in Int /\ \E i \in DOMAIN list : list[i] = v
    OBVIOUS
  <1> DEFINE count(v) == Cardinality(DearerThan(list, v))
             S == {count(v) : v \in V}
  <1>2. \A v \in V : count(v) \in Nat
    BY <1>1, DearerCounted
  <1>3. S \in SUBSET Nat /\ S # {}
    BY <1>2
  <1>4. PICK e \in S : \A f \in S : e <= f
    BY <1>3, LeastExists
  <1>5. PICK q \in V : e = count(q)
    BY <1>4
  <1>6. ASSUME NEW v \in V, ~ (v <= q) PROVE FALSE
    <2>1. v \in Int /\ q \in Int /\ q < v
      BY <1>1, <1>6
    <2>2. PICK i \in DOMAIN list : list[i] = v
      BY <1>1
    <2>3. \A j \in DOMAIN list : list[j] \in Int
      OBVIOUS
    <2>4. DearerThan(list, v) \in SUBSET DearerThan(list, q)
          /\ i \in DearerThan(list, q) /\ i \notin DearerThan(list, v)
      BY <2>1, <2>2, <2>3 DEF DearerThan
    <2>5. count(v) < count(q)
      BY <2>1, <2>4, DearerCounted
    <2>6. count(q) <= count(v)
      BY <1>4, <1>5
    <2> QED
      BY <1>2, <2>5, <2>6
  <1> QED
    BY <1>6

\* A list of four hours or more has a fourth dearest, and three hours at most
\* are dearer (brain/heatpump.go:416-424).
LEMMA FourthDearestExists ==
  ASSUME NEW list \in Seq(Int), 4 <= Len(list)
  PROVE  FourthDearest(list) \in Int /\ Cardinality(DearerThan(list,
        FourthDearest(list))) <= 3
  <1> DEFINE values == {list[i] : i \in DOMAIN list}
             count(v) == Cardinality(DearerThan(list, v))
             few == {v \in values : count(v) <= 3}
  <1>1. Len(list) \in Nat /\ DOMAIN list = 1 .. Len(list)
    OBVIOUS
  <1>2. \A i \in DOMAIN list : list[i] \in Int /\ list[i] \in values
    OBVIOUS
  <1>3. values \subseteq Int /\ values # {}
    BY <1>1, <1>2
  <1>4. \A v \in Int : count(v) \in Nat
    BY DearerCounted
  <1>5. few # {}
    <2>1. PICK m \in values : \A v \in values : v <= m
      BY <1>3, DearestExists
    <2>2. DearerThan(list, m) = {}
      <3>1. ASSUME NEW i \in DOMAIN list PROVE ~ (list[i] > m)
        <4>1. list[i] \in Int /\ m \in Int /\ list[i] <= m
          BY <1>2, <1>3, <2>1
        <4> QED
          BY <4>1
      <3> QED
        BY <3>1 DEF DearerThan
    <2>3. count(m) = 0
      BY <2>2, FS_EmptySet
    <2> QED
      BY <2>3
  <1>6. PICK p \in few : \A v \in few : count(v) <= count(p)
    <2> DEFINE S == {3 - count(v) : v \in few}
    <2>1. \A v \in few : count(v) \in Nat /\ count(v) <= 3
      BY <1>3, <1>4
    <2> HIDE DEF few, count
    <2>2. S \in SUBSET Nat /\ S # {}
      BY <1>5, <2>1
    <2>3. PICK e \in S : \A f \in S : e <= f
      BY <2>2, LeastExists
    <2>4. PICK p \in few : e = 3 - count(p)
      BY <2>3
    <2>5. ASSUME NEW v \in few PROVE count(v) <= count(p)
      <3>1. 3 - count(p) <= 3 - count(v)
        BY <2>3, <2>4
      <3> QED
        BY <2>1, <3>1
    <2> QED
      BY <2>5
  <1>7. p \in values /\ p \in Int /\ p - 1 \in Int /\ count(p) <= 3
    BY <1>3
  <1>8. ASSUME ~ (count(p - 1) > 3) PROVE FALSE
    <2> DEFINE below == {v \in values : v < p}
    <2>1. count(p - 1) <= 3
      <3>1. count(p - 1) \in Nat
        BY <1>4, <1>7
      <3> HIDE DEF count
      <3>2. PICK k : k = count(p - 1)
        OBVIOUS
      <3> QED
        BY <1>8, <3>1, <3>2
    <2>2. below # {}
      <3> SUFFICES ASSUME below = {} PROVE FALSE
        OBVIOUS
      <3>1. DearerThan(list, p - 1) = DOMAIN list
        <4>1. ASSUME NEW i \in DOMAIN list PROVE list[i] > p - 1
          <5>1. list[i] \in Int /\ ~ (list[i] < p)
            BY <1>2
          <5> QED
            BY <1>7, <5>1
        <4> QED
          BY <4>1 DEF DearerThan
      <3>2. Cardinality(DOMAIN list) = Len(list)
        <4>1. PICK n \in Nat : n = Len(list)
          BY <1>1
        <4>2. Cardinality(1 .. n) = n
          BY CountOfInterval
        <4> QED
          BY <1>1, <4>1, <4>2
      <3> QED
        BY <1>1, <2>1, <3>1, <3>2
    <2>3. PICK q \in below : \A v \in below : v <= q
      BY <2>2, DearestExists
    <2>4. q \in values /\ q \in Int /\ q < p
      BY <1>3
    <2>5. DearerThan(list, q) = DearerThan(list, p - 1)
      <3>1. \A i \in DOMAIN list : list[i] > q <=> list[i] > p - 1
        <4> SUFFICES ASSUME NEW i \in DOMAIN list PROVE list[i] > q <=> list[i] > p - 1
          OBVIOUS
        <4>1. list[i] \in Int /\ (list[i] < p => list[i] <= q)
          BY <1>2, <2>3
        <4> QED
          BY <1>7, <2>4, <4>1
      <3> QED
        BY <3>1 DEF DearerThan
    <2>6. q \in few
      BY <2>1, <2>4, <2>5
    <2>7. PICK i \in DOMAIN list : list[i] = p
      BY <1>7
    <2>8. DearerThan(list, p) \in SUBSET DearerThan(list, p - 1)
          /\ i \in DearerThan(list, p - 1) /\ i \notin DearerThan(list, p)
      BY <1>2, <1>7, <2>7 DEF DearerThan
    <2>9. count(p) < count(p - 1)
      BY <1>7, <2>8, DearerCounted
    <2>10. count(p - 1) <= count(p)
      BY <1>6, <2>5, <2>6
    <2> QED
      BY <1>4, <1>7, <2>9, <2>10
  <1>9. FourthDearest(list) \in values /\ count(FourthDearest(list)) <= 3
    <2>1. \E v \in values : count(v) <= 3 /\ count(v - 1) > 3
      BY <1>7, <1>8
    <2>2. FourthDearest(list) = CHOOSE v \in values : count(v) <= 3 /\ count(v - 1) > 3
      BY DEF FourthDearest
    <2> QED
      BY <2>1, <2>2
  <1> QED
    BY <1>3, <1>9

-----------------------------------------------------------------------------
(* The pump: the cheapest hours in a row. *)

\* Induction on a set.
LEMMA Climb ==
  ASSUME NEW n \in Nat, NEW G, 0 \in G, \A i \in 1 .. n : i - 1 \in G => i \in G
  PROVE  \A i \in 0 .. n : i \in G
  <1> SUFFICES ASSUME NEW i \in 0 .. n, i \notin G PROVE FALSE
    OBVIOUS
  <1> DEFINE S == {k \in 0 .. n : k \notin G}
  <1>1. S \in SUBSET Nat /\ S # {}
    OBVIOUS
  <1>2. PICK e \in S : \A f \in S : e <= f
    BY <1>1, LeastExists
  <1>3. e \in 1 .. n
    BY <1>2
  <1>4. e - 1 \in G
    BY <1>2, <1>3
  <1> QED
    BY <1>2, <1>3, <1>4

\* The sums of the prices of 0, 1, ..., n hours from h on.
AreSums(sum, list, h, n) ==
  /\ sum \in [0 .. n -> Int]
  /\ sum[0] = 0
  /\ \A k \in 1 .. n : sum[k] = sum[k - 1] + list[h + k]

LEMMA SumsExist ==
  ASSUME NEW list \in Seq(Int), NEW h \in Nat, NEW n \in Nat, h + n <= Len(list)
  PROVE  \E sum : AreSums(sum, list, h, n)
  <1> DEFINE G == {m \in 0 .. n : \E sum : AreSums(sum, list, h, m)}
  <1>1. 0 \in G
    <2>1. AreSums([i \in 0 .. 0 |-> 0], list, h, 0)
      BY DEF AreSums
    <2> QED
      BY <2>1
  <1>2. ASSUME NEW m \in 1 .. n, m - 1 \in G PROVE m \in G
    <2>1. PICK sum : AreSums(sum, list, h, m - 1)
      BY <1>2
    <2>2. PICK l \in Nat : l = Len(list)
      OBVIOUS
    <2>3. h + m \in 1 .. l
      BY <2>2
    <2>4. list[h + m] \in Int
      BY <2>2, <2>3
    <2>5. m - 1 \in 0 .. m - 1 /\ m - 1 \in Nat
      OBVIOUS
    <2>6. sum[m - 1] \in Int
      BY <2>1, <2>5 DEF AreSums
    <2>7. PICK new : new = [i \in 0 .. m |-> IF i = m THEN sum[m - 1] + list[h + m] ELSE sum[i]]
      OBVIOUS
    <2>8. \A i \in 0 .. m - 1 : new[i] = sum[i] /\ sum[i] \in Int
      BY <2>1, <2>7 DEF AreSums
    <2>9. new[m] = new[m - 1] + list[h + m] /\ new[m] \in Int
      <3>1. new[m] = sum[m - 1] + list[h + m]
        BY <2>7
      <3>2. new[m - 1] = sum[m - 1]
        BY <2>5, <2>8
      <3> QED
        BY <2>4, <2>6, <3>1, <3>2
    <2>10. \A k \in 1 .. m : new[k] = new[k - 1] + list[h + k]
      <3> SUFFICES ASSUME NEW k \in 1 .. m - 1 PROVE new[k] = new[k - 1] + list[h + k]
        BY <2>9
      <3>1. sum[k] = sum[k - 1] + list[h + k]
        BY <2>1 DEF AreSums
      <3>2. k \in 0 .. m - 1 /\ k - 1 \in 0 .. m - 1
        OBVIOUS
      <3> QED
        BY <2>8, <3>1, <3>2
    <2>11. new \in [0 .. m -> Int] /\ new[0] = 0
      <3>1. \A i \in 0 .. m : new[i] \in Int
        <4> SUFFICES ASSUME NEW i \in 0 .. m PROVE new[i] \in Int
          OBVIOUS
        <4>1. i = m \/ i \in 0 .. m - 1
          OBVIOUS
        <4> QED
          BY <2>8, <2>9, <4>1
      <3>2. sum[0] = 0 /\ 0 \in 0 .. m - 1
        BY <2>1 DEF AreSums
      <3> QED
        BY <2>7, <2>8, <3>1, <3>2
    <2>12. AreSums(new, list, h, m)
      BY <2>10, <2>11 DEF AreSums
    <2> QED
      BY <2>12
  <1> HIDE DEF G
  <1>3. \A m \in 0 .. n : m \in G
    BY <1>1, <1>2, Climb
  <1>4. n \in G
    BY <1>3
  <1> QED
    BY <1>4 DEF G

\* Total is the last of those sums.
LEMMA TotalIsSum ==
  ASSUME NEW list \in Seq(Int), NEW h \in Nat, NEW n \in Nat, h + n <= Len(list)
  PROVE  \E sum : AreSums(sum, list, h, n) /\ Total(list, h, n) = sum[n]
  <1>1. PICK acc : AreSums(acc, list, h, n)
    BY SumsExist
  <1> DEFINE IsSum(f) == f = [k \in 0 .. n |-> IF k = 0 THEN 0 ELSE f[k - 1] + list[h + k]]
             sum == CHOOSE f : IsSum(f)
  <1>2. IsSum(acc)
    <2>1. acc = [k \in 0 .. n |-> acc[k]]
      BY <1>1 DEF AreSums
    <2>2. ASSUME NEW k \in 0 .. n PROVE acc[k] = IF k = 0 THEN 0 ELSE acc[k - 1] + list[h + k]
      <3>1. CASE k = 0
        BY <1>1, <3>1 DEF AreSums
      <3>2. CASE k # 0
        <4>1. k \in 1 .. n
          BY <3>2
        <4> QED
          BY <1>1, <3>2, <4>1 DEF AreSums
      <3> QED
        BY <3>1, <3>2
    <2> QED
      BY <2>1, <2>2
  <1>3. IsSum(sum)
    <2> HIDE DEF IsSum
    <2> QED
      BY <1>2
  <1>4. Total(list, h, n) = sum[n]
    BY DEF Total
  <1> HIDE DEF sum
  <1>5. PICK f : f = sum /\ IsSum(f)
    BY <1>3
  <1>6. \A k \in 0 .. n : f[k] = IF k = 0 THEN 0 ELSE f[k - 1] + list[h + k]
    BY <1>5
  <1>7. \A k \in 0 .. n : f[k] = acc[k]
    <2> DEFINE G == {k \in 0 .. n : f[k] = acc[k]}
    <2>1. 0 \in G
      BY <1>1, <1>6 DEF AreSums
    <2>2. ASSUME NEW k \in 1 .. n, k - 1 \in G PROVE k \in G
      <3>1. f[k] = f[k - 1] + list[h + k]
        BY <1>6
      <3>2. acc[k] = acc[k - 1] + list[h + k]
        BY <1>1 DEF AreSums
      <3> QED
        BY <2>2, <3>1, <3>2
    <2> HIDE DEF G
    <2>3. \A k \in 0 .. n : k \in G
      BY <2>1, <2>2, Climb
    <2> QED
      BY <2>3 DEF G
  <1>8. n \in 0 .. n
    OBVIOUS
  <1> QED
    BY <1>1, <1>4, <1>5, <1>7, <1>8

LEMMA TotalIsInt ==
  ASSUME NEW list \in Seq(Int), NEW h \in Nat, NEW n \in Nat, h + n <= Len(list)
  PROVE  Total(list, h, n) \in Int
  <1>1. PICK sum : AreSums(sum, list, h, n) /\ Total(list, h, n) = sum[n]
    BY TotalIsSum
  <1>2. n \in 0 .. n
    OBVIOUS
  <1> QED
    BY <1>1, <1>2 DEF AreSums

\* The first of the cheapest among the places from .. last of a list of costs.
FirstLeast(cost, from, last, c) ==
  /\ c \in from .. last
  /\ \A g \in from .. last : cost[c] <= cost[g] /\ (g < c => cost[c] < cost[g])

LEMMA FirstLeastExists ==
  ASSUME NEW from \in Nat, NEW last \in Nat, from <= last, NEW cost \in [from .. last -> Int]
  PROVE  \E c : FirstLeast(cost, from, last, c)
  <1> DEFINE m == last - from
             G == {k \in 0 .. m : \E c : FirstLeast(cost, from, from + k, c)}
  <1>1. m \in Nat
    OBVIOUS
  <1>2. 0 \in G
    <2>1. FirstLeast(cost, from, from + 0, from)
      BY DEF FirstLeast
    <2> QED
      BY <1>1, <2>1
  <1>3. ASSUME NEW k \in 1 .. m, k - 1 \in G PROVE k \in G
    <2>1. PICK c : FirstLeast(cost, from, from + (k - 1), c)
      BY <1>3
    <2>2. PICK e \in Nat : e = from + k
      OBVIOUS
    <2>3. e \in from .. last /\ from + (k - 1) = e - 1 /\ from .. e - 1 \subseteq from .. last
      BY <2>2
    <2>4. c \in from .. e - 1 /\ c \in from .. e /\ e \in from .. e
      BY <2>1, <2>2, <2>3 DEF FirstLeast
    <2>5. cost[c] \in Int /\ cost[e] \in Int
      BY <2>3, <2>4
    <2>6. \A g \in from .. e - 1 :
            cost[g] \in Int /\ cost[c] <= cost[g] /\ (g < c => cost[c] < cost[g])
      BY <2>1, <2>3 DEF FirstLeast
    <2>7. CASE cost[e] < cost[c]
      <3>1. ASSUME NEW g \in from .. e PROVE cost[e] <= cost[g] /\ (g < e => cost[e] < cost[g])
        <4>1. CASE g = e
          BY <2>5, <4>1
        <4>2. CASE g # e
          <5>1. g \in from .. e - 1
            BY <4>2
          <5> QED
            BY <2>5, <2>6, <2>7, <5>1
        <4> QED
          BY <4>1, <4>2
      <3>2. FirstLeast(cost, from, e, e)
        BY <2>4, <3>1 DEF FirstLeast
      <3> QED
        BY <2>2, <3>2
    <2>8. CASE ~ (cost[e] < cost[c])
      <3>1. ASSUME NEW g \in from .. e PROVE cost[c] <= cost[g] /\ (g < c => cost[c] < cost[g])
        <4>1. CASE g = e
          BY <2>4, <2>5, <2>8, <4>1
        <4>2. CASE g # e
          <5>1. g \in from .. e - 1
            BY <4>2
          <5> QED
            BY <2>6, <5>1
        <4> QED
          BY <4>1, <4>2
      <3>2. FirstLeast(cost, from, e, c)
        BY <2>4, <3>1 DEF FirstLeast
      <3> QED
        BY <2>2, <3>2
    <2> QED
      BY <2>7, <2>8
  <1> HIDE DEF G
  <1>4. m \in G
    <2> HIDE DEF m
    <2>1. \A k \in 0 .. m : k \in G
      BY <1>1, <1>2, <1>3, Climb
    <2> QED
      BY <1>1, <2>1
  <1>5. from + m = last
    OBVIOUS
  <1> QED
    BY <1>4, <1>5 DEF G

\* The window that is chosen is one of those there are, none costs less, and
\* the ones before it cost more (nordpool/cheapest-price.go:20-51).
LEMMA CheapestIs ==
  ASSUME NEW list \in Seq(Int), NEW n \in Nat, NEW from \in Nat, NEW to \in Nat,
         from + n <= to, to <= Len(list)
  PROVE  /\ Cheapest(list, n, from, to) \in from .. to - n
         /\ \A g \in from .. to - n :
              /\ Total(list, Cheapest(list, n, from, to), n) <= Total(list, g, n)
              /\ g < Cheapest(list, n, from, to)
                    => Total(list, Cheapest(list, n, from, to), n) < Total(list, g, n)
  <1>1. PICK last \in Nat : last = to - n
    OBVIOUS
  <1>2. from <= last
    BY <1>1
  <1>3. PICK l \in Nat : l = Len(list)
    OBVIOUS
  <1>4. \A h \in from .. last : h \in Nat /\ h + n <= l
    BY <1>1, <1>3
  <1>5. \A h \in from .. last : Total(list, h, n) \in Int
    BY <1>3, <1>4, TotalIsInt
  <1>6. PICK cost : cost = [h \in from .. last |-> Total(list, h, n)]
    OBVIOUS
  <1>7. cost \in [from .. last -> Int]
    BY <1>5, <1>6
  <1>8. PICK c : FirstLeast(cost, from, last, c)
    BY <1>2, <1>7, FirstLeastExists
  <1> DEFINE First(h) == \A g \in from .. last :
                            /\ Total(list, h, n) <= Total(list, g, n)
                            /\ g < h => Total(list, h, n) < Total(list, g, n)
  <1>9. c \in from .. last /\ First(c)
    <2>1. c \in from .. last
      BY <1>8 DEF FirstLeast
    <2>2. cost[c] = Total(list, c, n)
      BY <1>6, <2>1
    <2>3. ASSUME NEW g \in from .. last
          PROVE  /\ Total(list, c, n) <= Total(list, g, n)
                 /\ g < c => Total(list, c, n) < Total(list, g, n)
      <3>1. cost[g] = Total(list, g, n)
        BY <1>6
      <3>2. cost[c] <= cost[g] /\ (g < c => cost[c] < cost[g])
        BY <1>8 DEF FirstLeast
      <3> QED
        BY <2>2, <3>1, <3>2
    <2> QED
      BY <2>1, <2>3
  <1>10. Cheapest(list, n, from, to) = CHOOSE h \in from .. last : First(h)
    BY <1>1 DEF Cheapest
  <1>11. Cheapest(list, n, from, to) \in from .. last /\ First(Cheapest(list, n, from, to))
    <2> HIDE DEF First
    <2> QED
      BY <1>9, <1>10
  <1> QED
    BY <1>1, <1>11

-----------------------------------------------------------------------------
(* The pump: types. *)

PumpTold ==
  [start : Clock \cup {Unknown}, stop : Clock \cup {Unknown}, dish : Clock \cup {Unknown}]

\* TypeOK in parts: the day, what was seen and told, the loop.
DayTypes ==
  /\ hour \in Clock /\ today \in PriceLists /\ tomorrow \in PriceLists
  /\ rotated \in BOOLEAN /\ signed \in BOOLEAN
PumpLoopTypes ==
  /\ at \in {"wait", "plan", "heat", "temp", "dish", "down"}
  /\ faults \in 0 .. MaxFaults /\ changes \in 0 .. MaxChanges

LEMMA PumpParts ==
  TypeOK <=> /\ DayTypes /\ PumpLoopTypes
             /\ house \in House /\ inputs \in Inputs /\ pump \in Pump
             /\ seen \in SeenValues /\ told \in PumpTold
  BY DEF TypeOK, DayTypes, PumpLoopTypes, PumpTold

LEMMA PumpPartsNext ==
  TypeOK' <=> /\ DayTypes' /\ PumpLoopTypes'
              /\ house' \in House /\ inputs' \in Inputs /\ pump' \in Pump
              /\ seen' \in SeenValues /\ told' \in PumpTold
  BY DEF TypeOK, DayTypes, PumpLoopTypes, PumpTold, House, Inputs, Pump, SeenValues, Clock,
         PriceLists

\* What an input or a time that is told may be set to.
Admitted(k) ==
  CASE k \in {"start", "stop", "dish"}    -> Clock
    [] k \in {"water", "boost", "heating"} -> BOOLEAN
    [] k = "temp"                          -> -10 .. 10
    [] k = "shift"                         -> Shifts

InputNames == {"start", "stop", "dish", "water", "boost", "heating", "temp", "shift"}

LEMMA InputsByName ==
  ASSUME NEW r
  PROVE  r \in Inputs <=> /\ r = [k \in InputNames |-> r[k]]
                          /\ \A k \in InputNames : r[k] \in Admitted(k)
  <1>1. ASSUME r \in Inputs
        PROVE  r = [k \in InputNames |-> r[k]] /\ \A k \in InputNames : r[k] \in Admitted(k)
    BY <1>1 DEF Inputs, InputNames, Admitted
  <1>2. ASSUME r = [k \in InputNames |-> r[k]], \A k \in InputNames : r[k] \in Admitted(k)
        PROVE  r \in Inputs
    <2>1. /\ r["start"] \in Clock /\ r["stop"] \in Clock /\ r["dish"] \in Clock
          /\ r["water"] \in BOOLEAN /\ r["boost"] \in BOOLEAN /\ r["heating"] \in BOOLEAN
          /\ r["temp"] \in -10 .. 10 /\ r["shift"] \in Shifts
      BY <1>2 DEF InputNames, Admitted
    <2> QED
      BY <1>2, <2>1 DEF Inputs, InputNames
  <1> QED
    BY <1>1, <1>2

LEMMA ToldByName ==
  ASSUME NEW r
  PROVE  r \in PumpTold <=> /\ r = [k \in {"start", "stop", "dish"} |-> r[k]]
                            /\ \A k \in {"start", "stop", "dish"} : r[k] \in Clock \cup {Unknown}
  BY DEF PumpTold

-----------------------------------------------------------------------------
(* The calls that are made. *)

\* What a record is after some of calls, all of them in S: as before, or as
\* one of the calls says.
SomeMade(r, new, S) ==
  /\ new = [k \in DOMAIN r |-> new[k]]
  /\ \A k \in DOMAIN r : new[k] = r[k] \/ \E c \in S : c[1] = k /\ new[k] = c[2]

LEMMA MadeIs ==
  ASSUME NEW S, NEW calls \in Seq(S), NEW r, NEW k \in DOMAIN r
  PROVE  \/ Made(r, calls)[k] = r[k]
         \/ \E c \in S : c[1] = k /\ Made(r, calls)[k] = c[2]
  <1> DEFINE mine == {n \in DOMAIN calls : calls[n][1] = k}
  <1>1. PICK m \in Nat : m = Len(calls) /\ DOMAIN calls = 1 .. m
    OBVIOUS
  <1>2. CASE mine = {}
    BY <1>2 DEF Made
  <1>3. CASE mine # {}
    <2>1. PICK list : list = [i \in 1 .. m |-> i]
      OBVIOUS
    <2>2. list \in Seq(Int) /\ DOMAIN list = 1 .. m
      BY <2>1
    <2>3. mine \in SUBSET {list[i] : i \in DOMAIN list}
      BY <1>1, <2>1, <2>2
    <2> HIDE DEF mine
    <2>4. \E q \in mine : \A n \in mine : n <= q
      BY <1>3, <2>2, <2>3, DearestExists
    <2>5. \E q \in mine : \A n \in mine : q >= n
      <3>1. mine \subseteq Int
        BY <1>1 DEF mine
      <3> QED
        BY <2>4, <3>1
    <2>6. Max(mine) \in mine
      BY <2>5 DEF Max
    <2>7. Made(r, calls)[k] = calls[Max(mine)][2]
      BY <1>3 DEF Made, mine
    <2>8. calls[Max(mine)] \in S /\ calls[Max(mine)][1] = k
      BY <2>6 DEF mine
    <2> QED
      BY <2>7, <2>8 DEF Made
  <1> QED
    BY <1>2, <1>3

LEMMA MadeSome ==
  ASSUME NEW S, NEW calls \in Seq(S), NEW r
  PROVE  SomeMade(r, Made(r, calls), S)
  <1>1. PICK new : new = Made(r, calls)
    OBVIOUS
  <1>2. new = [k \in DOMAIN r |-> new[k]]
    BY <1>1 DEF Made
  <1>3. ASSUME NEW k \in DOMAIN r
        PROVE  new[k] = r[k] \/ \E c \in S : c[1] = k /\ new[k] = c[2]
    BY <1>1, MadeIs
  <1>4. SomeMade(r, new, S)
    BY <1>2, <1>3 DEF SomeMade
  <1> QED
    BY <1>1, <1>4

LEMMA AnsweredIs ==
  ASSUME NEW S, NEW calls \in Seq(S), NEW n \in 0 .. Len(calls), Answered(calls, n)
  PROVE  SomeMade(inputs, inputs', S)
  <1>1. Len(calls) \in Nat
    OBVIOUS
  <1>2. PICK some \in Seq(S) : inputs' = Made(inputs, some)
    <2>1. CASE n = Len(calls)
      BY <2>1 DEF Answered
    <2>2. CASE n # Len(calls)
      <3>1. PICK m \in {n, n + 1} : inputs' = Made(inputs, SubSeq(calls, 1, m))
        BY <2>2 DEF Answered
      <3>2. m \in 0 .. Len(calls)
        BY <1>1, <2>2, <3>1
      <3>3. SubSeq(calls, 1, m) \in Seq(S)
        BY <1>1, <3>2
      <3> QED
        BY <3>1, <3>3
    <2> QED
      BY <2>1, <2>2
  <1> QED
    BY <1>2, MadeSome

\* An answered call leaves the faults as they are, the one without an answer
\* is a fault.
LEMMA AnsweredFaults ==
  ASSUME NEW calls, NEW n, Answered(calls, n), PumpLoopTypes
  PROVE  faults' \in 0 .. MaxFaults
  BY PumpAssumption DEF Answered, Fault, PumpLoopTypes

LEMMA CallIs ==
  ASSUME NEW S, NEW e \in S, NEW c, c = <<>> \/ c = <<e>>
  PROVE  c \in Seq(S)
  <1>1. CASE c = <<>>
    BY <1>1
  <1>2. CASE c = <<e>>
    <2>1. <<e>> \in Seq(S)
      OBVIOUS
    <2> QED
      BY <1>2, <2>1
  <1> QED
    BY <1>1, <1>2

\* Calls that ask for what is admitted leave the inputs so.
LEMMA CallsAdmitted ==
  ASSUME inputs \in Inputs, NEW S, SomeMade(inputs, inputs', S),
         \A c \in S : c[1] \in InputNames => c[2] \in Admitted(c[1])
  PROVE  inputs' \in Inputs
  <1>1. DOMAIN inputs = InputNames /\ \A k \in InputNames : inputs[k] \in Admitted(k)
    BY InputsByName
  <1>2. inputs' = [k \in InputNames |-> inputs'[k]]
    BY <1>1 DEF SomeMade
  <1>3. ASSUME NEW k \in InputNames PROVE inputs'[k] \in Admitted(k)
    BY <1>1 DEF SomeMade
  <1> QED
    BY <1>2, <1>3, InputsByName

LEMMA ToldAdmitted ==
  ASSUME told \in PumpTold, NEW S, SomeMade(told, told', S),
         \A c \in S : c[2] \in Clock
  PROVE  told' \in PumpTold
  <1>1. /\ DOMAIN told = {"start", "stop", "dish"}
        /\ \A k \in {"start", "stop", "dish"} : told[k] \in Clock \cup {Unknown}
    BY ToldByName
  <1>2. told' = [k \in {"start", "stop", "dish"} |-> told'[k]]
    BY <1>1 DEF SomeMade
  <1>3. ASSUME NEW k \in {"start", "stop", "dish"} PROVE told'[k] \in Clock \cup {Unknown}
    BY <1>1 DEF SomeMade
  <1> QED
    BY <1>2, <1>3, ToldByName

-----------------------------------------------------------------------------
(* The steps of the loop. *)

\* The windows the tank may be heated in.
TankWindows == From .. To - TankHours

\* Heating the tank from h on costs no more than at any other time allowed.
CheapestTank(h) ==
  LET list == seen.today \o seen.tomorrow
  IN /\ h \in TankWindows /\ To <= Len(list)
     /\ \A g \in TankWindows : Total(list, h, TankHours) <= Total(list, g, TankHours)

CheapestDish(h) ==
  /\ h \in 0 .. DishTo - DishHours /\ DishTo <= Len(seen.tomorrow)
  /\ \A g \in 0 .. DishTo - DishHours :
       Total(seen.tomorrow, h, DishHours) <= Total(seen.tomorrow, g, DishHours)

\* The hour of the clock for an hour counted from today's midnight.
OfTheDay(h) == IF h >= Hours THEN h - Hours ELSE h

LEMMA ListsAreSequences ==
  ASSUME NEW list \in PriceLists
  PROVE  list \in Seq(Int)
  <1>1. <<>> \in Seq(Int)
    OBVIOUS
  <1> QED
    BY <1>1, PumpAssumption DEF PriceLists

LEMMA TankStartIs ==
  ASSUME TypeOK, <<seen.today, seen.tomorrow>> \in DOMAIN TankStart
  PROVE  CheapestTank(TankStart[<<seen.today, seen.tomorrow>>])
  <1>1. PICK a : a = seen.today
    OBVIOUS
  <1>2. PICK b : b = seen.tomorrow
    OBVIOUS
  <1>3. a \in PriceLists /\ b \in PriceLists
    BY <1>1, <1>2 DEF TypeOK, SeenValues
  <1>4. a \in Seq(Int) /\ b \in Seq(Int)
    BY <1>3, ListsAreSequences
  <1>5. PICK list : list = a \o b
    OBVIOUS
  <1>6. To <= Len(a) + Len(b)
    BY <1>1, <1>2 DEF TankStart
  <1>7. list \in Seq(Int) /\ Len(list) = Len(a) + Len(b)
    BY <1>4, <1>5
  <1>8. PICK h : h = Cheapest(list, TankHours, From, To)
    OBVIOUS
  <1>9. TankStart[<<a, b>>] = h
    BY <1>1, <1>2, <1>5, <1>8 DEF TankStart
  <1>10. TankHours \in Nat /\ From \in Nat /\ To \in Nat /\ From + TankHours <= To
         /\ To <= Len(list)
    BY <1>4, <1>6, <1>7, PumpAssumption
  <1>11. /\ h \in TankWindows
         /\ \A g \in TankWindows : Total(list, h, TankHours) <= Total(list, g, TankHours)
    BY <1>7, <1>8, <1>10, CheapestIs DEF TankWindows
  <1> QED
    BY <1>1, <1>2, <1>5, <1>9, <1>10, <1>11 DEF CheapestTank

LEMMA DishStartIs ==
  ASSUME TypeOK, seen.tomorrow \in DOMAIN DishStart
  PROVE  CheapestDish(DishStart[seen.tomorrow])
  <1>1. PICK list : list = seen.tomorrow
    OBVIOUS
  <1>2. list \in Seq(Int) /\ DishLeast <= Len(list)
    BY <1>1, PumpAssumption DEF DishStart
  <1>3. PICK h : h = Cheapest(list, DishHours, 0, DishTo)
    OBVIOUS
  <1>4. DishStart[list] = h
    BY <1>1, <1>3 DEF DishStart
  <1>5. DishHours \in Nat /\ 0 \in Nat /\ DishTo \in Nat /\ 0 + DishHours <= DishTo
        /\ DishTo <= Len(list)
    <2>1. PICK l \in Nat : l = Len(list)
      BY <1>2
    <2>2. DishTo \in Int /\ DishLeast \in Int
      BY PumpAssumption
    <2> QED
      BY <1>2, <2>1, <2>2, PumpAssumption
  <1>6. /\ h \in 0 .. DishTo - DishHours
        /\ \A g \in 0 .. DishTo - DishHours :
             Total(list, h, DishHours) <= Total(list, g, DishHours)
    BY <1>2, <1>3, <1>5, CheapestIs
  <1> QED
    BY <1>1, <1>4, <1>5, <1>6 DEF CheapestDish

\* A start of the tank falls within today or tomorrow, the dishwasher's within
\* tomorrow.
LEMMA WindowsAreHours ==
  /\ \A h \in TankWindows : /\ OfTheDay(h) \in Clock
                            /\ (OfTheDay(h) + TankHours) % Hours \in Clock
  /\ 0 .. DishTo - DishHours \subseteq Clock
  <1>1. ASSUME NEW h \in TankWindows
        PROVE  OfTheDay(h) \in Clock /\ (OfTheDay(h) + TankHours) % Hours \in Clock
    <2>1. OfTheDay(h) \in Clock
      BY PumpAssumption DEF TankWindows, OfTheDay, Clock
    <2>2. PICK k \in Nat : k = OfTheDay(h) + TankHours
      BY <2>1, PumpAssumption DEF Clock
    <2>3. Hours \in Nat /\ Hours > 0
      BY PumpAssumption
    <2>4. k % Hours \in 0 .. Hours - 1
      BY <2>3
    <2> QED
      BY <2>1, <2>2, <2>4 DEF Clock
  <1>2. 0 .. DishTo - DishHours \subseteq Clock
    BY PumpAssumption DEF Clock
  <1> QED
    BY <1>1, <1>2

LEMMA PlanTankCalls ==
  ASSUME NEW start, PlanTank(start), NEW a, a = OfTheDay(start)
  PROVE  /\ SomeMade(inputs, inputs', {<<"start", a>>, <<"stop", (a + TankHours) % Hours>>})
         /\ SomeMade(told, told', {<<"start", a>>, <<"stop", a>>})
         /\ \E calls, n : Answered(calls, n)
  <1>1. PICK b : b = (a + TankHours) % Hours
    OBVIOUS
  <1>2. PICK first : first = Call(told.start # a, "start", a)
    OBVIOUS
  <1>3. PICK calls : calls = first \o Call(told.stop # a, "stop", b)
    OBVIOUS
  <1>4. PICK times : times = first \o Call(told.stop # a, "stop", a)
    OBVIOUS
  <1>5. PICK n \in 0 .. Len(calls) : Answered(calls, n) /\ told' = Made(told, SubSeq(times, 1, n))
    BY <1>1, <1>2, <1>3, <1>4, Zenon DEF PlanTank, OfTheDay
  <1> DEFINE S == {<<"start", a>>, <<"stop", b>>}
             T == {<<"start", a>>, <<"stop", a>>}
  <1>6. calls \in Seq(S) /\ times \in Seq(T) /\ Len(times) = Len(calls) /\ Len(calls) \in Nat
    <2>2. PICK d : d = Call(told.stop # a, "stop", b)
      OBVIOUS
    <2>3. PICK e : e = Call(told.stop # a, "stop", a)
      OBVIOUS
    <2>4. first = <<>> \/ first = <<<<"start", a>>>>
      BY <1>2 DEF Call
    <2>5. \/ d = <<>> /\ e = <<>>
          \/ d = <<<<"stop", b>>>> /\ e = <<<<"stop", a>>>>
      BY <2>2, <2>3 DEF Call
    <2>6. PICK sa : sa = <<"start", a>>
      OBVIOUS
    <2>7. PICK sb : sb = <<"stop", b>>
      OBVIOUS
    <2>8. PICK st : st = <<"stop", a>>
      OBVIOUS
    <2>9. sa \in S /\ sb \in S /\ sa \in T /\ st \in T
      BY <2>6, <2>7, <2>8
    <2> HIDE DEF S, T
    <2>10. first \in Seq(S) /\ d \in Seq(S)
      BY <2>4, <2>5, <2>6, <2>7, <2>9, CallIs
    <2>11. first \in Seq(T) /\ e \in Seq(T)
      BY <2>4, <2>5, <2>6, <2>8, <2>9, CallIs
    <2>12. Len(d) = Len(e)
      BY <2>5
    <2>13. calls = first \o d /\ times = first \o e
      BY <1>3, <1>4, <2>2, <2>3
    <2>14. calls \in Seq(S) /\ times \in Seq(T)
      BY <2>10, <2>11, <2>13
    <2>15. Len(calls) = Len(first) + Len(d) /\ Len(times) = Len(first) + Len(e)
      BY <2>10, <2>11, <2>13
    <2> QED
      BY <2>12, <2>14, <2>15
  <1> HIDE DEF S, T
  <1>7. SomeMade(inputs, inputs', S)
    BY <1>5, <1>6, AnsweredIs
  <1>8. PICK some \in Seq(T) : told' = Made(told, some)
    <2>1. SubSeq(times, 1, n) \in Seq(T)
      BY <1>5, <1>6
    <2> QED
      BY <1>5, <2>1
  <1>9. SomeMade(told, told', T)
    BY <1>8, MadeSome
  <1> QED
    BY <1>1, <1>5, <1>7, <1>9 DEF S, T

\* Plan tells the cheapest window, or nothing.
LEMMA PlanIs ==
  ASSUME TypeOK, Plan
  PROVE  \/ UNCHANGED <<inputs, told, faults>>
         \/ \E h : /\ CheapestTank(h)
                   /\ SomeMade(inputs, inputs',
                               {<<"start", OfTheDay(h)>>,
                                <<"stop", (OfTheDay(h) + TankHours) % Hours>>})
                   /\ SomeMade(told, told', {<<"start", OfTheDay(h)>>, <<"stop", OfTheDay(h)>>})
                   /\ \E calls, n : Answered(calls, n)
  <1> SUFFICES ASSUME ~UNCHANGED <<inputs, told, faults>>
               PROVE  \E h : /\ CheapestTank(h)
                             /\ SomeMade(inputs, inputs',
                                         {<<"start", OfTheDay(h)>>,
                                          <<"stop", (OfTheDay(h) + TankHours) % Hours>>})
                             /\ SomeMade(told, told',
                                         {<<"start", OfTheDay(h)>>, <<"stop", OfTheDay(h)>>})
                             /\ \E calls, n : Answered(calls, n)
    OBVIOUS
  <1>1. PICK h : h = TankStart[<<seen.today, seen.tomorrow>>]
    OBVIOUS
  <1>2. <<seen.today, seen.tomorrow>> \in DOMAIN TankStart /\ PlanTank(h)
    BY <1>1 DEF Plan
  <1>3. CheapestTank(h)
    BY <1>1, <1>2, TankStartIs
  <1>4. PICK a : a = OfTheDay(h)
    OBVIOUS
  <1> QED
    BY <1>2, <1>3, <1>4, PlanTankCalls

LEMMA DishIs ==
  ASSUME TypeOK, Dish
  PROVE  \/ UNCHANGED <<inputs, told, faults>>
         \/ \E h : /\ CheapestDish(h)
                   /\ SomeMade(inputs, inputs', {<<"dish", h>>})
                   /\ SomeMade(told, told', {<<"dish", h>>})
                   /\ \E calls, n : Answered(calls, n)
  <1> SUFFICES ASSUME ~UNCHANGED <<inputs, told, faults>>
               PROVE  \E h : /\ CheapestDish(h)
                             /\ SomeMade(inputs, inputs', {<<"dish", h>>})
                             /\ SomeMade(told, told', {<<"dish", h>>})
                             /\ \E calls, n : Answered(calls, n)
    OBVIOUS
  <1>1. PICK h : h = DishStart[seen.tomorrow]
    OBVIOUS
  <1>2. PICK calls : calls = Call(told.dish # h, "dish", h)
    OBVIOUS
  <1>3. PICK n \in 0 .. Len(calls) : Answered(calls, n) /\ told' = Made(told, SubSeq(calls, 1, n))
    BY <1>1, <1>2 DEF Dish
  <1>4. seen.tomorrow \in DOMAIN DishStart
    BY DEF Dish
  <1>5. CheapestDish(h)
    BY <1>1, <1>4, DishStartIs
  <1> DEFINE S == {<<"dish", h>>}
  <1>6. calls \in Seq(S)
    <2>1. PICK e : e = <<"dish", h>>
      OBVIOUS
    <2>2. calls = <<>> \/ calls = <<e>>
      BY <1>2, <2>1 DEF Call
    <2>3. e \in S
      BY <2>1
    <2> HIDE DEF S
    <2> QED
      BY <2>2, <2>3, CallIs
  <1> HIDE DEF S
  <1>7. SomeMade(inputs, inputs', S)
    BY <1>3, <1>6, AnsweredIs
  <1>8. PICK some \in Seq(S) : told' = Made(told, some)
    <2>1. SubSeq(calls, 1, n) \in Seq(S)
      BY <1>3, <1>6
    <2> QED
      BY <1>3, <2>1
  <1>9. SomeMade(told, told', S)
    BY <1>8, MadeSome
  <1> QED
    BY <1>3, <1>5, <1>7, <1>9 DEF S


LEMMA TempStep ==
  ASSUME TypeOK, SetTemp
  PROVE  \E t \in -10 .. 10 : /\ SomeMade(inputs, inputs', {<<"temp", t>>})
                             /\ \E calls, n : Answered(calls, n)
  <1> DEFINE calls == IF BoilerFirst THEN <<>> ELSE TempCalls
  <1>1. PICK t : t = Wanted(Price, seen.room, seen.shift, seen.heat)
    OBVIOUS
  <1>2. t \in -10 .. 10
    <2>1. seen.shift \in Int
      BY PumpAssumption DEF TypeOK, SeenValues
    <2>2. \A price, room, warmUp : Offset(price, room, warmUp) \in {0, 2, 4, 6, 8, 10}
      BY DEF Offset
    <2>3. \A x \in Int : Limited(x) \in -10 .. 10
      BY DEF Limited
    <2>4. \A price, room, warmUp : Offset(price, room, warmUp) + seen.shift \in Int
      BY <2>1, <2>2
    <2>5. 0 \in -10 .. 10
      OBVIOUS
    <2> QED
      BY <1>1, <2>3, <2>4, <2>5 DEF Wanted
  <1>3. TempCalls = Call(Unsigned(seen.temp) # Unsigned(t), "temp", t)
    BY <1>1 DEF TempCalls
  <1>4. TempCalls \in Seq({<<"temp", t>>})
    <2>1. TempCalls = <<>> \/ TempCalls = <<<<"temp", t>>>>
      BY <1>3 DEF Call
    <2> QED
      BY <2>1, CallIs
  <1>5. PICK c : c = calls
    OBVIOUS
  <1>6. c \in Seq({<<"temp", t>>})
    BY <1>4, <1>5
  <1>7. \E n \in 0 .. Len(c) : Answered(c, n)
    BY <1>5 DEF SetTemp
  <1> QED
    BY <1>2, <1>6, <1>7, AnsweredIs

\* The boiler's calls, or else the heating's: the heating is on unless the hour
\* is dear and the limit not ignored.
LEMMA HeatCalls ==
  ASSUME Heat
  PROVE  /\ \E calls, n : Answered(calls, n)
         /\ \/ BoilerFirst /\ SomeMade(inputs, inputs', {<<"temp", -10>>, <<"shift", 0>>})
            \/ /\ PricesServe
               /\ SomeMade(inputs, inputs',
                           ({"water", "boost"} \X BOOLEAN)
                             \cup {<<"heating", ~Dear \/ seen.ignoreMax>>})
  <1>1. CASE BoilerFirst
    <2> DEFINE S == {<<"temp", -10>>, <<"shift", 0>>}
    <2>1. PICK calls : calls = BoilerCalls
      OBVIOUS
    <2>2. \E n \in 0 .. Len(calls) : Answered(calls, n)
      BY <1>1, <2>1 DEF Heat
    <2>3. calls \in Seq(S)
      <3>1. PICK a : a = <<"temp", -10>>
        OBVIOUS
      <3>2. PICK b : b = <<"shift", 0>>
        OBVIOUS
      <3>3. a \in S /\ b \in S
        BY <3>1, <3>2
      <3>4. calls = <<>> \/ calls = <<a, b>>
        BY <2>1, <3>1, <3>2 DEF BoilerCalls
      <3> HIDE DEF S
      <3>5. <<>> \in Seq(S) /\ <<a, b>> \in Seq(S)
        BY <3>3
      <3> QED
        BY <3>4, <3>5
    <2> HIDE DEF S
    <2>4. SomeMade(inputs, inputs', S)
      BY <2>2, <2>3, AnsweredIs
    <2> QED
      BY <1>1, <2>2, <2>4 DEF S
  <1>2. CASE ~BoilerFirst
    <2>1. PICK on : on = (~Dear \/ seen.ignoreMax)
      OBVIOUS
    <2> DEFINE S == ({"water", "boost"} \X BOOLEAN) \cup {<<"heating", on>>}
    <2>2. PICK calls : calls = HeatingCalls
      OBVIOUS
    <2>3. \E n \in 0 .. Len(calls) : Answered(calls, n)
      BY <1>2, <2>2 DEF Heat
    <2>4. PICK w : w = WaterCalls
      OBVIOUS
    <2>5. PICK b : b = BoostCalls
      OBVIOUS
    <2>6. PICK k : k = Call(seen.keepWater, "water", TRUE)
      OBVIOUS
    <2>7. PICK h : h = Call(TRUE, "heating", on)
      OBVIOUS
    <2>8. calls = w \o b \o k \o h
      BY <2>1, <2>2, <2>4, <2>5, <2>6, <2>7 DEF HeatingCalls
    <2>9. calls \in Seq(S)
      <3>1. <<"water", TRUE>> \in S /\ <<"water", FALSE>> \in S
            /\ <<"boost", TRUE>> \in S /\ <<"boost", FALSE>> \in S /\ <<"heating", on>> \in S
        OBVIOUS
      <3>2. w = <<>> \/ w = <<<<"water", TRUE>>>> \/ w = <<<<"water", FALSE>>>>
        BY <2>4 DEF WaterCalls, Call
      <3>3. b = <<>> \/ b = <<<<"boost", TRUE>>>> \/ b = <<<<"boost", FALSE>>>>
        BY <2>5 DEF BoostCalls, Call
      <3>4. k = <<>> \/ k = <<<<"water", TRUE>>>>
        BY <2>6 DEF Call
      <3>5. h = <<>> \/ h = <<<<"heating", on>>>>
        BY <2>7 DEF Call
      <3> HIDE DEF S
      <3>6. w \in Seq(S) /\ b \in Seq(S)
        BY <3>1, <3>2, <3>3, CallIs
      <3>7. k \in Seq(S) /\ h \in Seq(S)
        BY <3>1, <3>4, <3>5, CallIs
      <3> QED
        BY <2>8, <3>6, <3>7
    <2> HIDE DEF S
    <2>10. SomeMade(inputs, inputs', S)
      BY <2>3, <2>9, AnsweredIs
    <2> QED
      BY <1>2, <2>1, <2>3, <2>10 DEF S, Heat
  <1> QED
    BY <1>1, <1>2

-----------------------------------------------------------------------------
(* The pump: types are kept. *)

\* A function of the loop changes no more than the inputs, what was told and
\* the faults.
LEMMA FunctionStep ==
  ASSUME TypeOK, UNCHANGED <<hour, prices, signed, house, pump, seen, changes>>,
         at' \in {"wait", "plan", "heat", "temp", "dish", "down"},
         inputs' \in Inputs, told' \in PumpTold, faults' \in 0 .. MaxFaults
  PROVE  TypeOK'
  BY PumpParts, PumpPartsNext DEF DayTypes, PumpLoopTypes, prices

LEMMA PlanStep ==
  ASSUME TypeOK, Plan
  PROVE  TypeOK'
  <1>1. UNCHANGED <<hour, prices, signed, house, pump, seen, changes>> /\ at' = "heat"
    BY DEF Plan
  <1>2. inputs \in Inputs /\ told \in PumpTold /\ PumpLoopTypes
    BY PumpParts
  <1>3. CASE UNCHANGED <<inputs, told, faults>>
    BY <1>1, <1>2, <1>3, FunctionStep DEF PumpLoopTypes
  <1>4. CASE ~UNCHANGED <<inputs, told, faults>>
    <2>1. PICK h : /\ CheapestTank(h)
                   /\ SomeMade(inputs, inputs',
                               {<<"start", OfTheDay(h)>>,
                                <<"stop", (OfTheDay(h) + TankHours) % Hours>>})
                   /\ SomeMade(told, told', {<<"start", OfTheDay(h)>>, <<"stop", OfTheDay(h)>>})
                   /\ \E calls, n : Answered(calls, n)
      BY <1>4, PlanIs
    <2>2. PICK a : a = OfTheDay(h)
      OBVIOUS
    <2>3. PICK b : b = (OfTheDay(h) + TankHours) % Hours
      OBVIOUS
    <2>4. a \in Clock /\ b \in Clock
      BY <2>1, <2>2, <2>3, WindowsAreHours DEF CheapestTank
    <2>5. \A c \in {<<"start", a>>, <<"stop", b>>} :
            c[1] \in InputNames => c[2] \in Admitted(c[1])
      BY <2>4 DEF Admitted
    <2>6. \A c \in {<<"start", a>>, <<"stop", a>>} : c[2] \in Clock
      BY <2>4
    <2>7. inputs' \in Inputs
      BY <1>2, <2>1, <2>2, <2>3, <2>5, CallsAdmitted
    <2>8. told' \in PumpTold
      BY <1>2, <2>1, <2>2, <2>6, ToldAdmitted
    <2>9. faults' \in 0 .. MaxFaults
      BY <1>2, <2>1, AnsweredFaults
    <2> QED
      BY <1>1, <2>7, <2>8, <2>9, FunctionStep
  <1> QED
    BY <1>3, <1>4

LEMMA DishStep ==
  ASSUME TypeOK, Dish
  PROVE  TypeOK'
  <1>1. UNCHANGED <<hour, prices, signed, house, pump, seen, changes>> /\ at' = "wait"
    BY DEF Dish
  <1>2. inputs \in Inputs /\ told \in PumpTold /\ PumpLoopTypes
    BY PumpParts
  <1>3. CASE UNCHANGED <<inputs, told, faults>>
    BY <1>1, <1>2, <1>3, FunctionStep DEF PumpLoopTypes
  <1>4. CASE ~UNCHANGED <<inputs, told, faults>>
    <2>1. PICK h : /\ CheapestDish(h)
                   /\ SomeMade(inputs, inputs', {<<"dish", h>>})
                   /\ SomeMade(told, told', {<<"dish", h>>})
                   /\ \E calls, n : Answered(calls, n)
      BY <1>4, DishIs
    <2>2. h \in Clock
      BY <2>1, WindowsAreHours DEF CheapestDish
    <2>3. \A c \in {<<"dish", h>>} : c[1] \in InputNames => c[2] \in Admitted(c[1])
      BY <2>2 DEF Admitted
    <2>4. \A c \in {<<"dish", h>>} : c[2] \in Clock
      BY <2>2
    <2>5. inputs' \in Inputs
      BY <1>2, <2>1, <2>3, CallsAdmitted
    <2>6. told' \in PumpTold
      BY <1>2, <2>1, <2>4, ToldAdmitted
    <2>7. faults' \in 0 .. MaxFaults
      BY <1>2, <2>1, AnsweredFaults
    <2> QED
      BY <1>1, <2>5, <2>6, <2>7, FunctionStep
  <1> QED
    BY <1>3, <1>4

LEMMA SetTempStep ==
  ASSUME TypeOK, SetTemp
  PROVE  TypeOK'
  <1>1. UNCHANGED <<hour, prices, signed, house, pump, seen, told, changes>> /\ at' = "dish"
    BY DEF SetTemp
  <1>2. inputs \in Inputs /\ told \in PumpTold /\ PumpLoopTypes
    BY PumpParts
  <1>3. PICK t \in -10 .. 10 : /\ SomeMade(inputs, inputs', {<<"temp", t>>})
                               /\ \E calls, n : Answered(calls, n)
    BY TempStep
  <1>4. \A c \in {<<"temp", t>>} : c[1] \in InputNames => c[2] \in Admitted(c[1])
    BY DEF Admitted
  <1>5. inputs' \in Inputs
    BY <1>2, <1>3, <1>4, CallsAdmitted
  <1>6. faults' \in 0 .. MaxFaults
    BY <1>2, <1>3, AnsweredFaults
  <1> QED
    BY <1>1, <1>2, <1>5, <1>6, FunctionStep

LEMMA HeatStep ==
  ASSUME TypeOK, Heat
  PROVE  TypeOK'
  <1>1. UNCHANGED <<hour, prices, signed, house, pump, seen, told, changes>> /\ at' = "temp"
    BY DEF Heat
  <1>2. inputs \in Inputs /\ told \in PumpTold /\ PumpLoopTypes
    BY PumpParts
  <1>3. PICK on \in BOOLEAN : on = (~Dear \/ seen.ignoreMax)
    OBVIOUS
  <1>4. /\ \E calls, n : Answered(calls, n)
        /\ \E S \in {{<<"temp", -10>>, <<"shift", 0>>},
                     ({"water", "boost"} \X BOOLEAN) \cup {<<"heating", on>>}} :
             SomeMade(inputs, inputs', S)
    BY <1>3, HeatCalls
  <1>5. PICK S \in {{<<"temp", -10>>, <<"shift", 0>>},
                    ({"water", "boost"} \X BOOLEAN) \cup {<<"heating", on>>}} :
          SomeMade(inputs, inputs', S)
    BY <1>4
  <1>6. \A c \in S : c[1] \in InputNames => c[2] \in Admitted(c[1])
    <2>1. CASE S = {<<"temp", -10>>, <<"shift", 0>>}
      BY <2>1, PumpAssumption DEF Admitted
    <2>2. CASE S = ({"water", "boost"} \X BOOLEAN) \cup {<<"heating", on>>}
      BY <2>2 DEF Admitted
    <2> QED
      BY <1>5, <2>1, <2>2
  <1>7. inputs' \in Inputs
    BY <1>2, <1>5, <1>6, CallsAdmitted
  <1>8. faults' \in 0 .. MaxFaults
    BY <1>2, <1>4, AnsweredFaults
  <1> QED
    BY <1>1, <1>2, <1>7, <1>8, FunctionStep

\* What is parsed is what HA had, entity by entity, or what was seen before.
LEMMA ValuesByField ==
  ASSUME NEW v \in SeenValues, NEW w \in SeenValues, NEW missing
  PROVE  [k \in DOMAIN w |-> IF k \in missing THEN v[k] ELSE w[k]] \in SeenValues
  BY DEF SeenValues

LEMMA NothingIsSeen == Nothing \in SeenValues /\ NothingTold \in PumpTold
  BY PumpAssumption DEF Nothing, NothingTold, SeenValues, PumpTold, PriceLists

LEMMA ShownIsSeen ==
  ASSUME TypeOK
  PROVE  Shown \in SeenValues
  <1>1. /\ house.damped \in BOOLEAN /\ house.boilerWinter \in BOOLEAN
        /\ house.keepWater \in BOOLEAN /\ house.keepBoost \in BOOLEAN
        /\ house.ignoreMax \in BOOLEAN /\ house.room \in Rooms
    BY DEF TypeOK, House
  <1>2. inputs.shift \in Shifts /\ inputs.start \in Clock /\ inputs.stop \in Clock
    BY DEF TypeOK, Inputs
  <1>3. /\ pump.water \in {"off", "heat_pump", "performance"} /\ pump.heat \in {"off", "heat"}
        /\ pump.temp \in -10 .. 10
    BY DEF TypeOK, Pump
  <1>4. today \in PriceLists /\ tomorrow \in PriceLists
    BY DEF TypeOK
  <1> QED
    BY <1>1, <1>2, <1>3, <1>4 DEF Shown, SeenValues

LEMMA FetchStep ==
  ASSUME TypeOK, Fetch
  PROVE  TypeOK'
  <1>1. /\ UNCHANGED <<hour, prices, signed, house, inputs, pump, told, changes>>
        /\ at' \in {"wait", "plan"}
    BY DEF Fetch
  <1>2. seen' \in SeenValues
    <2>1. PICK w : w = Shown
      OBVIOUS
    <2>2. w \in SeenValues /\ seen \in SeenValues
      BY <2>1, ShownIsSeen DEF TypeOK
    <2>3. \/ seen' = w
          \/ \E missing : seen' = [k \in DOMAIN w |-> IF k \in missing THEN seen[k] ELSE w[k]]
      BY <2>1 DEF Fetch
    <2> QED
      BY <2>2, <2>3, ValuesByField
  <1>3. faults' \in 0 .. MaxFaults
    BY PumpAssumption DEF Fetch, Fault, TypeOK
  <1> QED
    BY <1>1, <1>2, <1>3, PumpParts, PumpPartsNext DEF DayTypes, PumpLoopTypes, prices

\* A process that dies forgets what it saw and what it told.
LEMMA DownStep ==
  ASSUME TypeOK, Panic \/ Crash
  PROVE  TypeOK'
  <1>1. /\ UNCHANGED <<hour, prices, signed, house, inputs, pump, changes>>
        /\ seen' = Nothing /\ told' = NothingTold /\ at' = "down"
    BY DEF Panic, Crash
  <1>2. faults' \in 0 .. MaxFaults
    BY PumpAssumption DEF Panic, Crash, Fault, TypeOK
  <1> QED
    BY <1>1, <1>2, NothingIsSeen, PumpParts, PumpPartsNext DEF DayTypes, PumpLoopTypes, prices

\* The clock, the market, the house and the pump.
LEMMA WorldStep ==
  ASSUME TypeOK, World
  PROVE  TypeOK'
  <1>1. DayTypes /\ PumpLoopTypes /\ house \in House /\ inputs \in Inputs /\ pump \in Pump
        /\ seen \in SeenValues /\ told \in PumpTold
    BY PumpParts
  <1>2. at' = at /\ faults' = faults /\ seen' = seen
    BY DEF World, HourPasses, PricesRotate, PricesPublished, HouseChanges, UserShifts, PumpFollows
  <1>3. changes' \in 0 .. MaxChanges
    <2>1. Changes \/ changes' = changes
      BY Zenon DEF World, HourPasses, PricesRotate, PricesPublished, HouseChanges, UserShifts,
         PumpFollows
    <2>2. changes \in 0 .. MaxChanges
      BY <1>1 DEF PumpLoopTypes
    <2> QED
      BY <2>1, <2>2, PumpAssumption DEF Changes
  <1>4. PumpLoopTypes'
    BY <1>1, <1>2, <1>3 DEF PumpLoopTypes
  <1>5. CASE HourPasses
    <2>1. hour' \in Clock
      BY PumpAssumption, <1>1, <1>5 DEF HourPasses, DayTypes, Clock
    <2>2. told' \in PumpTold /\ rotated' \in BOOLEAN
      BY <1>1, <1>5, NothingIsSeen DEF HourPasses, DayTypes
    <2> QED
      BY <1>1, <1>2, <1>4, <1>5, <2>1, <2>2, PumpPartsNext DEF HourPasses, DayTypes
  <1>6. CASE PricesRotate
    BY <1>1, <1>2, <1>4, <1>6, PumpPartsNext DEF PricesRotate, DayTypes, PriceLists
  <1>7. CASE PricesPublished
    BY <1>1, <1>2, <1>4, <1>7, PumpPartsNext DEF PricesPublished, DayTypes, PriceLists
  <1>8. CASE HouseChanges
    <2>1. house' \in House
      <3>1. CASE \E t \in Rooms \ {house.room} : house' = [house EXCEPT !.room = t]
        BY <1>1, <3>1 DEF House
      <3>2. ASSUME NEW s \in {"damped", "boilerWinter", "keepWater", "keepBoost", "ignoreMax"},
                   house' = [house EXCEPT ![s] = ~@]
            PROVE  house' \in House
        <4>1. house' = [house EXCEPT ![s] = ~house[s]]
          BY <3>2
        <4>2. PICK x \in BOOLEAN : house' = [house EXCEPT ![s] = x]
          BY <4>1
        <4> QED
          BY <1>1, <4>2 DEF House
      <3> QED
        BY <1>8, <3>1, <3>2 DEF HouseChanges
    <2> QED
      BY <1>1, <1>2, <1>4, <1>8, <2>1, PumpPartsNext DEF HouseChanges, DayTypes, prices
  <1>9. CASE UserShifts
    <2>1. PICK t \in Shifts : inputs' = [inputs EXCEPT !.shift = t]
      BY <1>9 DEF UserShifts
    <2>2. inputs' \in Inputs
      BY <1>1, <2>1 DEF Inputs
    <2> QED
      BY <1>1, <1>2, <1>4, <1>9, <2>2, PumpPartsNext DEF UserShifts, DayTypes, prices
  <1>10. CASE PumpFollows
    <2>1. Followed \in Pump
      BY <1>1 DEF Followed, Pump, Inputs
    <2> QED
      BY <1>1, <1>2, <1>4, <1>10, <2>1, PumpPartsNext DEF PumpFollows, DayTypes, prices
  <1> QED
    BY <1>5, <1>6, <1>7, <1>8, <1>9, <1>10 DEF World

LEMMA PumpInit ==
  ASSUME Init
  PROVE  TypeOK
  <1>1. DayTypes
    BY PumpAssumption DEF Init, DayTypes, Clock, PriceLists
  <1>2. PumpLoopTypes
    BY PumpAssumption DEF Init, PumpLoopTypes
  <1>3. house \in House
    BY DEF Init, House
  <1>4. inputs \in Inputs
    <2>1. 0 \in Clock /\ 0 \in Shifts
      BY PumpAssumption DEF Clock
    <2> QED
      BY <2>1 DEF Init, Inputs
  <1>5. pump \in Pump
    BY <1>4 DEF Init, Followed, Pump, Inputs
  <1>6. seen \in SeenValues /\ told \in PumpTold
    BY NothingIsSeen DEF Init
  <1> QED
    BY <1>1, <1>2, <1>3, <1>4, <1>5, <1>6, PumpParts

LEMMA PumpNext ==
  ASSUME TypeOK, [Next]_vars
  PROVE  TypeOK'
  <1>1. CASE Loop
    BY <1>1, FetchStep, PlanStep, HeatStep, SetTempStep, DishStep, DownStep DEF Loop
  <1>2. CASE Crash
    BY <1>2, DownStep
  <1>3. CASE Restart
    BY <1>3, PumpParts, PumpPartsNext DEF Restart, DayTypes, PumpLoopTypes, prices
  <1>4. CASE World
    BY <1>4, WorldStep
  <1>5. CASE UNCHANGED vars
    BY <1>5, PumpParts, PumpPartsNext DEF vars, DayTypes, PumpLoopTypes
  <1> QED
    BY <1>1, <1>2, <1>3, <1>4, <1>5 DEF Next

-----------------------------------------------------------------------------
(* The pump: the theorems. *)

\* Types: a time or an hour that is told is an hour of the clock, the offset is
\* one that the code validates for any shift of the user and any prices
\* (brain/heatpump.go:544-549), a value that was parsed is one of its entity or
\* that of a new process.
THEOREM PumpTypes == Spec => []TypeOK
  <1>1. Init => TypeOK
    BY PumpInit
  <1>2. TypeOK /\ [Next]_vars => TypeOK'
    BY PumpNext
  <1> QED
    BY <1>1, <1>2, PTL DEF Spec

\* Who writes an input: what it is after a step says which function ran.
LEMMA WhoWrites ==
  ASSUME TypeOK, [Next]_vars, NEW k \in InputNames, inputs'[k] # inputs[k]
  PROVE  Plan \/ Heat \/ SetTemp \/ Dish \/ UserShifts
  <1>1. ~Fetch /\ ~Panic /\ ~Crash /\ ~Restart /\ ~UNCHANGED vars
    BY DEF Fetch, Panic, Crash, Restart, vars
  <1>2. World => UserShifts
    BY DEF World, HourPasses, PricesRotate, PricesPublished, HouseChanges, PumpFollows
  <1> QED
    BY <1>1, <1>2 DEF Next, Loop

LEMMA InputsDomain ==
  ASSUME TypeOK
  PROVE  DOMAIN inputs = InputNames
  BY InputsByName DEF TypeOK

\* The user's own shift leaves the other inputs.
LEMMA ShiftOnly ==
  ASSUME TypeOK, UserShifts, NEW k \in InputNames \ {"shift"}
  PROVE  inputs'[k] = inputs[k]
  <1>1. PICK t : inputs' = [inputs EXCEPT !.shift = t]
    BY DEF UserShifts
  <1> QED
    BY <1>1, InputsDomain

\* A new time for the tank is Plan's, for the cheapest window.
LEMMA TankTold ==
  ASSUME TypeOK, [Next]_vars, NEW k \in {"start", "stop"}, inputs'[k] # inputs[k]
  PROVE  \E h : /\ CheapestTank(h)
                /\ k = "start" => inputs'[k] = OfTheDay(h)
                /\ k = "stop" => inputs'[k] = (OfTheDay(h) + TankHours) % Hours
  <1>1. k \in DOMAIN inputs /\ k \in InputNames
    BY InputsDomain DEF InputNames
  <1>2. Plan
    <2>1. ~Dish
      <3>1. ASSUME NEW h, SomeMade(inputs, inputs', {<<"dish", h>>}) PROVE FALSE
        BY <1>1, <3>1 DEF SomeMade
      <3> QED
        BY <3>1, DishIs
    <2>2. ~SetTemp
      <3>1. ASSUME NEW t, SomeMade(inputs, inputs', {<<"temp", t>>}) PROVE FALSE
        BY <1>1, <3>1 DEF SomeMade
      <3> QED
        BY <3>1, TempStep
    <2>3. ~Heat
      <3>1. ASSUME NEW on,
                   SomeMade(inputs, inputs',
                            ({"water", "boost"} \X BOOLEAN) \cup {<<"heating", on>>})
            PROVE  FALSE
        BY <1>1, <3>1 DEF SomeMade
      <3>2. ASSUME SomeMade(inputs, inputs', {<<"temp", -10>>, <<"shift", 0>>}) PROVE FALSE
        BY <1>1, <3>2 DEF SomeMade
      <3> QED
        BY <3>1, <3>2, HeatCalls
    <2>4. ~UserShifts
      BY <1>1, ShiftOnly
    <2> QED
      BY <1>1, <2>1, <2>2, <2>3, <2>4, WhoWrites
  <1>3. PICK h : /\ CheapestTank(h)
                 /\ SomeMade(inputs, inputs',
                             {<<"start", OfTheDay(h)>>,
                              <<"stop", (OfTheDay(h) + TankHours) % Hours>>})
    <2>1. ~UNCHANGED inputs
      OBVIOUS
    <2> QED
      BY <1>2, <2>1, PlanIs
  <1>4. PICK a : a = OfTheDay(h)
    OBVIOUS
  <1>5. PICK b : b = (OfTheDay(h) + TankHours) % Hours
    OBVIOUS
  <1>6. PICK c \in {<<"start", a>>, <<"stop", b>>} : c[1] = k /\ inputs'[k] = c[2]
    BY <1>1, <1>3, <1>4, <1>5 DEF SomeMade
  <1>7. (k = "start" => inputs'[k] = a) /\ (k = "stop" => inputs'[k] = b)
    BY <1>6
  <1> QED
    BY <1>3, <1>4, <1>5, <1>7

LEMMA DishTold ==
  ASSUME TypeOK, [Next]_vars, inputs'["dish"] # inputs["dish"]
  PROVE  CheapestDish(inputs'["dish"])
  <1>1. "dish" \in DOMAIN inputs /\ "dish" \in InputNames
    BY InputsDomain DEF InputNames
  <1>2. Dish
    <2>1. ~Plan
      <3>1. ASSUME NEW a, NEW b, SomeMade(inputs, inputs', {<<"start", a>>, <<"stop", b>>})
            PROVE  FALSE
        BY <1>1, <3>1 DEF SomeMade
      <3> QED
        BY <3>1, PlanIs
    <2>2. ~SetTemp
      <3>1. ASSUME NEW t, SomeMade(inputs, inputs', {<<"temp", t>>}) PROVE FALSE
        BY <1>1, <3>1 DEF SomeMade
      <3> QED
        BY <3>1, TempStep
    <2>3. ~Heat
      <3>1. ASSUME NEW on,
                   SomeMade(inputs, inputs',
                            ({"water", "boost"} \X BOOLEAN) \cup {<<"heating", on>>})
            PROVE  FALSE
        BY <1>1, <3>1 DEF SomeMade
      <3>2. ASSUME SomeMade(inputs, inputs', {<<"temp", -10>>, <<"shift", 0>>}) PROVE FALSE
        BY <1>1, <3>2 DEF SomeMade
      <3> QED
        BY <3>1, <3>2, HeatCalls
    <2>4. ~UserShifts
      BY <1>1, ShiftOnly
    <2> QED
      BY <1>1, <2>1, <2>2, <2>3, <2>4, WhoWrites
  <1>3. PICK h : CheapestDish(h) /\ SomeMade(inputs, inputs', {<<"dish", h>>})
    BY <1>2, DishIs
  <1>4. inputs'["dish"] = h
    BY <1>1, <1>3 DEF SomeMade
  <1> QED
    BY <1>3, <1>4

\* Whatever the lists, a start or a stop of the tank that is told to HA is that
\* of a window which, by the lists seen, costs no more than any other the tank
\* may be heated in, although a call can fail or be taken without an answer
\* (brain/heatpump.go:205-295).
TankCallsCheapest ==
  /\ inputs'.start # inputs.start => \E h : CheapestTank(h) /\ inputs'.start = OfTheDay(h)
  /\ inputs'.stop # inputs.stop =>
       \E h : CheapestTank(h) /\ inputs'.stop = (OfTheDay(h) + TankHours) % Hours
TankToldAtCheapest == [][TankCallsCheapest]_vars

THEOREM TankAtCheapest == Spec => TankToldAtCheapest
  <1>1. ASSUME TypeOK, [Next]_vars
        PROVE  [TankCallsCheapest]_vars
    <2>1. ASSUME inputs'["start"] # inputs["start"]
          PROVE  \E h : CheapestTank(h) /\ inputs'["start"] = OfTheDay(h)
      BY <1>1, <2>1, TankTold
    <2>2. ASSUME inputs'["stop"] # inputs["stop"]
          PROVE  \E h : /\ CheapestTank(h)
                        /\ inputs'["stop"] = (OfTheDay(h) + TankHours) % Hours
      BY <1>1, <2>2, TankTold
    <2> QED
      BY <2>1, <2>2 DEF TankCallsCheapest
  <1> QED
    BY <1>1, PumpTypes, PTL DEF Spec, TankToldAtCheapest

\* The same of the dishwasher's start and the hours before tomorrow's morning
\* (brain/dishwasher.go:20-40).
DishToldAtCheapest ==
  [][ inputs'.dish # inputs.dish => CheapestDish(inputs'.dish) ]_vars

THEOREM DishAtCheapest == Spec => DishToldAtCheapest
  <1>1. ASSUME TypeOK, [Next]_vars
        PROVE  [ inputs'.dish # inputs.dish => CheapestDish(inputs'.dish) ]_vars
    <2>1. ASSUME inputs'["dish"] # inputs["dish"] PROVE CheapestDish(inputs'["dish"])
      BY <1>1, <2>1, DishTold
    <2> QED
      BY <2>1
  <1> QED
    BY <1>1, PumpTypes, PTL DEF Spec, DishToldAtCheapest

\* An hour above the price from which heating is cut is one of three at most.
LEMMA DearIsAmongThree ==
  ASSUME TypeOK, PricesServe, Price > CutAbove[seen.today]
  PROVE  Cardinality({i \in DOMAIN seen.today : seen.today[i] >= Price}) <= 3
  <1>1. PICK list : list = seen.today
    OBVIOUS
  <1>2. 4 <= Len(list) /\ list \in Lists /\ list \in Seq(Int)
    <2>1. 4 <= Len(list) /\ list \in PriceLists
      BY <1>1 DEF PricesServe, TypeOK, SeenValues
    <2>2. list # <<>>
      BY <2>1
    <2> QED
      BY PumpAssumption, <2>1, <2>2 DEF PriceLists
  <1>3. PICK p : p = FourthDearest(list)
    OBVIOUS
  <1>4. CutAbove[list] = p
    BY <1>2, <1>3 DEF CutAbove
  <1>5. p \in Int /\ Cardinality(DearerThan(list, p)) <= 3
    BY <1>2, <1>3, FourthDearestExists
  <1>6. PICK price \in Int : price = Price
    <2>1. hour + 1 \in 1 .. Len(list)
      BY PumpAssumption, <1>1, <1>2 DEF PricesServe, TypeOK, Clock
    <2>2. list[hour + 1] \in Int
      BY <1>2, <2>1
    <2> QED
      BY <1>1, <2>2 DEF Price, PriceAt
  <1>7. PICK S : S = {i \in DOMAIN list : list[i] >= price}
    OBVIOUS
  <1>8. S \in SUBSET DearerThan(list, p)
    <2>1. price > p
      BY <1>1, <1>4, <1>6
    <2>2. \A i \in DOMAIN list : list[i] \in Int
      BY <1>2
    <2> QED
      BY <1>5, <1>7, <2>1, <2>2 DEF DearerThan
  <1>9. Cardinality(S) \in Nat /\ Cardinality(S) <= Cardinality(DearerThan(list, p))
        /\ Cardinality(DearerThan(list, p)) \in Nat
    BY <1>2, <1>5, <1>8, DearerCounted
  <1> QED
    BY <1>1, <1>5, <1>6, <1>7, <1>9

\* Only the loop's Heat turns the heating off, and only in a dear hour.
LEMMA CutStep ==
  ASSUME TypeOK, [Next]_vars, inputs.heating, ~inputs'.heating
  PROVE  \/ Price > MAX_PRICE_PER_HOUR
         \/ Cardinality({i \in DOMAIN seen.today : seen.today[i] >= Price}) <= 3
  <1>1. "heating" \in DOMAIN inputs
    BY DEF TypeOK, Inputs
  <1>2. inputs'["heating"] # inputs["heating"]
    OBVIOUS
  <1>3. Heat
    <2>1. ~Plan
      BY <1>1, <1>2, PlanIs DEF SomeMade
    <2>2. ~Dish
      BY <1>1, <1>2, DishIs DEF SomeMade
    <2>3. ~SetTemp
      BY <1>1, <1>2, TempStep DEF SomeMade
    <2>4. ~Fetch /\ ~Panic /\ ~Crash /\ ~Restart /\ ~UNCHANGED vars
      BY <1>2 DEF Fetch, Panic, Crash, Restart, vars
    <2>5. ~World
      BY <1>1, <1>2 DEF World, HourPasses, PricesRotate, PricesPublished,
                        HouseChanges,
                        UserShifts, PumpFollows
    <2> QED
      BY <2>1, <2>2, <2>3, <2>4, <2>5 DEF Next, Loop
  <1>4. ~SomeMade(inputs, inputs', {<<"temp", -10>>, <<"shift", 0>>})
    BY <1>1, <1>2 DEF SomeMade
  <1>5. PricesServe /\ Dear
    <2>1. /\ PricesServe
          /\ SomeMade(inputs, inputs', ({"water", "boost"} \X BOOLEAN) \cup {<<"heating", ~Dear
                \/ seen.ignoreMax>>})
      BY <1>3, <1>4, HeatCalls
    <2>2. PICK on : on = (~Dear \/ seen.ignoreMax)
      OBVIOUS
    <2>3. inputs'["heating"] = on
      BY <1>1, <1>2, <2>1, <2>2 DEF SomeMade
    <2> QED
      BY <2>1, <2>2, <2>3
  <1> QED
    BY <1>5, DearIsAmongThree DEF Dear

\* For every list of prices, with its length and its ties, the heating is cut
\* in one of the three dearest hours or above the hard limit only
\* (brain/heatpump.go:416-436).
THEOREM CutsAreDear == Spec => CutsOnlyDearHours
  <1>1. TypeOK /\ [Next]_vars =>
          [ inputs.heating /\ ~inputs'.heating =>
              \/ Price > MAX_PRICE_PER_HOUR
              \/ Cardinality({i \in DOMAIN seen.today :
                                   seen.today[i] >= Price}) <= 3 ]_vars
    BY CutStep
  <1> QED
    BY <1>1, PumpTypes, PTL DEF Spec, CutsOnlyDearHours
=============================================================================
