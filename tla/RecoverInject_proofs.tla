------------------------ MODULE RecoverInject_proofs ------------------------
(***************************************************************************)
(* recover_inject for any array, list, brackets and number of rounds:      *)
(* FrameInv is an invariant, and from it the supply and selection rules    *)
(* and that nothing but a live listed gate is ever injected; the log fits; *)
(* every order fits the level of its gate; the program implements the      *)
(* abstract stage.                                                         *)
(***************************************************************************)
EXTENDS RecoverInject, FGBoard_proofs

-----------------------------------------------------------------------------
(* The steps of the stage itself. *)

\* Every verdict is a word.
LEMMA VerdictType ==
  ASSUME NEW reading, NEW old \in Word
  PROVE  Verdict(reading, old) \in Word
<1>1. 0 \in Word /\ GentlePull \in Word /\ MiddlePull \in Word /\ StrongPull \in Word
  BY SMT DEF Word, GentlePull, MiddlePull, StrongPull
<1> QED BY <1>1 DEF Verdict

\* A judgement as the shared lemmas take it.
LEMMA JudgeWrites ==
  ASSUME FrameInv, Judge
  PROVE  /\ Live(idx) /\ idx \in Recs /\ status[idx] \in Word /\ level' = level
         /\ level[<<row, col>>] = level[Cell[idx]]
         /\ Verdict(level[Cell[idx]], status[idx]) \in Word
         /\ status' = [status EXCEPT ![idx] = Verdict(level[Cell[idx]], status[idx])]
<1>1. /\ Live(idx) /\ idx \in Recs /\ status[idx] \in Word
      /\ level[<<row, col>>] = level[Cell[idx]]
  BY DEF Judge, FrameInv, TypeOK, SelectedInv
<1>2. level' = level
  BY CalmStep DEF Judge
<1> QED BY <1>1, <1>2, VerdictType DEF Judge

\* The five steps that only this program has preserve the invariant.
LEMMA StageStepFrame ==
  ASSUME FrameInv, Judge \/ LeaveVerifyRI \/ Pull \/ FirstUnit \/ Release
  PROVE  FrameInv'
<1>0. status \in [Recs -> Word] /\ diff \in [Recs -> Word] /\ pulses \in Word
  BY DEF FrameInv, TypeOK
<1>1. CASE Judge
  <2>1. status' \in [Recs -> Word] /\ diff' \in [Recs -> Word]
    BY <1>0, <1>1, JudgeWrites DEF Judge
  <2> QED BY <1>1, <2>1, JudgeFrame DEF Judge
<1>2. CASE LeaveVerifyRI
  BY <1>2, LeaveVerifyFrame DEF LeaveVerifyRI
<1>3. CASE Pull
  BY <1>3, PullFrame DEF Pull, DrainFor
<1>4. CASE FirstUnit
  <2>1. 0 \in Word
    BY SMT DEF Word
  <2> QED BY <1>4, <2>1, UnitFrame DEF FirstUnit
<1>5. CASE Release
  BY <1>0, <1>5, EndBurstFrame DEF Release, list
<1> QED BY <1>1, <1>2, <1>3, <1>4, <1>5

\* A step of the specification preserves the invariant.
LEMMA StepFrame ==
  ASSUME FrameInv, [Next]_vars
  PROVE  FrameInv'
BY SharedStepFrame, StageStepFrame, StutterFrame DEF Next, Stopped

\* The program always is where, and its voltages and selection are what,
\* FrameInv says: in particular every variable keeps its type.
THEOREM FrameAlways == Spec => []FrameInv
<1>1. Init => FrameInv
  BY InitFrame
<1>2. FrameInv /\ [Next]_vars => FrameInv'
  BY StepFrame
<1> QED BY <1>1, <1>2, PTL DEF Spec

\* The measuring amplifier never meets 6 V or the tunnel mux, the drain is
\* never pulled under 6 V outside coarse_inject, and main ends at rest.
THEOREM RestAlways == Spec => []MeasuredAtRest
<1>1. FrameInv => MeasuredAtRest
  BY DEF FrameInv, TypeOK, VoltageInv, PlaceInv, MeasuredAtRest, Measures, Blocks
<1> QED BY <1>1, FrameAlways, PTL

\* Each step that logs counts the words it writes, so the log is as long as
\* LogBudget says, and no longer on the way there.
THEOREM LogAlways == Spec => []LogFits
<1>1. Init => LogInv
  BY LogInit
<1>2. FrameInv /\ LogInv /\ [Next]_vars => LogInv'
  <2> SUFFICES ASSUME FrameInv, LogInv, [Next]_vars
               PROVE  LogInv'
    OBVIOUS
  <2>1. CASE Judge \/ LeaveVerifyRI \/ Pull \/ FirstUnit \/ Release
    BY <2>1, LogQuiet DEF Judge, LeaveVerifyRI, LeaveVerify, Call, Pull, FirstUnit, Release
  <2> QED BY <2>1, LogStep, LogStutter DEF Next, Stopped
<1>3. FrameInv /\ LogInv => LogFits
  BY LogBounded
<1> QED BY <1>1, <1>2, <1>3, FrameAlways, PTL DEF Spec

-----------------------------------------------------------------------------
(* What a step may do to the array. *)

\* Every step contains a step of the array or leaves all as it is.
LEMMA StepPhysics ==
  ASSUME [Next]_vars
  PROVE  Physics \/ UNCHANGED vars
BY DEF Next, SharedStep, SelectRow, SelectCol, SkipOver, EnterMeasure, LogReading,
       LeaveFirst, LeaveRound, LeaveLast, EnterInject, Raise, Lower, Rest, Judge,
       LeaveVerifyRI, LeaveVerify, Pull, FirstUnit, Release, Stopped

\* ROW_SEL and COL_SEL change only in the two steps that select a record, and
\* at neither end of those steps is the drain pulled below 6 V.
THEOREM InterlockAlways == Spec => SelectionInterlock
<1>1. ASSUME FrameInv, FrameInv', [Next]_vars, row' # row \/ col' # col
      PROVE  ~Pulled /\ ~Pulled'
  <2>1. SelectRow \/ SelectCol
    BY <1>1 DEF Next, SharedStep, SelectRow, SelectCol, SkipOver, EnterMeasure, LogReading,
       LeaveFirst, LeaveRound, LeaveLast, EnterInject, Raise, Lower, Rest, Judge,
       LeaveVerifyRI, LeaveVerify, Pull, FirstUnit, Release, Stopped, vars, select
  <2>2. at \in {"row", "col"} /\ at' \in {"col", "test"}
    BY <2>1 DEF SelectRow, SelectCol
  <2>3. (Pulled => at = "pulse") /\ (Pulled' => at' = "pulse")
    BY <1>1 DEF FrameInv, VoltageInv, Pulled
  <2> QED BY <2>2, <2>3
<1>2. FrameInv /\ FrameInv' /\ [Next]_vars =>
        [row' # row \/ col' # col => ~Pulled /\ ~Pulled']_vars
  BY <1>1
<1> QED BY <1>2, FrameAlways, PTL DEF Spec, SelectionInterlock

\* No gate outside the list changes its level.
THEOREM UnlistedAlways == Spec => UnlistedUntouched
<1>1. ASSUME FrameInv, [Next]_vars
      PROVE  \A c \in Cells \ Listed : level'[c] = level[c]
  BY <1>1, StepPhysics, UnlistedStep DEF vars
<1>2. FrameInv /\ [Next]_vars => [\A c \in Cells \ Listed : level'[c] = level[c]]_vars
  BY <1>1
<1> QED BY <1>2, FrameAlways, PTL DEF Spec, UnlistedUntouched

\* Only a judgement writes a status word.
LEMMA StatusKept ==
  ASSUME [Next]_vars, ~Judge
  PROVE  status' = status
BY DEF Next, SharedStep, SelectRow, SelectCol, SkipOver, EnterMeasure,
       LogReading, LeaveFirst, LeaveRound, LeaveLast, EnterInject, Raise, Lower, Rest,
       LeaveVerifyRI, LeaveVerify, Pull, FirstUnit, Release, Stopped, vars, list

\* A record that is over stays over, and its gate keeps its level.
THEOREM OverAlways == Spec => OverIsFinal
<1>1. ASSUME FrameInv, [Next]_vars, NEW i \in Recs, status[i] = 0
      PROVE  status'[i] = 0 /\ level'[Cell[i]] = level[Cell[i]]
  <2>1. level'[Cell[i]] = level[Cell[i]]
    BY <1>1, StepPhysics, OverStep DEF vars
  <2>2. CASE Judge
    <3>1. idx # i /\ status \in [Recs -> Word]
      BY <1>1, <2>2 DEF Judge, Live, FrameInv, TypeOK
    <3> QED BY <1>1, <2>1, <2>2, <3>1 DEF Judge
  <2>3. CASE ~Judge
    BY <1>1, <2>1, <2>3, StatusKept
  <2> QED BY <2>2, <2>3
<1>2. FrameInv /\ [Next]_vars =>
        [\A i \in Recs : status[i] = 0 =>
           status'[i] = 0 /\ level'[Cell[i]] = level[Cell[i]]]_vars
  BY <1>1
<1> QED BY <1>2, FrameAlways, PTL DEF Spec, OverIsFinal

-----------------------------------------------------------------------------
(* Every order fits the level. *)

\* The verdict on a code, without words that wrap; from VC4 on it does not
\* depend on what the status word was.
LEMMA VerdictValue ==
  ASSUME NEW reading \in Codes, NEW old
  PROVE  Verdict(reading, old) =
           IF reading >= VC1 THEN 0
           ELSE IF reading >= VC2 THEN GentlePull
           ELSE IF reading >= VC3 THEN MiddlePull
           ELSE IF reading >= VC4 THEN StrongPull
           ELSE old
<1>1. reading \in CodeRange
  BY LevelAssumption
<1>2. \A v \in CodeRange : ~Below(reading, v) <=> reading >= v
  <2> TAKE v \in CodeRange
  <2>1. Below(reading, v) <=> reading < v
    BY <1>1, BelowIsLess
  <2> QED BY <1>1, <2>1 DEF CodeRange
<1> QED BY <1>2, BracketAssumption DEF Verdict

LEMMA VerdictForgets ==
  ASSUME NEW reading \in Codes, NEW old, NEW new, reading >= VC4 \/ old = new
  PROVE  Verdict(reading, old) = Verdict(reading, new)
BY VerdictValue, BracketAssumption, CodesAreNumbers DEF CodeRange

\* Before anything is measured every word is the host's.
LEMMA OrderInit ==
  ASSUME Init
  PROVE  OrderInv
BY DEF Init, OrderInv, UnsetBelow, Armed

\* The host's word stays until a gate is measured at VC4 or above.
LEMMA UnsetStep ==
  ASSUME FrameInv, OrderInv, [Next]_vars
  PROVE  UnsetBelow'
<1> SUFFICES ASSUME NEW i \in Recs
             PROVE  status'[i] \in {0, Unset} \/ level'[Cell[i]] >= VC4
  BY DEF UnsetBelow
<1>1. level[Cell[i]] \in Codes /\ level[Cell[i]] \in Nat /\ VC4 \in Nat
  BY LevelOfRecord, BracketAssumption DEF CodeRange
<1>2. status[i] \in {0, Unset} \/ level[Cell[i]] >= VC4
  BY DEF OrderInv, UnsetBelow
<1>3. level'[Cell[i]] \in Nat /\ level'[Cell[i]] >= level[Cell[i]]
  BY <1>1, StepPhysics, NoneFalls DEF vars
<1>4. CASE Judge /\ i = idx
  <2>1. status'[i] = Verdict(level[Cell[i]], status[i])
    BY <1>4, JudgeWrites DEF FrameInv, TypeOK
  <2>2. status'[i] = 0 \/ status'[i] = status[i] \/ level[Cell[i]] >= VC4
    BY <1>1, <2>1, VerdictValue, BracketAssumption DEF CodeRange
  <2> QED BY <1>1, <1>2, <1>3, <2>2
<1>5. CASE ~(Judge /\ i = idx)
  <2>1. status'[i] = status[i]
    BY <1>5, JudgeWrites, StatusKept DEF FrameInv, TypeOK
  <2> QED BY <1>1, <1>2, <1>3, <2>1
<1> QED BY <1>4, <1>5

\* An order is given for the level the gate has, and until it is carried out
\* only the gates of other records move.
LEMMA OrderStep ==
  ASSUME FrameInv, OrderInv, [Next]_vars
  PROVE  OrderInv'
<1> DEFINE Served(i) == routine = "inject" /\ at = "pulse" /\ i = idx
           Fits(i) == status[i] = Verdict(level[Cell[i]], Unset)
<1>0. /\ \A i \in Armed : Served(i) \/ Fits(i)
      /\ idx \in Recs /\ Armed \subseteq Recs
  BY DEF OrderInv, FrameInv, TypeOK, Armed
<1> SUFFICES ASSUME NEW i \in Armed'
             PROVE  Served(i)' \/ Fits(i)'
  BY UnsetStep DEF OrderInv
<1>00. i \in Recs
  BY DEF Armed
<1>1. CASE SharedStep
  BY <1>0, <1>1, SharedStepStage, SharedStepKeeps
<1>2. CASE Judge
  <2>1. routine = "verify" /\ routine' = "verify" /\ status \in [Recs -> Word]
    BY <1>2 DEF Judge, FrameInv, TypeOK
  <2>2. CASE i = idx
    <3>1. status'[i] = Verdict(level[Cell[i]], status[i]) /\ level' = level
      BY <1>2, <2>1, <2>2, JudgeWrites
    <3>2. level[Cell[i]] \in Codes /\ (level[Cell[i]] >= VC4 \/ status[i] = Unset)
      BY <1>00, <1>2, <2>2, LevelOfRecord, JudgeWrites DEF OrderInv, UnsetBelow, Live
    <3> QED BY <3>1, <3>2, VerdictForgets
  <2>3. CASE i # idx
    <3>1. status'[i] = status[i] /\ level' = level
      BY <1>00, <1>2, <2>1, <2>3, JudgeWrites
    <3>2. i \in Armed
      BY <1>2, <2>1, <2>3, JudgeWrites, JudgeArmed DEF Judge
    <3> QED BY <1>0, <2>1, <3>1, <3>2
  <2> QED BY <2>2, <2>3
<1>3. CASE LeaveVerifyRI
  <2>1. level' = level /\ status' = status /\ Armed' = Armed /\ routine = "verify"
    BY <1>3, CalmStep, WalkArmed DEF LeaveVerifyRI, LeaveVerify, Call, list
  <2> QED BY <1>0, <2>1
<1>4. CASE Pull
  <2>1. level' = level /\ status' = status /\ Armed' = Armed /\ at = "pull"
    BY <1>4, CalmStep, WalkArmed DEF Pull, list
  <2> QED BY <1>0, <2>1
<1>5. CASE FirstUnit
  <2>1. /\ status' = status /\ Armed' = Armed /\ idx' = idx
        /\ routine' = "inject" /\ at' = "pulse" /\ Physics
    BY <1>5, WalkArmed DEF FirstUnit, list
  <2>2. i # idx => level'[Cell[i]] = level[Cell[i]]
    BY <1>00, <2>1, OthersKeep
  <2> QED BY <1>0, <2>1, <2>2
<1>6. CASE Release
  <2>1. /\ status' = status /\ Physics /\ status = [status EXCEPT ![idx] = status[idx]]
        /\ status[idx] \in Word
    BY <1>6 DEF Release, list, FrameInv, TypeOK
  <2>2. i \in Armed /\ i # idx
    BY <1>6, <2>1, EndBurstArmed DEF Release
  <2>3. level'[Cell[i]] = level[Cell[i]]
    BY <1>00, <2>1, <2>2, OthersKeep
  <2> QED BY <1>0, <2>1, <2>2, <2>3
<1>7. CASE UNCHANGED vars
  BY <1>0, <1>7 DEF vars, Armed, Live
<1> QED BY <1>1, <1>2, <1>3, <1>4, <1>5, <1>6, <1>7 DEF Next, Stopped

LEMMA OrderAlways == Spec => []OrderInv
<1>1. Init => OrderInv
  BY OrderInit
<1>2. FrameInv /\ OrderInv /\ [Next]_vars => OrderInv'
  BY OrderStep
<1> QED BY <1>1, <1>2, FrameAlways, PTL DEF Spec

\* Every order that coarse_inject still has to carry out is the verdict on the
\* level its gate has at that moment, in every round and behind any number of
\* other bursts.
THEOREM OrdersAlwaysFit == Spec => []OrderFitsLevel
<1>1. OrderInv => OrderFitsLevel
  BY DEF OrderInv, OrderFitsLevel
<1> QED BY <1>1, OrderAlways, PTL

\* Hence a gate at VC2 is never pulled strongly again, and one at VC4 never
\* gets the double unit.
THEOREM GentleAlways == Spec => GentleNearGoal
<1> DEFINE Gentle == at = "pull" /\ at' = "pulse" =>
                       /\ level[Cell[idx]] >= VC2 => drain' = "VD1"
                       /\ level[Cell[idx]] >= VC4 => pulses' # Unset
<1>1. ASSUME FrameInv, OrderInv, [Next]_vars, at = "pull", at' = "pulse"
      PROVE  Gentle
  <2>1. Pull
    BY <1>1 DEF Next, SharedStep, SelectRow, SelectCol, SkipOver, EnterMeasure, LogReading,
       LeaveFirst, LeaveRound, LeaveLast, EnterInject, Raise, Lower, Rest, Judge,
       LeaveVerifyRI, LeaveVerify, FirstUnit, Release, Stopped, vars
  <2>2. /\ idx \in Recs /\ Live(idx) /\ pulses = status[idx] /\ routine = "inject"
        /\ idx >= idx
    BY <1>1, <2>1, RecordsAssumption DEF FrameInv, TypeOK, SelectedInv, Pull, Recs
  <2>3. idx \in Armed
    BY <1>1, <2>2 DEF Armed
  <2> DEFINE l == level[Cell[idx]]
  <2>4. pulses = Verdict(l, Unset) /\ pulses # 0
    BY <1>1, <2>2, <2>3 DEF OrderInv, Live
  <2>5. l \in Codes /\ l \in Nat
    BY <1>1, <2>2, LevelOfRecord
  <2>6. VC1 \in Nat /\ VC2 \in Nat /\ VC3 \in Nat /\ VC4 \in Nat
        /\ VC4 <= VC3 /\ VC3 <= VC2 /\ VC2 <= VC1
    BY BracketAssumption DEF CodeRange
  <2> HIDE DEF l
  <2>7. (l >= VC2 => pulses = GentlePull) /\ (l >= VC4 => pulses # Unset)
    BY <2>4, <2>5, <2>6, VerdictValue DEF GentlePull, MiddlePull, StrongPull, Unset
  <2>8. drain' = DrainFor(pulses) /\ pulses' = pulses
    BY <2>1 DEF Pull
  <2>9. DrainFor(GentlePull) = "VD1"
    BY DEF DrainFor, GentlePull, MiddlePull
  <2> QED BY <2>7, <2>8, <2>9 DEF l
<1>2. FrameInv /\ OrderInv /\ [Next]_vars => [Gentle]_vars
  BY <1>1
<1> QED BY <1>2, FrameAlways, OrderAlways, PTL DEF Spec, GentleNearGoal

-----------------------------------------------------------------------------
(* The program implements the abstract stage. *)

\* A verdict ends a record exactly when its gate has reached VC1.
LEMMA VerdictEnds ==
  ASSUME NEW reading \in Codes, NEW old \in Word, old # 0
  PROVE  Verdict(reading, old) = 0 <=> reading >= VC1
BY VerdictValue DEF GentlePull, MiddlePull, StrongPull

\* The initial states are those of the abstract stage.
LEMMA StageInit ==
  ASSUME Init
  PROVE  Stage!Init
BY DEF Init, Stage!Init, Live, Unset, Armed

\* A judgement ends a live record at its goal or arms it below.
LEMMA JudgeStage ==
  ASSUME FrameInv, Judge
  PROVE  \E i \in Recs : Stage!Over(i) \/ Stage!Arm(i)
<1> DEFINE verdict == Verdict(level[Cell[idx]], status[idx])
<1>0. /\ Live(idx) /\ idx \in Recs /\ level' = level /\ verdict \in Word
      /\ status' = [status EXCEPT ![idx] = verdict]
  BY JudgeWrites
<1>1. verdict = 0 <=> level[Cell[idx]] >= VC1
  BY <1>0, VerdictEnds, LevelOfRecord, JudgeWrites DEF Live
<1>2. level[Cell[idx]] \in Nat /\ VC1 \in Nat
  BY <1>0, LevelOfRecord, BracketAssumption DEF CodeRange
<1> HIDE DEF verdict
<1>3. /\ idx \notin Armed
      /\ Armed' = IF verdict = 0 THEN Armed ELSE Armed \cup {idx}
      /\ {i \in Recs : Live(i)}'
           = IF verdict = 0 THEN {i \in Recs : Live(i)} \ {idx} ELSE {i \in Recs : Live(i)}
  BY <1>0, JudgeArmed DEF Judge
<1>4. CASE verdict = 0
  BY <1>0, <1>1, <1>3, <1>4 DEF Stage!Over
<1>5. CASE verdict # 0
  <2>1. level[Cell[idx]] < VC1
    BY <1>1, <1>2, <1>5
  <2> QED BY <1>0, <1>3, <1>5, <2>1 DEF Stage!Arm
<1> QED BY <1>4, <1>5

\* Every step is a step of the abstract stage or leaves its view unchanged.
LEMMA StageStep ==
  ASSUME FrameInv, [Next]_vars
  PROVE  [Stage!Next]_(Stage!stageVars)
<1>0. idx \in Recs
  BY DEF FrameInv, TypeOK
<1>1. CASE SharedStep
  BY <1>1, SharedStepStage DEF Stage!stageVars, Live
<1>2. CASE Judge
  BY <1>2, JudgeStage DEF Stage!Next
<1>3. CASE LeaveVerifyRI
  <2>1. level' = level /\ status' = status /\ Armed' = Armed
    BY <1>3, CalmStep, WalkArmed DEF LeaveVerifyRI, LeaveVerify, Call, list
  <2> QED BY <2>1 DEF Stage!stageVars, Live
<1>4. CASE Pull
  <2>1. level' = level /\ status' = status /\ Armed' = Armed
    BY <1>4, CalmStep, WalkArmed DEF Pull, list
  <2> QED BY <2>1 DEF Stage!stageVars, Live
<1>5. CASE FirstUnit
  <2>1. status' = status /\ Armed' = Armed /\ Physics
    BY <1>5, WalkArmed DEF FirstUnit, list
  <2>2. idx \in Armed
    BY <1>0, <1>5, RecordsAssumption DEF FirstUnit, Armed, FrameInv, SelectedInv, Recs
  <2>3. Stage!Rises(idx)
    BY <2>1, ServedRises DEF Stage!Rises
  <2> QED BY <1>0, <2>1, <2>2, <2>3 DEF Stage!Next, Stage!Pulse, Live
<1>6. CASE Release
  <2>1. /\ status' = status /\ Physics /\ status = [status EXCEPT ![idx] = status[idx]]
        /\ status[idx] \in Word
    BY <1>0, <1>6 DEF Release, list, FrameInv, TypeOK
  <2>2. idx \in Armed /\ Armed' = Armed \ {idx}
    BY <1>6, <2>1, EndBurstArmed DEF Release
  <2>3. Stage!Rises(idx)
    BY <2>1, ServedRises DEF Stage!Rises
  <2> QED BY <1>0, <2>1, <2>2, <2>3 DEF Stage!Next, Stage!EndBurst, Live
<1>7. CASE UNCHANGED vars
  BY <1>7 DEF vars, Stage!stageVars, Live, Armed
<1> QED BY <1>1, <1>2, <1>3, <1>4, <1>5, <1>6, <1>7 DEF Next, Stopped

\* The program implements the stage: a gate rises only in the one burst that
\* the latest reading of it, below VC1, has called for.
THEOREM RecoverInjectImplementsStage == Spec => ImplementsStage
<1>1. Init => Stage!Init
  BY StageInit
<1>2. FrameInv /\ [Next]_vars => [Stage!Next]_(Stage!stageVars)
  BY StageStep
<1> QED BY <1>1, <1>2, FrameAlways, PTL DEF Spec, ImplementsStage, Stage!Spec
=============================================================================
