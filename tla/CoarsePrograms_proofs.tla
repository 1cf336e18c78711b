------------------------ MODULE CoarsePrograms_proofs ------------------------
(***************************************************************************)
(* The two coarse programs, for any array, list, table and number of       *)
(* rounds: the frame, the log and the rules of the array, that every pulse *)
(* count is the one the table gives for the level the gate has, how a      *)
(* record may end, and that each program implements the abstract stage.    *)
(* measured_coarse_program is the module extended; first_coarse_program,   *)
(* which acts on the same constants and variables, is the instance First.  *)
(***************************************************************************)
EXTENDS MeasuredCoarse, FGBoard_proofs

First == INSTANCE FirstCoarse

-----------------------------------------------------------------------------
(* The table. *)

\* The index of a code is its entry in steps of 64 codes, whatever the carry.
LEMMA IndexOfCode ==
  ASSUME NEW x \in CodeRange, NEW c \in {0, 1}
  PROVE  /\ PulseIndex(x, c) = x \div 64
         /\ x \div 64 \in TableIndices /\ 64 * (x \div 64) <= x
<1>1. x \in Word /\ c \in Bit
  BY DEF CodeRange, Word, Bit
<1>2. PulseIndex(x, c) = (x \div 64) % 256
  BY <1>1, PulseIndexIsBits13To6 DEF PulseIndexRef
<1>3. x \div 64 \in 0 .. 255 /\ 64 * (x \div 64) <= x
  BY DEF CodeRange
<1>4. (x \div 64) % 256 = x \div 64
  BY DEF CodeRange
<1> QED BY <1>2, <1>3, <1>4 DEF TableIndices, TableSize

-----------------------------------------------------------------------------
(* The steps that both programs share. *)

LEMMA CoarseStepFrame ==
  ASSUME FrameInv, CoarseStep
  PROVE  FrameInv'
<1>1. CASE LeaveVerifyC
  BY <1>1, LeaveVerifyFrame DEF LeaveVerifyC
<1>2. CASE Pull
  BY <1>2, PullFrame DEF Pull
<1>3. CASE NextPulse
  <2>1. pulses' \in Word
    BY <1>3, SubWord DEF NextPulse, FrameInv, TypeOK, Word
  <2> QED BY <1>3, <2>1, UnitFrame DEF NextPulse
<1> QED BY <1>1, <1>2, <1>3, SharedStepFrame DEF CoarseStep

LEMMA LastPulseFrame ==
  ASSUME FrameInv, NEW w \in Word, LastPulse(w)
  PROVE  FrameInv'
<1>1. status' \in [Recs -> Word] /\ 0 \in Word
  BY SMT DEF LastPulse, FrameInv, TypeOK, Word
<1> QED BY <1>1, EndBurstFrame DEF LastPulse

\* They arm no record and end none, and no gate rises but that of the record
\* whose burst is on.
LEMMA CoarseStepStage ==
  ASSUME FrameInv, CoarseStep
  PROVE  /\ status' = status /\ Armed' = Armed
         /\ \/ level' = level
            \/ /\ routine = "inject" /\ at = "pulse" /\ idx \in Recs /\ idx \in Armed
               /\ routine' = routine /\ at' = at /\ idx' = idx /\ diff' = diff /\ Physics
<1>1. CASE SharedStep
  BY <1>1, SharedStepStage
<1>2. CASE LeaveVerifyC \/ Pull
  BY <1>2, CalmStep, WalkArmed DEF LeaveVerifyC, LeaveVerify, Call, Pull, list
<1>3. CASE NextPulse
  <2>1. idx \in Recs /\ Live(idx)
    BY <1>3 DEF NextPulse, FrameInv, TypeOK, SelectedInv
  <2>2. idx \in Armed
    BY <1>3, <2>1, RecordsAssumption DEF NextPulse, Armed, Recs
  <2> QED BY <1>3, <2>1, <2>2, WalkArmed DEF NextPulse, list
<1> QED BY <1>1, <1>2, <1>3 DEF CoarseStep

LEMMA LastPulseStage ==
  ASSUME FrameInv, NEW w \in Word, LastPulse(w)
  PROVE  /\ idx \in Recs /\ idx \in Armed /\ Armed' = Armed \ {idx} /\ Physics
         /\ {i \in Recs : Live(i)}'
              = IF w = 0 THEN {i \in Recs : Live(i)} \ {idx} ELSE {i \in Recs : Live(i)}
<1>1. idx \in Recs
  BY DEF FrameInv, TypeOK
<1> QED BY <1>1, EndBurstArmed DEF LastPulse

\* Neither a shared step nor the end of a burst arms a record, and it leaves one
\* whose burst has not begun its level, its word and its distance.
LEMMA WaitingKept ==
  ASSUME FrameInv, CoarseStep \/ (\E w \in Word : LastPulse(w)) \/ UNCHANGED vars,
         NEW i \in Armed', ~(at' = "pulse" /\ i = idx')
  PROVE  /\ i \in Armed /\ ~(at = "pulse" /\ i = idx)
         /\ level'[Cell[i]] = level[Cell[i]] /\ status'[i] = status[i] /\ diff'[i] = diff[i]
         /\ routine' = "inject" => routine = "inject"
         /\ routine' \in {"verify", "calculate"} => routine \in {"verify", "calculate"}
<1>0. i \in Recs /\ idx \in Recs /\ status \in [Recs -> Word]
  BY DEF Armed, FrameInv, TypeOK
<1>1. CASE SharedStep
  BY <1>1, SharedStepStage, SharedStepKeeps
<1>2. CASE LeaveVerifyC
  <2>1. /\ level' = level /\ status' = status /\ diff' = diff /\ Armed' = Armed
        /\ routine = "verify" /\ at = "leave" /\ routine' = "calculate"
    BY <1>2, CalmStep, WalkArmed DEF LeaveVerifyC, LeaveVerify, Call, list
  <2> QED BY <2>1
<1>3. CASE Pull
  <2>1. /\ level' = level /\ status' = status /\ diff' = diff /\ Armed' = Armed
        /\ routine' = routine /\ at = "pull"
    BY <1>3, CalmStep, WalkArmed DEF Pull, list
  <2> QED BY <2>1
<1>4. CASE NextPulse
  <2>1. /\ status' = status /\ diff' = diff /\ Physics /\ Armed' = Armed
        /\ routine' = routine /\ at = "pulse" /\ at' = at /\ idx' = idx
    BY <1>4, WalkArmed DEF NextPulse, list
  <2> QED BY <1>0, <2>1, OthersKeep
<1>5. CASE \E w \in Word : LastPulse(w)
  <2>1. PICK w \in Word : LastPulse(w)
    BY <1>5
  <2>2. /\ status' = [status EXCEPT ![idx] = w] /\ diff' = diff /\ Physics
        /\ routine' = routine
    BY <2>1 DEF LastPulse
  <2>3. i \in Armed /\ i # idx
    BY <2>1, LastPulseStage
  <2> QED BY <1>0, <2>2, <2>3, OthersKeep
<1>6. CASE UNCHANGED vars
  BY <1>6 DEF vars, Armed, Live
<1> QED BY <1>1, <1>2, <1>3, <1>4, <1>5, <1>6 DEF CoarseStep

\* A gate whose record is over keeps its level in any step of the array.
LEMMA OverKept ==
  ASSUME FrameInv, Physics \/ UNCHANGED vars, NEW i \in Recs, ~Live(i)
  PROVE  level'[Cell[i]] = level[Cell[i]]
BY OverStep DEF Live, vars

\* What they do to the array, to the selection, to the status and to the log.
LEMMA CoarseStepRules ==
  ASSUME FrameInv, CoarseStep \/ (\E w \in Word : LastPulse(w)) \/ UNCHANGED vars
  PROVE  /\ Physics \/ UNCHANGED vars
         /\ SelectRow \/ SelectCol \/ UNCHANGED select
         /\ \A i \in Recs : status[i] = 0 => status'[i] = 0
         /\ LogInv => LogInv'
<1>1. CASE SharedStep
  BY <1>1, SharedStepRules, LogStep
<1>2. CASE LeaveVerifyC
  BY <1>2, LogQuiet DEF LeaveVerifyC, LeaveVerify, Call, select, list
<1>3. CASE Pull \/ NextPulse
  BY <1>3, LogQuiet DEF Pull, NextPulse, select, list
<1>4. CASE \E w \in Word : LastPulse(w)
  <2>1. PICK w \in Word : LastPulse(w)
    BY <1>4
  <2>2. status \in [Recs -> Word] /\ status[idx] # 0 /\ status' = [status EXCEPT ![idx] = w]
    BY <2>1 DEF LastPulse, FrameInv, TypeOK, SelectedInv, Live
  <2> QED BY <2>1, <2>2, LogQuiet DEF LastPulse, select
<1>5. CASE UNCHANGED vars
  BY <1>5, LogStutter DEF vars, select
<1> QED BY <1>1, <1>2, <1>3, <1>4, <1>5 DEF CoarseStep

-----------------------------------------------------------------------------
(* measured_coarse_program: the judgement and the calculation. *)

LEMMA GoalIsBelowTarget ==
  ASSUME NEW i \in Recs
  PROVE  /\ Target[i] \in CodeRange /\ Target[i] \in Nat /\ Margin \in Nat
         /\ Margin <= Target[i] /\ Target[i] - Margin \in Nat
         /\ GoalOf(i) = Target[i] - Margin /\ GoalOf(i) \in CodeRange
         /\ Add(GoalOf(i), Margin) = Target[i]
<1>1. Target[i] \in CodeRange /\ Margin \in Nat /\ Margin <= Target[i]
  BY TargetAssumption, MarginAssumption
<1>2. GoalOf(i) = Target[i] - Margin
  BY <1>1 DEF GoalOf, Sub, CodeRange
<1>3. Target[i] - Margin \in CodeRange /\ Target[i] - Margin \in Nat
  BY <1>1 DEF CodeRange
<1>4. Add(Target[i] - Margin, Margin) = Target[i]
  <2> DEFINE t == Target[i]
  <2>1. t \in Nat /\ t < 16384 /\ Margin \in Nat
    BY <1>1 DEF CodeRange
  <2> HIDE DEF t
  <2>2. (t - Margin) + Margin = t /\ t % 65536 = t
    BY <2>1
  <2> QED BY <2>2 DEF Add, t
<1>5. GoalOf(i) \in CodeRange /\ Add(GoalOf(i), Margin) = Target[i]
  BY <1>2, <1>3, <1>4
<1>6. Target[i] \in Nat
  BY <1>1 DEF CodeRange
<1> QED BY <1>1, <1>2, <1>3, <1>5, <1>6

\* A judgement ends the record within Margin of its target, or writes the
\* distance from its gate to the target.
LEMMA JudgeWrites ==
  ASSUME FrameInv, Judge
  PROVE  /\ Live(idx) /\ idx \in Recs /\ level' = level
         /\ \/ /\ level[Cell[idx]] >= Target[idx] - Margin
               /\ status' = [status EXCEPT ![idx] = 0] /\ diff' = diff
            \/ /\ level[Cell[idx]] < Target[idx] - Margin
               /\ status' = status
               /\ diff' = [diff EXCEPT ![idx] = Sub(Target[idx], level[Cell[idx]])]
<1> DEFINE l == level[Cell[idx]]
<1>1. /\ Live(idx) /\ idx \in Recs /\ level' = level /\ level[<<row, col>>] = l
  BY CalmStep DEF Judge, FrameInv, TypeOK, SelectedInv
<1>2. l \in CodeRange /\ l \in Nat
  BY <1>1, LevelOfRecord, LevelAssumption
<1>3. IF AtGoal(idx, l)
      THEN status' = [status EXCEPT ![idx] = 0] /\ UNCHANGED diff
      ELSE diff' = [diff EXCEPT ![idx] = Sub(Add(GoalOf(idx), Margin), l)] /\ UNCHANGED status
  BY <1>1 DEF Judge
<1>4. AtGoal(idx, l) <=> ~(l < GoalOf(idx))
  BY <1>1, <1>2, GoalIsBelowTarget, BelowIsLess DEF AtGoal
<1>5. /\ GoalOf(idx) = Target[idx] - Margin /\ Target[idx] - Margin \in Nat
      /\ Add(GoalOf(idx), Margin) = Target[idx]
  BY <1>1, GoalIsBelowTarget
<1> HIDE DEF l
<1>6. CASE AtGoal(idx, l)
  <2>1. l >= Target[idx] - Margin
    BY <1>2, <1>4, <1>5, <1>6
  <2> QED BY <1>1, <1>3, <1>6, <2>1 DEF l
<1>7. CASE ~AtGoal(idx, l)
  BY <1>1, <1>3, <1>4, <1>5, <1>7 DEF l
<1> QED BY <1>6, <1>7

\* From the distance that was written for a gate, Pulse_w_calculate finds the
\* pulses due to its level: neither the carries nor the sixteen bits show.
LEMMA CountIsDue ==
  ASSUME NEW i \in Recs, NEW l \in Codes, l < Target[i],
         NEW c \in {0, 1}, NEW d \in {0, 1}
  PROVE  /\ PulseCount(Target[i], Sub(Target[i], l), c, d) = PulsesDue(i, l)
         /\ PulsesDue(i, l) \in Word
<1> DEFINE t     == Target[i]
           above == IF l < OneNA THEN 0 ELSE l - OneNA
           whole == IF l < OneNA THEN t - l ELSE t - OneNA
<1>1. t \in CodeRange /\ l \in CodeRange /\ OneNA \in CodeRange
  BY TargetAssumption, LevelAssumption, OneNAAssumption
<1>2. Sub(t, l) = t - l /\ Sub(t, t - l) = l /\ l < t
  <2> HIDE DEF t
  <2> QED BY <1>1 DEF Sub, CodeRange, t
<1>3. AtLeastOneNA(l) = IF l < OneNA THEN OneNA ELSE l
  BY <1>1, BelowIsLess DEF AtLeastOneNA
<1>4. Sub(AtLeastOneNA(l), OneNA) = above
  BY <1>1, <1>3 DEF Sub, CodeRange
<1>5. above \in CodeRange /\ whole \in CodeRange /\ above <= whole /\ whole <= t
      /\ Add(above, t - l) = whole
  <2> HIDE DEF t
  <2> QED BY <1>1, <1>2 DEF CodeRange, Add
<1> DEFINE p == above \div 64
           q == whole \div 64
<1>6. /\ PulseIndex(above, c) = p /\ PulseIndex(whole, d) = q
      /\ p \in TableIndices /\ q \in TableIndices /\ 64 * q <= whole
  <2> HIDE DEF above, whole
  <2> QED BY <1>5, IndexOfCode
<1>7. PulseCount(t, Sub(t, l), c, d) = Sub(Table[q], Table[p])
  <2> HIDE DEF above, whole, t, p, q
  <2> QED BY <1>2, <1>4, <1>5, <1>6 DEF PulseCount
<1>8. p <= q /\ 64 * q <= t
  <2>1. above \in Nat /\ whole \in Nat /\ t \in Nat
    BY <1>1, <1>5 DEF CodeRange
  <2> HIDE DEF above, whole, t
  <2>2. p <= q /\ q \in Nat
    BY <1>5, <2>1, DivMonotone
  <2> HIDE DEF p, q
  <2> QED BY <1>5, <1>6, <2>1, <2>2
<1>9. Table[p] \in Word /\ Table[q] \in Word /\ Table[p] <= Table[q]
  <2> HIDE DEF p, q
  <2> QED BY <1>6, <1>8, TableAssumption, GrowthAssumption
<1>10. Sub(Table[q], Table[p]) = Table[q] - Table[p] /\ Table[q] - Table[p] \in Word
  <2> HIDE DEF p, q
  <2> QED BY <1>9 DEF Sub, Word
<1>11. PulsesDue(i, l) = Table[q] - Table[p]
  <2>1. 0 \div 64 = 0
    OBVIOUS
  <2> QED BY <2>1 DEF PulsesDue
<1> QED BY <1>7, <1>10, <1>11

\* What the calculation leaves: every record that is still live is armed, and
\* its count is the one due to its level; so is that of one it ends.
LEMMA CalculateWrites ==
  ASSUME FrameInv, CountInv, Calculate
  PROVE  /\ level' = level
         /\ Armed = {i \in Recs : Live(i)} /\ Armed' = {i \in Recs : Live(i)}'
         /\ Armed' = Armed \ {i \in Recs : status'[i] = 0}
         /\ status' \in [Recs -> Word]
         /\ \A i \in Recs : ~Live(i) => status'[i] = 0
         /\ \A i \in Recs : Live(i) => status'[i] = PulsesDue(i, level[Cell[i]])
<1>1. level' = level /\ Call("inject") /\ routine = "calculate" /\ at = "enter"
  BY CalmStep DEF Calculate
<1>2. PICK c \in [Recs -> {0, 1}], d \in [Recs -> {0, 1}] :
        status' = [i \in Recs |-> IF Live(i) THEN PulseCount(Target[i], diff[i], c[i], d[i])
                                             ELSE 0]
  BY DEF Calculate
<1>3. \A i \in Recs : ~Live(i) => status'[i] = 0
  BY <1>2
<1>4. /\ Armed = {i \in Recs : Live(i)} /\ Armed' = {i \in Recs : Live(i)}'
      /\ Armed' = Armed \ {i \in Recs : status'[i] = 0}
  <2>1. \A i \in Recs : status[i] = 0 => status'[i] = 0
    BY <1>3 DEF Live
  <2> QED BY <1>1, <2>1, CalculateArmed
<1>5. ASSUME NEW i \in Recs, Live(i)
      PROVE  status'[i] = PulsesDue(i, level[Cell[i]]) /\ status'[i] \in Word
  <2>1. level[Cell[i]] < Target[i] - Margin /\ diff[i] = Sub(Target[i], level[Cell[i]])
    BY <1>1, <1>4, <1>5 DEF CountInv, DistanceInv
  <2>2. level[Cell[i]] \in Codes /\ level[Cell[i]] < Target[i]
    BY <2>1, LevelOfRecord, GoalIsBelowTarget
  <2>3. status'[i] = PulseCount(Target[i], Sub(Target[i], level[Cell[i]]), c[i], d[i])
    BY <1>2, <1>5, <2>1
  <2>4. c[i] \in {0, 1} /\ d[i] \in {0, 1}
    BY <1>2
  <2> QED BY <2>2, <2>3, <2>4, CountIsDue
<1>6. status' \in [Recs -> Word]
  <2>1. 0 \in Word
    BY SMT DEF Word
  <2>2. \A i \in Recs : status'[i] \in Word
    BY <1>3, <1>5, <2>1
  <2> QED BY <1>2, <2>2
<1> QED BY <1>1, <1>3, <1>4, <1>5, <1>6

-----------------------------------------------------------------------------
(* measured_coarse_program: the frame and the counts.  CountInv is needed  *)
(* for the frame: that a count is a word depends on the distance.          *)

LEMMA UnsetWord == Unset \in Word /\ Unset # 0 /\ 0 \in Word
BY SMT DEF Unset, Word

\* The steps of the program that are not its own.
LEMMA OtherSteps ==
  ASSUME [Next]_vars, ~Judge, ~Calculate
  PROVE  CoarseStep \/ (\E w \in Word : LastPulse(w)) \/ UNCHANGED vars
BY UnsetWord DEF Next, EndOfBurst, Stopped

LEMMA StepFrame ==
  ASSUME FrameInv, CountInv, [Next]_vars
  PROVE  FrameInv'
<1>0. status \in [Recs -> Word] /\ diff \in [Recs -> Word] /\ 0 \in Word
  BY SMT DEF FrameInv, TypeOK, Word
<1>1. CASE Judge
  <2>1. Sub(Target[idx], level[Cell[idx]]) \in Word
    BY <1>1, JudgeWrites, LevelOfRecord, GoalIsBelowTarget, SubWord
  <2>2. status' \in [Recs -> Word] /\ diff' \in [Recs -> Word]
    BY <1>0, <1>1, <2>1, JudgeWrites
  <2> QED BY <1>1, <2>2, JudgeFrame DEF Judge
<1>2. CASE Calculate
  <2>1. status' \in [Recs -> Word] /\ diff' \in [Recs -> Word]
    BY <1>0, <1>2, CalculateWrites DEF Calculate
  <2> QED BY <1>2, <2>1, CalculateFrame DEF Calculate
<1>3. CASE ~Judge /\ ~Calculate
  BY <1>3, OtherSteps, CoarseStepFrame, LastPulseFrame, StutterFrame
<1> QED BY <1>1, <1>2, <1>3

LEMMA CountInit ==
  ASSUME Init
  PROVE  CountInv
<1>1. \A i \in Recs : Live(i)
  BY UnsetWord DEF Init, Live
<1> QED BY <1>1 DEF Init, CountInv, DistanceInv, CountFitsLevel, OpenOrThere, Armed

\* The counts and the distances.
LEMMA WaitingStep ==
  ASSUME FrameInv, CountInv, [Next]_vars
  PROVE  DistanceInv' /\ CountFitsLevel'
<1>1. CASE Judge
  <2>1. routine' = "verify"
    BY <1>1 DEF Judge
  <2>2. SUFFICES ASSUME NEW i \in Armed'
                 PROVE  /\ level'[Cell[i]] < Target[i] - Margin
                        /\ diff'[i] = Sub(Target[i], level'[Cell[i]])
    BY <2>1 DEF DistanceInv, CountFitsLevel
  <2>3. status \in [Recs -> Word] /\ diff \in [Recs -> Word] /\ i \in Recs /\ idx \in Recs
    BY DEF FrameInv, TypeOK, Armed
  <2>4. level' = level /\ routine = "verify" /\ at = "test" /\ Live(idx) /\ NextRecord
    BY <1>1, JudgeWrites DEF Judge
  <2>5. CASE status' = [status EXCEPT ![idx] = 0] /\ diff' = diff
    <3>1. i \in Armed
      BY <2>1, <2>4, <2>5, UnsetWord, JudgeArmed
    <3> QED BY <2>4, <2>5, <3>1 DEF CountInv, DistanceInv
  <2>6. CASE /\ level[Cell[idx]] < Target[idx] - Margin /\ status' = status
             /\ diff' = [diff EXCEPT ![idx] = Sub(Target[idx], level[Cell[idx]])]
    <3>1. status' = [status EXCEPT ![idx] = status[idx]] /\ status[idx] \in Word
      BY <2>3, <2>6
    <3>2. i \in Armed \/ i = idx
      BY <2>1, <2>4, <3>1, JudgeArmed
    <3> QED BY <2>3, <2>4, <2>6, <3>2 DEF CountInv, DistanceInv
  <2> QED BY <1>1, <2>5, <2>6, JudgeWrites
<1>2. CASE Calculate
  <2>1. routine' = "inject" /\ level' = level
    BY <1>2, CalculateWrites DEF Calculate, Call
  <2>2. \A i \in Armed' : status'[i] = PulsesDue(i, level[Cell[i]])
    BY <1>2, CalculateWrites
  <2> QED BY <2>1, <2>2 DEF DistanceInv, CountFitsLevel
<1>3. CASE ~Judge /\ ~Calculate
  <2>1. ASSUME NEW i \in Armed', routine' \in {"verify", "calculate"}
        PROVE  /\ level'[Cell[i]] < Target[i] - Margin
               /\ diff'[i] = Sub(Target[i], level'[Cell[i]])
    <3>1. at' # "pulse"
      BY <2>1, StepFrame DEF FrameInv, PlaceInv, Measures, Blocks
    <3> QED BY <1>3, <2>1, <3>1, OtherSteps, WaitingKept DEF CountInv, DistanceInv
  <2>2. ASSUME NEW i \in Armed', routine' = "inject", ~(at' = "pulse" /\ i = idx')
        PROVE  status'[i] = PulsesDue(i, level'[Cell[i]])
    BY <1>3, <2>2, OtherSteps, WaitingKept DEF CountInv, CountFitsLevel
  <2> QED BY <2>1, <2>2 DEF DistanceInv, CountFitsLevel
<1> QED BY <1>1, <1>2, <1>3

\* Only a judgement near the target and a count of zero end a record, and then
\* its gate moves no more.
LEMMA OpenStep ==
  ASSUME FrameInv, CountInv, [Next]_vars
  PROVE  OpenOrThere'
<1> SUFFICES ASSUME NEW i \in Recs
             PROVE  \/ Live(i)' \/ level'[Cell[i]] >= Target[i] - Margin
                    \/ PulsesDue(i, level'[Cell[i]]) = 0
  BY DEF OpenOrThere
<1>1. \/ Live(i) \/ level[Cell[i]] >= Target[i] - Margin
      \/ PulsesDue(i, level[Cell[i]]) = 0
  BY DEF CountInv, OpenOrThere
<1>2. status \in [Recs -> Word]
  BY DEF FrameInv, TypeOK
<1>3. CASE Judge
  BY <1>1, <1>2, <1>3, JudgeWrites DEF Live
<1>4. CASE Calculate
  BY <1>1, <1>4, CalculateWrites DEF Live
<1>5. CASE ~Judge /\ ~Calculate /\ ~EndOfBurst
  <2>1. status' = status /\ (Physics \/ UNCHANGED vars)
    BY <1>5, CoarseStepStage
       DEF Next, Stopped, CoarseStep, SharedStep, SelectRow, SelectCol, SkipOver,
           EnterMeasure, LogReading, LeaveFirst, LeaveRound, LeaveLast, EnterInject, Raise,
           Lower, Rest, LeaveVerifyC, LeaveVerify, Pull, NextPulse, vars
  <2> QED BY <1>1, <2>1, OverKept DEF Live
<1>6. CASE EndOfBurst
  <2>1. status' = [status EXCEPT ![idx] = Unset] /\ Physics
    BY <1>6 DEF EndOfBurst, LastPulse
  <2> QED BY <1>1, <1>2, <2>1, UnsetWord, OverKept DEF Live
<1> QED BY <1>3, <1>4, <1>5, <1>6

LEMMA CoarseInvariant == Spec => [](FrameInv /\ CountInv)
<1>1. Init => FrameInv /\ CountInv
  BY InitFrame, CountInit
<1>2. FrameInv /\ CountInv /\ [Next]_vars => (FrameInv /\ CountInv)'
  BY StepFrame, WaitingStep, OpenStep DEF CountInv
<1> QED BY <1>1, <1>2, PTL DEF Spec

\* measured_coarse_program always is where, and its voltages and selection are
\* what, FrameInv says.
THEOREM MeasuredFrameAlways == Spec => []FrameInv
BY CoarseInvariant, PTL

\* Every count coarse_inject still has to carry out is the one the table gives
\* for the level the gate has at that moment, in every round.
THEOREM CountsAlwaysFit == Spec => []CountFitsLevel
<1>1. CountInv => CountFitsLevel
  BY DEF CountInv
<1> QED BY <1>1, CoarseInvariant, PTL

\* A record ends with its gate within Margin of the target, or less than one
\* pulse of the table away from it.
THEOREM EndsThereOrNear == Spec => []OpenOrThere
<1>1. CountInv => OpenOrThere
  BY DEF CountInv
<1> QED BY <1>1, CoarseInvariant, PTL

-----------------------------------------------------------------------------
(* measured_coarse_program: the rules of the array and the log. *)

LEMMA StepRules ==
  ASSUME FrameInv, CountInv, [Next]_vars
  PROVE  /\ Physics \/ UNCHANGED vars
         /\ SelectRow \/ SelectCol \/ UNCHANGED select
         /\ \A i \in Recs : status[i] = 0 => status'[i] = 0
         /\ LogInv => LogInv'
<1>1. CASE Judge
  <2>1. status \in [Recs -> Word] /\ \A i \in Recs : status[i] = 0 => status'[i] = 0
    BY <1>1, JudgeWrites DEF FrameInv, TypeOK
  <2> QED BY <1>1, <2>1, LogQuiet DEF Judge, select
<1>2. CASE Calculate
  BY <1>2, CalculateWrites, LogQuiet DEF Calculate, Call, select, Live
<1>3. CASE ~Judge /\ ~Calculate
  BY <1>3, OtherSteps, CoarseStepRules
<1> QED BY <1>1, <1>2, <1>3

\* What every program built on the frame must do holds of measured_coarse_program:
\* measuring only at rest, a log as long as LogBudget, no selection under a pulled
\* drain, no gate outside the list touched, and no record opened again.
THEOREM MeasuredKeepsRules ==
  Spec => /\ []MeasuredAtRest /\ []LogFits
          /\ SelectionInterlock /\ UnlistedUntouched /\ OverIsFinal
<1>1. Init => LogInv
  BY LogInit
<1>2. FrameInv /\ CountInv /\ LogInv /\ [Next]_vars => LogInv'
  BY StepRules
<1>3. FrameInv => MeasuredAtRest
  BY RestHolds
<1>4. FrameInv /\ LogInv => LogFits
  BY LogBounded
<1>5. ASSUME FrameInv, CountInv, FrameInv', [Next]_vars
      PROVE  /\ row' # row \/ col' # col => ~Pulled /\ ~Pulled'
             /\ \A c \in Cells \ Listed : level'[c] = level[c]
             /\ \A i \in Recs : status[i] = 0 =>
                  status'[i] = 0 /\ level'[Cell[i]] = level[Cell[i]]
  BY <1>5, StepRules, RulesHold
<1>6. FrameInv /\ CountInv /\ FrameInv' /\ [Next]_vars =>
        /\ [row' # row \/ col' # col => ~Pulled /\ ~Pulled']_vars
        /\ [\A c \in Cells \ Listed : level'[c] = level[c]]_vars
        /\ [\A i \in Recs : status[i] = 0 =>
              status'[i] = 0 /\ level'[Cell[i]] = level[Cell[i]]]_vars
  BY <1>5
<1> QED BY <1>1, <1>2, <1>3, <1>4, <1>6, CoarseInvariant, PTL
        DEF Spec, SelectionInterlock, UnlistedUntouched, OverIsFinal

-----------------------------------------------------------------------------
(* measured_coarse_program implements the abstract stage. *)

LEMMA StageInit ==
  ASSUME Init
  PROVE  Stage!Init
BY DEF Init, Stage!Init, Live, Unset, Armed

\* A judgement ends a live record at its goal or arms it below.
LEMMA JudgeStage ==
  ASSUME FrameInv, Judge
  PROVE  \E i \in Recs : Stage!Over(i) \/ Stage!Arm(i)
<1>0. /\ status \in [Recs -> Word] /\ idx \in Recs /\ level' = level /\ Live(idx)
      /\ 0 \in Word /\ status[idx] \in Word /\ status[idx] # 0
  BY JudgeWrites, SMT DEF FrameInv, TypeOK, Live, Word
<1>1. CASE level[Cell[idx]] >= Target[idx] - Margin /\ status' = [status EXCEPT ![idx] = 0]
  <2>1. /\ idx \notin Armed /\ Armed' = Armed
        /\ {i \in Recs : Live(i)}' = {i \in Recs : Live(i)} \ {idx}
    BY <1>0, <1>1, JudgeArmed DEF Judge
  <2> QED BY <1>0, <1>1, <2>1 DEF Stage!Over
<1>2. CASE level[Cell[idx]] < Target[idx] - Margin /\ status' = status
  <2>1. status' = [status EXCEPT ![idx] = status[idx]]
    BY <1>0, <1>2
  <2>2. /\ idx \notin Armed /\ Armed' = Armed \cup {idx}
        /\ {i \in Recs : Live(i)}' = {i \in Recs : Live(i)}
    BY <1>0, <2>1, JudgeArmed DEF Judge
  <2> QED BY <1>0, <1>2, <2>2 DEF Stage!Arm
<1> QED BY <1>1, <1>2, JudgeWrites

\* Every step is a step of the abstract stage or leaves its view unchanged.
LEMMA StageStep ==
  ASSUME FrameInv, CountInv, [Next]_vars
  PROVE  [Stage!Next]_(Stage!stageVars)
<1>1. CASE CoarseStep
  <2>1. status' = status /\ Armed' = Armed
    BY <1>1, CoarseStepStage
  <2>2. CASE level' = level
    BY <2>1, <2>2 DEF Stage!stageVars, Live
  <2>3. CASE idx \in Recs /\ idx \in Armed /\ Physics
    <3>1. Stage!Rises(idx)
      BY <2>3, ServedRises DEF Stage!Rises
    <3> QED BY <2>1, <2>3, <3>1 DEF Stage!Next, Stage!Pulse, Live
  <2> QED BY <1>1, <2>2, <2>3, CoarseStepStage
<1>2. CASE Judge
  BY <1>2, JudgeStage DEF Stage!Next
<1>3. CASE Calculate
  <2> DEFINE S == {i \in Recs : status'[i] = 0}
  <2>1. /\ level' = level /\ Armed = {i \in Recs : Live(i)} /\ Armed' = {i \in Recs : Live(i)}'
        /\ Armed' = Armed \ S
    BY <1>3, CalculateWrites
  <2>2. {i \in Recs : Live(i)}' = {i \in Recs : Live(i)} \ S
    BY <2>1
  <2>3. Stage!GiveUp(S) /\ S \in SUBSET Recs
    BY <2>1, <2>2 DEF Stage!GiveUp
  <2> QED BY <2>3 DEF Stage!Next
<1>4. CASE EndOfBurst
  <2>1. /\ idx \in Recs /\ idx \in Armed /\ Armed' = Armed \ {idx} /\ Physics
        /\ {i \in Recs : Live(i)}' = {i \in Recs : Live(i)}
    BY <1>4, UnsetWord, LastPulseStage DEF EndOfBurst
  <2>2. Stage!Rises(idx)
    BY <2>1, ServedRises DEF Stage!Rises
  <2> QED BY <2>1, <2>2 DEF Stage!Next, Stage!EndBurst
<1>5. CASE UNCHANGED vars
  BY <1>5 DEF vars, Stage!stageVars, Live, Armed
<1> QED BY <1>1, <1>2, <1>3, <1>4, <1>5 DEF Next, Stopped

\* measured_coarse_program implements the stage: a gate rises only in the one
\* burst that the latest reading of it, short of its goal, has called for.
THEOREM MeasuredImplementsStage == Spec => ImplementsStage
<1>1. Init => Stage!Init
  BY StageInit
<1>2. FrameInv /\ CountInv /\ [Next]_vars => [Stage!Next]_(Stage!stageVars)
  BY StageStep
<1> QED BY <1>1, <1>2, CoarseInvariant, PTL DEF Spec, ImplementsStage, Stage!Spec

-----------------------------------------------------------------------------
(* first_coarse_program: what the instance shares with the module.         *)

LEMMA FirstViews ==
  /\ First!vars = vars /\ (UNCHANGED First!vars <=> UNCHANGED vars)
  /\ First!Armed = Armed /\ (First!Armed)' = Armed'
  /\ First!FrameInv <=> FrameInv
  /\ (First!FrameInv)' <=> FrameInv'
BY DEF First!vars, vars, First!Armed, Armed, First!FrameInv, FrameInv, First!TypeOK, TypeOK,
       First!PlaceInv, PlaceInv, First!VoltageInv, VoltageInv, First!SelectedInv, SelectedInv,
       First!Word, Word, First!Cells, Cells, First!Recs, Recs, First!Measures, Measures,
       First!Blocks, Blocks, First!Live, Live

LEMMA FirstInit ==
  ASSUME First!Init
  PROVE  Init
BY DEF First!Init, Init, First!Recs, Recs, First!Unset, Unset

LEMMA FirstPhysics == First!Physics => Physics
BY DEF First!Physics, Physics, First!Pulled, Pulled

LEMMA FirstSharedStep ==
  ASSUME First!SharedStep
  PROVE  SharedStep
BY FirstPhysics
   DEF SharedStep, First!SharedStep, SelectRow, First!SelectRow, SelectCol, First!SelectCol,
       SkipOver, First!SkipOver, EnterMeasure, First!EnterMeasure, LogReading,
       First!LogReading, LeaveFirst, First!LeaveFirst, LeaveRound, First!LeaveRound,
       LeaveLast, First!LeaveLast, EnterInject, First!EnterInject, Raise, First!Raise,
       Lower, First!Lower, Rest, First!Rest, CloseRound, First!CloseRound, EndMeasure,
       First!EndMeasure, Call, First!Call, NextRecord, First!NextRecord, Live, First!Live,
       volts, First!volts, list, First!list, select, First!select, Blocks, First!Blocks,
       Measures, First!Measures

LEMMA FirstCoarseStep ==
  ASSUME First!CoarseStep
  PROVE  CoarseStep
BY FirstSharedStep, FirstPhysics
   DEF First!CoarseStep, CoarseStep, First!LeaveVerifyC, LeaveVerifyC, First!LeaveVerify,
       LeaveVerify, First!EndMeasure, EndMeasure, First!Call, Call, First!Pull, Pull,
       First!NextPulse, NextPulse, First!Sub, Sub, First!volts, volts, First!list, list,
       First!select, select

LEMMA FirstEndOfBurst ==
  ASSUME First!EndOfBurst
  PROVE  LastPulse(0)
BY FirstPhysics
   DEF First!EndOfBurst, First!LastPulse, LastPulse, First!NextRecord, NextRecord,
       First!select, select

-----------------------------------------------------------------------------
(* first_coarse_program: the judgement and the calculation. *)

\* What the judgement does, read with the module's names.
LEMMA FirstJudge ==
  ASSUME FrameInv, First!Judge
  PROVE  /\ routine = "verify" /\ at = "test" /\ Live(idx) /\ drain' = "fg_inn"
         /\ NextRecord /\ Physics
         /\ UNCHANGED <<select, ivdd, tun, routine, rounds, pulses, logged>>
         /\ LET reading == level[<<row, col>>]
            IN  IF ~Below(reading, Target[idx])
                THEN status' = [status EXCEPT ![idx] = 0] /\ UNCHANGED diff
                ELSE /\ diff' = [diff EXCEPT ![idx] =
                                   Sub(Target[idx],
                                       IF ~Below(reading, OneNA) THEN reading ELSE OneNA)]
                     /\ UNCHANGED status
BY FirstPhysics
   DEF First!Judge, First!AtGoal, First!AtLeastOneNA, First!Below, Below, First!Negative,
       Negative, First!Sub, Sub, First!Live, Live, First!NextRecord, NextRecord,
       First!select, select

\* A judgement ends the record at its target, or writes the distance to it from
\* its gate or from 1 nA.
LEMMA FirstJudgeWrites ==
  ASSUME FrameInv, First!Judge
  PROVE  /\ Live(idx) /\ idx \in Recs /\ level' = level
         /\ \/ /\ level[Cell[idx]] >= Target[idx]
               /\ status' = [status EXCEPT ![idx] = 0] /\ diff' = diff
            \/ /\ level[Cell[idx]] < Target[idx]
               /\ status' = status
               /\ diff' = [diff EXCEPT ![idx] = Sub(Target[idx], First!Start(level[Cell[idx]]))]
<1> DEFINE l == level[Cell[idx]]
<1>1. /\ Live(idx) /\ idx \in Recs /\ level' = level /\ level[<<row, col>>] = l
  BY FirstJudge, CalmStep DEF FrameInv, TypeOK, SelectedInv
<1>2. l \in CodeRange /\ l \in Nat /\ Target[idx] \in CodeRange /\ Target[idx] \in Nat
  BY <1>1, LevelOfRecord, LevelAssumption, TargetAssumption DEF CodeRange
<1>3. Below(l, Target[idx]) <=> l < Target[idx]
  BY <1>2, BelowIsLess
<1>4. (IF ~Below(l, OneNA) THEN l ELSE OneNA) = First!Start(l)
  BY <1>2, OneNAAssumption, BelowIsLess DEF First!Start
<1>5. IF ~Below(l, Target[idx])
      THEN status' = [status EXCEPT ![idx] = 0] /\ UNCHANGED diff
      ELSE /\ diff' = [diff EXCEPT ![idx] =
                         Sub(Target[idx], IF ~Below(l, OneNA) THEN l ELSE OneNA)]
           /\ UNCHANGED status
  BY <1>1, FirstJudge
<1> HIDE DEF l
<1>6. CASE l < Target[idx]
  BY <1>1, <1>3, <1>4, <1>5, <1>6 DEF l
<1>7. CASE ~(l < Target[idx])
  <2>1. l >= Target[idx]
    BY <1>2, <1>7
  <2> QED BY <1>1, <1>3, <1>5, <1>7, <2>1 DEF l
<1> QED BY <1>6, <1>7

LEMMA FirstCalculate ==
  ASSUME First!Calculate
  PROVE  /\ routine = "calculate" /\ at = "enter" /\ Call("inject") /\ Physics
         /\ UNCHANGED <<select, volts, diff, idx, rounds, pulses, logged>>
         /\ \E carry \in [Recs -> {0, 1}] :
              status' = [i \in Recs |->
                           IF Live(i) THEN Table[PulseIndex(diff[i], carry[i])] ELSE 0]
<1>1. \A w, c : First!PulseIndex(w, c) = PulseIndex(w, c)
  <2>1. \A p : First!Rrc(p) = Rrc(p)
    BY DEF First!Rrc, Rrc
  <2>2. \A w, b : First!ClearAbove(w, b) = ClearAbove(w, b)
    BY DEF First!ClearAbove, ClearAbove
  <2> QED BY <2>1, <2>2 DEF First!PulseIndex, PulseIndex
<1>2. First!Recs = Recs /\ \A i : First!Live(i) <=> Live(i)
  BY DEF First!Recs, Recs, First!Live, Live
<1>3. PICK carry \in [Recs -> {0, 1}] :
        status' = [i \in Recs |->
                     IF Live(i) THEN Table[First!PulseIndex(diff[i], carry[i])] ELSE 0]
  BY <1>2 DEF First!Calculate
<1>4. status' = [i \in Recs |->
                   IF Live(i) THEN Table[PulseIndex(diff[i], carry[i])] ELSE 0]
  BY <1>1, <1>3
<1> QED BY <1>4, FirstPhysics
        DEF First!Calculate, First!Call, Call, First!select, select, First!volts, volts

\* The count found from the distance that was written for a gate: for a target
\* from 1 nA on the one due to its level ...
LEMMA FirstCountIsDue ==
  ASSUME NEW i \in Recs, NEW l \in Codes, l < Target[i], Target[i] >= OneNA,
         NEW c \in {0, 1}
  PROVE  /\ Table[PulseIndex(Sub(Target[i], First!Start(l)), c)] = First!DistanceDue(i, l)
         /\ First!DistanceDue(i, l) \in Word
<1> DEFINE t == Target[i]
           s == First!Start(l)
<1>1. /\ t \in CodeRange /\ l \in CodeRange /\ OneNA \in CodeRange /\ l < t /\ t >= OneNA
  BY TargetAssumption, LevelAssumption, OneNAAssumption
<1>2. s = IF l < OneNA THEN OneNA ELSE l
  BY DEF First!Start
<1>3. Sub(t, s) = t - s /\ t - s \in CodeRange
  <2>1. t \in Nat /\ t < 16384 /\ s \in Nat /\ s <= t
    <3> HIDE DEF t, s
    <3> QED BY <1>1, <1>2 DEF CodeRange
  <2> HIDE DEF t, s
  <2> QED BY <2>1 DEF Sub, CodeRange
<1>4. PulseIndex(t - s, c) = (t - s) \div 64 /\ (t - s) \div 64 \in TableIndices
  <2> HIDE DEF t, s
  <2> QED BY <1>3, IndexOfCode
<1>5. First!DistanceDue(i, l) = Table[(t - s) \div 64]
  BY DEF First!DistanceDue
<1> HIDE DEF t, s
<1>6. Table[PulseIndex(Sub(t, s), c)] = First!DistanceDue(i, l) /\ First!DistanceDue(i, l) \in Word
  BY <1>3, <1>4, <1>5, TableAssumption
<1> QED BY <1>6 DEF t, s

\* ... and for one below 1 nA a word of the far end of the table: the distance,
\* negative from 1 nA, wraps around.
LEMMA FirstCountWraps ==
  ASSUME NEW i \in Recs, NEW l \in Codes, l < Target[i], Target[i] < OneNA,
         NEW c \in {0, 1}
  PROVE  LET far == 255 - ((OneNA - Target[i] - 1) \div 64)
         IN  /\ PulseIndex(Sub(Target[i], First!Start(l)), c) = far
             /\ far \in TableIndices
<1> DEFINE t == Target[i]
           k == OneNA - t
<1>1. /\ t \in CodeRange /\ l \in CodeRange /\ OneNA \in CodeRange /\ l < t /\ t < OneNA
  BY TargetAssumption, LevelAssumption, OneNAAssumption
<1>2. First!Start(l) = OneNA
  BY <1>1 DEF First!Start, CodeRange
<1>3. k \in Nat /\ 1 <= k /\ k < 16384 /\ t - OneNA = -k
  <2> HIDE DEF t
  <2> QED BY <1>1 DEF CodeRange
<1> DEFINE w == 65536 - k
           f == (k - 1) \div 64
<1>4. Sub(t, OneNA) = w /\ w \in Word
  <2> HIDE DEF k, t
  <2> QED BY <1>3 DEF Sub, Word
<1>5. f \in Nat /\ f <= 255 /\ (w \div 64) % 256 = 255 - f
  <2> HIDE DEF k
  <2>1. f \in Nat /\ f <= 255 /\ 64 * f <= k - 1 /\ k - 1 < 64 * f + 64
    BY <1>3
  <2> HIDE DEF f
  <2>2. w \div 64 = 1023 - f
    BY <1>3, <2>1
  <2>3. (1023 - f) % 256 = 255 - f
    BY <2>1
  <2> QED BY <2>1, <2>2, <2>3
<1>6. PulseIndex(w, c) = (w \div 64) % 256
  <2> HIDE DEF w
  <2> QED BY <1>4, PulseIndexIsBits13To6 DEF PulseIndexRef, Bit
<1>7. 255 - f \in TableIndices
  <2> HIDE DEF f
  <2> QED BY <1>5 DEF TableIndices, TableSize
<1> QED BY <1>2, <1>4, <1>5, <1>6, <1>7

-----------------------------------------------------------------------------
(* first_coarse_program: the frame and the counts. *)

LEMMA FirstNames ==
  /\ First!Recs = Recs
  /\ \A i : (First!Live(i) <=> Live(i)) /\ ((First!Live(i))' <=> Live(i)')
  /\ \A a, b : First!Sub(a, b) = Sub(a, b)
  /\ \A l \in Codes : First!AtLeastOneNA(l) = First!Start(l)
<1>1. /\ First!Recs = Recs
      /\ \A i : (First!Live(i) <=> Live(i)) /\ ((First!Live(i))' <=> Live(i)')
      /\ \A a, b : First!Sub(a, b) = Sub(a, b)
  BY DEF First!Recs, Recs, First!Live, Live, First!Sub, Sub
<1>2. ASSUME NEW l \in Codes
      PROVE  First!AtLeastOneNA(l) = First!Start(l)
  <2>1. First!Below(l, OneNA) <=> Below(l, OneNA)
    BY DEF First!Below, Below, First!Negative, Negative, First!Sub, Sub
  <2>2. Below(l, OneNA) <=> l < OneNA
    BY LevelAssumption, OneNAAssumption, BelowIsLess
  <2> QED BY <2>1, <2>2 DEF First!AtLeastOneNA, First!Start
<1> QED BY <1>1, <1>2

LEMMA FirstSteps ==
  ASSUME [First!Next]_(First!vars)
  PROVE  First!Judge \/ First!Calculate \/ CoarseStep \/ LastPulse(0) \/ UNCHANGED vars
BY FirstViews, FirstCoarseStep, FirstEndOfBurst DEF First!Next, First!Stopped

LEMMA FirstStepFrame ==
  ASSUME FrameInv, [First!Next]_(First!vars)
  PROVE  FrameInv'
<1>0. status \in [Recs -> Word] /\ diff \in [Recs -> Word]
  BY DEF FrameInv, TypeOK
<1>1. CASE First!Judge
  <2>1. level[Cell[idx]] \in Nat /\ idx \in Recs
    BY LevelOfRecord DEF FrameInv, TypeOK
  <2>2. First!Start(level[Cell[idx]]) \in Int /\ Target[idx] \in Int
    BY <2>1, OneNAAssumption, TargetAssumption DEF First!Start, CodeRange
  <2>3. Sub(Target[idx], First!Start(level[Cell[idx]])) \in Word
    BY <2>2, SubWord
  <2>4. status' \in [Recs -> Word] /\ diff' \in [Recs -> Word]
    BY <1>0, <1>1, <2>3, FirstJudgeWrites, UnsetWord
  <2> QED BY <1>1, <2>4, FirstJudge, JudgeFrame
<1>2. CASE First!Calculate
  <2>1. PICK carry \in [Recs -> {0, 1}] :
          status' = [i \in Recs |->
                       IF Live(i) THEN Table[PulseIndex(diff[i], carry[i])] ELSE 0]
    BY <1>2, FirstCalculate
  <2>2. ASSUME NEW i \in Recs
        PROVE  Table[PulseIndex(diff[i], carry[i])] \in Word
    <3>1. diff[i] \in Word /\ carry[i] \in Bit
      BY <1>0 DEF Bit
    <3>2. PulseIndex(diff[i], carry[i]) = (diff[i] \div 64) % 256
      BY <3>1, PulseIndexIsBits13To6 DEF PulseIndexRef
    <3> DEFINE q == diff[i] \div 64
    <3>3. q \in Nat
      BY <3>1 DEF Word
    <3> HIDE DEF q
    <3>4. q % 256 \in TableIndices
      BY <3>3 DEF TableIndices, TableSize
    <3> QED BY <3>2, <3>4, TableAssumption DEF q
  <2>3. status' \in [Recs -> Word] /\ diff' \in [Recs -> Word]
    BY <1>0, <1>2, <2>1, <2>2, UnsetWord, FirstCalculate
  <2> QED BY <1>2, <2>3, FirstCalculate, CalculateFrame
<1> QED BY <1>1, <1>2, UnsetWord, FirstSteps, CoarseStepFrame, LastPulseFrame, StutterFrame

LEMMA FirstCountInit ==
  ASSUME First!Init
  PROVE  First!CountInv
<1>1. Armed = {} /\ routine = "first" /\ at = "enter"
  BY FirstInit DEF Init, Armed
<1> QED BY <1>1, FirstViews
        DEF First!CountInv, First!DistanceInv, First!ClosedInv, First!CountFitsDistance,
            First!BelowOneNA, First!OneBurstEach

\* What the calculation leaves.
LEMMA FirstCalculateWrites ==
  ASSUME FrameInv, First!CountInv, First!Calculate
  PROVE  /\ level' = level /\ routine' = "inject" /\ at' = "enter"
         /\ Armed = {i \in Recs : Live(i)} /\ Armed' = {i \in Recs : Live(i)}'
         /\ Armed' = Armed \ {i \in Recs : status'[i] = 0}
         /\ \A i \in Armed' :
              /\ Target[i] >= OneNA => status'[i] = First!DistanceDue(i, level[Cell[i]])
              /\ Target[i] < OneNA => status'[i] = Table[255 - ((OneNA - Target[i] - 1) \div 64)]
<1>1. level' = level /\ Call("inject") /\ routine = "calculate" /\ at = "enter"
  BY CalmStep, FirstCalculate
<1>2. PICK carry \in [Recs -> {0, 1}] :
        status' = [i \in Recs |->
                     IF Live(i) THEN Table[PulseIndex(diff[i], carry[i])] ELSE 0]
  BY FirstCalculate
<1>3. \A i \in Recs : status[i] = 0 => status'[i] = 0
  BY <1>2 DEF Live
<1>4. /\ Armed = {i \in Recs : Live(i)} /\ Armed' = {i \in Recs : Live(i)}'
      /\ Armed' = Armed \ {i \in Recs : status'[i] = 0}
  BY <1>1, <1>3, CalculateArmed
<1>5. ASSUME NEW i \in Armed'
      PROVE  /\ Target[i] >= OneNA => status'[i] = First!DistanceDue(i, level[Cell[i]])
             /\ Target[i] < OneNA => status'[i] = Table[255 - ((OneNA - Target[i] - 1) \div 64)]
  <2>1. i \in Recs /\ i \in Armed /\ Live(i)
    BY <1>4, <1>5
  <2>2. level[Cell[i]] \in Codes
    BY <2>1, LevelOfRecord
  <2>3. level[Cell[i]] < Target[i] /\ diff[i] = Sub(Target[i], First!Start(level[Cell[i]]))
    BY <1>1, <2>1, <2>2, FirstViews, FirstNames DEF First!CountInv, First!DistanceInv
  <2>4. /\ carry[i] \in {0, 1}
        /\ status'[i] = Table[PulseIndex(Sub(Target[i], First!Start(level[Cell[i]])), carry[i])]
    BY <1>2, <2>1, <2>3
  <2> QED BY <2>1, <2>2, <2>3, <2>4, FirstCountIsDue, FirstCountWraps
<1> QED BY <1>1, <1>4, <1>5 DEF Call

LEMMA FirstWaitingStep ==
  ASSUME FrameInv, First!CountInv, [First!Next]_(First!vars)
  PROVE  First!DistanceInv' /\ First!CountFitsDistance' /\ First!BelowOneNA'
<1> USE FirstViews
<1>0. FrameInv' /\ \A i \in Recs : level'[Cell[i]] \in Codes
  BY FirstStepFrame, RecordsAssumption DEF FrameInv, TypeOK
<1>1. CASE First!Judge
  <2>1. routine' = "verify"
    BY <1>1, FirstJudge DEF FrameInv
  <2>2. SUFFICES ASSUME NEW i \in Armed'
                 PROVE  /\ level'[Cell[i]] < Target[i]
                        /\ diff'[i] = Sub(Target[i], First!Start(level'[Cell[i]]))
    BY <1>0, <2>1, FirstNames
       DEF First!DistanceInv, First!CountFitsDistance, First!BelowOneNA, Armed
  <2>3. status \in [Recs -> Word] /\ diff \in [Recs -> Word] /\ i \in Recs /\ idx \in Recs
    BY DEF FrameInv, TypeOK, Armed
  <2>4. level' = level /\ routine = "verify" /\ at = "test" /\ Live(idx) /\ NextRecord
    BY <1>1, FirstJudge, FirstJudgeWrites
  <2>5. \A j \in Armed : /\ level[Cell[j]] < Target[j]
                         /\ diff[j] = Sub(Target[j], First!Start(level[Cell[j]]))
    BY <2>4, FirstNames, LevelOfRecord DEF First!CountInv, First!DistanceInv, Armed
  <2>6. CASE status' = [status EXCEPT ![idx] = 0] /\ diff' = diff
    <3>1. i \in Armed
      BY <2>1, <2>4, <2>6, UnsetWord, JudgeArmed
    <3> QED BY <2>4, <2>5, <2>6, <3>1
  <2>7. CASE /\ level[Cell[idx]] < Target[idx] /\ status' = status
             /\ diff' = [diff EXCEPT ![idx] = Sub(Target[idx], First!Start(level[Cell[idx]]))]
    <3>1. status' = [status EXCEPT ![idx] = status[idx]] /\ status[idx] \in Word
      BY <2>3, <2>7
    <3>2. i \in Armed \/ i = idx
      BY <2>1, <2>4, <3>1, JudgeArmed
    <3> QED BY <2>3, <2>4, <2>5, <2>7, <3>2
  <2> QED BY <1>1, <2>6, <2>7, FirstJudgeWrites
<1>2. CASE First!Calculate
  <2>1. \A i \in Armed' : i \in Recs /\ (Target[i] >= OneNA \/ Target[i] < OneNA)
    BY TargetAssumption, OneNAAssumption DEF Armed, CodeRange
  <2> QED BY <1>2, <2>1, FirstCalculateWrites
          DEF First!DistanceInv, First!CountFitsDistance, First!BelowOneNA
<1>3. CASE CoarseStep \/ LastPulse(0) \/ UNCHANGED vars
  <2>0. CoarseStep \/ (\E w \in Word : LastPulse(w)) \/ UNCHANGED vars
    BY <1>3, UnsetWord
  <2>1. ASSUME NEW i \in Armed', routine' \in {"verify", "calculate"}
        PROVE  /\ level'[Cell[i]] < Target[i]
               /\ diff'[i] = First!Sub(Target[i], First!AtLeastOneNA(level'[Cell[i]]))
    <3>1. at' # "pulse"
      BY <1>0, <2>1 DEF FrameInv, PlaceInv, Measures, Blocks
    <3> QED BY <2>0, <2>1, <3>1, WaitingKept DEF First!CountInv, First!DistanceInv
  <2>2. ASSUME NEW i \in Armed', routine' = "inject", ~(at' = "pulse" /\ i = idx')
        PROVE  /\ Target[i] < OneNA \/ status'[i] = First!DistanceDue(i, level'[Cell[i]])
               /\ \/ Target[i] >= OneNA
                  \/ status'[i] = Table[255 - ((OneNA - Target[i] - 1) \div 64)]
    BY <2>0, <2>2, WaitingKept
       DEF First!CountInv, First!CountFitsDistance, First!BelowOneNA
  <2> QED BY <2>1, <2>2 DEF First!DistanceInv, First!CountFitsDistance, First!BelowOneNA
<1> QED BY <1>1, <1>2, <1>3, FirstSteps

\* The walk of coarse_inject leaves behind it only records that are over.
LEMMA FirstClosedStep ==
  ASSUME FrameInv, First!CountInv, [First!Next]_(First!vars)
  PROVE  First!ClosedInv'
<1> USE FirstViews, FirstNames
<1>0. /\ routine = "inject" => \A i \in Recs : Live(i) => i \in Armed
      /\ routine \in {"round", "last", "end"} => \A i \in Recs : ~Live(i)
  BY DEF First!CountInv, First!ClosedInv
<1> SUFFICES /\ routine' = "inject" => \A i \in Recs : Live(i)' => i \in Armed'
             /\ routine' \in {"round", "last", "end"} => \A i \in Recs : ~Live(i)'
  BY DEF First!ClosedInv
<1>1. CASE First!Judge
  BY <1>1, FirstJudge
<1>2. CASE First!Calculate
  BY <1>2, FirstCalculateWrites
<1>3. CASE CoarseStep
  <2>1. status' = status /\ Armed' = Armed /\ \A i \in Recs : Live(i)' <=> Live(i)
    BY <1>3, CoarseStepStage DEF Live
  <2>2. CASE LeaveFirst \/ LeaveRound \/ LeaveLast \/ Rest \/ LeaveVerifyC
    <3>1. CASE Rest
      <4>1. Armed = {} /\ routine = "inject" /\ routine' # "inject"
        BY <3>1 DEF Rest, Armed, Call, CloseRound
      <4> QED BY <1>0, <2>1, <4>1
    <3>2. CASE LeaveFirst \/ LeaveRound \/ LeaveLast \/ LeaveVerifyC
      BY <1>0, <2>1, <3>2
         DEF LeaveFirst, LeaveRound, LeaveLast, LeaveVerifyC, LeaveVerify, CloseRound, Call
    <3> QED BY <2>2, <3>1, <3>2
  <2>3. CASE ~(LeaveFirst \/ LeaveRound \/ LeaveLast \/ Rest \/ LeaveVerifyC)
    <3>1. routine' = routine
      BY <1>3, <2>3 DEF CoarseStep, SharedStep, SelectRow, SelectCol, SkipOver, EnterMeasure,
                        LogReading, EnterInject, Raise, Lower, Pull, NextPulse
    <3> QED BY <1>0, <2>1, <3>1
  <2> QED BY <2>2, <2>3
<1>4. CASE LastPulse(0)
  <2>1. /\ routine' = "inject" /\ routine = "inject" /\ Armed' = Armed \ {idx}
        /\ {i \in Recs : Live(i)}' = {i \in Recs : Live(i)} \ {idx}
    BY <1>4, UnsetWord, LastPulseStage DEF LastPulse
  <2> QED BY <1>0, <2>1
<1>5. CASE UNCHANGED vars
  BY <1>0, <1>5 DEF vars, Live, Armed
<1> QED BY <1>1, <1>2, <1>3, <1>4, <1>5, FirstSteps

\* The units a burst still has to give are no more than were ordered, and at
\* least the one that is on.
LEMMA FirstBurstStep ==
  ASSUME FrameInv, First!CountInv, [First!Next]_(First!vars)
  PROVE  (at = "pulse" => 1 <= pulses /\ pulses <= status[idx])'
<1>0. /\ at = "pulse" => 1 <= pulses /\ pulses <= status[idx]
      /\ pulses \in Nat /\ pulses < 65536 /\ status \in [Recs -> Word] /\ idx \in Recs
  BY DEF First!CountInv, First!OneBurstEach, FrameInv, TypeOK, Word
<1> SUFFICES ASSUME at' = "pulse"
             PROVE  1 <= pulses' /\ pulses' <= status'[idx']
  OBVIOUS
<1>1. CASE First!Judge \/ First!Calculate \/ LastPulse(0)
  <2>1. at' \in {"row", "leave", "enter"}
    BY <1>1, FirstJudge, FirstCalculateWrites DEF LastPulse, NextRecord
  <2> QED BY <2>1
<1>2. CASE CoarseStep
  <2>1. CASE Pull
    <3>1. /\ pulses' = pulses /\ status' = status /\ idx' = idx
          /\ pulses = status[idx] /\ status[idx] # 0
      BY <2>1 DEF Pull, list, FrameInv, SelectedInv, Live
    <3> QED BY <1>0, <3>1
  <2>2. CASE NextPulse
    <3>1. /\ pulses' = Sub(pulses, 1) /\ status' = status /\ idx' = idx
          /\ at = "pulse" /\ pulses # 1
      BY <2>2 DEF NextPulse, list
    <3>2. Sub(pulses, 1) = pulses - 1
      BY <1>0, <3>1 DEF Sub
    <3>3. status[idx] \in Nat
      BY <1>0 DEF Word
    <3> QED BY <1>0, <3>1, <3>2, <3>3
  <2>3. CASE SharedStep \/ LeaveVerifyC
    <3>1. at' # "pulse"
      BY <2>3 DEF SharedStep, SelectRow, SelectCol, SkipOver, EnterMeasure, LogReading,
                  LeaveFirst, LeaveRound, LeaveLast, EnterInject, Raise, Lower, Rest,
                  CloseRound, Call, NextRecord, LeaveVerifyC, LeaveVerify
    <3> QED BY <3>1
  <2> QED BY <1>2, <2>1, <2>2, <2>3 DEF CoarseStep
<1>3. CASE UNCHANGED vars
  BY <1>0, <1>3 DEF vars
<1> QED BY <1>1, <1>2, <1>3, FirstSteps

LEMMA FirstInvariant == First!Spec => [](FrameInv /\ First!CountInv)
<1>1. First!Init => FrameInv /\ First!CountInv
  BY FirstInit, InitFrame, FirstCountInit
<1>2. ASSUME FrameInv, First!CountInv, [First!Next]_(First!vars)
      PROVE  FrameInv' /\ First!CountInv'
  <2>1. First!OneBurstEach'
    <3>1. First!ClosedInv' /\ (at = "pulse" => 1 <= pulses /\ pulses <= status[idx])'
      BY <1>2, FirstClosedStep, FirstBurstStep
    <3> QED BY <3>1 DEF First!OneBurstEach, First!ClosedInv
  <2> QED BY <1>2, <2>1, FirstStepFrame, FirstWaitingStep, FirstClosedStep DEF First!CountInv
<1>3. FrameInv /\ First!CountInv /\ [First!Next]_(First!vars) => (FrameInv /\ First!CountInv)'
  BY <1>2
<1> QED BY <1>1, <1>3, PTL DEF First!Spec

\* The promises are formulas of CoarseStage, which module and instance share.
LEMMA FirstPromises ==
  /\ First!CountFitsDistance <=> CountFitsDistance
  /\ First!BelowOneNA <=> BelowOneNA
  /\ First!OneBurstEach <=> OneBurstEach
<1>1. First!Armed = Armed
  BY FirstViews
<1>2. First!CountFitsDistance <=> CountFitsDistance
  BY <1>1 DEF First!CountFitsDistance, CountFitsDistance, First!DistanceDue, DistanceDue,
              First!Start, Start
<1>3. First!BelowOneNA <=> BelowOneNA
  BY <1>1 DEF First!BelowOneNA, BelowOneNA
<1>4. First!OneBurstEach <=> OneBurstEach
  BY DEF First!OneBurstEach, OneBurstEach, First!Recs, Recs, First!Live, Live
<1> QED BY <1>2, <1>3, <1>4

\* first_coarse_program always is where, and its voltages and selection are
\* what, FrameInv says.
THEOREM FirstFrameAlways == First!Spec => []FrameInv
BY FirstInvariant, PTL

\* For a target from 1 nA on, every count the burst loop takes is the table's
\* for the distance between the target and where the gate is then.
THEOREM FirstCountsAlwaysFit == First!Spec => []CountFitsDistance
<1>1. First!CountInv => CountFitsDistance
  BY FirstPromises DEF First!CountInv
<1> QED BY <1>1, FirstInvariant, PTL

\* For a target below 1 nA the count is a word of the far end of the table and
\* has nothing to do with the level.
THEOREM FirstCountsBelowOneNA == First!Spec => []BelowOneNA
<1>1. First!CountInv => BelowOneNA
  BY FirstPromises DEF First!CountInv
<1> QED BY <1>1, FirstInvariant, PTL

\* No burst is longer than its count, and the walk that follows the one reading
\* closes every record: there is no second burst.
THEOREM FirstOneBurstEach == First!Spec => []OneBurstEach
<1>1. First!CountInv => OneBurstEach
  BY FirstPromises DEF First!CountInv
<1> QED BY <1>1, FirstInvariant, PTL

-----------------------------------------------------------------------------
(* first_coarse_program: the rules of the array and the log. *)

LEMMA FirstStepRules ==
  ASSUME FrameInv, First!CountInv, [First!Next]_(First!vars)
  PROVE  /\ Physics \/ UNCHANGED vars
         /\ SelectRow \/ SelectCol \/ UNCHANGED select
         /\ \A i \in Recs : status[i] = 0 => status'[i] = 0
         /\ LogInv => LogInv'
<1>1. CASE First!Judge
  <2>1. status \in [Recs -> Word] /\ \A i \in Recs : status[i] = 0 => status'[i] = 0
    BY <1>1, FirstJudgeWrites DEF FrameInv, TypeOK
  <2> QED BY <1>1, <2>1, FirstJudge, LogQuiet DEF select
<1>2. CASE First!Calculate
  BY <1>2, FirstCalculate, LogQuiet DEF Call, select, Live
<1>3. CASE CoarseStep \/ LastPulse(0) \/ UNCHANGED vars
  BY <1>3, UnsetWord, CoarseStepRules
<1> QED BY <1>1, <1>2, <1>3, FirstSteps

\* The same rules hold of first_coarse_program.
THEOREM FirstKeepsRules ==
  First!Spec => /\ []MeasuredAtRest /\ []LogFits
          /\ SelectionInterlock /\ UnlistedUntouched /\ OverIsFinal
<1>1. First!Init => LogInv
  BY FirstInit, LogInit
<1>2. FrameInv /\ First!CountInv /\ LogInv /\ [First!Next]_(First!vars) => LogInv'
  BY FirstStepRules
<1>3. FrameInv => MeasuredAtRest
  BY RestHolds
<1>4. FrameInv /\ LogInv => LogFits
  BY LogBounded
<1>5. ASSUME FrameInv, First!CountInv, FrameInv', [First!Next]_(First!vars)
      PROVE  /\ row' # row \/ col' # col => ~Pulled /\ ~Pulled'
             /\ \A c \in Cells \ Listed : level'[c] = level[c]
             /\ \A i \in Recs : status[i] = 0 =>
                  status'[i] = 0 /\ level'[Cell[i]] = level[Cell[i]]
  BY <1>5, FirstStepRules, RulesHold
<1>6. FrameInv /\ First!CountInv /\ FrameInv' /\ [First!Next]_(First!vars) =>
        /\ [row' # row \/ col' # col => ~Pulled /\ ~Pulled']_vars
        /\ [\A c \in Cells \ Listed : level'[c] = level[c]]_vars
        /\ [\A i \in Recs : status[i] = 0 =>
              status'[i] = 0 /\ level'[Cell[i]] = level[Cell[i]]]_vars
  BY <1>5, FirstViews
<1> QED BY <1>1, <1>2, <1>3, <1>4, <1>6, FirstInvariant, PTL
        DEF First!Spec, SelectionInterlock, UnlistedUntouched, OverIsFinal

-----------------------------------------------------------------------------
(* first_coarse_program implements the abstract stage. *)

LEMMA FirstStageViews ==
  /\ First!Recs = Recs
  /\ {i \in First!Recs : First!Live(i)} = {i \in Recs : Live(i)}
  /\ {i \in First!Recs : First!Live(i)}' = {i \in Recs : Live(i)}'
  /\ First!Armed = Armed /\ (First!Armed)' = Armed'
BY FirstNames, FirstViews

LEMMA FirstJudgeStage ==
  ASSUME FrameInv, First!Judge
  PROVE  \E i \in Recs : First!Stage!Over(i) \/ First!Stage!Arm(i)
<1> USE FirstStageViews
<1>0. /\ status \in [Recs -> Word] /\ idx \in Recs /\ level' = level /\ Live(idx)
      /\ status[idx] \in Word /\ status[idx] # 0
      /\ routine = "verify" /\ at = "test" /\ routine' = routine /\ NextRecord
  BY FirstJudge, FirstJudgeWrites DEF FrameInv, TypeOK, Live
<1>1. CASE level[Cell[idx]] >= Target[idx] /\ status' = [status EXCEPT ![idx] = 0]
  <2>1. /\ idx \notin Armed /\ Armed' = Armed
        /\ {i \in Recs : Live(i)}' = {i \in Recs : Live(i)} \ {idx}
    BY <1>0, <1>1, UnsetWord, JudgeArmed
  <2> QED BY <1>0, <1>1, <2>1 DEF First!Stage!Over
<1>2. CASE level[Cell[idx]] < Target[idx] /\ status' = status
  <2>1. status' = [status EXCEPT ![idx] = status[idx]]
    BY <1>0, <1>2
  <2>2. /\ idx \notin Armed /\ Armed' = Armed \cup {idx}
        /\ {i \in Recs : Live(i)}' = {i \in Recs : Live(i)}
    BY <1>0, <2>1, JudgeArmed
  <2> QED BY <1>0, <1>2, <2>2 DEF First!Stage!Arm
<1> QED BY <1>1, <1>2, FirstJudgeWrites

LEMMA FirstStageStep ==
  ASSUME FrameInv, First!CountInv, [First!Next]_(First!vars)
  PROVE  [First!Stage!Next]_(First!Stage!stageVars)
<1> USE FirstStageViews
<1>1. CASE CoarseStep
  <2>1. status' = status /\ Armed' = Armed
    BY <1>1, CoarseStepStage
  <2>2. {i \in Recs : Live(i)}' = {i \in Recs : Live(i)}
    BY <2>1 DEF Live
  <2>3. CASE level' = level
    BY <2>1, <2>2, <2>3 DEF First!Stage!stageVars
  <2>4. CASE idx \in Recs /\ idx \in Armed /\ Physics
    <3>1. First!Stage!Rises(idx)
      BY <2>4, ServedRises DEF First!Stage!Rises
    <3> QED BY <2>1, <2>2, <2>4, <3>1 DEF First!Stage!Next, First!Stage!Pulse
  <2> QED BY <1>1, <2>3, <2>4, CoarseStepStage
<1>2. CASE First!Judge
  BY <1>2, FirstJudgeStage DEF First!Stage!Next
<1>3. CASE First!Calculate
  <2> DEFINE S == {i \in Recs : status'[i] = 0}
  <2>1. /\ level' = level /\ Armed = {i \in Recs : Live(i)} /\ Armed' = {i \in Recs : Live(i)}'
        /\ Armed' = Armed \ S
    BY <1>3, FirstCalculateWrites
  <2>2. {i \in Recs : Live(i)}' = {i \in Recs : Live(i)} \ S
    BY <2>1
  <2>3. First!Stage!GiveUp(S) /\ S \in SUBSET Recs
    BY <2>1, <2>2 DEF First!Stage!GiveUp
  <2> QED BY <2>3 DEF First!Stage!Next
<1>4. CASE LastPulse(0)
  <2>1. /\ idx \in Recs /\ idx \in Armed /\ Armed' = Armed \ {idx} /\ Physics
        /\ {i \in Recs : Live(i)}' = {i \in Recs : Live(i)} \ {idx}
    BY <1>4, UnsetWord, LastPulseStage
  <2>2. First!Stage!Rises(idx)
    BY <2>1, ServedRises DEF First!Stage!Rises
  <2> QED BY <2>1, <2>2 DEF First!Stage!Next, First!Stage!EndBurst
<1>5. CASE UNCHANGED vars
  <2>1. {i \in Recs : Live(i)}' = {i \in Recs : Live(i)} /\ Armed' = Armed /\ level' = level
    BY <1>5 DEF vars, Live, Armed
  <2> QED BY <2>1 DEF First!Stage!stageVars
<1> QED BY <1>1, <1>2, <1>3, <1>4, <1>5, FirstSteps

\* first_coarse_program implements the stage: a gate rises only in the one
\* burst that its reading, below the target, has called for.
THEOREM FirstImplementsStage == First!Spec => First!ImplementsStage
<1>1. First!Init => First!Stage!Init
  <2>1. ASSUME First!Init
        PROVE  First!Stage!Init
    <3>1. level \in StartBoards /\ {i \in Recs : Live(i)} = Recs /\ Armed = {}
      BY <2>1, FirstInit, UnsetWord DEF Init, Live, Armed
    <3> QED BY <3>1, FirstStageViews DEF First!Stage!Init
  <2> QED BY <2>1
<1>2. FrameInv /\ First!CountInv /\ [First!Next]_(First!vars) =>
        [First!Stage!Next]_(First!Stage!stageVars)
  BY FirstStageStep
<1> QED BY <1>1, <1>2, FirstInvariant, PTL
        DEF First!Spec, First!ImplementsStage, First!Stage!Spec

=============================================================================
