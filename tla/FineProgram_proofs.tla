------------------------- MODULE FineProgram_proofs -------------------------
(***************************************************************************)
(* fine_program for any array, list, number of rounds and parameters that  *)
(* keep the index within the memory before the list: the frame, the log,   *)
(* the rules of the array, that every drain word is the one for the level  *)
(* the gate has, and that the program implements the abstract stage.       *)
(***************************************************************************)
EXTENDS FineProgram, FGBoard_proofs

-----------------------------------------------------------------------------
(* The judgement. *)

\* The mean of four equal readings is the reading.
LEMMA MeanOfOne ==
  ASSUME NEW l \in CodeRange, NEW carry \in {0, 1}
  PROVE  Average4(l, l, l, l, carry) = l
<1>1. carry \in Bit
  BY DEF Bit
<1>2. Average4(l, l, l, l, carry) = Average4Ref(l, l, l, l)
  BY <1>1, AverageIsAverage
<1>3. (l + l + l + l) \div 4 = l
  BY DEF CodeRange
<1> QED BY <1>2, <1>3 DEF Average4Ref

\* A judgement ends the record at its target, or writes the distance to it.
LEMMA JudgeWrites ==
  ASSUME FrameInv, Judge
  PROVE  /\ Live(idx) /\ idx \in Recs /\ level' = level
         /\ level[Cell[idx]] \in Nat /\ Target[idx] \in Nat
         /\ \/ /\ level[Cell[idx]] >= Target[idx]
               /\ status' = [status EXCEPT ![idx] = 0] /\ diff' = diff
            \/ /\ level[Cell[idx]] < Target[idx]
               /\ status' = status
               /\ diff' = [diff EXCEPT ![idx] = Sub(Target[idx], level[Cell[idx]])]
<1> DEFINE l == level[Cell[idx]]
<1>1. /\ Live(idx) /\ idx \in Recs /\ level' = level /\ level[<<row, col>>] = l
  BY CalmStep DEF Judge, FrameInv, TypeOK, SelectedInv
<1>2. l \in CodeRange /\ l \in Nat /\ Target[idx] \in CodeRange /\ Target[idx] \in Nat
  BY <1>1, LevelOfRecord, LevelAssumption, TargetAssumption DEF CodeRange
<1>3. PICK carry \in {0, 1} :
        LET mean == Average4(l, l, l, l, carry)
        IN  IF AtGoal(idx, mean)
            THEN status' = [status EXCEPT ![idx] = 0] /\ UNCHANGED diff
            ELSE diff' = [diff EXCEPT ![idx] = Sub(Target[idx], mean)] /\ UNCHANGED status
  BY <1>1 DEF Judge
<1>4. Average4(l, l, l, l, carry) = l
  BY <1>2, MeanOfOne
<1>5. AtGoal(idx, l) <=> ~(l < Target[idx])
  BY <1>2, BelowIsLess DEF AtGoal
<1> HIDE DEF l
<1>6. CASE AtGoal(idx, l)
  <2>1. l >= Target[idx]
    BY <1>2, <1>5, <1>6
  <2> QED BY <1>1, <1>2, <1>3, <1>4, <1>6, <2>1 DEF l
<1>7. CASE ~AtGoal(idx, l)
  BY <1>1, <1>2, <1>3, <1>4, <1>5, <1>7 DEF l
<1> QED BY <1>6, <1>7

-----------------------------------------------------------------------------
(* The calculation. *)

\* From the distance that was written for a gate, Vd_calculate finds the index
\* that belongs to its level, and it lies in the memory before the list.
LEMMA IndexIsDue ==
  ASSUME NEW i \in Recs, NEW l \in Codes, l < Target[i], diff[i] = Sub(Target[i], l)
  PROVE  Index(i) = IndexDue(i, l) /\ Index(i) \in VdIndices
<1>1. l \in CodeRange /\ Target[i] \in CodeRange /\ SA \in Bit
  BY LevelAssumption, TargetAssumption, FlagAssumption DEF Bit
<1>2. Index(i) = IndexDue(i, l)
  BY <1>1, VdIndexIsRef, OneNAAssumption, ShiftAssumption, OffsetAssumption
     DEF Index, IndexDue
<1> QED BY <1>2, IndexAssumption DEF IndexDue

\* Within Reach of the target the index lies within the host's file.
LEMMA NearIndexInFile ==
  ASSUME NEW i \in Recs, NEW l \in Codes, l < Target[i], Target[i] - l <= Reach
  PROVE  IndexDue(i, l) < FileWords
<1>1. /\ l \in Nat /\ Target[i] \in Nat /\ Target[i] - l \in Nat /\ Reach \in Nat
      /\ OneNA \in Nat /\ Offset \in Nat /\ FileWords \in Nat
      /\ ShiftA \in Nat /\ ShiftA > 0 /\ ShiftB \in Nat /\ ShiftB > 0
  BY CodesAreNumbers, TargetAssumption, OneNAAssumption, OffsetAssumption, VdAssumption,
     ShiftAssumption DEF CodeRange
<1> DEFINE near == (Target[i] - l) \div ShiftB
           far  == Reach \div ShiftB
           up   == StepsAbove(l, OneNA, ShiftA)
           top  == StepsAbove(Target[i], OneNA, ShiftA)
<1>2. near \in Nat /\ far \in Nat /\ near <= far
  BY <1>1, DivMonotone
<1>3. up \in Nat /\ top \in Nat /\ up <= top
  <2>1. CASE l < OneNA
    <3>1. up = 0
      BY <2>1 DEF StepsAbove
    <3>2. top \in Nat
      <4>1. CASE Target[i] < OneNA
        BY <4>1 DEF StepsAbove
      <4>2. CASE ~(Target[i] < OneNA)
        <5>1. Target[i] - OneNA \in Nat
          BY <1>1, <4>2
        <5> QED BY <1>1, <4>2, <5>1, DivMonotone DEF StepsAbove
      <4> QED BY <4>1, <4>2
    <3> QED BY <3>1, <3>2
  <2>2. CASE ~(l < OneNA)
    <3>1. l - OneNA \in Nat /\ Target[i] - OneNA \in Nat /\ l - OneNA <= Target[i] - OneNA
      BY <1>1, <2>2
    <3>2. up = (l - OneNA) \div ShiftA /\ top = (Target[i] - OneNA) \div ShiftA
      BY <1>1, <2>2 DEF StepsAbove
    <3> QED BY <1>1, <3>1, <3>2, DivMonotone
  <2> QED BY <2>1, <2>2
<1>4. far + Offset + (IF SA = 0 THEN 0 ELSE top) < FileWords
  BY ReachAssumption
<1>5. IndexDue(i, l) = NotBelowZero(near + Offset + IF SA = 0 THEN -up ELSE up)
  BY DEF IndexDue, VdIndexRef
<1> HIDE DEF near, far, up, top
<1>6. CASE SA = 0
  BY <1>1, <1>2, <1>3, <1>4, <1>5, <1>6 DEF NotBelowZero
<1>7. CASE SA # 0
  BY <1>1, <1>2, <1>3, <1>4, <1>5, <1>7 DEF NotBelowZero
<1> QED BY <1>6, <1>7

\* What the calculation leaves: every live record is armed, and its word is the
\* table's for its level.
LEMMA CalculateWrites ==
  ASSUME FrameInv, WordInv, Calculate
  PROVE  /\ level' = level
         /\ Armed = {i \in Recs : Live(i)} /\ Armed' = {i \in Recs : Live(i)}'
         /\ Armed' = Armed \ {i \in Recs : status'[i] = 0}
         /\ status' \in [Recs -> Word] /\ diff' \in [Recs -> Word]
         /\ \A i \in Recs : status[i] = 0 => status'[i] = 0
         /\ \A i \in Armed' :
              /\ level[Cell[i]] \in Codes /\ level[Cell[i]] < Target[i]
              /\ IndexDue(i, level[Cell[i]]) \in VdIndices
              /\ status'[i] = Vd[IndexDue(i, level[Cell[i]])]
<1>1. level' = level /\ Call("inject") /\ routine = "calculate" /\ at = "enter"
  BY CalmStep DEF Calculate
<1>2. \A i \in Recs : status[i] = 0 => status'[i] = 0
  BY DEF Calculate, Live
<1>3. /\ Armed = {i \in Recs : Live(i)} /\ Armed' = {i \in Recs : Live(i)}'
      /\ Armed' = Armed \ {i \in Recs : status'[i] = 0}
  BY <1>1, <1>2, CalculateArmed
<1>4. ASSUME NEW i \in Recs, Live(i)
      PROVE  /\ level[Cell[i]] \in Codes /\ level[Cell[i]] < Target[i]
             /\ Index(i) = IndexDue(i, level[Cell[i]]) /\ Index(i) \in VdIndices
             /\ status'[i] = Vd[Index(i)] /\ Vd[Index(i)] \in Word
             /\ diff'[i] = TableAddress(Index(i)) /\ TableAddress(Index(i)) \in Word
  <2>1. level[Cell[i]] < Target[i] /\ diff[i] = Sub(Target[i], level[Cell[i]])
    BY <1>1, <1>3, <1>4 DEF WordInv, DistanceInv
  <2>2. level[Cell[i]] \in Codes
    BY LevelOfRecord
  <2>3. Index(i) = IndexDue(i, level[Cell[i]]) /\ Index(i) \in VdIndices
    BY <2>1, <2>2, IndexIsDue
  <2>4. Vd[Index(i)] \in Word
    BY <2>3, VdAssumption
  <2>5. TableAddress(Index(i)) \in Word
    <3>1. Index(i) \in Nat
      BY <2>3 DEF VdIndices, VdSize
    <3> HIDE DEF Index
    <3> QED BY <3>1 DEF TableAddress, Add, Word
  <2> QED BY <1>4, <2>1, <2>2, <2>3, <2>4, <2>5 DEF Calculate
<1>5. status' \in [Recs -> Word]
  <2>1. 0 \in Word
    BY SMT DEF Word
  <2>2. status' = [i \in Recs |-> IF Live(i) THEN Vd[Index(i)] ELSE 0]
    BY DEF Calculate
  <2> QED BY <1>4, <2>1, <2>2
<1>6. diff' \in [Recs -> Word]
  <2>1. diff' = [i \in Recs |-> IF Live(i) THEN TableAddress(Index(i)) ELSE diff[i]]
    BY DEF Calculate
  <2>2. diff \in [Recs -> Word]
    BY DEF FrameInv, TypeOK
  <2> QED BY <1>4, <2>1, <2>2
<1>7. \A i \in Armed' : i \in Recs /\ Live(i)
  BY <1>3
<1> QED BY <1>1, <1>2, <1>3, <1>4, <1>5, <1>6, <1>7

-----------------------------------------------------------------------------
(* The frame.  That the calculation leaves words needs WordInv: the word   *)
(* is read from the table at an index the distance gave.                   *)

LEMMA StepFrame ==
  ASSUME FrameInv, WordInv, [Next]_vars
  PROVE  FrameInv'
<1>0. /\ status \in [Recs -> Word] /\ diff \in [Recs -> Word] /\ pulses \in Word
      /\ 0 \in Word
  BY SMT DEF FrameInv, TypeOK, Word
<1>1. CASE Judge
  <2>1. Sub(Target[idx], level[Cell[idx]]) \in Word
    BY <1>1, JudgeWrites, SubWord
  <2>2. status' \in [Recs -> Word] /\ diff' \in [Recs -> Word]
    BY <1>0, <1>1, <2>1, JudgeWrites
  <2> QED BY <1>1, <2>2, JudgeFrame DEF Judge
<1>2. CASE LeaveVerifyFP
  BY <1>2, LeaveVerifyFrame DEF LeaveVerifyFP
<1>3. CASE Calculate
  BY <1>3, CalculateWrites, CalculateFrame DEF Calculate
<1>4. CASE Pull
  BY <1>4, PullFrame DEF Pull
<1>5. CASE Release
  BY <1>0, <1>5, EndBurstFrame DEF Release, list
<1> QED BY <1>1, <1>2, <1>3, <1>4, <1>5, SharedStepFrame, StutterFrame DEF Next, Stopped

-----------------------------------------------------------------------------
(* The words. *)

LEMMA WordInit ==
  ASSUME Init
  PROVE  WordInv
BY DEF Init, WordInv, DistanceInv, WordFitsLevel, WordFromFile, Armed

\* Apart from the judgement and the calculation, a step arms no record, and
\* leaves one whose burst has not begun its level, its word and its distance.
LEMMA WaitingKept ==
  ASSUME FrameInv, [Next]_vars, ~Judge, ~Calculate,
         NEW i \in Armed', ~(at' = "pulse" /\ i = idx')
  PROVE  /\ i \in Armed /\ ~(at = "pulse" /\ i = idx)
         /\ level'[Cell[i]] = level[Cell[i]] /\ status'[i] = status[i] /\ diff'[i] = diff[i]
         /\ routine' = "inject" => routine = "inject"
         /\ routine' \in {"verify", "calculate"} => routine \in {"verify", "calculate"}
<1>0. i \in Recs /\ idx \in Recs /\ status \in [Recs -> Word]
  BY DEF Armed, FrameInv, TypeOK
<1>1. CASE SharedStep
  BY <1>1, SharedStepStage, SharedStepKeeps
<1>2. CASE LeaveVerifyFP
  <2>1. /\ level' = level /\ status' = status /\ diff' = diff /\ Armed' = Armed
        /\ routine = "verify" /\ at = "leave" /\ routine' = "calculate"
    BY <1>2, CalmStep, WalkArmed DEF LeaveVerifyFP, LeaveVerify, Call, list
  <2> QED BY <2>1
<1>3. CASE Pull
  <2>1. /\ level' = level /\ status' = status /\ diff' = diff /\ Armed' = Armed
        /\ routine' = routine /\ at = "pull"
    BY <1>3, CalmStep, WalkArmed DEF Pull, list
  <2> QED BY <2>1
<1>4. CASE Release
  <2>1. /\ status' = status /\ diff' = diff /\ Physics /\ routine' = routine
        /\ status = [status EXCEPT ![idx] = status[idx]] /\ status[idx] \in Word
    BY <1>0, <1>4 DEF Release, list
  <2>2. i \in Armed /\ i # idx
    BY <1>4, <2>1, EndBurstArmed DEF Release
  <2> QED BY <1>0, <2>1, <2>2, OthersKeep
<1>5. CASE UNCHANGED vars
  BY <1>5 DEF vars, Armed, Live
<1> QED BY <1>1, <1>2, <1>3, <1>4, <1>5 DEF Next, Stopped

LEMMA WordStep ==
  ASSUME FrameInv, WordInv, [Next]_vars
  PROVE  WordInv'
<1>1. CASE Judge
  <2>1. routine' = "verify"
    BY <1>1 DEF Judge
  <2>2. SUFFICES ASSUME NEW i \in Armed'
                 PROVE  /\ level'[Cell[i]] < Target[i]
                        /\ diff'[i] = Sub(Target[i], level'[Cell[i]])
    BY <2>1 DEF WordInv, DistanceInv, WordFitsLevel, WordFromFile
  <2>3. status \in [Recs -> Word] /\ diff \in [Recs -> Word] /\ i \in Recs /\ idx \in Recs
    BY DEF FrameInv, TypeOK, Armed
  <2>4. level' = level /\ routine = "verify" /\ at = "test" /\ Live(idx) /\ NextRecord
    BY <1>1, JudgeWrites DEF Judge
  <2>5. CASE status' = [status EXCEPT ![idx] = 0] /\ diff' = diff
    <3>1. 0 \in Word
      BY SMT DEF Word
    <3>2. i \in Armed
      BY <2>1, <2>4, <2>5, <3>1, JudgeArmed
    <3> QED BY <2>4, <2>5, <3>2 DEF WordInv, DistanceInv
  <2>6. CASE /\ level[Cell[idx]] < Target[idx] /\ status' = status
             /\ diff' = [diff EXCEPT ![idx] = Sub(Target[idx], level[Cell[idx]])]
    <3>1. status' = [status EXCEPT ![idx] = status[idx]] /\ status[idx] \in Word
      BY <2>3, <2>6
    <3>2. i \in Armed \/ i = idx
      BY <2>1, <2>4, <3>1, JudgeArmed
    <3> QED BY <2>3, <2>4, <2>6, <3>2 DEF WordInv, DistanceInv
  <2> QED BY <1>1, <2>5, <2>6, JudgeWrites
<1>2. CASE Calculate
  <2>1. routine' = "inject" /\ level' = level
    BY <1>2, CalculateWrites DEF Calculate, Call
  <2>2. ASSUME NEW i \in Armed'
        PROVE  /\ status'[i] = Vd[IndexDue(i, level'[Cell[i]])]
               /\ Target[i] - level'[Cell[i]] > Reach
                  \/ \E t \in VdIndices : t < FileWords /\ status'[i] = Vd[t]
    <3> DEFINE l == level[Cell[i]]
    <3>1. /\ l \in Codes /\ l < Target[i]
          /\ IndexDue(i, l) \in VdIndices /\ status'[i] = Vd[IndexDue(i, l)]
      BY <1>2, <2>2, CalculateWrites
    <3>2. i \in Recs
      BY <2>2 DEF Armed
    <3>3. l \in Nat /\ Target[i] \in Nat /\ Reach \in Nat
      BY <3>1, <3>2, CodesAreNumbers, TargetAssumption, VdAssumption DEF CodeRange
    <3> HIDE DEF l
    <3>4. Target[i] - l <= Reach => IndexDue(i, l) < FileWords
      BY <3>1, <3>2, NearIndexInFile
    <3>5. Target[i] - l > Reach \/ Target[i] - l <= Reach
      BY <3>3
    <3> QED BY <2>1, <3>1, <3>4, <3>5 DEF l
  <2> QED BY <2>1, <2>2 DEF WordInv, DistanceInv, WordFitsLevel, WordFromFile
<1>3. CASE ~Judge /\ ~Calculate
  <2>1. ASSUME NEW i \in Armed', routine' \in {"verify", "calculate"}
        PROVE  level'[Cell[i]] < Target[i] /\ diff'[i] = Sub(Target[i], level'[Cell[i]])
    <3>1. at' # "pulse"
      BY <2>1, StepFrame DEF FrameInv, PlaceInv, Measures, Blocks
    <3> QED BY <1>3, <2>1, <3>1, WaitingKept DEF WordInv, DistanceInv
  <2>2. ASSUME NEW i \in Armed', routine' = "inject", ~(at' = "pulse" /\ i = idx')
        PROVE  /\ status'[i] = Vd[IndexDue(i, level'[Cell[i]])]
               /\ Target[i] - level'[Cell[i]] > Reach
                  \/ \E t \in VdIndices : t < FileWords /\ status'[i] = Vd[t]
    BY <1>3, <2>2, WaitingKept DEF WordInv, WordFitsLevel, WordFromFile
  <2> QED BY <2>1, <2>2 DEF WordInv, DistanceInv, WordFitsLevel, WordFromFile
<1> QED BY <1>1, <1>2, <1>3

LEMMA FineInvariant == Spec => [](FrameInv /\ WordInv)
<1>1. Init => FrameInv /\ WordInv
  BY InitFrame, WordInit
<1>2. FrameInv /\ WordInv /\ [Next]_vars => (FrameInv /\ WordInv)'
  BY StepFrame, WordStep
<1> QED BY <1>1, <1>2, PTL DEF Spec

\* The program always is where, and its voltages and selection are what,
\* FrameInv says; in particular the table is read only where there is one.
THEOREM FrameAlways == Spec => []FrameInv
BY FineInvariant, PTL

\* Every drain word fine_inject still has to use is the table's word for the
\* level the gate has at that moment, in every round.
THEOREM WordsAlwaysFit == Spec => []WordFitsLevel
<1>1. WordInv => WordFitsLevel
  BY DEF WordInv
<1> QED BY <1>1, FineInvariant, PTL

\* A gate within Reach of its target is pulsed with a word of the host's file.
THEOREM NearWordsFromFile == Spec => []WordFromFile
<1>1. WordInv => WordFromFile
  BY DEF WordInv
<1> QED BY <1>1, FineInvariant, PTL

-----------------------------------------------------------------------------
(* The rules of the array and the log. *)

LEMMA StepRules ==
  ASSUME FrameInv, WordInv, [Next]_vars
  PROVE  /\ Physics \/ UNCHANGED vars
         /\ SelectRow \/ SelectCol \/ UNCHANGED select
         /\ \A i \in Recs : status[i] = 0 => status'[i] = 0
         /\ LogInv => LogInv'
<1>1. CASE SharedStep
  BY <1>1, SharedStepRules, LogStep
<1>2. CASE Judge
  <2>1. status \in [Recs -> Word] /\ \A i \in Recs : status[i] = 0 => status'[i] = 0
    BY <1>2, JudgeWrites DEF FrameInv, TypeOK
  <2> QED BY <1>2, <2>1, LogQuiet DEF Judge, select
<1>3. CASE Calculate
  BY <1>3, CalculateWrites, LogQuiet DEF Calculate, Call, select
<1>4. CASE LeaveVerifyFP
  BY <1>4, LogQuiet DEF LeaveVerifyFP, LeaveVerify, Call, select, list
<1>5. CASE Pull
  BY <1>5, LogQuiet DEF Pull, select, list
<1>6. CASE Release
  BY <1>6, LogQuiet DEF Release, select, list
<1>7. CASE UNCHANGED vars
  BY <1>7, LogStutter DEF vars, select
<1> QED BY <1>1, <1>2, <1>3, <1>4, <1>5, <1>6, <1>7 DEF Next, Stopped

\* What every program built on the frame must do holds of this one: measuring
\* only at rest, a log as long as LogBudget, no selection under a pulled drain,
\* no gate outside the list touched, and no record opened again.
THEOREM FineKeepsRules ==
  Spec => /\ []MeasuredAtRest /\ []LogFits
          /\ SelectionInterlock /\ UnlistedUntouched /\ OverIsFinal
<1>1. Init => LogInv
  BY LogInit
<1>2. FrameInv /\ WordInv /\ LogInv /\ [Next]_vars => LogInv'
  BY StepRules
<1>3. FrameInv => MeasuredAtRest
  BY RestHolds
<1>4. FrameInv /\ LogInv => LogFits
  BY LogBounded
<1>5. ASSUME FrameInv, WordInv, FrameInv', [Next]_vars
      PROVE  /\ row' # row \/ col' # col => ~Pulled /\ ~Pulled'
             /\ \A c \in Cells \ Listed : level'[c] = level[c]
             /\ \A i \in Recs : status[i] = 0 =>
                  status'[i] = 0 /\ level'[Cell[i]] = level[Cell[i]]
  BY <1>5, StepRules, RulesHold
<1>6. FrameInv /\ WordInv /\ FrameInv' /\ [Next]_vars =>
        /\ [row' # row \/ col' # col => ~Pulled /\ ~Pulled']_vars
        /\ [\A c \in Cells \ Listed : level'[c] = level[c]]_vars
        /\ [\A i \in Recs : status[i] = 0 =>
              status'[i] = 0 /\ level'[Cell[i]] = level[Cell[i]]]_vars
  BY <1>5
<1> QED BY <1>1, <1>2, <1>3, <1>4, <1>6, FineInvariant, PTL
        DEF Spec, SelectionInterlock, UnlistedUntouched, OverIsFinal

-----------------------------------------------------------------------------
(* The program implements the abstract stage. *)

LEMMA StageInit ==
  ASSUME Init
  PROVE  Stage!Init
BY DEF Init, Stage!Init, Live, Unset, Armed

\* A judgement ends a live record at its target or arms it below.
LEMMA JudgeStage ==
  ASSUME FrameInv, Judge
  PROVE  \E i \in Recs : Stage!Over(i) \/ Stage!Arm(i)
<1>0. /\ status \in [Recs -> Word] /\ idx \in Recs /\ level' = level /\ Live(idx)
      /\ 0 \in Word /\ status[idx] \in Word /\ status[idx] # 0
  BY JudgeWrites, SMT DEF FrameInv, TypeOK, Live, Word
<1>1. CASE level[Cell[idx]] >= Target[idx] /\ status' = [status EXCEPT ![idx] = 0]
  <2>1. /\ idx \notin Armed /\ Armed' = Armed
        /\ {i \in Recs : Live(i)}' = {i \in Recs : Live(i)} \ {idx}
    BY <1>0, <1>1, JudgeArmed DEF Judge
  <2> QED BY <1>0, <1>1, <2>1 DEF Stage!Over
<1>2. CASE level[Cell[idx]] < Target[idx] /\ status' = status
  <2>1. status' = [status EXCEPT ![idx] = status[idx]]
    BY <1>0, <1>2
  <2>2. /\ idx \notin Armed /\ Armed' = Armed \cup {idx}
        /\ {i \in Recs : Live(i)}' = {i \in Recs : Live(i)}
    BY <1>0, <2>1, JudgeArmed DEF Judge
  <2> QED BY <1>0, <1>2, <2>2 DEF Stage!Arm
<1> QED BY <1>1, <1>2, JudgeWrites

\* Every step is a step of the abstract stage or leaves its view unchanged.
LEMMA StageStep ==
  ASSUME FrameInv, WordInv, [Next]_vars
  PROVE  [Stage!Next]_(Stage!stageVars)
<1>0. idx \in Recs
  BY DEF FrameInv, TypeOK
<1>1. CASE SharedStep
  BY <1>1, SharedStepStage DEF Stage!stageVars, Live
<1>2. CASE Judge
  BY <1>2, JudgeStage DEF Stage!Next
<1>3. CASE LeaveVerifyFP \/ Pull
  <2>1. level' = level /\ status' = status /\ Armed' = Armed
    BY <1>3, CalmStep, WalkArmed DEF LeaveVerifyFP, LeaveVerify, Call, Pull, list
  <2> QED BY <2>1 DEF Stage!stageVars, Live
<1>4. CASE Calculate
  <2> DEFINE S == {i \in Recs : status'[i] = 0}
  <2>1. /\ level' = level /\ Armed = {i \in Recs : Live(i)} /\ Armed' = {i \in Recs : Live(i)}'
        /\ Armed' = Armed \ S
    BY <1>4, CalculateWrites
  <2>2. {i \in Recs : Live(i)}' = {i \in Recs : Live(i)} \ S
    BY <2>1
  <2>3. Stage!GiveUp(S) /\ S \in SUBSET Recs
    BY <2>1, <2>2 DEF Stage!GiveUp
  <2> QED BY <2>3 DEF Stage!Next
<1>5. CASE Release
  <2>1. /\ status' = status /\ Physics /\ status = [status EXCEPT ![idx] = status[idx]]
        /\ status[idx] \in Word
    BY <1>0, <1>5 DEF Release, list, FrameInv, TypeOK
  <2>2. idx \in Armed /\ Armed' = Armed \ {idx}
    BY <1>5, <2>1, EndBurstArmed DEF Release
  <2>3. Stage!Rises(idx)
    BY <2>1, ServedRises DEF Stage!Rises
  <2> QED BY <1>0, <2>1, <2>2, <2>3 DEF Stage!Next, Stage!EndBurst, Live
<1>6. CASE UNCHANGED vars
  BY <1>6 DEF vars, Stage!stageVars, Live, Armed
<1> QED BY <1>1, <1>2, <1>3, <1>4, <1>5, <1>6 DEF Next, Stopped

\* The program implements the stage: a gate rises only in the one burst that
\* the latest reading of it, below its target, has called for.
THEOREM FineImplementsStage == Spec => ImplementsStage
<1>1. Init => Stage!Init
  BY StageInit
<1>2. FrameInv /\ WordInv /\ [Next]_vars => [Stage!Next]_(Stage!stageVars)
  BY StageStep
<1> QED BY <1>1, <1>2, FineInvariant, PTL DEF Spec, ImplementsStage, Stage!Spec
=============================================================================
