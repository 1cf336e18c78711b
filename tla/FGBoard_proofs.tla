---------------------------- MODULE FGBoard_proofs ----------------------------
(***************************************************************************)
(* FrameInv is inductive under the steps the four programs share, and what *)
(* it says of the array: only the gate of the record being pulsed moves.   *)
(***************************************************************************)
EXTENDS FGBoard, TLAPS

-----------------------------------------------------------------------------
(* The arithmetic of the programs on sixteen bits. *)

\* The test of measure_verify, a subtraction and jn on sixteen bits, is the
\* comparison it stands for: no two codes are far enough apart to wrap.
LEMMA BelowIsLess ==
  ASSUME NEW a \in CodeRange, NEW b \in CodeRange
  PROVE  Below(a, b) <=> a < b
BY SMT DEF Below, Negative, Sub, CodeRange

\* A difference is kept to sixteen bits.
LEMMA SubWord ==
  ASSUME NEW a \in Int, NEW b \in Int
  PROVE  Sub(a, b) \in Word
BY DEF Sub, Word

\* One rotate: both halves of its result, and that they are a word and a bit.
LEMMA RrcParts ==
  ASSUME NEW w \in Word, NEW c \in Bit
  PROVE  /\ Rrc(<<w, c>>) = << 32768 * c + (w \div 2), w % 2 >>
         /\ 32768 * c + (w \div 2) \in Word
         /\ w % 2 \in Bit
<1>1. Rrc(<<w, c>>) = << 32768 * c + (w \div 2), w % 2 >>
  BY DEF Rrc
<1>2. 32768 * c + (w \div 2) \in Word /\ w % 2 \in Bit
  BY DEF Word, Bit
<1> QED BY <1>1, <1>2

\* Pulse_w_calculate never clears the carry before it rotates, and the index
\* does not depend on it: for every word and every carry on entry the chain of
\* six rotates and the mask yield bits 13 to 6 of the word.
THEOREM PulseIndexIsBits13To6 ==
  ASSUME NEW w \in Word, NEW c \in Bit
  PROVE  PulseIndex(w, c) = PulseIndexRef(w)
<1> DEFINE w1 == 32768 * c + (w \div 2)        c1 == w % 2
           w2 == 32768 * c1 + (w1 \div 2)      c2 == w1 % 2
           w3 == 32768 * c2 + (w2 \div 2)      c3 == w2 % 2
           w4 == 32768 * c3 + (w3 \div 2)      c4 == w3 % 2
           w5 == 32768 * c4 + (w4 \div 2)      c5 == w4 % 2
           w6 == 32768 * c5 + (w5 \div 2)      c6 == w5 % 2
<1>1. Rrc(<<w, c>>) = <<w1, c1>> /\ w1 \in Word /\ c1 \in Bit
  BY RrcParts
<1>2. Rrc(<<w1, c1>>) = <<w2, c2>> /\ w2 \in Word /\ c2 \in Bit
  <2> HIDE DEF w1, c1
  <2> QED BY <1>1, RrcParts
<1>3. Rrc(<<w2, c2>>) = <<w3, c3>> /\ w3 \in Word /\ c3 \in Bit
  <2> HIDE DEF w2, c2
  <2> QED BY <1>2, RrcParts
<1>4. Rrc(<<w3, c3>>) = <<w4, c4>> /\ w4 \in Word /\ c4 \in Bit
  <2> HIDE DEF w3, c3
  <2> QED BY <1>3, RrcParts
<1>5. Rrc(<<w4, c4>>) = <<w5, c5>> /\ w5 \in Word /\ c5 \in Bit
  <2> HIDE DEF w4, c4
  <2> QED BY <1>4, RrcParts
<1>6. Rrc(<<w5, c5>>) = <<w6, c6>> /\ w6 \in Word /\ c6 \in Bit
  <2> HIDE DEF w5, c5
  <2> QED BY <1>5, RrcParts
<1>7. PulseIndex(w, c) = w6 % 256
  <2> HIDE DEF w1, c1, w2, c2, w3, c3, w4, c4, w5, c5, w6, c6
  <2> QED BY <1>1, <1>2, <1>3, <1>4, <1>5, <1>6 DEF PulseIndex, ClearAbove
<1>8. w6 % 256 = (w \div 64) % 256
  <2>1. w1 % 32768 = w \div 2          BY <1>1 DEF Word, Bit
  <2> HIDE DEF w1, c1
  <2>2. w2 % 16384 = w \div 4          BY <1>1, <1>2, <2>1 DEF Word, Bit
  <2> HIDE DEF w2, c2
  <2>3. w3 % 8192 = w \div 8           BY <1>2, <1>3, <2>2 DEF Word, Bit
  <2> HIDE DEF w3, c3
  <2>4. w4 % 4096 = w \div 16          BY <1>3, <1>4, <2>3 DEF Word, Bit
  <2> HIDE DEF w4, c4
  <2>5. w5 % 2048 = w \div 32          BY <1>4, <1>5, <2>4 DEF Word, Bit
  <2> HIDE DEF w5, c5
  <2>6. w6 % 1024 = w \div 64          BY <1>5, <1>6, <2>5 DEF Word, Bit
  <2> HIDE DEF w6, c6
  <2> QED BY <1>6, <2>6 DEF Word
<1> QED BY <1>7, <1>8 DEF PulseIndexRef

\* measure_verify of the fine stage: four fourteen-bit readings never overflow
\* the sum, and whatever carry the loop leaves, the two rotates and the mask
\* yield the integer mean.
THEOREM AverageIsAverage ==
  ASSUME NEW a \in CodeRange, NEW b \in CodeRange, NEW c \in CodeRange,
         NEW d \in CodeRange, NEW carry \in Bit
  PROVE  Average4(a, b, c, d, carry) = Average4Ref(a, b, c, d)
BY SMTT(60) DEF Average4, Average4Ref, Rrc, ClearAbove, CodeRange, Bit, Add

\* Dividing by a step keeps the order.
LEMMA DivMonotone ==
  ASSUME NEW a \in Nat, NEW b \in Nat, a <= b, NEW d \in Nat, d > 0
  PROVE  a \div d \in Nat /\ a \div d <= b \div d /\ b \div d \in Nat
<1>1. \A n \in Nat : /\ n \div d \in Nat
                     /\ d * (n \div d) <= n /\ n < d * (n \div d) + d
  BY SMT
<1> DEFINE p == a \div d   q == b \div d
<1>2. p \in Nat /\ q \in Nat /\ d * p <= a /\ b < d * q + d
  BY <1>1
<1> HIDE DEF p, q
<1>3. d * p < d * q + d
  <2>1. d * p \in Nat /\ d * q \in Nat
    BY <1>2
  <2> QED BY <1>2, <2>1
<1>4. ASSUME p >= q + 1 PROVE FALSE
  <2>1. d * p >= d * (q + 1) /\ d * (q + 1) = d * q + d
    BY <1>2, <1>4, SMT
  <2>2. d * p \in Nat /\ d * q \in Nat
    BY <1>2
  <2> QED BY <1>3, <2>1, <2>2
<1>5. p <= q
  BY <1>2, <1>4
<1> QED BY <1>2, <1>5 DEF p, q

\* A code divided by a positive number is a code and no larger.
LEMMA QuotientBound ==
  ASSUME NEW n \in CodeRange, NEW d \in Nat, d > 0
  PROVE  n \div d \in CodeRange /\ n \div d <= n
<1>1. n \div d \in Nat
  BY SMT DEF CodeRange
<1>2. n \div d <= n
  BY SMT DEF CodeRange
<1> QED BY <1>1, <1>2 DEF CodeRange

\* Vd_calculate: for a reading below the target, subtractions that borrow and
\* the two clips at zero in sixteen bits compute the integer index: the
\* distance to the target in steps of shiftB plus the offset, plus or minus
\* the height above 1 nA in steps of shiftA, and never below zero.
THEOREM VdIndexIsRef ==
  ASSUME NEW target \in CodeRange, NEW reading \in CodeRange, reading < target,
         NEW oneNA \in CodeRange, NEW shiftA \in Nat, shiftA > 0,
         NEW shiftB \in Nat, shiftB > 0,
         NEW offset \in Nat, offset < 256, NEW sa \in Bit
  PROVE  VdIndex(target, Sub(target, reading), oneNA, shiftA, shiftB, offset, sa)
           = VdIndexRef(target, reading, oneNA, shiftA, shiftB, offset, sa)
<1> DEFINE gap  == target - reading
           start == StepsAbove(reading, oneNA, shiftA)
           drop  == gap \div shiftB
<1>1. Sub(target, reading) = gap /\ gap \in CodeRange
  BY DEF Sub, CodeRange
<1>2. Sub(target, gap) = reading
  BY <1>1 DEF Sub, CodeRange
<1>3. ClipAtZero(Sub(reading, oneNA)) = IF reading < oneNA THEN 0 ELSE reading - oneNA
  BY DEF ClipAtZero, Negative, Sub, CodeRange
<1>4. start \in CodeRange /\ start <= reading
  <2>1. CASE reading < oneNA
    BY <2>1 DEF CodeRange, StepsAbove
  <2>2. CASE ~(reading < oneNA)
    <3>1. reading - oneNA \in CodeRange  BY <2>2 DEF CodeRange
    <3> QED BY <2>2, <3>1, QuotientBound DEF CodeRange, StepsAbove
  <2> QED BY <2>1, <2>2
<1>5. ClipAtZero(Sub(reading, oneNA)) \div shiftA = start
  <2>1. 0 \div shiftA = 0  BY SMT
  <2> QED BY <1>3, <2>1 DEF StepsAbove
<1>6. drop \in CodeRange /\ drop <= target - reading
  BY <1>1, QuotientBound
<1>7. Add(drop, offset) = drop + offset
  <2> HIDE DEF drop
  <2> QED BY <1>6 DEF Add, CodeRange
<1>8. VdIndex(target, Sub(target, reading), oneNA, shiftA, shiftB, offset, sa)
        = ClipAtZero(IF sa = 0 THEN Sub(drop + offset, start) ELSE Add(drop + offset, start))
  <2> HIDE DEF drop, start
  <2> QED BY <1>1, <1>2, <1>5, <1>7 DEF VdIndex, drop
<1>9. VdIndexRef(target, reading, oneNA, shiftA, shiftB, offset, sa)
        = NotBelowZero(drop + offset + IF sa = 0 THEN -start ELSE start)
  BY DEF VdIndexRef
<1>10. CASE sa = 0
  <2> HIDE DEF drop, start
  <2>1. ClipAtZero(Sub(drop + offset, start)) = NotBelowZero(drop + offset + (-start))
    BY <1>4, <1>6 DEF ClipAtZero, NotBelowZero, Negative, Sub, CodeRange
  <2> QED BY <1>8, <1>9, <1>10, <2>1
<1>11. CASE sa # 0
  <2> HIDE DEF drop, start
  <2>1. ClipAtZero(Add(drop + offset, start)) = drop + offset + start
    BY <1>4, <1>6 DEF ClipAtZero, Negative, Add, CodeRange
  <2>2. NotBelowZero(drop + offset + start) = drop + offset + start
    BY <1>4, <1>6 DEF CodeRange, NotBelowZero
  <2> QED BY <1>8, <1>9, <1>11, <2>1, <2>2
<1> QED BY <1>10, <1>11

-----------------------------------------------------------------------------
(* The array. *)

\* Under TypeOK a step of the array leaves a level for every gate.
LEMMA PhysicsType ==
  ASSUME TypeOK, Physics
  PROVE  level' \in [Cells -> Codes]
<1>1. CASE Pulled
  BY <1>1 DEF Physics, TypeOK
<1>2. CASE ~Pulled
  BY <1>2 DEF Physics, TypeOK
<1> QED BY <1>1, <1>2

\* The drain is pulled under 6 V only inside a burst, and then the selected
\* gate is the one of the record being served, which is not over.
LEMMA PulledPlace ==
  ASSUME FrameInv, Pulled
  PROVE  /\ routine = "inject" /\ at = "pulse"
         /\ <<row, col>> = Cell[idx] /\ idx \in Recs /\ Live(idx)
BY DEF FrameInv, VoltageInv, SelectedInv, Pulled, TypeOK

\* A step of the array moves no gate but that one.
LEMMA OnlyServedRises ==
  ASSUME FrameInv, Physics, NEW c \in Cells, level'[c] # level[c]
  PROVE  Pulled /\ c = Cell[idx]
<1>1. Pulled
  BY DEF Physics
<1>2. PICK n \in Codes : level' = [level EXCEPT ![<<row, col>>] = n]
  BY <1>1 DEF Physics
<1>3. c = <<row, col>>
  BY <1>2 DEF FrameInv, TypeOK
<1> QED BY <1>1, <1>3, PulledPlace

\* Hence a step leaves every gate outside the list alone ...
LEMMA UnlistedStep ==
  ASSUME FrameInv, Physics
  PROVE  \A c \in Cells \ Listed : level'[c] = level[c]
<1> SUFFICES ASSUME NEW c \in Cells \ Listed, level'[c] # level[c]
             PROVE  FALSE
  OBVIOUS
<1>1. Pulled /\ c = Cell[idx]
  BY OnlyServedRises
<1> QED BY <1>1, PulledPlace DEF Listed

\* ... and every gate whose record is over, since no two records name a gate.
LEMMA OverStep ==
  ASSUME FrameInv, Physics, NEW i \in Recs, status[i] = 0
  PROVE  level'[Cell[i]] = level[Cell[i]]
<1> SUFFICES ASSUME level'[Cell[i]] # level[Cell[i]]
             PROVE  FALSE
  OBVIOUS
<1>1. Cell[i] \in Cells
  BY RecordsAssumption
<1>2. Pulled /\ Cell[i] = Cell[idx]
  BY <1>1, OnlyServedRises
<1>3. idx \in Recs /\ Live(idx)
  BY <1>2, PulledPlace
<1>4. i = idx
  BY <1>2, <1>3, RecordsAssumption
<1> QED BY <1>3, <1>4 DEF Live

-----------------------------------------------------------------------------
(* The walk over the records. *)

\* NextRecord stays within the list and lands at its next row or at its end.
LEMMA NextRecordType ==
  ASSUME TypeOK, NextRecord
  PROVE  idx' \in Recs /\ at' \in {"row", "leave"}
BY RecordsAssumption DEF TypeOK, NextRecord, Recs

\* CloseRound counts a round off and calls a routine from its beginning.
LEMMA CloseRoundType ==
  ASSUME TypeOK, rounds > 0, CloseRound
  PROVE  /\ rounds' \in 0 .. Rounds /\ logged' \in Nat
         /\ at' = "enter"
         /\ \/ routine' = "verify" /\ rounds' > 0
            \/ routine' = "last"
BY RoundsAssumption DEF TypeOK, CloseRound, Call

\* The initial states satisfy the invariant.
LEMMA InitFrame ==
  ASSUME Init
  PROVE  FrameInv
<1>1. TypeOK
  <2>1. 1 \in Recs
    BY RecordsAssumption DEF Recs
  <2>2. Unset \in Word /\ 0 \in Word
    BY SMT DEF Unset, Word
  <2>3. rounds \in 0 .. Rounds
    BY RoundsAssumption DEF Init
  <2> QED BY <2>1, <2>2, <2>3, LevelAssumption, SelectionAssumption
          DEF Init, TypeOK, Measures, Blocks
<1> QED BY <1>1, RoundsAssumption
        DEF Init, FrameInv, PlaceInv, VoltageInv, SelectedInv, Measures, Blocks

-----------------------------------------------------------------------------
(* The shared steps. *)

\* Every step the programs share preserves the invariant.
LEMMA SharedStepFrame ==
  ASSUME FrameInv, SharedStep
  PROVE  FrameInv'
<1> USE DEF FrameInv, Measures, Blocks, volts, list, select
<1>1. CASE SelectRow
  <2>1. TypeOK'
    BY <1>1, PhysicsType, RecordsAssumption DEF SelectRow, TypeOK, Cells
  <2> QED BY <1>1, <2>1 DEF SelectRow, PlaceInv, VoltageInv, SelectedInv, Live
<1>2. CASE SelectCol
  <2>1. TypeOK'
    BY <1>2, PhysicsType, RecordsAssumption DEF SelectCol, TypeOK, Cells
  <2>2. <<row', col'>> = Cell[idx]
    BY <1>2, RecordsAssumption DEF SelectCol, TypeOK, Cells, SelectedInv
  <2> QED BY <1>2, <2>1, <2>2 DEF SelectCol, PlaceInv, VoltageInv, SelectedInv, Live
<1>3. CASE SkipOver
  <2>1. TypeOK'
    BY <1>3, PhysicsType, NextRecordType DEF SkipOver, TypeOK
  <2>2. at' \in {"row", "leave"}
    BY <1>3, NextRecordType DEF SkipOver
  <2> QED BY <1>3, <2>1, <2>2 DEF SkipOver, PlaceInv, VoltageInv, SelectedInv
<1>4. CASE EnterMeasure
  <2>1. TypeOK'
    BY <1>4, PhysicsType, RecordsAssumption DEF EnterMeasure, TypeOK, Recs
  <2> QED BY <1>4, <2>1 DEF EnterMeasure, PlaceInv, VoltageInv, SelectedInv
<1>5. CASE LogReading
  <2>1. TypeOK'
    BY <1>5, PhysicsType, NextRecordType DEF LogReading, TypeOK
  <2>2. at' \in {"row", "leave"}
    BY <1>5, NextRecordType DEF LogReading
  <2> QED BY <1>5, <2>1, <2>2 DEF LogReading, PlaceInv, VoltageInv, SelectedInv
<1>6. CASE LeaveFirst
  <2>1. TypeOK'
    BY <1>6, PhysicsType DEF LeaveFirst, EndMeasure, Call, TypeOK
  <2> QED BY <1>6, <2>1 DEF LeaveFirst, EndMeasure, Call, PlaceInv, VoltageInv, SelectedInv
<1>7. CASE LeaveRound
  <2>1. rounds > 0
    BY <1>7 DEF LeaveRound, PlaceInv
  <2>2. CloseRound
    BY <1>7 DEF LeaveRound
  <2>3. TypeOK'
    BY <1>7, <2>1, <2>2, CloseRoundType, PhysicsType DEF LeaveRound, EndMeasure, TypeOK
  <2> QED BY <1>7, <2>1, <2>2, <2>3, CloseRoundType
          DEF LeaveRound, EndMeasure, PlaceInv, VoltageInv, SelectedInv
<1>8. CASE LeaveLast
  <2>1. TypeOK'
    BY <1>8, PhysicsType DEF LeaveLast, EndMeasure, Call, TypeOK
  <2> QED BY <1>8, <2>1 DEF LeaveLast, EndMeasure, Call, PlaceInv, VoltageInv, SelectedInv
<1>9. CASE EnterInject
  <2>1. TypeOK'
    BY <1>9, PhysicsType, RecordsAssumption DEF EnterInject, TypeOK, Recs
  <2> QED BY <1>9, <2>1 DEF EnterInject, PlaceInv, VoltageInv, SelectedInv
<1>10. CASE Raise
  <2>1. TypeOK'
    BY <1>10, PhysicsType DEF Raise, TypeOK
  <2> QED BY <1>10, <2>1 DEF Raise, PlaceInv, VoltageInv, SelectedInv, Live
<1>11. CASE Lower
  <2>1. TypeOK'
    BY <1>11, PhysicsType DEF Lower, TypeOK
  <2> QED BY <1>11, <2>1 DEF Lower, PlaceInv, VoltageInv, SelectedInv
<1>12. CASE Rest
  <2>1. rounds > 0
    BY <1>12 DEF Rest, PlaceInv
  <2>2. CASE MeasOn
    <3>1. TypeOK'
      BY <1>12, <2>2, PhysicsType DEF Rest, Call, TypeOK
    <3> QED BY <1>12, <2>1, <2>2, <3>1 DEF Rest, Call, PlaceInv, VoltageInv, SelectedInv
  <2>3. CASE ~MeasOn
    <3>1. CloseRound
      BY <1>12, <2>3 DEF Rest
    <3>2. TypeOK'
      BY <1>12, <2>1, <3>1, CloseRoundType, PhysicsType DEF Rest, TypeOK
    <3> QED BY <1>12, <2>1, <3>1, <3>2, CloseRoundType
            DEF Rest, PlaceInv, VoltageInv, SelectedInv
  <2> QED BY <2>2, <2>3
<1> QED BY <1>1, <1>2, <1>3, <1>4, <1>5, <1>6, <1>7, <1>8, <1>9, <1>10, <1>11, <1>12
        DEF SharedStep

-----------------------------------------------------------------------------
(* The shared steps as the abstract stage sees them. *)

\* Without a pulled drain a step of the array leaves it alone.
LEMMA CalmStep ==
  ASSUME FrameInv, Physics, ~(routine = "inject" /\ at = "pulse")
  PROVE  level' = level
BY PulledPlace DEF Physics

\* Only the steps of a burst move a gate, only those of a judgement or a
\* burst arm or disarm a record: a shared step does neither.
LEMMA SharedStepStage ==
  ASSUME FrameInv, SharedStep
  PROVE  level' = level /\ status' = status /\ Armed' = Armed
<1> USE DEF Armed, Live, list, Recs
<1>0. FrameInv /\ N \in Nat /\ N > 0 /\ idx \in Nat /\ 1 <= idx /\ idx <= N
  BY RecordsAssumption DEF FrameInv, TypeOK
<1>1. CASE SelectRow
  BY <1>0, <1>1, CalmStep DEF SelectRow
<1>2. CASE SelectCol
  BY <1>0, <1>2, CalmStep DEF SelectCol
<1>3. CASE SkipOver
  <2>1. level' = level /\ status' = status /\ status[idx] = 0
    BY <1>0, <1>3, CalmStep DEF SkipOver
  <2>2. CASE idx < N
    BY <1>0, <1>3, <2>1, <2>2 DEF SkipOver, NextRecord
  <2>3. CASE idx = N
    BY <1>0, <1>3, <2>1, <2>3 DEF SkipOver, NextRecord
  <2> QED BY <1>0, <2>1, <2>2, <2>3
<1>4. CASE EnterMeasure
  BY <1>0, <1>4, CalmStep DEF EnterMeasure, Measures, Blocks
<1>5. CASE LogReading
  BY <1>0, <1>5, CalmStep DEF LogReading, Blocks
<1>6. CASE LeaveFirst \/ LeaveLast
  BY <1>0, <1>6, CalmStep DEF LeaveFirst, LeaveLast, Call
<1>7. CASE LeaveRound
  BY <1>0, <1>7, CalmStep DEF LeaveRound, CloseRound, Call
<1>8. CASE EnterInject
  BY <1>0, <1>8, CalmStep DEF EnterInject
<1>9. CASE Raise
  BY <1>0, <1>9, CalmStep DEF Raise
<1>10. CASE Lower
  BY <1>0, <1>10, CalmStep DEF Lower
<1>11. CASE Rest
  BY <1>0, <1>11, CalmStep DEF Rest, CloseRound, Call
<1> QED BY <1>1, <1>2, <1>3, <1>4, <1>5, <1>6, <1>7, <1>8, <1>9, <1>10, <1>11
        DEF SharedStep

\* A shared step begins outside a burst, writes no distance, and stays in its
\* routine as long as a record is armed.
LEMMA SharedStepKeeps ==
  ASSUME FrameInv, SharedStep
  PROVE  at # "pulse" /\ diff' = diff /\ (Armed = {} \/ routine' = routine)
<1>1. at # "pulse" /\ diff' = diff
  BY DEF SharedStep, SelectRow, SelectCol, SkipOver, EnterMeasure, LogReading, LeaveFirst,
         LeaveRound, LeaveLast, EnterInject, Raise, Lower, Rest, list
<1>2. CASE LeaveFirst \/ LeaveRound \/ LeaveLast \/ Rest
  BY <1>1, <1>2 DEF LeaveFirst, LeaveRound, LeaveLast, Rest, Armed
<1>3. CASE ~(LeaveFirst \/ LeaveRound \/ LeaveLast \/ Rest)
  BY <1>1, <1>3 DEF SharedStep, SelectRow, SelectCol, SkipOver, EnterMeasure, LogReading,
              EnterInject, Raise, Lower
<1> QED BY <1>1, <1>2, <1>3

-----------------------------------------------------------------------------
(* The steps that every program has in a form of its own: a judgement, the *)
(* calculation, the pull of the drain, and the end of a burst.             *)

\* Each preserves the invariant, whatever it writes into the list.
LEMMA JudgeFrame ==
  ASSUME FrameInv, routine = "verify", at = "test", drain' = "fg_inn",
         status' \in [Recs -> Word], diff' \in [Recs -> Word], NextRecord, Physics,
         UNCHANGED <<select, ivdd, tun, routine, rounds, pulses, logged>>
  PROVE  FrameInv'
<1> USE DEF FrameInv, Measures, Blocks, select
<1>1. at' \in {"row", "leave"} /\ idx' \in Recs
  BY NextRecordType
<1>2. TypeOK'
  BY <1>1, PhysicsType DEF TypeOK
<1> QED BY <1>1, <1>2 DEF PlaceInv, VoltageInv, SelectedInv

LEMMA LeaveVerifyFrame ==
  ASSUME FrameInv, NEW next \in {"calculate", "inject"}, LeaveVerify(next)
  PROVE  FrameInv'
<1> USE DEF FrameInv, Measures, Blocks, select, list, LeaveVerify, EndMeasure, Call
<1>1. TypeOK'
  BY PhysicsType DEF TypeOK
<1> QED BY <1>1 DEF PlaceInv, VoltageInv, SelectedInv

LEMMA CalculateFrame ==
  ASSUME FrameInv, routine = "calculate", at = "enter", Call("inject"),
         status' \in [Recs -> Word], diff' \in [Recs -> Word], Physics,
         UNCHANGED <<select, volts, idx, rounds, pulses, logged>>
  PROVE  FrameInv'
<1> USE DEF FrameInv, Measures, Blocks, select, volts, Call
<1>1. TypeOK'
  BY PhysicsType DEF TypeOK
<1> QED BY <1>1 DEF PlaceInv, VoltageInv, SelectedInv

LEMMA PullFrame ==
  ASSUME FrameInv, routine = "inject", at = "pull", at' = "pulse",
         drain' \in {"VD1", "VD2", "gnd", "table"}, Physics,
         UNCHANGED <<select, ivdd, tun, list, routine, idx, rounds, pulses, logged>>
  PROVE  FrameInv'
<1> USE DEF FrameInv, Measures, Blocks, select, list
<1>1. TypeOK'
  BY PhysicsType DEF TypeOK
<1> QED BY <1>1 DEF PlaceInv, VoltageInv, SelectedInv, Live

LEMMA UnitFrame ==
  ASSUME FrameInv, routine = "inject", at = "pulse", pulses' \in Word, Physics,
         UNCHANGED <<select, volts, list, routine, at, idx, rounds, logged>>
  PROVE  FrameInv'
<1> USE DEF FrameInv, Measures, Blocks, select, list, volts
<1>1. TypeOK'
  BY PhysicsType DEF TypeOK
<1> QED BY <1>1 DEF PlaceInv, VoltageInv, SelectedInv, Live

LEMMA EndBurstFrame ==
  ASSUME FrameInv, routine = "inject", at = "pulse", drain' = "ivdd", pulses' \in Word,
         status' \in [Recs -> Word], NextRecord, Physics,
         UNCHANGED <<select, ivdd, tun, diff, routine, rounds, logged>>
  PROVE  FrameInv'
<1> USE DEF FrameInv, Measures, Blocks, select
<1>1. at' \in {"row", "leave"} /\ idx' \in Recs
  BY NextRecordType
<1>2. TypeOK'
  BY <1>1, PhysicsType DEF TypeOK
<1> QED BY <1>1, <1>2 DEF PlaceInv, VoltageInv, SelectedInv

\* A step that stops in a routine or does nothing.
LEMMA StutterFrame ==
  ASSUME FrameInv, UNCHANGED vars
  PROVE  FrameInv'
BY DEF vars, FrameInv, TypeOK, PlaceInv, VoltageInv, SelectedInv, Live

-----------------------------------------------------------------------------
(* What these steps do to the records that are armed.                      *)

\* A judgement that writes w for the record it is at.
LEMMA JudgeArmed ==
  ASSUME FrameInv, routine = "verify", at = "test", routine' = routine, Live(idx),
         NextRecord, NEW w \in Word, status' = [status EXCEPT ![idx] = w]
  PROVE  /\ idx \in Recs /\ idx \notin Armed
         /\ Armed' = IF w = 0 THEN Armed ELSE Armed \cup {idx}
         /\ {i \in Recs : Live(i)}'
              = IF w = 0 THEN {i \in Recs : Live(i)} \ {idx} ELSE {i \in Recs : Live(i)}
<1>1. /\ N \in Nat /\ N > 0 /\ idx \in Recs /\ idx \in Nat /\ 1 <= idx /\ idx <= N
      /\ status \in [Recs -> Word]
  BY RecordsAssumption DEF FrameInv, TypeOK, Recs
<1>2. \A i \in Recs : status'[i] = IF i = idx THEN w ELSE status[i]
  BY <1>1
<1>3. at' \in {"row", "leave"} /\ \A i \in Recs : (i < idx' \/ at' = "leave") <=> i <= idx
  BY <1>1 DEF NextRecord, Recs
<1>4. Armed = {i \in Recs : status[i] # 0 /\ i < idx}
  BY DEF Armed, Live
<1>5. Armed' = {i \in Recs : status'[i] # 0 /\ i <= idx}
  BY <1>3 DEF Armed, Live
<1>6. \A i \in Recs : i <= idx <=> i < idx \/ i = idx
  BY <1>1 DEF Recs
<1>7. ~(idx < idx)
  BY <1>1
<1>8. {i \in Recs : Live(i)}'
        = IF w = 0 THEN {i \in Recs : Live(i)} \ {idx} ELSE {i \in Recs : Live(i)}
  BY <1>1, <1>2 DEF Live
<1>9. Armed' = IF w = 0 THEN Armed ELSE Armed \cup {idx}
  BY <1>1, <1>2, <1>4, <1>5, <1>6, <1>7
<1> QED BY <1>1, <1>4, <1>7, <1>8, <1>9

\* The end of measure_verify, and the pull of the drain.
LEMMA WalkArmed ==
  ASSUME FrameInv, UNCHANGED status,
         \/ /\ routine = "verify" /\ at = "leave"
            /\ at' = "enter" /\ routine' \in {"calculate", "inject"}
         \/ /\ routine = "inject" /\ at \in {"pull", "pulse"}
            /\ UNCHANGED <<routine, idx>> /\ at' = "pulse"
  PROVE  Armed' = Armed
BY DEF Armed, Live

\* The calculation, which may find that nothing is left to do for some.
LEMMA CalculateArmed ==
  ASSUME FrameInv, routine = "calculate", Call("inject"),
         \A i \in Recs : status[i] = 0 => status'[i] = 0
  PROVE  /\ Armed = {i \in Recs : Live(i)} /\ Armed' = {i \in Recs : Live(i)}'
         /\ Armed' = Armed \ {i \in Recs : status'[i] = 0}
BY DEF Armed, Live, Call

\* The end of a burst, which writes w into the status word.
LEMMA EndBurstArmed ==
  ASSUME FrameInv, routine = "inject", at = "pulse", routine' = routine,
         NextRecord, NEW w \in Word, status' = [status EXCEPT ![idx] = w]
  PROVE  /\ idx \in Armed
         /\ Armed' = Armed \ {idx}
         /\ {i \in Recs : Live(i)}'
              = IF w = 0 THEN {i \in Recs : Live(i)} \ {idx} ELSE {i \in Recs : Live(i)}
<1>1. /\ N \in Nat /\ N > 0 /\ idx \in Recs /\ idx \in Nat /\ 1 <= idx /\ idx <= N
      /\ status \in [Recs -> Word] /\ Live(idx)
  BY RecordsAssumption DEF FrameInv, TypeOK, SelectedInv, Recs
<1>2. \A i \in Recs : status'[i] = IF i = idx THEN w ELSE status[i]
  BY <1>1
<1>3. at' \in {"row", "leave"} /\ \A i \in Recs : (at' # "leave" /\ i >= idx') <=> i > idx
  BY <1>1 DEF NextRecord, Recs
<1>4. Armed = {i \in Recs : status[i] # 0 /\ i >= idx}
  BY DEF Armed, Live
<1>5. Armed' = {i \in Recs : status'[i] # 0 /\ i > idx}
  BY <1>3 DEF Armed, Live
<1>6. \A i \in Recs : i >= idx <=> i > idx \/ i = idx
  BY <1>1 DEF Recs
<1>7. ~(idx > idx) /\ idx >= idx
  BY <1>1
<1>8. {i \in Recs : Live(i)}'
        = IF w = 0 THEN {i \in Recs : Live(i)} \ {idx} ELSE {i \in Recs : Live(i)}
  BY <1>1, <1>2 DEF Live
<1>9. Armed' = Armed \ {idx}
  BY <1>1, <1>2, <1>4, <1>5, <1>6, <1>7
<1> QED BY <1>1, <1>4, <1>7, <1>8, <1>9 DEF Live

-----------------------------------------------------------------------------
(* What any step does to the levels. *)

\* The codes of the converter are numbers.
LEMMA CodesAreNumbers == \A c \in Codes : c \in Nat /\ c < 16384
BY LevelAssumption DEF CodeRange

LEMMA LevelOfRecord ==
  ASSUME FrameInv, NEW i \in Recs
  PROVE  Cell[i] \in Cells /\ level[Cell[i]] \in Codes /\ level[Cell[i]] \in Nat
BY RecordsAssumption, CodesAreNumbers DEF FrameInv, TypeOK

\* The gate of the record at hand may rise, no other one moves.
LEMMA ServedRises ==
  ASSUME FrameInv, Physics
  PROVE  \E c \in Codes : /\ c >= level[Cell[idx]]
                          /\ level' = [level EXCEPT ![Cell[idx]] = c]
<1>1. CASE Pulled
  BY <1>1, PulledPlace DEF Physics
<1>2. CASE ~Pulled
  <2>1. idx \in Recs /\ level \in [Cells -> Codes] /\ level' = level
    BY <1>2 DEF FrameInv, TypeOK, Physics
  <2>2. level[Cell[idx]] \in Codes /\ level[Cell[idx]] >= level[Cell[idx]]
    BY <2>1, LevelOfRecord
  <2>3. level' = [level EXCEPT ![Cell[idx]] = level[Cell[idx]]]
    BY <2>1
  <2> QED BY <2>2, <2>3
<1> QED BY <1>1, <1>2

LEMMA OthersKeep ==
  ASSUME FrameInv, Physics, NEW i \in Recs, i # idx
  PROVE  level'[Cell[i]] = level[Cell[i]]
<1>1. idx \in Recs /\ Cell[i] \in Cells /\ Cell[i] # Cell[idx]
  BY RecordsAssumption DEF FrameInv, TypeOK
<1> QED BY <1>1, OnlyServedRises

LEMMA NoneFalls ==
  ASSUME FrameInv, Physics, NEW i \in Recs
  PROVE  level'[Cell[i]] \in Nat /\ level'[Cell[i]] >= level[Cell[i]]
<1>1. level[Cell[i]] \in Nat
  BY LevelOfRecord
<1>2. CASE i # idx
  BY <1>1, <1>2, OthersKeep
<1>3. CASE i = idx
  <2>1. PICK c \in Codes : c >= level[Cell[idx]] /\ level' = [level EXCEPT ![Cell[idx]] = c]
    BY ServedRises
  <2>2. level'[Cell[i]] = c
    BY <1>3, <2>1, LevelOfRecord DEF FrameInv, TypeOK
  <2> QED BY <1>3, <2>1, <2>2, CodesAreNumbers
<1> QED BY <1>2, <1>3

-----------------------------------------------------------------------------
(* The log. *)

LEMMA LogTypes ==
  ASSUME FrameInv
  PROVE  /\ N \in Nat /\ N > 0 /\ idx \in Nat /\ 1 <= idx /\ idx <= N
         /\ Rounds \in Nat /\ rounds \in Nat /\ rounds <= Rounds
         /\ RoundsLogged \in Nat /\ LoggedBefore \in Nat
<1>1. /\ N \in Nat /\ N > 0 /\ idx \in Nat /\ 1 <= idx /\ idx <= N
      /\ Rounds \in Nat /\ rounds \in Nat /\ rounds <= Rounds
  BY RecordsAssumption, RoundsAssumption DEF FrameInv, TypeOK, Recs
<1>2. RoundsLogged \in Nat
  BY <1>1 DEF RoundsLogged
<1>3. (2 + N) * RoundsLogged \in Nat
  <2>1. 2 + N \in Nat
    BY <1>1
  <2> QED BY <1>2, <2>1
<1>4. LoggedBefore \in Nat
  BY <1>1, <1>3 DEF LoggedBefore
<1> QED BY <1>1, <1>2, <1>4

\* A round that is logged is worth its header and one word for each record.
LEMMA RoundCounted ==
  ASSUME FrameInv, rounds > 0, rounds' = rounds - 1
  PROVE  LoggedBefore' = IF MeasOn THEN LoggedBefore + 2 + N ELSE LoggedBefore
<1>1. N \in Nat /\ Rounds \in Nat /\ rounds \in Nat /\ RoundsLogged \in Nat
  BY LogTypes
<1>2. RoundsLogged' = IF MeasOn THEN RoundsLogged + 1 ELSE RoundsLogged
  BY <1>1 DEF RoundsLogged
<1>3. \A m, r \in Nat : m * (r + 1) = m * r + m
  BY SMT
<1>4. (2 + N) * (RoundsLogged + 1) = (2 + N) * RoundsLogged + (2 + N)
  <2>1. 2 + N \in Nat
    BY <1>1
  <2> QED BY <1>1, <1>3, <2>1
<1>5. (2 + N) * RoundsLogged \in Nat
  <2>1. 2 + N \in Nat
    BY <1>1
  <2> QED BY <1>1, <2>1
<1> DEFINE words == (2 + N) * RoundsLogged
<1>6. CASE MeasOn
  <2>1. LoggedBefore' = 2 + N + (words + (2 + N))
    BY <1>2, <1>4, <1>6 DEF LoggedBefore
  <2>2. LoggedBefore = 2 + N + words
    BY DEF LoggedBefore
  <2> HIDE DEF words
  <2> QED BY <1>1, <1>5, <1>6, <2>1, <2>2 DEF words
<1>7. CASE ~MeasOn
  BY <1>2, <1>7 DEF LoggedBefore
<1> QED BY <1>6, <1>7

\* Before the first word there is none but the header.
LEMMA LogInit ==
  ASSUME Init
  PROVE  LogInv
BY RoundsAssumption DEF Init, LogInv, Walked

\* The shared steps keep the count; this is where it may go wrong.
LEMMA LogStep ==
  ASSUME FrameInv, LogInv, SharedStep
  PROVE  LogInv'
<1>0. /\ N \in Nat /\ N > 0 /\ idx \in Nat /\ 1 <= idx /\ idx <= N
      /\ rounds \in Nat /\ logged \in Nat /\ LoggedBefore \in Nat
  BY LogTypes DEF FrameInv, TypeOK
<1>1. CASE UNCHANGED <<routine, rounds, logged>> /\ Walked' = Walked
  BY <1>1 DEF LogInv, LoggedBefore, RoundsLogged
<1>2. ASSUME UNCHANGED <<rounds>>
      PROVE  LoggedBefore' = LoggedBefore
  BY <1>2 DEF LoggedBefore, RoundsLogged
<1>3. ASSUME CloseRound, rounds > 0,
             logged = LoggedBefore + (IF MeasOn THEN 2 + N ELSE 0)
      PROVE  LogInv'
  <2>1. rounds' = rounds - 1 /\ logged = LoggedBefore' /\ LoggedBefore' \in Nat
    BY <1>0, <1>3, RoundCounted, RoundsAssumption DEF CloseRound
  <2>2. CASE rounds > 1
    BY <1>3, <2>1, <2>2 DEF CloseRound, Call, LogInv
  <2>3. CASE ~(rounds > 1)
    <3>1. rounds' = 0 /\ routine' = "last" /\ logged' = logged + 2 /\ Walked' = 0
      BY <1>0, <1>3, <2>1, <2>3 DEF CloseRound, Call, Walked
    <3>2. logged' = LoggedBefore' + 2 + Walked'
      BY <2>1, <3>1
    <3> QED BY <3>1, <3>2 DEF LogInv
  <2> QED BY <2>2, <2>3
<1>4. CASE SelectRow \/ SelectCol
  BY <1>1, <1>4 DEF SelectRow, SelectCol, Walked
<1>5. CASE SkipOver \/ EnterInject \/ Raise \/ Lower
  <2>1. UNCHANGED <<routine, rounds, logged>> /\ routine \in {"verify", "inject"}
    BY <1>5 DEF SkipOver, EnterInject, Raise, Lower
  <2> QED BY <1>2, <2>1 DEF LogInv
<1>6. CASE EnterMeasure
  <2>1. UNCHANGED <<routine, rounds, logged>> /\ Walked' = Walked
    BY <1>6 DEF EnterMeasure, Walked
  <2> QED BY <1>1, <2>1
<1>7. CASE LogReading
  <2>1. UNCHANGED <<routine, rounds>> /\ routine \in Blocks /\ logged' = logged + 1
    BY <1>7 DEF LogReading
  <2>2. Walked' = Walked + 1 /\ Walked \in Nat
    BY <1>0, <1>7 DEF LogReading, NextRecord, Walked
  <2> QED BY <1>0, <1>2, <2>1, <2>2 DEF LogInv, Blocks
<1>8. CASE LeaveFirst
  <2>1. rounds = Rounds /\ logged = 2 + N /\ routine' = "verify" /\ UNCHANGED <<rounds, logged>>
    BY <1>8 DEF LeaveFirst, Call, LogInv, Walked
  <2>2. LoggedBefore = 2 + N
    <3>1. RoundsLogged = 0
      BY <2>1, RoundsAssumption DEF RoundsLogged
    <3> QED BY <1>0, <3>1 DEF LoggedBefore
  <2> QED BY <1>2, <2>1, <2>2 DEF LogInv
<1>9. CASE LeaveRound
  <2>1. MeasOn /\ logged = LoggedBefore + 2 + N /\ CloseRound /\ rounds > 0
    BY <1>9 DEF LeaveRound, LogInv, Walked, FrameInv, PlaceInv
  <2> QED BY <1>0, <1>3, <2>1
<1>10. CASE LeaveLast
  <2>1. /\ rounds = 0 /\ logged = LoggedBefore + 2 + N
        /\ routine' = "end" /\ logged' = logged + 1 /\ rounds' = rounds
    BY <1>10 DEF LeaveLast, Call, LogInv, Walked
  <2>2. LogBudget = LoggedBefore + 2 + N + 1
    <3> DEFINE r == IF MeasOn THEN Rounds ELSE 0
    <3>1. r \in Nat /\ RoundsLogged = r
      BY <2>1, RoundsAssumption DEF RoundsLogged
    <3>2. LogBudget = 2 + N + (2 + N) * (r + 1) + 1
      <4>1. 1 + r = r + 1
        BY <3>1
      <4> QED BY <4>1 DEF LogBudget
    <3>3. LoggedBefore = 2 + N + (2 + N) * r
      BY <3>1 DEF LoggedBefore
    <3> HIDE DEF r
    <3>4. \A m \in Nat : m * (r + 1) = m * r + m /\ m * r \in Nat
      BY <3>1, SMT
    <3>5. (2 + N) * (r + 1) = (2 + N) * r + (2 + N) /\ (2 + N) * r \in Nat
      <4>1. 2 + N \in Nat
        BY <1>0
      <4> QED BY <3>4, <4>1
    <3> DEFINE words == (2 + N) * r
    <3>6. (2 + N) * (r + 1) = words + (2 + N) /\ words \in Nat /\ LoggedBefore = 2 + N + words
      BY <3>3, <3>5
    <3> HIDE DEF words
    <3> QED BY <1>0, <3>2, <3>6
  <2> QED BY <2>1, <2>2 DEF LogInv
<1>11. CASE Rest
  <2>1. logged = LoggedBefore /\ rounds > 0
    BY <1>11 DEF Rest, LogInv, FrameInv, PlaceInv
  <2>2. CASE MeasOn
    <3>1. routine' = "round" /\ rounds' = rounds /\ logged' = logged + 2 /\ Walked' = 0
      BY <1>11, <2>2 DEF Rest, Call, Walked
    <3>2. logged' = LoggedBefore' + 2 + Walked'
      BY <1>0, <1>2, <2>1, <3>1
    <3> QED BY <2>2, <3>1, <3>2 DEF LogInv
  <2>3. CASE ~MeasOn
    <3>1. CloseRound /\ logged = LoggedBefore + 0
      BY <1>0, <1>11, <2>1, <2>3 DEF Rest
    <3> QED BY <1>3, <2>1, <2>3, <3>1
  <2> QED BY <2>2, <2>3
<1> QED BY <1>4, <1>5, <1>6, <1>7, <1>8, <1>9, <1>10, <1>11 DEF SharedStep

\* No step but a shared one writes the log, or leaves the three routines
\* between two blocks of it.
LEMMA LogQuiet ==
  ASSUME LogInv, UNCHANGED <<rounds, logged>>,
         routine \in {"verify", "calculate", "inject"},
         routine' \in {"verify", "calculate", "inject"}
  PROVE  LogInv'
BY DEF LogInv, LoggedBefore, RoundsLogged

LEMMA LogStutter ==
  ASSUME LogInv, UNCHANGED vars
  PROVE  LogInv'
BY DEF LogInv, LoggedBefore, RoundsLogged, Walked, vars

\* The count never exceeds the words the host left free for the log.
LEMMA LogBounded ==
  ASSUME FrameInv, LogInv
  PROVE  LogFits
<1>0. /\ N \in Nat /\ N > 0 /\ idx \in Nat /\ 1 <= idx /\ idx <= N
      /\ rounds \in Nat /\ rounds <= Rounds /\ Rounds \in Nat
      /\ logged \in Nat /\ LoggedBefore \in Nat /\ RoundsLogged \in Nat
  BY LogTypes DEF FrameInv, TypeOK
<1> DEFINE r == IF MeasOn THEN Rounds ELSE 0
           L == 2 + N
<1>1. r \in Nat /\ L \in Nat /\ LogBudget = L + L * (1 + r) + 1
  BY <1>0 DEF LogBudget
<1>2. LoggedBefore = L + L * RoundsLogged
  BY DEF LoggedBefore
<1>3. Walked \in Nat /\ Walked <= N
  BY <1>0 DEF Walked
<1>4. RoundsLogged <= r /\ (routine = "round" => RoundsLogged + 1 <= 1 + r)
  BY <1>0 DEF RoundsLogged
<1>5. \A m \in Nat : \A a, b \in Nat : a <= b => m * a <= m * b /\ m * a \in Nat /\ m * b \in Nat
  BY SMT
<1>6. \A m \in Nat : \A a \in Nat : m * (1 + a) = m * a + m /\ m * a \in Nat
  BY SMT
<1> DEFINE A == L * RoundsLogged
           B == L * r
<1>7. /\ A <= B /\ A \in Nat /\ B \in Nat
      /\ L * (1 + r) = B + L
  <2> HIDE DEF L, r
  <2> QED BY <1>0, <1>1, <1>4, <1>5, <1>6
<1>8. LogBudget = L + (B + L) + 1 /\ LoggedBefore = L + A
  BY <1>1, <1>2, <1>7
<1> HIDE DEF A, B, r
<1>9. CASE routine = "first"
  BY <1>0, <1>3, <1>7, <1>8, <1>9 DEF LogInv, LogFits
<1>10. CASE routine \in {"verify", "calculate", "inject"}
  BY <1>0, <1>3, <1>7, <1>8, <1>10 DEF LogInv, LogFits
<1>11. CASE routine \in {"round", "last"}
  BY <1>0, <1>3, <1>7, <1>8, <1>11 DEF LogInv, LogFits
<1>12. CASE routine = "end"
  BY <1>0, <1>3, <1>7, <1>8, <1>12 DEF LogInv, LogFits
<1> QED BY <1>9, <1>10, <1>11, <1>12 DEF FrameInv, TypeOK, Measures, Blocks

-----------------------------------------------------------------------------
(* The rules of the array. *)

\* What a shared step does to the array, to the selection and to the status.
LEMMA SharedStepRules ==
  ASSUME SharedStep
  PROVE  Physics /\ (SelectRow \/ SelectCol \/ UNCHANGED select) /\ status' = status
BY DEF SharedStep, SelectRow, SelectCol, SkipOver, EnterMeasure, LogReading, LeaveFirst,
       LeaveRound, LeaveLast, EnterInject, Raise, Lower, Rest, select, list

LEMMA RestHolds ==
  ASSUME FrameInv
  PROVE  MeasuredAtRest
BY DEF FrameInv, TypeOK, VoltageInv, PlaceInv, MeasuredAtRest, Measures, Blocks

\* A step that moves the selection only as SelectRow and SelectCol do, and opens
\* no record that is over, keeps the three rules.
LEMMA RulesHold ==
  ASSUME FrameInv, FrameInv', Physics \/ UNCHANGED vars,
         SelectRow \/ SelectCol \/ UNCHANGED select,
         \A i \in Recs : status[i] = 0 => status'[i] = 0
  PROVE  /\ row' # row \/ col' # col => ~Pulled /\ ~Pulled'
         /\ \A c \in Cells \ Listed : level'[c] = level[c]
         /\ \A i \in Recs : status[i] = 0 => status'[i] = 0 /\ level'[Cell[i]] = level[Cell[i]]
<1>1. ASSUME row' # row \/ col' # col
      PROVE  ~Pulled /\ ~Pulled'
  <2>1. at \in {"row", "col"} /\ at' \in {"col", "test"}
    BY <1>1 DEF SelectRow, SelectCol, select
  <2>2. (Pulled => at = "pulse") /\ (Pulled' => at' = "pulse")
    BY DEF FrameInv, VoltageInv, Pulled
  <2> QED BY <2>1, <2>2
<1>2. \A c \in Cells \ Listed : level'[c] = level[c]
  BY UnlistedStep DEF vars
<1>3. \A i \in Recs : status[i] = 0 => level'[Cell[i]] = level[Cell[i]]
  BY OverStep DEF vars
<1> QED BY <1>1, <1>2, <1>3
=============================================================================
