----------------------------- MODULE FineProgram -----------------------------
(***************************************************************************)
(* fine_program_aboveVt_m_ave_04_SWC: up to FPA_NUM rounds of measuring    *)
(* every gate, the mean of four readings, and giving it one pulse whose    *)
(* drain voltage comes from a table indexed by how far the gate is from    *)
(* the target and how far it is above 1 nA.                                *)
(***************************************************************************)
EXTENDS FGBoard

CONSTANTS
  Target,          \* third word of each record
  OneNA,           \* ADC_1nA
  ShiftA, ShiftB,  \* 2^FPA_VD_A, 2^FPA_VD_B
  Offset,          \* FPA_VD_OS
  SA,              \* FPA_VD_SA: 1 adds the two terms of the index, 0 subtracts
  VdGnd,           \* FPA_VD_GND
  Vd,              \* words of memory from 0x6800 up to the list at 0x7000
  FileWords,       \* how many of them the host's Vd table fills
  Reach            \* how far from its target the coarse stage leaves a gate

VdSize == 1024
VdIndices == 0 .. VdSize - 1

ASSUME TargetAssumption == Target \in [Recs -> CodeRange]
ASSUME OneNAAssumption == OneNA \in CodeRange
ASSUME ShiftAssumption ==
  ShiftA \in Nat /\ ShiftA > 0 /\ ShiftB \in Nat /\ ShiftB > 0
ASSUME FlagAssumption == SA \in {0, 1} /\ VdGnd \in BOOLEAN
ASSUME OffsetAssumption == Offset \in Nat /\ Offset < 256
ASSUME VdAssumption == Vd \in [VdIndices -> Word] /\ FileWords \in Nat /\ Reach \in Nat

\* Vd is all the firmware can read: no distance leads into the list.
ASSUME IndexAssumption ==
  \A i \in Recs, c \in Codes :
    c < Target[i] => VdIndexRef(Target[i], c, OneNA, ShiftA, ShiftB, Offset, SA) \in VdIndices

\* Reach is such that the index of a gate that is no further from its target lies
\* within the file.
ASSUME ReachAssumption ==
  \A i \in Recs :
    Reach \div ShiftB + Offset
      + (IF SA = 0 THEN 0 ELSE StepsAbove(Target[i], OneNA, ShiftA)) < FileWords

\* slip: jn and jz taken for the same
AtGoalStrict(i, mean) == Below(Target[i], mean)

AtGoal(i, mean) == ~Below(mean, Target[i])

\* carry: what the loop that adds the four readings leaves in the carry flag
Judge ==
  /\ routine = "verify" /\ at = "test"
  /\ Live(idx)
  /\ drain' = "fg_inn"
  /\ \E carry \in {0, 1} :
       LET l == level[<<row, col>>]
           mean == Average4(l, l, l, l, carry)
       IN  IF AtGoal(idx, mean)
           THEN /\ status' = [status EXCEPT ![idx] = 0]
                /\ UNCHANGED diff
           ELSE /\ diff' = [diff EXCEPT ![idx] = Sub(Target[idx], mean)]
                /\ UNCHANGED status
  /\ NextRecord
  /\ Physics
  /\ UNCHANGED <<select, ivdd, tun, routine, rounds, pulses, logged>>

\* Vd_calculate; the address of the table word replaces the distance
TableAddress(index) == Add(26624, 2 * index)       \* 0x6800

\* slip: the two shifts are swapped
IndexSwapped(i) == VdIndex(Target[i], diff[i], OneNA, ShiftB, ShiftA, Offset, SA)

\* slip: the offset in bytes is taken for the one in words
IndexBytes(i) == 2 * VdIndex(Target[i], diff[i], OneNA, ShiftA, ShiftB, Offset, SA)

Index(i) == VdIndex(Target[i], diff[i], OneNA, ShiftA, ShiftB, Offset, SA)

Calculate ==
  /\ routine = "calculate" /\ at = "enter"
  /\ status' = [i \in Recs |-> IF Live(i) THEN Vd[Index(i)] ELSE 0]
  /\ diff' = [i \in Recs |-> IF Live(i) THEN TableAddress(Index(i)) ELSE diff[i]]
  /\ Call("inject")
  /\ Physics
  /\ UNCHANGED <<select, volts, idx, rounds, pulses, logged>>

Pull ==
  /\ routine = "inject" /\ at = "pull"
  /\ drain' = IF VdGnd THEN "gnd" ELSE "table"
  /\ at' = "pulse"
  /\ Physics
  /\ UNCHANGED <<select, ivdd, tun, list, routine, idx, rounds, pulses, logged>>

\* slip: the drain is not taken back to the supply
ReleaseLate ==
  /\ routine = "inject" /\ at = "pulse"
  /\ NextRecord
  /\ Physics
  /\ UNCHANGED <<select, volts, list, routine, rounds, pulses, logged>>

Release ==
  /\ routine = "inject" /\ at = "pulse"
  /\ drain' = "ivdd"
  /\ NextRecord
  /\ Physics
  /\ UNCHANGED <<select, ivdd, tun, list, routine, rounds, pulses, logged>>

LeaveVerifyFP == LeaveVerify("calculate")

Next == SharedStep \/ Judge \/ LeaveVerifyFP \/ Calculate \/ Pull \/ Release \/ Stopped

Spec == Init /\ [][Next]_vars /\ WF_vars(Next)

-----------------------------------------------------------------------------
IndexDue(i, reading) ==
  VdIndexRef(Target[i], reading, OneNA, ShiftA, ShiftB, Offset, SA)

\* Every drain word that fine_inject is about to use is the table's word for
\* the level the gate has now, although Vd_calculate overwrites the distance
\* it starts from: each round measures before it calculates.
WordFitsLevel ==
  routine = "inject" =>
    \A i \in Armed : \/ at = "pulse" /\ i = idx
                     \/ status[i] = Vd[IndexDue(i, level[Cell[i]])]

\* A gate that the coarse stage left within Reach codes of its target is pulsed
\* with a word of the host's file; a gate further off may index past the file,
\* into the pulse counts that the coarse stage's table left there.
WordFromFile ==
  routine = "inject" =>
    \A i \in Armed : \/ at = "pulse" /\ i = idx
                     \/ Target[i] - level[Cell[i]] > Reach
                     \/ \E t \in VdIndices : t < FileWords /\ status[i] = Vd[t]

\* Why that is so: the distance written for a gate is the one from where the gate
\* still is, since nothing rises between the reading and the calculation.
DistanceInv ==
  \A i \in Armed :
    routine \in {"verify", "calculate"} =>
      /\ level[Cell[i]] < Target[i]
      /\ diff[i] = Sub(Target[i], level[Cell[i]])

WordInv == DistanceInv /\ WordFitsLevel /\ WordFromFile

\* The program implements the abstract stage with the target for its goal.
Stage == INSTANCE InjectionStage WITH
           Goal <- Target,
           live <- {i \in Recs : Live(i)},
           armed <- Armed
ImplementsStage == Stage!Spec
=============================================================================
