---------------------------- MODULE MeasuredCoarse ----------------------------
(***************************************************************************)
(* measured_coarse_program_aboveVt_SWC: up to CP_NUM rounds of measuring   *)
(* every gate and giving it the pulses that, by the table, separate its    *)
(* reading from the target, until the reading is within Margin of the      *)
(* target (500 codes; 300 in the lowsubVt program).                        *)
(***************************************************************************)
EXTENDS CoarseStage

CONSTANT Margin
ASSUME MarginAssumption == Margin \in Nat /\ \A i \in Recs : Margin <= Target[i]

\* The counts are cumulative as far as a target leads, as those of every file of
\* pulse_width_table are.
ASSUME GrowthAssumption ==
  \A i \in Recs : \A j, k \in TableIndices :
    j <= k /\ 64 * k <= Target[i] => Table[j] <= Table[k]

GoalOf(i) == Sub(Target[i], Margin)

\* slip: jn and jz taken for the same
AtGoalStrict(i, reading) == Below(GoalOf(i), reading)

AtGoal(i, reading) == ~Below(reading, GoalOf(i))

Judge ==
  /\ routine = "verify" /\ at = "test"
  /\ Live(idx)
  /\ drain' = "fg_inn"
  /\ LET reading == level[<<row, col>>]
     IN  IF AtGoal(idx, reading)
         THEN /\ status' = [status EXCEPT ![idx] = 0]
              /\ UNCHANGED diff
         ELSE /\ diff' = [diff EXCEPT ![idx] = Sub(Add(GoalOf(idx), Margin), reading)]
              /\ UNCHANGED status
  /\ NextRecord
  /\ Physics
  /\ UNCHANGED <<select, ivdd, tun, routine, rounds, pulses, logged>>

\* Pulse_w_calculate of one record; c and d are the carries before its two
\* chains of rotates.
AtLeastOneNA(start) == IF ~Below(start, OneNA) THEN start ELSE OneNA

\* slip: the count is taken from 1 nA, as in the first coarse stage
PulseCountFromZero(target, missing, c, d) ==
  LET above == Sub(AtLeastOneNA(Sub(target, missing)), OneNA)
  IN  Table[PulseIndex(Add(above, missing), d)]

PulseCount(target, missing, c, d) ==
  LET above == Sub(AtLeastOneNA(Sub(target, missing)), OneNA)
      whole == Add(above, missing)
  IN  Sub(Table[PulseIndex(whole, d)], Table[PulseIndex(above, c)])

Calculate ==
  /\ routine = "calculate" /\ at = "enter"
  /\ \E c, d \in [Recs -> {0, 1}] :
       status' = [i \in Recs |-> IF Live(i) THEN PulseCount(Target[i], diff[i], c[i], d[i])
                                            ELSE 0]
  /\ Call("inject")
  /\ Physics
  /\ UNCHANGED <<select, volts, diff, idx, rounds, pulses, logged>>

\* slip: the record is closed, as in the first coarse stage
EndOfBurstOver == LastPulse(0)

\* mov #0xffff, @r11: the record is measured again in the next round
EndOfBurst == LastPulse(Unset)

Next == CoarseStep \/ Judge \/ Calculate \/ EndOfBurst \/ Stopped

Spec == Init /\ [][Next]_vars /\ WF_vars(Next)

-----------------------------------------------------------------------------
\* Pulses due, over the integers, to a gate at the given level: the table's
\* entry for the target less its entry for the level.  A level below 1 nA
\* starts at entry 0, but its distance to the target is not cut to 1 nA.
PulsesDue(i, reading) ==
  IF reading < OneNA
  THEN Table[(Target[i] - reading) \div 64] - Table[0]
  ELSE Table[(Target[i] - OneNA) \div 64] - Table[(reading - OneNA) \div 64]

\* Every count that coarse_inject is about to carry out is the one due to the
\* level the gate has now: the word 0xffff that a burst leaves behind, a
\* count of an earlier round or of another record is never taken for it.
CountFitsLevel ==
  routine = "inject" =>
    \A i \in Armed : \/ at = "pulse" /\ i = idx
                     \/ status[i] = PulsesDue(i, level[Cell[i]])

\* A record is given up short of its goal only when the table puts less than
\* one pulse between its gate and the target: the word 0 is both a count and
\* the mark that the record is over.
OpenOrThere ==
  \A i \in Recs :
    Live(i) \/ level[Cell[i]] >= Target[i] - Margin \/ PulsesDue(i, level[Cell[i]]) = 0

\* Why that is so: the distance written for a gate is the one from where the gate
\* still is, since nothing rises between the reading and the calculation.
DistanceInv ==
  \A i \in Armed :
    routine \in {"verify", "calculate"} =>
      /\ level[Cell[i]] < Target[i] - Margin
      /\ diff[i] = Sub(Target[i], level[Cell[i]])

CountInv == DistanceInv /\ CountFitsLevel /\ OpenOrThere

\* The program implements the abstract stage with the margin below the target
\* for its goal.
Stage == INSTANCE InjectionStage WITH
           Goal <- [i \in Recs |-> Target[i] - Margin],
           live <- {i \in Recs : Live(i)},
           armed <- Armed
ImplementsStage == Stage!Spec
=============================================================================
