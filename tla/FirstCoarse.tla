----------------------------- MODULE FirstCoarse -----------------------------
(***************************************************************************)
(* first_coarse_program_SWC: one reading, one burst.  The burst takes the  *)
(* gate from 1 nA, or from its reading if that is higher, by the number of *)
(* pulses the table gives for the distance to the target.                  *)
(***************************************************************************)
EXTENDS CoarseStage

ASSUME OneRoundAssumption == Rounds = 1 /\ ~MeasOn

\* slip: the reading is not cut to 1 nA
AtLeastZero(reading) == reading

AtLeastOneNA(reading) == IF ~Below(reading, OneNA) THEN reading ELSE OneNA

\* slip: jn and jz taken for the same
AtGoalStrict(i, reading) == Below(Target[i], reading)

AtGoal(i, reading) == ~Below(reading, Target[i])

Judge ==
  /\ routine = "verify" /\ at = "test"
  /\ Live(idx)
  /\ drain' = "fg_inn"
  /\ LET reading == level[<<row, col>>]
     IN  IF AtGoal(idx, reading)
         THEN /\ status' = [status EXCEPT ![idx] = 0]
              /\ UNCHANGED diff
         ELSE /\ diff' = [diff EXCEPT ![idx] = Sub(Target[idx], AtLeastOneNA(reading))]
              /\ UNCHANGED status
  /\ NextRecord
  /\ Physics
  /\ UNCHANGED <<select, ivdd, tun, routine, rounds, pulses, logged>>

\* carry[i]: what add, incd or cmp left in the carry flag before the rotates
Calculate ==
  /\ routine = "calculate" /\ at = "enter"
  /\ \E carry \in [Recs -> {0, 1}] :
       status' = [i \in Recs |-> IF Live(i) THEN Table[PulseIndex(diff[i], carry[i])]
                                            ELSE 0]
  /\ Call("inject")
  /\ Physics
  /\ UNCHANGED <<select, volts, diff, idx, rounds, pulses, logged>>

\* slip: the record stays open, as in the measured stage
EndOfBurstOpen == LastPulse(Unset)

\* mov r8, @r11 after the loop has counted r8 down: the record is over
EndOfBurst == LastPulse(0)

Next == CoarseStep \/ Judge \/ Calculate \/ EndOfBurst \/ Stopped

Spec == Init /\ [][Next]_vars /\ WF_vars(Next)

-----------------------------------------------------------------------------
\* Why that is so: the distance written for a gate is the one from where the gate
\* still is, since nothing rises between the reading and the calculation ...
DistanceInv ==
  \A i \in Armed :
    routine \in {"verify", "calculate"} =>
      /\ level[Cell[i]] < Target[i]
      /\ diff[i] = Sub(Target[i], AtLeastOneNA(level[Cell[i]]))

\* ... and the one walk of coarse_inject closes every record it passes.
ClosedInv ==
  /\ routine = "inject" => \A i \in Recs : Live(i) => i \in Armed
  /\ routine \in {"round", "last", "end"} => \A i \in Recs : ~Live(i)

CountInv == DistanceInv /\ ClosedInv /\ CountFitsDistance /\ BelowOneNA /\ OneBurstEach

\* The program implements the abstract stage with the target for its goal.
Stage == INSTANCE InjectionStage WITH
           Goal <- Target,
           live <- {i \in Recs : Live(i)},
           armed <- Armed
ImplementsStage == Stage!Spec
=============================================================================
