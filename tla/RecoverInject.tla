---------------------------- MODULE RecoverInject ----------------------------
(***************************************************************************)
(* recover_inject_SWC: after an erase, lift every gate of the list to the  *)
(* level where the coarse stage can measure it.  measure_verify sorts the  *)
(* reading into brackets VC4 < VC3 < VC2 < VC1 and writes the order for    *)
(* coarse_inject into the status word: a stronger pull of the drain far    *)
(* from the goal, a gentler one close to it, none beyond VC1.              *)
(***************************************************************************)
EXTENDS FGBoard

CONSTANTS
  VC1, VC2, VC3, VC4,   \* RI_VC1_SWC ... RI_VC4_SWC
  TwoUnits              \* the double first unit, which lowsubVt comments out
ASSUME BracketAssumption ==
  /\ VC1 \in CodeRange /\ VC2 \in CodeRange /\ VC3 \in CodeRange /\ VC4 \in CodeRange
  /\ VC4 <= VC3 /\ VC3 <= VC2 /\ VC2 <= VC1
ASSUME TwoUnitsAssumption == TwoUnits \in BOOLEAN

GentlePull == 52428    \* 0xcccc
MiddlePull == 56797    \* 0xdddd
StrongPull == 61166    \* 0xeeee

\* slip: the gentle order is not written
VerdictKeep(reading, old) ==
  IF ~Below(reading, VC1) THEN 0
  ELSE IF ~Below(reading, VC2) THEN old
  ELSE IF ~Below(reading, VC3) THEN MiddlePull
  ELSE IF ~Below(reading, VC4) THEN StrongPull
  ELSE old

\* slip: the operands of the first comparison are swapped
VerdictSwapped(reading, old) ==
  IF Below(VC1, reading) THEN 0
  ELSE IF ~Below(reading, VC2) THEN GentlePull
  ELSE IF ~Below(reading, VC3) THEN MiddlePull
  ELSE IF ~Below(reading, VC4) THEN StrongPull
  ELSE old

\* below VC4 the status word is left as it is
Verdict(reading, old) ==
  IF ~Below(reading, VC1) THEN 0
  ELSE IF ~Below(reading, VC2) THEN GentlePull
  ELSE IF ~Below(reading, VC3) THEN MiddlePull
  ELSE IF ~Below(reading, VC4) THEN StrongPull
  ELSE old

Judge ==
  /\ routine = "verify" /\ at = "test"
  /\ Live(idx)
  /\ drain' = "fg_inn"
  /\ status' = [status EXCEPT ![idx] = Verdict(level[<<row, col>>], @)]
  /\ NextRecord
  /\ Physics
  /\ UNCHANGED <<select, ivdd, tun, diff, routine, rounds, pulses, logged>>

\* slip: the two drain voltages are swapped
DrainForSwapped(order) == CASE order = GentlePull -> "VD2"
                            [] order = MiddlePull -> "VD1"
                            [] OTHER -> "gnd"

DrainFor(order) == CASE order = GentlePull -> "VD1"
                     [] order = MiddlePull -> "VD2"
                     [] OTHER -> "gnd"

\* (on its way to ground the drain register passes VD1 and VD2, one
\* instruction each, which is short against a unit of 10 us)
Pull ==
  /\ routine = "inject" /\ at = "pull"
  /\ drain' = DrainFor(pulses)
  /\ at' = "pulse"
  /\ Physics
  /\ UNCHANGED <<select, ivdd, tun, list, routine, idx, rounds, pulses, logged>>

\* one unit, and a second one while the status is still the host's; r8 keeps
\* the order, so the second unit is recorded here by clearing pulses
FirstUnit ==
  /\ routine = "inject" /\ at = "pulse"
  /\ TwoUnits /\ pulses = Unset
  /\ pulses' = 0
  /\ Physics
  /\ UNCHANGED <<select, volts, list, routine, at, idx, rounds, logged>>

\* slip: the drain is not taken back to the supply
ReleaseLate ==
  /\ routine = "inject" /\ at = "pulse"
  /\ ~(TwoUnits /\ pulses = Unset)
  /\ NextRecord
  /\ Physics
  /\ UNCHANGED <<select, volts, list, routine, rounds, pulses, logged>>

Release ==
  /\ routine = "inject" /\ at = "pulse"
  /\ ~(TwoUnits /\ pulses = Unset)
  /\ drain' = "ivdd"
  /\ NextRecord
  /\ Physics
  /\ UNCHANGED <<select, ivdd, tun, list, routine, rounds, pulses, logged>>

LeaveVerifyRI == LeaveVerify("inject")

Next == SharedStep \/ Judge \/ LeaveVerifyRI \/ Pull \/ FirstUnit \/ Release \/ Stopped

Spec == Init /\ [][Next]_vars /\ WF_vars(Next)

-----------------------------------------------------------------------------
\* Every order that coarse_inject is about to carry out is the one the
\* brackets give for the level the gate has now: no burst of another record,
\* and no word left from an earlier round, makes an order stale.  (Below VC4
\* the word is not written; it is still the host's because levels only rise.)
OrderFitsLevel ==
  routine = "inject" =>
    \A i \in Armed : \/ at = "pulse" /\ i = idx
                     \/ status[i] = Verdict(level[Cell[i]], Unset)

\* Why it does: a record that is not over carries the host's word until its gate
\* has been measured at VC4 or above, and a level never falls below it again.
UnsetBelow ==
  \A i \in Recs : status[i] \in {0, Unset} \/ level[Cell[i]] >= VC4
OrderInv ==
  /\ UnsetBelow
  /\ \A i \in Armed : \/ routine = "inject" /\ at = "pulse" /\ i = idx
                      \/ status[i] = Verdict(level[Cell[i]], Unset)

\* A gate that has reached VC2 is never pulled to VD2 or to ground in a later
\* burst, and one that has reached VC4 gets one unit at most.
GentleNearGoal ==
  [][at = "pull" /\ at' = "pulse" =>
       /\ level[Cell[idx]] >= VC2 => drain' = "VD1"
       /\ level[Cell[idx]] >= VC4 => pulses' # Unset]_vars

\* The program implements the abstract stage with VC1 for its goal.
Stage == INSTANCE InjectionStage WITH
           Goal <- [i \in Recs |-> VC1],
           live <- {i \in Recs : Live(i)},
           armed <- Armed
ImplementsStage == Stage!Spec
=============================================================================
