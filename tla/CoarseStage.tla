----------------------------- MODULE CoarseStage -----------------------------
(***************************************************************************)
(* What the two coarse programs share: the target code of each record, the *)
(* table of cumulative pulse counts the host wrote at 0x6800, and the      *)
(* burst, a count of equal pulses with the drain at ground.                *)
(***************************************************************************)
EXTENDS FGBoard

CONSTANTS
  Target,    \* third word of each record
  OneNA,     \* ADC_1nA, the code of the current the table starts at
  Table      \* pulses from 1 nA to 64 * index codes above it; what lies past
             \* the words of the host's file is whatever 0x6800 held before

TableSize == 256
TableIndices == 0 .. TableSize - 1

ASSUME TargetAssumption == Target \in [Recs -> CodeRange]
ASSUME OneNAAssumption == OneNA \in CodeRange
ASSUME TableAssumption == Table \in [TableIndices -> Word]

Pull ==
  /\ routine = "inject" /\ at = "pull"
  /\ drain' = "gnd"
  /\ at' = "pulse"
  /\ Physics
  /\ UNCHANGED <<select, ivdd, tun, list, routine, idx, rounds, pulses, logged>>

\* dec.w r8 does not reach zero: another unit with the drain still down
NextPulse ==
  /\ routine = "inject" /\ at = "pulse"
  /\ pulses # 1
  /\ pulses' = Sub(pulses, 1)
  /\ Physics
  /\ UNCHANGED <<select, volts, list, routine, at, idx, rounds, logged>>

\* slip: the drain is not taken back to the supply
LastPulseLate(word) ==
  /\ routine = "inject" /\ at = "pulse"
  /\ pulses = 1
  /\ pulses' = 0
  /\ status' = [status EXCEPT ![idx] = word]
  /\ NextRecord
  /\ Physics
  /\ UNCHANGED <<select, volts, diff, routine, rounds, logged>>

LastPulse(word) ==
  /\ routine = "inject" /\ at = "pulse"
  /\ pulses = 1
  /\ pulses' = 0
  /\ status' = [status EXCEPT ![idx] = word]
  /\ drain' = "ivdd"
  /\ NextRecord
  /\ Physics
  /\ UNCHANGED <<select, ivdd, tun, diff, routine, rounds, logged>>

LeaveVerifyC == LeaveVerify("calculate")

CoarseStep == SharedStep \/ LeaveVerifyC \/ Pull \/ NextPulse

-----------------------------------------------------------------------------
\* What first_coarse_program promises of its counts, in the terms of the list and
\* the table alone.  Pulses due, over the integers, to a gate at the given level:
Start(reading) == IF reading < OneNA THEN OneNA ELSE reading
DistanceDue(i, reading) == Table[(Target[i] - Start(reading)) \div 64]

\* Every count that coarse_inject is about to carry out is the table's entry
\* for the distance between the target and where the gate is now, not where
\* some other record's gate was.  It is claimed for targets of at least 1 nA:
\* below, the distance wraps to an index near 255 (see BelowOneNA).
CountFitsDistance ==
  routine = "inject" =>
    \A i \in Armed : \/ at = "pulse" /\ i = idx
                     \/ Target[i] < OneNA
                     \/ status[i] = DistanceDue(i, level[Cell[i]])

\* What happens to a target below 1 nA: the number of pulses does not depend
\* on the reading and comes from the far end of the table.
BelowOneNA ==
  routine = "inject" =>
    \A i \in Armed : \/ at = "pulse" /\ i = idx
                     \/ Target[i] >= OneNA
                     \/ status[i] = Table[255 - ((OneNA - Target[i] - 1) \div 64)]

\* A burst never takes more units than its record's status ordered, and the
\* program gives every gate at most one: when main ends, every record is over.
OneBurstEach ==
  /\ at = "pulse" => 1 <= pulses /\ pulses <= status[idx]
  /\ routine \in {"last", "end"} => \A i \in Recs : ~Live(i)
=============================================================================
