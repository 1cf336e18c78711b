------------------------------- MODULE FGBoard -------------------------------
(***************************************************************************)
(* What the four injection programs of the FPAA firmware share: the array  *)
(* of floating gates and the voltages that act on it, the list of records  *)
(* the host wrote at 0x7000, the routine that logs every gate              *)
(* (block_measure), the frame of the routine that injects, and main.       *)
(*                                                                         *)
(* The processor is alone (main disables interrupts and holds the          *)
(* watchdog); what runs beside it is the array: in every step that starts  *)
(* with the drain pulled below a 6 V supply, the selected gate may rise.   *)
(*                                                                         *)
(* Source lines are those of recover_inject_SWC.s43 unless "map" says      *)
(* otherwise; the other three programs repeat them.                        *)
(*                                                                         *)
(* Definitions under "slip:" are no part of the model: each is the next    *)
(* definition with one mistake in it, kept to show that the properties     *)
(* notice (PROJECT.json, "mutants").                                       *)
(***************************************************************************)
EXTENDS Integers, TableIndex

CONSTANTS
  Rows, Cols,    \* what ROW_SEL and COL_SEL may hold
  N,             \* number of records, the word at 0x7000
  Cell,          \* Cell[i] = <<row, column>> of record i
  Codes,         \* readings of the converter that the model tells apart
  StartBoards,   \* levels of the array when the program is loaded
  Rounds,        \* RI_NUM, CP_NUM or FP_NUM; 1 in the first coarse program
  MeasOn         \* RI_MEAS_ON, CP_MEAS_ON or FP_MEAS_ON; FALSE in first coarse

Recs == 1 .. N
Cells == Rows \X Cols

ASSUME RecordsAssumption ==
  /\ N \in Nat /\ N > 0
  /\ Cell \in [Recs -> Cells]
  /\ \A i, j \in Recs : Cell[i] = Cell[j] => i = j
ASSUME SelectionAssumption == 0 \in Rows /\ 0 \in Cols
ASSUME LevelAssumption == Codes \subseteq CodeRange /\ StartBoards \subseteq [Cells -> Codes]
ASSUME RoundsAssumption == Rounds \in Nat /\ Rounds > 0 /\ MeasOn \in BOOLEAN

VARIABLES
  level,      \* the array: the code the converter would return for each gate
  row, col,   \* ROW_SEL, COL_SEL
  drain,      \* DRAIN_CTRL: what the selected drain is connected to
  ivdd,       \* GP_PER_1: the supply of the array
  tun,        \* TUN_MUX
  status,     \* fifth word of each record: 0 over, else this round's order
  diff,       \* fourth word of each record: what is left to the target
  routine,    \* the routine running; block_measure under its three callers
  at,         \* where in the routine
  idx,        \* record under r11, N + 1 - r12
  rounds,     \* r15
  pulses,     \* r8 in the injection loop
  logged      \* words written at 0x5000 so far, (r7 - 0x5000) / 2

list == <<status, diff>>
volts == <<drain, ivdd, tun>>
select == <<row, col>>
vars == <<level, row, col, drain, ivdd, tun, status, diff, routine, at, idx,
          rounds, pulses, logged>>

Blocks == {"first", "round", "last"}
Measures == Blocks \cup {"verify"}
Unset == 65535                       \* the status the host writes, 0xffff

TypeOK ==
  /\ level \in [Cells -> Codes]
  /\ row \in Rows /\ col \in Cols
  /\ drain \in {"ivdd", "fg_inn", "VD1", "VD2", "gnd", "table"}
  /\ ivdd \in {"0V", "2.5V", "6V"}
  /\ tun \in {"gnd", "on"}
  /\ status \in [Recs -> Word]
  /\ diff \in [Recs -> Word]
  /\ routine \in Measures \cup {"calculate", "inject", "end"}
  /\ at \in {"enter", "row", "col", "test", "pull", "pulse", "leave", "rest"}
  /\ idx \in Recs
  /\ rounds \in 0 .. Rounds
  /\ pulses \in Word
  /\ logged \in Nat

Init ==
  /\ level \in StartBoards
  /\ row = 0 /\ col = 0
  /\ drain = "ivdd" /\ ivdd = "2.5V" /\ tun = "gnd"
  /\ status = [i \in Recs |-> Unset]
  /\ diff = [i \in Recs |-> 0]
  /\ routine = "first" /\ at = "enter"
  /\ idx = 1
  /\ rounds = Rounds
  /\ pulses = 0
  /\ logged = 2

-----------------------------------------------------------------------------
(* The array. *)

Pulled == ivdd = "6V" /\ drain # "ivdd"

Physics ==
  IF Pulled
  THEN \E c \in Codes : /\ c >= level[<<row, col>>]
                        /\ level' = [level EXCEPT ![<<row, col>>] = c]
  ELSE level' = level

-----------------------------------------------------------------------------
(* The walk over the records, the same in every routine. *)

Live(i) == status[i] # 0

NextRecord ==
  IF idx < N THEN idx' = idx + 1 /\ at' = "row"
             ELSE idx' = idx /\ at' = "leave"

SelectRow ==
  /\ at = "row"
  /\ row' = Cell[idx][1]
  /\ at' = "col"
  /\ Physics
  /\ UNCHANGED <<col, volts, list, routine, idx, rounds, pulses, logged>>

\* slip: the column write is missing
SelectColKept ==
  /\ at = "col"
  /\ at' = "test"
  /\ Physics
  /\ UNCHANGED <<select, volts, list, routine, idx, rounds, pulses, logged>>

SelectCol ==
  /\ at = "col"
  /\ col' = Cell[idx][2]
  /\ at' = "test"
  /\ Physics
  /\ UNCHANGED <<row, volts, list, routine, idx, rounds, pulses, logged>>

\* slip: the skip leaves out the count of records
SkipOverUncounted ==
  /\ routine \in {"verify", "inject"} /\ at = "test"
  /\ ~Live(idx)
  /\ idx' = idx /\ at' = "row"
  /\ Physics
  /\ UNCHANGED <<select, volts, list, routine, rounds, pulses, logged>>

\* jeq measure_verify_skip and jeq coarse_inject_skip
SkipOver ==
  /\ routine \in {"verify", "inject"} /\ at = "test"
  /\ ~Live(idx)
  /\ NextRecord
  /\ Physics
  /\ UNCHANGED <<select, volts, list, routine, rounds, pulses, logged>>

-----------------------------------------------------------------------------
(* measure_verify and block_measure up to their loop, and block_measure. *)

EnterMeasure ==
  /\ routine \in Measures /\ at = "enter"
  /\ ivdd' = "2.5V" /\ tun' = "gnd"
  /\ idx' = 1 /\ at' = "row"
  /\ Physics
  /\ UNCHANGED <<select, drain, list, routine, rounds, pulses, logged>>

LogReading ==
  /\ routine \in Blocks /\ at = "test"
  /\ drain' = "fg_inn"
  /\ logged' = logged + 1
  /\ NextRecord
  /\ Physics
  /\ UNCHANGED <<select, ivdd, tun, list, routine, rounds, pulses>>

\* slip: the amplifier stays connected
EndMeasureOpen == drain' = drain /\ ivdd' = "2.5V"

EndMeasure == drain' = "ivdd" /\ ivdd' = "2.5V"

Call(r) == routine' = r /\ at' = "enter"

\* slip: one round too many
CloseRoundLate ==
  /\ rounds' = rounds - 1
  /\ IF rounds >= 1 THEN Call("verify") /\ logged' = logged
                    ELSE Call("last") /\ logged' = logged + 2

\* dec r15; the loop again, or the closing log of main
CloseRound ==
  /\ rounds' = rounds - 1
  /\ IF rounds > 1 THEN Call("verify") /\ logged' = logged
                   ELSE Call("last") /\ logged' = logged + 2

LeaveFirst ==
  /\ routine = "first" /\ at = "leave"
  /\ EndMeasure
  /\ Call("verify")
  /\ Physics
  /\ UNCHANGED <<select, tun, list, idx, rounds, pulses, logged>>

LeaveRound ==
  /\ routine = "round" /\ at = "leave"
  /\ EndMeasure
  /\ CloseRound
  /\ Physics
  /\ UNCHANGED <<select, tun, list, idx, pulses>>

LeaveLast ==
  /\ routine = "last" /\ at = "leave"
  /\ EndMeasure
  /\ Call("end")
  /\ logged' = logged + 1
  /\ Physics
  /\ UNCHANGED <<select, tun, list, idx, rounds, pulses>>

LeaveVerify(next) ==
  /\ routine = "verify" /\ at = "leave"
  /\ EndMeasure
  /\ Call(next)
  /\ Physics
  /\ UNCHANGED <<select, tun, list, idx, rounds, pulses, logged>>

-----------------------------------------------------------------------------
(* The frame of the injection routine. *)

EnterInject ==
  /\ routine = "inject" /\ at = "enter"
  /\ ivdd' = "2.5V" /\ tun' = "on"
  /\ idx' = 1 /\ at' = "row"
  /\ Physics
  /\ UNCHANGED <<select, drain, list, routine, rounds, pulses, logged>>

\* slip: the status word is not tested
RaiseAll ==
  /\ routine = "inject" /\ at = "test"
  /\ pulses' = status[idx]
  /\ drain' = "ivdd" /\ ivdd' = "6V"
  /\ at' = "pull"
  /\ Physics
  /\ UNCHANGED <<select, tun, list, routine, idx, rounds, logged>>

\* the drain goes back to the supply before the supply goes to 6 V
Raise ==
  /\ routine = "inject" /\ at = "test"
  /\ Live(idx)
  /\ pulses' = status[idx]
  /\ drain' = "ivdd" /\ ivdd' = "6V"
  /\ at' = "pull"
  /\ Physics
  /\ UNCHANGED <<select, tun, list, routine, idx, rounds, logged>>

Lower ==
  /\ routine = "inject" /\ at = "leave"
  /\ ivdd' = "0V"
  /\ at' = "rest"
  /\ Physics
  /\ UNCHANGED <<select, drain, tun, list, routine, idx, rounds, pulses, logged>>

\* slip: the supply stays where Lower left it
RestLow ==
  /\ routine = "inject" /\ at = "rest"
  /\ tun' = "gnd"
  /\ IF MeasOn THEN Call("round") /\ logged' = logged + 2 /\ rounds' = rounds
               ELSE CloseRound
  /\ Physics
  /\ UNCHANGED <<select, drain, ivdd, list, idx, pulses>>

Rest ==
  /\ routine = "inject" /\ at = "rest"
  /\ ivdd' = "2.5V" /\ tun' = "gnd"
  /\ IF MeasOn THEN Call("round") /\ logged' = logged + 2 /\ rounds' = rounds
               ELSE CloseRound
  /\ Physics
  /\ UNCHANGED <<select, drain, list, idx, pulses>>

\* br #0xffff at end_of_test: the processor stops
Stopped == routine = "end" /\ UNCHANGED vars

SharedStep ==
  \/ SelectRow \/ SelectCol \/ SkipOver
  \/ EnterMeasure \/ LogReading \/ LeaveFirst \/ LeaveRound \/ LeaveLast
  \/ EnterInject \/ Raise \/ Lower \/ Rest

-----------------------------------------------------------------------------
(* Properties that every program built on this frame must have. *)

Listed == {Cell[i] : i \in Recs}

\* Records whose gate a reading of this round ordered pulses for and whose
\* burst is not over: what the walk of coarse_inject still has to serve.
Armed ==
  {i \in Recs :
     /\ Live(i)
     /\ \/ routine = "verify" /\ (at = "leave" \/ (at # "enter" /\ i < idx))
        \/ routine = "calculate"
        \/ routine = "inject" /\ (at = "enter" \/ (at \notin {"leave", "rest"} /\ i >= idx))}

\* ROW_SEL and COL_SEL are two writes, and between them a gate is selected
\* that may be in no record.  Neither write happens, nor ends, while the
\* drain is pulled below 6 V (coarse_inject releases the drain before it
\* walks on and the supply stays at 6 V meanwhile).
SelectionInterlock == [][row' # row \/ col' # col => ~Pulled /\ ~Pulled']_vars

\* No gate outside the list is injected by any step of the program, whatever
\* gates the walk selects on its way.
UnlistedUntouched ==
  [][\A c \in Cells \ Listed : level'[c] = level[c]]_vars

\* Once a status word is 0 ("Injection over") it stays 0 for the rest of the
\* program and the gate of that record keeps its level.
OverIsFinal ==
  [][\A i \in Recs : status[i] = 0 =>
       status'[i] = 0 /\ level'[Cell[i]] = level[Cell[i]]]_vars

\* The measuring amplifier is connected (fg_inn) only with the supply at
\* 2.5 V and the tunnel mux grounded, outside coarse_inject no drain is pulled
\* under 6 V, and main ends with the drain on a 2.5 V supply.
MeasuredAtRest ==
  /\ drain = "fg_inn" => ivdd = "2.5V" /\ tun = "gnd"
  /\ routine # "inject" => ivdd = "2.5V"
  /\ routine = "end" => drain = "ivdd" /\ tun = "gnd"

\* Why those properties hold, in inductive form.  Where the program is, which
\* voltages that place implies, what is selected there, whose order is in r8,
\* and that the counters are where their loops need them.
PlaceInv ==
  /\ routine \in Measures => at \in {"enter", "row", "col", "test", "leave"}
  /\ routine \in {"calculate", "end"} => at = "enter"
  /\ routine \notin {"last", "end"} => rounds > 0
VoltageInv ==
  /\ routine # "inject" => ivdd = "2.5V" /\ tun = "gnd"
  /\ at = "enter" => drain = "ivdd" /\ ivdd = "2.5V" /\ tun = "gnd"
  /\ routine = "inject" => drain = "ivdd" \/ (at = "pulse" /\ drain # "fg_inn")
SelectedInv ==
  /\ at = "col" => row = Cell[idx][1]
  /\ at \in {"test", "pull", "pulse"} => <<row, col>> = Cell[idx]
  /\ at \in {"pull", "pulse"} => Live(idx)
  /\ at = "pull" => pulses = status[idx]
FrameInv == TypeOK /\ PlaceInv /\ VoltageInv /\ SelectedInv

\* The words the host has to leave free from 0x5000 on: two before, two and
\* one reading per record for the closing log and for each round that is
\* logged, and the end mark.  Nothing in the program checks it.
LogBudget == 2 + N + (2 + N) * (1 + IF MeasOn THEN Rounds ELSE 0) + 1
LogFits == logged <= LogBudget /\ (routine = "end" => logged = LogBudget)

\* Why the log fits: the words written so far, from the rounds logged in full and
\* the records walked over in the log that is being written.
RoundsLogged == IF MeasOn THEN Rounds - rounds ELSE 0
Walked == IF at = "enter" THEN 0 ELSE IF at = "leave" THEN N ELSE idx - 1
LoggedBefore == 2 + N + (2 + N) * RoundsLogged
LogInv ==
  /\ routine = "first" => rounds = Rounds /\ logged = 2 + Walked
  /\ routine \in {"verify", "calculate", "inject"} => logged = LoggedBefore
  /\ routine = "round" => MeasOn /\ logged = LoggedBefore + 2 + Walked
  /\ routine = "last" => rounds = 0 /\ logged = LoggedBefore + 2 + Walked
  /\ routine = "end" => rounds = 0 /\ logged = LogBudget

\* The program reaches end_of_test: no loop over r12, r15 or r8 runs away.
Termination == <>(routine = "end")
=============================================================================
