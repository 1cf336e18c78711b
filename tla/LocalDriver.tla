----------------------------- MODULE LocalDriver -----------------------------
(***************************************************************************)
(* target_program_ver02_gui.sce: for every list of floating gates, four    *)
(* stages, each a loop of commands that is repeated until all its exit     *)
(* statuses are 0.  The list is written anew for every stage and every     *)
(* repetition; the table of pulse counts is written with the first stage   *)
(* and must last for three, the table of drain voltages with the fourth.   *)
(*                                                                         *)
(* "slip:" marks definitions with a mistake in them, as in FGBoard.        *)
(***************************************************************************)
EXTENDS HostLink, Sequences

CONSTANTS
  PulseTable,   \* the table each list goes with
  VdTable       \* Vd_table_30mV

ASSUME TablesAssumption == PulseTable \in [Batches -> Files] /\ VdTable \in Files

VARIABLES
  batch,     \* the list being programmed, NBatches + 1 after the last
  stage,     \* the stage of that list
  step,      \* the next command of the stage; one past the last is the test
  polling,   \* program.tcl has started the program
  b          \* b1 .. b4

vars == <<list, table, cpu, last, faults, batch, stage, step, polling, b>>
driverVars == <<batch, stage, step, polling, b>>

WithTable == <<"list", "table", "program", "read">>
Without == <<"list", "program", "read">>
Commands == IF stage \in {1, 4} THEN WithTable ELSE Without
TableFor(n, s) == IF s = 4 THEN VdTable ELSE PulseTable[n]

Done == batch > NBatches
AtTest == step = Len(Commands) + 1
Next1(command) == ~Done /\ ~AtTest /\ Commands[step] = command

\* b1 .. b4 are globals and may hold what an earlier run of the script left
Init ==
  /\ LinkInit
  /\ batch = 1 /\ stage = 1 /\ step = 1
  /\ polling = FALSE
  /\ b \in [1 .. 4 -> {0, 1}]

Answered(status) ==
  /\ b' = [b EXCEPT ![step] = status]
  /\ step' = step + 1
  /\ polling' = FALSE
  /\ UNCHANGED <<batch, stage>>

DoWriteList ==
  /\ Next1("list")
  /\ \E status \in {0, 1} : WriteList(batch, status) /\ Answered(status)

DoWriteTable ==
  /\ Next1("table")
  /\ \E status \in {0, 1} : WriteTable(TableFor(batch, stage), status) /\ Answered(status)

Written == \A k \in 1 .. 4 : k < step => b[k] = 0

\* slip: the statuses of the writes are not looked at
RunUnchecked ==
  /\ Next1("program") /\ ~polling
  /\ \/ Start(stage) /\ polling' = TRUE /\ UNCHANGED <<batch, stage, step, b>>
     \/ NotConnected /\ Answered(1)

Run ==
  /\ Next1("program") /\ ~polling
  /\ Written
  /\ \/ Start(stage) /\ polling' = TRUE /\ UNCHANGED <<batch, stage, step, b>>
     \/ NotConnected /\ Answered(1)

\* if (b1==0) & (b2==0) fails
SkipRun ==
  /\ Next1("program") /\ ~polling
  /\ ~Written
  /\ step' = Len(Commands) + 1
  /\ UNCHANGED <<linkVars, batch, stage, polling, b>>

Poll ==
  /\ polling
  /\ \E status \in {0, 1} : Polled(status) /\ Answered(status)

DoReadLog ==
  /\ Next1("read")
  /\ \E status \in {0, 1} : ReadLog(status) /\ Answered(status)

AllZero == \A k \in DOMAIN Commands : b[k] = 0

\* slip: the status of the last command is not looked at
PassUnread ==
  /\ ~Done /\ AtTest
  /\ \A k \in DOMAIN Commands : k < Len(Commands) => b[k] = 0
  /\ IF stage < 4 THEN stage' = stage + 1 /\ batch' = batch
                  ELSE stage' = 1 /\ batch' = batch + 1
  /\ step' = 1
  /\ UNCHANGED <<linkVars, polling, b>>

\* break: the next stage, or the next list
Pass ==
  /\ ~Done /\ AtTest
  /\ AllZero
  /\ IF stage < 4 THEN stage' = stage + 1 /\ batch' = batch
                  ELSE stage' = 1 /\ batch' = batch + 1
  /\ step' = 1
  /\ UNCHANGED <<linkVars, polling, b>>

\* slip: the repetition starts after the writes
RetryRun ==
  /\ ~Done /\ AtTest
  /\ ~AllZero
  /\ step' = Len(Commands) - 1
  /\ UNCHANGED <<linkVars, batch, stage, polling, b>>

\* usbreset, sleep, and the loop again
Retry ==
  /\ ~Done /\ AtTest
  /\ ~AllZero
  /\ step' = 1
  /\ UNCHANGED <<linkVars, batch, stage, polling, b>>

Driver ==
  \/ DoWriteList \/ DoWriteTable \/ Run \/ SkipRun \/ Poll \/ DoReadLog
  \/ Pass \/ Retry

Board == Finish /\ UNCHANGED driverVars

Finished == Done /\ UNCHANGED vars

Next == Driver \/ Board \/ Finished

\* The script is the only process of the host's and goes on; the program ends
\* because each of the four does (Termination in FGBoard).
Spec == Init /\ [][Next]_vars /\ WF_vars(Driver) /\ WF_vars(Board)

-----------------------------------------------------------------------------
\* What the driver relies on when it starts a program: the writes before it
\* that answered 0 are still there, and the table of the first stage is there
\* for the second and the third.  A torn or used list, or the table of another
\* stage, may be in SRAM only where the statuses keep the driver from running.
DriverInv ==
  /\ LinkTypeOK
  /\ batch \in 1 .. NBatches + 1 /\ stage \in 1 .. 4 /\ polling \in BOOLEAN
  /\ b \in [1 .. 4 -> {0, 1}]
  /\ step \in 1 .. Len(Commands) + 1
  /\ Done => stage = 1 /\ step = 1
  /\ polling => Next1("program") /\ Written
  /\ (Next1("table") \/ (Next1("program") /\ ~polling)) /\ b[1] = 0 => list = Fresh(batch)
  /\ ~Done /\ stage \in {1, 4} /\ step > 2 /\ b[2] = 0 => table = TableFor(batch, stage)
  /\ ~Done /\ stage \in {2, 3} => table = TableFor(batch, stage)

\* A program is started only over a list that was just written for this batch
\* and that no program has touched, with the table its stage calls for,
\* whatever commands failed before and however often.
RunsOnFreshData ==
  [][cpu = "stopped" /\ cpu' = "running" =>
       list = Fresh(batch) /\ table = TableFor(batch, stage)]_vars

\* The driver leaves a stage only when that stage's program, over that list,
\* has come to its end, although a poll that fails is taken for its end.
PassesWhenEnded ==
  [][stage' # stage \/ batch' # batch =>
       /\ cpu = "stopped"
       /\ last = [batch |-> batch, stage |-> stage, ended |-> TRUE]]_vars

\* Once the link stops failing, every list gets its four stages.
AllProgrammed == <>Done

\* The comment at every test says of each exit status that it is 0 if no error
\* occurred: then program.tcl answers 0 only when the program has ended.
ZeroMeansEnded ==
  [][polling /\ ~polling' /\ b'[step] = 0 => cpu = "stopped"]_vars
=============================================================================
