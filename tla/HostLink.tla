------------------------------ MODULE HostLink ------------------------------
(***************************************************************************)
(* The board as the host sees it through the serial debug port: the two    *)
(* regions of SRAM the host fills, the processor, and what each of the Tcl *)
(* commands (write_mem2, program, read_mem2) may do and answer.  A command *)
(* answers 0 or 1, its exit status.  The port is silent while a program    *)
(* runs, so that a command of that time ends with 1 (GetDevice).           *)
(* A read that fails answers zeros (uart_rx): an identity of zeros is      *)
(* refused, a status of zeros is taken for an answer.  That a burst loses  *)
(* words while every write to the port succeeds is outside the model.      *)
(***************************************************************************)
EXTENDS Naturals

CONSTANTS
  NBatches,    \* number of lists the host has to program
  Files,       \* tables it may write at 0x6800
  Torn,        \* what is there when such a write did not go through
  Faults       \* bound on the number of times the link fails

ASSUME LinkAssumption ==
  NBatches \in Nat /\ NBatches > 0 /\ Torn \notin Files /\ Faults \in Nat

Batches == 1 .. NBatches
Stages == 1 .. 4       \* recover, first coarse, measured coarse, fine

VARIABLES
  list,      \* 0x7000: which batch's list, and whether a program has run over it
  table,     \* 0x6800: which table
  cpu,       \* "stopped" or "running"
  last,      \* the program started last: of which stage, over which list, ended
  faults     \* failures of the link still to come

linkVars == <<list, table, cpu, last, faults>>

Fresh(n) == [batch |-> n, state |-> "fresh"]

LinkTypeOK ==
  /\ list \in [batch : Batches \cup {0}, state : {"fresh", "used", "torn"}]
  /\ table \in Files \cup {Torn}
  /\ cpu \in {"stopped", "running"}
  /\ last \in [batch : Batches \cup {0}, stage : Stages \cup {0}, ended : BOOLEAN]
  /\ faults \in 0 .. Faults

LinkInit ==
  /\ list = [batch |-> 0, state |-> "used"]
  /\ table = Torn
  /\ cpu = "stopped"
  /\ last = [batch |-> 0, stage |-> 0, ended |-> FALSE]
  /\ faults = Faults

Silent == cpu = "running"
Fault == faults > 0 /\ faults' = faults - 1

\* GetDevice finds no processor: exit 1 and nothing is touched.
NotConnected ==
  /\ IF Silent THEN UNCHANGED faults ELSE Fault
  /\ UNCHANGED <<list, table, cpu, last>>

\* write_mem2: the burst goes through, or the link goes in the middle of it.
\* Nothing is read back.
WriteList(n, status) ==
  \/ /\ status = 0 /\ ~Silent
     /\ list' = Fresh(n)
     /\ UNCHANGED <<table, cpu, last, faults>>
  \/ /\ status = 1 /\ ~Silent /\ Fault
     /\ list' = [batch |-> n, state |-> "torn"]
     /\ UNCHANGED <<table, cpu, last>>
  \/ status = 1 /\ NotConnected

WriteTable(file, status) ==
  \/ /\ status = 0 /\ ~Silent
     /\ table' = file
     /\ UNCHANGED <<list, cpu, last, faults>>
  \/ /\ status = 1 /\ ~Silent /\ Fault
     /\ table' = Torn
     /\ UNCHANGED <<list, cpu, last>>
  \/ status = 1 /\ NotConnected

\* program.tcl up to CPU_CTL := run, or an exit 1 before it (no connection, or
\* the program memory does not verify).  The program overwrites the status
\* words of the list it finds.
Start(stage) ==
  /\ ~Silent
  /\ cpu' = "running"
  /\ last' = [batch |-> list.batch, stage |-> stage, ended |-> FALSE]
  /\ list' = [list EXCEPT !.state = "used"]
  /\ UNCHANGED <<table, faults>>

\* The polling loop of program.tcl ends: the processor answers again; or a
\* read fails, which uart_rx turns into the answer 0000; or a write fails.
Polled(status) ==
  /\ \/ status = 0 /\ ~Silent /\ UNCHANGED faults
     \/ status \in {0, 1} /\ Fault
  /\ UNCHANGED <<list, table, cpu, last>>

ReadLog(status) ==
  \/ status = 0 /\ ~Silent /\ UNCHANGED linkVars
  \/ status = 1 /\ NotConnected

\* The program comes to its end, whether or not the host still polls it.
Finish ==
  /\ Silent
  /\ cpu' = "stopped"
  /\ last' = [last EXCEPT !.ended = TRUE]
  /\ UNCHANGED <<list, table, faults>>
=============================================================================
