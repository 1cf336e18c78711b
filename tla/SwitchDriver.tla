---------------------------- MODULE SwitchDriver ----------------------------
(***************************************************************************)
(* switch_program_ver05_gui.sce: the switches of a design, file by file.   *)
(* sramload_w_check.sce writes the file's list to 0x5500 and reads it      *)
(* back, writes the words that differ once more, one by one, and reads     *)
(* back again, ten times at most; then switch_program.elf is run over the  *)
(* list and its log is read.  A file is repeated until the statuses are 0. *)
(* The link loses words here although the commands answer 0.               *)
(*                                                                         *)
(* A record is one word, the records of a file are those of ListSplit, and *)
(* a log is the list it was made over.  "slip:" as in FGBoard.             *)
(***************************************************************************)
EXTENDS ListSplit

CONSTANTS
  Rounds,     \* the loop of sramload_w_check ends after so many
  Faults      \* bound on the number of times the link fails

ASSUME DriverAssumption == Rounds \in Nat /\ Rounds > 0 /\ Faults \in Nat

VARIABLES
  file,       \* j, Files + 1 after the last
  pc,         \* the next command of the script
  loop,       \* loop_num
  e01, e02,   \* upload_e01, upload_e02
  comp,       \* the file comp_temp, which the read-back is saved in
  wrong,      \* the words found different that are still to be written
  b2,         \* status of program.tcl
  mem,        \* the words from 0x5500: the number of records, the records
  cpu,        \* "stopped" or "running"
  log,        \* from 0x4100: the list the last run was over
  results,    \* swc_pgm_result of each file
  injected,   \* records a program has injected
  unsure,     \* history: files a program was started for with ~Clean
  faults

checkVars == <<loop, e01, e02, comp, wrong>>
boardVars == <<mem, cpu, log, injected>>
vars == <<checkVars, boardVars, file, pc, b2, results, unsure, faults>>

Junk == N + 1          \* a word that is in no list
NoFile == <<>>
Words == 0 .. N + 1
Places == 0 .. Max
Lists == [Places -> Words]
AllJunk == [i \in Places |-> Junk]

FileWord(j, i) == IF i = 0 THEN Size(j) ELSE Record(j, i)
Differ(j, m) == {i \in 0 .. Size(j) : m[i] # FileWord(j, i)}
Clean == Differ(file, comp) = {}      \* comp_vec(1,1) is "uploaded"
Own(j) == {Record(j, i) : i \in 1 .. Size(j)}

Silent == cpu = "running"
Fault == faults > 0 /\ faults' = faults - 1
NotConnected == IF Silent THEN UNCHANGED faults ELSE Fault

Done == pc = "done"

\* comp_temp may be there from an earlier upload.
Init ==
  /\ file = 1 /\ pc = "write" /\ loop = 1
  /\ e01 = 0 /\ e02 = 0 /\ b2 = 0
  /\ comp \in {NoFile, AllJunk}
  /\ wrong = {}
  /\ mem = AllJunk /\ log = AllJunk
  /\ cpu = "stopped"
  /\ results = [j \in 1 .. Files |-> "none"]
  /\ injected = {} /\ unsure = {}
  /\ faults = Faults

\* loop_num == 1: the whole list.  When words are lost, some keep what was
\* there before and some become anything.
Upload ==
  /\ pc = "write"
  /\ \/ /\ ~Silent /\ e01' = 0
        /\ mem' = [i \in Places |-> IF i <= Size(file) THEN FileWord(file, i) ELSE mem[i]]
        /\ UNCHANGED faults
     \/ NotConnected /\ e01' = 1 /\ UNCHANGED mem
     \/ /\ ~Silent /\ Fault /\ e01' \in {0, 1}
        /\ \E lost, junk \in SUBSET (0 .. Size(file)) :
             mem' = [i \in Places |-> IF i \in junk THEN Junk
                                      ELSE IF i <= Size(file) /\ i \notin lost
                                           THEN FileWord(file, i) ELSE mem[i]]
  /\ loop' = 1 /\ pc' = "read"
  /\ UNCHANGED <<file, e02, comp, wrong, b2, cpu, log, results, injected, unsure>>

\* The comparison is with the file comp_temp, whoever wrote it.
Compared(m, status) ==
  /\ comp' = m /\ e02' = status
  /\ wrong' = Differ(file, m)
  /\ pc' = "patch"

\* A word that is lost on the way back is not the word expected.
ReadBack ==
  /\ pc = "read"
  /\ \/ ~Silent /\ Compared(mem, 0) /\ UNCHANGED faults
     \/ /\ ~Silent /\ Fault
        /\ \E lost \in SUBSET Places :
             Compared([i \in Places |-> IF i \in lost THEN Junk ELSE mem[i]], 0)
     \/ comp # NoFile /\ NotConnected /\ Compared(comp, 1)
  /\ UNCHANGED <<file, loop, e01, b2, boardVars, results, unsure>>

\* mopen raises an error, which nothing catches
NothingToCompare ==
  /\ pc = "read" /\ comp = NoFile
  /\ NotConnected
  /\ pc' = "aborted"
  /\ UNCHANGED <<file, checkVars, b2, boardVars, results, unsure>>

\* A file of one word for each that differs; the exit statuses are ignored.
Patch ==
  /\ pc = "patch"
  /\ \E i \in wrong :
       /\ \A k \in wrong : i <= k
       /\ wrong' = wrong \ {i}
       /\ \/ ~Silent /\ mem' = [mem EXCEPT ![i] = FileWord(file, i)] /\ UNCHANGED faults
          \/ NotConnected /\ UNCHANGED mem
          \/ ~Silent /\ Fault /\ mem' = [mem EXCEPT ![i] = Junk]
  /\ UNCHANGED <<file, pc, loop, e01, e02, comp, b2, cpu, log, results, injected, unsure>>

\* slip: the words that were written again are taken to have arrived
CheckOnce ==
  /\ pc = "patch" /\ wrong = {}
  /\ pc' = "loaded" /\ UNCHANGED loop
  /\ UNCHANGED <<file, e01, e02, comp, wrong, b2, boardVars, results, unsure, faults>>

\* complete_index
Check ==
  /\ pc = "patch" /\ wrong = {}
  /\ IF Clean \/ loop = Rounds
     THEN pc' = "loaded" /\ UNCHANGED loop
     ELSE pc' = "read" /\ loop' = loop + 1
  /\ UNCHANGED <<file, e01, e02, comp, wrong, b2, boardVars, results, unsure, faults>>

\* slip: the status of the read-back is not looked at
WrittenOnly == e01 = 0

\* b1 == 0
Uploaded == e01 = 0 /\ e02 = 0

Run ==
  /\ pc = "loaded" /\ Uploaded
  /\ \/ /\ ~Silent
        /\ cpu' = "running" /\ pc' = "poll"
        /\ unsure' = IF Clean THEN unsure ELSE unsure \cup {file}
        /\ UNCHANGED <<b2, faults>>
     \/ NotConnected /\ b2' = 1 /\ pc' = "log" /\ UNCHANGED <<cpu, unsure>>
  /\ UNCHANGED <<file, checkVars, mem, log, results, injected>>

\* A poll that fails is taken for the end of the program.
Poll ==
  /\ pc = "poll"
  /\ \/ ~Silent /\ b2' = 0 /\ UNCHANGED faults
     \/ Fault /\ b2' \in {0, 1}
  /\ pc' = "log"
  /\ UNCHANGED <<file, checkVars, boardVars, results, unsure>>

\* slip: the status of program.tcl is not looked at
NextUnrun ==
  /\ file' = file + 1
  /\ pc' = IF file = Files THEN "done" ELSE "write"

\* j = j + 1, or usbreset and the loop again
NextFile ==
  IF b2 = 0
  THEN /\ file' = file + 1
       /\ pc' = IF file = Files THEN "done" ELSE "write"
  ELSE pc' = "write" /\ UNCHANGED file

\* read_mem2_NoRelease of the log
ReadLog ==
  /\ pc = "log"
  /\ \/ /\ ~Silent
        /\ results' = [results EXCEPT ![file] = IF Differ(file, log) = {} THEN "own" ELSE "other"]
        /\ NextFile /\ UNCHANGED faults
     \/ /\ ~Silent /\ Fault
        /\ results' = [results EXCEPT ![file] = "garbled"]
        /\ NextFile
     \/ NotConnected /\ pc' = "write" /\ UNCHANGED <<file, results>>
  /\ UNCHANGED <<checkVars, b2, boardVars, unsure>>

\* slip: what was written before is only read back again
RetryRead ==
  /\ pc = "loaded" /\ ~Uploaded
  /\ pc' = "read" /\ loop' = 1
  /\ UNCHANGED <<file, e01, e02, comp, wrong, b2, boardVars, results, unsure, faults>>

\* b1 == 1: usbreset and the loop again
Retry ==
  /\ pc = "loaded" /\ ~Uploaded
  /\ pc' = "write" /\ loop' = 1
  /\ UNCHANGED <<file, e01, e02, comp, wrong, b2, boardVars, results, unsure, faults>>

\* what switch_program does with the list it finds
Listed(m) == IF m[0] \in 1 .. Max THEN {m[i] : i \in 1 .. m[0]} ELSE {Junk}

\* switch_program.elf over the list that is there
Finish ==
  /\ cpu = "running" /\ cpu' = "stopped"
  /\ injected' = injected \cup Listed(mem)
  /\ log' = mem
  /\ UNCHANGED <<file, pc, checkVars, b2, mem, results, unsure, faults>>

Script ==
  \/ Upload \/ ReadBack \/ NothingToCompare \/ Patch \/ Check
  \/ Run \/ Retry \/ Poll \/ ReadLog

Finished == pc \in {"done", "aborted"} /\ UNCHANGED vars

Next == Script \/ Finish \/ Finished

\* The script is the host's only process, and the program is straight-line
\* code and loops over the list.
Spec == Init /\ [][Next]_vars /\ WF_vars(Script) /\ WF_vars(Finish)

-----------------------------------------------------------------------------
TypeOK ==
  /\ file \in 1 .. Files + 1
  /\ pc \in {"write", "read", "patch", "loaded", "poll", "log", "done", "aborted"}
  /\ loop \in 1 .. Rounds
  /\ e01 \in {0, 1} /\ e02 \in {0, 1} /\ b2 \in {0, 1}
  /\ comp \in Lists \cup {NoFile}
  /\ wrong \subseteq Places
  /\ mem \in Lists /\ log \in Lists
  /\ cpu \in {"stopped", "running"}
  /\ results \in [1 .. Files -> {"none", "own", "other", "garbled"}]
  /\ injected \subseteq Words /\ unsure \subseteq 1 .. Files
  /\ faults \in 0 .. Faults

\* The list in SRAM is this file's, word for word, or the script knows it may not be.
Sure == Differ(file, mem) = {} \/ file \in unsure

\* What each file that was passed has got, if its program was never started over
\* a list that did not compare equal: its own readings, and all its switches.
Passed(j) ==
  j \notin unsure => results[j] \in {"own", "garbled"} /\ Own(j) \subseteq injected

Ordered ==
  /\ pc = "done" <=> file = Files + 1
  /\ pc = "loaded" => Clean \/ loop = Rounds

\* A comparison that finds nothing says something of SRAM only when the
\* read-back answered 0.
Compares ==
  pc \in {"patch", "loaded"} =>
    /\ comp \in Lists /\ wrong \subseteq Differ(file, comp)
    /\ Clean /\ e02 = 0 => Differ(file, mem) = {}

\* The log and b2 speak of this file's run only once its program is started.
Runs ==
  /\ cpu = "running" => pc # "done" /\ Sure
  /\ pc = "poll" \/ (pc = "log" /\ b2 = 0) =>
       /\ Sure
       /\ cpu = "stopped" => log = mem /\ Listed(mem) \subseteq injected

Passes ==
  /\ \A j \in 1 .. file - 1 : Passed(j)
  /\ unsure = {} => injected \subseteq 1 .. N

\* What the script relies on from command to command: which file the words in
\* SRAM, comp_temp, the statuses and the log speak of.
SwitchInv == TypeOK /\ Ordered /\ Compares /\ Runs /\ Passes

\* switch_program is never started over a list with a wrong word in it, however
\* words are lost in writing, in writing again and in reading back, unless all
\* the rounds of the check are used up.
RunsOnChecked ==
  [][cpu = "stopped" /\ cpu' = "running" => Differ(file, mem) = {} \/ loop = Rounds]_vars

\* The readings kept for a file that was passed were made over its own list, not
\* over that of the file before it, whose log is still in SRAM.
OwnReadings ==
  \A j \in 1 .. file - 1 : j \notin unsure => results[j] # "other"

\* At the end every switch of the design has been injected, and no other, over
\* all the files the list was cut into, if no file was run unchecked.
EverySwitch == Done /\ unsure = {} => injected = 1 .. N

\* Once the link stops failing the script gets to its end, or stops for want of
\* a file to compare with.
Ends == <>(pc \in {"done", "aborted"})

\* The comment at the test of b1 says "0 if no error occurred, 1 if error": then
\* 0 means that the upload has not failed.
ZeroMeansUploaded == pc = "loaded" /\ Uploaded => Differ(file, mem) = {}
=============================================================================
