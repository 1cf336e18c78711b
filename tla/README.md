# Verification of the RASP 3.0 programming chain

The repository is the tool chain of a field-programmable analog array (FPAA):
a block editor (Xcos), place and route (VTR), the translation into a list of
floating-gate switches, and the **programming chain** that puts that list on
the chip: scripts on a host, a serial debug port, and MSP430 programs that
inject and measure floating gates. The charge on a gate can be raised a little
at a time and lowered only by erasing the chip. A step too many, or on the
wrong gate, or with the wrong voltage on the drain, cannot be undone. That is
the part with state and order in it, and the part modelled here.

## Inventory

| component | state | operations | interacts by |
|---|---|---|---|
| injection firmware (`libs/asm_code/*.s43`) | registers of the array (row, column, drain, supply, tunnel mux), the list at 0x7000, loop counters, the log at 0x5000 | `measure_verify`, `Pulse_w_calculate`, `Vd_calculate`, `coarse_inject`, `fine_inject`, `block_measure`, `main` | SRAM with the host; voltages with the array |
| erase and switch firmware (`tunnel_revtun_*`, `switch_program_*`) | the same registers, the switch list at 0x5500, the log at 0x4100 | tunnel, reverse tunnel, inject switches | as above |
| debug link (`libs/tcl`) | the serial connection, the processor's run bit | `write_mem2`, `program`, `read_mem2`, `run_new` | exit status to the scripts; bytes to the board |
| target programming script (`target_program_ver02_gui.sce`) | the list and stage in turn, `b1` .. `b4` | four loops of commands per list | exit statuses, files |
| switch programming script (`switch_program_ver05_gui.sce`, `sramload_w_check.sce`) | the file it is at, `comp_temp`, the rounds of the check, two exit statuses | write, read back, write wrong words again; run; read the log | exit statuses, files |
| list and firmware builder (`MakeProgramlilst_CompileAssembly.sce`) | none that lasts | sorts gates into 17 lists by kind and current, converts the outer currents, patches parameters, assembles, zips | files |
| remote server (`src/remote_server`) | lock file, mailbox, folders, what `program_fpaa02.py` left on the board | `execute02.sh` under cron, `get_email02.py`, `program_fpaa02.py`, `send_results02.py` | files, the debug link |
| netlist to switches (`src/vpr2swcs`) | none | `genswcs.py` | files |
| front end, VTR (`src/sci2blif`, `src/xcos_blocks`, `src/vtr_release`) | user interface; third party | | |

What is hard in it:

* **Order on the analog side.** Selecting a gate takes two register writes, the
  supply stays at 6 V while the firmware walks from one record to the next, and
  the measuring amplifier shares the drain with the injection. Nothing but the
  order of instructions keeps the wrong gate from being injected.
* **Reused words.** The fifth word of a record is the host's flag, an order, a
  pulse count, a drain voltage and the mark "over" in turn; the fourth is a
  distance and then an address. All records are measured before any is
  injected, so every order is carried out later than it was given.
* **Sixteen-bit arithmetic with a carry nobody clears**, and tables without a
  bound check.
* **A link that fails.** The port is silent while a program runs, a failed read
  looks like an answer, writes are not read back, and the script repeats a
  stage with the statuses of the time before still in `b1` .. `b4`.
* **Writes that lose words and answer 0.** Only the switch lists are read back,
  and the read-back is compared through a file that may be an old one.
* **The remote server**: a lock that is tested and then taken, one message that
  ends the loop over all of them, folders shared by name and never cleared,
  commands whose exit status nobody looks at, programs stopped by a watchdog.

`PROJECT.json` lists these hazards one by one, at their lines, with the
property that covers each or the reason why none does.

What makes each component correct:

* every injection program: no gate outside the list rises; a listed gate rises
  only while selected, in a burst that its own latest reading called for; what
  is over stays over; measuring happens at rest; the program ends;
* each stage: the order carried out is the one the chip's parameters give for
  the level the gate has *now*;
* the host script: a program runs only over fresh data, a stage is left only
  when it is done, all lists are done in the end;
* the switch script: the switches are injected from a list that was found right,
  each once over all the files, with readings of that list;
* the builder: a gate is in one list, and the current written there is the one
  the programs of that list measure;
* the remote script: a command that fails costs the gates of its own list only;
* the remote server: one process at the board, every message served, every
  answer from its own request.

## Modules

`EXTENDS` goes from right to left:

    TableIndex <- FGBoard <- RecoverInject
                          <- CoarseStage <- FirstCoarse, MeasuredCoarse
                          <- FineProgram
    InjectionStage   (abstract; each of the four programs INSTANCEs it)
    HostLink <- LocalDriver
             <- RemoteProgram -> TargetBins
    ListSplit <- SwitchDriver
    RemoteServer

**FGBoard** is what the four programs share. Its variables are the array
(`level`, the code the converter would give for each gate), the registers, the
two words of each record that change, and the place in the program: `routine`
(which routine), `at` (where in it), `idx` (`r11`, `r12`), `rounds` (`r15`),
`pulses` (`r8`), `logged` (`r7`). An action is a stretch of instructions that
writes one thing the array can notice: `SelectRow` and `SelectCol` are two
actions, `Raise` (drain released, then 6 V), `Lower` and `Rest` (0 V, then
2.5 V and the mux) are separate. Every action takes a step of `Physics`: if the
drain is pulled below a 6 V supply when the action starts, the *selected* gate
may rise to any higher code. So an instruction in the wrong place shows as a
gate that moves.

**RecoverInject**, **FirstCoarse**, **MeasuredCoarse**, **FineProgram** add the
judgement of a reading (`Judge`), the calculation (`Calculate`) and the burst
(`Pull`, units, release) of each stage. **CoarseStage** is the counted burst of
the two coarse programs, and states what the first promises of its counts, so
that the theorems about its instance `First` can name it. **TableIndex** is their arithmetic, on words modulo
2^16, with the carry as an argument that the actions choose freely.

**InjectionStage** is the promise: records, goals, gates, `live` and `armed`.
The refinement mapping takes `live` from the status words and `armed` from the
status words *and* the place of the program (`Armed` in FGBoard): a record is
armed from its reading until the end of its burst.

**HostLink** is the board as the host sees it: the list (`fresh`, `used`,
`torn`), the table, the processor, the program started last. **LocalDriver** is
the script: each command is an action that changes the board and stores an
exit status, `SkipRun` is the failed test between the writes and the run,
`Pass` is `break`, `Retry` the repetition. All 17 bins of the script have the
same loops; a list is a bin, or one of the files of 100 a bin is split into.

**TargetBins** is the builder's sorting of gates into bins, the conversion of
the current by `kappa_constant`, and the tables each bin's programs use, as pure
operators. **RemoteProgram** is the part of `program_fpaa02.py` that programs
the bins: LocalDriver's commands over the same HostLink, but each once, with no
status looked at. Its bins are those of a *design*, a sequence of gates, so that
the builder and the script are checked together. `hit` and `ran` are history:
the bins of which a command failed, and the programs started over each list
while it was fresh.

**ListSplit** is the cut of a list into files and the place of each record, as
the two scripts have it in the same words. **SwitchDriver** is the switch
script with `sramload_w_check` spelled out: `Upload`, `ReadBack`, one `Patch`
for each word that differed, `Check`. Memory is word by word, so that a failure
may lose any set of words while the command answers 0; `comp` is the file
`comp_temp`, which outlives the command that should have written it. The
firmware runs over the list that is there in one step (`Finish`); a list whose
length word is junk injects who knows what.

**RemoteServer** is `execute02.sh` under cron, `get_email02.py` and what it
runs. An instance's `pc` is the statement it is at; folders, the global
`fileName` and the board outlive the mail they were written for. What an archive
holds is a set of `Parts`, the groups of files that the builder puts in together:
the switches and the input vector always, the target lists, `gpin_vector` and
`voltage_meas.elf` only if the design needs them. A folder has for each part the
mail that brought it last (`Unpacked`: `unzip -jo` writes over files and removes
none), and a vector is the parts it was made with, so that "whose is it" can be
asked of everything. `program_fpaa02.py` is `Run` with whatever the folder holds
and with the watchdog of `run_new.tcl`, or `RunNothing` if there is no
`voltage_meas.elf`, or `RunFails`; RemoteProgram is its inside. A mail may have
no usable attachment, a nameless part, no subject (`SendRaises`) or one that is
not an address (`Send` without a reply), and a file name that the shell does not
take as one word (`SplitNames`: the `mv` fails). It has at most one attachment
with a name.

Abstracted away: waits, gate voltages, the readings in the log, the analog
amount of a pulse (any rise is possible), the words of the target lists, the log files of the
server.

Definitions under a `slip:` comment are not part of the model. Each is the
definition that follows it with one mistake; `PROJECT.json` ("mutants") says
which property notices it.

## Runs

| run | shows | bounds |
|---|---|---|
| `MCRecoverInject` | the frame, at rest, log length, brackets, interlock, unlisted gates, over is final, gentle near the goal, refinement, termination | 2 records, 2 rounds, both logged, one code per bracket |
| `MCFirstCoarse` | pulse counts, targets below 1 nA, one burst each, refinement | 2 records, one round (as in the code), codes around 1 nA and the targets, a short table |
| `MCMeasuredCoarse` | pulse counts, closed only there or less than a pulse away, refinement | 2 records, 2 rounds, 7 codes, a table with plateaus wider than the margin |
| `MCFineProgram` | drain words, words from the file, refinement | 2 records, 2 rounds, parameters of chip 02 |
| `MCLocalDriver` | fresh data, stages left when done, all lists done | 2 lists with different tables, 3 failures of the link |
| `MCLocalDriverExit` | *violation*: exit status 0 while the program runs | as above |
| `MCRemoteServer` | one session, own results, what each step leaves for the next | 2 instances; 5 mails (3 designs of one name, each without a part that another has, one of them with nothing to run; no attachment and no subject; a nameless part); 1 failure, 1 crash |
| `MCRemoteServerLive` | every mail answered | a design, the last two mails and a design with a split name and no address; 1 failure, 1 crash |
| `MCRemoteServerFolder` | *violation*: attachments in a folder of the subject's | as `MCRemoteServer` |
| `MCSwitchDriver` | checked lists, own readings, every switch, the end | 5 switches in files of 2, 2 rounds, 4 failures |
| `MCSwitchDriverUpload` | *violation*: 0 means uploaded | as above |
| `MCRemoteProgram` | a failure is local, one bin for each gate, the word fits the bin | all 17 bins, designs of 1 or 2 gates on and around each bound of the ranges, 2 failures |

Two records on the diagonal of a 2 x 2 array are the smallest instance in which
walking from one to the next selects a gate of no record in between, and in
which one record can be over while the other is not. Two rounds let a word of
one round be stale in the next. Codes are chosen on both sides of every
comparison the program makes. No symmetry is used: rows and columns have a
zero that `main` selects first. Three failures let the link fail in a write,
in the poll and in the read of one stage, or in one place three times; two
lists suffice for a table to be the wrong one.

Five switches in files of two give full files and a short one, so that words of
a longer file are left behind it. With two rounds the give-up of the check is
reached; four failures cover a write, a patch, a read-back and a poll. The five
mails are those that can disturb each other: designs of one name with and
without `gpin_vector`, target lists and a program to run, a mail that keeps the
name of the one before and cannot be answered, and one that ends the loop after
saving. A sixth, whose attachment is never unpacked, disturbs nobody but later
mails of its name and is in the liveness run only. The two instances are
interchangeable (symmetry, in the safety runs only). Pairs of gates give a
design two bins, twice the same bin, or a bin whose tables were not sent before
one whose tables were. Targets of the high range are multiples of
`kappa_constant`, so that the integer division is exact as the real one is.

`LogFits` (with `LogBudget`), `BelowOneNA` and `WordFromFile` say what the code does at its limits, not that the limits are comfortable: the
log of a program built with `MEAS_ON` runs into the table, a target below 1 nA
gets a count from the end of the table, a gate the coarse stage left far behind
gets a drain word that is not from the file.

`OwnResults` and `WordFitsBin` name the cases in which the code does not do what
one would want, instead of leaving them out of the model:

* after a crash between saving and unpacking, or a mail with a nameless part, the
  next user of the folder has the *old* attachment unpacked, because a file that
  is there is not written over;
* a reply made while a command failed may hold anything that was there before;
* an attachment whose name has a space or a parenthesis in it is never unpacked;
* the files that a design lacks and an earlier attachment of the same name had are
  used with it: target lists and stimuli of another user's design. `Fits` says that
  this is all that comes through: every file the design brings is its own;
* a design without `voltage_meas.elf`, like a mail without an attachment, gets a
  program that an earlier attachment of the name brought run for it, or else what
  is at 0x6000 from any run before: nothing is claimed of its vector, only that no
  message of a stopped run comes with it unless a run made for it was stopped;
* a gate of type 2, 4 or 6 with a target above 10 uA is divided by
  `kappa_constant` like one of the high bins, and then sorted into a bin that
  measures at the ordinary gate voltage;
* the high bins' tables are written under a name nothing is sent by
  (`Shipped`), so those bins always count as hit in `FailureIsLocal`.

**Fairness.** The firmware is alone on its processor, disables interrupts
(`dint`) and stops the watchdog: `WF_vars(Next)` says it goes on. `Termination`
needs nothing of the array. The script is one process that goes on
(`WF_vars(Driver)`); that the program under it ends (`WF_vars(Board)`) is
`Termination`. The same holds of `SwitchDriver` and `RemoteProgram`. The link
fails a bounded number of times; without a bound no script can finish. On the
server cron starts an instance every minute (`WF` of `Cron`), and every command
of a session ends (`WF` of `Session`): `run_new.tcl` gives up after three
minutes, and `program.tcl` waits for a program that ends. Nothing makes a mail
arrive and nobody is bound to put the file back after a crash: `EveryMailAnswered`
speaks of mails that wait while the file is there or a session is going on, so
that after a crash it begins again when the file is back.

Two things about the server's surroundings are assumed (external): a test of
`fpaa_available` and the removal after it are over before cron's next minute,
and the mail service does not hand out again what a session has retrieved.

**Findings.**

* `ZeroMeansEnded` is what the comment at line 52 of the target script says of
  its statuses. The polling loop takes any answer but an empty one for the end
  of the program, and `uart_rx` answers `0000` for a read that fails.
  `PassesWhenEnded` shows why this does no harm in that script: the log cannot be
  read from a running board, so the stage is repeated.
* `OwnFolder`: `script_comments.txt` has the attachments placed in a folder
  named after the subject line; the code names the folder after the attachment.
  `OwnResults` shows what that means for users who share a folder: each gets
  results made with all of their own files, and with the exceptions above.
* `ZeroMeansUploaded`: `sramload_w_check` returns 0 when it has printed "sram
  data upload failed". `RunsOnChecked` shows that this is the only way for the
  switch program to start over a wrong list.

## Proofs

Every invariant and every refinement that a passing run checks is also a theorem
of TLAPS, for every value of the constants that the named assumptions allow; so
are the action properties.

| module | theorems about |
|---|---|
| `FGBoard_proofs` | the word arithmetic; the frame, the log and the rules of the array, once for all four programs |
| `RecoverInject_proofs` | recover_inject |
| `CoarsePrograms_proofs` | measured_coarse_program, which it extends, and first_coarse_program, its instance `First` |
| `FineProgram_proofs` | fine_program |
| `LocalDriver_proofs`, `SwitchDriver_proofs`, `RemoteProgram_proofs`, `RemoteServer_proofs` | the four host programs; with SwitchDriver, the cut of the lists |

**The firmware**, for every list, array, set of codes and number of rounds
(`RecordsAssumption`, `SelectionAssumption`, `LevelAssumption`,
`RoundsAssumption`):

* *The frame* (`FrameAlways`, `FirstFrameAlways`, `MeasuredFrameAlways`).
  Type correctness alone is not inductive, and the interlock needs to know *where*
  the drain can be pulled: `PlaceInv` (which places exist in which routine),
  `VoltageInv` (the voltages a place implies), `SelectedInv` (what is selected
  there, and whose order is in `r8`). `SharedStepFrame` proves it once for the
  shared steps, and one lemma for each kind of step that a program has in a form
  of its own (`JudgeFrame`, `CalculateFrame`, `PullFrame`, `UnitFrame`,
  `EndBurstFrame`).
* *The rules of the array*: at rest when measuring, the interlock, unlisted gates,
  over is final (`RestAlways`, `InterlockAlways`, `UnlistedAlways`, `OverAlways`;
  `FirstKeepsRules`, `MeasuredKeepsRules`, `FineKeepsRules`). They follow from
  `FrameInv` and the lemma that a level changes only at the pulse of a live record
  (`OnlyServedRises`).
* *The log* (`LogAlways` and the three `...KeepsRules`). `LogFits` speaks of a
  bound and of the end; what is inductive is `LogInv`, the exact number of words
  at every place: the rounds logged in full and the records walked over since.
* *The order fits the level the gate has now* (`OrdersAlwaysFit`, `GentleAlways`;
  `FirstCountsAlwaysFit`, `FirstCountsBelowOneNA`; `CountsAlwaysFit`;
  `WordsAlwaysFit`, `NearWordsFromFile`). An order is written long before it is
  carried out, so the invariant has to carry the distance as well: `DistanceInv`
  says that what is written for an armed record is the distance from where its
  gate *still* is, and one lemma (`WaitingKept`) that a step which is neither a
  judgement nor a calculation moves no gate that waits and rewrites none of its
  words. In recover_inject the status word is order and mark at once; there
  `UnsetBelow` says which gates may still have the host's 0xffff.
* *How a record ends*: `EndsThereOrNear` and `FirstOneBurstEach`. The first
  needs that the count found is exactly the one due, so that a count of 0
  means less than one pulse; the second that the walk leaves only closed records
  behind it (`ClosedInv`). It holds for any number of rounds, not only for one.
* *Refinement* (`RecoverInjectImplementsStage`, `FirstImplementsStage`,
  `MeasuredImplementsStage`, `FineImplementsStage`): the initial states map to
  initial states, and every step to `Over`, `Arm`, `Pulse`, `EndBurst`, `GiveUp`
  or a stutter.
* *The arithmetic* (`PulseIndexIsBits13To6`, `AverageIsAverage`, `VdIndexIsRef`):
  the words compute what they are for, whatever the carry.

Three assumptions about parameters are as strong as the properties need and as
weak as the data justify. `GrowthAssumption` (measured coarse): the table is
cumulative up to the entry a target leads to; all 280 files of
`pulse_width_table` are. Without it a count would be a negative number taken for
a word near 65535. `IndexAssumption` and `ReachAssumption` (fine) say that no
index leads into the list, and define what "near" is in `WordFromFile`.
The tests of the module's assumptions on the values of the runs are part of every
run. first_coarse_program's theorems need none of its table.

**The local script**, for any number of lists, tables and failures
(`LinkAssumption` and LocalDriver's own):

* `DriverInvariant`, `FreshRuns`, `EndedWhenPassed`. `DriverInv` is restated
  with the place of the script as a number (`PlaceInv`), which is inductive; that
  a stage is left only when its program has ended needs one thing more
  (`LastInv`): from the start of a program until the test, unless a status says
  1, the program started last is this stage's over this list, and a log that
  could be read says that it stands.

**The switch script**, for any list, any size of file, and any number of rounds
and failures:

* `SplitKeepsRecords`: the division into files is a bijection between records
  and places, by three lemmas about `\div` (`DivMax`, `Times`, `LeftOver`).
* `SwitchInvariant`, `CheckedRuns`, `ReadingsOfOwnList`, `AllSwitches`.
  `SwitchInv` is inductive: `Compares` (what `comp_temp` says of memory, given
  the status of the read-back), `Runs` (the log and the status of the program are
  of this file's run), `Passes` (what every file passed has got). `AllSwitches`
  is `Passes` for all files and `SplitKeepsRecords`.

**The remote script and the builder**, for any set of designs and any number of
failures:

* `RemoteInvariant`, `Confinement`. The history of a bin is complete as long as
  no command of it failed (`CurrentBin`); a list nobody ran over belongs to a bin
  that failed (`FreshList`), so no later program adds to the history of a bin
  that did not; bins to come have none (`NotYet`).
* `OneBinAlways`: kinds and ranges divide the gates among the 17 bins
  (`RangesDivide`, `BinExists`, `BinsDiffer`), and `FailureIsLocal` says what the
  one bin has had. `WordAlwaysFitsBin` has a case for each range; for the high one
  it needs `KappaAssumption`: the script divides in floating point, and the model's
  integers are taken such that the quotient is exact.

**The remote server**, for any number of instances, mails, names, failures and
crashes (`ServerAssumption`):

* `ServerInvariant`, `Exclusion`, `ResultsOfOwnDesign`. Every place of a session
  finds there what the mail needs (`StepDone`; `Found` in the proofs). That the
  unpacked archive is the mail's own needs that no attachment is left in a folder
  but by a crash, a mail that ended the loop or under a split name
  (`NothingLeftBehind`). That the parts it lacks are nobody's or came under the
  same name, and that the 1 of a stopped run is not there when nothing is run,
  needs what a folder may hold at all (`FilesInFolder`).

**Only model-checked**: liveness (`Termination`, `AllProgrammed`,
`EveryMailAnswered`, `Ends`), since fairness and ENABLED are out of the prover's
reach; and the three violations, which are counterexamples.

## Not modelled, and why

* The same programs for other switch families: identical control, parameters
  under other names.
* Measurement and run-mode firmware: sampling loops that program nothing.
* Erasing: a sequence of voltages over the whole chip, without a list or a
  decision.
* Inside the switch firmware, the registers from one switch to the next: a list
  is injected in one step.
* Words of a *target* list that are lost without an error: nothing reads them
  back, and nothing after them could be relied on. (Those of a switch list are
  modelled.)
* Mails with several named attachments: the last name is the folder's, and what is
  saved under the others stays where it is.
* Of `program_fpaa02.py`, the erase and the unchecked load of the switches before
  the bins: they are in the one step `Run` of RemoteServer.
* The block editor, netlist generation (`genswcs.py`) and the plots: data
  transformation and user interface.
* `vtr_release`, which is most of the repository's C by far, is a vendored copy
  of VTR (VPR, ODIN II, ABC): third party, called as a tool, with nothing of the
  programming chain in it. The system's own code is assembler, Scilab, Tcl,
  shell and Python, and that is what the modules map.

## Plan

Done, in this order: `TableIndex`, `FGBoard`, `InjectionStage`,
`RecoverInject`, `CoarseStage` with `FirstCoarse` and `MeasuredCoarse`,
`FineProgram`, `HostLink`, `LocalDriver`, `RemoteServer`, `ListSplit`,
`SwitchDriver`, `TargetBins`, `RemoteProgram`; the proofs of the four injection
programs and of the host programs.

Left:

1. `TunnelErase` and `SwitchProgram` on the voltages of FGBoard: the interlock
   of tunnelling against injection, and the switch firmware in steps.
2. `StagesUnderDriver`: LocalDriver composed with InjectionStage, for what a
   repeated first coarse stage may do.
3. What InjectionStage itself promises (a gate rises only while armed, what is no
   longer live stays), as theorems about the abstract specification.
