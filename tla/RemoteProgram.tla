---------------------------- MODULE RemoteProgram ----------------------------
(***************************************************************************)
(* program_fpaa02.py, which programs the floating gates of a design on the *)
(* remote server: bin by bin the four stages of LocalDriver, but each      *)
(* command once and without a look at its exit status.  The list is        *)
(* written for every stage, the tables with the first and the fourth.      *)
(*                                                                         *)
(* "slip:" as in FGBoard.                                                  *)
(***************************************************************************)
EXTENDS HostLink, TargetBins

CONSTANT Designs      \* the designs that may have been sent

ASSUME BinsAssumption == Batches = DOMAIN Bins /\ Files = Tables /\ Designs \subseteq Seq(Gates)

\* The script divides in floating point: the targets that it divides are multiples
\* of kappa_constant here, of which no remainder is cut off.
ASSUME KappaAssumption ==
  \A d \in Designs : \A i \in DOMAIN d :
    d[i].target > TenUA => d[i].target % kappa_constant = 0

VARIABLES
  design,
  batch,     \* the bin being programmed, NBatches + 1 after the last
  stage,
  pc,        \* the next command: "list", "table", "program"; "poll" within program.tcl
  hit,       \* history: bins of which a command failed
  ran        \* history: the programs started over each bin's list while fresh

vars == <<list, table, cpu, last, faults, design, batch, stage, pc, hit, ran>>

Filled(n) == Listed(design, n) # {}
Done == batch > NBatches

\* the next bin for which target_list has a number other than zero
NextBin(b, n) ==
  /\ n <= NBatches => Filled(n)
  /\ \A k \in b + 1 .. n - 1 : ~Filled(k)

Init ==
  /\ LinkInit
  /\ design \in Designs
  /\ \E n \in 1 .. NBatches + 1 : NextBin(0, n) /\ batch = n
  /\ stage = 1 /\ pc = "list"
  /\ hit = {} /\ ran = [n \in Batches |-> <<>>]

Answered(status) == hit' = IF status = 0 THEN hit ELSE hit \cup {batch}

DoWriteList ==
  /\ ~Done /\ pc = "list"
  /\ \E status \in {0, 1} : WriteList(batch, status) /\ Answered(status)
  /\ pc' = IF stage \in {1, 4} THEN "table" ELSE "program"
  /\ UNCHANGED <<design, batch, stage, ran>>

\* A file that is not there ends the command before it writes.
DoWriteTable ==
  /\ ~Done /\ pc = "table"
  /\ \/ /\ Shipped(TableFor(batch, stage))
        /\ \E status \in {0, 1} : WriteTable(TableFor(batch, stage), status) /\ Answered(status)
     \/ /\ ~Shipped(TableFor(batch, stage))
        /\ UNCHANGED linkVars /\ Answered(1)
  /\ pc' = "program"
  /\ UNCHANGED <<design, batch, stage, ran>>

\* slip: the third stage goes on with the list of the second
GoOnUsed ==
  IF stage < 4
  THEN stage' = stage + 1 /\ pc' = (IF stage = 2 THEN "program" ELSE "list") /\ UNCHANGED batch
  ELSE /\ stage' = 1 /\ pc' = "list"
       /\ \E n \in batch + 1 .. NBatches + 1 : NextBin(batch, n) /\ batch' = n

GoOn ==
  IF stage < 4
  THEN stage' = stage + 1 /\ pc' = "list" /\ UNCHANGED batch
  ELSE /\ stage' = 1 /\ pc' = "list"
       /\ \E n \in batch + 1 .. NBatches + 1 : NextBin(batch, n) /\ batch' = n

Run ==
  /\ ~Done /\ pc = "program"
  /\ Start(stage)
  /\ ran' = IF list.state = "fresh"
            THEN [ran EXCEPT ![list.batch] = Append(@, <<batch, stage, table>>)] ELSE ran
  /\ pc' = "poll"
  /\ UNCHANGED <<design, batch, stage, hit>>

RunFails ==
  /\ ~Done /\ pc = "program"
  /\ NotConnected /\ Answered(1)
  /\ GoOn
  /\ UNCHANGED <<design, ran>>

\* A poll that fails is a failure of the command, whatever it answers.
Poll ==
  /\ ~Done /\ pc = "poll"
  /\ \E status \in {0, 1} : Polled(status)
  /\ Answered(IF faults' = faults THEN 0 ELSE 1)
  /\ GoOn
  /\ UNCHANGED <<design, ran>>

Script == DoWriteList \/ DoWriteTable \/ Run \/ RunFails \/ Poll

Board == Finish /\ UNCHANGED <<design, batch, stage, pc, hit, ran>>

Finished == Done /\ UNCHANGED vars

Next == Script \/ Board \/ Finished

Spec == Init /\ [][Next]_vars /\ WF_vars(Script) /\ WF_vars(Board)

-----------------------------------------------------------------------------
\* the first k programs of bin n, each with its table
Expected(n, k) == [s \in 1 .. k |-> <<n, s, TableFor(n, s)>>]

TypeOK ==
  /\ LinkTypeOK
  /\ design \in Designs
  /\ batch \in 1 .. NBatches + 1 /\ stage \in Stages
  /\ pc \in {"list", "table", "program", "poll"} /\ (pc = "table" => stage \in {1, 4})
  /\ Done \/ Filled(batch)
  /\ hit \subseteq Batches /\ \A n \in hit : n <= batch /\ Filled(n)
  /\ ran \in [Batches -> Seq(Batches \X Stages \X (Files \cup {Torn}))]

\* What the script has done for the bin it is at, as long as no command of that
\* bin has failed.
CurrentBin ==
  ~Done /\ batch \notin hit =>
    /\ ran[batch] = Expected(batch, IF pc = "poll" THEN stage ELSE stage - 1)
    /\ pc \in {"table", "program"} => list = Fresh(batch) /\ cpu = "stopped"
    /\ stage \in {2, 3} \/ pc \in {"program", "poll"} => table = TableFor(batch, stage)
    /\ list.state = "fresh" /\ list.batch = batch => pc \in {"table", "program"}

\* A list that no program has run over is this bin's, or that of a bin of which a
\* command failed.
FreshList ==
  list.state = "fresh" =>
    list.batch \in Batches /\ list.batch <= batch /\ (list.batch < batch => list.batch \in hit)

NotYet == \A n \in Batches : n > batch \/ ~Filled(n) => ran[n] = <<>>

\* A command that fails costs the gates of its own bin, and no others: a bin none
\* of whose commands failed has had its four programs, once each and in order,
\* over its own list and with its own tables, and no program of another bin has
\* run over that list, although what failed for the bins around it was never
\* looked at.
FailureIsLocal ==
  \A n \in Batches : n < batch /\ Filled(n) /\ n \notin hit => ran[n] = Expected(n, 4)

\* What the last one rests on, command by command.
RemoteInv == TypeOK /\ CurrentBin /\ FreshList /\ NotYet /\ FailureIsLocal

\* Every gate with a target is programmed as a gate of one bin, and a switch of none.
OneBinEach ==
  Done => \A i \in DOMAIN design :
    LET in == {n \in Batches : i \in Listed(design, n)} IN
    IF design[i].type = 0 THEN in = {}
    ELSE \E n \in in : in = {n} /\ (n \notin hit => Len(ran[n]) = 4)

\* The current in the list, as the programs of its bin measure it, is the gate's
\* target: the conversion and the choice of the bin fit.  They do not for the
\* kinds without a high bin, of which a target above 10 uA is converted and then
\* sorted into a bin that measures at the ordinary gate voltage.
WordFitsBin ==
  \A n \in Batches : \A i \in Listed(design, n) :
    \/ Current(n, Word(design[i].target)) = design[i].target
    \/ Bins[n][2] \notin WithHigh /\ design[i].target > TenUA
=============================================================================
