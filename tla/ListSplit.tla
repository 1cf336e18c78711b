----------------------------- MODULE ListSplit -----------------------------
(***************************************************************************)
(* How the host scripts cut a long list into files of at most Max records: *)
(* switch_program_ver05_gui.sce (1000 switches) and, in the same words,    *)
(* target_program_ver02_gui.sce (100 gates).  Records are named by their   *)
(* place in the uncut list.                                                *)
(***************************************************************************)
EXTENDS Integers

CONSTANTS
  N,      \* records of the uncut list
  Max     \* maximum_swc_number

\* MakeProgramlilst writes a list of one record where there is none.
ASSUME SplitAssumption == N \in Nat /\ N > 0 /\ Max \in Nat /\ Max > 0

\* int(n/max), and one more if that is less than n/max
Files == IF (N \div Max) * Max < N THEN N \div Max + 1 ELSE N \div Max

\* n_temp: what is left when file j is written
Left(j) == N - (j - 1) * Max
Size(j) == IF Left(j) < Max THEN Left(j) ELSE Max

\* slip: a file starts with the last record of the one before it
RecordTwice(j, i) == IF j = 1 THEN i ELSE (j - 1) * Max + i - 1

\* k: the record in place i of file j, and the column its reading is put in
\* when the results of the files are put together again
Record(j, i) == (j - 1) * Max + i
=============================================================================
