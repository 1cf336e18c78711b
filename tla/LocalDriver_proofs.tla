------------------------- MODULE LocalDriver_proofs -------------------------
(***************************************************************************)
(* For any lists, tables and failures of the link: a program starts only   *)
(* over fresh data, and a stage is left only when its program has ended.   *)
(***************************************************************************)
EXTENDS LocalDriver, TLAPS

\* The commands by their number.  Two stages have a table to write.
Long == stage \in {1, 4}
ProgramAt == IF Long THEN 3 ELSE 2
TestAt == ProgramAt + 2

LEMMA CommandPlaces ==
  /\ Len(Commands) = ProgramAt + 1
  /\ DOMAIN Commands = 1 .. ProgramAt + 1
  /\ \A k \in 1 .. ProgramAt + 1 :
       /\ Commands[k] = "list" <=> k = 1
       /\ Commands[k] = "table" <=> Long /\ k = 2
       /\ Commands[k] = "program" <=> k = ProgramAt
       /\ Commands[k] = "read" <=> k = ProgramAt + 1
  <1>1. /\ Len(WithTable) = 4 /\ DOMAIN WithTable = 1 .. 4
        /\ WithTable[1] = "list" /\ WithTable[2] = "table"
        /\ WithTable[3] = "program" /\ WithTable[4] = "read"
    BY DEF WithTable
  <1>2. /\ Len(Without) = 3 /\ DOMAIN Without = 1 .. 3
        /\ Without[1] = "list" /\ Without[2] = "program" /\ Without[3] = "read"
    BY DEF Without
  <1>3. CASE Long
    <2>1. Commands = WithTable /\ ProgramAt = 3
      BY <1>3 DEF Commands, Long, ProgramAt
    <2>2. ASSUME NEW k \in 1 .. 4 PROVE k \in {1, 2, 3, 4}
      OBVIOUS
    <2> QED
      BY <1>1, <1>3, <2>1, <2>2
  <1>4. CASE ~Long
    <2>1. Commands = Without /\ ProgramAt = 2
      BY <1>4 DEF Commands, Long, ProgramAt
    <2> QED
      BY <1>2, <1>4, <2>1
  <1> QED
    BY <1>3, <1>4

LEMMA Places ==
  ASSUME step \in 1 .. Len(Commands) + 1
  PROVE  /\ step \in 1 .. TestAt
         /\ AtTest <=> step = TestAt
         /\ Next1("list") <=> ~Done /\ step = 1
         /\ Next1("table") <=> ~Done /\ Long /\ step = 2
         /\ Next1("program") <=> ~Done /\ step = ProgramAt
         /\ Next1("read") <=> ~Done /\ step = ProgramAt + 1
  <1>1. ProgramAt \in {2, 3}
    BY DEF ProgramAt
  <1> QED
    BY <1>1, CommandPlaces DEF TestAt, AtTest, Next1

\* DriverInv in those numbers.
PlaceInv ==
  /\ LinkTypeOK
  /\ batch \in 1 .. NBatches + 1 /\ stage \in 1 .. 4 /\ polling \in BOOLEAN
  /\ b \in [1 .. 4 -> {0, 1}]
  /\ step \in 1 .. TestAt
  /\ Done => stage = 1 /\ step = 1
  /\ polling => ~Done /\ step = ProgramAt /\ Written
  /\ ~Done /\ 1 < step /\ step <= ProgramAt /\ ~polling /\ b[1] = 0 => list = Fresh(batch)
  /\ ~Done /\ Long /\ step > 2 /\ b[2] = 0 => table = TableFor(batch, stage)
  /\ ~Done /\ stage \in {2, 3} => table = TableFor(batch, stage)

LEMMA SameInv == DriverInv <=> PlaceInv
  <1>1. ProgramAt = (IF Long THEN 3 ELSE 2) /\ Len(Commands) + 1 = TestAt
    BY CommandPlaces DEF ProgramAt, TestAt
  <1>2. step \in 1 .. Len(Commands) + 1 => step \in Nat
    BY <1>1 DEF TestAt
  <1>3. ASSUME step \in 1 .. Len(Commands) + 1, polling \in BOOLEAN,
               polling => ~Done /\ step = ProgramAt
        PROVE  (Next1("table") \/ (Next1("program") /\ ~polling)) <=>
                 ~Done /\ 1 < step /\ step <= ProgramAt /\ ~polling
    BY <1>1, <1>2, <1>3, Places
  <1> QED
    BY <1>1, <1>2, <1>3, Places DEF DriverInv, PlaceInv, Long

LEMMA DriverInit == Init => PlaceInv
  <1> SUFFICES ASSUME Init PROVE PlaceInv
    OBVIOUS
  <1> USE LinkAssumption, TablesAssumption DEF Init, LinkInit
  <1>1. LinkTypeOK
    BY DEF LinkTypeOK, Batches, Stages
  <1>2. ~Done
    BY DEF Done
  <1>3. step \in 1 .. TestAt
    BY DEF TestAt, ProgramAt
  <1>4. polling \in BOOLEAN /\ ~polling
    OBVIOUS
  <1>5. batch \in 1 .. NBatches + 1 /\ stage \in 1 .. 4 /\ stage \notin {2, 3} /\ step = 1
    OBVIOUS
  <1>6. b \in [1 .. 4 -> {0, 1}]
    OBVIOUS
  <1> QED
    BY ONLY <1>1, <1>2, <1>3, <1>4, <1>5, <1>6 DEF PlaceInv

-----------------------------------------------------------------------------
\* What the link may do keeps its types.
LEMMA LinkTypes ==
  ASSUME LinkTypeOK,
         \/ \E n \in Batches, status \in {0, 1} : WriteList(n, status)
         \/ \E file \in Files, status \in {0, 1} : WriteTable(file, status)
         \/ \E s \in Stages : Start(s)
         \/ \E status \in {0, 1} : Polled(status) \/ ReadLog(status)
         \/ NotConnected
         \/ Finish
  PROVE  LinkTypeOK'
  <1> USE LinkAssumption DEF LinkTypeOK
  <1>1. Fault => faults' \in 0 .. Faults
    BY DEF Fault
  <1>2. NotConnected => LinkTypeOK'
    BY <1>1 DEF NotConnected
  <1>3. ASSUME NEW n \in Batches, NEW status \in {0, 1}, WriteList(n, status)
        PROVE  LinkTypeOK'
    BY <1>1, <1>2, <1>3 DEF WriteList, Fresh
  <1>4. ASSUME NEW file \in Files, NEW status \in {0, 1}, WriteTable(file, status)
        PROVE  LinkTypeOK'
    BY <1>1, <1>2, <1>4 DEF WriteTable
  <1>5. ASSUME NEW s \in Stages, Start(s) PROVE LinkTypeOK'
    BY <1>5 DEF Start
  <1>6. ASSUME NEW status \in {0, 1}, Polled(status) PROVE LinkTypeOK'
    BY <1>1, <1>6 DEF Polled
  <1>7. ASSUME NEW status \in {0, 1}, ReadLog(status) PROVE LinkTypeOK'
    BY <1>2, <1>7 DEF ReadLog, linkVars
  <1>8. Finish => LinkTypeOK'
    BY DEF Finish
  <1> QED
    BY <1>2, <1>3, <1>4, <1>5, <1>6, <1>7, <1>8

\* An answer to a command that is not the last of what Commands holds.
LEMMA AnsweredPlace ==
  ASSUME PlaceInv, ~Done, step <= ProgramAt + 1,
         NEW status \in {0, 1}, Answered(status)
  PROVE  /\ b' \in [1 .. 4 -> {0, 1}]
         /\ b'[step] = status
         /\ \A k \in 1 .. 4 : k # step => b'[k] = b[k]
         /\ step' = step + 1 /\ step' \in 1 .. TestAt'
         /\ polling' = FALSE /\ polling' \in BOOLEAN
         /\ batch' = batch /\ stage' = stage
         /\ (Done)' = Done /\ (Long)' = Long
         /\ ProgramAt' = ProgramAt /\ TestAt' = TestAt
         /\ TableFor(batch, stage)' = TableFor(batch, stage)
  <1>1. step \in 1 .. 4 /\ step + 1 \in 1 .. TestAt
    BY DEF PlaceInv, ProgramAt, TestAt
  <1>2. /\ b' \in [1 .. 4 -> {0, 1}] /\ b'[step] = status
        /\ \A k \in 1 .. 4 : k # step => b'[k] = b[k]
    BY <1>1 DEF PlaceInv, Answered
  <1>3. step' = step + 1 /\ batch' = batch /\ stage' = stage
    BY DEF Answered
  <1>4. polling' = FALSE /\ polling' \in BOOLEAN
    BY DEF Answered
  <1>5. /\ (Done)' = Done /\ (Long)' = Long
        /\ ProgramAt' = ProgramAt /\ TestAt' = TestAt
        /\ TableFor(batch, stage)' = TableFor(batch, stage)
    BY <1>3 DEF Done, Long, ProgramAt, TestAt, TableFor
  <1> QED
    BY <1>1, <1>2, <1>3, <1>4, <1>5

-----------------------------------------------------------------------------
\* Where each command is, and what a batch under work is.
LEMMA At ==
  ASSUME PlaceInv
  PROVE  /\ step \in Nat /\ batch \in Nat /\ stage \in Stages /\ ProgramAt \in {2, 3}
         /\ ~Done => batch \in Batches
         /\ ~Done => TableFor(batch, stage) \in Files
         /\ Next1("list") => ~Done /\ step = 1
         /\ Next1("table") => ~Done /\ Long /\ step = 2 /\ ProgramAt = 3
         /\ Next1("program") => ~Done /\ step = ProgramAt
         /\ Next1("read") => ~Done /\ step = ProgramAt + 1
         /\ AtTest => step = ProgramAt + 2
  <1>1. step \in 1 .. Len(Commands) + 1
    BY SameInv DEF DriverInv
  <1>2. ProgramAt \in {2, 3} /\ (Long => ProgramAt = 3)
    BY DEF ProgramAt
  <1>3. batch \in Nat /\ stage \in Stages /\ (~Done => batch \in Batches) /\ step \in Nat
    BY <1>1, <1>2, LinkAssumption DEF PlaceInv, Stages, Done, Batches, TestAt
  <1>4. ~Done => TableFor(batch, stage) \in Files
    BY <1>3, TablesAssumption DEF TableFor
  <1> QED
    BY <1>1, <1>2, <1>3, <1>4, Places DEF TestAt

\* What a command must do for its answer to keep the invariant.
LEMMA AnsweredInv ==
  ASSUME PlaceInv, ~Done, step <= ProgramAt + 1,
         NEW status \in {0, 1}, Answered(status),
         LinkTypeOK',
         step = 1 /\ status = 0 => list' = Fresh(batch),
         1 < step /\ step < ProgramAt => list' = list,
         Long /\ step = 2 /\ status = 0 => table' = TableFor(batch, stage),
         stage \in {2, 3} \/ step > 2 => table' = table
  PROVE  PlaceInv'
  <1>1. ProgramAt \in {2, 3} /\ step \in Nat /\ step >= 1 /\ (Long => ProgramAt = 3)
    BY At DEF PlaceInv, ProgramAt
  <1>2. Fresh(batch)' = Fresh(batch)
    BY AnsweredPlace DEF Fresh
  <1>3. /\ b' \in [1 .. 4 -> {0, 1}]
        /\ b'[step] = status
        /\ \A k \in 1 .. 4 : k # step => b'[k] = b[k]
        /\ step' = step + 1 /\ step' \in 1 .. TestAt'
        /\ batch' = batch /\ stage' = stage
    BY AnsweredPlace
  <1>4. polling' = FALSE /\ polling' \in BOOLEAN
    BY AnsweredPlace
  <1>5. /\ Done' = Done /\ Long' = Long /\ ProgramAt' = ProgramAt
        /\ TableFor(batch, stage)' = TableFor(batch, stage)
    BY AnsweredPlace
  <1>6. step < ProgramAt /\ b'[1] = 0 => list' = Fresh(batch)
    <2>1. CASE step = 1
      BY <1>3, <2>1
    <2>2. CASE step # 1
      <3> SUFFICES ASSUME step < ProgramAt, b'[1] = 0 PROVE list' = Fresh(batch)
        OBVIOUS
      <3>1. 1 < step /\ b[1] = 0
        BY <1>1, <1>3, <2>2
      <3>2. ~polling
        BY <1>1 DEF PlaceInv
      <3>3. list = Fresh(batch)
        BY <1>1, <3>1, <3>2 DEF PlaceInv
      <3> QED
        BY <3>1, <3>3
    <2> QED
      BY <2>1, <2>2
  <1>7. Long /\ step' > 2 /\ b'[2] = 0 => table' = TableFor(batch, stage)
    <2> SUFFICES ASSUME Long, step' > 2, b'[2] = 0 PROVE table' = TableFor(batch, stage)
      OBVIOUS
    <2>1. CASE step = 2
      BY <1>3, <2>1
    <2>2. CASE step > 2
      <3>1. b[2] = 0
        BY <1>1, <1>3, <2>2
      <3> QED
        BY <3>1, <2>2, table' = table DEF PlaceInv
    <2> QED
      BY <1>1, <1>3, <2>1, <2>2
  <1>8. stage \in {2, 3} => table' = TableFor(batch, stage)
    BY DEF PlaceInv
  <1>9. batch' \in 1 .. NBatches + 1 /\ stage' \in 1 .. 4
    BY <1>3 DEF PlaceInv
  <1>10. step' <= ProgramAt' => step < ProgramAt
    BY <1>1, <1>3, <1>5
  <1>11. polling' \in BOOLEAN /\ ~polling'
    BY <1>4
  <1>12. ~Done'
    BY <1>5
  <1>13. Long' => Long
    BY <1>5
  <1>14. ~Done' /\ 1 < step' /\ step' <= ProgramAt' /\ ~polling' /\ b'[1] = 0 => list' = Fresh(batch)'
    BY <1>2, <1>6, <1>10
  <1>15. ~Done' /\ Long' /\ step' > 2 /\ b'[2] = 0 => table' = TableFor(batch, stage)'
    BY <1>5, <1>7, <1>13
  <1>16. ~Done' /\ stage' \in {2, 3} => table' = TableFor(batch, stage)'
    BY <1>3, <1>5, <1>8
  <1>17. b' \in [1 .. 4 -> {0, 1}] /\ step' \in 1 .. TestAt'
    BY <1>3
  <1> QED
    BY ONLY LinkTypeOK', <1>9, <1>11, <1>12, <1>14, <1>15, <1>16, <1>17 DEF PlaceInv

\* One lemma per command.  A write that answers 0 has written.
LEMMA ListStep == ASSUME PlaceInv, DoWriteList PROVE PlaceInv'
  <1>1. PICK status \in {0, 1} : WriteList(batch, status) /\ Answered(status)
    BY DEF DoWriteList
  <1>2. ~Done /\ step = 1 /\ batch \in Batches /\ ProgramAt \in {2, 3} /\ step <= ProgramAt + 1
    BY At DEF DoWriteList
  <1>3. LinkTypeOK'
    BY <1>1, <1>2, LinkTypes DEF PlaceInv
  <1>4. status = 0 => list' = Fresh(batch)
    BY <1>1 DEF WriteList
  <1>5. table' = table
    BY <1>1 DEF WriteList, NotConnected
  <1> QED
    BY <1>1, <1>2, <1>3, <1>4, <1>5, AnsweredInv

LEMMA TableStep == ASSUME PlaceInv, DoWriteTable PROVE PlaceInv'
  <1>1. PICK status \in {0, 1} :
          WriteTable(TableFor(batch, stage), status) /\ Answered(status)
    BY DEF DoWriteTable
  <1>2. /\ ~Done /\ Long /\ step = 2 /\ ProgramAt = 3 /\ step <= ProgramAt + 1
        /\ TableFor(batch, stage) \in Files /\ stage \notin {2, 3}
    BY At DEF DoWriteTable, Long
  <1>3. LinkTypeOK'
    BY <1>1, <1>2, LinkTypes DEF PlaceInv
  <1>4. list' = list
    BY <1>1 DEF WriteTable, NotConnected
  <1>5. status = 0 => table' = TableFor(batch, stage)
    BY <1>1 DEF WriteTable
  <1>6. /\ step = 1 /\ status = 0 => list' = Fresh(batch)
        /\ stage \in {2, 3} \/ step > 2 => table' = table
    BY <1>2
  <1>7. /\ 1 < step /\ step < ProgramAt => list' = list
        /\ Long /\ step = 2 /\ status = 0 => table' = TableFor(batch, stage)
    BY <1>4, <1>5
  <1> QED
    BY <1>1, <1>2, <1>3, <1>6, <1>7, AnsweredInv

LEMMA RunStep == ASSUME PlaceInv, Run PROVE PlaceInv'
  <1>1. ~Done /\ step = ProgramAt /\ ProgramAt \in {2, 3} /\ step <= ProgramAt + 1 /\ stage \in Stages
    BY At DEF Run, Stages
  <1>2. CASE Start(stage) /\ polling' = TRUE /\ UNCHANGED <<batch, stage, step, b>>
    <2>1. LinkTypeOK'
      BY <1>1, <1>2, LinkTypes DEF PlaceInv, Stages
    <2>2. table' = table
      BY <1>2 DEF Start
    <2>3. /\ batch' = batch /\ stage' = stage /\ step' = step /\ b' = b
          /\ polling' \in BOOLEAN /\ ~(~polling')
      BY <1>2
    <2>4. /\ Done' = Done /\ Long' = Long /\ ProgramAt' = ProgramAt /\ TestAt' = TestAt
          /\ TableFor(batch, stage)' = TableFor(batch, stage) /\ Written' = Written
      BY <2>3 DEF Done, Long, ProgramAt, TestAt, TableFor, Written
    <2>5. Written
      BY DEF Run
    <2>6. /\ ~Done' /\ Done' = Done
          /\ step' \in 1 .. TestAt'
          /\ b' \in [1 .. 4 -> {0, 1}]
          /\ step' = ProgramAt' /\ Written'
      BY <1>1, <2>3, <2>4, <2>5 DEF PlaceInv
    <2>7. Long' /\ step' > 2 /\ b'[2] = 0 => table' = TableFor(batch, stage)'
      BY <1>1, <2>2, <2>3, <2>4 DEF PlaceInv
    <2>8. stage' \in {2, 3} => table' = TableFor(batch, stage)'
      BY <1>1, <2>2, <2>3, <2>4 DEF PlaceInv
    <2>9. batch' \in 1 .. NBatches + 1 /\ stage' \in 1 .. 4
      BY <2>3 DEF PlaceInv
    <2> QED
      BY ONLY <2>1, <2>3, <2>6, <2>7, <2>8, <2>9 DEF PlaceInv
  <1>3. CASE NotConnected /\ Answered(1)
    <2>1. LinkTypeOK'
      BY <1>3, LinkTypes DEF PlaceInv
    <2>2. table' = table /\ list' = list
      BY <1>3 DEF NotConnected
    <2>3. step # 1 /\ ~(step < ProgramAt) /\ 1 \in {0, 1} /\ 1 # 0
      BY <1>1
    <2> QED
      BY <1>1, <1>3, <2>1, <2>2, <2>3, AnsweredInv
  <1> QED
    BY <1>2, <1>3 DEF Run

LEMMA PollStep == ASSUME PlaceInv, Poll PROVE PlaceInv'
  <1>1. PICK status \in {0, 1} : Polled(status) /\ Answered(status)
    BY DEF Poll
  <1>2. ~Done /\ step = ProgramAt /\ ProgramAt \in {2, 3} /\ step <= ProgramAt + 1
    BY At DEF Poll, PlaceInv
  <1>3. LinkTypeOK'
    BY <1>1, LinkTypes DEF PlaceInv
  <1>4. table' = table /\ list' = list
    BY <1>1 DEF Polled
  <1>5. Long => step # 2
    BY <1>2 DEF ProgramAt
  <1> QED
    BY <1>1, <1>2, <1>3, <1>4, <1>5, AnsweredInv

LEMMA ReadStep == ASSUME PlaceInv, DoReadLog PROVE PlaceInv'
  <1>1. PICK status \in {0, 1} : ReadLog(status) /\ Answered(status)
    BY DEF DoReadLog
  <1>2. ~Done /\ step = ProgramAt + 1 /\ ProgramAt \in {2, 3} /\ step <= ProgramAt + 1
    BY At DEF DoReadLog
  <1>3. LinkTypeOK'
    BY <1>1, LinkTypes DEF PlaceInv
  <1>4. table' = table /\ list' = list
    BY <1>1 DEF ReadLog, NotConnected, linkVars
  <1> QED
    BY <1>1, <1>2, <1>3, <1>4, AnsweredInv

\* Leaving the loop's body: to the test, to its beginning, to the next stage.
LEMMA SkipStep == ASSUME PlaceInv, SkipRun PROVE PlaceInv'
  <1>1. /\ ~Done /\ step = ProgramAt /\ ProgramAt \in {2, 3} /\ step' = ProgramAt + 2
        /\ batch' = batch /\ stage' = stage /\ b' = b
    BY At, CommandPlaces DEF SkipRun
  <1>2. polling' = polling /\ ~polling /\ polling \in BOOLEAN
    BY DEF SkipRun, PlaceInv
  <1>3. /\ list' = list /\ table' = table /\ cpu' = cpu /\ last' = last /\ faults' = faults
    BY DEF SkipRun, linkVars
  <1>4. LinkTypeOK'
    BY <1>3 DEF LinkTypeOK, PlaceInv
  <1>5. /\ ProgramAt' = ProgramAt /\ TableFor(batch, stage)' = TableFor(batch, stage) /\ ~Done'
    BY <1>1 DEF ProgramAt, Long, TableFor, Done
  <1>6. step' \in 1 .. TestAt' /\ ~(step' <= ProgramAt') /\ b' \in [1 .. 4 -> {0, 1}]
    BY <1>1, <1>5 DEF TestAt, PlaceInv
  <1>7. Long' /\ step' > 2 /\ b'[2] = 0 => table' = TableFor(batch, stage)'
    BY <1>1, <1>3, <1>5 DEF Long, ProgramAt, PlaceInv
  <1>8. stage' \in {2, 3} => table' = TableFor(batch, stage)'
    BY <1>1, <1>3, <1>5 DEF PlaceInv
  <1>9. batch' \in 1 .. NBatches + 1 /\ stage' \in 1 .. 4
    BY <1>1 DEF PlaceInv
  <1>10. polling' \in BOOLEAN /\ ~polling'
    BY <1>2
  <1> QED
    BY ONLY <1>4, <1>5, <1>6, <1>7, <1>8, <1>9, <1>10 DEF PlaceInv

\* At the start of a stage nothing is asked of the list, and of the table only
\* in the two stages that do not write one.
LEMMA StageStart ==
  ASSUME LinkTypeOK', step' = 1, polling' \in BOOLEAN, ~polling',
         b' \in [1 .. 4 -> {0, 1}],
         batch' \in 1 .. NBatches + 1, stage' \in 1 .. 4,
         Done' => stage' = 1,
         ~Done' /\ stage' \in {2, 3} => table' = TableFor(batch, stage)'
  PROVE  PlaceInv'
  <1>1. step' \in 1 .. TestAt' /\ ~(1 < step') /\ ~(step' > 2)
    BY DEF TestAt, ProgramAt
  <1> QED
    BY <1>1 DEF PlaceInv

LEMMA RetryStep == ASSUME PlaceInv, Retry PROVE PlaceInv'
  <1>1. /\ ~Done /\ step = ProgramAt + 2 /\ ProgramAt \in {2, 3}
        /\ step' = 1 /\ batch' = batch /\ stage' = stage /\ b' = b
    BY At DEF Retry
  <1>2. polling' = polling
    BY DEF Retry
  <1>3. list' = list /\ table' = table /\ cpu' = cpu /\ last' = last /\ faults' = faults
    BY DEF Retry, linkVars
  <1>4. LinkTypeOK'
    BY <1>3 DEF LinkTypeOK, PlaceInv
  <1>5. polling' \in BOOLEAN /\ ~polling'
    <2>1. step # ProgramAt
      BY <1>1
    <2> QED
      BY <1>2, <2>1 DEF PlaceInv
  <1>6. Done' => stage' = 1
    BY <1>1 DEF Done
  <1>7. stage' \in {2, 3} => table' = TableFor(batch, stage)'
    BY <1>1, <1>3 DEF PlaceInv, TableFor
  <1>8. batch' \in 1 .. NBatches + 1 /\ stage' \in 1 .. 4 /\ b' \in [1 .. 4 -> {0, 1}]
    BY <1>1 DEF PlaceInv
  <1> QED
    BY <1>1, <1>4, <1>5, <1>6, <1>7, <1>8, StageStart

LEMMA PassStep == ASSUME PlaceInv, Pass PROVE PlaceInv'
  <1>1. /\ ~Done /\ step = ProgramAt + 2 /\ ProgramAt \in {2, 3} /\ batch \in Batches
        /\ step' = 1 /\ b' = b /\ stage \in Stages
    BY At DEF Pass
  <1>2. polling' = polling
    BY DEF Pass
  <1>3. list' = list /\ table' = table /\ cpu' = cpu /\ last' = last /\ faults' = faults
    BY DEF Pass, linkVars
  <1>4. LinkTypeOK'
    BY <1>3 DEF LinkTypeOK, PlaceInv
  <1>5. polling' \in BOOLEAN /\ ~polling'
    <2>1. step # ProgramAt
      BY <1>1
    <2> QED
      BY <1>2, <2>1 DEF PlaceInv
  <1>6. IF stage < 4 THEN stage' = stage + 1 /\ batch' = batch
                     ELSE stage' = 1 /\ batch' = batch + 1
    BY DEF Pass
  <1>7. batch' \in 1 .. NBatches + 1 /\ stage' \in 1 .. 4 /\ (Done' => stage' = 1)
    BY <1>1, <1>6, LinkAssumption DEF Stages, Batches, Done
  <1>8. b' \in [1 .. 4 -> {0, 1}]
    BY <1>1 DEF PlaceInv
  <1>9. ~Done' /\ stage' \in {2, 3} => table' = TableFor(batch, stage)'
    <2> SUFFICES ASSUME stage' \in {2, 3} PROVE table' = TableFor(batch, stage)'
      OBVIOUS
    <2>1. batch' = batch /\ stage \in {1, 2} /\ stage' # 4
      BY <1>1, <1>6 DEF Stages
    <2>2. TableFor(batch, stage)' = TableFor(batch, stage)
      BY <2>1 DEF TableFor
    <2>3. CASE stage = 2
      BY <1>1, <1>3, <2>2, <2>3 DEF PlaceInv
    <2>4. CASE stage = 1
      <3>1. Long /\ ProgramAt = 3
        BY <2>4 DEF Long, ProgramAt
      <3>2. table = TableFor(batch, stage)
        <4>1. b[2] = 0 /\ step > 2
          BY <1>1, <3>1, CommandPlaces DEF Pass, AllZero
        <4> QED
          BY <1>1, <3>1, <4>1 DEF PlaceInv
      <3> QED
        BY <1>3, <2>2, <3>2
    <2> QED
      BY <2>1, <2>3, <2>4
  <1> QED
    BY <1>1, <1>4, <1>5, <1>7, <1>8, <1>9, StageStart

\* The end of the program touches nothing the invariant speaks of but its type.
LEMMA BoardStep == ASSUME PlaceInv, Board PROVE PlaceInv'
  <1>1. batch' = batch /\ stage' = stage /\ step' = step /\ b' = b
    BY DEF Board, driverVars
  <1>2. polling' = polling
    BY DEF Board, driverVars
  <1>3. LinkTypeOK' /\ list' = list /\ table' = table
    BY LinkTypes DEF Board, PlaceInv, Finish
  <1>4. /\ (Done)' = Done /\ (Long)' = Long /\ ProgramAt' = ProgramAt /\ TestAt' = TestAt
        /\ TableFor(batch, stage)' = TableFor(batch, stage)
        /\ Fresh(batch)' = Fresh(batch) /\ Written' = Written
    BY <1>1 DEF Done, Long, ProgramAt, TestAt, TableFor, Fresh, Written
  <1> QED
    BY <1>1, <1>2, <1>3, <1>4 DEF PlaceInv

LEMMA IdleStep == ASSUME PlaceInv, UNCHANGED vars PROVE PlaceInv'
  <1>1. batch' = batch /\ stage' = stage /\ step' = step /\ b' = b
    BY DEF vars
  <1>2. polling' = polling
    BY DEF vars
  <1>3. /\ list' = list /\ table' = table /\ cpu' = cpu /\ last' = last /\ faults' = faults
    BY DEF vars
  <1>4. LinkTypeOK'
    BY <1>3 DEF LinkTypeOK, PlaceInv
  <1>5. /\ (Done)' = Done /\ (Long)' = Long /\ ProgramAt' = ProgramAt /\ TestAt' = TestAt
        /\ TableFor(batch, stage)' = TableFor(batch, stage)
        /\ Fresh(batch)' = Fresh(batch) /\ Written' = Written
    BY <1>1 DEF Done, Long, ProgramAt, TestAt, TableFor, Fresh, Written
  <1> QED
    BY <1>1, <1>2, <1>3, <1>4, <1>5 DEF PlaceInv

LEMMA PlaceStep == ASSUME PlaceInv, [Next]_vars PROVE PlaceInv'
  BY ListStep, TableStep, RunStep, SkipStep, PollStep, ReadStep, PassStep, RetryStep,
     BoardStep, IdleStep DEF Next, Driver, Finished

\* For any lists, tables and number of failures, the statuses, the list and the
\* table in SRAM fit as the driver relies on when it starts a program.
THEOREM DriverInvariant == Spec => []DriverInv
  <1>1. Init => PlaceInv
    BY DriverInit
  <1>2. PlaceInv /\ [Next]_vars => PlaceInv'
    BY PlaceStep
  <1>3. PlaceInv => DriverInv
    BY SameInv
  <1> QED
    BY <1>1, <1>2, <1>3, PTL DEF Spec

\* Whatever commands failed before and however often, a program is started only
\* over the list of its batch, unused, with the table of its stage.
THEOREM FreshRuns == Spec => RunsOnFreshData
  <1>1. ASSUME PlaceInv, [Next]_vars, cpu = "stopped", cpu' = "running"
        PROVE  list = Fresh(batch) /\ table = TableFor(batch, stage)
    <2>1. Run
      BY <1>1 DEF Next, Driver, Finished, vars, DoWriteList, DoWriteTable, WriteList,
         WriteTable, SkipRun, Poll, Polled, DoReadLog, ReadLog, NotConnected, Pass, Retry,
         Board, Finish, linkVars
    <2>2. /\ ~Done /\ step = ProgramAt /\ ProgramAt \in {2, 3} /\ stage \in Stages
          /\ ~polling /\ Written
      BY <1>1, <2>1, At DEF Run
    <2>3. b[1] = 0 /\ (Long => step > 2 /\ b[2] = 0)
      BY <2>2 DEF Written, ProgramAt
    <2>4. list = Fresh(batch)
      BY <1>1, <2>2, <2>3 DEF PlaceInv
    <2>5. table = TableFor(batch, stage)
      BY <1>1, <2>2, <2>3 DEF PlaceInv, Long, Stages
    <2> QED
      BY <2>4, <2>5
  <1>2. PlaceInv /\ [Next]_vars =>
          [cpu = "stopped" /\ cpu' = "running" =>
             list = Fresh(batch) /\ table = TableFor(batch, stage)]_vars
    BY <1>1
  <1>3. Init => PlaceInv
    BY DriverInit
  <1>4. PlaceInv /\ [Next]_vars => PlaceInv'
    BY PlaceStep
  <1> QED
    BY <1>2, <1>3, <1>4, PTL DEF Spec, RunsOnFreshData

-----------------------------------------------------------------------------
\* The program started last is the one of this stage over this batch's list,
\* from its start until the statuses of the poll and of the read are looked at;
\* and a read that answers 0 finds it ended.
Mine ==
  /\ last.batch = batch /\ last.stage = stage
  /\ cpu = "stopped" => last.ended = TRUE

LastInv ==
  /\ polling => Mine
  /\ step = ProgramAt + 1 /\ b[ProgramAt] = 0 => Mine
  /\ step = ProgramAt + 2 /\ AllZero => Mine /\ cpu = "stopped"

LEMMA AllZeroPlaces ==
  AllZero <=> \A k \in 1 .. ProgramAt + 1 : b[k] = 0
  BY CommandPlaces DEF AllZero

\* The commands before the program, and those that lead back to a beginning.
LEMMA Early ==
  ASSUME step' \in Nat, step' <= ProgramAt', ~polling', ProgramAt' \in {2, 3} PROVE LastInv'
  <1>1. \A p \in {2, 3}, s \in Nat : s <= p => s # p + 1 /\ s # p + 2
    OBVIOUS
  <1>2. step' # ProgramAt' + 1 /\ step' # ProgramAt' + 2
    BY <1>1
  <1> QED
    BY <1>2 DEF LastInv

LEMMA LastStep ==
  ASSUME PlaceInv, LastInv, [Next]_vars PROVE LastInv'
  <1> USE At
  <1>1. CASE DoWriteList \/ DoWriteTable
    <2>1. PICK status \in {0, 1} : Answered(status)
      BY <1>1 DEF DoWriteList, DoWriteTable
    <2>2. ~Done /\ step \in Nat /\ step < ProgramAt /\ step <= ProgramAt + 1 /\ ProgramAt \in {2, 3}
      BY <1>1 DEF DoWriteList, DoWriteTable
    <2>3. step' = step + 1 /\ ProgramAt' = ProgramAt
      BY <2>1, <2>2, AnsweredPlace
    <2>4. ~polling'
      BY <2>1 DEF Answered
    <2> QED
      BY <2>2, <2>3, <2>4, Early
  <1>2. CASE Run
    <2>1. ~Done /\ step = ProgramAt /\ ProgramAt \in {2, 3} /\ stage \in Stages
      BY <1>2 DEF Run
    <2>2. CASE Start(stage) /\ polling' = TRUE /\ UNCHANGED <<batch, stage, step, b>>
      <3>1. list.batch = batch
        <4>1. b[1] = 0 /\ ~polling
          BY <1>2, <2>1 DEF Run, Written
        <4> QED
          BY <2>1, <4>1 DEF PlaceInv, Fresh
      <3>2. /\ last' = [batch |-> list.batch, stage |-> stage, ended |-> FALSE]
            /\ cpu' = "running" /\ batch' = batch /\ stage' = stage /\ step' = step
        BY <2>2 DEF Start
      <3>3. Mine'
        BY <3>1, <3>2 DEF Mine
      <3>4. ProgramAt' = ProgramAt
        BY <3>2 DEF ProgramAt, Long
      <3>5. step' # ProgramAt' + 1 /\ step' # ProgramAt' + 2
        BY <2>1, <3>2, <3>4
      <3> QED
        BY <3>3, <3>5 DEF LastInv
    <2>3. CASE NotConnected /\ Answered(1)
      <3>1. /\ b'[step] = 1 /\ step' = step + 1 /\ ProgramAt' = ProgramAt
            /\ ~polling'
        <4>1. step <= ProgramAt + 1 /\ 1 \in {0, 1}
          BY <2>1
        <4> QED
          BY <2>1, <2>3, <4>1, AnsweredPlace
      <3>2. b'[ProgramAt'] # 0 /\ step' # ProgramAt' + 2
        BY <2>1, <3>1
      <3> QED
        BY <3>1, <3>2 DEF LastInv
    <2> QED
      BY <1>2, <2>2, <2>3 DEF Run
  <1>3. CASE SkipRun
    <2>1. /\ step = ProgramAt /\ step' = ProgramAt + 2 /\ ProgramAt \in {2, 3} /\ ~Written
          /\ batch' = batch /\ stage' = stage /\ b' = b
      BY <1>3, CommandPlaces DEF SkipRun
    <2>2. ~polling'
      BY <1>3 DEF SkipRun
    <2>3. ProgramAt' = ProgramAt /\ step' # ProgramAt' + 1
      BY <2>1 DEF ProgramAt, Long
    <2>4. ~AllZero
      BY <2>1, AllZeroPlaces DEF Written
    <2>5. AllZero' <=> AllZero
      BY <2>1 DEF AllZero, Commands, WithTable, Without
    <2> QED
      BY <2>2, <2>3, <2>4, <2>5 DEF LastInv
  <1>4. CASE Poll
    <2>1. PICK status \in {0, 1} : Polled(status) /\ Answered(status)
      BY <1>4 DEF Poll
    <2>2. ~Done /\ step = ProgramAt /\ ProgramAt \in {2, 3} /\ step <= ProgramAt + 1
      BY <1>4 DEF Poll, PlaceInv
    <2>3. step' = step + 1 /\ ProgramAt' = ProgramAt /\ batch' = batch /\ stage' = stage
      BY <2>1, <2>2, AnsweredPlace
    <2>4. ~polling'
      BY <2>1 DEF Answered
    <2>5. Mine'
      <3>1. Mine
        BY <1>4 DEF LastInv, Poll
      <3>2. last' = last /\ cpu' = cpu
        BY <2>1 DEF Polled
      <3> QED
        BY <2>3, <3>1, <3>2 DEF Mine
    <2>6. step' # ProgramAt' + 2
      BY <2>2, <2>3
    <2> QED
      BY <2>4, <2>5, <2>6 DEF LastInv
  <1>5. CASE DoReadLog
    <2>1. PICK status \in {0, 1} : ReadLog(status) /\ Answered(status)
      BY <1>5 DEF DoReadLog
    <2>2. ~Done /\ step = ProgramAt + 1 /\ ProgramAt \in {2, 3} /\ step <= ProgramAt + 1
      BY <1>5 DEF DoReadLog
    <2>3. /\ step' = step + 1 /\ ProgramAt' = ProgramAt /\ batch' = batch /\ stage' = stage
          /\ b'[step] = status /\ \A k \in 1 .. 4 : k # step => b'[k] = b[k]
      BY <2>1, <2>2, AnsweredPlace
    <2>4. ~polling'
      BY <2>1 DEF Answered
    <2>5. AllZero' => Mine' /\ cpu' = "stopped"
      <3> SUFFICES ASSUME AllZero' PROVE Mine' /\ cpu' = "stopped"
        OBVIOUS
      <3>1. \A k \in 1 .. ProgramAt + 1 : b'[k] = 0
        <4>1. Commands' = Commands
          BY <2>3 DEF Commands, WithTable, Without
        <4> QED
          BY <4>1, CommandPlaces DEF AllZero
      <3>2. status = 0 /\ b[ProgramAt] = 0
        BY <2>2, <2>3, <3>1
      <3>3. last' = last /\ cpu' = cpu /\ ~Silent
        BY <2>1, <3>2 DEF ReadLog, linkVars
      <3>4. cpu = "stopped"
        BY <3>3 DEF Silent, PlaceInv, LinkTypeOK
      <3>5. Mine
        BY <2>2, <3>2 DEF LastInv
      <3> QED
        BY <2>3, <3>3, <3>4, <3>5 DEF Mine
    <2>6. step' # ProgramAt' + 1
      BY <2>2, <2>3
    <2> QED
      BY <2>4, <2>5, <2>6 DEF LastInv
  <1>6. CASE Pass \/ Retry
    <2>1. step' = 1 /\ step = ProgramAt + 2
      BY <1>6 DEF Pass, Retry
    <2>2. ~polling
      BY <2>1 DEF PlaceInv
    <2>3. ~polling'
      BY <1>6, <2>2 DEF Pass, Retry
    <2>4. ProgramAt' \in {2, 3}
      BY DEF ProgramAt
    <2> QED
      BY <2>1, <2>3, <2>4, Early
  <1>7. CASE Board
    <2>1. batch' = batch /\ stage' = stage /\ step' = step /\ b' = b
      BY <1>7 DEF Board, driverVars
    <2>2. polling' = polling
      BY <1>7 DEF Board, driverVars
    <2>3. ProgramAt' = ProgramAt /\ (AllZero' <=> AllZero)
      BY <2>1 DEF ProgramAt, Long, AllZero, Commands, WithTable, Without
    <2>4. last' = [last EXCEPT !.ended = TRUE] /\ cpu' = "stopped"
      BY <1>7 DEF Board, Finish
    <2>5. Mine => Mine'
      BY <2>1, <2>4 DEF Mine, PlaceInv, LinkTypeOK
    <2> QED
      BY <2>1, <2>2, <2>3, <2>4, <2>5 DEF LastInv
  <1>8. CASE UNCHANGED vars
    <2>1. /\ batch' = batch /\ stage' = stage /\ step' = step /\ b' = b
          /\ last' = last /\ cpu' = cpu
      BY <1>8 DEF vars
    <2>2. polling' = polling
      BY <1>8 DEF vars
    <2>3. ProgramAt' = ProgramAt /\ (AllZero' <=> AllZero) /\ (Mine' <=> Mine)
      BY <2>1 DEF ProgramAt, Long, AllZero, Commands, WithTable, Without, Mine
    <2> QED
      BY <2>1, <2>2, <2>3 DEF LastInv
  <1> QED
    BY <1>1, <1>2, <1>3, <1>4, <1>5, <1>6, <1>7, <1>8 DEF Next, Driver, Finished

\* The driver leaves a stage only when that stage's program, over that batch's
\* list, has come to its end, although a failed poll is taken for its end.
THEOREM EndedWhenPassed == Spec => PassesWhenEnded
  <1>1. Init => PlaceInv /\ LastInv
    <2> SUFFICES ASSUME Init PROVE LastInv
      BY DriverInit
    <2>1. step = 1 /\ ~polling /\ ProgramAt = 3
      BY DEF Init, ProgramAt, Long
    <2> QED
      BY <2>1 DEF LastInv
  <1>2. PlaceInv /\ LastInv /\ [Next]_vars => PlaceInv' /\ LastInv'
    BY PlaceStep, LastStep
  <1>3. ASSUME PlaceInv, LastInv, Next, stage' # stage \/ batch' # batch
        PROVE  /\ cpu = "stopped"
               /\ last = [batch |-> batch, stage |-> stage, ended |-> TRUE]
    <2>1. Pass
      BY <1>3 DEF Next, Driver, Finished, DoWriteList, DoWriteTable, Run, SkipRun, Poll,
         DoReadLog, Retry, Answered, Board, driverVars, vars
    <2>2. step = ProgramAt + 2 /\ AllZero
      BY <1>3, <2>1, At DEF Pass
    <2>3. Mine /\ cpu = "stopped"
      BY <1>3, <2>2 DEF LastInv
    <2>4. last \in [batch : Batches \cup {0}, stage : Stages \cup {0}, ended : BOOLEAN]
      BY <1>3 DEF PlaceInv, LinkTypeOK
    <2> QED
      BY <2>3, <2>4 DEF Mine
  <1>4. PlaceInv /\ LastInv /\ [Next]_vars =>
          [stage' # stage \/ batch' # batch =>
             /\ cpu = "stopped"
             /\ last = [batch |-> batch, stage |-> stage, ended |-> TRUE]]_vars
    BY <1>3
  <1> QED
    BY <1>1, <1>2, <1>4, PTL DEF Spec, PassesWhenEnded
=============================================================================
