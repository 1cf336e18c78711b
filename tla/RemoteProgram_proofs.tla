------------------------ MODULE RemoteProgram_proofs ------------------------
(***************************************************************************)
(* For every design and any number of failures: a command that fails costs *)
(* the gates of its own bin only, every gate with a target is in one bin,  *)
(* and its word in the list is what that bin's programs measure.           *)
(***************************************************************************)
EXTENDS RemoteProgram, TLAPS

LEMMA TableType ==
  ASSUME NEW n \in Batches, NEW s \in Stages
  PROVE  TableFor(n, s) \in Files
BY BinsAssumption DEF TableFor, Tables

LEMMA ExpectedNone ==
  ASSUME NEW n PROVE Expected(n, 0) = <<>>
BY DEF Expected

LEMMA ExpectedNext ==
  ASSUME NEW n \in Batches, NEW k \in 1 .. 4
  PROVE  Append(Expected(n, k - 1), <<n, k, TableFor(n, k)>>) = Expected(n, k)
BY DEF Expected

LEMMA InitInv == Init => RemoteInv
<1> SUFFICES ASSUME Init PROVE RemoteInv
  OBVIOUS
<1>1. PICK n \in 1 .. NBatches + 1 : NextBin(0, n) /\ batch = n
  BY DEF Init
<1>2. Done \/ Filled(batch)
  BY <1>1, LinkAssumption DEF NextBin, Done
<1>3. TypeOK
  BY <1>1, <1>2, LinkAssumption DEF Init, TypeOK, LinkInit, LinkTypeOK, Batches, Stages
<1>4. CurrentBin
  BY <1>1, ExpectedNone, LinkAssumption DEF Init, LinkInit, CurrentBin, Done, Batches
<1>5. FreshList /\ NotYet
  BY DEF Init, LinkInit, FreshList, NotYet
<1>6. FailureIsLocal
  BY <1>1, LinkAssumption DEF Init, FailureIsLocal, NextBin, Batches
<1> QED BY <1>3, <1>4, <1>5, <1>6 DEF RemoteInv

LEMMA AtBin ==
  ASSUME RemoteInv, ~Done
  PROVE  batch \in Batches /\ Filled(batch)
BY LinkAssumption DEF RemoteInv, TypeOK, Done, Batches

LEMMA WriteListInv == RemoteInv /\ DoWriteList => RemoteInv'
<1> SUFFICES ASSUME RemoteInv, DoWriteList PROVE RemoteInv'
  OBVIOUS
<1>1. batch \in Batches /\ batch \in Nat /\ Filled(batch)
  BY AtBin, LinkAssumption DEF DoWriteList, Batches
<1>2. PICK status \in {0, 1} : WriteList(batch, status) /\ Answered(status)
  BY DEF DoWriteList
<1>3. LinkTypeOK'
  BY <1>1, <1>2, LinkAssumption
     DEF RemoteInv, TypeOK, LinkTypeOK, WriteList, NotConnected, Fault, Fresh
<1>4. /\ hit' = (IF status = 0 THEN hit ELSE hit \cup {batch})
      /\ hit' \subseteq Batches /\ \A n \in hit' : n <= batch /\ Filled(n)
  BY <1>1, <1>2 DEF Answered, RemoteInv, TypeOK
<1>5. TypeOK'
  BY <1>1, <1>3, <1>4 DEF RemoteInv, TypeOK, DoWriteList, Done, Filled
<1>6. CurrentBin'
  BY <1>1, <1>2, <1>4 DEF RemoteInv, CurrentBin, TypeOK, DoWriteList, Done, WriteList, Silent,
     Fresh, LinkTypeOK, Stages
<1>7. FreshList'
  BY <1>1, <1>2, <1>4 DEF RemoteInv, FreshList, DoWriteList, WriteList, NotConnected, Fresh
<1>8. NotYet' /\ FailureIsLocal'
  BY <1>4 DEF RemoteInv, NotYet, FailureIsLocal, DoWriteList, Filled
<1> QED BY <1>5, <1>6, <1>7, <1>8 DEF RemoteInv

LEMMA WriteTableInv == RemoteInv /\ DoWriteTable => RemoteInv'
<1> SUFFICES ASSUME RemoteInv, DoWriteTable PROVE RemoteInv'
  OBVIOUS
<1> DEFINE file == TableFor(batch, stage)
<1>1. batch \in Batches /\ batch \in Nat /\ stage \in {1, 4} /\ Filled(batch)
  BY AtBin, LinkAssumption DEF DoWriteTable, Batches, RemoteInv, TypeOK
<1>2. file \in Files
  BY <1>1, TableType DEF Stages
<1>3. PICK status \in {0, 1} :
        Answered(status) /\ (WriteTable(file, status) \/ (status = 1 /\ UNCHANGED linkVars))
  BY DEF DoWriteTable
<1> HIDE DEF file
<1>4. LinkTypeOK' /\ list' = list /\ cpu' = cpu
  BY <1>2, <1>3, LinkAssumption
     DEF RemoteInv, TypeOK, LinkTypeOK, WriteTable, NotConnected, Fault, linkVars
<1>5. /\ hit' = (IF status = 0 THEN hit ELSE hit \cup {batch})
      /\ hit' \subseteq Batches /\ \A n \in hit' : n <= batch /\ Filled(n)
  BY <1>1, <1>3 DEF Answered, RemoteInv, TypeOK
<1>6. status = 0 => table' = file
  BY <1>3 DEF WriteTable
<1>7. TypeOK'
  BY <1>4, <1>5 DEF RemoteInv, TypeOK, DoWriteTable, Done, Filled
<1>8. CurrentBin'
  BY <1>1, <1>4, <1>5, <1>6 DEF RemoteInv, CurrentBin, DoWriteTable, Done, file, Fresh
<1>9. FreshList' /\ NotYet' /\ FailureIsLocal'
  BY <1>4, <1>5 DEF RemoteInv, FreshList, NotYet, FailureIsLocal, DoWriteTable, Filled
<1> QED BY <1>7, <1>8, <1>9 DEF RemoteInv

LEMMA RunInv == RemoteInv /\ Run => RemoteInv'
<1> SUFFICES ASSUME RemoteInv, Run PROVE RemoteInv'
  OBVIOUS
<1>1. batch \in Batches /\ Filled(batch) /\ stage \in Stages /\ ~Done /\ pc = "program"
  BY AtBin DEF Run, RemoteInv, TypeOK
<1>2. /\ list \in [batch : Batches \cup {0}, state : {"fresh", "used", "torn"}]
      /\ table \in Files \cup {Torn}
      /\ ran \in [Batches -> Seq(Batches \X Stages \X (Files \cup {Torn}))]
  BY DEF RemoteInv, TypeOK, LinkTypeOK
<1>3. list' = [list EXCEPT !.state = "used"] /\ UNCHANGED <<table, faults, design, batch, stage, hit>>
  BY DEF Run, Start
<1>4. LinkTypeOK'
  BY <1>1, <1>2, <1>3 DEF RemoteInv, TypeOK, LinkTypeOK, Run, Start
<1>5. CASE list.state = "fresh"
  <2> DEFINE b == list.batch
             entry == <<batch, stage, table>>
  <2>1. b \in Batches /\ b <= batch /\ (b < batch => b \in hit)
    BY <1>5 DEF RemoteInv, FreshList
  <2>2. ran' = [ran EXCEPT ![b] = Append(ran[b], entry)]
    BY <1>5 DEF Run
  <2>3. entry \in Batches \X Stages \X (Files \cup {Torn})
    BY <1>1, <1>2
  <2>4. ran[b] \in Seq(Batches \X Stages \X (Files \cup {Torn}))
    BY <1>2, <2>1
  <2>5. Append(ran[b], entry) \in Seq(Batches \X Stages \X (Files \cup {Torn}))
    BY <2>3, <2>4
  <2>6. ran' \in [Batches -> Seq(Batches \X Stages \X (Files \cup {Torn}))]
        /\ ran'[b] = Append(ran[b], entry) /\ \A n \in Batches : n # b => ran'[n] = ran[n]
    BY <1>2, <2>1, <2>2, <2>5
  <2>7. TypeOK'
    BY <1>3, <1>4, <2>6 DEF RemoteInv, TypeOK, Run, Done, Filled
  <2>8. batch \notin hit => b = batch /\ table = TableFor(batch, stage)
                            /\ ran[batch] = Expected(batch, stage - 1)
    BY <1>1 DEF RemoteInv, CurrentBin, Fresh
  <2>9. batch \notin hit => ran'[batch] = Expected(batch, stage)
    BY <1>1, <2>6, <2>8, ExpectedNext DEF Stages
  <2>10. batch \notin hit => table = TableFor(batch, stage)
    BY <2>8
  <2>11. list'.state = "used" /\ pc' = "poll"
    BY <1>2, <1>3 DEF Run
  <2>12. CurrentBin' /\ FreshList'
    BY <1>3, <2>9, <2>10, <2>11 DEF CurrentBin, FreshList
  <2>13. b = batch \/ b \in hit
    BY <2>1, LinkAssumption DEF RemoteInv, TypeOK, Batches
  <2>14. b \in Batches /\ batch \in Nat /\ b <= batch
    BY <1>1, <2>1, LinkAssumption DEF Batches
  <2>15. NotYet'
    <3>1. Filled(b)
      BY <1>1, <2>13 DEF RemoteInv, TypeOK
    <3>2. \A n \in Batches : n > batch \/ ~Filled(n) => n # b
      BY <2>14, <3>1, LinkAssumption DEF Batches
    <3> QED BY <1>3, <2>6, <3>2 DEF RemoteInv, NotYet, Filled
  <2>16. FailureIsLocal'
    <3>1. \A n \in Batches : n < batch /\ n \notin hit => n # b
      BY <2>13, <2>14, LinkAssumption DEF Batches
    <3> QED BY <1>3, <2>6, <3>1 DEF RemoteInv, FailureIsLocal, Filled
  <2> QED BY <2>7, <2>12, <2>15, <2>16 DEF RemoteInv
<1>6. CASE list.state # "fresh"
  <2>1. ran' = ran
    BY <1>6 DEF Run
  <2>2. TypeOK'
    BY <1>3, <1>4, <2>1 DEF RemoteInv, TypeOK, Run, Done, Filled
  <2>3. batch \in hit
    BY <1>1, <1>6 DEF RemoteInv, CurrentBin, Fresh
  <2>4. CurrentBin' /\ FreshList'
    BY <1>2, <1>3, <2>3 DEF CurrentBin, FreshList
  <2>5. NotYet' /\ FailureIsLocal'
    BY <1>3, <2>1 DEF RemoteInv, NotYet, FailureIsLocal, Filled
  <2> QED BY <2>2, <2>4, <2>5 DEF RemoteInv
<1> QED BY <1>5, <1>6

\* What going on to the next stage or bin leaves to show: that the stage that is
\* left was the bin's, or that one of its commands failed, and that its list is
\* not left for another bin's program.
LEMMA GoOnInv ==
  ASSUME RemoteInv, ~Done, GoOn,
         UNCHANGED <<list, table, design, ran>>, LinkTypeOK',
         hit' \subseteq hit \cup {batch}, hit \subseteq hit',
         batch \notin hit' => ran[batch] = Expected(batch, stage)
                              /\ (stage \in {1, 2} => table = TableFor(batch, stage))
                              /\ list # Fresh(batch)
  PROVE  RemoteInv'
<1>1. batch \in Batches /\ Filled(batch) /\ batch \in Nat /\ stage \in Stages
  BY AtBin, LinkAssumption DEF RemoteInv, TypeOK, Batches
<1>2. /\ list \in [batch : Batches \cup {0}, state : {"fresh", "used", "torn"}]
      /\ hit \subseteq Batches /\ \A n \in hit : n <= batch /\ Filled(n)
  BY DEF RemoteInv, TypeOK, LinkTypeOK
<1>3. hit' \subseteq Batches /\ \A n \in hit' : n <= batch /\ Filled(n)
  BY <1>1, <1>2
<1>4. pc' = "list" /\ \A n \in Batches : Filled(n)' = Filled(n)
  BY DEF GoOn, Filled
<1>5. list.state = "fresh" =>
        list.batch \in Batches /\ list.batch <= batch
        /\ (list.batch = batch => batch \in hit') /\ (list.batch < batch => list.batch \in hit')
  BY <1>2 DEF RemoteInv, FreshList, Fresh
<1>6. CASE stage < 4
  <2>1. stage' = stage + 1 /\ batch' = batch
    BY <1>6 DEF GoOn
  <2>2. TypeOK'
    BY <1>1, <1>3, <1>4, <2>1, <1>6 DEF RemoteInv, TypeOK, Done, Filled, Stages
  <2>3. stage' \in Stages /\ stage' - 1 = stage
    BY <1>1, <1>6, <2>1 DEF Stages
  <2>4. stage' \in {2, 3} => stage \in {1, 2} /\ TableFor(batch, stage') = TableFor(batch, stage)
    BY <1>1, <2>1 DEF TableFor, Stages
  <2>5. batch \notin hit' => ~(list.state = "fresh" /\ list.batch = batch)
    BY <1>5
  <2>6. CurrentBin'
    BY <1>4, <2>1, <2>3, <2>4, <2>5 DEF CurrentBin
  <2>7. FreshList'
    BY <1>5, <2>1 DEF FreshList
  <2>8. NotYet' /\ FailureIsLocal'
    BY <1>4, <2>1 DEF RemoteInv, NotYet, FailureIsLocal
  <2> QED BY <2>2, <2>6, <2>7, <2>8 DEF RemoteInv
<1>7. CASE ~(stage < 4)
  <2>1. stage' = 1 /\ stage = 4
    BY <1>1, <1>7 DEF GoOn, Stages
  <2>2. PICK n \in batch + 1 .. NBatches + 1 : NextBin(batch, n) /\ batch' = n
    BY <1>7 DEF GoOn
  <2>3. batch' \in 1 .. NBatches + 1 /\ batch < batch' /\ (batch' <= NBatches => Filled(batch'))
    BY <1>1, <2>2, LinkAssumption DEF NextBin
  <2>4. \A k \in Batches : batch < k /\ k < batch' => ~Filled(k)
    BY <1>1, <2>2, LinkAssumption DEF NextBin, Batches
  <2>5. TypeOK'
    <3>1. Done' \/ Filled(batch)'
      BY <2>3, LinkAssumption DEF Done, Filled
    <3>2. \A k \in hit' : k <= batch' /\ Filled(k)'
      BY <1>1, <1>3, <1>4, <2>3, LinkAssumption DEF Batches
    <3> QED BY <1>3, <1>4, <2>1, <2>3, <3>1, <3>2 DEF RemoteInv, TypeOK, Stages
  <2>6. CurrentBin'
    <3>1. SUFFICES ASSUME ~Done', batch' \notin hit' PROVE CurrentBin'
      BY DEF CurrentBin
    <3>2. batch' \in Batches
      BY <2>3, <3>1, LinkAssumption DEF Done, Batches
    <3>3. ran'[batch'] = Expected(batch', 0)
      BY <2>3, <3>2, ExpectedNone DEF RemoteInv, NotYet
    <3>4. ~(list.state = "fresh" /\ list.batch = batch')
      BY <1>1, <1>5, <2>3
    <3> QED BY <1>4, <2>1, <3>3, <3>4 DEF CurrentBin
  <2>7. FreshList'
    BY <1>1, <1>5, <2>3, LinkAssumption DEF FreshList, Batches
  <2>8. NotYet'
    BY <1>1, <1>4, <2>3, LinkAssumption DEF RemoteInv, NotYet, Batches
  <2>9. FailureIsLocal'
    <3>1. SUFFICES ASSUME NEW k \in Batches, k < batch', Filled(k), k \notin hit'
                   PROVE  ran[k] = Expected(k, 4)
      BY <1>4 DEF FailureIsLocal
    <3>2. k < batch \/ k = batch
      BY <1>1, <2>4, <3>1, LinkAssumption DEF Batches
    <3> QED BY <2>1, <3>1, <3>2 DEF RemoteInv, FailureIsLocal
  <2> QED BY <2>5, <2>6, <2>7, <2>8, <2>9 DEF RemoteInv
<1> QED BY <1>1, <1>6, <1>7 DEF Stages

LEMMA RunFailsInv == RemoteInv /\ RunFails => RemoteInv'
<1> SUFFICES ASSUME RemoteInv, RunFails PROVE RemoteInv'
  OBVIOUS
<1>1. LinkTypeOK'
  BY LinkAssumption DEF RunFails, NotConnected, Fault, RemoteInv, TypeOK, LinkTypeOK
<1>2. hit' = hit \cup {batch} /\ UNCHANGED <<list, table, design, ran>> /\ ~Done /\ GoOn
  BY DEF RunFails, NotConnected, Answered
<1> QED BY <1>1, <1>2, GoOnInv

LEMMA PollInv == RemoteInv /\ Poll => RemoteInv'
<1> SUFFICES ASSUME RemoteInv, Poll PROVE RemoteInv'
  OBVIOUS
<1>1. LinkTypeOK'
  BY LinkAssumption DEF Poll, Polled, Fault, RemoteInv, TypeOK, LinkTypeOK
<1>2. hit \subseteq hit' /\ hit' \subseteq hit \cup {batch}
      /\ UNCHANGED <<list, table, design, ran>> /\ ~Done /\ GoOn /\ pc = "poll"
  BY DEF Poll, Polled, Answered
<1>3. batch \notin hit' => ran[batch] = Expected(batch, stage)
  BY <1>2 DEF RemoteInv, CurrentBin
<1>4. batch \notin hit' => list # Fresh(batch)
  BY <1>2 DEF RemoteInv, CurrentBin, Fresh
<1>5. batch \notin hit' /\ stage \in {1, 2} => table = TableFor(batch, stage)
  BY <1>2 DEF RemoteInv, CurrentBin
<1> QED BY <1>1, <1>2, <1>3, <1>4, <1>5, GoOnInv

LEMMA BoardInv == RemoteInv /\ Board => RemoteInv'
<1> SUFFICES ASSUME RemoteInv, Board PROVE RemoteInv'
  OBVIOUS
<1>1. LinkTypeOK'
  BY DEF Board, Finish, RemoteInv, TypeOK, LinkTypeOK
<1>2. UNCHANGED <<list, table, design, batch, stage, pc, hit, ran>> /\ cpu' = "stopped"
  BY DEF Board, Finish
<1>3. TypeOK'
  BY <1>1, <1>2 DEF RemoteInv, TypeOK, Done, Filled
<1> QED BY <1>2, <1>3 DEF RemoteInv, CurrentBin, FreshList, NotYet, FailureIsLocal, Done, Filled

LEMMA NextInv == RemoteInv /\ [Next]_vars => RemoteInv'
<1>1. RemoteInv /\ UNCHANGED vars => RemoteInv'
  BY DEF vars, RemoteInv, TypeOK, LinkTypeOK, CurrentBin, FreshList, NotYet, FailureIsLocal,
         Done, Filled
<1> QED BY <1>1, WriteListInv, WriteTableInv, RunInv, RunFailsInv, PollInv, BoardInv
        DEF Next, Script, Finished

\* RemoteInv is inductive: whose list is in SRAM at every command, although no
\* status is looked at.
THEOREM RemoteInvariant == Spec => []RemoteInv
<1>1. Init => RemoteInv
  BY InitInv
<1>2. RemoteInv /\ [Next]_vars => RemoteInv'
  BY NextInv
<1> QED BY <1>1, <1>2, PTL DEF Spec

\* What fails for one bin does not come through to the gates of another.
THEOREM Confinement == Spec => []FailureIsLocal
<1>1. RemoteInv => FailureIsLocal
  BY DEF RemoteInv
<1> QED BY <1>1, RemoteInvariant, PTL

-----------------------------------------------------------------------------
(* The bins. *)

LEMMA BinCount == Batches = 1 .. 17
BY BinsAssumption DEF Bins

\* No two bins are of the same kind and range; only the kinds in WithHigh have a
\* high bin, and every other range of every kind has one.
LEMMA BinsDiffer ==
  ASSUME NEW m \in Batches, NEW n \in Batches, Bins[m] = Bins[n]
  PROVE  m = n
BY BinCount DEF Bins

LEMMA BinParts ==
  ASSUME NEW n \in Batches
  PROVE  /\ Bins[n] = <<Bins[n][1], Bins[n][2]>>
         /\ Bins[n][1] \in {"high", "above", "sub", "low"}
         /\ Bins[n][1] = "high" => Bins[n][2] \in WithHigh
BY BinCount DEF Bins, WithHigh

LEMMA BinExists ==
  ASSUME NEW kind \in {"swc", "ota", "otaref", "mite", "dirswc"},
         NEW range \in {"high", "above", "sub", "low"},
         range = "high" => kind \in WithHigh
  PROVE  \E n \in Batches : Bins[n] = <<range, kind>>
<1>1. CASE kind = "swc"
  <2>1. /\ Bins[1] = <<"high", "swc">> /\ Bins[2] = <<"above", "swc">>
        /\ Bins[3] = <<"sub", "swc">> /\ Bins[4] = <<"low", "swc">>
    BY DEF Bins
  <2> QED BY <1>1, <2>1, BinCount
<1>2. CASE kind = "ota"
  <2>1. /\ Bins[5] = <<"high", "ota">> /\ Bins[6] = <<"above", "ota">>
        /\ Bins[7] = <<"sub", "ota">> /\ Bins[8] = <<"low", "ota">>
    BY DEF Bins
  <2> QED BY <1>2, <2>1, BinCount
<1>3. CASE kind = "otaref"
  <2>1. /\ Bins[9] = <<"above", "otaref">> /\ Bins[10] = <<"sub", "otaref">>
        /\ Bins[11] = <<"low", "otaref">>
    BY DEF Bins
  <2> QED BY <1>3, <2>1, BinCount DEF WithHigh
<1>4. CASE kind = "mite"
  <2>1. /\ Bins[12] = <<"above", "mite">> /\ Bins[13] = <<"sub", "mite">>
        /\ Bins[14] = <<"low", "mite">>
    BY DEF Bins
  <2> QED BY <1>4, <2>1, BinCount DEF WithHigh
<1>5. CASE kind = "dirswc"
  <2>1. /\ Bins[15] = <<"above", "dirswc">> /\ Bins[16] = <<"sub", "dirswc">>
        /\ Bins[17] = <<"low", "dirswc">>
    BY DEF Bins
  <2> QED BY <1>5, <2>1, BinCount DEF WithHigh
<1> QED BY <1>1, <1>2, <1>3, <1>4, <1>5

\* The ranges of a kind divide the currents: both bounds of each belong to one.
LEMMA RangesDivide ==
  ASSUME NEW kind, NEW t \in Nat
  PROVE  /\ \E range \in {"high", "above", "sub", "low"} :
              Holds(range, kind, t) /\ (range = "high" => kind \in WithHigh)
         /\ \A r, s \in {"high", "above", "sub", "low"} :
              Holds(r, kind, t) /\ Holds(s, kind, t) => r = s
<1>1. CASE kind \in WithHigh
  BY <1>1 DEF Holds, OneNA, HundredNA, TenUA
<1>2. CASE kind \notin WithHigh
  BY <1>2 DEF Holds, OneNA, HundredNA, TenUA
<1> QED BY <1>1, <1>2

LEMMA KindOfGate ==
  ASSUME NEW type \in Types
  PROVE  /\ type = 0 => \A kind : ~IsKind(type, kind)
         /\ type # 0 => \E kind \in {"swc", "ota", "otaref", "mite", "dirswc"} :
                          \A k : IsKind(type, k) <=> k = kind
<1>1. CASE type = 0
  BY <1>1 DEF IsKind, Plain
<1>2. CASE type # 0
  <2>1. Plain(type) \in 1 .. 6
    BY <1>2 DEF Types, Plain
  <2>2. KindOf[Plain(type)] \in {"swc", "ota", "otaref", "mite", "dirswc"}
    BY <2>1 DEF KindOf
  <2> QED BY <1>2, <2>1, <2>2 DEF IsKind
<1> QED BY <1>1, <1>2

\* A gate with a target is in exactly one list, a switch in none.
LEMMA ListedOnce ==
  ASSUME NEW d \in Designs, NEW i \in DOMAIN d
  PROVE  /\ d[i].type = 0 => \A n \in Batches : i \notin Listed(d, n)
         /\ d[i].type # 0 => \E n \in Batches : \A m \in Batches : i \in Listed(d, m) <=> m = n
<1>1. d[i].type \in Types /\ d[i].target \in Nat
  <2>1. d \in Seq(Gates)
    BY BinsAssumption
  <2>2. d[i] \in Gates
    BY <2>1
  <2> QED BY <2>2 DEF Gates
<1> DEFINE type == d[i].type
           t    == d[i].target
<1>2. \A n : i \in Listed(d, n) <=> IsKind(type, Bins[n][2]) /\ Holds(Bins[n][1], Bins[n][2], t)
  BY DEF Listed
<1>3. CASE type = 0
  <2> HIDE DEF t
  <2> QED BY <1>1, <1>2, <1>3, KindOfGate
<1>4. CASE type # 0
  <2> HIDE DEF type, t
  <2>1. PICK kind \in {"swc", "ota", "otaref", "mite", "dirswc"} :
          \A k : IsKind(type, k) <=> k = kind
    BY <1>1, <1>4, KindOfGate DEF type
  <2>2. PICK range \in {"high", "above", "sub", "low"} :
          /\ Holds(range, kind, t) /\ (range = "high" => kind \in WithHigh)
          /\ \A r \in {"high", "above", "sub", "low"} : Holds(r, kind, t) => r = range
    BY <1>1, RangesDivide DEF t
  <2>3. PICK n \in Batches : Bins[n] = <<range, kind>>
    BY <2>2, BinExists
  <2>4. ASSUME NEW m \in Batches
        PROVE  i \in Listed(d, m) <=> m = n
    <3>1. i \in Listed(d, m) <=> Bins[m][2] = kind /\ Holds(Bins[m][1], kind, t)
      BY <1>2, <2>1
    <3>2. Bins[m][2] = kind /\ Holds(Bins[m][1], kind, t) <=> Bins[m] = <<range, kind>>
      BY <2>2, BinParts
    <3> QED BY <2>3, <2>4, <3>1, <3>2, BinsDiffer
  <2> QED BY <1>4, <2>4 DEF type
<1> QED BY <1>3, <1>4

\* Every gate with a target is a gate of one bin, which has had its four programs
\* when the script ends, unless a command of that bin failed.
THEOREM OneBinAlways == Spec => []OneBinEach
<1>1. ASSUME RemoteInv
      PROVE  OneBinEach
  <2>1. SUFFICES ASSUME Done, NEW i \in DOMAIN design
                 PROVE  LET in == {n \in Batches : i \in Listed(design, n)}
                        IN  IF design[i].type = 0 THEN in = {}
                            ELSE \E n \in in : in = {n} /\ (n \notin hit => Len(ran[n]) = 4)
    BY DEF OneBinEach
  <2> DEFINE in == {n \in Batches : i \in Listed(design, n)}
  <2>2. design \in Designs
    BY <1>1 DEF RemoteInv, TypeOK
  <2>3. CASE design[i].type = 0
    BY <2>2, <2>3, ListedOnce
  <2>4. CASE design[i].type # 0
    <3>1. PICK n \in Batches : \A m \in Batches : i \in Listed(design, m) <=> m = n
      BY <2>2, <2>4, ListedOnce
    <3>2. n \in in /\ in = {n}
      BY <3>1
    <3>3. n < batch /\ Filled(n)
      <4>1. Filled(n)
        BY <3>1 DEF Filled
      <4>2. n < batch
        BY <1>1, <2>1, LinkAssumption DEF Done, Batches, RemoteInv, TypeOK
      <4> QED BY <4>1, <4>2
    <3>4. n \notin hit => ran[n] = Expected(n, 4)
      BY <1>1, <3>3 DEF RemoteInv, FailureIsLocal
    <3>5. Len(Expected(n, 4)) = 4
      BY DEF Expected
    <3> QED BY <2>4, <3>2, <3>4, <3>5
  <2> QED BY <2>3, <2>4
<1>2. RemoteInv => OneBinEach
  BY <1>1
<1> QED BY <1>2, RemoteInvariant, PTL

\* The word in the list stands for the target, but for the kinds without a high
\* bin above 10 uA.
THEOREM WordAlwaysFitsBin == Spec => []WordFitsBin
<1>1. ASSUME RemoteInv
      PROVE  WordFitsBin
  <2>1. SUFFICES ASSUME NEW n \in Batches, NEW i \in Listed(design, n)
                 PROVE  \/ Current(n, Word(design[i].target)) = design[i].target
                        \/ Bins[n][2] \notin WithHigh /\ design[i].target > TenUA
    BY DEF WordFitsBin
  <2> DEFINE t == design[i].target
             range == Bins[n][1]
             kind == Bins[n][2]
  <2>2. t \in Nat /\ Holds(range, kind, t) /\ (t > TenUA => t % kappa_constant = 0)
    <3>1. design \in Designs /\ i \in DOMAIN design
      BY <1>1 DEF RemoteInv, TypeOK, Listed
    <3>2. design \in Seq(Gates)
      BY <3>1, BinsAssumption
    <3>3. design[i] \in Gates
      BY <3>1, <3>2
    <3> QED BY <3>1, <3>3, KappaAssumption DEF Gates, Listed
  <2>3. range \in {"high", "above", "sub", "low"}
    BY BinParts
  <2>4. Current(n, Word(t)) = IF range = "high" THEN Word(t) * kappa_constant
                              ELSE IF range = "low" THEN Word(t) \div kappa_constant ELSE Word(t)
    BY DEF Current
  <2> HIDE DEF t, range, kind
  <2>5. CASE range = "high"
    <3>1. t > TenUA /\ Word(t) = t \div 30 /\ t % 30 = 0
      BY <2>2, <2>5 DEF Holds, Word, OneNA, TenUA, kappa_constant
    <3>2. (t \div 30) * 30 = t
      BY <2>2, <3>1
    <3> QED BY <2>4, <2>5, <3>1, <3>2 DEF kappa_constant, t
  <2>6. CASE range = "low"
    <3>1. Word(t) = t * 30
      BY <2>2, <2>6 DEF Holds, Word, OneNA, kappa_constant
    <3>2. (t * 30) \div 30 = t
      BY <2>2
    <3> QED BY <2>4, <2>6, <3>1, <3>2 DEF kappa_constant, t
  <2>7. CASE range \in {"above", "sub"}
    <3>1. Word(t) = t \/ (kind \notin WithHigh /\ t > TenUA)
      BY <2>2, <2>7 DEF Holds, Word, OneNA, HundredNA, TenUA
    <3> QED BY <2>4, <2>7, <3>1 DEF t, kind
  <2> QED BY <2>3, <2>5, <2>6, <2>7
<1>2. RemoteInv => WordFitsBin
  BY <1>1
<1> QED BY <1>2, RemoteInvariant, PTL
=============================================================================
