------------------------ MODULE SwitchDriver_proofs ------------------------
(***************************************************************************)
(* For lists of every length, files of every size, and any number of       *)
(* failures of the link: the switch program runs over lists that were      *)
(* compared, and at the end the switches of the design are injected.       *)
(***************************************************************************)
EXTENDS SwitchDriver, TLAPS

-----------------------------------------------------------------------------
(* A long list is cut into files without losing a record or writing one    *)
(* twice, whatever its length and the size of the files, also where the    *)
(* one divides the other.                                                  *)

\* Division by Max, in the form the rest needs.
LEMMA DivMax ==
  \A r \in Nat : /\ r \div Max \in Nat
                 /\ (r \div Max) * Max <= r
                 /\ r < (r \div Max + 1) * Max
BY SplitAssumption, SMTT(30)

LEMMA Times ==
  /\ \A a \in Int : a * Max \in Int /\ (a + 1) * Max = a * Max + Max
                    /\ (a - 1) * Max = a * Max - Max
  /\ \A a, b \in Int : a <= b => a * Max <= b * Max
BY SplitAssumption, SMTT(30)

\* The last file is needed, and no more are.
LEMMA FilesEnough ==
  Files \in Nat \ {0} /\ N <= Files * Max /\ (Files - 1) * Max < N
<1> DEFINE q == N \div Max
<1>1. q \in Nat /\ q * Max <= N /\ N < (q + 1) * Max
  BY DivMax, SplitAssumption
<1>2. q * Max \in Int /\ (q + 1) * Max = q * Max + Max /\ (q - 1) * Max = q * Max - Max
  BY <1>1, Times
<1>3. CASE q * Max < N
  <2>1. Files = q + 1 /\ Files - 1 = q
    BY <1>1, <1>3 DEF Files
  <2>2. Files * Max = (q + 1) * Max /\ (Files - 1) * Max = q * Max /\ q + 1 \in Nat \ {0}
    BY <2>1, <1>1
  <2> HIDE DEF q
  <2> QED BY ONLY <2>1, <2>2, <1>1, <1>2, <1>3, SplitAssumption
<1>4. CASE ~(q * Max < N)
  <2>1. Files = q /\ q * Max = N
    BY <1>1, <1>2, <1>4, SplitAssumption DEF Files
  <2>2. q # 0
    BY <2>1, SplitAssumption
  <2> QED BY <2>1, <2>2, <1>1, <1>2, SplitAssumption
<1> QED BY <1>3, <1>4

LEMMA LeftOver ==
  ASSUME NEW j \in 1 .. Files
  PROVE  /\ Left(j) \in Nat /\ Left(j) > 0
         /\ Size(j) \in 1 .. Max /\ Size(j) <= Left(j)
<1>1. j - 1 <= Files - 1 /\ j - 1 \in Int /\ Files - 1 \in Int
  BY FilesEnough
<1>2. (j - 1) * Max <= (Files - 1) * Max /\ (j - 1) * Max \in Int /\ (Files - 1) * Max \in Int
  BY <1>1, Times
<1>3. Left(j) \in Int /\ Left(j) > 0
  BY <1>2, FilesEnough, SplitAssumption DEF Left
<1> QED BY <1>3, SplitAssumption DEF Size

\* Every place of a file holds a record of the list.
LEMMA RecordOfList ==
  ASSUME NEW j \in 1 .. Files, NEW i \in 1 .. Size(j)
  PROVE  Record(j, i) \in 1 .. N
<1>1. j - 1 \in Nat /\ (j - 1) * Max \in Int /\ 0 * Max <= (j - 1) * Max
  BY FilesEnough, Times
<1>2. 0 * Max = 0
  BY SplitAssumption
<1>3. i \in Int /\ 1 <= i /\ i <= Left(j)
  BY LeftOver
<1> QED BY <1>1, <1>2, <1>3, SplitAssumption DEF Record, Left

\* No file is longer than the programs' limit and none is empty, every record is
\* in some file, and no record is in two places.
THEOREM SplitKeepsRecords ==
  /\ \A j \in 1 .. Files : Size(j) \in 1 .. Max
  /\ \A r \in 1 .. N : \E j \in 1 .. Files : \E i \in 1 .. Size(j) : Record(j, i) = r
  /\ \A j, k \in 1 .. Files : \A i \in 1 .. Size(j) : \A h \in 1 .. Size(k) :
       Record(j, i) = Record(k, h) => j = k /\ i = h
<1>1. \A j \in 1 .. Files : Size(j) \in 1 .. Max
  BY LeftOver
<1>2. ASSUME NEW r \in 1 .. N
      PROVE  \E j \in 1 .. Files : \E i \in 1 .. Size(j) : Record(j, i) = r
  <2> DEFINE q == (r - 1) \div Max
             i == r - q * Max
  <2>1. q \in Nat /\ q * Max <= r - 1 /\ r - 1 < (q + 1) * Max
    BY DivMax, SplitAssumption
  <2>2. q * Max \in Int /\ (q + 1) * Max = q * Max + Max
    BY <2>1, Times
  <2>3. q + 1 <= Files
    <3>1. SUFFICES ASSUME Files <= q PROVE FALSE
      BY <2>1, FilesEnough
    <3>2. Files * Max <= q * Max /\ Files * Max \in Int
      BY <3>1, <2>1, FilesEnough, Times
    <3> QED BY <3>2, <2>1, <2>2, FilesEnough, SplitAssumption
  <2>4. Left(q + 1) = N - q * Max /\ Record(q + 1, i) = r
    BY <2>1, <2>2, SplitAssumption DEF Left, Record
  <2>5. i \in 1 .. Max /\ i <= Left(q + 1)
    BY <2>1, <2>2, <2>4, SplitAssumption
  <2>6. i \in 1 .. Size(q + 1) /\ q + 1 \in 1 .. Files
    BY <2>1, <2>3, <2>5, FilesEnough, SplitAssumption DEF Size
  <2> QED BY <2>4, <2>6
<1>3. ASSUME NEW j \in 1 .. Files, NEW k \in 1 .. Files, NEW i \in 1 .. Size(j),
             NEW h \in 1 .. Size(k), j < k
      PROVE  Record(j, i) < Record(k, h)
  <2>1. j \in Int /\ k - 1 \in Int /\ j <= k - 1
    BY <1>3, FilesEnough
  <2>2. j * Max <= (k - 1) * Max /\ (j - 1) * Max = j * Max - Max
    BY <2>1, Times
  <2>3. (j - 1) * Max \in Int /\ j * Max \in Int /\ (k - 1) * Max \in Int
    BY <2>1, Times, FilesEnough
  <2>4. i \in Int /\ i <= Max /\ h \in Int /\ h >= 1
    BY LeftOver, SplitAssumption
  <2> QED BY <2>2, <2>3, <2>4, SplitAssumption DEF Record
<1>4. ASSUME NEW j \in 1 .. Files, NEW k \in 1 .. Files, NEW i \in 1 .. Size(j),
             NEW h \in 1 .. Size(k), Record(j, i) = Record(k, h)
      PROVE  j = k /\ i = h
  <2>1. Record(j, i) \in Int
    BY RecordOfList, SplitAssumption
  <2>2. ~(j < k) /\ ~(k < j)
    BY <1>3, <1>4, <2>1
  <2>3. j = k
    BY <2>2, FilesEnough
  <2>4. i \in Int /\ h \in Int /\ (j - 1) * Max \in Int
    BY LeftOver, FilesEnough, Times
  <2> QED BY <1>4, <2>3, <2>4 DEF Record
<1> QED BY <1>1, <1>2, <1>4

-----------------------------------------------------------------------------
(* The script. *)

\* A word of a list is never mistaken for one that was lost.
LEMMA WordOfList ==
  ASSUME NEW j \in 1 .. Files, NEW i \in 0 .. Size(j)
  PROVE  FileWord(j, i) \in 0 .. N
<1>1. Size(j) \in 1 .. Max /\ Size(j) <= Left(j) /\ Left(j) \in Nat
  BY LeftOver
<1>2. j - 1 \in Int /\ 0 * Max <= (j - 1) * Max /\ (j - 1) * Max \in Int
  BY FilesEnough, Times
<1>3. Size(j) \in 0 .. N
  BY <1>1, <1>2, SplitAssumption DEF Left
<1>4. CASE i = 0
  BY <1>3, <1>4 DEF FileWord
<1>5. CASE i # 0
  <2>1. i \in 1 .. Size(j)
    BY <1>1, <1>5
  <2>2. Record(j, i) \in 1 .. N
    BY <2>1, RecordOfList
  <2> QED BY <2>2, <1>5, SplitAssumption DEF FileWord
<1> QED BY <1>4, <1>5

LEMMA OwnInList ==
  ASSUME NEW j \in 1 .. Files
  PROVE  Own(j) \subseteq 1 .. N
BY RecordOfList DEF Own

\* Over a list that is right word for word, the program injects that file's
\* records.
LEMMA RightList ==
  ASSUME NEW j \in 1 .. Files, NEW m \in Lists, Differ(j, m) = {}
  PROVE  Listed(m) = Own(j)
<1>1. Size(j) \in 1 .. Max
  BY LeftOver
<1>2. \A i \in 0 .. Size(j) : m[i] = FileWord(j, i)
  BY DEF Differ
<1>3. m[0] = Size(j)
  BY <1>1, <1>2, SplitAssumption DEF FileWord
<1>4. \A i \in 1 .. Size(j) : m[i] = Record(j, i)
  BY <1>1, <1>2, SplitAssumption DEF FileWord
<1> QED BY <1>1, <1>3, <1>4 DEF Listed, Own

LEMMA ListedWords ==
  ASSUME NEW m \in Lists
  PROVE  Listed(m) \subseteq Words
<1>1. CASE m[0] \in 1 .. Max
  <2>1. \A i \in 1 .. m[0] : i \in Places
    BY <1>1, SplitAssumption DEF Places
  <2> QED BY <2>1, <1>1 DEF Listed, Lists
<1>2. CASE m[0] \notin 1 .. Max
  BY <1>2, SplitAssumption DEF Listed, Junk, Words
<1> QED BY <1>1, <1>2

LEMMA InitInv == Init => SwitchInv
<1> SUFFICES ASSUME Init PROVE SwitchInv
  OBVIOUS
<1>1. AllJunk \in Lists
  BY SplitAssumption DEF AllJunk, Lists, Junk, Words
<1>2. TypeOK
  BY <1>1, FilesEnough, DriverAssumption DEF Init, TypeOK
<1> QED BY <1>2, FilesEnough DEF Init, SwitchInv, Ordered, Compares, Runs, Passes

\* A command is given only while there is a file left to write.
LEMMA FileAtHand ==
  ASSUME SwitchInv, pc # "done"
  PROVE  /\ file \in 1 .. Files /\ Size(file) \in 1 .. Max
         /\ \A i \in 0 .. Size(file) : i \in Places /\ FileWord(file, i) \in Words
                                       /\ FileWord(file, i) # Junk
<1>1. file \in 1 .. Files
  BY FilesEnough DEF SwitchInv, TypeOK, Ordered
<1>2. Size(file) \in 1 .. Max
  BY <1>1, LeftOver
<1>3. \A i \in 0 .. Size(file) : i \in Places
  BY <1>2, SplitAssumption DEF Places
<1>4. \A i \in 0 .. Size(file) : FileWord(file, i) \in 0 .. N
  BY <1>1, WordOfList
<1> QED BY <1>1, <1>2, <1>3, <1>4, SplitAssumption DEF Words, Junk

LEMMA FaultType ==
  ASSUME TypeOK, Fault \/ NotConnected \/ UNCHANGED faults
  PROVE  faults' \in 0 .. Faults
BY DriverAssumption DEF TypeOK, Fault, NotConnected

LEMMA UploadInv == SwitchInv /\ Upload => SwitchInv'
<1> SUFFICES ASSUME SwitchInv, Upload PROVE SwitchInv'
  OBVIOUS
<1>1. /\ file \in 1 .. Files /\ Size(file) \in 1 .. Max
      /\ \A i \in 0 .. Size(file) : FileWord(file, i) \in Words
  BY FileAtHand DEF Upload
<1>2. mem' \in Lists
  <2>1. \A i \in Places : i <= Size(file) => FileWord(file, i) \in Words
    BY <1>1, SplitAssumption DEF Places
  <2>2. \A i \in Places : mem[i] \in Words
    BY DEF SwitchInv, TypeOK, Lists
  <2>3. Junk \in Words
    BY SplitAssumption DEF Junk, Words
  <2>4. mem \in Lists
    BY DEF SwitchInv, TypeOK
  <2> QED BY <2>1, <2>2, <2>3, <2>4 DEF Upload, Lists
<1>3. faults' \in 0 .. Faults
  BY FaultType DEF Upload, SwitchInv
<1>4. TypeOK'
  BY <1>2, <1>3, DriverAssumption DEF SwitchInv, TypeOK, Upload
<1>5. Ordered' /\ Compares' /\ Passes'
  BY DEF SwitchInv, Ordered, Compares, Passes, Passed, Upload
<1>6. Runs'
  BY DEF SwitchInv, Runs, Upload, Sure, Differ, Silent
<1> QED BY <1>4, <1>5, <1>6 DEF SwitchInv

LEMMA ReadBackInv == SwitchInv /\ ReadBack => SwitchInv'
<1> SUFFICES ASSUME SwitchInv, ReadBack PROVE SwitchInv'
  OBVIOUS
<1>1. /\ file \in 1 .. Files
      /\ \A i \in 0 .. Size(file) : i \in Places /\ FileWord(file, i) # Junk
  BY FileAtHand DEF ReadBack
<1>2. PICK m \in Lists, status \in {0, 1} :
        /\ Compared(m, status)
        /\ status = 0 /\ Differ(file, m) = {} => Differ(file, mem) = {}
  <2>1. CASE Compared(mem, 0)
    BY <2>1 DEF SwitchInv, TypeOK
  <2>2. CASE comp # NoFile /\ Compared(comp, 1)
    BY <2>2 DEF SwitchInv, TypeOK
  <2>3. ASSUME NEW lost \in SUBSET Places,
               Compared([i \in Places |-> IF i \in lost THEN Junk ELSE mem[i]], 0)
        PROVE  \E m \in Lists, status \in {0, 1} :
                 /\ Compared(m, status)
                 /\ status = 0 /\ Differ(file, m) = {} => Differ(file, mem) = {}
    <3> DEFINE m == [i \in Places |-> IF i \in lost THEN Junk ELSE mem[i]]
    <3>1. \A i \in Places : mem[i] \in Words
      BY DEF SwitchInv, TypeOK, Lists
    <3>2. m \in Lists
      BY <3>1, SplitAssumption DEF Lists, Junk, Words
    <3>3. Differ(file, m) = {} => Differ(file, mem) = {}
      BY <1>1 DEF Differ
    <3> QED BY <2>3, <3>2, <3>3
  <2> QED BY <2>1, <2>2, <2>3 DEF ReadBack
<1>3. wrong' \subseteq Places
  BY <1>1, <1>2 DEF Compared, Differ
<1>4. faults' \in 0 .. Faults
  BY FaultType DEF ReadBack, SwitchInv
<1>5. TypeOK'
  BY <1>2, <1>3, <1>4 DEF SwitchInv, TypeOK, ReadBack, Compared, boardVars
<1>6. Ordered' /\ Passes'
  BY <1>2 DEF SwitchInv, Ordered, Passes, Passed, ReadBack, Compared, boardVars
<1>7. Compares'
  BY <1>2 DEF Compares, ReadBack, Compared, boardVars, Clean, Differ
<1>8. Runs'
  BY <1>2 DEF SwitchInv, Runs, ReadBack, Compared, boardVars, Sure, Differ
<1> QED BY <1>5, <1>6, <1>7, <1>8 DEF SwitchInv

LEMMA NothingInv == SwitchInv /\ NothingToCompare => SwitchInv'
<1> SUFFICES ASSUME SwitchInv, NothingToCompare PROVE SwitchInv'
  OBVIOUS
<1>1. faults' \in 0 .. Faults
  BY FaultType DEF NothingToCompare, SwitchInv
<1>2. TypeOK'
  BY <1>1 DEF SwitchInv, TypeOK, NothingToCompare, boardVars, checkVars
<1> QED BY <1>2 DEF SwitchInv, Ordered, Compares, Passes, Passed, Runs, Sure, Differ,
                    NothingToCompare, boardVars, checkVars

LEMMA PatchInv == SwitchInv /\ Patch => SwitchInv'
<1> SUFFICES ASSUME SwitchInv, Patch PROVE SwitchInv'
  OBVIOUS
<1>1. /\ file \in 1 .. Files
      /\ \A i \in 0 .. Size(file) : i \in Places /\ FileWord(file, i) \in Words
  BY FileAtHand DEF Patch
<1>2. PICK i \in wrong :
        /\ wrong' = wrong \ {i}
        /\ mem' = [mem EXCEPT ![i] = FileWord(file, i)] \/ mem' = mem
           \/ mem' = [mem EXCEPT ![i] = Junk]
        /\ mem' = mem \/ ~Silent
  BY DEF Patch
<1>3. comp \in Lists /\ wrong \subseteq Differ(file, comp)
  BY DEF SwitchInv, Compares, Patch
<1>4. i \in 0 .. Size(file) /\ ~Clean
  BY <1>2, <1>3 DEF Differ, Clean
<1>5. mem' \in Lists
  BY <1>1, <1>2, <1>4, SplitAssumption DEF SwitchInv, TypeOK, Lists, Junk, Words
<1>6. faults' \in 0 .. Faults
  BY FaultType DEF Patch, SwitchInv
<1>7. TypeOK'
  BY <1>2, <1>5, <1>6 DEF SwitchInv, TypeOK, Patch
<1>8. Ordered' /\ Passes'
  BY DEF SwitchInv, Ordered, Passes, Passed, Patch
<1>9. Compares'
  BY <1>2, <1>3, <1>4 DEF Compares, Patch, Clean, Differ
<1>10. Runs'
  BY <1>2 DEF SwitchInv, Runs, Patch, Sure, Differ, Silent
<1> QED BY <1>7, <1>8, <1>9, <1>10 DEF SwitchInv

LEMMA CheckInv == SwitchInv /\ Check => SwitchInv'
<1> SUFFICES ASSUME SwitchInv, Check PROVE SwitchInv'
  OBVIOUS
<1>1. TypeOK'
  BY DriverAssumption DEF SwitchInv, TypeOK, Check, boardVars
<1>2. Ordered' /\ Passes' /\ Runs'
  BY DEF SwitchInv, Ordered, Passes, Passed, Runs, Sure, Check, boardVars, Clean, Differ
<1>3. Compares'
  BY DEF SwitchInv, Compares, Check, boardVars, Clean, Differ
<1> QED BY <1>1, <1>2, <1>3 DEF SwitchInv

LEMMA RunInv == SwitchInv /\ Run => SwitchInv'
<1> SUFFICES ASSUME SwitchInv, Run PROVE SwitchInv'
  OBVIOUS
<1>1. file \in 1 .. Files
  BY FileAtHand DEF Run
<1>2. faults' \in 0 .. Faults
  BY FaultType DEF Run, SwitchInv
<1>3. TypeOK'
  BY <1>1, <1>2 DEF SwitchInv, TypeOK, Run, checkVars
<1>4. Ordered' /\ Compares' /\ Passes'
  BY <1>1 DEF SwitchInv, Ordered, Compares, Passes, Passed, Run, checkVars, Clean, Differ
<1>5. Runs'
  <2>1. Clean => Differ(file, mem) = {}
    BY DEF SwitchInv, Compares, Run, Uploaded
  <2> QED BY <2>1 DEF SwitchInv, Runs, Run, checkVars, Sure, Differ, Silent
<1> QED BY <1>3, <1>4, <1>5 DEF SwitchInv

LEMMA RetryInv == SwitchInv /\ Retry => SwitchInv'
<1> SUFFICES ASSUME SwitchInv, Retry PROVE SwitchInv'
  OBVIOUS
<1>1. TypeOK'
  BY DriverAssumption DEF SwitchInv, TypeOK, Retry, boardVars
<1> QED BY <1>1 DEF SwitchInv, Ordered, Compares, Passes, Passed, Runs, Sure, Differ, Retry, boardVars

LEMMA PollInv == SwitchInv /\ Poll => SwitchInv'
<1> SUFFICES ASSUME SwitchInv, Poll PROVE SwitchInv'
  OBVIOUS
<1>1. faults' \in 0 .. Faults
  BY FaultType DEF Poll, SwitchInv
<1>2. TypeOK'
  BY <1>1 DEF SwitchInv, TypeOK, Poll, boardVars, checkVars
<1> QED BY <1>2 DEF SwitchInv, Ordered, Compares, Passes, Passed, Runs, Sure, Differ, Poll,
                    boardVars, checkVars

LEMMA ReadLogInv == SwitchInv /\ ReadLog => SwitchInv'
<1> SUFFICES ASSUME SwitchInv, ReadLog PROVE SwitchInv'
  OBVIOUS
<1>1. file \in 1 .. Files /\ Files \in Nat
  BY FileAtHand, FilesEnough DEF ReadLog
<1>2. faults' \in 0 .. Faults
  BY FaultType DEF ReadLog, SwitchInv
<1>3. results' \in [1 .. Files -> {"none", "own", "other", "garbled"}]
      /\ \A j \in 1 .. file - 1 : results'[j] = results[j]
  BY <1>1 DEF SwitchInv, TypeOK, ReadLog
<1>4. TypeOK'
  BY <1>1, <1>2, <1>3 DEF SwitchInv, TypeOK, ReadLog, NextFile, boardVars, checkVars
<1>5. Ordered' /\ Compares'
  BY <1>1 DEF SwitchInv, Ordered, Compares, ReadLog, NextFile
<1>6. Runs'
  BY <1>1 DEF SwitchInv, Runs, ReadLog, NextFile, boardVars, Sure, Differ, Silent, TypeOK
<1>7. ASSUME file' = file PROVE Passes'
  BY <1>3, <1>7 DEF SwitchInv, Passes, Passed, ReadLog, boardVars, checkVars
<1>8. ASSUME file' # file PROVE Passes'
  <2>1. file' = file + 1 /\ b2 = 0 /\ cpu = "stopped"
        /\ results'[file] \in {IF Differ(file, log) = {} THEN "own" ELSE "other", "garbled"}
    BY <1>1, <1>8 DEF ReadLog, NextFile, Silent, SwitchInv, TypeOK
  <2>2. Sure /\ log = mem /\ Listed(mem) \subseteq injected
    BY <2>1 DEF SwitchInv, Runs, ReadLog
  <2>3. file \notin unsure => results'[file] \in {"own", "garbled"} /\ Own(file) \subseteq injected
    BY <1>1, <2>1, <2>2, RightList DEF Sure, SwitchInv, TypeOK
  <2>4. unsure' = unsure /\ injected' = injected
    BY DEF ReadLog, boardVars
  <2>5. \A j \in 1 .. file - 1 : Passed(j)'
    BY <1>3, <2>4 DEF SwitchInv, Passes, Passed
  <2>6. \A j \in Nat : j = file => Passed(j)'
    BY <2>3, <2>4 DEF Passed
  <2>7. \A j \in 1 .. file' - 1 : j \in 1 .. file - 1 \/ (j \in Nat /\ j = file)
    BY <1>1, <2>1
  <2>8. \A j \in 1 .. file' - 1 : Passed(j)'
    BY <2>5, <2>6, <2>7
  <2> QED BY <2>4, <2>8 DEF Passes, SwitchInv
<1> QED BY <1>4, <1>5, <1>6, <1>7, <1>8 DEF SwitchInv

LEMMA FinishInv == SwitchInv /\ Finish => SwitchInv'
<1> SUFFICES ASSUME SwitchInv, Finish PROVE SwitchInv'
  OBVIOUS
<1>1. file \in 1 .. Files /\ Sure
  BY FileAtHand DEF Finish, SwitchInv, Runs
<1>2. mem \in Lists /\ Listed(mem) \subseteq Words
  BY ListedWords DEF SwitchInv, TypeOK
<1>3. TypeOK'
  BY <1>2 DEF SwitchInv, TypeOK, Finish, checkVars
<1>4. Ordered' /\ Compares'
  BY DEF SwitchInv, Ordered, Compares, Finish, checkVars, Clean, Differ
<1>5. Runs'
  BY <1>1 DEF Runs, Finish, checkVars, Sure, Differ, Listed
<1>6. Passes'
  <2>1. unsure = {} => Listed(mem) \subseteq 1 .. N
    BY <1>1, <1>2, RightList, OwnInList DEF Sure
  <2> QED BY <2>1 DEF SwitchInv, Passes, Passed, Finish, checkVars
<1> QED BY <1>3, <1>4, <1>5, <1>6 DEF SwitchInv

LEMMA StutterInv == SwitchInv /\ UNCHANGED vars => SwitchInv'
BY DEF SwitchInv, TypeOK, Ordered, Compares, Runs, Passes, Passed, Sure, Differ, Clean,
       vars, checkVars, boardVars

LEMMA NextInv == SwitchInv /\ [Next]_vars => SwitchInv'
BY UploadInv, ReadBackInv, NothingInv, PatchInv, CheckInv, RunInv, RetryInv, PollInv,
   ReadLogInv, FinishInv, StutterInv DEF Next, Script, Finished

\* SwitchInv is inductive: the script knows at every command whose words are in
\* SRAM, in comp_temp and in the log.
THEOREM SwitchInvariant == Spec => []SwitchInv
<1>1. Init => SwitchInv
  BY InitInv
<1>2. SwitchInv /\ [Next]_vars => SwitchInv'
  BY NextInv
<1> QED BY <1>1, <1>2, PTL DEF Spec

\* However often the link fails, the program is started over a list with a wrong
\* word only after the last round of the check.
THEOREM CheckedRuns == Spec => RunsOnChecked
<1>1. SwitchInv /\ [Next]_vars =>
        [cpu = "stopped" /\ cpu' = "running" => Differ(file, mem) = {} \/ loop = Rounds]_vars
  <2> SUFFICES ASSUME SwitchInv, Next, cpu = "stopped", cpu' = "running"
               PROVE  Differ(file, mem) = {} \/ loop = Rounds
    OBVIOUS
  <2>1. Run
    BY DEF Next, Script, Finished, vars, boardVars, Upload, ReadBack, NothingToCompare,
           Patch, Check, Retry, Poll, ReadLog, Finish
  <2> QED BY <2>1 DEF SwitchInv, Ordered, Compares, Run, Uploaded
<1> QED BY <1>1, SwitchInvariant, PTL DEF Spec, RunsOnChecked

\* No file is left with the readings of another.
THEOREM ReadingsOfOwnList == Spec => []OwnReadings
<1>1. SwitchInv => OwnReadings
  BY DEF SwitchInv, Passes, Passed, OwnReadings
<1> QED BY <1>1, SwitchInvariant, PTL

\* The files together are the list (SplitKeepsRecords), and each was injected.
THEOREM AllSwitches == Spec => []EverySwitch
<1>1. SwitchInv => EverySwitch
  <2> SUFFICES ASSUME SwitchInv, Done, unsure = {} PROVE injected = 1 .. N
    BY DEF EverySwitch
  <2>1. \A j \in 1 .. Files : Own(j) \subseteq injected
    BY FilesEnough DEF SwitchInv, Ordered, Passes, Passed, Done
  <2>2. \A r \in 1 .. N : \E j \in 1 .. Files : r \in Own(j)
    BY SplitKeepsRecords DEF Own
  <2> QED BY <2>1, <2>2 DEF SwitchInv, Passes
<1> QED BY <1>1, SwitchInvariant, PTL
=============================================================================
