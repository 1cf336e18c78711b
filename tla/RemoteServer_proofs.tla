------------------------- MODULE RemoteServer_proofs -------------------------
(***************************************************************************)
(* For any number of instances, mails and folders, and any failures and    *)
(* crashes: one session at a time, every user who sent a usable design     *)
(* gets results made with all its files, and what else comes into them     *)
(* came with an attachment of the same name.                               *)
(***************************************************************************)
EXTENDS RemoteServer, SequenceTheorems, TLAPS

\* What the steps of a session do to a folder leaves it a folder.
LEMMA FolderTypes ==
  ASSUME NEW f \in Folders
  PROVE  /\ \A v \in Files : [f EXCEPT !.output = v] \in Folders
         /\ \A w \in {"none", "0", "1"} : [f EXCEPT !.watch = w] \in Folders
         /\ \A m \in Mails : SaveIn(f, m) \in Folders
         /\ \A n \in Names : Unpacked(n, f) \in Folders
  <1>1. /\ \A v \in Files : [f EXCEPT !.output = v] \in Folders
        /\ \A w \in {"none", "0", "1"} : [f EXCEPT !.watch = w] \in Folders
        /\ \A m \in Mails : SaveIn(f, m) \in Folders
    BY DEF Folders, SaveIn
  <1>2. ASSUME NEW n \in Names PROVE Unpacked(n, f) \in Folders
    <2> DEFINE new == [part \in Parts |-> IF part \in Ships[f.zip] THEN f.zip ELSE f.file[part]]
    <2>1. new \in Files
      BY DEF Folders, Files
    <2>2. Unpacked(n, f) = f \/ Unpacked(n, f) = [f EXCEPT !.zip = NoMail, !.file = new]
      BY DEF Unpacked, Folders
    <2> HIDE DEF new
    <2> QED
      BY <2>1, <2>2 DEF Folders
  <1> QED
    BY <1>1, <1>2

\* Nobody's files are files.
LEMMA NoFilesType == NoFiles \in Files /\ \A part \in Parts : NoFiles[part] = NoMail
  BY DEF NoFiles, Files

\* One place of a function that a step changes.
LEMMA ExceptType ==
  ASSUME NEW D, NEW S, NEW f \in [D -> S], NEW d, NEW s \in S
  PROVE  [f EXCEPT ![d] = s] \in [D -> S]
  OBVIOUS

LEMMA AbandonType ==
  ASSUME TypeOK, NEW p \in Procs, Abandon(p)
  PROVE  queue' \in [Procs -> Seq(Mails)] /\ pc' \in [Procs -> Steps]
  <1>1. <<>> \in Seq(Mails) /\ "restore" \in Steps
    BY DEF Steps
  <1> QED
    BY <1>1, ExceptType DEF Abandon, Goto, TypeOK

LEMMA TypeStep ==
  ASSUME TypeOK, [Next]_vars, \A p \in Procs : pc[p] \in InFolder => queue[p] # <<>> /\ name[p] # NoName
  PROVE  TypeOK'
  <1> USE ServerAssumption DEF TypeOK, mailVars, placeVars, Goto, Fault, Steps
  <1>0. <<>> \in Seq(Mails)
    OBVIOUS
  <1>1. ASSUME NEW m \in Mails, Arrive(m) PROVE TypeOK'
    BY <1>1 DEF Arrive
  <1>2. ASSUME NEW p \in Procs, Cron(p) PROVE TypeOK'
    BY <1>2 DEF Cron
  <1>3. ASSUME NEW p \in Procs, RemoveToken(p) PROVE TypeOK'
    BY <1>3 DEF RemoveToken
  <1>4. ASSUME NEW p \in Procs, Retrieve(p) PROVE TypeOK'
    <2>1. \A k \in 0 .. Len(inbox) : SubSeq(inbox, k + 1, Len(inbox)) \in Seq(Mails)
      <3> TAKE k \in 0 .. Len(inbox)
      <3>1. Len(inbox) \in Nat /\ \A i \in k + 1 .. Len(inbox) : inbox[i] \in Mails
        BY LenProperties, ElementOfSeq
      <3> QED
        BY <3>1, SubSeqProperties
    <2>2. inbox' \in Seq(Mails)
      <3>1. inbox' = <<>> \/ \E k \in 0 .. Len(inbox) :
                                inbox' = SubSeq(inbox, k + 1, Len(inbox))
        BY <1>4 DEF Retrieve
      <3>2. CASE inbox' = <<>>
        BY <3>2, <1>0
      <3>3. CASE \E k \in 0 .. Len(inbox) : inbox' = SubSeq(inbox, k + 1, Len(inbox))
        BY <3>3, <2>1
      <3> QED
        BY <3>1, <3>2, <3>3
    <2>3. queue' \in [Procs -> Seq(Mails)]
      <3>1. queue' = queue \/ queue' = [queue EXCEPT ![p] = inbox]
        BY <1>4 DEF Retrieve
      <3> QED
        BY <3>1, ExceptType
    <2>5. pc' \in [Procs -> Steps]
      BY <1>4 DEF Retrieve
    <2>4. faults' \in 0 .. Faults
      BY <1>4 DEF Retrieve
    <2> QED
      BY <1>4, <2>2, <2>3, <2>4, <2>5 DEF Retrieve
  <1>5. ASSUME NEW p \in Procs, ParseNamed(p) PROVE TypeOK'
    <2>1. Head(queue[p]) \in Mails
      BY <1>5, HeadTailProperties DEF ParseNamed
    <2>2. folder' \in [Names -> Folders]
      BY <1>5, <2>1, FolderTypes DEF ParseNamed
    <2>3. name' \in [Procs -> Names \cup {NoName}]
      BY <1>5, <2>1 DEF ParseNamed
    <2>4. queue' \in [Procs -> Seq(Mails)] /\ pc' \in [Procs -> Steps]
      BY <1>5, AbandonType DEF ParseNamed
    <2> QED
      BY <1>5, <2>2, <2>3, <2>4 DEF ParseNamed
  <1>6. ASSUME NEW p \in Procs, ParseEmpty(p) PROVE TypeOK'
    <2>1. queue' \in [Procs -> Seq(Mails)] /\ pc' \in [Procs -> Steps]
      BY <1>6, AbandonType DEF ParseEmpty
    <2> QED
      BY <1>6, <2>1 DEF ParseEmpty
  <1>7. ASSUME NEW p \in Procs, ParseFails(p) PROVE TypeOK'
    <2>1. queue' \in [Procs -> Seq(Mails)] /\ pc' \in [Procs -> Steps]
      BY <1>7, AbandonType DEF ParseFails
    <2> QED
      BY <1>7, <2>1 DEF ParseFails
  <1>8. ASSUME NEW p \in Procs, Quit(p) PROVE TypeOK'
    BY <1>8 DEF Quit
  <1>9. ASSUME NEW p \in Procs, Unpack(p) PROVE TypeOK'
    <2>1. folder' \in [Names -> Folders]
      BY <1>9, FolderTypes DEF Unpack, InFolder
    <2> QED
      BY <1>9, <2>1 DEF Unpack
  <1>10. ASSUME NEW p \in Procs, Run(p) PROVE TypeOK'
    <2>1. name[p] \in Names
      BY <1>10 DEF Run, InFolder
    <2>2. folder' \in [Names -> Folders]
      BY <1>10, <2>1, FolderTypes DEF Run
    <2>3. board' \in Files
      BY <1>10, <2>1 DEF Run, Folders
    <2> QED
      BY <1>10, <2>2, <2>3 DEF Run
  <1>11. ASSUME NEW p \in Procs, RunNothing(p) PROVE TypeOK'
    <2>1. board' \in Files
      BY <1>11, NoFilesType DEF RunNothing
    <2> QED
      BY <1>11, <2>1 DEF RunNothing
  <1>12. ASSUME NEW p \in Procs, RunFails(p) PROVE TypeOK'
    <2>1. name[p] \in Names
      BY <1>12 DEF RunFails, InFolder
    <2>2. folder[name[p]].watch \in {"none", "0", "1"}
      BY <2>1 DEF Folders
    <2>3. folder' \in [Names -> Folders]
      <3>1. PICK w \in {folder[name[p]].watch, "0"} :
              folder' = [folder EXCEPT ![name[p]].watch = w]
        BY <1>12 DEF RunFails
      <3>2. [folder[name[p]] EXCEPT !.watch = w] \in Folders
        BY <2>1, <2>2, <3>1, FolderTypes
      <3> QED
        BY <3>1, <3>2
    <2>4. board' \in Files
      BY <1>12, NoFilesType DEF RunFails
    <2> QED
      BY <1>12, <2>3, <2>4 DEF RunFails
  <1>13. ASSUME NEW p \in Procs, Measure(p) PROVE TypeOK'
    <2>1. name[p] \in Names
      BY <1>13 DEF Measure, InFolder
    <2>2. folder[name[p]].output \in Files
      BY <2>1 DEF Folders
    <2>3. folder' \in [Names -> Folders]
      <3>1. PICK v \in Files : folder' = [folder EXCEPT ![name[p]].output = v]
        BY <1>13, <2>2, NoFilesType DEF Measure
      <3>2. [folder[name[p]] EXCEPT !.output = v] \in Folders
        BY <2>1, FolderTypes
      <3> QED
        BY <3>1, <3>2
    <2>4. faults' \in 0 .. Faults
      BY <1>13 DEF Measure
    <2>5. upset' \in BOOLEAN
      BY <1>13, Zenon DEF Measure
    <2> QED
      BY <1>13, <2>3, <2>4, <2>5 DEF Measure
  <1>14. ASSUME NEW p \in Procs, Send(p) PROVE TypeOK'
    <2>1. name[p] \in Names /\ queue[p] # <<>>
      BY <1>14 DEF Send, InFolder
    <2>2. folder[name[p]].output \in Files
      BY <2>1 DEF Folders
    <2>3. Head(queue[p]) \in Mails /\ Tail(queue[p]) \in Seq(Mails)
      BY <2>1, HeadTailProperties
    <2>4. replies' \in [Mails -> Replies]
      <3> DEFINE f == folder[name[p]]
                 reply == [vector |-> f.output, overtime |-> f.watch = "1",
                           sent |-> TRUE, upset |-> upset, overran |-> overran]
      <3>1. (f.watch = "1") \in BOOLEAN
        OBVIOUS
      <3>2. reply \in Replies
        BY <2>2, <3>1, Zenon DEF Replies
      <3>3. replies' = [replies EXCEPT ![Head(queue[p])] = reply] \/ replies' = replies
        BY <1>14 DEF Send
      <3> HIDE DEF reply
      <3> QED
        BY <3>2, <3>3
    <2>5. queue' \in [Procs -> Seq(Mails)]
      BY <1>14, <2>3 DEF Send
    <2>6. faults' \in 0 .. Faults
      BY <1>14 DEF Send
    <2> QED
      BY <1>14, <2>4, <2>5, <2>6 DEF Send
  <1>19. ASSUME NEW p \in Procs, SendRaises(p) PROVE TypeOK'
    <2>1. queue' \in [Procs -> Seq(Mails)] /\ pc' \in [Procs -> Steps]
      BY <1>19, AbandonType DEF SendRaises
    <2> QED
      BY <1>19, <2>1 DEF SendRaises
  <1>15. ASSUME NEW p \in Procs, Restore(p) PROVE TypeOK'
    BY <1>15 DEF Restore
  <1>16. CASE Crash
    <2>1. board' \in Files
      BY <1>16, NoFilesType DEF Crash
    <2> QED
      BY <1>16, <2>1 DEF Crash
  <1>17. CASE Operator
    BY <1>17 DEF Operator, Stranded
  <1>18. CASE UNCHANGED vars
    BY <1>18 DEF vars
  <1> QED
    BY <1>1, <1>2, <1>3, <1>4, <1>5, <1>6, <1>7, <1>8, <1>9, <1>10, <1>11, <1>12,
       <1>13, <1>14, <1>15, <1>16, <1>17, <1>18, <1>19 DEF Next, Session

-----------------------------------------------------------------------------
\* No two instances are past the test, and the file is there only for the one
\* that has not yet removed it.
LEMMA SessionStep ==
  ASSUME TypeOK, OneSession, [Next]_vars
  PROVE  OneSession'
  <1> USE DEF TypeOK, OneSession, mailVars, placeVars, Goto
  <1>1. ASSUME NEW m \in Mails, Arrive(m) PROVE OneSession'
    BY <1>1 DEF Arrive
  <1>2. ASSUME NEW p \in Procs, Cron(p) PROVE OneSession'
    BY <1>2 DEF Cron
  <1>3. ASSUME NEW p \in Procs, RemoveToken(p) PROVE OneSession'
    BY <1>3 DEF RemoveToken
  <1>4. ASSUME NEW p \in Procs, Session(p), ~RemoveToken(p), ~Restore(p)
        PROVE  OneSession'
    <2>1. /\ pc[p] \notin {"idle", "remove"} /\ UNCHANGED token
          /\ \E step \in Steps \ {"idle", "remove"} : pc' = [pc EXCEPT ![p] = step]
      BY <1>4 DEF Session, Retrieve, ParseNamed, ParseEmpty, ParseFails, Quit, Abandon,
                  Unpack, Run, RunNothing, RunFails, Measure, Send, SendRaises, Steps
    <2> QED
      BY <2>1
  <1>5. ASSUME NEW p \in Procs, Restore(p) PROVE OneSession'
    BY <1>5 DEF Restore
  <1>6. CASE Crash
    BY <1>6 DEF Crash
  <1>7. CASE Operator
    BY <1>7 DEF Operator, Stranded
  <1>8. CASE UNCHANGED vars
    BY <1>8 DEF vars
  <1> QED
    BY <1>1, <1>2, <1>3, <1>4, <1>5, <1>6, <1>7, <1>8 DEF Next

-----------------------------------------------------------------------------
\* What is left in a folder, and by whom.
LeftIn(n) ==
  \/ \E p \in Procs : pc[p] = "unpack" /\ name[p] = n
  \/ crashes < Crashes
  \/ n \in SplitNames
  \/ \E o \in Mails : Attachment[o] = n /\ Kind[o] = "unnamed"

LEMMA LeftBehind ==
  NothingLeftBehind <=>
    \A n \in Names : folder[n].zip # NoMail => Attachment[folder[n].zip] = n /\ LeftIn(n)
  BY DEF NothingLeftBehind, LeftIn

\* A step that neither saves nor unpacks an attachment, and does not end
\* between the two, leaves nothing more behind.
LEMMA ZipsKept ==
  ASSUME NothingLeftBehind,
         \A n \in Names : folder'[n].zip = folder[n].zip,
         \A q \in Procs : pc[q] = "unpack" => pc'[q] = "unpack" /\ name'[q] = name[q],
         crashes' = crashes
  PROVE  NothingLeftBehind'
  BY DEF NothingLeftBehind

LEMMA LeftStep ==
  ASSUME TypeOK, OneSession, NothingLeftBehind, [Next]_vars,
         \A p \in Procs : pc[p] \in InFolder => StepDone(p)
  PROVE  NothingLeftBehind'
  <1> USE ServerAssumption DEF TypeOK, mailVars, placeVars, Goto
  <1>1. ASSUME NEW p \in Procs, ParseNamed(p) PROVE NothingLeftBehind'
    <2> DEFINE m == Head(queue[p])
               k == Attachment[m]
    <2>1. m \in Mails /\ k \in Names
      BY <1>1, HeadTailProperties DEF ParseNamed
    <2> HIDE DEF m
    <2>2. /\ \A n \in Names \ {k} : folder'[n] = folder[n]
          /\ folder'[k].zip = IF folder[k].zip = NoMail THEN m ELSE folder[k].zip
      BY <1>1, <2>1 DEF ParseNamed, SaveIn, Folders, m
    <2>3. Kind[m] = "unnamed" \/ (pc'[p] = "unpack" /\ name'[p] = k)
      BY <1>1, <2>1 DEF ParseNamed, m
    <2>4. /\ crashes' = crashes
          /\ \A q \in Procs : pc[q] = "unpack" => pc'[q] = "unpack" /\ name'[q] = name[q]
      BY <1>1, <2>1 DEF ParseNamed, Abandon, m
    <2>5. ASSUME NEW n \in Names, folder'[n].zip # NoMail
          PROVE  Attachment[folder'[n].zip] = n /\ LeftIn(n)'
      <3>1. CASE n = k
        <4>1. Attachment[folder'[n].zip] = n
          BY <3>1, <2>1, <2>2, LeftBehind
        <4> QED
          BY <4>1, <3>1, <2>1, <2>3 DEF LeftIn
      <3>2. CASE n # k
        <4>1. Attachment[folder'[n].zip] = n /\ LeftIn(n)
          BY <3>2, <2>2, <2>5, LeftBehind
        <4> QED
          BY <4>1, <2>4 DEF LeftIn
      <3> QED
        BY <3>1, <3>2
    <2>6. (\A n \in Names : folder[n].zip # NoMail =>
                             Attachment[folder[n].zip] = n /\ LeftIn(n))'
      BY <2>5
    <2> QED
      BY <2>6 DEF NothingLeftBehind, LeftIn
  <1>2. ASSUME NEW p \in Procs, Unpack(p) PROVE NothingLeftBehind'
    <2>1. name[p] \in Names
      BY <1>2 DEF Unpack, StepDone, InFolder
    <2>2. /\ \A n \in Names \ {name[p]} : folder'[n] = folder[n]
          /\ folder'[name[p]] = Unpacked(name[p], folder[name[p]])
      BY <1>2, <2>1 DEF Unpack
    <2>6. \/ folder'[name[p]].zip = NoMail
          \/ name[p] \in SplitNames /\ folder'[name[p]] = folder[name[p]]
      BY <2>1, <2>2 DEF Unpacked, Folders
    <2>3. /\ crashes' = crashes
          /\ \A q \in Procs \ {p} : pc'[q] = pc[q]
          /\ name' = name
      BY <1>2 DEF Unpack
    <2>4. ASSUME NEW n \in Names, folder'[n].zip # NoMail
          PROVE  Attachment[folder'[n].zip] = n /\ LeftIn(n)'
      <3>1. folder'[n] = folder[n] /\ (n # name[p] \/ n \in SplitNames)
        BY <2>2, <2>4, <2>6
      <3>2. Attachment[folder'[n].zip] = n /\ LeftIn(n)
        BY <3>1, <2>4, LeftBehind
      <3> QED
        BY <3>1, <3>2, <2>3 DEF LeftIn
    <2>5. (\A n \in Names : folder[n].zip # NoMail =>
                             Attachment[folder[n].zip] = n /\ LeftIn(n))'
      BY <2>4
    <2> QED
      BY <2>5 DEF NothingLeftBehind, LeftIn
  <1>3. CASE Crash
    <2>1. crashes' < Crashes /\ folder' = folder
      BY <1>3 DEF Crash
    <2> QED
      BY <2>1 DEF NothingLeftBehind
  <1>4. ASSUME NEW m \in Mails, Arrive(m) PROVE NothingLeftBehind'
    BY <1>4, ZipsKept DEF Arrive
  <1>5. CASE Operator \/ UNCHANGED vars
    BY <1>5, ZipsKept DEF Operator, Stranded, vars
  <1>6. ASSUME NEW p \in Procs, Cron(p) \/ RemoveToken(p) \/ Retrieve(p) \/ ParseEmpty(p)
                               \/ ParseFails(p) \/ Quit(p) \/ RunNothing(p)
                               \/ Send(p) \/ SendRaises(p) \/ Restore(p)
        PROVE  NothingLeftBehind'
    <2>1. folder' = folder /\ crashes' = crashes
      BY <1>6 DEF Cron, RemoveToken, Retrieve, ParseEmpty, ParseFails, Quit, RunNothing,
                  Send, SendRaises, Restore, Fault
    <2>2. /\ pc[p] # "unpack"
          /\ \A q \in Procs \ {p} : pc'[q] = pc[q] /\ name'[q] = name[q]
      BY <1>6 DEF Cron, RemoveToken, Retrieve, ParseEmpty, ParseFails, Quit, RunNothing,
                  Send, SendRaises, Restore, Abandon
    <2> QED
      BY <2>1, <2>2, ZipsKept
  <1>7. ASSUME NEW p \in Procs, Run(p) \/ RunFails(p) \/ Measure(p)
        PROVE  NothingLeftBehind'
    <2>1. name[p] \in Names
      BY <1>7 DEF Run, RunFails, Measure, StepDone, InFolder
    <2>2. \A n \in Names : folder'[n].zip = folder[n].zip
      <3>1. CASE Run(p)
        BY <3>1, <2>1 DEF Run, Folders
      <3>2. CASE RunFails(p)
        BY <3>2, <2>1 DEF RunFails, Folders
      <3>3. CASE Measure(p)
        <4>1. \E v : folder' = [folder EXCEPT ![name[p]].output = v]
          BY <3>3 DEF Measure
        <4> QED
          BY <4>1, <2>1 DEF Folders
      <3> QED
        BY <1>7, <3>1, <3>2, <3>3
    <2>3. /\ pc[p] # "unpack" /\ name' = name /\ crashes' = crashes
          /\ \A q \in Procs \ {p} : pc'[q] = pc[q]
      BY <1>7 DEF Run, RunFails, Measure
    <2> QED
      BY <2>2, <2>3, ZipsKept
  <1> QED
    BY <1>1, <1>2, <1>3, <1>4, <1>5, <1>6, <1>7 DEF Next, Session

-----------------------------------------------------------------------------
\* An attachment that nobody disturbs finds in its folder no attachment but its
\* own, when it is parsed.
LEMMA FolderFree ==
  ASSUME TypeOK, NothingLeftBehind, NEW p \in Procs, OneSession, pc[p] = "parse",
         NEW m \in Mails, Kind[m] = "zip", Undisturbed(m)
  PROVE  folder[Attachment[m]].zip \in {NoMail, m}
  <1> DEFINE n == Attachment[m]
             z == folder[n].zip
  <1>1. SUFFICES ASSUME z # NoMail, z # m PROVE FALSE
    OBVIOUS
  <1>2. n \in Names /\ z \in Mails
    BY <1>1, ServerAssumption DEF TypeOK, Folders
  <1>3. Attachment[z] = n /\ LeftIn(n)
    BY <1>1, <1>2, LeftBehind
  <1>4. crashes = Crashes
    BY <1>1, <1>2, <1>3 DEF Undisturbed
  <1>5. \A q \in Procs : pc[q] # "unpack"
    BY DEF OneSession
  <1>6. PICK o \in Mails : Attachment[o] = n /\ Kind[o] = "unnamed"
    BY <1>3, <1>4, <1>5, ServerAssumption DEF LeftIn, TypeOK, Undisturbed
  <1>7. o # m
    BY <1>6
  <1> QED
    BY <1>6, <1>7 DEF Undisturbed

-----------------------------------------------------------------------------
\* What FilesInFolder says of one folder; ...
FilesOf(n, f) ==
  /\ \A part \in Parts : f.file[part] # NoMail =>
       Attachment[f.file[part]] = n /\ part \in Ships[f.file[part]]
  /\ f.watch = "1" => f.file["run"] # NoMail

LEMMA FilesOfAll == FilesInFolder <=> \A n \in Names : FilesOf(n, folder[n])
  BY DEF FilesInFolder, FilesOf

\* ... and an archive with an attachment of that name leaves it so.
LEMMA UnpackedFiles ==
  ASSUME NEW n \in Names, NEW f \in Folders, FilesOf(n, f),
         f.zip # NoMail => Attachment[f.zip] = n
  PROVE  FilesOf(n, Unpacked(n, f))
  <1> DEFINE u == Unpacked(n, f)
  <1>1. CASE n \in SplitNames \/ f.zip = NoMail
    BY <1>1 DEF Unpacked
  <1>2. CASE ~(n \in SplitNames \/ f.zip = NoMail)
    <2>1. /\ u.watch = f.watch
          /\ \A part \in Parts : u.file[part] = IF part \in Ships[f.zip] THEN f.zip ELSE f.file[part]
      BY <1>2 DEF Unpacked, Folders
    <2>2. "run" \in Parts
      BY DEF Parts
    <2> HIDE DEF u
    <2>3. FilesOf(n, u)
      BY <1>2, <2>1, <2>2 DEF FilesOf
    <2> QED
      BY <2>3 DEF u
  <1> QED
    BY <1>1, <1>2

LEMMA FilesStep ==
  ASSUME TypeOK, NothingLeftBehind, FilesInFolder, [Next]_vars,
         \A p \in Procs : pc[p] \in InFolder => StepDone(p)
  PROVE  FilesInFolder'
  <1> USE ServerAssumption DEF TypeOK, mailVars, placeVars, Goto
  <1>1. ASSUME NEW p \in Procs, ParseNamed(p) PROVE FilesInFolder'
    <2>1. Attachment[Head(queue[p])] \in Names
      BY <1>1, HeadTailProperties DEF ParseNamed
    <2>2. \A n \in Names : folder'[n].file = folder[n].file /\ folder'[n].watch = folder[n].watch
      BY <1>1, <2>1 DEF ParseNamed, SaveIn, Folders
    <2> QED
      BY <2>2 DEF FilesInFolder
  <1>2. ASSUME NEW p \in Procs, Unpack(p) PROVE FilesInFolder'
    <2>1. name[p] \in Names
      BY <1>2 DEF Unpack, StepDone, InFolder
    <2>2. \A n \in Names : folder'[n] \in {folder[n], Unpacked(n, folder[n])}
      BY <1>2, <2>1 DEF Unpack
    <2>3. \A n \in Names : FilesOf(n, folder'[n])
      BY <2>2, FilesOfAll, UnpackedFiles DEF NothingLeftBehind
    <2> QED
      BY <2>3 DEF FilesInFolder, FilesOf
  <1>3. ASSUME NEW p \in Procs, Run(p) \/ RunFails(p) \/ Measure(p)
        PROVE  FilesInFolder'
    <2>1. name[p] \in Names
      BY <1>3 DEF Run, RunFails, Measure, StepDone, InFolder
    <2>2. \A n \in Names :
            /\ folder'[n].file = folder[n].file
            /\ folder'[n].watch = "1" => folder[n].watch = "1" \/ folder[n].file["run"] # NoMail
      <3>1. CASE Run(p)
        BY <3>1, <2>1 DEF Run, Folders
      <3>2. CASE RunFails(p)
        <4>1. PICK w \in {folder[name[p]].watch, "0"} :
                folder' = [folder EXCEPT ![name[p]].watch = w]
          BY <3>2 DEF RunFails
        <4> QED
          BY <4>1, <2>1 DEF Folders
      <3>3. CASE Measure(p)
        <4>1. \E v : folder' = [folder EXCEPT ![name[p]].output = v]
          BY <3>3 DEF Measure
        <4> QED
          BY <4>1, <2>1 DEF Folders
      <3> QED
        BY <1>3, <3>1, <3>2, <3>3
    <2>3. \A n \in Names : FilesOf(n, folder'[n])
      <3> TAKE n \in Names
      <3>1. FilesOf(n, folder[n])
        BY FilesOfAll
      <3>2. folder'[n].file = folder[n].file
        BY <2>2
      <3>3. folder'[n].watch = "1" => folder[n].watch = "1" \/ folder[n].file["run"] # NoMail
        BY <2>2
      <3> QED
        BY ONLY <3>1, <3>2, <3>3 DEF FilesOf
    <2> QED
      BY <2>3 DEF FilesInFolder, FilesOf
  <1>4. CASE folder' = folder
    BY <1>4 DEF FilesInFolder
  <1>5. ASSUME NEW p \in Procs, Cron(p) \/ RemoveToken(p) \/ Retrieve(p) \/ ParseEmpty(p)
                               \/ ParseFails(p) \/ Quit(p) \/ RunNothing(p)
                               \/ Send(p) \/ SendRaises(p) \/ Restore(p)
        PROVE  folder' = folder
    BY <1>5 DEF Cron, RemoveToken, Retrieve, ParseEmpty, ParseFails, Quit, RunNothing,
                Send, SendRaises, Restore
  <1>6. (\E m \in Mails : Arrive(m)) \/ Crash \/ Operator \/ UNCHANGED vars => folder' = folder
    BY DEF Arrive, Crash, Operator, vars
  <1> QED
    BY <1>1, <1>2, <1>3, <1>4, <1>5, <1>6 DEF Next, Session

-----------------------------------------------------------------------------
\* The files in a folder fit a mail with an attachment of that name if those that
\* it brought are its own.
LEMMA OwnFilesFit ==
  ASSUME NEW m \in Mails, NEW f, FilesOf(Attachment[m], f),
         \A part \in Ships[m] : f.file[part] = m
  PROVE  Fits(f.file, m)
  BY DEF FilesOf, Fits

\* What a session must find at a place, for its mail and with its folder.
Found(at, m, n, f, b, up, over) ==
  /\ at \in {"unpack", "program"} => ~over
  /\ at \in {"measure", "send"} /\ ~up => (f.watch = "1") = over
  /\ Kind[m] = "zip" /\ Undisturbed(m) =>
       /\ n = Attachment[m]
       /\ at = "unpack" => f.zip = m
       /\ at = "program" => Fits(f.file, m)
       /\ at = "measure" /\ ~up /\ "run" \in Ships[m] => Fits(b, m)
       /\ at = "send" /\ ~up /\ "run" \in Ships[m] => Fits(f.output, m)

\* A step that keeps the mail leaves what the next one must find.
LEMMA DoneIsFound ==
  ASSUME NEW p \in Procs,
         UNCHANGED <<queue, crashes>>, queue[p] # <<>>, name'[p] # NoName,
         Found(pc'[p], Head(queue[p]), name'[p], folder'[name'[p]], board', upset', overran')
  PROVE  StepDone(p)'
  <1>1. queue' = queue /\ (Undisturbed(Head(queue[p]))' <=> Undisturbed(Head(queue[p])))
    BY DEF Undisturbed
  <1> QED
    BY <1>1, Zenon DEF StepDone, Found

LEMMA DoneStep ==
  ASSUME ServerInv, [Next]_vars, NEW r \in Procs, pc'[r] \in InFolder
  PROVE  StepDone(r)'
  <1> USE ServerAssumption DEF TypeOK, mailVars, placeVars, Goto
  <1>0. /\ TypeOK /\ OneSession /\ NothingLeftBehind /\ FilesInFolder
        /\ \A p \in Procs : pc[p] \in InFolder => StepDone(p)
    BY DEF ServerInv
  <1>1. ASSUME NEW p \in Procs, Session(p) PROVE p = r
    <2>1. pc[p] # "idle" /\ \A q \in Procs \ {p} : pc'[q] = pc[q]
      BY <1>0, <1>1 DEF Session, RemoveToken, Retrieve, ParseNamed, ParseEmpty, ParseFails,
                  Quit, Abandon, Unpack, Run, RunNothing, RunFails, Measure, Send, SendRaises, Restore
    <2> QED
      BY <1>0, <2>1 DEF OneSession, InFolder
  <1>2. ASSUME pc[r] \in InFolder
        PROVE  /\ queue[r] # <<>> /\ Head(queue[r]) \in Mails
               /\ name[r] \in Names /\ folder[name[r]] \in Folders
               /\ FilesOf(name[r], folder[name[r]])
               /\ Found(pc[r], Head(queue[r]), name[r], folder[name[r]], board, upset, overran)
    <2>1. StepDone(r)
      BY <1>0, <1>2
    <2>2. queue[r] # <<>> /\ name[r] \in Names /\ folder[name[r]] \in Folders
      BY <1>0, <2>1 DEF StepDone
    <2>3. Head(queue[r]) \in Mails
      BY <1>0, <2>2, HeadTailProperties
    <2>4. Found(pc[r], Head(queue[r]), name[r], folder[name[r]], board, upset, overran)
      BY <2>1, Zenon DEF StepDone, Found
    <2>5. FilesOf(name[r], folder[name[r]])
      BY <1>0, <2>2, FilesOfAll
    <2> QED
      BY <2>2, <2>3, <2>4, <2>5
  <1>3. CASE ParseNamed(r)
    <2>1. Head(queue[r]) \in Mails
      BY <1>0, <1>3, HeadTailProperties DEF ParseNamed
    <2>2. PICK m \in Mails, k \in Names : m = Head(queue[r]) /\ k = Attachment[m]
      BY <2>1
    <2>3. /\ pc[r] = "parse" /\ pc'[r] = "unpack"
          /\ UNCHANGED <<queue, crashes>> /\ queue[r] # <<>>
          /\ name'[r] = k /\ overran' = FALSE
          /\ folder'[k] = SaveIn(folder[k], m)
      BY <1>0, <1>3, <2>2 DEF ParseNamed, Abandon, InFolder
    <2>4. ASSUME Kind[m] = "zip", Undisturbed(m) PROVE folder'[k].zip = m
      <3>1. folder[k].zip \in {NoMail, m}
        BY <1>0, <2>2, <2>3, <2>4, FolderFree
      <3>2. folder[k] \in Folders
        BY <1>0
      <3> QED
        BY <2>3, <3>1, <3>2 DEF SaveIn, Folders
    <2>5. Found("unpack", m, k, folder'[k], board', upset', FALSE)
      BY <2>2, <2>4 DEF Found
    <2> QED
      BY <2>2, <2>3, <2>5, DoneIsFound
  <1>4. CASE ParseEmpty(r)
    <2>1. /\ UNCHANGED <<queue, name, crashes>> /\ queue[r] # <<>> /\ name[r] # NoName
          /\ pc'[r] = "unpack" /\ overran' = FALSE /\ Kind[Head(queue[r])] = "empty"
      BY <1>0, <1>4 DEF ParseEmpty, Abandon, InFolder
    <2>2. Found("unpack", Head(queue[r]), name[r], folder'[name[r]], board', upset', FALSE)
      BY <2>1 DEF Found
    <2> QED
      BY <2>1, <2>2, DoneIsFound
  \* The other steps of a session keep its mail and the name of its folder.
  <1>5. ASSUME pc[r] \in InFolder, UNCHANGED <<queue, name, crashes>>,
               Found(pc'[r], Head(queue[r]), name[r], folder'[name[r]], board', upset', overran')
        PROVE  StepDone(r)'
    <2>1. queue[r] # <<>> /\ name'[r] # NoName
      BY <1>0, <1>2, <1>5
    <2> QED
      BY <1>5, <2>1, DoneIsFound
  <1>6. CASE Unpack(r)
    <2>1. /\ pc[r] = "unpack" /\ pc[r] \in InFolder /\ pc'[r] = "program"
          /\ UNCHANGED <<queue, name, crashes, overran>>
      BY <1>0, <1>6 DEF Unpack, InFolder
    <2>2. PICK m \in Mails, k \in Names, f \in Folders :
            m = Head(queue[r]) /\ k = name[r] /\ f = folder[k]
      BY <1>2, <2>1
    <2>3. FilesOf(k, f) /\ Found("unpack", m, k, f, board, upset, overran)
      BY <1>2, <2>1, <2>2
    <2>4. folder'[k] = Unpacked(k, f)
      BY <1>0, <1>6, <2>2 DEF Unpack
    <2>5. ASSUME Kind[m] = "zip", Undisturbed(m)
          PROVE  k = Attachment[m] /\ Fits(Unpacked(k, f).file, m)
      <3>1. k = Attachment[m] /\ f.zip = m
        BY <2>3, <2>5 DEF Found
      <3>2. FilesOf(k, Unpacked(k, f))
        BY <2>3, <3>1, UnpackedFiles
      <3>3. \A part \in Ships[m] : part \in Parts
        BY DEF Archives
      <3>4. \A part \in Ships[m] : Unpacked(k, f).file[part] = m
        BY <2>5, <3>1, <3>3 DEF Unpacked, Folders, Undisturbed
      <3> QED
        BY <3>1, <3>2, <3>4, OwnFilesFit
    <2>6. Found("program", m, k, Unpacked(k, f), board', upset', overran)
      <3>1. ~overran
        BY <2>3 DEF Found
      <3> QED
        BY <2>5, <3>1, Zenon DEF Found
    <2> QED
      BY <1>5, <2>1, <2>2, <2>4, <2>6
  <1>7. CASE Run(r)
    <2>1. /\ pc[r] = "program" /\ pc[r] \in InFolder /\ pc'[r] = "measure"
          /\ UNCHANGED <<queue, name, crashes>>
      BY <1>0, <1>7 DEF Run, InFolder
    <2>2. PICK m \in Mails, k \in Names, f \in Folders :
            m = Head(queue[r]) /\ k = name[r] /\ f = folder[k]
      BY <1>2, <2>1
    <2>3. Found("program", m, k, f, board, upset, overran)
      BY <1>2, <2>1, <2>2
    <2>4. /\ board' = f.file /\ overran' \in BOOLEAN
          /\ folder'[k].watch = IF overran' THEN "1" ELSE "0"
      BY <1>0, <1>7, <2>2 DEF Run, Folders
    <2>5. (folder'[k].watch = "1") = overran'
      BY <2>4
    <2>6. Found("measure", m, k, folder'[k], f.file, upset', overran')
      BY <2>3, <2>5, Zenon DEF Found
    <2> QED
      BY <1>5, <2>1, <2>2, <2>4, <2>6
  <1>8. CASE RunNothing(r)
    <2>1. /\ pc[r] = "program" /\ pc[r] \in InFolder /\ pc'[r] = "measure"
          /\ UNCHANGED <<queue, name, crashes, folder, upset, overran>>
      BY <1>0, <1>8 DEF RunNothing, InFolder
    <2>2. PICK m \in Mails, k \in Names, f \in Folders :
            m = Head(queue[r]) /\ k = name[r] /\ f = folder[k] /\ f.file["run"] = NoMail
      BY <1>2, <1>8, <2>1 DEF RunNothing
    <2>3. FilesOf(k, f) /\ Found("program", m, k, f, board, upset, overran)
      BY <1>2, <2>1, <2>2
    <2>4. (f.watch = "1") = overran
      BY <2>2, <2>3, <1>0 DEF FilesOf, Found
    <2>5. Kind[m] = "zip" /\ Undisturbed(m) => k = Attachment[m] /\ "run" \notin Ships[m]
      BY <2>2, <2>3 DEF Found, Fits, Parts
    <2>6. Found("measure", m, k, f, board', upset, overran)
      BY <2>4, <2>5, Zenon DEF Found
    <2> QED
      BY <1>5, <2>1, <2>2, <2>6
  <1>9. CASE RunFails(r)
    <2>1. /\ pc[r] = "program" /\ pc[r] \in InFolder /\ pc'[r] = "measure"
          /\ UNCHANGED <<queue, name, crashes>> /\ upset' = TRUE
      BY <1>0, <1>9 DEF RunFails, InFolder
    <2>2. Found("program", Head(queue[r]), name[r], folder[name[r]], board, upset, overran)
      BY <1>2, <2>1
    <2>3. Found("measure", Head(queue[r]), name[r], folder'[name[r]], board', TRUE, overran')
      BY <2>2 DEF Found
    <2> QED
      BY <1>5, <2>1, <2>3
  <1>10. CASE Measure(r)
    <2>1. /\ pc[r] = "measure" /\ pc[r] \in InFolder /\ pc'[r] = "send"
          /\ UNCHANGED <<queue, name, crashes, overran>>
      BY <1>0, <1>10 DEF Measure, InFolder
    <2>2. PICK m \in Mails, k \in Names, f \in Folders :
            m = Head(queue[r]) /\ k = name[r] /\ f = folder[k]
      BY <1>2, <2>1
    <2>3. Found("measure", m, k, f, board, upset, overran)
      BY <1>2, <2>1, <2>2
    <2>4. CASE upset' = TRUE
      <3>1. Found("send", m, k, folder'[k], board', TRUE, overran)
        BY <2>3 DEF Found
      <3> QED
        BY <1>5, <2>1, <2>2, <2>4, <3>1
    <2>5. CASE upset' # TRUE
      <3>1. /\ upset' = upset /\ folder'[k].output = board
            /\ folder'[k].watch = f.watch
        <4>1. upset' = upset /\ folder' = [folder EXCEPT ![k].output = board]
          BY <1>10, <2>2, <2>5, Zenon DEF Measure
        <4> QED
          BY <1>0, <4>1, <2>2 DEF Folders
      <3>2. Found("send", m, k, folder'[k], board', upset, overran)
        BY <2>3, <3>1, Zenon DEF Found
      <3> QED
        BY <1>5, <2>1, <2>2, <3>1, <3>2
    <2> QED
      BY <2>4, <2>5
  <1>11. ASSUME \/ RemoveToken(r) \/ Retrieve(r) \/ ParseFails(r) \/ Quit(r)
                \/ Send(r) \/ SendRaises(r) \/ Restore(r)
         PROVE  FALSE
    BY <1>0, <1>11 DEF RemoveToken, Retrieve, ParseFails, Quit, Send, SendRaises, Restore, Abandon,
                   InFolder
  <1>12. ASSUME UNCHANGED <<queue, name, folder, board, crashes, upset, overran>>, pc'[r] = pc[r]
         PROVE  StepDone(r)'
    BY <1>2, <1>5, <1>12
  <1>13. ASSUME NEW m \in Mails, Arrive(m) PROVE StepDone(r)'
    BY <1>12, <1>13 DEF Arrive
  <1>14. ASSUME NEW p \in Procs, Cron(p) PROVE StepDone(r)'
    BY <1>0, <1>12, <1>14 DEF Cron, InFolder
  <1>15. CASE Operator \/ UNCHANGED vars
    BY <1>12, <1>15 DEF Operator, vars
  <1>16. CASE Crash
    BY <1>16 DEF Crash, InFolder
  <1> QED
    BY <1>1, <1>3, <1>4, <1>6, <1>7, <1>8, <1>9, <1>10, <1>11, <1>13, <1>14, <1>15, <1>16
       DEF Next, Session

-----------------------------------------------------------------------------
LEMMA InvInit == Init => ServerInv
  <1> SUFFICES ASSUME Init PROVE ServerInv
    OBVIOUS
  <1> USE ServerAssumption DEF Init
  <1>1. \A n \in Names : folder[n] \in Folders
    BY NoFilesType DEF Folders
  <1>2. NoReply \in Replies
    BY NoFilesType DEF NoReply, Replies
  <1>3. TypeOK
    <2>1. <<>> \in Seq(Mails) /\ faults \in 0 .. Faults /\ crashes \in 0 .. Crashes
      OBVIOUS
    <2>2. pc \in [Procs -> Steps]
      BY DEF Steps
    <2>3. folder \in [Names -> Folders] /\ replies \in [Mails -> Replies]
      BY <1>1, <1>2
    <2>4. upset \in BOOLEAN /\ overran \in BOOLEAN /\ token \in BOOLEAN
      BY Zenon
    <2>5. /\ inbox \in Seq(Mails) /\ arrived \subseteq Mails
          /\ queue \in [Procs -> Seq(Mails)] /\ name \in [Procs -> Names \cup {NoName}]
          /\ board \in Files
      BY <2>1, NoFilesType
    <2> QED
      BY <2>1, <2>2, <2>3, <2>4, <2>5 DEF TypeOK
  <1>4. OneSession /\ NothingLeftBehind /\ \A p \in Procs : pc[p] \notin InFolder
    BY DEF OneSession, NothingLeftBehind, InFolder
  <1>5. FilesInFolder
    BY NoFilesType DEF FilesInFolder, Parts
  <1> QED
    BY <1>3, <1>4, <1>5 DEF ServerInv

LEMMA InvStep == ServerInv /\ [Next]_vars => ServerInv'
  <1> SUFFICES ASSUME ServerInv, [Next]_vars PROVE ServerInv'
    OBVIOUS
  <1>1. \A p \in Procs : pc[p] \in InFolder => queue[p] # <<>> /\ name[p] # NoName
    BY DEF ServerInv, StepDone
  <1>2. TypeOK'
    BY <1>1, TypeStep DEF ServerInv
  <1>3. OneSession'
    BY SessionStep DEF ServerInv
  <1>4. NothingLeftBehind'
    BY LeftStep DEF ServerInv
  <1>5. FilesInFolder'
    BY FilesStep DEF ServerInv
  <1>6. \A p \in Procs : pc'[p] \in InFolder => StepDone(p)'
    BY DoneStep
  <1> QED
    BY <1>2, <1>3, <1>4, <1>5, <1>6 DEF ServerInv

\* What each step of a session finds in its folder and on the board is what the
\* step before it left there; a folder holds only what attachments of its name
\* brought, and an attachment that is not unpacked only where a session broke off.
THEOREM ServerInvariant == Spec => []ServerInv
  BY InvInit, InvStep, PTL DEF Spec

\* At most one instance of execute02.sh works on the board, for any number that
\* cron starts.
THEOREM Exclusion == Spec => []OneSession
  <1>1. ServerInv => OneSession
    BY DEF ServerInv
  <1> QED
    BY <1>1, ServerInvariant, PTL

\* A user learns of a stopped run exactly if it was their own, and gets results made
\* with all the files they sent and with no others but those that they lacked and
\* an attachment of the same name had.
THEOREM ResultsOfOwnDesign == Spec => []OwnResults
  <1>1. Init => OwnResults
    BY DEF Init, OwnResults, NoReply
  <1>2. ServerInv /\ OwnResults /\ [Next]_vars => OwnResults'
    <2> SUFFICES ASSUME ServerInv, OwnResults, [Next]_vars PROVE OwnResults'
      OBVIOUS
    <2>1. TypeOK /\ TypeOK'
      BY InvStep DEF ServerInv
    <2>2. crashes' <= crashes
      <3>1. CASE Crash
        BY <3>1, <2>1, ServerAssumption DEF Crash, TypeOK
      <3>2. ASSUME NEW p \in Procs, Session(p) PROVE crashes' = crashes
        BY <3>2 DEF Session, RemoveToken, Retrieve, ParseNamed, ParseEmpty, ParseFails, Quit,
                    Unpack, Run, RunNothing, RunFails, Measure, Send, SendRaises, Restore
      <3>3. crashes \in Int
        BY <2>1, ServerAssumption DEF TypeOK
      <3> QED
        BY <3>1, <3>2, <3>3 DEF Next, Arrive, Cron, Operator, vars
    <2>3. \A m \in Mails : Undisturbed(m)' => Undisturbed(m)
      BY <2>1, <2>2, ServerAssumption DEF TypeOK, Undisturbed
    <2>4. CASE replies' = replies
      BY <2>3, <2>4 DEF OwnResults
    <2>5. ASSUME NEW p \in Procs, Send(p), replies' # replies PROVE OwnResults'
      <3>1. StepDone(p) /\ queue[p] # <<>>
        BY <2>5 DEF ServerInv, StepDone, Send, InFolder
      <3>2. PICK m \in Mails : m = Head(queue[p])
        BY <2>1, <3>1, HeadTailProperties DEF TypeOK
      <3>3. PICK f : f = folder[name[p]]
        OBVIOUS
      <3>4. /\ replies' = [replies EXCEPT ![m] =
                 [vector |-> f.output, overtime |-> f.watch = "1", sent |-> TRUE,
                  upset |-> upset, overran |-> overran]]
            /\ pc[p] = "send"
        BY <2>5, <3>2, <3>3, Zenon DEF Send
      <3>5. /\ replies'[m].vector = f.output
            /\ replies'[m].overtime = (f.watch = "1")
            /\ replies'[m].upset = upset
            /\ replies'[m].overran = overran
            /\ \A o \in Mails \ {m} : replies'[o] = replies[o]
        BY <2>1, <3>4 DEF TypeOK
      <3>6. ~upset => /\ (f.watch = "1") = overran
                      /\ Kind[m] = "zip" /\ "run" \in Ships[m] /\ Undisturbed(m) =>
                           Fits(f.output, m)
        BY <3>1, <3>2, <3>3, <3>4, Zenon DEF StepDone
      <3>7. ASSUME NEW o \in Mails, replies'[o].sent, ~replies'[o].upset
            PROVE  /\ replies'[o].overtime = replies'[o].overran
                   /\ Kind[o] = "zip" /\ "run" \in Ships[o] /\ Undisturbed(o)' =>
                        Fits(replies'[o].vector, o)
        <4>1. CASE o = m
          BY <2>3, <3>5, <3>6, <3>7, <4>1
        <4>2. CASE o # m
          BY <2>3, <3>5, <3>7, <4>2 DEF OwnResults
        <4> QED
          BY <4>1, <4>2
      <3> QED
        BY <3>7 DEF OwnResults
    <2>6. ASSUME replies' # replies PROVE \E p \in Procs : Send(p)
      BY <2>6 DEF Next, Session, Arrive, Cron, Operator, Crash, vars, RemoveToken, Retrieve,
                  ParseNamed, ParseEmpty, ParseFails, Quit, Unpack, Run, RunNothing, RunFails,
                  Measure, SendRaises, Restore
    <2> QED
      BY <2>4, <2>5, <2>6
  <1> QED
    BY <1>1, <1>2, ServerInvariant, PTL DEF Spec
=============================================================================
