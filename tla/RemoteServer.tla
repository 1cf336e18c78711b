---------------------------- MODULE RemoteServer ----------------------------
(***************************************************************************)
(* The mail server of the remote laboratory: cron starts execute02.sh,     *)
(* which takes the file fpaa_available, runs get_email02.py and puts the   *)
(* file back.  A session retrieves every new mail, and then, mail by mail, *)
(* saves the attachment in a folder named after it, unpacks it there, runs *)
(* program_fpaa02.py in that folder, and mails the vector the board gave   *)
(* to the address the subject names.                                       *)
(*                                                                         *)
(* Every file that an archive brings is named by its mail, and the vector  *)
(* the board gives by the files it was made with: a design is programmed   *)
(* from all the files its folder holds, whoever sent them.  A mail has at  *)
(* most one attachment with a name.  The log files are left out.  "slip:"  *)
(* marks definitions with a mistake in them, as in FGBoard.                *)
(***************************************************************************)
EXTENDS Naturals, Sequences

CONSTANTS
  Procs,        \* instances of execute02.sh that cron may have started
  Mails, NoMail,
  Names, NoName,
  SplitNames,   \* those that the shell does not take as one word
  Attachment,   \* the file name of each mail's attachment
  Kind,         \* what each mail is like
  Ships,        \* the files in its archive, none if it does not unzip
  Subject,      \* the words of its subject, to which the results go
  Faults,       \* bound on the number of times a connection or command fails
  Crashes       \* bound on the number of times the machine goes down

\* "zip": an attachment.  "empty": none.  "unnamed": one, and then a part without
\* a file name.
Kinds == {"zip", "empty", "unnamed"}

\* "none": the mail has no subject.  "many": not one word, so no address.
Subjects == {"one", "none", "many"}

\* The files that the builder sends together: the erase and switch programs, the
\* switch list and the input vector; the target lists with their tables and
\* programs; gpin_vector; voltage_meas.elf, with output_info if it reads it.
Parts == {"array", "targets", "gpin", "run"}

\* "array" is in every archive that the builder makes.
Archives == {a \in SUBSET Parts : a = {} \/ "array" \in a}

ASSUME ServerAssumption ==
  /\ NoMail \notin Mails /\ NoName \notin Names
  /\ SplitNames \subseteq Names
  /\ Attachment \in [Mails -> Names]
  /\ Kind \in [Mails -> Kinds]
  /\ Ships \in [Mails -> Archives]
  /\ Subject \in [Mails -> Subjects]
  /\ Faults \in Nat /\ Crashes \in Nat

VARIABLES
  token,     \* fpaa_available exists
  inbox,     \* mails the mail service has not yet handed out
  arrived,   \* mails sent so far
  pc,        \* where each instance is
  queue,     \* the mails of its session still to be parsed, or being served
  name,      \* fileName, a global of the script: it survives from mail to mail
  folder,    \* what each folder of RASP_Workspace holds
  board,     \* the files whose results are at 0x6000
  replies,   \* what was mailed to each user
  upset,     \* history: a command failed since the current mail was parsed
  overran,   \* history: the run made for the current mail was stopped
  faults, crashes   \* failures and crashes still to come

vars == <<token, inbox, arrived, pc, queue, name, folder, board, replies,
          upset, overran, faults, crashes>>

\* whose each part is, NoMail for nobody's
Files == [Parts -> Mails \cup {NoMail}]
NoFiles == [part \in Parts |-> NoMail]

Replies == [vector : Files, overtime : BOOLEAN, sent : BOOLEAN,
            upset : BOOLEAN, overran : BOOLEAN]
\* upset and overran are history: what happened while the reply was made
NoReply == [vector |-> NoFiles, overtime |-> FALSE, sent |-> FALSE,
            upset |-> FALSE, overran |-> FALSE]

Steps == {"idle", "remove", "retrieve", "parse", "unpack", "program",
          "measure", "send", "restore"}
InFolder == {"unpack", "program", "measure", "send"}
Folders == [zip : Mails \cup {NoMail}, file : Files, output : Files,
            watch : {"none", "0", "1"}]

\* The repository ships fpaa_available, and no folder yet.
Init ==
  /\ token = TRUE
  /\ inbox = <<>> /\ arrived = {}
  /\ pc = [p \in Procs |-> "idle"]
  /\ queue = [p \in Procs |-> <<>>]
  /\ name = [p \in Procs |-> NoName]
  /\ folder = [n \in Names |-> [zip |-> NoMail, file |-> NoFiles,
                                output |-> NoFiles, watch |-> "none"]]
  /\ board = NoFiles
  /\ replies = [m \in Mails |-> NoReply]
  /\ upset = FALSE /\ overran = FALSE
  /\ faults = Faults /\ crashes = Crashes

Goto(p, step) == pc' = [pc EXCEPT ![p] = step]
Fault == faults > 0 /\ faults' = faults - 1

\* what the processes of the server do not change
mailVars == <<inbox, arrived>>
placeVars == <<folder, board, upset, overran>>

\* A user sends a design (external).
Arrive(m) ==
  /\ m \notin arrived
  /\ arrived' = arrived \cup {m}
  /\ inbox' = Append(inbox, m)
  /\ UNCHANGED <<token, pc, queue, name, placeVars, replies, faults, crashes>>

\* slip: the file is not tested for
CronUntested(p) ==
  /\ pc[p] = "idle" /\ \A q \in Procs : pc[q] # "remove"
  /\ Goto(p, "remove")
  /\ UNCHANGED <<token, mailVars, queue, name, placeVars, replies, faults, crashes>>

\* if [ -e fpaa_available ].  Cron starts an instance every minute, and a test
\* is followed by its removal within that minute.
Cron(p) ==
  /\ pc[p] = "idle" /\ \A q \in Procs : pc[q] # "remove"
  /\ token
  /\ Goto(p, "remove")
  /\ UNCHANGED <<token, mailVars, queue, name, placeVars, replies, faults, crashes>>

RemoveToken(p) ==
  /\ pc[p] = "remove"
  /\ token' = FALSE
  /\ Goto(p, "retrieve")
  /\ UNCHANGED <<mailVars, queue, name, placeVars, replies, faults, crashes>>

\* Connecting, counting and two rounds of RETR.  The mail service does not hand
\* out again what a session has retrieved (external).  An exception here is
\* not caught: the script dies, with some of the mails retrieved.
Retrieve(p) ==
  /\ pc[p] = "retrieve"
  /\ \/ /\ queue' = [queue EXCEPT ![p] = inbox]
        /\ inbox' = <<>>
        /\ Goto(p, "parse")
        /\ UNCHANGED faults
     \/ /\ Fault
        /\ \E k \in 0 .. Len(inbox) : inbox' = SubSeq(inbox, k + 1, Len(inbox))
        /\ Goto(p, "restore")
        /\ UNCHANGED queue
  /\ UNCHANGED <<token, arrived, name, placeVars, replies, crashes>>

\* slip: the exception ends the whole script
AbandonAll(p) == Goto(p, "idle") /\ queue' = [queue EXCEPT ![p] = <<>>]

\* the except clause: the mails that are left are not looked at
Abandon(p) == Goto(p, "restore") /\ queue' = [queue EXCEPT ![p] = <<>>]

\* isfile: a file of that name that is still there is not written over
SaveIn(f, m) == [f EXCEPT !.zip = IF @ = NoMail THEN m ELSE @]

\* A mail with an attachment that has a name.
ParseNamed(p) ==
  LET m == Head(queue[p])
      n == Attachment[m] IN
  /\ pc[p] = "parse" /\ queue[p] # <<>> /\ Kind[m] # "empty"
  /\ name' = [name EXCEPT ![p] = n]
  /\ folder' = [folder EXCEPT ![n] = SaveIn(@, m)]
  /\ IF Kind[m] = "unnamed" THEN Abandon(p) ELSE Goto(p, "unpack") /\ UNCHANGED queue
  /\ upset' = FALSE /\ overran' = FALSE
  /\ UNCHANGED <<token, mailVars, board, replies, faults, crashes>>

\* One without: fileName is what the mail before it left, or undefined.
ParseEmpty(p) ==
  /\ pc[p] = "parse" /\ queue[p] # <<>> /\ Kind[Head(queue[p])] = "empty"
  /\ IF name[p] = NoName THEN Abandon(p) ELSE Goto(p, "unpack") /\ UNCHANGED queue
  /\ upset' = FALSE /\ overran' = FALSE
  /\ UNCHANGED <<token, mailVars, name, folder, board, replies, faults, crashes>>

ParseFails(p) ==
  /\ pc[p] = "parse" /\ queue[p] # <<>>
  /\ Fault
  /\ Abandon(p)
  /\ UNCHANGED <<token, mailVars, name, placeVars, replies, crashes>>

Quit(p) ==
  /\ pc[p] = "parse" /\ queue[p] = <<>>
  /\ Goto(p, "restore")
  /\ UNCHANGED <<token, mailVars, queue, name, placeVars, replies, faults, crashes>>

\* slip: unzip -jn, which does not write over a file
UnpackedOld(n, f) ==
  IF n \in SplitNames \/ f.zip = NoMail THEN f
  ELSE [f EXCEPT !.zip = NoMail,
                 !.file = [part \in Parts |-> IF part \in Ships[f.zip] /\ @[part] = NoMail
                                              THEN f.zip ELSE @[part]]]

\* mv, unzip -jo, rm: each exit status is ignored.  unzip adds files and writes
\* over files; what an earlier archive brought and this one does not, stays.  A
\* mv that gets more than two words fails, and the attachment stays what it is.
Unpacked(n, f) ==
  IF n \in SplitNames \/ f.zip = NoMail THEN f
  ELSE [f EXCEPT !.zip = NoMail,
                 !.file = [part \in Parts |-> IF part \in Ships[f.zip]
                                              THEN f.zip ELSE @[part]]]

Unpack(p) ==
  /\ pc[p] = "unpack"
  /\ folder' = [folder EXCEPT ![name[p]] = Unpacked(name[p], @)]
  /\ Goto(p, "program")
  /\ UNCHANGED <<token, mailVars, queue, name, board, upset, overran, replies, faults, crashes>>

\* slip: WATCHDOG.txt is written only when the time is up
RunKeepsWatch(p) ==
  LET n == name[p] IN
  /\ pc[p] = "program" /\ folder[n].file["run"] # NoMail
  /\ board' = folder[n].file
  /\ overran' \in BOOLEAN
  /\ folder' = [folder EXCEPT ![n].watch = IF overran' THEN "1" ELSE @]
  /\ Goto(p, "measure")
  /\ UNCHANGED <<token, mailVars, queue, name, upset, replies, faults, crashes>>

\* program_fpaa02.py up to run_new.tcl, with whatever target_list and gpin_vector
\* the folder has.  The erase program takes the targets of earlier designs off the
\* array.  run_new.tcl writes 0 to WATCHDOG.txt once voltage_meas.elf is loaded,
\* and 1 when it has run for three minutes.
Run(p) ==
  LET n == name[p] IN
  /\ pc[p] = "program" /\ folder[n].file["run"] # NoMail
  /\ board' = folder[n].file
  /\ overran' \in BOOLEAN
  /\ folder' = [folder EXCEPT ![n].watch = IF overran' THEN "1" ELSE "0"]
  /\ Goto(p, "measure")
  /\ UNCHANGED <<token, mailVars, queue, name, upset, replies, faults, crashes>>

\* Without voltage_meas.elf nothing is run: what an earlier run left at 0x6000 is
\* still there, unless the log of this design's programs was written over it.
RunNothing(p) ==
  LET n == name[p] IN
  /\ pc[p] = "program" /\ folder[n].file["run"] = NoMail
  /\ board' \in IF folder[n].file["targets"] = NoMail THEN {board} ELSE {board, NoFiles}
  /\ Goto(p, "measure")
  /\ UNCHANGED <<token, mailVars, queue, name, folder, upset, overran, replies, faults, crashes>>

\* A command fails: what it left of the memory is run, or nothing is.
RunFails(p) ==
  LET n == name[p] IN
  /\ pc[p] = "program"
  /\ Fault
  /\ upset' = TRUE
  /\ board' \in {board, NoFiles}
  /\ \E w \in {folder[n].watch, "0"} : folder' = [folder EXCEPT ![n].watch = w]
  /\ Goto(p, "measure")
  /\ UNCHANGED <<token, mailVars, queue, name, overran, replies, crashes>>

\* read_mem2 of 0x6000 into output_vector; a read that fails leaves the file
\* that is there, or writes zeros
Measure(p) ==
  LET n == name[p] IN
  /\ pc[p] = "measure"
  /\ Goto(p, "send")
  /\ \/ /\ folder' = [folder EXCEPT ![n].output = board]
        /\ UNCHANGED <<upset, faults>>
     \/ /\ Fault
        /\ upset' = TRUE
        /\ \E v \in {folder[n].output, NoFiles} : folder' = [folder EXCEPT ![n].output = v]
  /\ UNCHANGED <<token, mailVars, queue, name, board, overran, replies, crashes>>

\* zip and send_results02.py, which exits without a mail if its second argument is
\* not the archive, and which may fail to connect.
Send(p) ==
  LET f == folder[name[p]]
      m == Head(queue[p]) IN
  /\ pc[p] = "send" /\ Subject[m] # "none"
  /\ \/ /\ Subject[m] = "one"
        /\ replies' = [replies EXCEPT ![m] =
                         [vector |-> f.output, overtime |-> f.watch = "1", sent |-> TRUE,
                          upset |-> upset, overran |-> overran]]
        /\ UNCHANGED faults
     \/ Subject[m] = "many" /\ UNCHANGED <<replies, faults>>
     \/ Subject[m] = "one" /\ Fault /\ UNCHANGED replies
  /\ queue' = [queue EXCEPT ![p] = Tail(@)]
  /\ Goto(p, "parse")
  /\ UNCHANGED <<token, mailVars, name, placeVars, crashes>>

\* " " + None: without a subject the command cannot be put together, and that
\* is an exception like any other.
SendRaises(p) ==
  /\ pc[p] = "send" /\ Subject[Head(queue[p])] = "none"
  /\ Abandon(p)
  /\ UNCHANGED <<token, mailVars, name, placeVars, replies, faults, crashes>>

\* get_email02.py is over, whether or not it raised; touch fpaa_available
Restore(p) ==
  /\ pc[p] = "restore"
  /\ token' = TRUE
  /\ name' = [name EXCEPT ![p] = NoName]
  /\ Goto(p, "idle")
  /\ UNCHANGED <<mailVars, queue, placeVars, replies, faults, crashes>>

\* The machine goes down in the middle of a session, and the board with it or not.
Crash ==
  /\ crashes > 0 /\ crashes' = crashes - 1
  /\ \E p \in Procs : pc[p] # "idle"
  /\ pc' = [p \in Procs |-> "idle"]
  /\ queue' = [p \in Procs |-> <<>>]
  /\ name' = [p \in Procs |-> NoName]
  /\ board' \in {board, NoFiles}
  /\ UNCHANGED <<token, mailVars, folder, upset, overran, replies, faults>>

\* The machine went down in a session and nobody has put the file back yet.
Stranded == ~token /\ \A p \in Procs : pc[p] = "idle"

\* Somebody notices and puts the file back (external).
Operator ==
  /\ Stranded
  /\ token' = TRUE
  /\ UNCHANGED <<mailVars, pc, queue, name, placeVars, replies, faults, crashes>>

Session(p) ==
  \/ RemoveToken(p) \/ Retrieve(p)
  \/ ParseNamed(p) \/ ParseEmpty(p) \/ ParseFails(p) \/ Quit(p)
  \/ Unpack(p) \/ Run(p) \/ RunNothing(p) \/ RunFails(p) \/ Measure(p)
  \/ Send(p) \/ SendRaises(p) \/ Restore(p)

Next ==
  \/ \E m \in Mails : Arrive(m)
  \/ \E p \in Procs : Cron(p) \/ Session(p)
  \/ Crash \/ Operator

\* Cron comes every minute, and a session's commands all end: run_new.tcl gives
\* up after three minutes, and a program that the other commands wait for ends.
Spec ==
  /\ Init /\ [][Next]_vars
  /\ WF_vars(\E p \in Procs : Cron(p))
  /\ \A p \in Procs : WF_vars(Session(p))

-----------------------------------------------------------------------------
TypeOK ==
  /\ token \in BOOLEAN
  /\ inbox \in Seq(Mails) /\ arrived \subseteq Mails
  /\ pc \in [Procs -> Steps]
  /\ queue \in [Procs -> Seq(Mails)]
  /\ name \in [Procs -> Names \cup {NoName}]
  /\ folder \in [Names -> Folders]
  /\ board \in Files
  /\ replies \in [Mails -> Replies]
  /\ upset \in BOOLEAN /\ overran \in BOOLEAN
  /\ faults \in 0 .. Faults /\ crashes \in 0 .. Crashes

\* At most one instance is past the test, and none is past the removal while
\* the file is there for the next one to find.
OneSession ==
  \A p \in Procs : pc[p] # "idle" =>
    /\ \A q \in Procs \ {p} : pc[q] = "idle"
    /\ token <=> pc[p] = "remove"

\* Nobody else leaves an attachment in the folder of this mail's.
Undisturbed(m) ==
  /\ Attachment[m] \notin SplitNames
  /\ \A o \in Mails \ {m} : Attachment[o] = Attachment[m] =>
       Kind[o] # "unnamed" /\ crashes = Crashes

\* Every file that this mail brought is used, and for one that it did not bring
\* there is none, or one brought by a mail whose attachment has the same name.
Fits(files, m) ==
  \A part \in Parts :
    IF part \in Ships[m] THEN files[part] = m
    ELSE files[part] # NoMail =>
           Attachment[files[part]] = Attachment[m] /\ part \in Ships[files[part]]

\* A user is told of a run that was stopped exactly if it was the run made for this
\* mail; and a user who sent a design with a program to run gets results made with
\* every file of that design, although folders, the script's variables, the board
\* and its memory are those of the mails before: an earlier user's failed commands,
\* unusable attachment or stopped run do not come through.  What does come through
\* is a file that the design lacks, and only if an attachment of the same name had it.
OwnResults ==
  \A m \in Mails : replies[m].sent /\ ~replies[m].upset =>
    /\ replies[m].overtime = replies[m].overran
    /\ Kind[m] = "zip" /\ "run" \in Ships[m] /\ Undisturbed(m) => Fits(replies[m].vector, m)

\* Why: what each step of a session leaves for the next, in the folder it works
\* in; ...
StepDone(p) ==
  LET m == Head(queue[p])
      f == folder[name[p]] IN
  /\ queue[p] # <<>> /\ name[p] # NoName
  /\ pc[p] \in {"unpack", "program"} => ~overran
  /\ pc[p] \in {"measure", "send"} /\ ~upset => (f.watch = "1") = overran
  /\ Kind[m] = "zip" /\ Undisturbed(m) =>
       /\ name[p] = Attachment[m]
       /\ pc[p] = "unpack" => f.zip = m
       /\ pc[p] = "program" => Fits(f.file, m)
       /\ pc[p] = "measure" /\ ~upset /\ "run" \in Ships[m] => Fits(board, m)
       /\ pc[p] = "send" /\ ~upset /\ "run" \in Ships[m] => Fits(f.output, m)

\* ... no attachment is left to be unpacked by a later mail, except by a crash, by
\* a mail that made the script give up or under a name that mv fails with; ...
NothingLeftBehind ==
  \A n \in Names : LET z == folder[n].zip IN
    z # NoMail =>
      /\ Attachment[z] = n
      /\ \/ \E p \in Procs : pc[p] = "unpack" /\ name[p] = n
         \/ crashes < Crashes
         \/ n \in SplitNames
         \/ \E o \in Mails : Attachment[o] = n /\ Kind[o] = "unnamed"

\* ... and a folder holds only files of attachments of its name, and the message of
\* a stopped run only where there is a program to run.
FilesInFolder ==
  \A n \in Names : LET f == folder[n] IN
    /\ \A part \in Parts : f.file[part] # NoMail =>
         Attachment[f.file[part]] = n /\ part \in Ships[f.file[part]]
    /\ f.watch = "1" => f.file["run"] # NoMail

ServerInv ==
  /\ TypeOK /\ OneSession /\ NothingLeftBehind /\ FilesInFolder
  /\ \A p \in Procs : pc[p] \in InFolder => StepDone(p)

\* What the except clause abandons: the i-th mail of a session makes the script
\* give up, before it is answered or instead of answering it.
Breaks(p, i) ==
  LET m == queue[p][i] IN
  \/ Kind[m] = "unnamed"
  \/ i = 1 /\ Kind[m] = "empty" /\ name[p] = NoName
  \/ Subject[m] = "none"
Abandoned(m) ==
  \E p \in Procs : \E i, j \in DOMAIN queue[p] :
    i <= j /\ queue[p][j] = m /\ Breaks(p, i)

\* Every mail whose subject is an address is answered, unless something fails while
\* it waits or it is in a session with a mail before it that makes the script give
\* up.  A failure, a crash or such a mail costs the mails of its own session, and no
\* later ones: the file comes back, whatever is raised, and after a crash the server
\* is as good as before once it is put back.
EveryMailAnswered ==
  \A m \in Mails, k \in 0 .. Faults, c \in 0 .. Crashes :
    Subject[m] = "one" =>
      ((\E i \in DOMAIN inbox : inbox[i] = m) /\ faults = k /\ crashes = c /\ ~Stranded ~>
         replies[m].sent \/ Abandoned(m) \/ faults < k \/ crashes < c)

\* script_comments.txt: attachments are placed "in a folder named after the
\* subject line", the user's address: never among another user's files.
OwnFolder ==
  \A n \in Names : LET f == folder[n] IN
    \A part \in Parts : f.zip # NoMail /\ f.file[part] # NoMail => f.zip = f.file[part]
=============================================================================
