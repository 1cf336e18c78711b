--------------------------- MODULE MCRemoteServer ---------------------------
EXTENDS RemoteServer, TLC

\* Three designs under one name, each without files that another has, the last
\* without a program to run and with a subject of several words; a mail without
\* an attachment and without a subject; one that makes the script give up after
\* saving; and a design under a name with a space in it.
MCAttachment == [a1 |-> "x", a2 |-> "x", a3 |-> "x", bare |-> "y", half |-> "y", odd |-> "y z"]
MCKind == [a1 |-> "zip", a2 |-> "zip", a3 |-> "zip",
           bare |-> "empty", half |-> "unnamed", odd |-> "zip"]
MCShips == [a1 |-> {"array", "gpin", "run"}, a2 |-> {"array", "run"},
            a3 |-> {"array", "targets"},
            bare |-> {}, half |-> {"array", "run"}, odd |-> {"array", "run"}]
MCSubject == [a1 |-> "one", a2 |-> "one", a3 |-> "many",
              bare |-> "none", half |-> "one", odd |-> "many"]

CONSTANT Sent   \* those of the mails above that are sent in a run
SentAttachment == [m \in Sent |-> MCAttachment[m]]
SentKind == [m \in Sent |-> MCKind[m]]
SentShips == [m \in Sent |-> MCShips[m]]
SentSubject == [m \in Sent |-> MCSubject[m]]

ProcSymmetry == Permutations(Procs)
=============================================================================
