---------------------------- MODULE InjectionStage ----------------------------
(***************************************************************************)
(* What one injection program promises, with no voltage, list or loop in   *)
(* it.  Each record names a floating gate and a goal.  A record is live    *)
(* until it is judged over.  A reading below the goal arms it, one burst   *)
(* disarms it, and it takes another reading to arm it again: so a gate     *)
(* rises only in a burst that the latest reading of that gate called for.  *)
(***************************************************************************)
EXTENDS Integers

CONSTANTS Recs, Cells, Cell, Codes, StartBoards, Goal

VARIABLES level, live, armed

stageVars == <<level, live, armed>>

Init ==
  /\ level \in StartBoards
  /\ live = Recs
  /\ armed = {}

Rises(i) == \E c \in Codes : /\ c >= level[Cell[i]]
                             /\ level' = [level EXCEPT ![Cell[i]] = c]

Over(i) ==
  /\ i \in live \ armed
  /\ level[Cell[i]] >= Goal[i]
  /\ live' = live \ {i}
  /\ UNCHANGED <<level, armed>>

Arm(i) ==
  /\ i \in live \ armed
  /\ level[Cell[i]] < Goal[i]
  /\ armed' = armed \cup {i}
  /\ UNCHANGED <<level, live>>

\* the calculation finds that less than one pulse is missing
GiveUp(S) ==
  /\ live' = live \ S
  /\ armed' = armed \ S
  /\ UNCHANGED level

Pulse(i) == i \in armed /\ Rises(i) /\ UNCHANGED <<live, armed>>

EndBurst(i) ==
  /\ i \in armed
  /\ Rises(i)
  /\ armed' = armed \ {i}
  /\ live' \in {live, live \ {i}}

Next ==
  \/ \E i \in Recs : Over(i) \/ Arm(i) \/ Pulse(i) \/ EndBurst(i)
  \/ \E S \in SUBSET Recs : GiveUp(S)

Spec == Init /\ [][Next]_stageVars
=============================================================================
