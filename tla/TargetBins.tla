----------------------------- MODULE TargetBins -----------------------------
(***************************************************************************)
(* MakeProgramlilst_CompileAssembly.sce sorts the floating gates of a      *)
(* design into lists, the bins: by the kind of gate and by the range of    *)
(* its target current.  Each bin has programs of its own, which measure at *)
(* the gate voltage of the range, and for the two outer ranges the list    *)
(* holds the current that is measured there, not the target.               *)
(*                                                                         *)
(* Currents are in tenths of 1 nA.  "slip:" as in FGBoard.                 *)
(***************************************************************************)
EXTENDS Integers, Sequences

OneNA == 10
HundredNA == 1000
TenUA == 100000

\* 0 is a switch; 11 to 15 are gates 1 to 5 that are calibrated as well.
Types == 0 .. 6 \cup 11 .. 15
Gates == [type : Types, target : Nat]
Plain(type) == IF type \in 11 .. 15 THEN type - 10 ELSE type

KindOf == <<"swc", "otaref", "ota", "mite", "swc", "dirswc">>
IsKind(type, kind) == Plain(type) # 0 /\ KindOf[Plain(type)] = kind
WithHigh == {"swc", "ota"}

\* slip: both bounds of the range are taken to be outside it
HoldsInner(range, kind, t) ==
  \/ range = "high" /\ kind \in WithHigh /\ t > TenUA
  \/ range = "above" /\ t > HundredNA /\ (kind \in WithHigh => t <= TenUA)
  \/ range = "sub" /\ t <= HundredNA /\ t > OneNA
  \/ range = "low" /\ t < OneNA

Holds(range, kind, t) ==
  \/ range = "high" /\ kind \in WithHigh /\ t > TenUA
  \/ range = "above" /\ t > HundredNA /\ (kind \in WithHigh => t <= TenUA)
  \/ range = "sub" /\ t <= HundredNA /\ t >= OneNA
  \/ range = "low" /\ t < OneNA

\* The bins in the order in which program_fpaa02.py programs them.
Bins ==
  << <<"high", "swc">>, <<"above", "swc">>, <<"sub", "swc">>, <<"low", "swc">>,
     <<"high", "ota">>, <<"above", "ota">>, <<"sub", "ota">>, <<"low", "ota">>,
     <<"above", "otaref">>, <<"sub", "otaref">>, <<"low", "otaref">>,
     <<"above", "mite">>, <<"sub", "mite">>, <<"low", "mite">>,
     <<"above", "dirswc">>, <<"sub", "dirswc">>, <<"low", "dirswc">> >>

\* target_info of bin n: the gates, by their place in the design
Listed(design, n) ==
  {i \in DOMAIN design : /\ IsKind(design[i].type, Bins[n][2])
                         /\ Holds(Bins[n][1], Bins[n][2], design[i].target)}

kappa_constant == 30

\* slip: only the low range is converted
WordLow(t) == IF t < OneNA THEN t * kappa_constant ELSE t

\* target_list_copy: the current that stands in the list
Word(t) == IF t < OneNA THEN t * kappa_constant
           ELSE IF t > TenUA THEN t \div kappa_constant ELSE t

\* kapa_constant_or_not: the current of a gate, from the one that bin n's programs measure
Current(n, measured) ==
  CASE Bins[n][1] = "high" -> measured * kappa_constant
    [] Bins[n][1] = "low"  -> measured \div kappa_constant
    [] OTHER               -> measured

\* The tables: Vd_table_30mV and, under the name the script writes it by, one of
\* pulse counts for each kind and for each outer range.
Vd == <<"Vd", "all">>
PulseTable(n) == IF Bins[n][1] \in {"high", "low"} THEN Bins[n] ELSE <<"middle", Bins[n][2]>>
TableFor(n, stage) == IF stage = 4 THEN Vd ELSE PulseTable(n)
Tables == {Vd} \cup {PulseTable(n) : n \in DOMAIN Bins}

\* In the zip file there is no table under a name with highaboveVt in it.
Shipped(file) == file[1] # "high"
=============================================================================
