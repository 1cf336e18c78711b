---------------------------- MODULE MCFineProgram ----------------------------
EXTENDS FineProgram

\* The above-threshold parameters of chip 02: an index step is eight codes.
\* Codes: two of a gate the coarse stage left far behind (its index passes
\* the 200 words of the file), one below 1 nA, and both sides of each target.
MCFloor == 4000
MCRows == {0, 1}
MCCols == {0, 1}
MCCell == << <<0, 1>>, <<1, 0>> >>
MCCodes == {4000, 4300, 5000, 5400, 5600, 5800}
MCTarget == <<5600, 5500>>
MCStartBoards ==
  {b \in [MCRows \X MCCols -> MCCodes] : b[<<0, 0>>] = MCFloor /\ b[<<1, 1>>] = MCFloor}

\* 200 distinct words of the form the Vd tables have (0x220e ...), then the
\* pulse counts left by the coarse stage.
MCVd == [t \in 0 .. 1023 |-> IF t < 200 THEN 14 + 256 * t ELSE 50]
=============================================================================
