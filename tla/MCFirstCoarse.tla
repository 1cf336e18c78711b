---------------------------- MODULE MCFirstCoarse ----------------------------
EXTENDS FirstCoarse

\* Codes on both sides of 1 nA and of each target; the second target lies
\* below 1 nA, as a lowsubVt current below a thirtieth of 1 nA does.
MCFloor == 2200
MCCodes == {2200, 2240, 2400, 2900, 3400, 3800}
MCTarget == <<3400, 2260>>

MCRows == {0, 1}
MCCols == {0, 1}
MCCell == << <<0, 1>>, <<1, 0>> >>
MCStartBoards ==
  {b \in [MCRows \X MCCols -> MCCodes] : b[<<0, 0>>] = MCFloor /\ b[<<1, 1>>] = MCFloor}

\* A short table: one more pulse every three entries, then the words past the
\* end of the file.
MCTable == [t \in 0 .. 255 |-> IF t < 250 THEN (IF t < 18 THEN t \div 3 ELSE 6) ELSE t - 244]
=============================================================================
