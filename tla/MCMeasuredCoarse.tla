--------------------------- MODULE MCMeasuredCoarse ---------------------------
EXTENDS MeasuredCoarse

\* Codes below 1 nA, just above it, on a plateau of the table, either side of
\* the goal (target less 500) and above the target.
MCFloor == 2200
MCCodes == {2200, 2400, 2700, 2900, 3100, 3400, 3700}
MCTarget == <<3600, 3300>>

MCRows == {0, 1}
MCCols == {0, 1}
MCCell == << <<0, 1>>, <<1, 0>> >>
MCStartBoards ==
  {b \in [MCRows \X MCCols -> MCCodes] : b[<<0, 0>>] = MCFloor /\ b[<<1, 1>>] = MCFloor}

\* One more pulse every four entries, then a plateau of twelve, on which a gate
\* may be more than Margin away and still less than a pulse away, as with the
\* tables of the repository.
MCTable == [t \in 0 .. 255 |-> CASE t < 8  -> t \div 4
                                 [] t < 20 -> 2
                                 [] OTHER  -> 3]
=============================================================================
