--------------------------- MODULE MCRecoverInject ---------------------------
EXTENDS RecoverInject

\* Two records on a diagonal of a two by two array: selecting one after the
\* other passes a gate of no record.  One code below VC4, one in each bracket,
\* one at the goal and one beyond it.
MCRows == {0, 1}
MCCols == {0, 1}
MCCell == << <<0, 1>>, <<1, 0>> >>
MCCodes == {10, 20, 30, 40, 50, 60}
MCStartBoards ==
  {b \in [MCRows \X MCCols -> MCCodes] : b[<<0, 0>>] = 10 /\ b[<<1, 1>>] = 10}
=============================================================================
