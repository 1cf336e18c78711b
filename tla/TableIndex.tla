----------------------------- MODULE TableIndex -----------------------------
(***************************************************************************)
(* The sixteen-bit arithmetic of the programming firmware: how a measured  *)
(* ADC code becomes a comparison, an index into the table the host wrote   *)
(* at 0x6800, or an average.  An instruction that rotates takes and leaves *)
(* the carry flag, and none of these routines clears it first, so the      *)
(* carry on entry is an argument here.                                     *)
(***************************************************************************)
EXTENDS Integers

Word == {w \in Nat : w < 65536}
Bit == {b \in Nat : b < 2}
CodeRange == {c \in Nat : c < 16384}     \* the converter counts to 14 bits

\* SUB and CMP keep the low sixteen bits; JN looks at bit 15 of the result.
Sub(dst, src) == (dst - src) % 65536
Add(dst, src) == (dst + src) % 65536
Negative(w) == w >= 32768

\* cmp src, dst followed by jn: the branch is taken.
Below(dst, src) == Negative(Sub(dst, src))

\* RRC on a pair <<word, carry>>, and bic #mask for a mask of high bits.
Rrc(p) == << 32768 * p[2] + (p[1] \div 2), p[1] % 2 >>
ClearAbove(w, bound) == w % bound

-----------------------------------------------------------------------------
\* slip of PulseIndex: five rotates
PulseIndexShort(w, c) ==
  ClearAbove(Rrc(Rrc(Rrc(Rrc(Rrc(<<w, c>>)))))[1], 256)

\* Pulse_w_calculate: six rotates, bic #0xff00.  The address is then
\* 0x6800 + 2 * index (rlc, bic #1, add #0x6800).
PulseIndex(w, c) ==
  ClearAbove(Rrc(Rrc(Rrc(Rrc(Rrc(Rrc(<<w, c>>))))))[1], 256)

\* What the chain is for: bits 13 .. 6 of the difference.
PulseIndexRef(w) == (w \div 64) % 256

\* measure_verify of the fine stage: four readings are added into r9, which
\* is rotated twice and cleared above bit 13.  The wait and the loop counter
\* between the last add and the rotate leave a carry that is not the sum's.
Average4(a, b, c, d, carry) ==
  LET sum == Add(Add(Add(a, b), c), d)
  IN  ClearAbove(Rrc(Rrc(<<sum, carry>>))[1], 16384)

Average4Ref(a, b, c, d) == (a + b + c + d) \div 4

\* Vd_calculate: shiftA and shiftB are 2^A and 2^B, since every rotate of
\* that loop is followed by bic #0x8000; sa is the Add or Subtraction flag.
ClipAtZero(w) == IF Negative(w) THEN 0 ELSE w

VdIndex(target, diff, oneNA, shiftA, shiftB, offset, sa) ==
  LET start == ClipAtZero(Sub(Sub(target, diff), oneNA)) \div shiftA
      step  == Add(diff \div shiftB, offset)
  IN  ClipAtZero(IF sa = 0 THEN Sub(step, start) ELSE Add(step, start))

\* What it is for, over the integers, from the reading itself.
StepsAbove(reading, oneNA, shiftA) ==
  IF reading < oneNA THEN 0 ELSE (reading - oneNA) \div shiftA

NotBelowZero(n) == IF n < 0 THEN 0 ELSE n

VdIndexRef(target, reading, oneNA, shiftA, shiftB, offset, sa) ==
  NotBelowZero(
    (target - reading) \div shiftB + offset
      + IF sa = 0 THEN -StepsAbove(reading, oneNA, shiftA)
                  ELSE StepsAbove(reading, oneNA, shiftA))
=============================================================================
