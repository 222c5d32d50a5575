--------------------------------- MODULE Bits ---------------------------------
(***************************************************************************)
(* The bit puzzles (datalab_code/bits.c).  A 32-bit word is the set of the *)
(* positions of its 1 bits, so that & | ^ ~ are operations on sets; an int *)
(* and an unsigned are the same word, which >> shifts in two ways.  +      *)
(* drops the carry out of bit 31.  For int that is undefined in C; of the  *)
(* functions here only isTmax has a result a build may choose.             *)
(***************************************************************************)
EXTENDS Integers, FiniteSetsExt

Positions == 0..31
Word      == SUBSET Positions

\* The operators of C.
Not(x)    == Positions \ x
Xor(x, y) == (x \ y) \cup (y \ x)
Shl(x, n) == {i + n : i \in {j \in x : j + n <= 31}}
Shr(x, n) == {i - n : i \in {j \in x : j >= n}}                       \* unsigned
Sar(x, n) == Shr(x, n) \cup (IF 31 \in x THEN 32 - n..31 ELSE {})     \* int

\* A carry into bit i comes from a bit where both words are 1, through bits
\* where at least one is.
Carry(x, y, i) == \E g \in x \cap y : g < i /\ g + 1..i - 1 \subseteq x \cup y
Add(x, y)      == {i \in Positions : (i \in Xor(x, y)) # Carry(x, y, i)}

Zero    == {}
One     == {0}
LNot(x) == IF x = Zero THEN One ELSE Zero

\* The int a word is, and the word of an int (which TLC's integers just hold).
Low(x)    == MapThenSumSet(LAMBDA i : 2^i, x \ {31})
Int32(x)  == IF 31 \in x THEN (Low(x) - 2^30) - 2^30 ELSE Low(x)
WordOf(n) == LET low == IF n < 0 THEN (n + 2^30) + 2^30 ELSE n
             IN {i \in 0..30 : (low \div 2^i) % 2 = 1} \cup (IF n < 0 THEN {31} ELSE {})

-------------------------------------------------------------------------------
(* The integer puzzles.                                                    *)

bitXor(x, y) ==
  LET oneBits  == x \cap y
      zeroBits == Not(x) \cap Not(y)
  IN  Not(oneBits) \cap Not(zeroBits)

tmin == Shl(One, 31)

\* x + x + 1 overflows for the largest int.  A build that counts on no overflow
\* may conclude that the sum is ~0 only for the x excluded (gcc -O1 does).
isTmax(x, wraps) == IF x = Not(Zero) \/ ~wraps THEN Zero
                    ELSE LNot(Xor(Add(Add(x, x), One), Not(Zero)))

allOddBits(x) ==
  LET byte    == {1, 3, 5, 7}
      maskInt == byte \cup Shl(byte, 8) \cup Shl(byte, 16) \cup Shl(byte, 24)
  IN  LNot(Xor(maskInt, maskInt \cap x))

negate(x) == Add(Not(x), One)

isAsciiDigit(x) ==
  LET flag3 == Xor({0, 1}, Sar(x, 4))
      flagA == LNot(Xor({1, 3} \cap x, {1, 3}))
      flagC == LNot(Xor({2, 3} \cap x, {2, 3}))
  IN  LNot(flag3 \cup flagA \cup flagC)

conditional(x, y, z) ==
  LET boolean   == LNot(LNot(x))
      maskFalse == Add(Not(Zero), boolean)
      maskTrue  == Add(Not(Zero), LNot(boolean))
  IN  Add(maskTrue \cap y, maskFalse \cap z)

IsNeg(x) == Sar(x, 31) \cap One

\* A fault: the sign of the difference alone decides.
isLessOrEqualBySign(x, y) == LNot(IsNeg(Add(y, Add(Not(x), One))))

\* The difference overflows only when the signs differ, and then is not used.
isLessOrEqual(x, y) ==
  LET mustBeLess  == IsNeg(x) \cap LNot(IsNeg(y))
      mustBeMore  == LNot(IsNeg(x)) \cap IsNeg(y)
      lessOrEqual == LNot(IsNeg(Add(y, Add(Not(x), One))))
  IN  mustBeLess \cup (LNot(mustBeMore) \cap lessOrEqual)

logicalNeg(x) == Xor(IsNeg(x) \cup IsNeg(Add(Not(x), One)), One)

\* howManyBits halves the part that can hold the highest 1 bit.  state is the
\* word shifted so far and by how much.
Halve(state, n) == IF Sar(state.x, n) # Zero
                   THEN [x |-> Sar(state.x, n), cnt |-> state.cnt + n] ELSE state

howManyBits(x) ==
  LET ls31  == Sar(x, 31)
      start == [x |-> (ls31 \cap Not(x)) \cup (Not(ls31) \cap x), cnt |-> 0]
      end   == Halve(Halve(Halve(Halve(Halve(start, 16), 8), 4), 2), 1)
  IN  end.cnt + Int32(end.x) + 1

-------------------------------------------------------------------------------
(* The puzzles on the representation of a float.                           *)

expmask == 23..30
mmask   == 0..22

floatScale2(uf) ==
  LET exp == Shl(uf \cap expmask, 1)
  IN  CASE uf \in {Zero, {31}}                 -> uf
        [] uf \notin {Zero, {31}} /\ exp = 24..31 -> uf
        [] uf \notin {Zero, {31}} /\ exp \notin {Zero, 24..31} ->
             (uf \cap Not(expmask)) \cup Shr(Add(exp, {24}), 1)
        [] OTHER -> (uf \cap Not(mmask)) \cup Shl(uf \cap mmask, 1)

\* A fault: 2^31 is taken to be in range.
floatFloat2IntWide(uf) ==
  LET field == Int32(Shr(uf \cap expmask, 23))
      m     == (uf \cap mmask) \cup (IF field = 0 THEN Zero ELSE {23})
      exp   == field - 150
      val   == CASE exp >= 9          -> {31}
                 [] exp \in 0..8      -> Shl(m, exp)
                 [] exp \in -23..-1   -> Shr(m, -exp)
                 [] OTHER             -> Zero
  IN  IF field = 255 THEN {31} ELSE IF 31 \in uf THEN negate(val) ELSE val

floatFloat2Int(uf) ==
  LET field == Int32(Shr(uf \cap expmask, 23))
      m     == (uf \cap mmask) \cup (IF field = 0 THEN Zero ELSE {23})
      exp   == field - 150
      val   == CASE exp >= 8          -> {31}
                 [] exp \in 0..7      -> Shl(m, exp)
                 [] exp \in -23..-1   -> Shr(m, -exp)
                 [] OTHER             -> Zero
  IN  IF field = 255 THEN {31} ELSE IF 31 \in uf THEN negate(val) ELSE val

floatPower2(x) ==
  LET n   == Int32(x)
      exp == IF n > 127 THEN 255 ELSE IF n < -126 THEN 0 ELSE n + 127
  IN  Shl(WordOf(exp), 23)
===============================================================================
