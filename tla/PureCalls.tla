------------------------------- MODULE PureCalls -------------------------------
(***************************************************************************)
(* The functions of the repository that keep no state: one call of a       *)
(* puzzle of datalab_code/bits.c or of the shell's parseline, whose result *)
(* is compared with a definition of what its comment describes.            *)
(***************************************************************************)
EXTENDS Bits, CommandLine

CONSTANTS Words,        \* arguments for the integer puzzles
          Few,          \* words for those of three arguments
          Floats,       \* representations of floats
          Exponents,    \* arguments for floatPower2, as integers
          Lines         \* command lines

VARIABLE call           \* the call made, with its result

NoCall == [fn |-> "none", args |-> <<>>, result |-> Zero]

Init == call = NoCall

Calls(fn, args, result) == call' = [fn |-> fn, args |-> args, result |-> result]

OneWord(x) ==
  \/ \E wraps \in BOOLEAN : Calls("isTmax", <<x, wraps>>, isTmax(x, wraps))
  \/ Calls("allOddBits", <<x>>, allOddBits(x))
  \/ Calls("negate", <<x>>, negate(x))
  \/ Calls("isAsciiDigit", <<x>>, isAsciiDigit(x))
  \/ Calls("logicalNeg", <<x>>, logicalNeg(x))
  \/ Calls("howManyBits", <<x>>, howManyBits(x))

TwoWords(x, y) ==
  \/ Calls("bitXor", <<x, y>>, bitXor(x, y))
  \/ Calls("isLessOrEqual", <<x, y>>, isLessOrEqual(x, y))

OneFloat(uf) ==
  \/ Calls("floatScale2", <<uf>>, floatScale2(uf))
  \/ Calls("floatFloat2Int", <<uf>>, floatFloat2Int(uf))

Next ==
  /\ call = NoCall
  /\ \/ Calls("tmin", <<>>, tmin)
     \/ \E x \in Words : OneWord(x)
     \/ \E x, y \in Words : TwoWords(x, y)
     \/ \E x, y, z \in Few : Calls("conditional", <<x, y, z>>, conditional(x, y, z))
     \/ \E uf \in Floats : OneFloat(uf)
     \/ \E n \in Exponents : Calls("floatPower2", <<n>>, floatPower2(WordOf(n)))
     \/ \E line \in Lines : Calls("parseline", <<line>>, parseline(line))

Spec == Init /\ [][Next]_call

-------------------------------------------------------------------------------
(* Properties.                                                             *)

Truth(b) == IF b THEN One ELSE Zero

\* The result of a call of fn, by what it should be for the arguments.
Result(fn, Meant(_, _)) == call.fn = fn => Meant(call.args, call.result)

\* The comment above each integer puzzle of bits.c says what it returns; so it
\* does on every boundary word, whether or not ~x + 1 or y - x overflow on the
\* way; isTmax does in the builds in which x + x + 1 wraps.
IntegersAsDescribed ==
  /\ Result("bitXor", LAMBDA a, r :
       \A i \in Positions : i \in r <=> (i \in a[1]) # (i \in a[2]))
  /\ Result("tmin", LAMBDA a, r : Int32(r) = -(2^30) - 2^30)
  /\ Result("isTmax", LAMBDA a, r : r = Truth(a[2] /\ Int32(a[1]) = 2147483647))
  /\ Result("allOddBits", LAMBDA a, r : r = Truth(\A i \in 0..15 : 2 * i + 1 \in a[1]))
  /\ Result("negate", LAMBDA a, r :
       IF a[1] = tmin THEN r = tmin ELSE Int32(r) = -Int32(a[1]))
  /\ Result("isAsciiDigit", LAMBDA a, r : r = Truth(Int32(a[1]) \in 48..57))
  /\ Result("conditional", LAMBDA a, r : r = IF a[1] # Zero THEN a[2] ELSE a[3])
  /\ Result("isLessOrEqual", LAMBDA a, r : r = Truth(Int32(a[1]) <= Int32(a[2])))
  /\ Result("logicalNeg", LAMBDA a, r : r = Truth(a[1] = Zero))
  /\ Result("howManyBits", LAMBDA a, r :
       r = Min({n \in 1..32 : n - 1..31 \subseteq a[1] \/ n - 1..31 \cap a[1] = {}}))

\* A finite float is, but for its sign, a sum of powers of two: the exponents
\* of these.
Field(uf)  == Int32(Shr(uf \cap 23..30, 23))
Powers(uf) == LET e == IF Field(uf) = 0 THEN -149 ELSE Field(uf) - 150
              IN  {i + e : i \in (uf \cap 0..22) \cup (IF Field(uf) = 0 THEN {} ELSE {23})}
SameSign(uf, r) == 31 \in uf <=> 31 \in r

\* Is r the float 2*f, for the float f that uf represents?  NaN and infinity are
\* returned as they are; what exceeds the largest finite float is infinity.
Doubled(uf, r) ==
  CASE Field(uf) = 255 -> r = uf
    [] Field(uf) = 254 -> r = (uf \cap {31}) \cup 23..30
    [] OTHER -> SameSign(uf, r) /\ Field(r) # 255 /\ Powers(r) = {p + 1 : p \in Powers(uf)}

\* Is r the float 2.0^x?  The smallest one, a denormalised one, is 2^-149.
PowerOf2(x, r) ==
  CASE x > 127         -> r = 23..30
    [] x \in -149..127 -> 31 \notin r /\ Field(r) # 255 /\ Powers(r) = {x}
    [] OTHER           -> r = Zero

\* Is r the int that uf's float is, without its fraction?
Truncated(uf, r) ==
  IF Field(uf) = 255 \/ \E p \in Powers(uf) : p >= 31
  THEN r = tmin
  ELSE Int32(r) = (IF 31 \in uf THEN -1 ELSE 1)
                    * MapThenSumSet(LAMBDA p : 2^p, {p \in Powers(uf) : p >= 0})

\* bits.c:354-360: truncation is right over the whole range.  bits.c:320 and 393:
\* doubling is where the result is finite or the argument already is not, also
\* from the denormalised floats into the others, and so is 2^x where it is not
\* a denormalised float.  FloatsAsDescribed is about the rest.
FloatsOtherwiseAsDescribed ==
  /\ Result("floatFloat2Int", LAMBDA a, r : Truncated(a[1], r))
  /\ Result("floatScale2", LAMBDA a, r : Field(a[1]) # 254 => Doubled(a[1], r))
  /\ Result("floatPower2", LAMBDA a, r : a[1] \notin -149..-127 => PowerOf2(a[1], r))

\* tsh.c:226: quoted characters are one argument, and the last one tells
\* whether the job is for the background.  Blanks, quotes and & in any
\* arrangement, also unbalanced ones, give the arguments of the line in order.
ArgumentsAsTyped == Result("parseline", LAMBDA a, r : r = Typed(a[1]))

-------------------------------------------------------------------------------
(* What the comments say and the code does not do.                         *)

\* bits.c:320: floatScale2 returns the bit-level equivalent of 2*f.
\* bits.c:393-399: floatPower2 returns the representation of 2.0^x, and 0 only if
\* that is too small to be represented as a denorm.
FloatsAsDescribed ==
  /\ Result("floatScale2", LAMBDA a, r : Doubled(a[1], r))
  /\ Result("floatPower2", LAMBDA a, r : PowerOf2(a[1], r))
===============================================================================
