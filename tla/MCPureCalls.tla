----------------------------- MODULE MCPureCalls -----------------------------
(* Words around every power of two and their complements, the alternating   *)
(* ones, and those around the digits with and without a bit above; floats   *)
(* of both signs with every exponent and fractions at both ends; every      *)
(* command line of up to six characters before the newline.                 *)
EXTENDS PureCalls

Powers2 == {{k} : k \in Positions} \cup {0..k : k \in Positions}
Odd     == {i \in Positions : i % 2 = 1}
Digits  == {WordOf(n) : n \in 40..70}

MCWords == UNION {{w, Not(w)} : w \in Powers2} \cup {Odd, Not(Odd), Odd \cup {0}, Odd \ {17}}
             \cup Digits \cup {w \cup {8} : w \in Digits} \cup {w \cup {31} : w \in Digits}
MCFew   == {{}, {0}, {31}, 0..31, Odd, {5, 7}, 0..30}

Fractions == {{}, {0}, {22}, 0..22, {0, 22}, {7, 8}}
MCFloats  == {s \cup Shl(WordOf(e), 23) \cup f : s \in {{}, {31}}, e \in 0..255, f \in Fractions}

MCExponents == (-151..130) \cup {-2147483647 - 1, -1000, 255, 256, 1000, 2147483647}

MCLines == {Append(text, "n") : text \in UNION {[1..n -> {Blank, Quote, "&", "x"}] : n \in 0..6}}
===============================================================================
