----------------------------- MODULE CommandLine -----------------------------
(***************************************************************************)
(* What the shell makes of a command line (parseline in shlab_code/tsh.c). *)
(* A line is a sequence of characters; of those the code tells apart only  *)
(* blanks, quotes, & and the newline at the end, the others are letters.   *)
(***************************************************************************)
EXTENDS Integers, Sequences, SequencesExt

Blank == " "
Quote == "'"

\* A position of buf, and the one behind its last character, its NUL.
Span(buf, p) == p..Len(buf)
End(buf)     == Len(buf) + 1

\* strchr: the first c in buf from position p on, or NULL, written 0.
StrChr(buf, p, c) ==
  LET at == {i \in Span(buf, p) : buf[i] = c}
  IN  IF at = {} THEN 0 ELSE CHOOSE i \in at : \A j \in at : i <= j

SkipBlanks(buf, p) ==
  LET at == {i \in Span(buf, p) : buf[i] # Blank}
  IN  IF at = {} THEN End(buf) ELSE CHOOSE i \in at : \A j \in at : i <= j

\* A fault: blanks between arguments are not skipped.
ArgHere(buf, p) ==
  LET quoted == p \in DOMAIN buf /\ buf[p] = Quote
      start  == IF quoted THEN p + 1 ELSE p
  IN  [start |-> start, delim |-> StrChr(buf, start, IF quoted THEN Quote ELSE Blank)]

\* The argument that begins at or after position p: where its text starts, and
\* the delimiter that ends it.
ArgAt(buf, p) ==
  LET q      == SkipBlanks(buf, p)
      quoted == q \in DOMAIN buf /\ buf[q] = Quote
      start  == IF quoted THEN q + 1 ELSE q
  IN  [start |-> start, delim |-> StrChr(buf, start, IF quoted THEN Quote ELSE Blank)]

\* The loop that builds argv, from each position of buf.
ArgsFrom(buf) ==
  LET args[p \in 1..End(buf) + 1] ==
        LET a == ArgAt(buf, p)
        IN  IF p > End(buf) \/ a.delim = 0 THEN <<>>
            ELSE <<SubSeq(buf, a.start, a.delim - 1)>> \o args[a.delim + 1]
  IN  args[1]

\* The last character, which should be the newline, is overwritten by a blank.
\* A blank line asks for the background.
parseline(cmdline) ==
  LET argv == ArgsFrom(Append(Front(cmdline), Blank))
      bg   == argv # <<>> /\ Last(argv) # <<>> /\ Head(Last(argv)) = "&"
  IN  [argv |-> IF bg THEN Front(argv) ELSE argv, bg |-> bg \/ argv = <<>>]

-------------------------------------------------------------------------------
(* What a line means.                                                      *)

\* The arguments of a line, reading it once from left to right: an argument
\* runs from its first character to the next blank, or from a quote to the
\* next quote, and what is not ended is none.
Read(s, c) ==
  CASE s.in = "gap"   /\ c = Blank -> s
    [] s.in = "gap"   /\ c = Quote -> [s EXCEPT !.in = "quote"]
    [] s.in = "gap"   /\ c \notin {Blank, Quote} -> [s EXCEPT !.in = "word", !.arg = <<c>>]
    [] s.in # "gap"   /\ c = (IF s.in = "quote" THEN Quote ELSE Blank) ->
         [in |-> "gap", arg |-> <<>>, args |-> Append(s.args, s.arg)]
    [] OTHER -> [s EXCEPT !.arg = Append(@, c)]

Arguments(line) ==
  LET buf == Append(Front(line), Blank)
      read[i \in 0..Len(buf)] == IF i = 0 THEN [in |-> "gap", arg |-> <<>>, args |-> <<>>]
                                 ELSE Read(read[i - 1], buf[i])
  IN  read[Len(buf)].args

\* The last argument asks for the background if it begins with &; so does a
\* line without arguments.
Typed(line) ==
  LET args == Arguments(line)
      amp  == args # <<>> /\ Last(args) # <<>> /\ Last(args)[1] = "&"
  IN  [argv |-> IF amp THEN Front(args) ELSE args, bg |-> amp \/ args = <<>>]
===============================================================================
