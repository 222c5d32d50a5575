------------------------------- MODULE LruCache -------------------------------
(***************************************************************************)
(* What a cache simulator reports: a set-associative cache with least      *)
(* recently used replacement that allocates on every miss, reduced to the  *)
(* blocks each set holds, most recently used first, and the three numbers  *)
(* csim prints.  It has no lines, tags, clocks or kinds of miss.  A LOAD   *)
(* and a STORE are one access to a block, a MODIFY is two: it reads the    *)
(* block and then writes it, and the write always hits.                    *)
(***************************************************************************)
EXTENDS Integers, SequencesExt

CONSTANTS Blocks,       \* the numbers of the memory blocks
          SetCnt, Ways  \* the sets, and the blocks a set can hold

VARIABLES used, op,     \* the last block and operation, -1 and "none" at first
          recency, hits, misses, evictions

lruVars == <<used, op, recency, hits, misses, evictions>>

SetOf(b) == b % SetCnt
Held(b)  == \E i \in 1..Len(recency[SetOf(b)]) : recency[SetOf(b)][i] = b
Full(b)  == Len(recency[SetOf(b)]) = Ways

\* The use of b moves it to the front; a full set loses its last block.
AfterUse(b) ==
  LET front == <<b>> \o RemoveFirst(recency[SetOf(b)], b)
  IN  IF Len(front) > Ways THEN SubSeq(front, 1, Ways) ELSE front

Init == /\ used = -1 /\ op = "none"
        /\ recency = [s \in 0..SetCnt - 1 |-> <<>>]
        /\ hits = 0 /\ misses = 0 /\ evictions = 0

\* A MODIFY hits once more than a LOAD or a STORE; whatever a miss makes the
\* cache do for itself is no hit.
Use(o, b) ==
  /\ used' = b /\ op' = o
  /\ recency' = [recency EXCEPT ![SetOf(b)] = AfterUse(b)]
  /\ hits' = hits + (IF Held(b) THEN 1 ELSE 0) + (IF o = "MODIFY" THEN 1 ELSE 0)
  /\ misses' = misses + (IF Held(b) THEN 0 ELSE 1)
  /\ evictions' = evictions + (IF ~Held(b) /\ Full(b) THEN 1 ELSE 0)

Next == \E o \in {"LOAD", "STORE", "MODIFY"}, b \in Blocks : Use(o, b)

Spec == Init /\ [][Next]_lruVars
===============================================================================
