------------------------------- MODULE CacheSim -------------------------------
(***************************************************************************)
(* csim, the cache simulator of cachelab_code: opparser.c splits the       *)
(* address of a trace line, simulator.c plays the access on the lines of   *)
(* cache.c and counts hits, misses and evictions.                          *)
(*                                                                         *)
(* A step is one line of the trace: main calls operate once for it and     *)
(* nothing runs in between.  accessCache, loadToCache and evictCache are   *)
(* functions from simulator to simulator, which operate composes in the    *)
(* order it calls them.  The bytes of the blocks and of the register are   *)
(* left out: nothing the program prints depends on them.                   *)
(***************************************************************************)
EXTENDS Integers, FiniteSets

CONSTANTS SetCnt, LineCnt, BlockCnt,    \* sets, lines of a set, bytes of a block
          Addresses,                    \* the addresses of the trace
          MaxOrder                      \* bound on accessOrder, a QWORD

ASSUME SizesAssumption     == SetCnt \in Nat \ {0} /\ LineCnt \in Nat \ {0}
                              /\ BlockCnt \in Nat \ {0}
\* parseOp masks with ints: while a block of every set is at most 2^31 bytes
\* together, its masks are the div and % below.
ASSUME MasksAssumption     == \E s, b \in 0..30 : /\ s + b <= 31
                                                 /\ SetCnt = 2^s /\ BlockCnt = 2^b
ASSUME AddressesAssumption == Addresses \subseteq Nat
ASSUME MaxOrderAssumption  == MaxOrder \in Nat

VARIABLES address,      \* of the last line played
          optype,       \* and its operation
          cacheSet,     \* the lines of every set
          accessOrder,  \* the clock of the simulator
          lastState,    \* what the last access, load or eviction did
          stateCnt      \* how often operate saw each state

vars == <<address, optype, cacheSet, accessOrder, lastState, stateCnt>>

Sets    == 0..SetCnt - 1
Lines   == 0..LineCnt - 1
States  == {"COLD_MISS", "CONFLICT_MISS", "HIT", "EVICTION", "WARMED_UP"}
Counted == States \ {"WARMED_UP"}

NoAddress == -1         \* nothing has been played
NoOp      == "none"
OpTypes   == {"LOAD", "STORE", "MODIFY"}

EmptyLine == [isValid |-> FALSE, tag |-> 0, accessOrder |-> 0]

-------------------------------------------------------------------------------
(* parseOp: the parts of an address.                                       *)

SetIndex(a) == (a \div BlockCnt) % SetCnt
Tag(a)      == a - (a % (SetCnt * BlockCnt))

-------------------------------------------------------------------------------
(* accessCache, loadToCache and evictCache on a simulator m and its lines. *)

Simulator == [lines |-> cacheSet, order |-> accessOrder,
              last |-> lastState, cnt |-> stateCnt]

Matching(set, tag) == {i \in Lines : set[i].isValid /\ set[i].tag = tag}
Invalid(set)       == {i \in Lines : ~set[i].isValid}

\* The line a miss will use: the last invalid one, or else the first of those
\* used longest ago.
LineForUse(set) ==
  IF Invalid(set) # {}
  THEN CHOOSE i \in Invalid(set) : \A k \in Invalid(set) : k <= i
  ELSE CHOOSE i \in Lines :
         /\ \A k \in Lines : set[i].accessOrder <= set[k].accessOrder
         /\ \A k \in 0..i - 1 : set[k].accessOrder > set[i].accessOrder

\* A fault: the access does not advance the clock.
AccessWithoutTick(m, s, tag) ==
  [m EXCEPT !.last  = CASE Matching(m.lines[s], tag) # {} -> "HIT"
                        [] Matching(m.lines[s], tag) = {} /\ Invalid(m.lines[s]) # {} -> "COLD_MISS"
                        [] OTHER -> "CONFLICT_MISS",
            !.lines[s] = [i \in Lines |->
                            [@[i] EXCEPT !.accessOrder =
                               IF i \in Matching(m.lines[s], tag) THEN m.order + 1 ELSE @]]]

\* The scan stops at the first line that matches.
FirstMatching(set, tag) ==
  CHOOSE i \in Matching(set, tag) : \A k \in Matching(set, tag) : i <= k

UsedAt(lines, s, i, order) == [lines EXCEPT ![s][i].accessOrder = order]

AccessCache(m, s, tag) ==
  IF Matching(m.lines[s], tag) # {}
  THEN [lines |-> UsedAt(m.lines, s, FirstMatching(m.lines[s], tag), m.order + 1),
        order |-> m.order + 1, last |-> "HIT", cnt |-> m.cnt]
  ELSE [lines |-> m.lines, order |-> m.order + 1,
        last  |-> IF Invalid(m.lines[s]) # {} THEN "COLD_MISS" ELSE "CONFLICT_MISS",
        cnt   |-> m.cnt]

LoadToCache(m, s, tag, i) ==
  [lines |-> [m.lines EXCEPT ![s][i] = [isValid |-> TRUE, tag |-> tag,
                                        accessOrder |-> m.order + 1]],
   order |-> m.order + 1, last |-> "WARMED_UP", cnt |-> m.cnt]

EvictCache(m, s, i) ==
  [lines |-> [m.lines EXCEPT ![s][i].isValid = FALSE],
   order |-> m.order, last |-> "EVICTION", cnt |-> m.cnt]

Count(m) == [lines |-> m.lines, order |-> m.order, last |-> m.last,
             cnt |-> [m.cnt EXCEPT ![m.last] = @ + 1]]

-------------------------------------------------------------------------------
(* operate.                                                                *)

\* A fault: the access that follows a load is counted.
AllocateCounted(m, s, tag) ==
  LET i     == LineForUse(m.lines[s])
      freed == IF m.last = "CONFLICT_MISS" THEN Count(EvictCache(m, s, i)) ELSE m
  IN  IF m.last = "HIT" THEN m
      ELSE Count(AccessCache(LoadToCache(freed, s, tag, i), s, tag))

\* What follows the first access: a miss frees a line if none is free, loads
\* the block into it and accesses it again, uncounted.
Allocate(m, s, tag) ==
  LET i     == LineForUse(m.lines[s])
      freed == IF m.last = "CONFLICT_MISS" THEN Count(EvictCache(m, s, i)) ELSE m
  IN  IF m.last = "HIT" THEN m
      ELSE AccessCache(LoadToCache(freed, s, tag, i), s, tag)

Accessed(s, tag) == Allocate(Count(AccessCache(Simulator, s, tag)), s, tag)

Becomes(m) == /\ cacheSet' = m.lines /\ accessOrder' = m.order
              /\ lastState' = m.last /\ stateCnt' = m.cnt

\* A LOAD and a STORE differ only in the bytes they move.
LoadOrStore(o, a) == /\ address' = a /\ optype' = o
                     /\ Becomes(Accessed(SetIndex(a), Tag(a)))

\* A MODIFY reads and then writes the line, and counts both accesses.
Modify(a) ==
  LET s   == SetIndex(a)
      tag == Tag(a)
  IN  /\ address' = a /\ optype' = "MODIFY"
      /\ Becomes(Count(AccessCache(Accessed(s, tag), s, tag)))

\* No operation makes more than four accesses and loads.
InBounds == accessOrder + 4 <= MaxOrder

Init == /\ address = NoAddress /\ optype = NoOp
        /\ cacheSet = [s \in Sets |-> [i \in Lines |-> EmptyLine]]
        /\ accessOrder = 0
        /\ lastState = "COLD_MISS"
        /\ stateCnt = [c \in Counted |-> 0]

\* INSTRUCT lines and lines that do not parse are not played.
Next == /\ InBounds
        /\ \E a \in Addresses : (\E o \in {"LOAD", "STORE"} : LoadOrStore(o, a)) \/ Modify(a)

Spec == Init /\ [][Next]_vars

-------------------------------------------------------------------------------
(* Properties.                                                             *)

\* No line was used later than the clock says.
LineType == [isValid     : BOOLEAN,
             tag         : {0} \cup {Tag(a) : a \in Addresses},
             accessOrder : 0..accessOrder]

TypeOK == /\ address \in Addresses \cup {NoAddress} /\ optype \in OpTypes \cup {NoOp}
          /\ cacheSet \in [Sets -> [Lines -> LineType]]
          /\ accessOrder \in Nat
          /\ lastState \in States
          /\ stateCnt \in [Counted -> Nat]

-------------------------------------------------------------------------------
(* The simulator implements LruCache.                                      *)

\* The line of set s that n - 1 lines of it were used after.
Nth(s, n) == CHOOSE i \in Lines :
               /\ cacheSet[s][i].isValid
               /\ n = Cardinality({k \in Lines :
                        /\ cacheSet[s][k].isValid
                        /\ cacheSet[s][k].accessOrder >= cacheSet[s][i].accessOrder})

\* The number of the block in line i of set s.
BlockIn(s, i) == (cacheSet[s][i].tag \div BlockCnt) + s

Recency == [s \in Sets |->
              [n \in 1..Cardinality({i \in Lines : cacheSet[s][i].isValid}) |->
                 BlockIn(s, Nth(s, n))]]

Lru == INSTANCE LruCache
         WITH Blocks    <- {a \div BlockCnt : a \in Addresses},
              Ways      <- LineCnt,
              used      <- IF address = NoAddress THEN -1 ELSE address \div BlockCnt,
              op        <- optype,
              recency   <- Recency,
              hits      <- stateCnt["HIT"],
              misses    <- stateCnt["COLD_MISS"] + stateCnt["CONFLICT_MISS"],
              evictions <- stateCnt["EVICTION"]

\* Every line played is a use of its block by its operation, and none goes
\* uncounted: what csim prints is what an LRU cache of that geometry does with
\* that trace (simulator.c).
LruSpec == Lru!Spec /\ [][Lru!Next]_vars
===============================================================================
