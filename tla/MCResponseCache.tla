--------------------------- MODULE MCResponseCache ---------------------------
(* Two threads and two requests whose keys fall in one chain, the second a *)
(* continuation of the first.  MAX_CACHE_SIZE is two and the responses     *)
(* have lengths 1, 2 and 3, of which 3 is too long to cache, so an insert  *)
(* evicts none, one or two objects.  Four addresses: two cached objects of *)
(* length one and one being inserted by each thread, so malloc never fails *)
(* in the bounds.  Threads and addresses are interchangeable.              *)
EXTENDS ResponseCache, TLC
CONSTANTS t1, t2, m1, m2, m3, m4
MCThreads == {t1, t2}
MCKeys    == {"a", "ab"}
MCBucket  == [k \in MCKeys |-> 0]
MCLonger  == [k \in MCKeys |-> IF k = "a" THEN {"ab"} ELSE {}]
MCLens    == 1..3
MCMetas   == {m1, m2, m3, m4}
MCSymmetry == Permutations(MCThreads) \cup Permutations(MCMetas)
===============================================================================
