----------------------------- MODULE MCConnQueue -----------------------------
(* A ring of two, two service threads and four descriptors: the ring     *)
(* fills, wraps and empties, the main thread blocks on a slot while        *)
(* threads block on an item, and three threads race for two items.         *)
EXTENDS ConnQueue
CONSTANTS t1, t2
MCThreads == {t1, t2}
MCFds     == 3..6
===============================================================================
