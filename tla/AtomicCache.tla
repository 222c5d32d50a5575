----------------------------- MODULE AtomicCache -----------------------------
(***************************************************************************)
(* What the proxy's response cache (proxylab_code/cache.c) promises,       *)
(* without its semaphores, its hash index and its threads: a list of       *)
(* responses ordered by their last use, in which looking a response up,    *)
(* making room and inserting are atomic.  A response is dropped only to    *)
(* make room for another; which one is left open.                          *)
(***************************************************************************)
EXTENDS Naturals, Sequences, SequencesExt, FiniteSetsExt

CONSTANTS Responses,    \* what may be cached: records with a length len
          MaxCache,     \* MAX_CACHE_SIZE
          MaxObject     \* MAX_OBJECT_SIZE

VARIABLE order          \* the cached responses, most recently used first

Total == MapThenSumSet(LAMBDA i : order[i].len, DOMAIN order)

Init == order = <<>>

Use(i) == order' = <<order[i]>> \o RemoveAt(order, i)

Evict(i) == /\ Total + MaxObject > MaxCache
            /\ order' = RemoveAt(order, i)

Insert(r) == /\ r.len <= MaxObject /\ Total + r.len <= MaxCache
             /\ order' = <<r>> \o order

Next == \/ \E i \in DOMAIN order : Use(i) \/ Evict(i)
        \/ \E r \in Responses : Insert(r)

Spec == Init /\ [][Next]_order
===============================================================================
