------------------------- MODULE ResponseCacheProofs -------------------------
(***************************************************************************)
(* Proofs about ResponseCache, for every number of threads, every set of   *)
(* requests and hash function, and every size of cache and object.         *)
(***************************************************************************)
EXTENDS ResponseCache, LibraryLemmas

-------------------------------------------------------------------------------
(* The inductive invariant, in two parts.                                  *)

\* The semaphores.  LocksHeld alone is not inductive: the reader that enters
\* next to others must know that none of them still waits for index_lock,
\* which is so because that one would hold mutex.
Count(L) == Cardinality(At(L))

InM == Count(InMutex)
InQ == Count(InQueue)
Cnt == Count(Counted)
Rdg == Count(Reading)
Wrt == Count(Writing)
Fst == Count({"first_in"})      \* still waiting for index_lock, with mutex
NoQ == Count(Reading \ InQueue)
NoF == Count(InMutex \ {"first_in"})

LocksInv ==
  /\ pc \in [Threads -> Labels]
  /\ mutex \in 0..1 /\ index_lock \in 0..1 /\ queue_lock \in 0..1 /\ reader_cnt \in Nat
  /\ InM = 1 - mutex /\ InQ = 1 - queue_lock /\ reader_cnt = Cnt
  /\ index_lock = 1 <=> Rdg + Wrt = 0
  /\ Wrt <= 1 /\ (Wrt > 0 => Rdg = 0) /\ (Fst > 0 => Rdg = 0)
  /\ Cnt = Rdg + Fst /\ Rdg = InQ + NoQ /\ InM = Fst + NoF

\* The store and the threads' locals.  An object belongs to the thread that
\* packed it until it is indexed; what a reader has found stays in its chain.
Owning == {"lock_index", "room", "index"}
Found  == {"lock_queue", "unlink", "relink", "unlock_queue", "copy"}

LocalInv(t) ==
  /\ pc[t] # "idle" => key[t] \in Keys
  /\ got[t] # NoKey => /\ pc[t] \in {"leave", "count_out", "left"}
                       /\ key[t] \in {got[t]} \cup Longer[got[t]]
  /\ pc[t] = "scan" => now[t] = NoMeta \/ now[t] \in ToSet(hashTable[Bucket[key[t]]])
  /\ pc[t] \in Found =>
       now[t] \in ToSet(hashTable[Bucket[key[t]]]) /\ meta[now[t]].reads = key[t]
  /\ pc[t] \in Owning => now[t] \notin Cached
  /\ pc[t] = "resize" => now[t] \in Cached
  /\ pc[t] \in Owning \cup {"resize"} =>
       meta[now[t]].key = key[t] /\ meta[now[t]].len = len[t]
  /\ pc[t] \in Owning \cup {"resize", "unlock_index"} => now[t] \in Live
  /\ pc[t] \in Owning \cup {"pack", "resize"} => len[t] \in Lens /\ len[t] <= MaxObject
  /\ pc[t] \in {"index", "resize"} => currentSize + len[t] <= MaxCache

OwnersApart == \A t, u \in Threads :
                 pc[t] \in Owning /\ pc[u] \in Owning /\ now[t] = now[u] => t = u

ObjectsInv == \A m \in Live : /\ meta[m].body = meta[m].key
                              /\ meta[m].reads \in {meta[m].key, NoKey} \cup Longer[meta[m].key]

ChainsInv == \A b \in Range(Bucket) :
               /\ IsInjective(hashTable[b])
               /\ \A m \in ToSet(hashTable[b]) : m \in Live /\ Bucket[meta[m].key] = b

QueueInv ==
  /\ IsInjective(queue)
  /\ \A m \in ToSet(queue) : m \in Cached \/ \E t \in Threads : pc[t] = "index" /\ now[t] = m
  /\ \A m \in Cached : m \in ToSet(queue) \/ \E t \in Threads : pc[t] = "relink" /\ now[t] = m
  /\ \A t \in Threads : pc[t] = "relink" => now[t] \notin ToSet(queue)
  /\ \A t \in Threads : pc[t] = "index" => now[t] \in ToSet(queue)

\* An object counts towards currentSize once its writer has added it.
Added == Cached \ {now[t] : t \in At({"resize"})}

SizeInv == currentSize = LenSum(meta, Added)

LocalType ==
  /\ pc \in [Threads -> Labels] /\ key \in [Threads -> Keys \cup {NoKey}]
  /\ now \in [Threads -> Metas \cup {NoMeta}] /\ len \in [Threads -> Nat]
  /\ got \in [Threads -> Keys \cup {NoKey}]

StoreType ==
  /\ DOMAIN hashTable = Range(Bucket) /\ \A b \in Range(Bucket) : hashTable[b] \in Seq(Metas)
  /\ queue \in Seq(Metas) /\ currentSize \in 0..MaxCache
  /\ Live \subseteq Metas
  /\ \A m \in Live : meta[m] \in [key : Keys, reads : Keys \cup {NoKey}, len : Nat, body : Keys]

StoreInv == /\ LocalType /\ StoreType
            /\ \A t \in Threads : LocalInv(t)
            /\ OwnersApart /\ ObjectsInv /\ ChainsInv /\ QueueInv /\ SizeInv

-------------------------------------------------------------------------------
(* Counting the threads at some labels.                                    *)

LEMMA AtFinite ==
  ASSUME NEW L
  PROVE  IsFiniteSet(At(L)) /\ Count(L) \in Nat /\ Count(L) <= Cardinality(Threads)
  BY ThreadsAssumption, FS_Subset, FS_CardinalityType DEF At, Count

LEMMA AtFiniteNext ==
  ASSUME NEW CONSTANT L
  PROVE  Count(L)' \in Nat
  BY ThreadsAssumption, FS_Subset, FS_CardinalityType DEF At, Count

LEMMA AtEmpty ==
  ASSUME NEW L
  PROVE  Count(L) = 0 <=> At(L) = {}
  BY AtFinite, FS_EmptySet DEF Count

LEMMA AtSome ==
  ASSUME NEW L, NEW t \in At(L)
  PROVE  Count(L) >= 1
  BY AtEmpty, AtFinite

\* When at most one thread is at some labels, two that are are the same.
LEMMA AtMostOne ==
  ASSUME NEW L, Count(L) <= 1, NEW t \in At(L), NEW u \in At(L)
  PROVE  t = u
  <1>1. IsFiniteSet(At(L)) /\ Count(L) \in Nat
    BY AtFinite
  <1>2. IsFiniteSet(At(L) \ {t}) /\ Cardinality(At(L) \ {t}) = Count(L) - 1
    BY <1>1, FS_RemoveElement DEF Count
  <1>3. Cardinality(At(L) \ {t}) = 0
    BY <1>1, <1>2, FS_CardinalityType
  <1>4. At(L) \ {t} = {}
    BY <1>2, <1>3, FS_EmptySet
  <1> QED BY <1>4

\* When a thread goes from label a to label b, the number of threads at the
\* labels L changes by what a and b contribute.
LEMMA CountStep ==
  ASSUME NEW CONSTANT L, NEW CONSTANT t \in Threads, NEW CONSTANT a, NEW CONSTANT b,
         pc \in [Threads -> Labels], Goes(t, a, b)
  PROVE  Count(L)' = Count(L) + (IF b \in L THEN 1 ELSE 0) - (IF a \in L THEN 1 ELSE 0)
  <1>1. IsFiniteSet(At(L)) /\ Count(L) \in Nat
    BY AtFinite
  <1>2. CASE (a \in L) = (b \in L)
    <2>1. At(L)' = At(L)
      BY <1>2 DEF At, Goes
    <2> QED BY <2>1, <1>1, <1>2 DEF Count
  <1>3. CASE a \in L /\ b \notin L
    <2>1. At(L)' = At(L) \ {t} /\ t \in At(L)
      BY <1>3 DEF At, Goes
    <2>2. Cardinality(At(L) \ {t}) = Cardinality(At(L)) - 1
      BY <2>1, <1>1, FS_RemoveElement
    <2> QED BY <2>1, <2>2, <1>1, <1>3 DEF Count
  <1>4. CASE a \notin L /\ b \in L
    <2>1. At(L)' = At(L) \cup {t} /\ t \notin At(L)
      BY <1>4 DEF At, Goes
    <2>2. Cardinality(At(L) \cup {t}) = Cardinality(At(L)) + 1
      BY <2>1, <1>1, FS_AddElement
    <2> QED BY <2>1, <2>2, <1>1, <1>4 DEF Count
  <1> QED BY <1>2, <1>3, <1>4

\* What the counts of LocksInv become when t goes from label a to label b.
LEMMA CountsStep ==
  ASSUME NEW CONSTANT t \in Threads, NEW CONSTANT a, NEW CONSTANT b \in Labels,
         pc \in [Threads -> Labels], Goes(t, a, b)
  PROVE  /\ pc' \in [Threads -> Labels]
         /\ InM' = InM + (IF b \in InMutex THEN 1 ELSE 0) - (IF a \in InMutex THEN 1 ELSE 0)
         /\ InQ' = InQ + (IF b \in InQueue THEN 1 ELSE 0) - (IF a \in InQueue THEN 1 ELSE 0)
         /\ Cnt' = Cnt + (IF b \in Counted THEN 1 ELSE 0) - (IF a \in Counted THEN 1 ELSE 0)
         /\ Rdg' = Rdg + (IF b \in Reading THEN 1 ELSE 0) - (IF a \in Reading THEN 1 ELSE 0)
         /\ Wrt' = Wrt + (IF b \in Writing THEN 1 ELSE 0) - (IF a \in Writing THEN 1 ELSE 0)
         /\ Fst' = Fst + (IF b \in {"first_in"} THEN 1 ELSE 0) - (IF a \in {"first_in"} THEN 1 ELSE 0)
         /\ NoQ' = NoQ + (IF b \in Reading \ InQueue THEN 1 ELSE 0) - (IF a \in Reading \ InQueue THEN 1 ELSE 0)
         /\ NoF' = NoF + (IF b \in InMutex \ {"first_in"} THEN 1 ELSE 0) - (IF a \in InMutex \ {"first_in"} THEN 1 ELSE 0)
  <1>1. pc' \in [Threads -> Labels]
    BY DEF Goes
  <1> QED BY <1>1, CountStep DEF InM, InQ, Cnt, Rdg, Wrt, Fst, NoQ, NoF

LEMMA CountsAreNat ==
  /\ InM \in Nat /\ InQ \in Nat /\ Cnt \in Nat /\ Rdg \in Nat /\ Wrt \in Nat
  /\ Fst \in Nat /\ NoQ \in Nat /\ NoF \in Nat
  BY AtFinite DEF InM, InQ, Cnt, Rdg, Wrt, Fst, NoQ, NoF

LEMMA CountsAreNatNext ==
  /\ InM' \in Nat /\ InQ' \in Nat /\ Cnt' \in Nat /\ Rdg' \in Nat /\ Wrt' \in Nat
  /\ Fst' \in Nat /\ NoQ' \in Nat /\ NoF' \in Nat
  BY AtFiniteNext DEF InM, InQ, Cnt, Rdg, Wrt, Fst, NoQ, NoF

LEMMA CountsKept ==
  UNCHANGED pc => UNCHANGED <<InM, InQ, Cnt, Rdg, Wrt, Fst, NoQ, NoF>>
  BY DEF InM, InQ, Cnt, Rdg, Wrt, Fst, NoQ, NoF, Count, At

LEMMA LocksInit == Init => LocksInv
  <1> SUFFICES ASSUME Init PROVE LocksInv
    OBVIOUS
  <1>1. \A L : "idle" \notin L => Count(L) = 0
    <2> SUFFICES ASSUME NEW L, "idle" \notin L PROVE Count(L) = 0
      OBVIOUS
    <2>1. At(L) = {}
      BY DEF Init, At
    <2> QED BY <2>1, AtEmpty
  <1>2. /\ InM = 0 /\ InQ = 0 /\ Cnt = 0 /\ Rdg = 0 /\ Wrt = 0
        /\ Fst = 0 /\ NoQ = 0 /\ NoF = 0
    BY <1>1 DEF InM, InQ, Cnt, Rdg, Wrt, Fst, NoQ, NoF, InMutex, InQueue, Counted, Reading, Writing
  <1> QED BY <1>2 DEF Init, LocksInv, Labels

\* Every step keeps the accounting of the semaphores.
LEMMA LocksNext == LocksInv /\ [Next]_vars => LocksInv'
  <1> SUFFICES ASSUME LocksInv, [Next]_vars PROVE LocksInv'
    OBVIOUS
  <1> USE DEF LocksInv, locks
  <1>1. ASSUME NEW t \in Threads, NEW k \in Keys, Start(t, k) PROVE LocksInv'
    <2>1. /\ pc' \in [Threads -> Labels]
          /\ UNCHANGED <<InM, InQ, Cnt, Rdg, Wrt, Fst, NoQ, NoF>>
      <3>1. Goes(t, "idle", "enter")
        BY <1>1 DEF Start
      <3> QED BY <3>1, CountsStep, CountsAreNat, SMTT(60) DEF InMutex, InQueue, Counted, Reading, Writing, Labels
    <2> QED BY <1>1, <2>1, CountsAreNat, CountsAreNatNext DEF Start
  <1>2. ASSUME NEW t \in Threads, Enter(t) PROVE LocksInv'
    <2>1. /\ pc' \in [Threads -> Labels]
          /\ InM' = InM + 1 /\ NoF' = NoF + 1
          /\ UNCHANGED <<InQ, Cnt, Rdg, Wrt, Fst, NoQ>>
      <3>1. Goes(t, "enter", "count_in")
        BY <1>2 DEF Enter
      <3> QED BY <3>1, CountsStep, CountsAreNat, SMTT(60) DEF InMutex, InQueue, Counted, Reading, Writing, Labels
    <2> QED BY <1>2, <2>1, CountsAreNat, CountsAreNatNext DEF Enter
  <1>3. ASSUME NEW t \in Threads, CountIn(t) PROVE LocksInv'
    <2>1. CASE reader_cnt = 0
      <3>1. /\ pc' \in [Threads -> Labels]
            /\ Cnt' = Cnt + 1 /\ Fst' = Fst + 1 /\ NoF' = NoF - 1
            /\ UNCHANGED <<InM, InQ, Rdg, Wrt, NoQ>>
        BY <1>3, <2>1, CountsStep, CountsAreNat, SMTT(60) DEF CountIn, InMutex, InQueue, Counted, Reading, Writing, Labels
      <3> QED BY <1>3, <2>1, <3>1, CountsAreNat, CountsAreNatNext DEF CountIn
    <2>2. CASE reader_cnt # 0
      <3>1. /\ pc' \in [Threads -> Labels]
            /\ Cnt' = Cnt + 1 /\ Rdg' = Rdg + 1 /\ NoQ' = NoQ + 1
            /\ UNCHANGED <<InM, InQ, Wrt, Fst, NoF>>
        BY <1>3, <2>2, CountsStep, CountsAreNat, SMTT(60) DEF CountIn, InMutex, InQueue, Counted, Reading, Writing, Labels
      <3>2. NoF >= 1
        BY <1>3, AtSome DEF CountIn, Goes, At, NoF, InMutex
      <3> QED BY <1>3, <2>2, <3>1, <3>2, CountsAreNat, CountsAreNatNext DEF CountIn
    <2> QED BY <2>1, <2>2
  <1>4. ASSUME NEW t \in Threads, FirstIn(t) PROVE LocksInv'
    <2>1. /\ pc' \in [Threads -> Labels]
          /\ Rdg' = Rdg + 1 /\ Fst' = Fst - 1 /\ NoQ' = NoQ + 1 /\ NoF' = NoF + 1
          /\ UNCHANGED <<InM, InQ, Cnt, Wrt>>
      <3>1. Goes(t, "first_in", "entered")
        BY <1>4 DEF FirstIn
      <3> QED BY <3>1, CountsStep, CountsAreNat, SMTT(60) DEF InMutex, InQueue, Counted, Reading, Writing, Labels
    <2> QED BY <1>4, <2>1, CountsAreNat, CountsAreNatNext DEF FirstIn
  <1>5. ASSUME NEW t \in Threads, Entered(t) PROVE LocksInv'
    <2>1. /\ pc' \in [Threads -> Labels]
          /\ InM' = InM - 1 /\ NoF' = NoF - 1
          /\ UNCHANGED <<InQ, Cnt, Rdg, Wrt, Fst, NoQ>>
      <3>1. Goes(t, "entered", "first")
        BY <1>5 DEF Entered
      <3> QED BY <3>1, CountsStep, CountsAreNat, SMTT(60) DEF InMutex, InQueue, Counted, Reading, Writing, Labels
    <2> QED BY <1>5, <2>1, CountsAreNat, CountsAreNatNext DEF Entered
  <1>6. ASSUME NEW t \in Threads, ScanFirst(t) PROVE LocksInv'
    <2>1. /\ pc' \in [Threads -> Labels]
          /\ UNCHANGED <<InM, InQ, Cnt, Rdg, Wrt, Fst, NoQ, NoF>>
      <3>1. Goes(t, "first", "scan")
        BY <1>6 DEF ScanFirst
      <3> QED BY <3>1, CountsStep, CountsAreNat, SMTT(60) DEF InMutex, InQueue, Counted, Reading, Writing, Labels
    <2> QED BY <1>6, <2>1, CountsAreNat, CountsAreNatNext DEF ScanFirst
  <1>7. ASSUME NEW t \in Threads, ScanNext(t) PROVE LocksInv'
    BY <1>7, CountsKept DEF ScanNext
  <1>8. ASSUME NEW t \in Threads, ScanMiss(t) PROVE LocksInv'
    <2>1. /\ pc' \in [Threads -> Labels]
          /\ UNCHANGED <<InM, InQ, Cnt, Rdg, Wrt, Fst, NoQ, NoF>>
      <3>1. Goes(t, "scan", "leave")
        BY <1>8 DEF ScanMiss
      <3> QED BY <3>1, CountsStep, CountsAreNat, SMTT(60) DEF InMutex, InQueue, Counted, Reading, Writing, Labels
    <2> QED BY <1>8, <2>1, CountsAreNat, CountsAreNatNext DEF ScanMiss
  <1>9. ASSUME NEW t \in Threads, ScanHit(t) PROVE LocksInv'
    <2>1. /\ pc' \in [Threads -> Labels]
          /\ UNCHANGED <<InM, InQ, Cnt, Rdg, Wrt, Fst, NoQ, NoF>>
      <3>1. Goes(t, "scan", "lock_queue")
        BY <1>9 DEF ScanHit
      <3> QED BY <3>1, CountsStep, CountsAreNat, SMTT(60) DEF InMutex, InQueue, Counted, Reading, Writing, Labels
    <2> QED BY <1>9, <2>1, CountsAreNat, CountsAreNatNext DEF ScanHit
  <1>10. ASSUME NEW t \in Threads, LockQueue(t) PROVE LocksInv'
    <2>1. /\ pc' \in [Threads -> Labels]
          /\ InQ' = InQ + 1 /\ NoQ' = NoQ - 1
          /\ UNCHANGED <<InM, Cnt, Rdg, Wrt, Fst, NoF>>
      <3>1. Goes(t, "lock_queue", "unlink")
        BY <1>10 DEF LockQueue
      <3> QED BY <3>1, CountsStep, CountsAreNat, SMTT(60) DEF InMutex, InQueue, Counted, Reading, Writing, Labels
    <2> QED BY <1>10, <2>1, CountsAreNat, CountsAreNatNext DEF LockQueue
  <1>11. ASSUME NEW t \in Threads, Unlink(t) PROVE LocksInv'
    <2>1. /\ pc' \in [Threads -> Labels]
          /\ UNCHANGED <<InM, InQ, Cnt, Rdg, Wrt, Fst, NoQ, NoF>>
      <3>1. Goes(t, "unlink", "relink")
        BY <1>11 DEF Unlink
      <3> QED BY <3>1, CountsStep, CountsAreNat, SMTT(60) DEF InMutex, InQueue, Counted, Reading, Writing, Labels
    <2> QED BY <1>11, <2>1, CountsAreNat, CountsAreNatNext DEF Unlink
  <1>12. ASSUME NEW t \in Threads, Relink(t) PROVE LocksInv'
    <2>1. /\ pc' \in [Threads -> Labels]
          /\ UNCHANGED <<InM, InQ, Cnt, Rdg, Wrt, Fst, NoQ, NoF>>
      <3>1. Goes(t, "relink", "unlock_queue")
        BY <1>12 DEF Relink
      <3> QED BY <3>1, CountsStep, CountsAreNat, SMTT(60) DEF InMutex, InQueue, Counted, Reading, Writing, Labels
    <2> QED BY <1>12, <2>1, CountsAreNat, CountsAreNatNext DEF Relink
  <1>13. ASSUME NEW t \in Threads, UnlockQueue(t) PROVE LocksInv'
    <2>1. /\ pc' \in [Threads -> Labels]
          /\ InQ' = InQ - 1 /\ NoQ' = NoQ + 1
          /\ UNCHANGED <<InM, Cnt, Rdg, Wrt, Fst, NoF>>
      <3>1. Goes(t, "unlock_queue", "copy")
        BY <1>13 DEF UnlockQueue
      <3> QED BY <3>1, CountsStep, CountsAreNat, SMTT(60) DEF InMutex, InQueue, Counted, Reading, Writing, Labels
    <2> QED BY <1>13, <2>1, CountsAreNat, CountsAreNatNext DEF UnlockQueue
  <1>14. ASSUME NEW t \in Threads, Copy(t) PROVE LocksInv'
    <2>1. /\ pc' \in [Threads -> Labels]
          /\ UNCHANGED <<InM, InQ, Cnt, Rdg, Wrt, Fst, NoQ, NoF>>
      <3>1. Goes(t, "copy", "leave")
        BY <1>14 DEF Copy
      <3> QED BY <3>1, CountsStep, CountsAreNat, SMTT(60) DEF InMutex, InQueue, Counted, Reading, Writing, Labels
    <2> QED BY <1>14, <2>1, CountsAreNat, CountsAreNatNext DEF Copy
  <1>15. ASSUME NEW t \in Threads, Leave(t) PROVE LocksInv'
    <2>1. /\ pc' \in [Threads -> Labels]
          /\ InM' = InM + 1 /\ NoF' = NoF + 1
          /\ UNCHANGED <<InQ, Cnt, Rdg, Wrt, Fst, NoQ>>
      <3>1. Goes(t, "leave", "count_out")
        BY <1>15 DEF Leave
      <3> QED BY <3>1, CountsStep, CountsAreNat, SMTT(60) DEF InMutex, InQueue, Counted, Reading, Writing, Labels
    <2> QED BY <1>15, <2>1, CountsAreNat, CountsAreNatNext DEF Leave
  <1>16. ASSUME NEW t \in Threads, CountOut(t) PROVE LocksInv'
    <2>1. /\ pc' \in [Threads -> Labels]
          /\ Cnt' = Cnt - 1 /\ Rdg' = Rdg - 1 /\ NoQ' = NoQ - 1
          /\ UNCHANGED <<InM, InQ, Wrt, Fst, NoF>>
      <3>1. Goes(t, "count_out", "left")
        BY <1>16 DEF CountOut
      <3> QED BY <3>1, CountsStep, CountsAreNat, SMTT(60) DEF InMutex, InQueue, Counted, Reading, Writing, Labels
    <2>2. NoF >= 1
      BY <1>16, AtSome DEF CountOut, Goes, At, NoF, InMutex
    <2> QED BY <1>16, <2>1, <2>2, CountsAreNat, CountsAreNatNext DEF CountOut
  <1>17. ASSUME NEW t \in Threads, LeftWithout(t) PROVE LocksInv'
    <2>1. /\ pc' \in [Threads -> Labels]
          /\ InM' = InM - 1 /\ NoF' = NoF - 1
          /\ UNCHANGED <<InQ, Cnt, Rdg, Wrt, Fst, NoQ>>
      <3>1. Goes(t, "left", "fetch")
        BY <1>17 DEF LeftWithout
      <3> QED BY <3>1, CountsStep, CountsAreNat, SMTT(60) DEF InMutex, InQueue, Counted, Reading, Writing, Labels
    <2> QED BY <1>17, <2>1, CountsAreNat, CountsAreNatNext DEF LeftWithout
  <1>18. ASSUME NEW t \in Threads, LeftWith(t) PROVE LocksInv'
    <2>1. /\ pc' \in [Threads -> Labels]
          /\ InM' = InM - 1 /\ NoF' = NoF - 1
          /\ UNCHANGED <<InQ, Cnt, Rdg, Wrt, Fst, NoQ>>
      <3>1. Goes(t, "left", "idle")
        BY <1>18 DEF LeftWith
      <3> QED BY <3>1, CountsStep, CountsAreNat, SMTT(60) DEF InMutex, InQueue, Counted, Reading, Writing, Labels
    <2> QED BY <1>18, <2>1, CountsAreNat, CountsAreNatNext DEF LeftWith
  <1>19. ASSUME NEW t \in Threads, NEW n \in Lens, Fetch(t, n) PROVE LocksInv'
    <2>1. /\ pc' \in [Threads -> Labels]
          /\ UNCHANGED <<InM, InQ, Cnt, Rdg, Wrt, Fst, NoQ, NoF>>
      <3>1. Goes(t, "fetch", "pack")
        BY <1>19 DEF Fetch
      <3> QED BY <3>1, CountsStep, CountsAreNat, SMTT(60) DEF InMutex, InQueue, Counted, Reading, Writing, Labels
    <2> QED BY <1>19, <2>1, CountsAreNat, CountsAreNatNext DEF Fetch
  <1>20. ASSUME NEW t \in Threads, NEW n \in Lens, FetchTooLong(t, n) PROVE LocksInv'
    <2>1. /\ pc' \in [Threads -> Labels]
          /\ UNCHANGED <<InM, InQ, Cnt, Rdg, Wrt, Fst, NoQ, NoF>>
      <3>1. Goes(t, "fetch", "idle")
        BY <1>20 DEF FetchTooLong
      <3> QED BY <3>1, CountsStep, CountsAreNat, SMTT(60) DEF InMutex, InQueue, Counted, Reading, Writing, Labels
    <2> QED BY <1>20, <2>1, CountsAreNat, CountsAreNatNext DEF FetchTooLong
  <1>21. ASSUME NEW t \in Threads, NEW r \in Keys \cup {NoKey}, Pack(t, r) PROVE LocksInv'
    <2>1. /\ pc' \in [Threads -> Labels]
          /\ UNCHANGED <<InM, InQ, Cnt, Rdg, Wrt, Fst, NoQ, NoF>>
      <3>1. Goes(t, "pack", "lock_index")
        BY <1>21 DEF Pack
      <3> QED BY <3>1, CountsStep, CountsAreNat, SMTT(60) DEF InMutex, InQueue, Counted, Reading, Writing, Labels
    <2> QED BY <1>21, <2>1, CountsAreNat, CountsAreNatNext DEF Pack
  <1>22. ASSUME NEW t \in Threads, LockIndex(t) PROVE LocksInv'
    <2>1. /\ pc' \in [Threads -> Labels]
          /\ Wrt' = Wrt + 1
          /\ UNCHANGED <<InM, InQ, Cnt, Rdg, Fst, NoQ, NoF>>
      <3>1. Goes(t, "lock_index", "room")
        BY <1>22 DEF LockIndex
      <3> QED BY <3>1, CountsStep, CountsAreNat, SMTT(60) DEF InMutex, InQueue, Counted, Reading, Writing, Labels
    <2> QED BY <1>22, <2>1, CountsAreNat, CountsAreNatNext DEF LockIndex
  <1>23. ASSUME NEW t \in Threads, EvictOne(t) PROVE LocksInv'
    BY <1>23, CountsKept DEF EvictOne
  <1>24. ASSUME NEW t \in Threads, PushFront(t) PROVE LocksInv'
    <2>1. /\ pc' \in [Threads -> Labels]
          /\ UNCHANGED <<InM, InQ, Cnt, Rdg, Wrt, Fst, NoQ, NoF>>
      <3>1. Goes(t, "room", "index")
        BY <1>24 DEF PushFront
      <3> QED BY <3>1, CountsStep, CountsAreNat, SMTT(60) DEF InMutex, InQueue, Counted, Reading, Writing, Labels
    <2> QED BY <1>24, <2>1, CountsAreNat, CountsAreNatNext DEF PushFront
  <1>25. ASSUME NEW t \in Threads, CreateIndex(t) PROVE LocksInv'
    <2>1. /\ pc' \in [Threads -> Labels]
          /\ UNCHANGED <<InM, InQ, Cnt, Rdg, Wrt, Fst, NoQ, NoF>>
      <3>1. Goes(t, "index", "resize")
        BY <1>25 DEF CreateIndex
      <3> QED BY <3>1, CountsStep, CountsAreNat, SMTT(60) DEF InMutex, InQueue, Counted, Reading, Writing, Labels
    <2> QED BY <1>25, <2>1, CountsAreNat, CountsAreNatNext DEF CreateIndex
  <1>26. ASSUME NEW t \in Threads, Resize(t) PROVE LocksInv'
    <2>1. /\ pc' \in [Threads -> Labels]
          /\ UNCHANGED <<InM, InQ, Cnt, Rdg, Wrt, Fst, NoQ, NoF>>
      <3>1. Goes(t, "resize", "unlock_index")
        BY <1>26 DEF Resize
      <3> QED BY <3>1, CountsStep, CountsAreNat, SMTT(60) DEF InMutex, InQueue, Counted, Reading, Writing, Labels
    <2> QED BY <1>26, <2>1, CountsAreNat, CountsAreNatNext DEF Resize
  <1>27. ASSUME NEW t \in Threads, UnlockIndex(t) PROVE LocksInv'
    <2>1. /\ pc' \in [Threads -> Labels]
          /\ Wrt' = Wrt - 1
          /\ UNCHANGED <<InM, InQ, Cnt, Rdg, Fst, NoQ, NoF>>
      <3>1. Goes(t, "unlock_index", "idle")
        BY <1>27 DEF UnlockIndex
      <3> QED BY <3>1, CountsStep, CountsAreNat, SMTT(60) DEF InMutex, InQueue, Counted, Reading, Writing, Labels
    <2> QED BY <1>27, <2>1, CountsAreNat, CountsAreNatNext DEF UnlockIndex
  <1>28. ASSUME UNCHANGED vars PROVE LocksInv'
    BY <1>28, CountsKept DEF vars
  <1> QED
    BY <1>1, <1>2, <1>3, <1>4, <1>5, <1>6, <1>7, <1>8, <1>9, <1>10, <1>11, <1>12, <1>13, <1>14, <1>15, <1>16, <1>17, <1>18, <1>19, <1>20, <1>21, <1>22, <1>23, <1>24, <1>25, <1>26, <1>27, <1>28 DEF Next, Arrive, Retrieve, Insert

LEMMA LocksInvGivesLocksHeld == LocksInv => LocksHeld
  <1> SUFFICES ASSUME LocksInv PROVE LocksHeld
    OBVIOUS
  <1>1. index_lock = 1 <=> At(Reading) \cup At(Writing) = {}
    <2>1. Rdg + Wrt = 0 <=> Rdg = 0 /\ Wrt = 0
      BY CountsAreNat
    <2> QED BY <2>1, AtEmpty DEF LocksInv, Rdg, Wrt
  <1>2. At(Writing) # {} => At(Reading) = {} /\ queue_lock = 1
    <2> SUFFICES ASSUME At(Writing) # {} PROVE At(Reading) = {} /\ queue_lock = 1
      OBVIOUS
    <2>1. Wrt # 0
      BY AtEmpty DEF Wrt
    <2>2. Rdg = 0 /\ InQ = 0
      BY <2>1, CountsAreNat DEF LocksInv
    <2> QED BY <2>2, AtEmpty DEF LocksInv, Rdg
  <1> QED BY <1>1, <1>2 DEF LocksHeld, LocksInv, InM, InQ, Cnt, Wrt, Count

-------------------------------------------------------------------------------
(* What holding a semaphore means for the other threads.                   *)

LEMMA WriterAlone ==
  ASSUME LocksInv, NEW t \in Threads, pc[t] \in Writing
  PROVE  \A u \in Threads : pc[u] \notin Reading /\ (pc[u] \in Writing => u = t)
  <1>1. Wrt >= 1 /\ Rdg = 0
    BY AtSome, CountsAreNat DEF LocksInv, Wrt, At
  <1>2. At(Reading) = {}
    BY <1>1, AtEmpty DEF Rdg
  <1>3. \A u \in At(Writing) : u = t
    BY AtMostOne DEF LocksInv, Wrt, At
  <1> QED BY <1>2, <1>3 DEF At

LEMMA ReaderExcludesWriters ==
  ASSUME LocksInv, NEW t \in Threads, pc[t] \in Reading
  PROVE  \A u \in Threads : pc[u] \notin Writing
  BY WriterAlone

LEMMA QueueHolderAlone ==
  ASSUME LocksInv, NEW t \in Threads, pc[t] \in InQueue
  PROVE  \A u \in Threads : pc[u] \in InQueue => u = t
  <1>1. InQ <= 1
    BY CountsAreNat DEF LocksInv
  <1> QED BY <1>1, AtMostOne DEF InQ, At

LEMMA CachedMembers ==
  ASSUME StoreType
  PROVE  \A m : m \in Cached <=> \E b \in Range(Bucket) : m \in ToSet(hashTable[b])
  BY DEF Cached, StoreType

LEMMA BucketOfKey == \A k \in Keys : Bucket[k] \in Range(Bucket)
  BY KeysAssumption DEF Range

LEMMA CachedIsLive ==
  ASSUME StoreType, ChainsInv
  PROVE  Cached \subseteq Live /\ Cached \subseteq Metas
  BY CachedMembers DEF ChainsInv, StoreType

\* What is cached is in the queue or about to go back to its front.
LEMMA CachedFinite ==
  ASSUME LocalType, StoreType, QueueInv
  PROVE  IsFiniteSet(Cached)
  <1>1. now \in Surjection(Threads, Range(now))
    BY DEF LocalType, Surjection, Range
  <1>2. IsFiniteSet(Range(now))
    BY <1>1, ThreadsAssumption, FS_Surjection
  <1>3. IsFiniteSet(ToSet(queue))
    BY ToSetOfSeq DEF StoreType
  <1>4. Cached \subseteq ToSet(queue) \cup Range(now)
    BY DEF QueueInv, Range, LocalType
  <1> QED BY <1>2, <1>3, <1>4, FS_Union, FS_Subset

-------------------------------------------------------------------------------
(* The steps that leave the store alone.                                   *)

\* The locals of the threads other than t stay as they are.
OthersStay(t) == \A u \in Threads \ {t} :
  /\ pc'[u] = pc[u] /\ key'[u] = key[u] /\ now'[u] = now[u] /\ len'[u] = len[u]
  /\ got'[u] = got[u]

\* The labels at which a thread's object is not where the others expect it.
Between == {"relink", "index", "resize"}

LEMMA QuietStep ==
  ASSUME StoreInv, NEW CONSTANT t \in Threads, UNCHANGED store, OthersStay(t), LocalType',
         pc[t] \notin Between, pc'[t] \notin Between, LocalInv(t)',
         pc'[t] \in Owning => pc[t] \in Owning /\ now'[t] = now[t]
  PROVE  StoreInv'
  <1> USE DEF StoreInv
  <1>1. Cached' = Cached /\ UNCHANGED <<hashTable, queue, currentSize, meta>>
    BY DEF Cached, store
  <1>2. ASSUME NEW u \in Threads PROVE LocalInv(u)'
    <2>1. CASE u # t
      <3>1. LocalInv(u)
        OBVIOUS
      <3> QED BY <2>1, <3>1, <1>1 DEF LocalInv, OthersStay, Live
    <2> QED BY <2>1
  <1>3. OwnersApart'
    BY DEF OwnersApart, OthersStay
  <1>4. ObjectsInv' /\ ChainsInv' /\ StoreType'
    BY <1>1 DEF ObjectsInv, ChainsInv, StoreType, Live
  <1>5. QueueInv'
    BY <1>1 DEF QueueInv, Between, OthersStay
  <1>6. SizeInv'
    <2>1. Added' = Added
      BY <1>1 DEF Added, At, Between, OthersStay
    <2> QED BY <2>1, <1>1 DEF SizeInv
  <1> QED BY <1>2, <1>3, <1>4, <1>5, <1>6

Quiet(t) ==
  \/ \E k \in Keys : Start(t, k)
  \/ Enter(t) \/ CountIn(t) \/ FirstIn(t) \/ Entered(t) \/ ScanFirst(t) \/ ScanNext(t)
  \/ ScanMiss(t) \/ ScanHit(t) \/ LockQueue(t) \/ UnlockQueue(t) \/ Copy(t) \/ Leave(t)
  \/ CountOut(t) \/ LeftWithout(t) \/ LeftWith(t) \/ LockIndex(t) \/ UnlockIndex(t)
  \/ \E n \in Lens : Fetch(t, n) \/ FetchTooLong(t, n)

\* Every step of a thread that leaves the store alone keeps the invariant.
LEMMA QuietActions ==
  ASSUME LocksInv, StoreInv, NEW CONSTANT t \in Threads, Quiet(t)
  PROVE  StoreInv'
  <1> USE KeysAssumption DEF StoreInv, Goes, Between, Owning
  <1>0. LocalInv(t)
    OBVIOUS
  <1>1. ASSUME NEW k \in Keys, Start(t, k) PROVE StoreInv'
    <2>1. OthersStay(t) /\ LocalType' /\ UNCHANGED store
      BY <1>1, SizesAssumption DEF Start, OthersStay, LocalType, store, local, Labels
    <2>2. LocalInv(t)'
      BY <1>1, <1>0, <2>1 DEF Start, LocalInv, LocalType, Found, store, local, Labels
    <2> QED BY <1>1, <2>1, <2>2, QuietStep DEF Start, LocalType, local
  <1>2. ASSUME Enter(t) PROVE StoreInv'
    <2>1. OthersStay(t) /\ LocalType' /\ UNCHANGED store
      BY <1>2, SizesAssumption DEF Enter, OthersStay, LocalType, store, local, Labels
    <2>2. LocalInv(t)'
      BY <1>2, <1>0, <2>1 DEF Enter, LocalInv, LocalType, Found, store, local, Labels
    <2> QED BY <1>2, <2>1, <2>2, QuietStep DEF Enter, LocalType, local
  <1>3. ASSUME CountIn(t) PROVE StoreInv'
    <2>1. OthersStay(t) /\ LocalType' /\ UNCHANGED store
      BY <1>3, SizesAssumption DEF CountIn, OthersStay, LocalType, store, local, Labels
    <2>2. LocalInv(t)'
      BY <1>3, <1>0, <2>1 DEF CountIn, LocalInv, LocalType, Found, store, local, Labels
    <2> QED BY <1>3, <2>1, <2>2, QuietStep DEF CountIn, LocalType, local
  <1>4. ASSUME FirstIn(t) PROVE StoreInv'
    <2>1. OthersStay(t) /\ LocalType' /\ UNCHANGED store
      BY <1>4, SizesAssumption DEF FirstIn, OthersStay, LocalType, store, local, Labels
    <2>2. LocalInv(t)'
      BY <1>4, <1>0, <2>1 DEF FirstIn, LocalInv, LocalType, Found, store, local, Labels
    <2> QED BY <1>4, <2>1, <2>2, QuietStep DEF FirstIn, LocalType, local
  <1>5. ASSUME Entered(t) PROVE StoreInv'
    <2>1. OthersStay(t) /\ LocalType' /\ UNCHANGED store
      BY <1>5, SizesAssumption DEF Entered, OthersStay, LocalType, store, local, Labels
    <2>2. LocalInv(t)'
      BY <1>5, <1>0, <2>1 DEF Entered, LocalInv, LocalType, Found, store, local, Labels
    <2> QED BY <1>5, <2>1, <2>2, QuietStep DEF Entered, LocalType, local
  <1>6. ASSUME ScanFirst(t) PROVE StoreInv'
    <2>0. now'[t] = NoMeta \/ (now'[t] \in ToSet(Chain(key[t])) /\ now'[t] \in Metas)
      <3>1. Chain(key[t]) \in Seq(Metas)
        BY <1>6, <1>0, BucketOfKey DEF ScanFirst, LocalInv, Chain, StoreType
      <3>2. Chain(key[t]) # <<>> =>
              Head(Chain(key[t])) \in ToSet(Chain(key[t])) /\ Head(Chain(key[t])) \in Metas
        BY <3>1, ToSetOfSeq
      <3> QED BY <1>6, <3>2 DEF ScanFirst, LocalType
    <2>1. OthersStay(t) /\ LocalType' /\ UNCHANGED store
      BY <1>6, <2>0, SizesAssumption DEF ScanFirst, OthersStay, LocalType, store, local, Labels
    <2>2. LocalInv(t)'
      BY <1>6, <1>0, <2>0, <2>1 DEF ScanFirst, LocalInv, LocalType, Chain, store, Found
    <2> QED BY <1>6, <2>1, <2>2, QuietStep DEF ScanFirst, LocalType, local
  <1>7. ASSUME ScanNext(t) PROVE StoreInv'
    <2>0. now'[t] = NoMeta \/ (now'[t] \in ToSet(Chain(key[t])) /\ now'[t] \in Metas)
      <3> DEFINE c == Chain(key[t])
                 i == CHOOSE j \in DOMAIN c : c[j] = now[t]
      <3>1. c \in Seq(Metas) /\ now[t] \in ToSet(c)
        BY <1>7, <1>0, BucketOfKey DEF ScanNext, LocalInv, Chain, StoreType
      <3>2. i \in 1..Len(c)
        BY <3>1, ToSetOfSeq
      <3> HIDE DEF c, i
      <3>3. i < Len(c) => c[i + 1] \in ToSet(c) /\ c[i + 1] \in Metas
        BY <3>1, <3>2, ToSetOfSeq
      <3> QED BY <1>7, <3>3 DEF ScanNext, LocalType, c, i
    <2>1. OthersStay(t) /\ LocalType' /\ UNCHANGED store
      BY <1>7, <2>0, SizesAssumption DEF ScanNext, OthersStay, LocalType, store, local, Labels
    <2>2. LocalInv(t)'
      BY <1>7, <1>0, <2>0, <2>1 DEF ScanNext, LocalInv, LocalType, Chain, store, Found
    <2> QED BY <1>7, <2>1, <2>2, QuietStep DEF ScanNext, LocalType, local
  <1>8. ASSUME ScanMiss(t) PROVE StoreInv'
    <2>1. OthersStay(t) /\ LocalType' /\ UNCHANGED store
      BY <1>8, SizesAssumption DEF ScanMiss, OthersStay, LocalType, store, local, Labels
    <2>2. LocalInv(t)'
      BY <1>8, <1>0, <2>1 DEF ScanMiss, LocalInv, LocalType, Found, store, local, Labels
    <2> QED BY <1>8, <2>1, <2>2, QuietStep DEF ScanMiss, LocalType, local
  <1>9. ASSUME ScanHit(t) PROVE StoreInv'
    <2>1. OthersStay(t) /\ LocalType' /\ UNCHANGED store
      BY <1>9, SizesAssumption DEF ScanHit, OthersStay, LocalType, store, local, Labels
    <2>2. LocalInv(t)'
      BY <1>9, <1>0, <2>1 DEF ScanHit, LocalInv, LocalType, Found, store, local, Labels, Matches, Chain
    <2> QED BY <1>9, <2>1, <2>2, QuietStep DEF ScanHit, LocalType, local
  <1>10. ASSUME LockQueue(t) PROVE StoreInv'
    <2>1. OthersStay(t) /\ LocalType' /\ UNCHANGED store
      BY <1>10, SizesAssumption DEF LockQueue, OthersStay, LocalType, store, local, Labels
    <2>2. LocalInv(t)'
      BY <1>10, <1>0, <2>1 DEF LockQueue, LocalInv, LocalType, Found, store, local, Labels
    <2> QED BY <1>10, <2>1, <2>2, QuietStep DEF LockQueue, LocalType, local
  <1>11. ASSUME UnlockQueue(t) PROVE StoreInv'
    <2>1. OthersStay(t) /\ LocalType' /\ UNCHANGED store
      BY <1>11, SizesAssumption DEF UnlockQueue, OthersStay, LocalType, store, local, Labels
    <2>2. LocalInv(t)'
      BY <1>11, <1>0, <2>1 DEF UnlockQueue, LocalInv, LocalType, Found, store, local, Labels
    <2> QED BY <1>11, <2>1, <2>2, QuietStep DEF UnlockQueue, LocalType, local
  <1>12. ASSUME Copy(t) PROVE StoreInv'
    <2>0. LET body == meta[now[t]].body
          IN  body \in Keys /\ key[t] \in {body} \cup Longer[body]
      <3>1. now[t] \in Live /\ key[t] \in Keys /\ meta[now[t]].reads = key[t]
        BY <1>12, <1>0, BucketOfKey DEF Copy, LocalInv, Found, ChainsInv
      <3> QED BY <3>1 DEF ObjectsInv, StoreType
    <2>1. OthersStay(t) /\ LocalType' /\ UNCHANGED store
      BY <1>12, <2>0, SizesAssumption DEF Copy, OthersStay, LocalType, store, local, Labels
    <2>2. LocalInv(t)'
      BY <1>12, <1>0, <2>0, <2>1 DEF Copy, LocalInv, LocalType, Chain, store, Found
    <2> QED BY <1>12, <2>1, <2>2, QuietStep DEF Copy, LocalType, local
  <1>13. ASSUME Leave(t) PROVE StoreInv'
    <2>1. OthersStay(t) /\ LocalType' /\ UNCHANGED store
      BY <1>13, SizesAssumption DEF Leave, OthersStay, LocalType, store, local, Labels
    <2>2. LocalInv(t)'
      BY <1>13, <1>0, <2>1 DEF Leave, LocalInv, LocalType, Found, store, local, Labels
    <2> QED BY <1>13, <2>1, <2>2, QuietStep DEF Leave, LocalType, local
  <1>14. ASSUME CountOut(t) PROVE StoreInv'
    <2>1. OthersStay(t) /\ LocalType' /\ UNCHANGED store
      BY <1>14, SizesAssumption DEF CountOut, OthersStay, LocalType, store, local, Labels
    <2>2. LocalInv(t)'
      BY <1>14, <1>0, <2>1 DEF CountOut, LocalInv, LocalType, Found, store, local, Labels
    <2> QED BY <1>14, <2>1, <2>2, QuietStep DEF CountOut, LocalType, local
  <1>15. ASSUME LeftWithout(t) PROVE StoreInv'
    <2>1. OthersStay(t) /\ LocalType' /\ UNCHANGED store
      BY <1>15, SizesAssumption DEF LeftWithout, OthersStay, LocalType, store, local, Labels
    <2>2. LocalInv(t)'
      BY <1>15, <1>0, <2>1 DEF LeftWithout, LocalInv, LocalType, Found, store, local, Labels
    <2> QED BY <1>15, <2>1, <2>2, QuietStep DEF LeftWithout, LocalType, local
  <1>16. ASSUME LeftWith(t) PROVE StoreInv'
    <2>1. OthersStay(t) /\ LocalType' /\ UNCHANGED store
      BY <1>16, SizesAssumption DEF LeftWith, OthersStay, LocalType, store, local, Labels, Return
    <2>2. LocalInv(t)'
      BY <1>16, <1>0, <2>1 DEF LeftWith, LocalInv, LocalType, Found, store, local, Labels, Return
    <2> QED BY <1>16, <2>1, <2>2, QuietStep DEF LeftWith, LocalType, Return, local
  <1>17. ASSUME NEW n \in Lens, Fetch(t, n) PROVE StoreInv'
    <2>1. OthersStay(t) /\ LocalType' /\ UNCHANGED store
      BY <1>17, SizesAssumption DEF Fetch, OthersStay, LocalType, store, local, Labels
    <2>2. LocalInv(t)'
      BY <1>17, <1>0, <2>1 DEF Fetch, LocalInv, LocalType, Found, store, local, Labels
    <2> QED BY <1>17, <2>1, <2>2, QuietStep DEF Fetch, LocalType, local
  <1>18. ASSUME NEW n \in Lens, FetchTooLong(t, n) PROVE StoreInv'
    <2>1. OthersStay(t) /\ LocalType' /\ UNCHANGED store
      BY <1>18, SizesAssumption DEF FetchTooLong, OthersStay, LocalType, store, local, Labels, Return
    <2>2. LocalInv(t)'
      BY <1>18, <1>0, <2>1 DEF FetchTooLong, LocalInv, LocalType, Found, store, local, Labels, Return
    <2> QED BY <1>18, <2>1, <2>2, QuietStep DEF FetchTooLong, LocalType, Return, local
  <1>19. ASSUME LockIndex(t) PROVE StoreInv'
    <2>1. OthersStay(t) /\ LocalType' /\ UNCHANGED store
      BY <1>19, SizesAssumption DEF LockIndex, OthersStay, LocalType, store, local, Labels
    <2>2. LocalInv(t)'
      BY <1>19, <1>0, <2>1 DEF LockIndex, LocalInv, LocalType, Found, store, local, Labels, Cached, Live
    <2> QED BY <1>19, <2>1, <2>2, QuietStep DEF LockIndex, LocalType, local
  <1>20. ASSUME UnlockIndex(t) PROVE StoreInv'
    <2>1. OthersStay(t) /\ LocalType' /\ UNCHANGED store
      BY <1>20, SizesAssumption DEF UnlockIndex, OthersStay, LocalType, store, local, Labels, Return
    <2>2. LocalInv(t)'
      BY <1>20, <1>0, <2>1 DEF UnlockIndex, LocalInv, LocalType, Found, store, local, Labels, Return
    <2> QED BY <1>20, <2>1, <2>2, QuietStep DEF UnlockIndex, LocalType, Return, local
  <1> QED BY <1>1, <1>2, <1>3, <1>4, <1>5, <1>6, <1>7, <1>8, <1>9, <1>10, <1>11, <1>12, <1>13, <1>14, <1>15, <1>16, <1>17, <1>18, <1>19, <1>20 DEF Quiet

-------------------------------------------------------------------------------
(* The steps that change the store.                                        *)

\* The reader takes its object out of the queue: it is there, because what is
\* cached is in the queue or held by the one reader that has queue_lock.
LEMMA UnlinkKeeps ==
  ASSUME LocksInv, StoreInv, NEW CONSTANT t \in Threads, Unlink(t)
  PROVE  StoreInv' /\ now[t] \in ToSet(queue)
  <1> USE DEF StoreInv
  <1>0. LocalInv(t) /\ pc[t] = "unlink" /\ pc' = [pc EXCEPT ![t] = "relink"] /\ key[t] \in Keys
    BY DEF Unlink, Goes, LocalInv
  <1>1. UNCHANGED <<hashTable, currentSize, meta, key, now, len, got>> /\ Cached' = Cached
        /\ queue' = RemoveFirst(queue, now[t])
    BY DEF Unlink, local, Cached
  <1>2. \A u \in Threads : pc[u] \notin Writing /\ pc[u] # "relink"
    BY <1>0, ReaderExcludesWriters, QueueHolderAlone DEF Reading, Counted, InQueue
  <1>3. now[t] \in Cached
    BY <1>0, BucketOfKey, CachedMembers DEF LocalInv, Found
  <1>4. PICK k \in 1..Len(queue) : queue[k] = now[t]
    BY <1>2, <1>3, ToSetOfSeq DEF QueueInv, StoreType
  <1>5. /\ queue' \in Seq(Metas) /\ IsInjective(queue') /\ ToSet(queue') = ToSet(queue) \ {now[t]}
        /\ now[t] \in ToSet(queue)
    BY <1>1, <1>4, RemoveFirstProperties, ToSetOfSeq, SMTT(60) DEF QueueInv, StoreType
  <1>6. LocalType' /\ StoreType'
    BY <1>0, <1>1, <1>5 DEF LocalType, StoreType, Labels, Live
  <1>7. ASSUME NEW u \in Threads PROVE LocalInv(u)'
    <2>1. LocalInv(u)
      OBVIOUS
    <2>2. CASE u = t
      BY <1>0, <1>1, <2>2 DEF LocalInv, Live, Found, LocalType, Owning
    <2>3. CASE u # t
      BY <2>1, <2>3, <1>0, <1>1 DEF LocalInv, Live, LocalType
    <2> QED BY <2>2, <2>3
  <1>8. OwnersApart' /\ ObjectsInv' /\ ChainsInv'
    BY <1>0, <1>1 DEF OwnersApart, ObjectsInv, ChainsInv, Live, Owning, LocalType
  <1>9. QueueInv'
    BY <1>0, <1>1, <1>2, <1>3, <1>5 DEF QueueInv, LocalType, Writing
  <1>10. SizeInv'
    <2>1. Added' = Added
      BY <1>0, <1>1 DEF Added, At, LocalType
    <2> QED BY <2>1, <1>1 DEF SizeInv
  <1> QED BY <1>5, <1>6, <1>7, <1>8, <1>9, <1>10

\* The reader puts its object back, at the front.
LEMMA RelinkKeeps ==
  ASSUME LocksInv, StoreInv, NEW CONSTANT t \in Threads, Relink(t)
  PROVE  StoreInv'
  <1> USE DEF StoreInv
  <1>0. LocalInv(t) /\ pc[t] = "relink" /\ pc' = [pc EXCEPT ![t] = "unlock_queue"] /\ key[t] \in Keys
    BY DEF Relink, Goes, LocalInv
  <1>1. UNCHANGED <<hashTable, currentSize, meta, key, now, len, got>> /\ Cached' = Cached
        /\ queue' = <<now[t]>> \o queue
    BY DEF Relink, local, Cached
  <1>2. \A u \in Threads : pc[u] \notin Writing /\ (pc[u] = "relink" => u = t)
    BY <1>0, ReaderExcludesWriters, QueueHolderAlone DEF Reading, Counted, InQueue
  <1>3. now[t] \in Cached /\ now[t] \in Metas
    BY <1>0, BucketOfKey, CachedMembers, CachedIsLive DEF LocalInv, Found
  <1>5. queue' \in Seq(Metas) /\ IsInjective(queue') /\ ToSet(queue') = {now[t]} \cup ToSet(queue)
    BY <1>0, <1>1, <1>3, ConsProperties DEF QueueInv, StoreType
  <1>6. LocalType' /\ StoreType'
    BY <1>0, <1>1, <1>5 DEF LocalType, StoreType, Labels, Live
  <1>7. ASSUME NEW u \in Threads PROVE LocalInv(u)'
    <2>1. LocalInv(u)
      OBVIOUS
    <2>2. CASE u = t
      BY <1>0, <1>1, <2>2 DEF LocalInv, Live, Found, LocalType, Owning
    <2>3. CASE u # t
      BY <2>1, <2>3, <1>0, <1>1 DEF LocalInv, Live, LocalType
    <2> QED BY <2>2, <2>3
  <1>8. OwnersApart' /\ ObjectsInv' /\ ChainsInv'
    BY <1>0, <1>1 DEF OwnersApart, ObjectsInv, ChainsInv, Live, Owning, LocalType
  <1>9. QueueInv'
    BY <1>0, <1>1, <1>2, <1>3, <1>5, ZenonT(60) DEF QueueInv, LocalType, Writing
  <1>10. SizeInv'
    <2>1. Added' = Added
      BY <1>0, <1>1 DEF Added, At, LocalType
    <2> QED BY <2>1, <1>1 DEF SizeInv
  <1> QED BY <1>6, <1>7, <1>8, <1>9, <1>10

\* What is cached is counted with the lengths it was packed with.
LEMMA AddedFinite ==
  ASSUME LocalType, StoreType, QueueInv, ChainsInv
  PROVE  IsFiniteSet(Added) /\ \A m \in Cached : m \in Live /\ meta[m].len \in Nat
  <1>1. IsFiniteSet(Added)
    BY CachedFinite, FS_Subset DEF Added
  <1> QED BY <1>1, CachedIsLive DEF StoreType

\* A new object is at an address no other has.
LEMMA PackKeeps ==
  ASSUME LocksInv, StoreInv, NEW CONSTANT t \in Threads,
         NEW CONSTANT reads \in Keys \cup {NoKey}, Pack(t, reads)
  PROVE  StoreInv'
  <1> USE DEF StoreInv
  <1>0. LocalInv(t) /\ pc[t] = "pack" /\ pc' = [pc EXCEPT ![t] = "lock_index"] /\ key[t] \in Keys
    BY DEF Pack, Goes, LocalInv
  <1>1. UNCHANGED <<hashTable, queue, currentSize, key, len, got>> /\ Cached' = Cached
    BY DEF Pack, Cached
  <1>2. reads \in {key[t], NoKey} \cup Longer[key[t]]
    BY DEF Pack
  <1>3. PICK m \in Metas \ Live :
          /\ now' = [now EXCEPT ![t] = m]
          /\ meta' = [a \in Live \cup {m} |->
               IF a = m THEN [key |-> key[t], reads |-> reads, len |-> len[t], body |-> key[t]]
               ELSE meta[a]]
    BY DEF Pack
  <1>4. /\ Live' = Live \cup {m} /\ \A a \in Live : meta'[a] = meta[a]
        /\ meta'[m] = [key |-> key[t], reads |-> reads, len |-> len[t], body |-> key[t]]
    BY <1>3 DEF Live
  <1>5. Cached \subseteq Live
    BY CachedIsLive
  <1>6. LocalType' /\ StoreType'
    BY <1>0, <1>1, <1>2, <1>3, <1>4 DEF LocalType, StoreType, Labels
  <1>7. ASSUME NEW u \in Threads PROVE LocalInv(u)'
    <2>1. LocalInv(u)
      OBVIOUS
    <2>2. CASE u = t
      BY <1>0, <1>1, <1>3, <1>4, <1>5, <2>2 DEF LocalInv, LocalType, Found, Owning
    <2>3. CASE u # t
      <3>1. pc'[u] = pc[u] /\ now'[u] = now[u]
        BY <2>3, <1>0, <1>3 DEF LocalType
      <3>2. pc[u] \in Found => now[u] \in Live
        BY <2>1, <1>5, BucketOfKey, CachedMembers DEF LocalInv, Found
      <3> QED BY <2>1, <3>1, <3>2, <1>1, <1>4 DEF LocalInv
    <2> QED BY <2>2, <2>3
  <1>8. OwnersApart'
    <2>1. ASSUME NEW u \in Threads, u # t, pc'[u] \in Owning PROVE now'[u] # now'[t]
      <3>1. now'[u] = now[u] /\ now[u] \in Live
        BY <2>1, <1>0, <1>3 DEF LocalInv, Owning, LocalType
      <3> QED BY <3>1, <1>3 DEF LocalType
    <2> QED BY <2>1, <1>0, <1>3 DEF OwnersApart, LocalType, Owning
  <1>9. ObjectsInv'
    BY <1>2, <1>4 DEF ObjectsInv
  <1>10. ChainsInv'
    BY <1>1, <1>4, <1>5, CachedMembers DEF ChainsInv
  <1>11. QueueInv'
    BY <1>0, <1>1, <1>3 DEF QueueInv, LocalType
  <1>12. SizeInv'
    <2>1. Added' = Added
      BY <1>0, <1>1, <1>3 DEF Added, At, LocalType
    <2>2. \A x \in Added : meta[x].len \in Nat /\ meta'[x].len = meta[x].len
      BY AddedFinite, <1>4 DEF Added
    <2>3. LenSum(meta', Added) = LenSum(meta, Added)
      BY <2>2, AddedFinite, LenSumSame
    <2> QED BY <2>1, <2>3, <1>1 DEF SizeInv
  <1> QED BY <1>6, <1>7, <1>8, <1>9, <1>10, <1>11, <1>12

\* A writer that has index_lock finds no reader and no other writer.
LEMMA WriterFacts ==
  ASSUME LocksInv, StoreInv, NEW t \in Threads, pc[t] \in Writing
  PROVE  /\ LocalInv(t) /\ key[t] \in Keys
         /\ \A u \in Threads : u # t => pc[u] \notin Reading \cup Writing
         /\ \A u \in Threads : pc[u] \notin Found \cup {"scan"}
         /\ Cached \subseteq ToSet(queue)
         /\ ToSet(queue) \subseteq Cached \cup (IF pc[t] = "index" THEN {now[t]} ELSE {})
         /\ Added = IF pc[t] = "resize" THEN Cached \ {now[t]} ELSE Cached
  <1>1. LocalInv(t) /\ key[t] \in Keys
    BY DEF StoreInv, LocalInv, Writing
  <1>2. \A u \in Threads : pc[u] \notin Reading /\ (pc[u] \in Writing => u = t)
    BY WriterAlone
  <1>3. \A u \in Threads : pc[u] \notin Found \cup {"scan"} /\ pc[u] # "relink"
    BY <1>2 DEF Found, Reading, Counted
  <1>4. \A u \in Threads : u # t => pc[u] # "index" /\ pc[u] # "resize"
    BY <1>2 DEF Writing
  <1>5. /\ Cached \subseteq ToSet(queue)
        /\ ToSet(queue) \subseteq Cached \cup (IF pc[t] = "index" THEN {now[t]} ELSE {})
    BY <1>3, <1>4 DEF StoreInv, QueueInv
  <1>6. Added = IF pc[t] = "resize" THEN Cached \ {now[t]} ELSE Cached
    BY <1>4 DEF Added, At
  <1> QED BY <1>1, <1>2, <1>3, <1>5, <1>6

\* A writer that needs room finds an object to evict: what does not fit in an
\* empty cache is not inserted.
LEMMA RoomFindsVictim ==
  ASSUME LocksInv, StoreInv, NEW t \in Threads, pc[t] = "room", currentSize + len[t] > MaxCache
  PROVE  queue # <<>>
  <1>1. LocalInv(t) /\ Added = Cached /\ Cached \subseteq ToSet(queue)
    BY WriterFacts DEF Writing
  <1>2. currentSize > 0
    BY <1>1, SizesAssumption DEF LocalInv, Owning, StoreInv, StoreType, LocalType
  <1>3. Cached # {}
    BY <1>1, <1>2, LenSumEmpty DEF StoreInv, SizeInv
  <1> QED BY <1>1, <1>3, ToSetOfSeq DEF ToSet

\* The evicted object leaves the queue, its chain and the total together.
LEMMA EvictKeeps ==
  ASSUME LocksInv, StoreInv, NEW CONSTANT t \in Threads, EvictOne(t)
  PROVE  StoreInv'
  <1> USE DEF StoreInv
  <1> DEFINE v == Head(queue)
             b == Bucket[meta[v].key]
  <1>0. pc[t] = "room" /\ queue # <<>> /\ pc' = pc
        /\ UNCHANGED <<key, now, len, got>>
    BY DEF EvictOne, local
  <1>1. /\ queue' = RemoveFirst(queue, v)
        /\ hashTable' = [hashTable EXCEPT ![b] = RemoveFirst(hashTable[b], v)]
        /\ currentSize' = currentSize - meta[v].len
        /\ meta' = [a \in Live \ {v} |-> meta[a]]
    BY DEF EvictOne, Victim
  <1> HIDE DEF v, b
  <1>2. /\ LocalInv(t) /\ key[t] \in Keys /\ ToSet(queue) = Cached /\ Added = Cached
        /\ \A u \in Threads : u # t => pc[u] \notin Reading \cup Writing
        /\ \A u \in Threads : pc[u] \notin Found \cup {"scan"}
    BY <1>0, WriterFacts DEF Writing
  <1>3. 1 \in 1..Len(queue) /\ queue[1] = v
    BY <1>0 DEF v, StoreType
  <1>4. v \in Cached /\ v \in Live
    BY <1>2, <1>3, ToSetOfSeq, CachedIsLive DEF StoreType
  <1>5. b \in Range(Bucket) /\ v \in ToSet(hashTable[b])
    BY <1>4, CachedMembers DEF ChainsInv, b
  <1>6. /\ queue' \in Seq(Metas) /\ IsInjective(queue') /\ ToSet(queue') = ToSet(queue) \ {v}
    BY <1>1, <1>3, RemoveFirstProperties DEF QueueInv, StoreType
  <1>7. PICK k \in 1..Len(hashTable[b]) : hashTable[b][k] = v
    BY <1>5, ToSetOfSeq DEF StoreType
  <1>8. /\ RemoveFirst(hashTable[b], v) \in Seq(Metas) /\ IsInjective(RemoveFirst(hashTable[b], v))
        /\ ToSet(RemoveFirst(hashTable[b], v)) = ToSet(hashTable[b]) \ {v}
    BY <1>5, <1>7, RemoveFirstProperties DEF ChainsInv, StoreType
  <1>9. /\ DOMAIN hashTable' = Range(Bucket)
        /\ \A c \in Range(Bucket) : /\ hashTable'[c] \in Seq(Metas) /\ IsInjective(hashTable'[c])
                                    /\ ToSet(hashTable'[c]) = ToSet(hashTable[c]) \ {v}
    <2> SUFFICES ASSUME NEW c \in Range(Bucket)
                 PROVE  /\ hashTable'[c] \in Seq(Metas) /\ IsInjective(hashTable'[c])
                        /\ ToSet(hashTable'[c]) = ToSet(hashTable[c]) \ {v}
      BY <1>1 DEF StoreType
    <2>1. CASE c = b
      BY <2>1, <1>1, <1>8 DEF StoreType
    <2>2. CASE c # b
      <3>1. hashTable'[c] = hashTable[c]
        BY <2>2, <1>1 DEF StoreType
      <3>2. v \notin ToSet(hashTable[c])
        BY <2>2 DEF ChainsInv, b
      <3> QED BY <3>1, <3>2 DEF ChainsInv, StoreType
    <2> QED BY <2>1, <2>2
  <1>10. Cached' = Cached \ {v}
    <2>1. \A m : m \in Cached' <=> \E c \in Range(Bucket) : m \in ToSet(hashTable'[c])
      BY <1>9 DEF Cached
    <2> QED BY <2>1, <1>9, CachedMembers
  <1>11. Live' = Live \ {v} /\ \A a \in Live \ {v} : meta'[a] = meta[a]
    BY <1>1 DEF Live
  <1>12. /\ IsFiniteSet(Cached) /\ \A m \in Cached : meta[m].len \in Nat
         /\ Cached \subseteq Live
    BY <1>2, AddedFinite, CachedIsLive
  <1>13. currentSize' = LenSum(meta, Cached \ {v}) /\ currentSize' \in Nat /\ currentSize' <= currentSize
    <2>1. LenSum(meta, Cached \ {v}) \in Nat
          /\ LenSum(meta, Cached) = meta[v].len + LenSum(meta, Cached \ {v})
      <3>1. \A T \in SUBSET Cached : \A z \in T :
              LenSum(meta, T \ {z}) \in Nat /\ LenSum(meta, T) = meta[z].len + LenSum(meta, T \ {z})
        BY <1>12, LenSumParts, ZenonT(60)
      <3>2. v \in Cached /\ Cached \in SUBSET Cached
        BY <1>4
      <3> QED BY <3>1, <3>2, ZenonT(60)
    <2> QED BY <2>1, <1>1, <1>2, <1>4, <1>12 DEF SizeInv
  <1>14. LocalType' /\ StoreType'
    <2>1. currentSize' \in 0..MaxCache
      BY <1>13, SizesAssumption DEF StoreType
    <2>2. Live' \subseteq Metas /\ \A m \in Live' :
            meta'[m] \in [key : Keys, reads : Keys \cup {NoKey}, len : Nat, body : Keys]
      BY <1>11 DEF StoreType
    <2>3. StoreType'
      BY <1>6, <1>9, <2>1, <2>2 DEF StoreType
    <2> QED BY <2>3, <1>0 DEF LocalType
  <1>15. ASSUME NEW u \in Threads PROVE LocalInv(u)'
    <2>1. LocalInv(u) /\ pc[u] \notin Found \cup {"scan"}
      BY <1>2
    <2>2. pc[u] # "resize" /\ pc[u] # "unlock_index" /\ pc[u] # "index"
      BY <1>0, <1>2 DEF Writing
    <2>3. pc[u] \in Owning => now[u] \in Live \ {v} /\ now[u] \notin Cached'
      BY <2>1, <1>4, <1>10 DEF LocalInv
    <2> QED BY <2>1, <2>2, <2>3, <1>0, <1>11 DEF LocalInv
  <1>16. OwnersApart' /\ ObjectsInv'
    BY <1>0, <1>11 DEF OwnersApart, ObjectsInv
  <1>17. ChainsInv'
    BY <1>9, <1>11 DEF ChainsInv
  <1>18. QueueInv'
    BY <1>0, <1>2, <1>6, <1>10 DEF QueueInv, Found, Writing
  <1>19. SizeInv'
    <2>1. Added' = Cached \ {v}
      BY <1>0, <1>2, <1>10 DEF Added, At, Writing
    <2>2. LenSum(meta', Cached \ {v}) = LenSum(meta, Cached \ {v})
      <3>1. \A x \in Cached \ {v} : meta[x].len \in Nat /\ meta'[x].len = meta[x].len
        BY <1>11, <1>12
      <3>2. IsFiniteSet(Cached \ {v})
        BY <1>12, FS_RemoveElement
      <3> QED BY <3>1, <3>2, LenSumSame
    <2> QED BY <2>1, <2>2, <1>13 DEF SizeInv
  <1> QED BY <1>14, <1>15, <1>16, <1>17, <1>18, <1>19

\* The new object is at the front before any chain has it.
LEMMA PushFrontKeeps ==
  ASSUME LocksInv, StoreInv, NEW CONSTANT t \in Threads, PushFront(t)
  PROVE  StoreInv'
  <1> USE DEF StoreInv
  <1>0. pc[t] = "room" /\ pc' = [pc EXCEPT ![t] = "index"] /\ currentSize + len[t] <= MaxCache
    BY DEF PushFront, Goes
  <1>1. UNCHANGED <<hashTable, currentSize, meta, key, now, len, got>> /\ Cached' = Cached
        /\ queue' = <<now[t]>> \o queue
    BY DEF PushFront, local, Cached
  <1>2. /\ LocalInv(t) /\ key[t] \in Keys /\ ToSet(queue) = Cached /\ Added = Cached
        /\ \A u \in Threads : u # t => pc[u] \notin Reading \cup Writing
        /\ \A u \in Threads : pc[u] \notin Found \cup {"scan"}
    BY <1>0, WriterFacts DEF Writing
  <1>3. now[t] \in Metas /\ now[t] \notin ToSet(queue)
    BY <1>0, <1>2 DEF LocalInv, Owning, StoreType
  <1>4. queue' \in Seq(Metas) /\ IsInjective(queue') /\ ToSet(queue') = {now[t]} \cup ToSet(queue)
    BY <1>1, <1>3, ConsProperties DEF QueueInv, StoreType
  <1>5. LocalType' /\ StoreType'
    BY <1>0, <1>1, <1>4 DEF LocalType, StoreType, Labels, Live
  <1>6. ASSUME NEW u \in Threads PROVE LocalInv(u)'
    <2>1. LocalInv(u)
      OBVIOUS
    <2>2. CASE u = t
      BY <1>0, <1>1, <2>1, <2>2 DEF LocalInv, Live, Found, LocalType, Owning
    <2>3. CASE u # t
      BY <2>1, <2>3, <1>0, <1>1 DEF LocalInv, Live, LocalType
    <2> QED BY <2>2, <2>3
  <1>7. OwnersApart' /\ ObjectsInv' /\ ChainsInv'
    BY <1>0, <1>1 DEF OwnersApart, ObjectsInv, ChainsInv, Live, Owning, LocalType
  <1>8. QueueInv'
    BY <1>0, <1>1, <1>2, <1>4, ZenonT(60) DEF QueueInv, LocalType, Writing, Found
  <1>9. SizeInv'
    <2>1. Added' = Added
      BY <1>0, <1>1 DEF Added, At, LocalType
    <2> QED BY <2>1, <1>1 DEF SizeInv
  <1> QED BY <1>5, <1>6, <1>7, <1>8, <1>9

\* The chain of the request gets the object; the total does not count it yet.
LEMMA CreateIndexKeeps ==
  ASSUME LocksInv, StoreInv, NEW CONSTANT t \in Threads, CreateIndex(t)
  PROVE  StoreInv'
  <1> USE DEF StoreInv
  <1> DEFINE b == Bucket[key[t]]
  <1>0. pc[t] = "index" /\ pc' = [pc EXCEPT ![t] = "resize"]
    BY DEF CreateIndex, Goes
  <1>1. UNCHANGED <<queue, currentSize, meta, key, now, len, got>>
        /\ hashTable' = [hashTable EXCEPT ![b] = <<now[t]>> \o hashTable[b]]
    BY DEF CreateIndex, local
  <1> HIDE DEF b
  <1>2. /\ LocalInv(t) /\ key[t] \in Keys /\ Added = Cached
        /\ \A u \in Threads : u # t => pc[u] \notin Reading \cup Writing
        /\ \A u \in Threads : pc[u] \notin Found \cup {"scan"}
        /\ ToSet(queue) = Cached \cup {now[t]}
    BY <1>0, WriterFacts DEF Writing, QueueInv
  <1>3. /\ now[t] \in Live /\ now[t] \in Metas /\ now[t] \notin Cached
        /\ b \in Range(Bucket) /\ Bucket[meta[now[t]].key] = b
    BY <1>0, <1>2, BucketOfKey DEF LocalInv, Owning, StoreType, b
  <1>4. now[t] \notin ToSet(hashTable[b])
    BY <1>3, CachedMembers
  <1>5. /\ <<now[t]>> \o hashTable[b] \in Seq(Metas) /\ IsInjective(<<now[t]>> \o hashTable[b])
        /\ ToSet(<<now[t]>> \o hashTable[b]) = {now[t]} \cup ToSet(hashTable[b])
    BY <1>3, <1>4, ConsProperties DEF ChainsInv, StoreType
  <1>6. /\ DOMAIN hashTable' = Range(Bucket)
        /\ \A c \in Range(Bucket) :
             /\ hashTable'[c] \in Seq(Metas) /\ IsInjective(hashTable'[c])
             /\ ToSet(hashTable'[c]) = ToSet(hashTable[c]) \cup (IF c = b THEN {now[t]} ELSE {})
    <2> SUFFICES ASSUME NEW c \in Range(Bucket)
                 PROVE  /\ hashTable'[c] \in Seq(Metas) /\ IsInjective(hashTable'[c])
                        /\ ToSet(hashTable'[c]) = ToSet(hashTable[c]) \cup (IF c = b THEN {now[t]} ELSE {})
      BY <1>1 DEF StoreType
    <2>1. CASE c = b
      BY <2>1, <1>1, <1>5 DEF StoreType
    <2>2. CASE c # b
      <3>1. hashTable'[c] = hashTable[c]
        BY <2>2, <1>1 DEF StoreType
      <3> QED BY <2>2, <3>1 DEF ChainsInv, StoreType
    <2> QED BY <2>1, <2>2
  <1>7. Cached' = Cached \cup {now[t]}
    <2>1. \A m : m \in Cached' <=> \E c \in Range(Bucket) : m \in ToSet(hashTable'[c])
      BY <1>6 DEF Cached
    <2> QED BY <2>1, <1>3, <1>6, CachedMembers
  <1>8. LocalType' /\ StoreType'
    BY <1>0, <1>1, <1>6 DEF LocalType, StoreType, Labels, Live
  <1>9. ASSUME NEW u \in Threads PROVE LocalInv(u)'
    <2>1. LocalInv(u) /\ pc[u] \notin Found \cup {"scan"}
      BY <1>2
    <2>2. CASE u = t
      BY <1>0, <1>1, <1>7, <2>1, <2>2 DEF LocalInv, Live, Found, LocalType, Owning
    <2>3. CASE u # t
      <3>1. pc'[u] = pc[u] /\ pc[u] # "resize"
        BY <2>3, <1>0, <1>2 DEF LocalType, Writing
      <3>2. pc[u] \in Owning => now[u] \notin Cached'
        BY <2>1, <2>3, <1>0, <1>7 DEF LocalInv, OwnersApart, Owning
      <3> QED BY <2>1, <3>1, <3>2, <1>1 DEF LocalInv, Live
    <2> QED BY <2>2, <2>3
  <1>10. OwnersApart' /\ ObjectsInv'
    BY <1>0, <1>1 DEF OwnersApart, ObjectsInv, Live, Owning, LocalType
  <1>11. ChainsInv'
    BY <1>1, <1>3, <1>6 DEF ChainsInv, Live
  <1>12. QueueInv'
    BY <1>0, <1>1, <1>2, <1>7 DEF QueueInv, LocalType, Writing, Found
  <1>13. SizeInv'
    <2>1. Added' = Cached
      BY <1>0, <1>1, <1>2, <1>3, <1>7 DEF Added, At, LocalType, Writing
    <2> QED BY <2>1, <1>1, <1>2 DEF SizeInv
  <1> QED BY <1>8, <1>9, <1>10, <1>11, <1>12, <1>13

\* The total counts the new object, which fits.
LEMMA ResizeKeeps ==
  ASSUME LocksInv, StoreInv, NEW CONSTANT t \in Threads, Resize(t)
  PROVE  StoreInv'
  <1> USE DEF StoreInv
  <1>0. pc[t] = "resize" /\ pc' = [pc EXCEPT ![t] = "unlock_index"]
    BY DEF Resize, Goes
  <1>1. UNCHANGED <<hashTable, queue, meta, key, now, len, got>> /\ Cached' = Cached
        /\ currentSize' = currentSize + meta[now[t]].len
    BY DEF Resize, local, Cached
  <1>2. /\ LocalInv(t) /\ key[t] \in Keys /\ Added = Cached \ {now[t]}
        /\ \A u \in Threads : u # t => pc[u] \notin Reading \cup Writing
        /\ \A u \in Threads : pc[u] \notin Found \cup {"scan"}
    BY <1>0, WriterFacts DEF Writing
  <1>3. now[t] \in Cached /\ currentSize + meta[now[t]].len <= MaxCache
    BY <1>0, <1>2 DEF LocalInv
  <1>4. IsFiniteSet(Cached) /\ \A m \in Cached : meta[m].len \in Nat
    BY CachedFinite, AddedFinite
  <1>5. currentSize' = LenSum(meta, Cached) /\ currentSize' \in 0..MaxCache
    <2>1. LenSum(meta, Cached \ {now[t]}) \in Nat
          /\ LenSum(meta, Cached) = meta[now[t]].len + LenSum(meta, Cached \ {now[t]})
      BY <1>3, <1>4, LenSumRemove
    <2> QED BY <2>1, <1>1, <1>2, <1>3, <1>4, SizesAssumption DEF SizeInv
  <1>6. LocalType' /\ StoreType'
    BY <1>0, <1>1, <1>5 DEF LocalType, StoreType, Labels, Live
  <1>7. ASSUME NEW u \in Threads PROVE LocalInv(u)'
    <2>1. LocalInv(u)
      OBVIOUS
    <2>2. CASE u = t
      BY <1>0, <1>1, <2>1, <2>2 DEF LocalInv, Live, Found, LocalType, Owning
    <2>3. CASE u # t
      <3>1. pc'[u] = pc[u] /\ pc[u] # "resize" /\ pc[u] # "index"
        BY <2>3, <1>0, <1>2 DEF LocalType, Writing
      <3> QED BY <2>1, <3>1, <1>1 DEF LocalInv, Live
    <2> QED BY <2>2, <2>3
  <1>8. OwnersApart' /\ ObjectsInv' /\ ChainsInv'
    BY <1>0, <1>1 DEF OwnersApart, ObjectsInv, ChainsInv, Live, Owning, LocalType
  <1>9. QueueInv'
    BY <1>0, <1>1 DEF QueueInv, LocalType
  <1>10. SizeInv'
    <2>1. Added' = Cached
      BY <1>0, <1>1, <1>2 DEF Added, At, LocalType, Writing
    <2> QED BY <2>1, <1>1, <1>5 DEF SizeInv
  <1> QED BY <1>6, <1>7, <1>8, <1>9, <1>10

-------------------------------------------------------------------------------
(* The theorems.                                                           *)

LEMMA StoreInit == Init => StoreInv
  <1> SUFFICES ASSUME Init PROVE StoreInv
    OBVIOUS
  <1>1. Cached = {} /\ Added = {} /\ ToSet(queue) = {} /\ Live = {}
    BY DEF Init, Cached, ToSet, Added, Live
  <1>2. LocalType
    BY DEF Init, LocalType, Labels
  <1>3. StoreType
    BY <1>1, SizesAssumption DEF Init, StoreType
  <1>4. \A t \in Threads : LocalInv(t)
    BY DEF Init, LocalInv, Found, Owning
  <1>5. OwnersApart /\ ObjectsInv
    BY <1>1 DEF Init, OwnersApart, ObjectsInv, Owning
  <1>6. ChainsInv
    BY DEF Init, ChainsInv, ToSet, IsInjective
  <1>7. QueueInv
    BY <1>1 DEF Init, QueueInv, IsInjective
  <1>8. SizeInv
    BY <1>1, LenSumEmpty DEF Init, SizeInv
  <1> QED BY <1>2, <1>3, <1>4, <1>5, <1>6, <1>7, <1>8 DEF StoreInv

LEMMA StoreNext == LocksInv /\ StoreInv /\ [Next]_vars => StoreInv'
  <1> SUFFICES ASSUME LocksInv, StoreInv, [Next]_vars PROVE StoreInv'
    OBVIOUS
  <1>1. ASSUME UNCHANGED vars PROVE StoreInv'
    <2>1. /\ UNCHANGED <<pc, key, now, len, got, hashTable, queue, currentSize, meta>>
      BY <1>1 DEF vars, locks, store, local
    <2>2. Cached' = Cached /\ Added' = Added /\ Live' = Live
      BY <2>1 DEF Cached, Added, At, Live
    <2>3. \A t \in Threads : LocalInv(t)'
      BY <2>1, <2>2 DEF StoreInv, LocalInv
    <2>4. LocalType' /\ StoreType' /\ OwnersApart' /\ ObjectsInv' /\ ChainsInv'
      BY <2>1, <2>2 DEF StoreInv, LocalType, StoreType, OwnersApart, ObjectsInv, ChainsInv
    <2>5. QueueInv' /\ SizeInv'
      BY <2>1, <2>2 DEF StoreInv, QueueInv, SizeInv
    <2> QED BY <2>3, <2>4, <2>5 DEF StoreInv
  <1>2. ASSUME NEW t \in Threads, Retrieve(t) PROVE StoreInv'
    <2>1. CASE Unlink(t)
      BY <2>1, UnlinkKeeps
    <2>2. CASE Relink(t)
      BY <2>2, RelinkKeeps
    <2>3. CASE Quiet(t)
      BY <2>3, QuietActions
    <2> QED BY <1>2, <2>1, <2>2, <2>3 DEF Retrieve, Quiet
  <1>3. ASSUME NEW t \in Threads, Insert(t) PROVE StoreInv'
    <2>1. CASE Quiet(t)
      BY <2>1, QuietActions
    <2> QED BY <1>3, <2>1, PackKeeps, EvictKeeps, PushFrontKeeps, CreateIndexKeeps, ResizeKeeps
            DEF Insert, Quiet
  <1>4. ASSUME NEW t \in Threads, NEW k \in Keys, Start(t, k) PROVE StoreInv'
    <2>1. Quiet(t)
      BY <1>4 DEF Quiet
    <2> QED BY <2>1, QuietActions
  <1> QED BY <1>1, <1>2, <1>3, <1>4 DEF Next, Arrive

\* In every reachable state the whole invariant holds.
THEOREM CacheInvariant == SafeSpec => [](LocksInv /\ StoreInv)
  <1>1. Init => LocksInv /\ StoreInv
    BY LocksInit, StoreInit
  <1>2. LocksInv /\ StoreInv /\ [Next]_vars => (LocksInv /\ StoreInv)'
    BY LocksNext, StoreNext
  <1> QED BY <1>1, <1>2, PTL DEF SafeSpec

\* The three semaphores admit what the comments of cache.c rely on: readers as
\* a group or one writer, and one thread at a time in each of the short
\* critical sections, for any number of service threads.
THEOREM LocksAreHeld == SafeSpec => []LocksHeld
  BY CacheInvariant, LocksInvGivesLocksHeld, PTL

\* The threads never all wait for one another's semaphores, for any number of
\* them.  If all did, none would be at the queue, so queue_lock would be free,
\* and none would write.  With index_lock free, the one that holds mutex goes
\* on.  With index_lock taken some reader waits for mutex; the one that holds
\* it would be a first reader waiting for index_lock, of which there is none
\* while others read.
THEOREM NeverAllWait == SafeSpec => []SomeoneGoesOn
  <1>1. LocksInv => SomeoneGoesOn
    <2> SUFFICES ASSUME LocksInv,
                        NEW s \in Threads, pc[s] # "idle",
                        \A t \in Threads : pc[t] # "idle" => Waits(t)
                 PROVE  FALSE
      BY DEF SomeoneGoesOn
    <2>1. \A t \in Threads : pc[t] \in Labels
      BY DEF LocksInv
    <2>2. /\ mutex \in 0..1 /\ index_lock \in 0..1 /\ queue_lock \in 0..1
          /\ InM = 1 - mutex /\ InQ = 1 - queue_lock
          /\ index_lock = 1 <=> Rdg + Wrt = 0
          /\ Fst > 0 => Rdg = 0
      BY DEF LocksInv
    <2>3. \A t \in Threads : pc[t] \in {"idle", "enter", "leave", "first_in", "lock_index", "lock_queue"}
      BY DEF Waits
    <2>4. InQ = 0 /\ Wrt = 0
      <3>1. At(InQueue) = {} /\ At(Writing) = {}
        BY <2>3 DEF At, InQueue, Writing
      <3> QED BY <3>1, AtEmpty DEF InQ, Wrt
    <2>5. \A t \in Threads : pc[t] # "lock_queue"
      BY <2>2, <2>4 DEF Waits
    <2>6. mutex = 0 => \E t \in Threads : pc[t] = "first_in"
      <3> SUFFICES ASSUME mutex = 0 PROVE \E t \in Threads : pc[t] = "first_in"
        OBVIOUS
      <3>1. At(InMutex) # {}
        BY <2>2, AtEmpty DEF InM
      <3>2. PICK t \in Threads : pc[t] \in InMutex
        BY <3>1 DEF At
      <3> QED BY <2>3, <3>2 DEF InMutex
    <2>7. CASE index_lock = 1
      <3>1. \A t \in Threads : pc[t] \notin {"first_in", "lock_index"}
        BY <2>7 DEF Waits
      <3>2. mutex = 0
        BY <2>3, <2>5, <3>1 DEF Waits
      <3> QED BY <2>6, <3>1, <3>2
    <2>8. CASE index_lock = 0
      <3>1. Rdg # 0
        BY <2>2, <2>4, <2>8
      <3>2. PICK r \in Threads : pc[r] \in Reading
        <4>1. At(Reading) # {}
          BY <3>1, AtEmpty DEF Rdg
        <4> QED BY <4>1 DEF At
      <3>3. pc[r] = "leave"
        BY <2>3, <2>5, <3>2 DEF Reading, Counted
      <3>4. mutex = 0
        BY <3>3 DEF Waits
      <3>5. PICK t \in Threads : pc[t] = "first_in"
        BY <2>6, <3>4
      <3>6. Fst >= 1
        BY <3>5, AtSome DEF Fst, At
      <3> QED BY <2>2, <3>1, <3>6, CountsAreNat
    <2> QED BY <2>2, <2>7, <2>8
  <1> QED BY <1>1, CacheInvariant, PTL

\* The types, and with them that currentSize never wraps below zero and never
\* exceeds MAX_CACHE_SIZE.
THEOREM TypesAreKept == SafeSpec => []TypeOK
  <1>1. LocksInv /\ StoreInv => TypeOK
    <2> SUFFICES ASSUME LocksInv, StoreInv PROVE TypeOK
      OBVIOUS
    <2>1. reader_cnt \in 0..Cardinality(Threads)
      BY AtFinite, FS_CardinalityType, ThreadsAssumption DEF LocksInv, Cnt
    <2> QED BY <2>1 DEF LocksInv, StoreInv, LocalType, StoreType, TypeOK
  <1> QED BY <1>1, CacheInvariant, PTL

\* The recency queue and the hash chains agree whenever no writer is inside.
THEOREM IndexAgreesWithQueue == SafeSpec => []IndexMatchesQueue
  <1>1. LocksInv /\ StoreInv => IndexMatchesQueue
    <2> SUFFICES ASSUME LocksInv, StoreInv, At(Writing) = {}
                 PROVE  /\ ToSet(queue) \cup {now[t] : t \in At({"relink"})} = Cached
                        /\ Cached \subseteq Live
                        /\ IsInjective(queue) /\ \A t \in At({"relink"}) : now[t] \notin ToSet(queue)
                        /\ \A b \in DOMAIN hashTable :
                             /\ IsInjective(hashTable[b])
                             /\ \A m \in ToSet(hashTable[b]) : Bucket[meta[m].key] = b
      BY DEF IndexMatchesQueue
    <2>1. \A t \in Threads : pc[t] # "index"
      BY DEF At, Writing
    <2>2. ToSet(queue) \subseteq Cached /\ Cached \subseteq ToSet(queue) \cup {now[t] : t \in At({"relink"})}
      BY <2>1 DEF StoreInv, QueueInv, At
    <2>3. \A t \in At({"relink"}) : now[t] \in Cached
      BY BucketOfKey, CachedMembers DEF StoreInv, LocalInv, At, Found
    <2>4. Cached \subseteq Live
      BY CachedIsLive DEF StoreInv
    <2> QED BY <2>2, <2>3, <2>4 DEF StoreInv, QueueInv, ChainsInv, StoreType, At
  <1> QED BY <1>1, CacheInvariant, PTL

\* No thread follows a pointer to an object or a queue node that another one
\* has freed.
THEOREM NoUseAfterFree == SafeSpec => []NoFreedObject
  <1>1. LocksInv /\ StoreInv => NoFreedObject
    <2> SUFFICES ASSUME LocksInv, StoreInv PROVE NoFreedObject
      OBVIOUS
    <2>1. ASSUME NEW t \in Threads, pc[t] \in Found \cup {"scan"}
          PROVE  now[t] \in Cached \cup {NoMeta} /\ (pc[t] # "scan" => now[t] \in Cached)
      BY <2>1, BucketOfKey, CachedMembers DEF StoreInv, LocalInv, Found
    <2>2. Cached \subseteq Live
      BY CachedIsLive DEF StoreInv
    <2>3. ASSUME NEW t \in Threads, pc[t] = "unlink" PROVE now[t] \in ToSet(queue)
      <3>1. \A u \in Threads : pc[u] # "relink"
        BY <2>3, QueueHolderAlone DEF InQueue
      <3> QED BY <3>1, <2>1, <2>3 DEF StoreInv, QueueInv, Found
    <2>4. ASSUME NEW t \in Threads, pc[t] \in Writing \cup {"lock_index"} PROVE now[t] \in Live
      BY <2>4 DEF StoreInv, LocalInv, Writing, Owning
    <2> QED BY <2>1, <2>2, <2>3, <2>4 DEF NoFreedObject, At, Found
  <1> QED BY <1>1, CacheInvariant, PTL

\* currentSize is the length of what is cached, and there is always something
\* to evict when room is needed.
THEOREM SizeIsTheSum == SafeSpec => []SizeIsSum
  <1>1. LocksInv /\ StoreInv => SizeIsSum
    <2> SUFFICES ASSUME LocksInv, StoreInv PROVE SizeIsSum
      OBVIOUS
    <2>1. ASSUME At(Writing) = {}
          PROVE  currentSize = MapThenSumSet(LAMBDA m : meta[m].len, Cached)
      <3>1. Added = Cached
        BY <2>1 DEF Added, At, Writing
      <3> QED BY <3>1 DEF StoreInv, SizeInv, LenSum
    <2>2. \A t \in At({"room"}) : currentSize + len[t] > MaxCache => queue # <<>>
      BY RoomFindsVictim DEF At
    <2> QED BY <2>1, <2>2 DEF SizeIsSum
  <1> QED BY <1>1, CacheInvariant, PTL

\* What a hit copies answers the request, or one the request begins with.
THEOREM HitsAnswerTheRequest == SafeSpec => []HitIsOwnOrShorter
  <1>1. StoreInv => HitIsOwnOrShorter
    BY DEF StoreInv, LocalInv, HitIsOwnOrShorter
  <1> QED BY <1>1, CacheInvariant, PTL

-------------------------------------------------------------------------------
(* The cache implements AtomicCache.                                       *)

\* The list of responses the cache presents: what AtomicCache calls order.
Order == [i \in DOMAIN Ordered |-> meta[Ordered[i]]]

\* While no reader holds an object, the order is that of the queue.
LEMMA OrderedIsQueue ==
  ASSUME StoreInv, \A u \in Threads : pc[u] # "relink"
  PROVE  Ordered = queue
  BY DEF Ordered, Moving, At, StoreInv, StoreType

LEMMA OrderedWhileMoving ==
  ASSUME StoreInv, NEW t \in Threads, pc[t] = "relink", \A u \in Threads : pc[u] = "relink" => u = t
  PROVE  Ordered = <<now[t]>> \o queue
  <1>1. Moving = {t} /\ (CHOOSE u \in {t} : TRUE) = t
    BY DEF Moving, At
  <1> QED BY <1>1 DEF Ordered

LEMMA OrderIsMapped == Order = Mapped(meta, Ordered)
  BY DEF Order, Mapped

\* What the queue holds, and what a reader is moving, is live.
LEMMA OrderedIsLive ==
  ASSUME LocksInv, StoreInv
  PROVE  /\ Ordered \in Seq(Live) /\ IsInjective(Ordered) /\ ToSet(Ordered) \subseteq Live
         /\ queue \in Seq(Live) /\ ToSet(queue) \subseteq Live
  <1>1. ToSet(queue) \subseteq Live
    BY CachedIsLive DEF StoreInv, QueueInv, LocalInv, Owning
  <1>2. queue \in Seq(Live)
    <2>1. Len(queue) \in Nat /\ \A i \in 1..Len(queue) : queue[i] \in Live
      BY <1>1, ToSetOfSeq, LenProperties DEF StoreInv, StoreType
    <2> QED BY <2>1, SeqDef DEF StoreInv, StoreType
  <1>3. CASE \A u \in Threads : pc[u] # "relink"
    BY <1>1, <1>2, <1>3, OrderedIsQueue DEF StoreInv, QueueInv
  <1>4. ASSUME NEW t \in Threads, pc[t] = "relink"
        PROVE  Ordered \in Seq(Live) /\ IsInjective(Ordered) /\ ToSet(Ordered) \subseteq Live
    <2>1. \A u \in Threads : pc[u] = "relink" => u = t
      BY <1>4, QueueHolderAlone DEF InQueue
    <2>2. Ordered = <<now[t]>> \o queue
      BY <1>4, <2>1, OrderedWhileMoving
    <2>3. now[t] \in Live /\ now[t] \notin ToSet(queue)
      BY <1>4, BucketOfKey, CachedMembers, CachedIsLive DEF StoreInv, QueueInv, LocalInv, Found
    <2> QED BY <1>1, <1>2, <2>2, <2>3, ConsProperties DEF StoreInv, QueueInv
  <1> QED BY <1>1, <1>2, <1>3, <1>4

\* A step that leaves the list and what its objects hold alone is a stutter.
LEMMA OrderKept ==
  ASSUME LocksInv, StoreInv, Ordered' = Ordered, \A m \in Live : meta'[m] = meta[m]
  PROVE  Order' = Order
  <1>1. \A i \in DOMAIN Ordered : Ordered[i] \in Live
    BY OrderedIsLive
  <1> QED BY <1>1 DEF Order

\* What t does to its own locals leaves the list alone, unless it starts or
\* ends moving an object.
LEMMA OrderedKept ==
  ASSUME NEW CONSTANT t \in Threads, OthersStay(t), queue' = queue,
         pc[t] # "relink", pc'[t] # "relink"
  PROVE  Ordered' = Ordered
  <1>1. Moving' = Moving /\ \A u \in Moving : now'[u] = now[u]
    BY DEF Moving, At, OthersStay
  <1>2. CASE Moving = {}
    BY <1>1, <1>2 DEF Ordered
  <1>3. CASE Moving # {}
    BY <1>1, <1>3 DEF Ordered
  <1> QED BY <1>2, <1>3

LEMMA QuietStays ==
  ASSUME LocalType, NEW CONSTANT t \in Threads, Quiet(t)
  PROVE  OthersStay(t) /\ UNCHANGED store /\ pc[t] # "relink" /\ pc'[t] # "relink"
  <1> USE DEF LocalType, OthersStay, Goes, local, Return
  <1>1. ASSUME NEW k \in Keys, Start(t, k)
        PROVE  OthersStay(t) /\ UNCHANGED store /\ pc[t] # "relink" /\ pc'[t] # "relink"
    BY <1>1 DEF Start
  <1>2. CASE Enter(t) \/ CountIn(t) \/ FirstIn(t) \/ Entered(t)
    BY <1>2 DEF Enter, CountIn, FirstIn, Entered
  <1>3. CASE ScanFirst(t) \/ ScanNext(t) \/ ScanMiss(t) \/ ScanHit(t)
    BY <1>3 DEF ScanFirst, ScanNext, ScanMiss, ScanHit
  <1>4. CASE LockQueue(t) \/ UnlockQueue(t) \/ Copy(t) \/ Leave(t)
    BY <1>4 DEF LockQueue, UnlockQueue, Copy, Leave
  <1>5. CASE CountOut(t) \/ LeftWithout(t) \/ LeftWith(t)
    BY <1>5 DEF CountOut, LeftWithout, LeftWith
  <1>6. CASE LockIndex(t) \/ UnlockIndex(t)
    BY <1>6 DEF LockIndex, UnlockIndex
  <1>7. ASSUME NEW n \in Lens, Fetch(t, n) \/ FetchTooLong(t, n)
        PROVE  OthersStay(t) /\ UNCHANGED store /\ pc[t] # "relink" /\ pc'[t] # "relink"
    BY <1>7 DEF Fetch, FetchTooLong
  <1> QED BY <1>1, <1>2, <1>3, <1>4, <1>5, <1>6, <1>7 DEF Quiet

\* A step that neither moves, inserts nor evicts an object is a stutter.
LEMMA QuietStutters ==
  ASSUME LocksInv, StoreInv, NEW CONSTANT t \in Threads, Quiet(t)
  PROVE  Order' = Order
  <1>1. OthersStay(t) /\ UNCHANGED store /\ pc[t] # "relink" /\ pc'[t] # "relink"
    BY QuietStays DEF StoreInv
  <1>2. Ordered' = Ordered
    BY <1>1, OrderedKept DEF store
  <1> QED BY <1>1, <1>2, OrderKept DEF store

LEMMA WritingStutters ==
  ASSUME LocksInv, StoreInv, NEW CONSTANT t \in Threads, CreateIndex(t) \/ Resize(t)
  PROVE  Order' = Order
  <1>1. OthersStay(t) /\ UNCHANGED <<queue, meta>> /\ pc[t] # "relink" /\ pc'[t] # "relink"
    BY DEF CreateIndex, Resize, StoreInv, LocalType, OthersStay, Goes, local
  <1>2. Ordered' = Ordered
    BY <1>1, OrderedKept
  <1> QED BY <1>1, <1>2, OrderKept

LEMMA PackStutters ==
  ASSUME LocksInv, StoreInv, NEW CONSTANT t \in Threads,
         NEW CONSTANT reads \in Keys \cup {NoKey}, Pack(t, reads)
  PROVE  Order' = Order
  <1>1. OthersStay(t) /\ queue' = queue /\ pc[t] # "relink" /\ pc'[t] # "relink"
    BY DEF Pack, StoreInv, LocalType, OthersStay, Goes
  <1>2. \A a \in Live : meta'[a] = meta[a]
    BY DEF Pack
  <1>3. Ordered' = Ordered
    BY <1>1, OrderedKept
  <1> QED BY <1>2, <1>3, OrderKept

\* The object a reader puts back was at the front of the list already.
LEMMA RelinkStutters ==
  ASSUME LocksInv, StoreInv, NEW CONSTANT t \in Threads, Relink(t)
  PROVE  Order' = Order
  <1>1. pc[t] = "relink" /\ pc' = [pc EXCEPT ![t] = "unlock_queue"]
        /\ queue' = <<now[t]>> \o queue /\ UNCHANGED meta
    BY DEF Relink, Goes
  <1>2. \A u \in Threads : pc[u] = "relink" => u = t
    BY <1>1, QueueHolderAlone DEF InQueue
  <1>3. Ordered = <<now[t]>> \o queue
    BY <1>1, <1>2, OrderedWhileMoving
  <1>4. StoreInv' /\ \A u \in Threads : pc'[u] # "relink"
    BY <1>1, <1>2, RelinkKeeps DEF StoreInv, LocalType
  <1>5. Ordered' = queue'
    BY <1>4 DEF Ordered, Moving, At, StoreInv, StoreType
  <1> QED BY <1>1, <1>3, <1>5, OrderKept

\* A hit takes effect when its object leaves the queue: AtomicCache's Use.
LEMMA UnlinkUses ==
  ASSUME LocksInv, StoreInv, NEW CONSTANT t \in Threads, Unlink(t)
  PROVE  \E k \in DOMAIN Order : Order' = <<Order[k]>> \o RemoveAt(Order, k)
  <1>1. /\ pc[t] = "unlink" /\ pc' = [pc EXCEPT ![t] = "relink"]
        /\ queue' = RemoveFirst(queue, now[t]) /\ UNCHANGED <<meta, now>>
    BY DEF Unlink, Goes, local
  <1>2. \A u \in Threads : pc[u] # "relink"
    BY <1>1, QueueHolderAlone DEF InQueue
  <1>3. Ordered = queue
    BY <1>2, OrderedIsQueue
  <1>4. StoreInv' /\ now[t] \in ToSet(queue)
    BY UnlinkKeeps
  <1>5. Moving' = {t}
    BY <1>1, <1>2 DEF Moving, At, StoreInv, LocalType
  <1>6. Ordered' = <<now[t]>> \o RemoveFirst(queue, now[t])
    BY <1>1, <1>5 DEF Ordered
  <1>7. queue \in Seq(Live) /\ now[t] \in Live /\ IsInjective(queue)
    BY <1>4, OrderedIsLive DEF StoreInv, QueueInv
  <1>8. PICK k \in 1..Len(queue) : queue[k] = now[t]
    BY <1>4, <1>7, ToSetOfSeq
  <1>9. /\ Mapped(meta, RemoveFirst(queue, now[t])) = RemoveAt(Mapped(meta, queue), k)
        /\ RemoveFirst(queue, now[t]) \in Seq(Live)
    <2>1. Mapped(meta, RemoveFirst(queue, queue[k])) = RemoveAt(Mapped(meta, queue), k)
      BY <1>7, MappedRemove
    <2>2. RemoveFirst(queue, queue[k]) \in Seq(Live)
      BY <1>7, RemoveFirstProperties
    <2> QED BY <1>8, <2>1, <2>2
  <1>10. Order' = Mapped(meta, <<now[t]>> \o RemoveFirst(queue, now[t]))
    BY <1>1, <1>6 DEF Order, Mapped
  <1>11. Order' = <<meta[now[t]]>> \o RemoveAt(Mapped(meta, queue), k)
    <2> DEFINE r == RemoveFirst(queue, now[t])
    <2>1. r \in Seq(Live) /\ now[t] \in Live
      BY <1>7, <1>9
    <2> HIDE DEF r
    <2>2. Mapped(meta, <<now[t]>> \o r) = <<meta[now[t]]>> \o Mapped(meta, r)
      BY <2>1, MappedCons, ZenonT(60)
    <2> QED BY <2>2, <1>9, <1>10 DEF r
  <1>12. Order = Mapped(meta, queue) /\ k \in DOMAIN Order /\ Order[k] = meta[now[t]]
    BY <1>3, <1>7, <1>8 DEF Order, Mapped
  <1> QED BY <1>11, <1>12

\* While a writer is inside, the list is the queue and its total currentSize.
LEMMA TotalIsCurrentSize ==
  ASSUME LocksInv, StoreInv, NEW t \in Threads, pc[t] = "room"
  PROVE  Ordered = queue /\ LenSum(Order, DOMAIN Order) = currentSize
  <1>1. \A u \in Threads : pc[u] # "relink"
    BY WriterFacts DEF Writing, Found
  <1>2. Ordered = queue
    BY <1>1, OrderedIsQueue
  <1>3. ToSet(queue) = Cached /\ Added = Cached
    BY WriterFacts DEF Writing
  <1>4. queue \in Seq(Live) /\ ToSet(queue) \subseteq Live /\ IsInjective(queue)
    BY OrderedIsLive DEF StoreInv, QueueInv
  <1> DEFINE D == 1..Len(queue)
  <1>5. IsFiniteSet(D) /\ DOMAIN queue = D /\ DOMAIN Order = D
    BY <1>2, <1>4, FS_Interval, LenProperties DEF Order
  <1>6. \A i \in D : Order[i].len \in Nat /\ meta[queue[i]].len = Order[i].len
    <2>1. \A m \in Live : meta[m].len \in Nat
      BY DEF StoreInv, StoreType
    <2>2. \A i \in D : queue[i] \in Live /\ Order[i] = meta[queue[i]]
      BY <1>2, <1>4, <1>5 DEF Order
    <2> QED BY <2>1, <2>2
  <1>7. \A i, j \in D : queue[i] = queue[j] => i = j
    BY <1>4, <1>5 DEF IsInjective
  <1> HIDE DEF D
  <1>8. LenSum(meta, {queue[i] : i \in D}) = LenSum(Order, D)
    BY <1>5, <1>6, <1>7, LenSumRenamed
  <1>9. {queue[i] : i \in D} = ToSet(queue)
    BY <1>5 DEF ToSet
  <1> QED BY <1>2, <1>3, <1>5, <1>8, <1>9 DEF StoreInv, SizeInv

LEMMA AtomicTotal == Atomic!Total = LenSum(Order, DOMAIN Order)
  BY DEF Atomic!Total, Atomic!MapThenSumSet, Atomic!MapThenFoldSet, LenSum, MapThenSumSet,
         MapThenFoldSet, Order

\* Making room drops the first of the list, and only when the list is too long
\* for what may come: AtomicCache's Evict.
LEMMA EvictEvicts ==
  ASSUME LocksInv, StoreInv, NEW CONSTANT t \in Threads, EvictOne(t)
  PROVE  /\ 1 \in DOMAIN Order /\ Order' = RemoveAt(Order, 1)
         /\ LenSum(Order, DOMAIN Order) + MaxObject > MaxCache
  <1>1. /\ pc[t] = "room" /\ UNCHANGED <<pc, now, len>> /\ currentSize + len[t] > MaxCache
        /\ queue # <<>> /\ queue' = RemoveFirst(queue, Head(queue))
        /\ meta' = [a \in Live \ {Head(queue)} |-> meta[a]]
    BY DEF EvictOne, Victim, local
  <1>2. Ordered = queue /\ LenSum(Order, DOMAIN Order) = currentSize
    BY <1>1, TotalIsCurrentSize
  <1>3. LenSum(Order, DOMAIN Order) + MaxObject > MaxCache
    <2>1. len[t] <= MaxObject /\ len[t] \in Nat /\ currentSize \in Nat
      BY <1>1 DEF StoreInv, LocalInv, Owning, LocalType, StoreType
    <2> QED BY <2>1, <1>1, <1>2, SizesAssumption
  <1>4. queue \in Seq(Live) /\ IsInjective(queue)
    BY OrderedIsLive DEF StoreInv, QueueInv
  <1>5. 1 \in 1..Len(queue) /\ Head(queue) = queue[1]
    BY <1>1, <1>4
  <1> DEFINE r == RemoveFirst(queue, queue[1])
  <1>6. r \in Seq(Live) /\ ToSet(r) = ToSet(queue) \ {queue[1]}
    BY <1>4, <1>5, RemoveFirstProperties
  <1>7. Mapped(meta, r) = RemoveAt(Mapped(meta, queue), 1)
    BY <1>4, <1>5, MappedRemove
  <1>8. queue' = r
    BY <1>1, <1>5
  <1> HIDE DEF r
  <1>9. Ordered' = r
    <2>1. \A u \in Threads : pc'[u] # "relink"
      BY <1>1, WriterFacts DEF Writing, Found
    <2> QED BY <2>1, <1>6, <1>8 DEF Ordered, Moving, At
  <1>10. Order' = Mapped(meta, r)
    <2>1. ASSUME NEW i \in DOMAIN r PROVE r[i] \in Live \ {queue[1]}
      <3>1. i \in 1..Len(r) /\ r[i] \in Live
        BY <1>6
      <3>2. r[i] \in ToSet(r)
        BY <3>1, <1>6, ToSetOfSeq
      <3> QED BY <3>1, <3>2, <1>6
    <2>2. \A i \in DOMAIN r : meta'[r[i]] = meta[r[i]]
      BY <2>1, <1>1, <1>5
    <2> QED BY <2>2, <1>9 DEF Order, Mapped
  <1>11. Order = Mapped(meta, queue) /\ 1 \in DOMAIN Order
    BY <1>2, <1>4, <1>5 DEF Order, Mapped
  <1> QED BY <1>3, <1>7, <1>10, <1>11

\* An insert takes effect when its object is pushed: AtomicCache's Insert.
LEMMA PushInserts ==
  ASSUME LocksInv, StoreInv, NEW CONSTANT t \in Threads, PushFront(t)
  PROVE  LET r == meta[now[t]]
         IN  /\ r \in [key : Keys, reads : Keys \cup {NoKey}, len : Lens, body : Keys]
             /\ r.len <= MaxObject /\ LenSum(Order, DOMAIN Order) + r.len <= MaxCache
             /\ Order' = <<r>> \o Order
  <1>1. /\ pc[t] = "room" /\ pc' = [pc EXCEPT ![t] = "index"]
        /\ UNCHANGED <<meta, now, len>> /\ currentSize + len[t] <= MaxCache
        /\ queue' = <<now[t]>> \o queue
    BY DEF PushFront, Goes, local
  <1>2. Ordered = queue /\ LenSum(Order, DOMAIN Order) = currentSize
    BY <1>1, TotalIsCurrentSize
  <1>3. /\ now[t] \in Live /\ meta[now[t]].len = len[t] /\ len[t] \in Lens /\ len[t] <= MaxObject
    BY <1>1 DEF StoreInv, LocalInv, Owning
  <1>4. meta[now[t]] \in [key : Keys, reads : Keys \cup {NoKey}, len : Lens, body : Keys]
    BY <1>3 DEF StoreInv, StoreType
  <1>5. queue \in Seq(Live)
    BY OrderedIsLive
  <1>6. Ordered' = <<now[t]>> \o queue
    <2>1. \A u \in Threads : pc'[u] # "relink"
      BY <1>1, WriterFacts DEF Writing, Found, StoreInv, LocalType
    <2>2. <<now[t]>> \o queue \in Seq(Live)
      BY <1>3, <1>5, ConsProperties
    <2> QED BY <2>1, <2>2, <1>1 DEF Ordered, Moving, At
  <1>7. Order' = Mapped(meta, <<now[t]>> \o queue)
    BY <1>1, <1>6 DEF Order, Mapped
  <1>8. Order' = <<meta[now[t]]>> \o Mapped(meta, queue)
    BY <1>3, <1>5, <1>7, MappedCons, SMTT(60)
  <1>9. Order = Mapped(meta, queue)
    BY <1>2 DEF Order, Mapped
  <1> QED BY <1>1, <1>2, <1>3, <1>4, <1>8, <1>9

\* With any number of threads, hits, evictions and inserts act on the list as
\* if each were alone: every step of the cache is a step of AtomicCache or
\* leaves the list as it is.
THEOREM ActsAsAtomicCache == SafeSpec => ActsAtomically
  <1>1. Init => Atomic!Init
    <2> SUFFICES ASSUME Init PROVE Order = <<>>
      BY DEF Atomic!Init, Order
    <2>1. Ordered = <<>>
      BY DEF Init, Ordered, Moving, At
    <2> QED BY <2>1 DEF Order
  <1>2. LocksInv /\ StoreInv /\ [Next]_vars => Atomic!Next \/ Order' = Order
    <2> SUFFICES ASSUME LocksInv, StoreInv, [Next]_vars PROVE Atomic!Next \/ Order' = Order
      OBVIOUS
    <2>1. CASE UNCHANGED vars
      <3>1. Ordered' = Ordered /\ meta' = meta
        BY <2>1 DEF vars, store, local, Ordered, Moving, At
      <3> QED BY <3>1, OrderKept
    <2>2. ASSUME NEW t \in Threads, Unlink(t) PROVE Atomic!Next
      BY <2>2, UnlinkUses DEF Atomic!Next, Atomic!Use, Atomic!RemoveAt, RemoveAt, Order
    <2>3. ASSUME NEW t \in Threads, EvictOne(t) PROVE Atomic!Next
      <3>1. Atomic!Evict(1) /\ 1 \in DOMAIN Order
        BY <2>3, EvictEvicts, AtomicTotal DEF Atomic!Evict, Atomic!RemoveAt, RemoveAt, Order
      <3> QED BY <3>1 DEF Atomic!Next, Order
    <2>4. ASSUME NEW t \in Threads, PushFront(t) PROVE Atomic!Next
      <3>1. PICK r \in [key : Keys, reads : Keys \cup {NoKey}, len : Lens, body : Keys] :
               /\ r.len <= MaxObject /\ Atomic!Total + r.len <= MaxCache
               /\ Order' = <<r>> \o Order
        BY <2>4, PushInserts, AtomicTotal
      <3>2. Atomic!Insert(r)
        BY <3>1 DEF Atomic!Insert, Order
      <3> QED BY <3>2 DEF Atomic!Next
    <2>5. ASSUME NEW t \in Threads, Quiet(t) \/ Relink(t) \/ CreateIndex(t) \/ Resize(t)
          PROVE  Order' = Order
      BY <2>5, QuietStutters, RelinkStutters, WritingStutters
    <2>6. ASSUME NEW t \in Threads, NEW reads \in Keys \cup {NoKey}, Pack(t, reads)
          PROVE  Order' = Order
      BY <2>6, PackStutters
    <2>7. ASSUME NEW t \in Threads, Retrieve(t) PROVE Unlink(t) \/ Relink(t) \/ Quiet(t)
      BY <2>7 DEF Retrieve, Quiet
    <2>8. ASSUME NEW t \in Threads, Insert(t)
          PROVE  \/ EvictOne(t) \/ PushFront(t) \/ Quiet(t) \/ CreateIndex(t) \/ Resize(t)
                 \/ \E reads \in Keys \cup {NoKey} : Pack(t, reads)
      BY <2>8 DEF Insert, Quiet
    <2>9. ASSUME NEW t \in Threads, NEW k \in Keys, Start(t, k) PROVE Quiet(t)
      BY <2>9 DEF Quiet
    <2> QED
      BY <2>1, <2>2, <2>3, <2>4, <2>5, <2>6, <2>7, <2>8, <2>9 DEF Next, Arrive
  <1>3. LocksInv /\ StoreInv /\ [Next]_vars => [Atomic!Next]_Order
    BY <1>2
  <1> QED BY <1>1, <1>3, CacheInvariant, PTL DEF SafeSpec, ActsAtomically, Atomic!Spec, Order

===============================================================================
