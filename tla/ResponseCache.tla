---------------------------- MODULE ResponseCache ----------------------------
(***************************************************************************)
(* The proxy's response cache (proxylab_code/cache.c, cache.h, util.c) as  *)
(* the service threads use it from doit (server.c): each thread looks its  *)
(* request up and, on a miss, fetches the response and inserts it.         *)
(*                                                                         *)
(* Three semaphores protect it: mutex guards reader_cnt; index_lock is     *)
(* held by the readers as a group or by one inserting thread; queue_lock   *)
(* guards the recency queue between readers.  Every P, every V and every   *)
(* list operation is a step of its own.  The doubly linked lists of util.c *)
(* are sequences of objects, the head of a list its first element.         *)
(***************************************************************************)
EXTENDS Integers, Sequences, FiniteSets, SequencesExt, FiniteSetsExt, Functions

CONSTANTS Threads,      \* the service threads
          Keys,         \* the request keys doit builds
          Bucket,       \* the chain of the hash table each key falls in
          Longer,       \* for each key, the keys it is a proper prefix of
          NoKey,      \* a key no request has
          Lens,         \* the lengths a response may have
          Metas,        \* the addresses malloc may return for an object_meta
          NoMeta,       \* NULL, and the head of a hash chain
          MaxCache,     \* MAX_CACHE_SIZE
          MaxObject     \* MAX_OBJECT_SIZE

ASSUME ThreadsAssumption == IsFiniteSet(Threads)
ASSUME SizesAssumption ==
  MaxObject \in Nat /\ MaxCache \in Nat /\ MaxObject <= MaxCache /\ Lens \subseteq Nat
ASSUME KeysAssumption ==
  NoKey \notin Keys /\ Longer \in [Keys -> SUBSET Keys] /\ DOMAIN Bucket = Keys
ASSUME MetasAssumption == NoMeta \notin Metas

VARIABLES mutex, index_lock, queue_lock, reader_cnt,
          hashTable,    \* for each chain, its objects
          queue,        \* the recency queue, its first element first
          currentSize,
          meta,         \* the packed objects: address -> [key, reads, len, body]
          pc,           \* the label each thread is at
          key,          \* the request the thread serves
          now,          \* pNow / pMeta: the object it has reached or packed
          len,          \* the length of the response it fetched
          got           \* the response it copied from the cache, or NoKey

locks == <<mutex, index_lock, queue_lock, reader_cnt>>
store == <<hashTable, queue, currentSize, meta>>
local == <<key, now, len, got>>
vars  == <<locks, store, pc, local>>

Live == DOMAIN meta
Chain(k) == hashTable[Bucket[k]]

Init ==
  /\ mutex = 1 /\ index_lock = 1 /\ queue_lock = 1 /\ reader_cnt = 0
  /\ hashTable = [b \in Range(Bucket) |-> <<>>] /\ queue = <<>> /\ currentSize = 0
  /\ meta = [m \in {} |-> NoMeta]
  /\ pc  = [t \in Threads |-> "idle"]   /\ key = [t \in Threads |-> NoKey]
  /\ now = [t \in Threads |-> NoMeta]   /\ len = [t \in Threads |-> 0]
  /\ got = [t \in Threads |-> NoKey]

Goes(t, from, to) == pc[t] = from /\ pc' = [pc EXCEPT ![t] = to]

\* doit returns, and the thread's locals go out of scope.
Return(t) == /\ key' = [key EXCEPT ![t] = NoKey] /\ now' = [now EXCEPT ![t] = NoMeta]
             /\ len' = [len EXCEPT ![t] = 0]     /\ got' = [got EXCEPT ![t] = NoKey]

-------------------------------------------------------------------------------
(* cache_retrieve_if_possible.                                             *)

Start(t, k) == /\ Goes(t, "idle", "enter")
               /\ key' = [key EXCEPT ![t] = k]
               /\ UNCHANGED <<locks, store, now, len, got>>

Enter(t) == /\ Goes(t, "enter", "count_in")
            /\ mutex > 0 /\ mutex' = mutex - 1
            /\ UNCHANGED <<index_lock, queue_lock, reader_cnt, store, local>>

\* A fault: the second reader waits for index_lock, not the first.
CountInLate(t) == /\ Goes(t, "count_in", IF reader_cnt = 1 THEN "first_in" ELSE "entered")
                  /\ reader_cnt' = reader_cnt + 1
                  /\ UNCHANGED <<mutex, index_lock, queue_lock, store, local>>

CountIn(t) == /\ Goes(t, "count_in", IF reader_cnt = 0 THEN "first_in" ELSE "entered")
              /\ reader_cnt' = reader_cnt + 1
              /\ UNCHANGED <<mutex, index_lock, queue_lock, store, local>>

\* The first reader waits for index_lock while it holds mutex.
FirstIn(t) == /\ Goes(t, "first_in", "entered")
              /\ index_lock > 0 /\ index_lock' = index_lock - 1
              /\ UNCHANGED <<mutex, queue_lock, reader_cnt, store, local>>

Entered(t) == /\ Goes(t, "entered", "first")
              /\ mutex' = mutex + 1
              /\ UNCHANGED <<index_lock, queue_lock, reader_cnt, store, local>>

ScanFirst(t) == /\ Goes(t, "first", "scan")
                /\ now' = [now EXCEPT ![t] = IF Chain(key[t]) = <<>> THEN NoMeta
                                             ELSE Head(Chain(key[t]))]
                /\ UNCHANGED <<locks, store, key, len, got>>

\* A fault: only as much is compared as the request is long.
MatchesStart(t) == now[t] \in Live /\ meta[now[t]].reads \in {key[t]} \cup Longer[key[t]]

\* What strcmp reads of a stored key decides the match.
Matches(t) == now[t] \in Live /\ meta[now[t]].reads = key[t]

ScanNext(t) == /\ pc[t] = "scan" /\ now[t] # NoMeta /\ ~Matches(t)
               /\ LET c == Chain(key[t])
                      i == CHOOSE j \in DOMAIN c : c[j] = now[t]
                  IN now' = [now EXCEPT ![t] = IF i < Len(c) THEN c[i + 1] ELSE NoMeta]
               /\ UNCHANGED <<locks, store, pc, key, len, got>>

ScanMiss(t) == /\ Goes(t, "scan", "leave")
               /\ now[t] = NoMeta
               /\ UNCHANGED <<locks, store, local>>

ScanHit(t) == /\ Goes(t, "scan", "lock_queue")
              /\ now[t] # NoMeta /\ Matches(t)
              /\ UNCHANGED <<locks, store, local>>

LockQueue(t) == /\ Goes(t, "lock_queue", "unlink")
                /\ queue_lock > 0 /\ queue_lock' = queue_lock - 1
                /\ UNCHANGED <<mutex, index_lock, reader_cnt, store, local>>

Unlink(t) == /\ Goes(t, "unlink", "relink")
             /\ queue' = RemoveFirst(queue, now[t])
             /\ UNCHANGED <<locks, hashTable, currentSize, meta, local>>

Relink(t) == /\ Goes(t, "relink", "unlock_queue")
             /\ queue' = <<now[t]>> \o queue
             /\ UNCHANGED <<locks, hashTable, currentSize, meta, local>>

UnlockQueue(t) == /\ Goes(t, "unlock_queue", "copy")
                  /\ queue_lock' = queue_lock + 1
                  /\ UNCHANGED <<mutex, index_lock, reader_cnt, store, local>>

Copy(t) == /\ Goes(t, "copy", "leave")
           /\ got' = [got EXCEPT ![t] = meta[now[t]].body]
           /\ UNCHANGED <<locks, store, key, now, len>>

Leave(t) == /\ Goes(t, "leave", "count_out")
            /\ mutex > 0 /\ mutex' = mutex - 1
            /\ UNCHANGED <<index_lock, queue_lock, reader_cnt, store, local>>

\* A fault: the reader is not counted out.
CountOutNot(t) == /\ Goes(t, "count_out", "left")
                  /\ UNCHANGED <<locks, store, local>>

\* A fault: every reader gives index_lock back.
CountOutEach(t) == /\ Goes(t, "count_out", "left")
                   /\ reader_cnt' = reader_cnt - 1
                   /\ index_lock' = index_lock + 1
                   /\ UNCHANGED <<mutex, queue_lock, store, local>>

\* The last reader gives index_lock back in the same step: V never blocks.
CountOut(t) == /\ Goes(t, "count_out", "left")
               /\ reader_cnt' = reader_cnt - 1
               /\ index_lock' = IF reader_cnt = 1 THEN index_lock + 1 ELSE index_lock
               /\ UNCHANGED <<mutex, queue_lock, store, local>>

\* A fault: mutex is not given back.
LeftWithoutUnlock(t) == /\ Goes(t, "left", "fetch")
                        /\ got[t] = NoKey
                        /\ UNCHANGED <<locks, store, local>>

LeftWithout(t) == /\ Goes(t, "left", "fetch")
                  /\ got[t] = NoKey
                  /\ mutex' = mutex + 1
                  /\ UNCHANGED <<index_lock, queue_lock, reader_cnt, store, local>>

\* A hit: doit sends what was copied and returns.
LeftWith(t) == /\ Goes(t, "left", "idle")
               /\ got[t] # NoKey
               /\ mutex' = mutex + 1
               /\ Return(t)
               /\ UNCHANGED <<index_lock, queue_lock, reader_cnt, store>>

-------------------------------------------------------------------------------
(* doit after a miss, and cache_insert_if_possible.                        *)

\* The remote's response has arrived, whole or as far as the connection went.
\* doit caches it unless it is too long for the buffer.
Fetch(t, n) == /\ Goes(t, "fetch", "pack")
               /\ n <= MaxObject
               /\ len' = [len EXCEPT ![t] = n]
               /\ UNCHANGED <<locks, store, key, now, got>>

FetchTooLong(t, n) == /\ Goes(t, "fetch", "idle")
                      /\ n > MaxObject
                      /\ Return(t)
                      /\ UNCHANGED <<locks, store>>

\* pack_object copies the key without its terminating NUL.  What strcmp later
\* reads of it goes on into what malloc left behind: nothing, so the key
\* itself; the rest of a longer key; or bytes no request matches.
Pack(t, reads) ==
  /\ Goes(t, "pack", "lock_index")
  /\ reads \in {key[t], NoKey} \cup Longer[key[t]]
  /\ \E m \in Metas \ Live :
        /\ now' = [now EXCEPT ![t] = m]
        /\ meta' = [a \in Live \cup {m} |->
             IF a = m THEN [key |-> key[t], reads |-> reads, len |-> len[t], body |-> key[t]]
             ELSE meta[a]]
  /\ UNCHANGED <<locks, hashTable, queue, currentSize, key, len, got>>

\* A fault: index_lock is not taken.
LockIndexNot(t) == /\ Goes(t, "lock_index", "room")
                   /\ UNCHANGED <<locks, store, local>>

LockIndex(t) == /\ Goes(t, "lock_index", "room")
                /\ index_lock > 0 /\ index_lock' = index_lock - 1
                /\ UNCHANGED <<mutex, queue_lock, reader_cnt, store, local>>

\* evict_one_by_LRU takes the first element of the queue.
Victim == Head(queue)

\* A fault: the hash chain keeps the object.
EvictFromQueue(t) ==
  /\ pc[t] = "room" /\ currentSize + len[t] > MaxCache
  /\ queue # <<>>
  /\ queue' = RemoveFirst(queue, Victim)
  /\ currentSize' = currentSize - meta[Victim].len
  /\ meta' = [a \in Live \ {Victim} |-> meta[a]]
  /\ UNCHANGED <<locks, hashTable, pc, local>>

\* A fault: currentSize is not reduced.
EvictUncounted(t) ==
  /\ pc[t] = "room" /\ currentSize + len[t] > MaxCache
  /\ queue # <<>>
  /\ queue' = RemoveFirst(queue, Victim)
  /\ hashTable' = [hashTable EXCEPT ![Bucket[meta[Victim].key]] = RemoveFirst(@, Victim)]
  /\ meta' = [a \in Live \ {Victim} |-> meta[a]]
  /\ UNCHANGED <<locks, currentSize, pc, local>>

EvictOne(t) ==
  /\ pc[t] = "room" /\ currentSize + len[t] > MaxCache
  /\ queue # <<>>
  /\ queue' = RemoveFirst(queue, Victim)
  /\ hashTable' = [hashTable EXCEPT ![Bucket[meta[Victim].key]] = RemoveFirst(@, Victim)]
  /\ currentSize' = currentSize - meta[Victim].len
  /\ meta' = [a \in Live \ {Victim} |-> meta[a]]
  /\ UNCHANGED <<locks, pc, local>>

\* A fault: the object is inserted at the rear.
PushRear(t) == /\ Goes(t, "room", "index")
               /\ currentSize + len[t] <= MaxCache
               /\ queue' = Append(queue, now[t])
               /\ UNCHANGED <<locks, hashTable, currentSize, meta, local>>

PushFront(t) == /\ Goes(t, "room", "index")
                /\ currentSize + len[t] <= MaxCache
                /\ queue' = <<now[t]>> \o queue
                /\ UNCHANGED <<locks, hashTable, currentSize, meta, local>>

CreateIndex(t) == /\ Goes(t, "index", "resize")
                  /\ hashTable' = [hashTable EXCEPT ![Bucket[key[t]]] = <<now[t]>> \o @]
                  /\ UNCHANGED <<locks, queue, currentSize, meta, local>>

\* A fault: currentSize is not increased.
ResizeNot(t) == /\ Goes(t, "resize", "unlock_index")
                /\ UNCHANGED <<locks, store, local>>

Resize(t) == /\ Goes(t, "resize", "unlock_index")
             /\ currentSize' = currentSize + meta[now[t]].len
             /\ UNCHANGED <<locks, hashTable, queue, meta, local>>

UnlockIndex(t) == /\ Goes(t, "unlock_index", "idle")
                  /\ index_lock' = index_lock + 1
                  /\ Return(t)
                  /\ UNCHANGED <<mutex, queue_lock, reader_cnt, store>>

-------------------------------------------------------------------------------
Retrieve(t) == \/ Enter(t) \/ CountIn(t) \/ FirstIn(t) \/ Entered(t)
               \/ ScanFirst(t) \/ ScanNext(t) \/ ScanMiss(t) \/ ScanHit(t)
               \/ LockQueue(t) \/ Unlink(t) \/ Relink(t) \/ UnlockQueue(t) \/ Copy(t)
               \/ Leave(t) \/ CountOut(t) \/ LeftWithout(t) \/ LeftWith(t)

Insert(t) == \/ \E n \in Lens : Fetch(t, n) \/ FetchTooLong(t, n)
             \/ \E reads \in Keys \cup {NoKey} : Pack(t, reads)
             \/ LockIndex(t) \/ EvictOne(t) \/ PushFront(t) \/ CreateIndex(t)
             \/ Resize(t) \/ UnlockIndex(t)

Arrive == \E t \in Threads, k \in Keys : Start(t, k)

Next == Arrive \/ \E t \in Threads : Retrieve(t) \/ Insert(t)

SafeSpec == Init /\ [][Next]_vars

-------------------------------------------------------------------------------
(* Properties.                                                             *)

Labels == {"idle", "enter", "count_in", "first_in", "entered", "first", "scan",
           "lock_queue", "unlink", "relink", "unlock_queue", "copy", "leave",
           "count_out", "left", "fetch", "pack", "lock_index", "room", "index",
           "resize", "unlock_index"}

TypeOK ==
  /\ mutex \in 0..1 /\ index_lock \in 0..1 /\ queue_lock \in 0..1
  /\ reader_cnt \in 0..Cardinality(Threads)
  /\ DOMAIN hashTable = Range(Bucket) /\ \A b \in Range(Bucket) : hashTable[b] \in Seq(Metas)
  /\ queue \in Seq(Metas) /\ currentSize \in 0..MaxCache
  /\ Live \subseteq Metas
  /\ \A m \in Live : meta[m] \in [key : Keys, reads : Keys \cup {NoKey}, len : Nat, body : Keys]
  /\ pc \in [Threads -> Labels] /\ key \in [Threads -> Keys \cup {NoKey}]
  /\ now \in [Threads -> Metas \cup {NoMeta}] /\ len \in [Threads -> Nat]
  /\ got \in [Threads -> Keys \cup {NoKey}]

At(labels) == {t \in Threads : pc[t] \in labels}

InMutex  == {"count_in", "first_in", "entered", "count_out", "left"}
Counted  == {"first_in", "entered", "first", "scan", "lock_queue", "unlink", "relink",
             "unlock_queue", "copy", "leave", "count_out"}
Reading  == Counted \ {"first_in"}
InQueue  == {"unlink", "relink", "unlock_queue"}
Writing  == {"room", "index", "resize", "unlock_index"}

\* reader_cnt counts the readers; index_lock is held by them together or by
\* one writer; mutex and queue_lock each by at most one thread.  A thread that
\* has index_lock for itself finds queue_lock free, so it need not take it:
\* that is what the comment at cache.c:75 relies on.
LocksHeld ==
  /\ Cardinality(At(InMutex)) = 1 - mutex
  /\ Cardinality(At(InQueue)) = 1 - queue_lock
  /\ reader_cnt = Cardinality(At(Counted))
  /\ index_lock = 1 <=> At(Reading) \cup At(Writing) = {}
  /\ Cardinality(At(Writing)) <= 1
  /\ At(Writing) # {} => At(Reading) = {} /\ queue_lock = 1

Cached == UNION {ToSet(hashTable[b]) : b \in DOMAIN hashTable}

\* With no writer inside, the recency queue and the hash chains hold the same
\* live objects, each once; the one a reader is moving to the front is only
\* in its chain.
IndexMatchesQueue ==
  At(Writing) = {} =>
    /\ ToSet(queue) \cup {now[t] : t \in At({"relink"})} = Cached
    /\ Cached \subseteq Live
    /\ IsInjective(queue) /\ \A t \in At({"relink"}) : now[t] \notin ToSet(queue)
    /\ \A b \in DOMAIN hashTable :
         /\ IsInjective(hashTable[b])
         /\ \A m \in ToSet(hashTable[b]) : Bucket[meta[m].key] = b

\* No thread follows a pointer to an object another one has freed, or unlinks
\* a queue node that is not linked.
NoFreedObject ==
  /\ \A t \in At({"scan", "lock_queue", "unlink", "relink", "unlock_queue", "copy"}) :
       now[t] \in Live \cup {NoMeta}
  /\ \A t \in At({"unlink"}) : now[t] \in ToSet(queue)
  /\ \A t \in At(Writing \cup {"lock_index"}) : now[t] \in Live

\* With no writer inside, currentSize is the length of what is cached, so it
\* never wraps and never exceeds MAX_CACHE_SIZE; and a writer that needs room
\* always finds an object to evict (cache.c:54-79).
SizeIsSum ==
  /\ At(Writing) = {} => currentSize = MapThenSumSet(LAMBDA m : meta[m].len, Cached)
  /\ \A t \in At({"room"}) : currentSize + len[t] > MaxCache => queue # <<>>

\* A hit copies the response to the same request or, since stored keys have no
\* terminator (cache.c:46-50), to one the request begins with, never that of a
\* longer request or of an object that has since taken the address.
HitIsOwnOrShorter ==
  \A t \in Threads : got[t] # NoKey => got[t] = key[t] \/ key[t] \in Longer[got[t]]

\* t is at a P whose semaphore is not free.
Waits(t) == \/ pc[t] \in {"enter", "leave"} /\ mutex = 0
            \/ pc[t] \in {"first_in", "lock_index"} /\ index_lock = 0
            \/ pc[t] = "lock_queue" /\ queue_lock = 0

\* No order of the three semaphores (cache.c:70-121) leaves the threads waiting
\* for one another: the first reader waits for index_lock with mutex in its
\* hands, which the last reader needs, and still, of the threads that serve a
\* request one does not wait.  A request has finitely many steps, so all of them
\* are served once no more arrive.
SomeoneGoesOn ==
  LET busy == {t \in Threads : pc[t] # "idle"}
  IN  busy # {} => \E t \in busy : ~Waits(t)

-------------------------------------------------------------------------------
(* The cache implements AtomicCache: a hit takes effect when its object is *)
(* unlinked from the queue, an insert when it is pushed to the front.      *)
Moving == At({"relink"})

\* The object being moved to the front, and then the queue.
Ordered == (IF Moving = {} THEN <<>> ELSE <<now[CHOOSE t \in Moving : TRUE]>>) \o queue

Atomic == INSTANCE AtomicCache WITH
  Responses <- [key : Keys, reads : Keys \cup {NoKey}, len : Lens, body : Keys],
  order     <- [i \in DOMAIN Ordered |-> meta[Ordered[i]]]

\* Concurrent hits, evictions and inserts each act on the recency list as if
\* they were alone: no hit is lost to another or resurrects a dropped object.
ActsAtomically == Atomic!Spec

-------------------------------------------------------------------------------
(* What the comments say and the code does not do.                         *)

\* cache.h:13 says that the object at the rear of the queue is evicted, the
\* one not used for longest.
EvictsFromRear ==
  [][\A t \in Threads : EvictOne(t) => queue' = SubSeq(queue, 1, Len(queue) - 1)]_vars
===============================================================================
