---------------------------- MODULE CacheSimProofs ----------------------------
(***************************************************************************)
(* Proofs about CacheSim, for every geometry of the cache that parseOp can *)
(* mask (MasksAssumption) and every trace: its variables keep their types, *)
(* and what it counts is what a cache with least recently used replacement *)
(* does.                                                                   *)
(***************************************************************************)
EXTENDS CacheSim, LibraryLemmas

-------------------------------------------------------------------------------
(* The parts of an address.                                                *)

\* An address is Tag, SetIndex and an offset put together again.
LEMMA PartsOfNumber ==
  ASSUME NEW a \in Nat, NEW B \in Nat \ {0}, NEW S \in Nat \ {0}
  PROVE  /\ (a \div B) % S \in 0..S - 1
         /\ a - (a % (S * B)) \in Nat
         /\ B * ((a - (a % (S * B))) \div B) = a - (a % (S * B))
         /\ a \div B = ((a - (a % (S * B))) \div B) + ((a \div B) % S)
  <1> DEFINE q == a \div B
             r == a % B
             p == q \div S
             s == q % S
  <1>1. q \in Nat /\ r \in 0..B - 1 /\ a = (B * q) + r
    OBVIOUS
  <1>2. p \in Nat /\ s \in 0..S - 1 /\ q = (S * p) + s
    BY <1>1
  <1>3. S * B \in Nat \ {0}
    OBVIOUS
  <1> HIDE DEF p, s
  <1>4. a = ((S * B) * p) + ((B * s) + r)
    <2>1. a = (B * ((S * p) + s)) + r
      BY <1>1, <1>2
    <2> HIDE DEF q, r
    <2> QED BY <1>1, <1>2, <2>1
  <1>5. (B * s) + r \in Nat /\ (B * s) + r < S * B
    <2> HIDE DEF q, r
    <2>1. s + 1 <= S /\ s \in Nat
      BY <1>2
    <2>2. B * (s + 1) <= B * S
      BY <2>1
    <2> QED BY <1>1, <2>1, <2>2
  <1>6. a % (S * B) = (B * s) + r
    <2> DEFINE N == S * B
               t == (B * s) + r
    <2>1. N \in Nat \ {0} /\ t \in Nat /\ t < N /\ a = (N * p) + t
      BY <1>3, <1>4, <1>5
    <2> HIDE DEF N, t
    <2>2. a % N = t
      BY <1>2, <2>1
    <2> QED BY <2>2 DEF N, t
  <1>7. a - (a % (S * B)) = B * (S * p)
    <2> HIDE DEF q, r
    <2>1. a = (B * (S * p)) + ((B * s) + r) /\ s \in Nat /\ r \in Nat
      BY <1>1, <1>2, <1>4
    <2> QED BY <1>2, <1>6, <2>1
  <1>8. (B * (S * p)) \div B = S * p /\ S * p \in Nat
    BY <1>2
  <1>9. a \div B = (S * p) + s /\ (a \div B) % S = s
    BY <1>2 DEF s
  <1>10. B * (S * p) \in Nat
    BY <1>8
  <1> QED BY <1>2, <1>7, <1>8, <1>9, <1>10

LEMMA PartsOfAddress ==
  ASSUME NEW a \in Addresses
  PROVE  /\ a \in Nat /\ SetIndex(a) \in Sets /\ Tag(a) \in Nat
         /\ BlockCnt * (Tag(a) \div BlockCnt) = Tag(a)
         /\ a \div BlockCnt = (Tag(a) \div BlockCnt) + SetIndex(a)
  BY PartsOfNumber, SizesAssumption, AddressesAssumption, ZenonT(60) DEF SetIndex, Tag, Sets

-------------------------------------------------------------------------------
(* What an operation does to the lines: however it gets there, it leaves one  *)
(* line of the set with the block and a later order than any before.          *)

Line == [isValid : BOOLEAN, tag : Nat, accessOrder : Nat]

Table == [Sets -> [Lines -> Line]]

Loaded(tag, o) == [isValid |-> TRUE, tag |-> tag, accessOrder |-> o]

\* The lines l with the block in line i of set s.
Put(l, s, i, tag, o) == [l EXCEPT ![s][i] = Loaded(tag, o)]

Sim(l, o, t, c) == [lines |-> l, order |-> o, last |-> t, cnt |-> c]

LEMMA LineReordered ==
  ASSUME NEW x \in Line, NEW o
  PROVE  [x EXCEPT !.accessOrder = o] = [isValid |-> x.isValid, tag |-> x.tag, accessOrder |-> o]
  BY DEF Line

LEMMA PutProperties ==
  ASSUME NEW l \in Table, NEW s \in Sets, NEW i \in Lines, NEW tag \in Nat, NEW o \in Nat
  PROVE  /\ Put(l, s, i, tag, o) \in Table
         /\ Put(l, s, i, tag, o)[s] = [l[s] EXCEPT ![i] = Loaded(tag, o)]
         /\ \A x \in Sets \ {s} : Put(l, s, i, tag, o)[x] = l[x]
  <1>1. Loaded(tag, o) \in Line
    BY DEF Loaded, Line
  <1> HIDE DEF Line
  <1>2. Put(l, s, i, tag, o) \in Table
    BY <1>1 DEF Put, Table
  <1> QED BY <1>2 DEF Put, Table

LEMMA PutMatches ==
  ASSUME NEW l \in Table, NEW s \in Sets, NEW i \in Lines, NEW tag \in Nat, NEW o \in Nat,
         Matching(l[s], tag) \subseteq {i}
  PROVE  Matching(Put(l, s, i, tag, o)[s], tag) = {i}
  <1>1. Put(l, s, i, tag, o)[s] = [l[s] EXCEPT ![i] = Loaded(tag, o)]
    BY PutProperties
  <1>2. l[s] \in [Lines -> Line]
    BY DEF Table
  <1>3. \A k \in Lines : Put(l, s, i, tag, o)[s][k] = IF k = i THEN Loaded(tag, o) ELSE l[s][k]
    BY <1>1, <1>2
  <1> QED BY <1>3 DEF Matching, Loaded

LEMMA PutAgain ==
  ASSUME NEW l \in Table, NEW s \in Sets, NEW i \in Lines, NEW tag, NEW o, NEW n
  PROVE  Put(Put(l, s, i, tag, n), s, i, tag, o) = Put(l, s, i, tag, o)
  BY DEF Put, Table

LEMMA PutAfterEviction ==
  ASSUME NEW l \in Table, NEW s \in Sets, NEW i \in Lines, NEW tag, NEW o
  PROVE  /\ [l EXCEPT ![s][i].isValid = FALSE] \in Table
         /\ Put([l EXCEPT ![s][i].isValid = FALSE], s, i, tag, o) = Put(l, s, i, tag, o)
  <1>1. [l[s][i] EXCEPT !.isValid = FALSE] \in Line
    <2>1. l[s][i] \in Line
      BY DEF Table
    <2> QED BY <2>1 DEF Line
  <1> HIDE DEF Line
  <1>2. [l EXCEPT ![s][i].isValid = FALSE] \in Table
    BY <1>1 DEF Table
  <1>3. Put([l EXCEPT ![s][i].isValid = FALSE], s, i, tag, o) = Put(l, s, i, tag, o)
    BY DEF Put, Table
  <1> QED BY <1>2, <1>3

LEMMA UsedAtPuts ==
  ASSUME NEW l \in Table, NEW s \in Sets, NEW i \in Lines, NEW o,
         l[s][i].isValid
  PROVE  UsedAt(l, s, i, o) = Put(l, s, i, l[s][i].tag, o)
  <1>1. l[s][i] \in Line
    BY DEF Table
  <1>2. [l[s][i] EXCEPT !.accessOrder = o]
          = [isValid |-> l[s][i].isValid, tag |-> l[s][i].tag, accessOrder |-> o]
    BY <1>1, LineReordered
  <1>3. [l[s][i] EXCEPT !.accessOrder = o] = Loaded(l[s][i].tag, o)
    BY <1>1, <1>2 DEF Line, Loaded
  <1> QED BY <1>3 DEF Put, Table, UsedAt

LEMMA AccessHits ==
  ASSUME NEW l \in Table, NEW o \in Nat, NEW t, NEW c, NEW s \in Sets, NEW tag \in Nat,
         NEW i \in Lines, Matching(l[s], tag) = {i}
  PROVE  AccessCache(Sim(l, o, t, c), s, tag) = Sim(Put(l, s, i, tag, o + 1), o + 1, "HIT", c)
  <1>1. FirstMatching(l[s], tag) = i
    BY DEF Lines, FirstMatching
  <1>2. UsedAt(l, s, i, o + 1) = Put(l, s, i, tag, o + 1)
    <2>1. l[s][i].isValid /\ l[s][i].tag = tag
      BY DEF Matching
    <2> QED BY <2>1, UsedAtPuts
  <1>3. AccessCache(Sim(l, o, t, c), s, tag)
          = Sim(UsedAt(l, s, i, o + 1), o + 1, "HIT", c)
    BY <1>1 DEF AccessCache, Sim
  <1> QED BY <1>2, <1>3

LEMMA AccessMisses ==
  ASSUME NEW l \in Table, NEW o \in Nat, NEW t, NEW c, NEW s \in Sets, NEW tag \in Nat,
         Matching(l[s], tag) = {}
  PROVE  AccessCache(Sim(l, o, t, c), s, tag)
           = Sim(l, o + 1, IF Invalid(l[s]) # {} THEN "COLD_MISS" ELSE "CONFLICT_MISS", c)
  BY DEF AccessCache, Sim

LEMMA LoadPuts ==
  ASSUME NEW l \in Table, NEW o \in Nat, NEW t, NEW c, NEW s \in Sets, NEW tag \in Nat,
         NEW i \in Lines
  PROVE  LoadToCache(Sim(l, o, t, c), s, tag, i)
           = Sim(Put(l, s, i, tag, o + 1), o + 1, "WARMED_UP", c)
  BY DEF LoadToCache, Sim, Put, Loaded

LEMMA CountAndEvict ==
  ASSUME NEW l \in Table, NEW o, NEW t, NEW c, NEW s \in Sets, NEW i \in Lines
  PROVE  /\ Count(Sim(l, o, t, c)) = Sim(l, o, t, [c EXCEPT ![t] = @ + 1])
         /\ EvictCache(Sim(l, o, t, c), s, i)
              = Sim([l EXCEPT ![s][i].isValid = FALSE], o, "EVICTION", c)
  BY DEF Count, EvictCache, Sim

\* The search for a line ends with a free one, or with the one used longest ago.
LEMMA LineForUseProperties ==
  ASSUME NEW set \in [Lines -> Line]
  PROVE  /\ LineForUse(set) \in Lines
         /\ Invalid(set) # {} => LineForUse(set) \in Invalid(set)
         /\ Invalid(set) = {} =>
              \A k \in Lines : set[LineForUse(set)].accessOrder <= set[k].accessOrder
  <1>0. Lines \subseteq Nat /\ 0 \in Lines /\ \A i \in Lines : LineCnt - i \in Nat
    BY SizesAssumption DEF Lines
  <1>1. CASE Invalid(set) # {}
    <2> DEFINE T == {LineCnt - i : i \in Invalid(set)}
    <2>1. T \subseteq Nat /\ T # {}
      BY <1>0, <1>1 DEF Invalid
    <2>2. PICK n \in T : \A m \in T : n <= m
      BY <2>1, SmallestNat
    <2>3. PICK i \in Invalid(set) : n = LineCnt - i
      BY <2>2
    <2>4. \A k \in Invalid(set) : LineCnt - i <= LineCnt - k
      BY <2>2, <2>3
    <2>5. \A k \in Invalid(set) : k <= i
      BY <1>0, <2>3, <2>4, SizesAssumption DEF Invalid
    <2>6. LineForUse(set) \in Invalid(set)
      <3>1. LineForUse(set) = CHOOSE j \in Invalid(set) : \A k \in Invalid(set) : k <= j
        BY <1>1 DEF LineForUse
      <3> QED BY <2>3, <2>5, <3>1
    <2> QED BY <1>1, <2>6 DEF Invalid
  <1>2. CASE Invalid(set) = {}
    <2> DEFINE T == {set[i].accessOrder : i \in Lines}
    <2>1. \A i \in Lines : set[i].accessOrder \in Nat
      BY DEF Line
    <2>2. T \subseteq Nat /\ T # {}
      BY <1>0, <2>1
    <2>3. PICK n \in T : \A m \in T : n <= m
      BY <2>2, SmallestNat
    <2> DEFINE U == {i \in Lines : set[i].accessOrder = n}
    <2>4. U \subseteq Nat /\ U # {}
      BY <1>0, <2>3
    <2>5. PICK i \in U : \A k \in U : i <= k
      BY <2>4, SmallestNat
    <2>6. i \in Lines /\ \A k \in Lines : set[i].accessOrder <= set[k].accessOrder
      BY <2>3, <2>5
    <2>7. ASSUME NEW k \in 0..i - 1 PROVE set[k].accessOrder > set[i].accessOrder
      <3>1. k \in Lines /\ ~(i <= k)
        BY <2>6, SizesAssumption DEF Lines
      <3>2. k \notin U /\ set[k].accessOrder # set[i].accessOrder
        BY <2>5, <3>1
      <3> QED BY <2>1, <2>6, <3>1, <3>2
    <2>8. LineForUse(set) = CHOOSE j \in Lines :
              /\ \A k \in Lines : set[j].accessOrder <= set[k].accessOrder
              /\ \A k \in 0..j - 1 : set[k].accessOrder > set[j].accessOrder
      BY <1>2 DEF LineForUse
    <2>9. LineForUse(set) \in Lines
          /\ \A k \in Lines : set[LineForUse(set)].accessOrder <= set[k].accessOrder
      BY <2>6, <2>7, <2>8
    <2> QED BY <1>2, <2>9
  <1> QED BY <1>1, <1>2

\* How an access of a block ends: the line it uses and what is counted.
Outcome(set, tag, i, c, d) ==
  \/ /\ Matching(set, tag) = {i}
     /\ d = [c EXCEPT !["HIT"] = @ + 1]
  \/ /\ Matching(set, tag) = {} /\ i \in Invalid(set)
     /\ d = [c EXCEPT !["COLD_MISS"] = @ + 1]
  \/ /\ Matching(set, tag) = {} /\ Invalid(set) = {}
     /\ \A k \in Lines : set[i].accessOrder <= set[k].accessOrder
     /\ d = [[c EXCEPT !["CONFLICT_MISS"] = @ + 1] EXCEPT !["EVICTION"] = @ + 1]

LEMMA OutcomeCounts ==
  ASSUME NEW set, NEW tag, NEW i, NEW c \in [Counted -> Nat], NEW d, Outcome(set, tag, i, c, d)
  PROVE  d \in [Counted -> Nat] /\ [d EXCEPT !["HIT"] = @ + 1] \in [Counted -> Nat]
  BY DEF Outcome, Counted, States

\* What an access and the allocation after it add to the numbers printed.
LEMMA OutcomeNumbers ==
  ASSUME NEW set, NEW tag, NEW i, NEW c \in [Counted -> Nat], NEW d, Outcome(set, tag, i, c, d)
  PROVE  /\ d["HIT"] = c["HIT"] + (IF Matching(set, tag) # {} THEN 1 ELSE 0)
         /\ d["COLD_MISS"] + d["CONFLICT_MISS"]
              = c["COLD_MISS"] + c["CONFLICT_MISS"] + (IF Matching(set, tag) # {} THEN 0 ELSE 1)
         /\ d["EVICTION"] = c["EVICTION"]
                + (IF Matching(set, tag) = {} /\ Invalid(set) = {} THEN 1 ELSE 0)
  <1>1. Matching(set, tag) = {i} => Matching(set, tag) # {}
    OBVIOUS
  <1>2. i \in Invalid(set) => Invalid(set) # {}
    OBVIOUS
  <1> QED BY <1>1, <1>2 DEF Outcome, Counted, States

\* The access after a load hits the line that was loaded.
LEMMA LoadedIsHit ==
  ASSUME NEW l \in Table, NEW o \in Nat, NEW t, NEW d, NEW s \in Sets, NEW tag \in Nat,
         NEW i \in Lines, Matching(l[s], tag) = {}
  PROVE  AccessCache(LoadToCache(Sim(l, o, t, d), s, tag, i), s, tag)
           = Sim(Put(l, s, i, tag, o + 2), o + 2, "HIT", d)
  <1>1. LoadToCache(Sim(l, o, t, d), s, tag, i)
          = Sim(Put(l, s, i, tag, o + 1), o + 1, "WARMED_UP", d)
    BY LoadPuts
  <1>2. PICK u \in Nat : u = o + 1
    OBVIOUS
  <1> DEFINE p == Put(l, s, i, tag, u)
  <1>3. p \in Table /\ Matching(p[s], tag) = {i}
    <2>1. Matching(l[s], tag) \subseteq {i}
      OBVIOUS
    <2>2. Put(l, s, i, tag, u) \in Table
      BY PutProperties
    <2>3. Matching(Put(l, s, i, tag, u)[s], tag) = {i}
      BY <2>1, PutMatches
    <2> QED BY <2>2, <2>3
  <1>4. Put(p, s, i, tag, u + 1) = Put(l, s, i, tag, u + 1)
    BY PutAgain
  <1> HIDE DEF p
  <1>5. AccessCache(Sim(p, u, "WARMED_UP", d), s, tag)
          = Sim(Put(p, s, i, tag, u + 1), u + 1, "HIT", d)
    BY <1>3, AccessHits
  <1>6. u + 1 = o + 2
    BY <1>2
  <1> QED BY <1>1, <1>2, <1>4, <1>5, <1>6 DEF p

LEMMA AccessedProperties ==
  ASSUME cacheSet \in Table, accessOrder \in Nat, stateCnt \in [Counted -> Nat],
         NEW s \in Sets, NEW tag \in Nat,
         \A i, k \in Matching(cacheSet[s], tag) : i = k
  PROVE  \E i \in Lines, o \in Nat, d \in [Counted -> Nat] :
           /\ o > accessOrder
           /\ Accessed(s, tag) = Sim(Put(cacheSet, s, i, tag, o), o, "HIT", d)
           /\ Outcome(cacheSet[s], tag, i, stateCnt, d)
  <1> DEFINE set == cacheSet[s]
             n == accessOrder
  <1>0. Simulator = Sim(cacheSet, accessOrder, lastState, stateCnt) /\ set \in [Lines -> Line]
    BY DEF Simulator, Sim, Table
  <1>1. CASE Matching(set, tag) # {}
    <2>1. PICK i \in Lines : Matching(set, tag) = {i}
      BY <1>1 DEF Matching
    <2> DEFINE d == [stateCnt EXCEPT !["HIT"] = @ + 1]
    <2>2. AccessCache(Simulator, s, tag) = Sim(Put(cacheSet, s, i, tag, n + 1), n + 1, "HIT", stateCnt)
      BY <1>0, <2>1, AccessHits
    <2>3. Count(Sim(Put(cacheSet, s, i, tag, n + 1), n + 1, "HIT", stateCnt))
            = Sim(Put(cacheSet, s, i, tag, n + 1), n + 1, "HIT", d)
      BY DEF Count, Sim
    <2>4. Accessed(s, tag) = Sim(Put(cacheSet, s, i, tag, n + 1), n + 1, "HIT", d)
      BY <2>2, <2>3 DEF Accessed, Allocate, Sim
    <2>5. Outcome(set, tag, i, stateCnt, d)
      BY <2>1 DEF Outcome
    <2> QED BY <2>1, <2>4, <2>5, OutcomeCounts
  <1> DEFINE i == LineForUse(set)
             kind == IF Invalid(set) # {} THEN "COLD_MISS" ELSE "CONFLICT_MISS"
             c == [stateCnt EXCEPT ![kind] = @ + 1]
  <1>2. i \in Lines /\ (Invalid(set) # {} => i \in Invalid(set))
        /\ (Invalid(set) = {} => \A k \in Lines : set[i].accessOrder <= set[k].accessOrder)
    BY <1>0, LineForUseProperties
  <1>3. ASSUME Matching(set, tag) = {}
        PROVE  Accessed(s, tag) = Allocate(Sim(cacheSet, n + 1, kind, c), s, tag)
    <2>1. AccessCache(Simulator, s, tag) = Sim(cacheSet, n + 1, kind, stateCnt)
      BY <1>0, <1>3, AccessMisses
    <2>2. Count(Sim(cacheSet, n + 1, kind, stateCnt)) = Sim(cacheSet, n + 1, kind, c)
      BY DEF Count, Sim
    <2> QED BY <2>1, <2>2 DEF Accessed
  \* The block is loaded into line i of the lines l and accessed again.
  <1>4. ASSUME NEW l \in Table, NEW t, NEW d, Matching(l[s], tag) = {}
        PROVE  AccessCache(LoadToCache(Sim(l, n + 1, t, d), s, tag, i), s, tag)
                 = Sim(Put(l, s, i, tag, n + 3), n + 3, "HIT", d)
    <2>1. i \in Lines
      BY <1>2
    <2> HIDE DEF i
    <2>2. PICK o \in Nat : o = n + 1
      OBVIOUS
    <2>3. AccessCache(LoadToCache(Sim(l, o, t, d), s, tag, i), s, tag)
            = Sim(Put(l, s, i, tag, o + 2), o + 2, "HIT", d)
      BY <1>4, <2>1, LoadedIsHit
    <2> QED BY <2>2, <2>3
  <1>5. CASE Matching(set, tag) = {} /\ Invalid(set) # {}
    <2>1. Allocate(Sim(cacheSet, n + 1, kind, c), s, tag)
            = AccessCache(LoadToCache(Sim(cacheSet, n + 1, kind, c), s, tag, i), s, tag)
      BY <1>5 DEF Allocate, Sim
    <2>2. Accessed(s, tag) = Sim(Put(cacheSet, s, i, tag, n + 3), n + 3, "HIT", c)
      BY <1>3, <1>4, <1>5, <2>1
    <2>3. Outcome(set, tag, i, stateCnt, c)
      BY <1>2, <1>5 DEF Outcome
    <2>4. c \in [Counted -> Nat]
      <3> HIDE DEF c, i
      <3> QED BY <2>3, OutcomeCounts
    <2>5. n + 3 \in Nat /\ n + 3 > n
      OBVIOUS
    <2> HIDE DEF c, i
    <2> QED BY <1>2, <2>2, <2>3, <2>4, <2>5
  <1>6. CASE Matching(set, tag) = {} /\ Invalid(set) = {}
    <2> DEFINE l == [cacheSet EXCEPT ![s][i].isValid = FALSE]
               d == [c EXCEPT !["EVICTION"] = @ + 1]
    <2>1. Count(EvictCache(Sim(cacheSet, n + 1, kind, c), s, i)) = Sim(l, n + 1, "EVICTION", d)
      BY DEF Count, EvictCache, Sim
    <2>2. Allocate(Sim(cacheSet, n + 1, kind, c), s, tag)
            = AccessCache(LoadToCache(Sim(l, n + 1, "EVICTION", d), s, tag, i), s, tag)
      BY <1>6, <2>1 DEF Allocate, Sim
    <2>3. l \in Table /\ Matching(l[s], tag) = {}
          /\ Put(l, s, i, tag, n + 3) = Put(cacheSet, s, i, tag, n + 3)
      <3>1. l \in Table /\ Put(l, s, i, tag, n + 3) = Put(cacheSet, s, i, tag, n + 3)
        <4>1. i \in Lines
          BY <1>2
        <4> HIDE DEF i
        <4>2. [cacheSet EXCEPT ![s][i].isValid = FALSE] \in Table
          BY <4>1, PutAfterEviction
        <4>3. \A o \in Nat : Put(l, s, i, tag, o) = Put(cacheSet, s, i, tag, o)
          BY <4>1, PutAfterEviction
        <4>4. PICK o \in Nat : o = n + 3
          OBVIOUS
        <4> QED BY <4>2, <4>3, <4>4
      <3>2. Matching(l[s], tag) \subseteq Matching(set, tag)
        BY <1>2 DEF Matching, Table
      <3> QED BY <1>6, <3>1, <3>2
    <2>4. Accessed(s, tag) = Sim(Put(cacheSet, s, i, tag, n + 3), n + 3, "HIT", d)
      BY <1>3, <1>4, <1>6, <2>2, <2>3
    <2>5. Outcome(set, tag, i, stateCnt, d)
      BY <1>2, <1>6 DEF Outcome
    <2>6. d \in [Counted -> Nat]
      <3> HIDE DEF d, i
      <3> QED BY <2>5, OutcomeCounts
    <2>7. n + 3 \in Nat /\ n + 3 > n
      OBVIOUS
    <2> HIDE DEF d, i
    <2> QED BY <1>2, <2>4, <2>5, <2>6, <2>7
  <1> QED BY <1>1, <1>5, <1>6

-------------------------------------------------------------------------------
(* The order of use.                                                          *)

Valid(set) == {i \in Lines : set[i].isValid}

\* q lists the valid lines of a set, the one used last first.
Ranked(set, q) ==
  /\ q \in Seq(Lines) /\ IsInjective(q) /\ ToSet(q) = Valid(set)
  /\ \A m, n \in 1..Len(q) : m < n => set[q[m]].accessOrder > set[q[n]].accessOrder

\* What is left of a list without the element i.
LEMMA WithoutProperties ==
  ASSUME NEW S, NEW q \in Seq(S), IsInjective(q), NEW i
  PROVE  /\ RemoveFirst(q, i) \in Seq(S) /\ IsInjective(RemoveFirst(q, i))
         /\ ToSet(RemoveFirst(q, i)) = ToSet(q) \ {i}
         /\ \A m, n \in 1..Len(RemoveFirst(q, i)) : m < n =>
              \E x, y \in 1..Len(q) :
                x < y /\ RemoveFirst(q, i)[m] = q[x] /\ RemoveFirst(q, i)[n] = q[y]
  <1> DEFINE r == RemoveFirst(q, i)
  <1>0. Len(q) \in Nat /\ \A x : x \in ToSet(q) <=> \E k \in 1..Len(q) : q[k] = x
    BY ToSetOfSeq, LenProperties
  <1>1. CASE i \in ToSet(q)
    <2>1. PICK k \in 1..Len(q) : q[k] = i
      BY <1>0, <1>1
    <2>2. /\ r \in Seq(S) /\ Len(r) = Len(q) - 1 /\ IsInjective(r) /\ ToSet(r) = ToSet(q) \ {i}
          /\ \A m \in 1..Len(r) : r[m] = IF m < k THEN q[m] ELSE q[m + 1]
      BY <2>1, RemoveFirstProperties, SMTT(60)
    <2> HIDE DEF r
    <2>3. ASSUME NEW m \in 1..Len(r), NEW n \in 1..Len(r), m < n
          PROVE  \E x, y \in 1..Len(q) : x < y /\ r[m] = q[x] /\ r[n] = q[y]
      <3> DEFINE x == IF m < k THEN m ELSE m + 1
                 y == IF n < k THEN n ELSE n + 1
      <3>1. x \in 1..Len(q) /\ y \in 1..Len(q) /\ x < y
        BY <1>0, <2>2, <2>3
      <3>2. r[m] = q[x] /\ r[n] = q[y]
        BY <2>2
      <3> QED BY <3>1, <3>2
    <2> QED BY <2>2, <2>3 DEF r
  <1>2. CASE i \notin ToSet(q)
    <2>1. r = q
      BY <1>0, <1>2 DEF RemoveFirst
    <2> HIDE DEF r
    <2> QED BY <1>2, <2>1 DEF r
  <1> QED BY <1>1, <1>2

\* The line that is used moves to the front, the order of the others stays.
LEMMA RankedAfterUse ==
  ASSUME NEW set \in [Lines -> Line], NEW q, Ranked(set, q), NEW i \in Lines,
         NEW tag \in Nat, NEW o \in Nat, \A k \in Lines : set[k].accessOrder < o
  PROVE  Ranked([set EXCEPT ![i] = Loaded(tag, o)], <<i>> \o RemoveFirst(q, i))
  <1> DEFINE r == RemoveFirst(q, i)
             u == <<i>> \o r
             new == [set EXCEPT ![i] = Loaded(tag, o)]
  <1>1. /\ r \in Seq(Lines) /\ IsInjective(r) /\ ToSet(r) = Valid(set) \ {i}
        /\ \A m, n \in 1..Len(r) : m < n =>
              \E x, y \in 1..Len(q) : x < y /\ r[m] = q[x] /\ r[n] = q[y]
    BY WithoutProperties DEF Ranked
  <1> HIDE DEF r
  <1>2. /\ u \in Seq(Lines) /\ ToSet(u) = {i} \cup ToSet(r) /\ IsInjective(u)
        /\ Len(u) = Len(r) + 1 /\ u[1] = i /\ \A m \in 1..Len(r) : u[m + 1] = r[m]
    BY <1>1, ConsProperties
  <1> HIDE DEF u
  <1>3. \A k \in Lines : new[k] = IF k = i THEN Loaded(tag, o) ELSE set[k]
    OBVIOUS
  <1> HIDE DEF new
  <1>4. Valid(new) = {i} \cup Valid(set)
    BY <1>3 DEF Valid, Loaded
  <1>5. Len(r) \in Nat /\ \A m \in 1..Len(r) : r[m] \in Lines /\ r[m] # i
                          /\ new[r[m]].accessOrder = set[r[m]].accessOrder
    <2>1. Len(r) \in Nat /\ \A m \in 1..Len(r) : r[m] \in ToSet(r)
      BY <1>1, ToSetOfSeq, LenProperties
    <2>2. \A m \in 1..Len(r) : r[m] \in Lines /\ r[m] # i
      BY <1>1, <2>1 DEF Valid
    <2> QED BY <1>3, <2>1, <2>2
  <1>6. ASSUME NEW m \in 1..Len(u), NEW n \in 1..Len(u), m < n
        PROVE  new[u[m]].accessOrder > new[u[n]].accessOrder
    <2>1. n - 1 \in 1..Len(r) /\ (n - 1) + 1 = n
      BY <1>2, <1>5, <1>6
    <2>2. u[n] = r[n - 1] /\ new[u[n]].accessOrder = set[r[n - 1]].accessOrder
      BY <1>2, <1>5, <2>1
    <2>3. CASE m = 1
      <3>1. new[u[m]].accessOrder = o
        BY <1>2, <1>3, <2>3 DEF Loaded
      <3>2. set[r[n - 1]].accessOrder \in Nat /\ set[r[n - 1]].accessOrder < o
        BY <1>5, <2>1 DEF Line
      <3> QED BY <2>2, <3>1, <3>2
    <2>4. CASE m > 1
      <3>1. m - 1 \in 1..Len(r) /\ (m - 1) + 1 = m /\ m - 1 < n - 1
        BY <1>2, <1>5, <1>6, <2>4
      <3>2. u[m] = r[m - 1] /\ new[u[m]].accessOrder = set[r[m - 1]].accessOrder
        BY <1>2, <1>5, <3>1
      <3>3. PICK x, y \in 1..Len(q) : x < y /\ r[m - 1] = q[x] /\ r[n - 1] = q[y]
        BY <1>1, <2>1, <3>1
      <3>4. set[q[x]].accessOrder > set[q[y]].accessOrder
        BY <3>3 DEF Ranked
      <3> QED BY <2>2, <3>2, <3>3, <3>4
    <2> QED BY <2>3, <2>4
  <1>7. ToSet(u) = Valid(new)
    BY <1>1, <1>2, <1>4
  <1>8. Ranked(new, u)
    BY <1>2, <1>6, <1>7 DEF Ranked
  <1> QED BY <1>8 DEF new, u, r

-------------------------------------------------------------------------------
(* The invariant: a set holds a block at most once, and its valid lines have  *)
(* an order of use.                                                           *)

NoTagTwice(set) == \A i, k \in Valid(set) : set[i].tag = set[k].tag => i = k

IInv == /\ TypeOK
        /\ \A s \in Sets : NoTagTwice(cacheSet[s])
        /\ \A s \in Sets : \E q : Ranked(cacheSet[s], q)

LEMMA TypesUsed ==
  ASSUME TypeOK
  PROVE  /\ cacheSet \in Table /\ accessOrder \in Nat /\ stateCnt \in [Counted -> Nat]
         /\ \A s \in Sets, i \in Lines : cacheSet[s][i].accessOrder \in 0..accessOrder
  <1>1. \A a \in Addresses : Tag(a) \in Nat
    BY PartsOfAddress
  <1>2. LineType \subseteq Line
    <2>1. {0} \cup {Tag(a) : a \in Addresses} \subseteq Nat /\ 0..accessOrder \subseteq Nat
      BY <1>1
    <2> QED BY <2>1 DEF LineType, Line
  <1> HIDE DEF LineType, Line
  <1>3. cacheSet \in [Sets -> [Lines -> LineType]]
    BY DEF TypeOK
  <1>4. cacheSet \in Table
    BY <1>2, <1>3 DEF Table
  <1>5. ASSUME NEW s \in Sets, NEW i \in Lines PROVE cacheSet[s][i].accessOrder \in 0..accessOrder
    BY <1>3 DEF LineType
  <1> QED BY <1>4, <1>5 DEF TypeOK

\* A step uses one line; a MODIFY counts one more hit.
LEMMA StepProperties ==
  ASSUME IInv, NEW a \in Addresses,
         (\E op \in {"LOAD", "STORE"} : LoadOrStore(op, a)) \/ Modify(a)
  PROVE  \E i \in Lines, o \in Nat, d \in [Counted -> Nat] :
           /\ address' = a /\ optype' \in OpTypes
           /\ o > accessOrder /\ accessOrder' = o /\ lastState' = "HIT"
           /\ cacheSet' = Put(cacheSet, SetIndex(a), i, Tag(a), o)
           /\ Outcome(cacheSet[SetIndex(a)], Tag(a), i, stateCnt, d)
           /\ stateCnt' = IF optype' = "MODIFY" THEN [d EXCEPT !["HIT"] = @ + 1] ELSE d
  <1> DEFINE s == SetIndex(a)
             tag == Tag(a)
  <1>1. s \in Sets /\ tag \in Nat
    BY PartsOfAddress
  <1>2. cacheSet \in Table /\ accessOrder \in Nat /\ stateCnt \in [Counted -> Nat]
    BY TypesUsed DEF IInv
  <1>3. \A i, k \in Matching(cacheSet[s], tag) : i = k
    BY <1>1 DEF IInv, NoTagTwice, Matching, Valid
  <1> HIDE DEF s, tag
  <1>4. PICK i \in Lines, o \in Nat, d \in [Counted -> Nat] :
          /\ o > accessOrder
          /\ Accessed(s, tag) = Sim(Put(cacheSet, s, i, tag, o), o, "HIT", d)
          /\ Outcome(cacheSet[s], tag, i, stateCnt, d)
    BY <1>1, <1>2, <1>3, AccessedProperties
  <1>5. CASE \E op \in {"LOAD", "STORE"} : LoadOrStore(op, a)
    <2>1. address' = a /\ optype' \in {"LOAD", "STORE"} /\ Becomes(Accessed(s, tag))
      BY <1>5 DEF LoadOrStore, s, tag
    <2>2. cacheSet' = Put(cacheSet, s, i, tag, o) /\ accessOrder' = o /\ lastState' = "HIT"
          /\ stateCnt' = d
      BY <1>4, <2>1 DEF Becomes, Sim
    <2>3. stateCnt' = IF optype' = "MODIFY" THEN [d EXCEPT !["HIT"] = @ + 1] ELSE d
      BY <2>1, <2>2
    <2>4. address' = a /\ optype' \in OpTypes
      BY <2>1 DEF OpTypes
    <2> QED BY <1>4, <2>2, <2>3, <2>4 DEF s, tag
  <1>6. CASE Modify(a)
    <2>1. address' = a /\ optype' = "MODIFY"
          /\ Becomes(Count(AccessCache(Accessed(s, tag), s, tag)))
      BY <1>6 DEF Modify, s, tag
    <2> DEFINE p == Put(cacheSet, s, i, tag, o)
    <2>2. p \in Table /\ Matching(p[s], tag) = {i}
      <3>1. Matching(cacheSet[s], tag) \subseteq {i}
        BY <1>4 DEF Outcome
      <3>2. Matching(Put(cacheSet, s, i, tag, o)[s], tag) = {i}
        <4>1. PICK l \in Table : l = cacheSet
          BY <1>2
        <4>2. Matching(Put(l, s, i, tag, o)[s], tag) = {i}
          BY <1>1, <3>1, <4>1, PutMatches
        <4> QED BY <4>1, <4>2
      <3>3. Put(cacheSet, s, i, tag, o) \in Table
        BY <1>1, <1>2, PutProperties
      <3> QED BY <3>2, <3>3
    <2> HIDE DEF p
    <2>3. AccessCache(Sim(p, o, "HIT", d), s, tag) = Sim(Put(p, s, i, tag, o + 1), o + 1, "HIT", d)
      BY <1>1, <2>2, AccessHits
    <2>4. PICK n \in Nat : n = o + 1
      OBVIOUS
    <2>5. Put(p, s, i, tag, n) = Put(cacheSet, s, i, tag, n)
      BY <1>1, <1>2, PutAgain DEF p
    <2>6. Count(AccessCache(Accessed(s, tag), s, tag))
            = Sim(Put(cacheSet, s, i, tag, n), n, "HIT", [d EXCEPT !["HIT"] = @ + 1])
      BY <1>4, <2>3, <2>4, <2>5 DEF p, Count, Sim
    <2>7. cacheSet' = Put(cacheSet, s, i, tag, n) /\ accessOrder' = n /\ lastState' = "HIT"
          /\ stateCnt' = [d EXCEPT !["HIT"] = @ + 1]
      BY <2>1, <2>6 DEF Becomes, Sim
    <2>8. n > accessOrder
      BY <1>2, <1>4, <2>4
    <2>9. stateCnt' = IF optype' = "MODIFY" THEN [d EXCEPT !["HIT"] = @ + 1] ELSE d
      BY <2>1, <2>7
    <2>10. address' = a /\ optype' \in OpTypes
      BY <2>1 DEF OpTypes
    <2> QED BY <1>4, <2>7, <2>8, <2>9, <2>10 DEF s, tag
  <1> QED BY <1>5, <1>6

LEMMA IInvInit == Init => IInv
  <1> SUFFICES ASSUME Init PROVE IInv
    OBVIOUS
  <1>1. EmptyLine \in LineType /\ ~EmptyLine.isValid
    BY DEF Init, EmptyLine, LineType
  <1>2. \A s \in Sets, i \in Lines : cacheSet[s][i] = EmptyLine
    BY DEF Init
  <1>3. TypeOK
    <2>1. cacheSet \in [Sets -> [Lines -> LineType]]
      BY <1>1 DEF Init
    <2> QED BY <2>1 DEF Init, TypeOK, States
  <1>4. \A s \in Sets : Valid(cacheSet[s]) = {}
    BY <1>1, <1>2 DEF Valid
  <1>5. ASSUME NEW s \in Sets PROVE Ranked(cacheSet[s], <<>>)
    <2>1. <<>> \in Seq(Lines) /\ Len(<<>>) = 0 /\ ToSet(<<>>) = {} /\ IsInjective(<<>>)
      BY DEF ToSet, IsInjective
    <2> QED BY <1>4, <2>1, SMTT(60) DEF Ranked
  <1>6. \A s \in Sets : NoTagTwice(cacheSet[s])
    BY <1>4 DEF NoTagTwice
  <1> QED BY <1>3, <1>5, <1>6 DEF IInv

\* The invariant of the set that is used.
LEMMA SetAfterUse ==
  ASSUME NEW set \in [Lines -> Line], NEW i \in Lines, NEW tag \in Nat, NEW o,
         NoTagTwice(set), Matching(set, tag) \subseteq {i}
  PROVE  NoTagTwice([set EXCEPT ![i] = Loaded(tag, o)])
  BY DEF NoTagTwice, Valid, Matching, Loaded

LEMMA IInvNext == IInv /\ [Next]_vars => IInv'
  <1> SUFFICES ASSUME IInv, [Next]_vars PROVE IInv'
    OBVIOUS
  <1>1. CASE UNCHANGED vars
    BY <1>1 DEF vars, IInv, TypeOK, LineType
  <1>2. CASE Next
    <2>1. PICK a \in Addresses :
            (\E op \in {"LOAD", "STORE"} : LoadOrStore(op, a)) \/ Modify(a)
      BY <1>2 DEF Next
    <2> DEFINE s == SetIndex(a)
               tag == Tag(a)
    <2>2. s \in Sets /\ tag \in Nat
      BY PartsOfAddress
    <2>3. PICK i \in Lines, o \in Nat, d \in [Counted -> Nat] :
            /\ address' = a /\ optype' \in OpTypes
            /\ o > accessOrder /\ accessOrder' = o /\ lastState' = "HIT"
            /\ cacheSet' = Put(cacheSet, s, i, tag, o)
            /\ Outcome(cacheSet[s], tag, i, stateCnt, d)
            /\ stateCnt' = IF optype' = "MODIFY" THEN [d EXCEPT !["HIT"] = @ + 1] ELSE d
      BY <2>1, StepProperties
    <2>4. /\ cacheSet \in Table /\ accessOrder \in Nat /\ stateCnt \in [Counted -> Nat]
          /\ \A x \in Sets, k \in Lines : cacheSet[x][k].accessOrder \in 0..accessOrder
      BY TypesUsed DEF IInv
    <2>5. tag \in {Tag(x) : x \in Addresses}
      OBVIOUS
    <2> HIDE DEF s, tag
    <2>6. cacheSet'[s] = [cacheSet[s] EXCEPT ![i] = Loaded(tag, o)]
          /\ \A x \in Sets \ {s} : cacheSet'[x] = cacheSet[x]
      <3>1. cacheSet' = Put(cacheSet, s, i, tag, o)
        BY <2>3
      <3>2. PICK l \in Table : l = cacheSet
        BY <2>4
      <3>3. /\ Put(l, s, i, tag, o)[s] = [l[s] EXCEPT ![i] = Loaded(tag, o)]
            /\ \A x \in Sets \ {s} : Put(l, s, i, tag, o)[x] = l[x]
        BY <2>2, PutProperties
      <3> QED BY <3>1, <3>2, <3>3
    <2>7. cacheSet[s] \in [Lines -> Line] /\ \A k \in Lines : cacheSet[s][k].accessOrder < o
      <3>1. \A k \in Lines : cacheSet[s][k].accessOrder \in 0..accessOrder
        BY <2>2, <2>4
      <3>2. cacheSet[s] \in [Lines -> Line]
        BY <2>2, <2>4 DEF Table
      <3>3. o \in Nat /\ accessOrder \in Nat /\ o > accessOrder
        BY <2>3, <2>4
      <3> QED BY <3>1, <3>2, <3>3
    <2>8. TypeOK'
      <3>1. cacheSet' \in [Sets -> [Lines -> LineType']]
        <4>1. LineType \subseteq LineType' /\ Loaded(tag, o) \in LineType'
          <5>1. 0..accessOrder \subseteq 0..accessOrder' /\ o \in 0..accessOrder'
            BY <2>3, <2>4
          <5> QED BY <2>5, <5>1 DEF LineType, Loaded
        <4> HIDE DEF LineType
        <4>2. cacheSet \in [Sets -> [Lines -> LineType]]
          BY DEF IInv, TypeOK
        <4> QED BY <2>2, <2>3, <4>1, <4>2 DEF Put
      <3>2. stateCnt' \in [Counted -> Nat]
        BY <2>3, <2>4, OutcomeCounts
      <3> QED BY <2>3, <3>1, <3>2 DEF TypeOK, States
    <2>9. ASSUME NEW x \in Sets PROVE NoTagTwice(cacheSet'[x]) /\ \E q : Ranked(cacheSet'[x], q)
      <3>1. CASE x # s
        BY <2>6, <3>1 DEF IInv
      <3>2. CASE x = s
        <4>1. NoTagTwice(cacheSet[s]) /\ Matching(cacheSet[s], tag) \subseteq {i}
          BY <2>2, <2>3 DEF IInv, Outcome
        <4>2. PICK q : Ranked(cacheSet[s], q)
          BY <2>2 DEF IInv
        <4> DEFINE set == cacheSet[s]
        <4>3. set \in [Lines -> Line] /\ \A k \in Lines : set[k].accessOrder < o
          BY <2>7
        <4>4. NoTagTwice(set) /\ Matching(set, tag) \subseteq {i} /\ Ranked(set, q)
          BY <4>1, <4>2
        <4> HIDE DEF set
        <4>5. NoTagTwice([set EXCEPT ![i] = Loaded(tag, o)])
          BY <2>2, <4>3, <4>4, SetAfterUse
        <4>6. Ranked([set EXCEPT ![i] = Loaded(tag, o)], <<i>> \o RemoveFirst(q, i))
          BY <2>2, <4>3, <4>4, RankedAfterUse
        <4>7. cacheSet'[x] = [set EXCEPT ![i] = Loaded(tag, o)]
          BY <2>6, <3>2 DEF set
        <4> QED BY <4>5, <4>6, <4>7
      <3> QED BY <3>1, <3>2
    <2> QED BY <2>8, <2>9 DEF IInv
  <1> QED BY <1>1, <1>2

THEOREM CacheSimInvariant == Spec => []IInv
  BY IInvInit, IInvNext, PTL DEF Spec

\* Every variable keeps its type, and no line was used later than the clock
\* says (simulator.c and cache.c).
THEOREM TypesAreKept == Spec => []TypeOK
  <1>1. IInv => TypeOK
    BY DEF IInv
  <1> QED BY <1>1, CacheSimInvariant, PTL

-------------------------------------------------------------------------------
(* What LruCache sees: the blocks of a set in the order of use.               *)

\* The number of the block in each line of a set.
Numbers(set, s) == [i \in Lines |-> (set[i].tag \div BlockCnt) + s]

\* Lines of a set in the order of use are counted off by their orders.
LEMMA RankCounts ==
  ASSUME NEW set \in [Lines -> Line], NEW q, Ranked(set, q)
  PROVE  /\ Cardinality(Valid(set)) = Len(q)
         /\ \A n \in 1..Len(q) :
              Cardinality({k \in Lines : /\ set[k].isValid
                                         /\ set[k].accessOrder >= set[q[n]].accessOrder}) = n
  <1>0. /\ q \in Seq(Lines) /\ IsInjective(q) /\ Len(q) \in Nat
        /\ \A x : x \in Valid(set) <=> \E m \in 1..Len(q) : q[m] = x
    BY ToSetOfSeq, LenProperties DEF Ranked
  <1>1. Cardinality(Valid(set)) = Len(q)
    <2>1. {q[m] : m \in 1..Len(q)} = Valid(set)
      BY <1>0
    <2>2. Len(q) \in 0..Len(q)
      BY <1>0
    <2>3. Cardinality({q[m] : m \in 1..Len(q)}) = Len(q)
      BY <1>0, <2>2, PrefixCount
    <2> QED BY <2>1, <2>3
  <1>2. ASSUME NEW n \in 1..Len(q)
        PROVE  Cardinality({k \in Lines : /\ set[k].isValid
                                          /\ set[k].accessOrder >= set[q[n]].accessOrder}) = n
    <2> DEFINE K == {k \in Lines : /\ set[k].isValid
                                   /\ set[k].accessOrder >= set[q[n]].accessOrder}
    <2>1. \A m \in 1..Len(q) : q[m] \in Lines /\ set[q[m]].accessOrder \in Nat
      BY <1>0 DEF Line
    <2>2. ASSUME NEW m \in 1..Len(q) PROVE q[m] \in K <=> m <= n
      <3>1. q[m] \in Lines /\ set[q[m]].isValid
        BY <1>0 DEF Valid
      <3>2. CASE m <= n
        <4>1. m = n \/ m < n
          BY <1>0, <3>2
        <4>2. set[q[m]].accessOrder >= set[q[n]].accessOrder
          BY <2>1, <4>1 DEF Ranked
        <4> QED BY <3>1, <3>2, <4>2
      <3>3. CASE n < m
        <4>1. set[q[n]].accessOrder > set[q[m]].accessOrder
          BY <3>3 DEF Ranked
        <4> QED BY <1>0, <2>1, <3>3, <4>1
      <3> QED BY <1>0, <3>2, <3>3
    <2>3. K = {q[m] : m \in 1..n}
      <3>1. \A k \in K : \E m \in 1..Len(q) : k = q[m]
        BY <1>0 DEF Valid
      <3> HIDE DEF K
      <3>2. \A k \in K : \E m \in 1..n : k = q[m]
        BY <1>0, <2>2, <3>1
      <3>3. \A m \in 1..n : q[m] \in K
        BY <1>0, <2>2
      <3> QED BY <3>2, <3>3
    <2>4. n \in 0..Len(q)
      BY <1>0
    <2> QED BY <1>0, <2>3, <2>4, PrefixCount, ZenonT(60)
  <1> QED BY <1>1, <1>2

RecencyIsRank ==
  \A s \in Sets : \A q : Ranked(cacheSet[s], q) =>
    Recency[s] = Mapped(Numbers(cacheSet[s], s), q)

LEMMA RecencyOfRank == TypeOK => RecencyIsRank
  <1> SUFFICES ASSUME TypeOK, NEW s \in Sets, NEW q, Ranked(cacheSet[s], q)
               PROVE  Recency[s] = Mapped(Numbers(cacheSet[s], s), q)
    BY DEF RecencyIsRank
  <1> DEFINE set == cacheSet[s]
  <1>1. set \in [Lines -> Line]
    BY TypesUsed DEF Table
  <1>2. q \in Seq(Lines) /\ Len(q) \in Nat /\ DOMAIN q = 1..Len(q)
        /\ \A x : x \in Valid(set) <=> \E m \in 1..Len(q) : q[m] = x
    BY ToSetOfSeq, LenProperties DEF Ranked
  <1>3. /\ Cardinality(Valid(set)) = Len(q)
        /\ \A n \in 1..Len(q) :
             Cardinality({k \in Lines : /\ set[k].isValid
                                        /\ set[k].accessOrder >= set[q[n]].accessOrder}) = n
    BY <1>1, RankCounts
  <1>4. ASSUME NEW n \in 1..Len(q) PROVE Nth(s, n) = q[n]
    <2> DEFINE C(i) == Cardinality({k \in Lines : /\ set[k].isValid
                                                  /\ set[k].accessOrder >= set[i].accessOrder})
    <2>1. Nth(s, n) = CHOOSE i \in Lines : set[i].isValid /\ n = C(i)
      BY DEF Nth
    <2>2. \A m \in 1..Len(q) : C(q[m]) = m
      BY <1>3
    <2> HIDE DEF C
    <2>3. q[n] \in Lines /\ set[q[n]].isValid /\ n = C(q[n])
      BY <1>2, <2>2 DEF Valid
    <2>4. \A i \in Lines : set[i].isValid /\ n = C(i) => i = q[n]
      <3> SUFFICES ASSUME NEW i \in Lines, set[i].isValid, n = C(i) PROVE i = q[n]
        OBVIOUS
      <3>1. PICK m \in 1..Len(q) : q[m] = i
        BY <1>2 DEF Valid
      <3> QED BY <2>2, <3>1
    <2> QED BY <2>1, <2>3, <2>4
  <1>5. Recency[s] = [n \in 1..Len(q) |-> BlockIn(s, Nth(s, n))]
    <2>1. {i \in Lines : cacheSet[s][i].isValid} = Valid(set)
      BY DEF Valid
    <2> QED BY <1>3, <2>1 DEF Recency
  <1>6. \A n \in 1..Len(q) : BlockIn(s, q[n]) = Numbers(set, s)[q[n]]
    BY <1>2 DEF BlockIn, Numbers
  <1>7. Mapped(Numbers(set, s), q) = [n \in 1..Len(q) |-> Numbers(set, s)[q[n]]]
    BY <1>2 DEF Mapped
  <1> QED BY <1>4, <1>5, <1>6, <1>7

LEMMA RecencyNext == (IInv => RecencyIsRank) /\ (IInv' => RecencyIsRank')
  <1>1. IInv => RecencyIsRank
    BY RecencyOfRank DEF IInv
  <1> QED BY <1>1, PTL

\* The list r with b used, as LruCache!AfterUse has it.
Used(r, b) == LET front == <<b>> \o RemoveFirst(r, b)
              IN  IF Len(front) > LineCnt THEN SubSeq(front, 1, LineCnt) ELSE front

\* f numbers the blocks in the lines of a set, b is the block with the tag.
NumbersFit(set, f, tag, b) ==
  /\ \A k \in Valid(set) : f[k] = b <=> set[k].tag = tag
  /\ \A j, k \in Valid(set) : f[j] = f[k] => j = k

\* The list of blocks that belongs to an order of use.
LEMMA MappedRank ==
  ASSUME NEW set \in [Lines -> Line], NEW q, Ranked(set, q), NEW f, NEW tag, NEW b,
         NumbersFit(set, f, tag, b)
  PROVE  /\ q \in Seq(Lines) /\ Len(q) \in Nat
         /\ Mapped(f, q) \in Seq(Image(f, Lines)) /\ Len(Mapped(f, q)) = Len(q)
         /\ \A n \in 1..Len(q) : Mapped(f, q)[n] = f[q[n]] /\ q[n] \in Valid(set)
         /\ IsInjective(Mapped(f, q))
         /\ (\E n \in 1..Len(q) : Mapped(f, q)[n] = b) <=> Matching(set, tag) # {}
         /\ Len(q) <= LineCnt /\ (Len(q) = LineCnt <=> Invalid(set) = {})
  <1>1. /\ q \in Seq(Lines) /\ IsInjective(q) /\ Len(q) \in Nat /\ DOMAIN q = 1..Len(q)
        /\ \A x : x \in Valid(set) <=> \E m \in 1..Len(q) : q[m] = x
    BY ToSetOfSeq, LenProperties DEF Ranked
  <1>2. /\ Mapped(f, q) \in Seq(Image(f, Lines)) /\ Len(Mapped(f, q)) = Len(q)
        /\ DOMAIN Mapped(f, q) = 1..Len(q)
        /\ \A n \in 1..Len(q) : Mapped(f, q)[n] = f[q[n]] /\ q[n] \in Valid(set)
    BY <1>1 DEF Mapped, Image
  <1>3. IsInjective(Mapped(f, q))
    <2> SUFFICES ASSUME NEW m \in 1..Len(q), NEW n \in 1..Len(q), Mapped(f, q)[m] = Mapped(f, q)[n]
                 PROVE  m = n
      BY <1>2 DEF IsInjective
    <2>1. f[q[m]] = f[q[n]] /\ q[m] \in Valid(set) /\ q[n] \in Valid(set)
      BY <1>2
    <2>2. q[m] = q[n]
      BY <2>1 DEF NumbersFit
    <2> QED BY <1>1, <2>2 DEF IsInjective
  <1>4. (\E n \in 1..Len(q) : Mapped(f, q)[n] = b) <=> Matching(set, tag) # {}
    <2>1. ASSUME NEW n \in 1..Len(q), Mapped(f, q)[n] = b PROVE Matching(set, tag) # {}
      <3>1. f[q[n]] = b /\ q[n] \in Valid(set)
        BY <1>2, <2>1
      <3> QED BY <3>1 DEF NumbersFit, Matching, Valid
    <2>2. ASSUME NEW k \in Matching(set, tag) PROVE \E n \in 1..Len(q) : Mapped(f, q)[n] = b
      <3>1. k \in Valid(set) /\ f[k] = b
        BY DEF NumbersFit, Matching, Valid
      <3>2. PICK n \in 1..Len(q) : q[n] = k
        BY <1>1, <3>1
      <3> QED BY <1>2, <3>1, <3>2
    <2> QED BY <2>1, <2>2
  <1>5. Len(q) <= LineCnt /\ (Len(q) = LineCnt <=> Invalid(set) = {})
    <2>1. IsFiniteSet(Lines) /\ Cardinality(Lines) = LineCnt
      BY FS_Interval, SizesAssumption DEF Lines
    <2>2. Valid(set) \in SUBSET Lines /\ Cardinality(Valid(set)) = Len(q)
      BY RankCounts DEF Valid
    <2>3. Len(q) <= LineCnt /\ (Len(q) = LineCnt => Valid(set) = Lines)
      BY <2>1, <2>2, FS_Subset
    <2>4. Valid(set) = Lines <=> Invalid(set) = {}
      BY DEF Valid, Invalid
    <2>5. Valid(set) = Lines => Len(q) = LineCnt
      BY <2>1, <2>2
    <2> QED BY <2>3, <2>4, <2>5
  <1> QED BY <1>1, <1>2, <1>3, <1>4, <1>5

\* The line that is used, put in front of the others, gives the blocks as
\* LruCache orders them.
LEMMA UsedIsMapped ==
  ASSUME NEW set \in [Lines -> Line], NEW q, Ranked(set, q), NEW f, NEW tag, NEW b,
         NumbersFit(set, f, tag, b), NEW i \in Lines, NEW c, NEW d, Outcome(set, tag, i, c, d)
  PROVE  Used(Mapped(f, q), b) = <<b>> \o Mapped(f, RemoveFirst(q, i))
  <1> DEFINE R == Mapped(f, q)
  <1>1. /\ q \in Seq(Lines) /\ Len(q) \in Nat /\ R \in Seq(Image(f, Lines)) /\ Len(R) = Len(q)
        /\ \A n \in 1..Len(q) : R[n] = f[q[n]] /\ q[n] \in Valid(set)
        /\ IsInjective(R) /\ ((\E n \in 1..Len(q) : R[n] = b) <=> Matching(set, tag) # {})
        /\ Len(q) <= LineCnt /\ (Len(q) = LineCnt <=> Invalid(set) = {})
    BY MappedRank
  <1>2. /\ IsInjective(q)
        /\ \A x : x \in Valid(set) <=> \E m \in 1..Len(q) : q[m] = x
    BY <1>1, ToSetOfSeq DEF Ranked
  <1>3. CASE Matching(set, tag) = {i}
    <2>1. i \in Valid(set) /\ set[i].tag = tag
      BY <1>3 DEF Matching, Valid
    <2>2. PICK k \in 1..Len(q) : q[k] = i
      BY <1>2, <2>1
    <2>3. R[k] = b
      <3>1. f[i] = b
        BY <2>1 DEF NumbersFit
      <3> QED BY <1>1, <2>2, <3>1
    <2>4. Mapped(f, RemoveFirst(q, q[k])) = RemoveAt(R, k)
      BY <1>1, <1>2, MappedRemove
    <2> HIDE DEF R
    <2>5. RemoveFirst(R, b) = RemoveAt(R, k)
      <3>1. RemoveFirst(R, R[k]) = SubSeq(R, 1, k - 1) \o SubSeq(R, k + 1, Len(R))
        BY <1>1, RemoveFirstAt
      <3> QED BY <2>3, <3>1 DEF RemoveAt
    <2>6. Len(<<b>> \o RemoveAt(R, k)) = Len(q)
      <3>1. RemoveAt(R, k) \in Seq(Image(f, Lines)) /\ Len(RemoveAt(R, k)) = Len(q) - 1
        BY <1>1, RemoveAtProperties
      <3>2. b \in Image(f, Lines)
        BY <1>1, <2>3
      <3> QED BY <1>1, <3>1, <3>2, ConsProperties
    <2>7. Used(R, b) = <<b>> \o RemoveAt(R, k)
      BY <1>1, <2>5, <2>6, SizesAssumption DEF Used
    <2> QED BY <2>2, <2>4, <2>7 DEF R
  <1>4. ASSUME Matching(set, tag) = {}
        PROVE  /\ RemoveFirst(R, b) = R /\ <<b>> \o R \in Seq(Image(f, Lines) \cup {b})
               /\ Len(<<b>> \o R) = Len(q) + 1 /\ (<<b>> \o R)[1] = b
               /\ \A n \in 1..Len(q) : (<<b>> \o R)[n + 1] = R[n]
    <2> HIDE DEF R
    <2>1. RemoveFirst(R, b) = R
      BY <1>1, <1>4 DEF RemoveFirst
    <2>2. R \in Seq(Image(f, Lines) \cup {b})
      BY <1>1
    <2> QED BY <1>1, <2>1, <2>2, ConsProperties
  <1>5. CASE Matching(set, tag) = {} /\ i \in Invalid(set)
    <2>1. i \notin Valid(set)
      BY <1>5 DEF Invalid, Valid
    <2>2. RemoveFirst(q, i) = q
      BY <1>2, <2>1 DEF RemoveFirst
    <2>3. Len(q) + 1 <= LineCnt
      BY <1>1, <1>5, SizesAssumption
    <2> HIDE DEF R
    <2>4. Used(R, b) = <<b>> \o R
      BY <1>1, <1>4, <1>5, <2>3, SizesAssumption DEF Used
    <2> QED BY <2>2, <2>4 DEF R
  <1>6. CASE /\ Matching(set, tag) = {} /\ Invalid(set) = {}
             /\ \A k \in Lines : set[i].accessOrder <= set[k].accessOrder
    <2> DEFINE L == Len(q)
               r == RemoveFirst(q, i)
    <2>1. L = LineCnt /\ L \in Nat \ {0} /\ i \in Valid(set)
      BY <1>1, <1>6, SizesAssumption DEF Invalid, Valid
    <2>2. q[L] = i
      <3>1. PICK k \in 1..L : q[k] = i
        BY <1>2, <2>1
      <3>2. ASSUME k < L PROVE FALSE
        <4>1. L \in 1..Len(q) /\ set[q[k]].accessOrder > set[q[L]].accessOrder /\ q[L] \in Lines
          BY <1>1, <2>1, <3>2 DEF Ranked
        <4> QED BY <1>6, <3>1, <4>1 DEF Line
      <3>3. k = L
        BY <2>1, <3>2
      <3> QED BY <3>1, <3>3
    <2>3. /\ r \in Seq(Lines) /\ Len(r) = L - 1
          /\ \A n \in 1..Len(r) : r[n] = IF n < L THEN q[n] ELSE q[n + 1]
      <3>1. L \in 1..Len(q)
        BY <2>1
      <3>2. LET v == RemoveFirst(q, q[L])
            IN  /\ v \in Seq(Lines) /\ Len(v) = Len(q) - 1
                /\ \A n \in 1..Len(v) : v[n] = IF n < L THEN q[n] ELSE q[n + 1]
        BY <1>1, <1>2, <3>1, RemoveFirstProperties, ZenonT(60)
      <3> QED BY <2>2, <3>2
    <2> HIDE DEF r
    <2>4. /\ Mapped(f, r) \in Seq(Image(f, Lines)) /\ Len(Mapped(f, r)) = L - 1
          /\ \A n \in 1..L - 1 : Mapped(f, r)[n] = f[q[n]]
      <3>1. \A n \in 1..L - 1 : r[n] = q[n] /\ n \in 1..Len(r)
        BY <2>1, <2>3
      <3>2. /\ Mapped(f, r) \in Seq(Image(f, Lines)) /\ Len(Mapped(f, r)) = Len(r)
            /\ \A n \in 1..Len(r) : Mapped(f, r)[n] = f[r[n]]
        BY <2>3 DEF Mapped, Image
      <3> QED BY <2>3, <3>1, <3>2
    <2> DEFINE M == Mapped(f, r)
               D == Image(f, Lines) \cup {b}
    <2>5. \A n \in 1..L - 1 : R[n] = f[q[n]]
      BY <1>1
    <2>6. M \in Seq(D) /\ Len(M) = L - 1 /\ b \in D /\ \A n \in 1..L - 1 : M[n] = R[n]
      BY <2>4, <2>5
    <2> DEFINE front == <<b>> \o R
               back == <<b>> \o M
    <2> HIDE DEF M, R
    <2>7. /\ back \in Seq(D) /\ Len(back) = L /\ back[1] = b
          /\ \A n \in 1..L - 1 : back[n + 1] = R[n]
      <3>1. Len(back) = Len(M) + 1 /\ back \in Seq(D) /\ back[1] = b
            /\ \A n \in 1..Len(M) : back[n + 1] = M[n]
        BY <2>6, ConsProperties
      <3> QED BY <2>1, <2>6, <3>1
    <2>8. /\ RemoveFirst(R, b) = R /\ front \in Seq(D) /\ Len(front) = L + 1 /\ front[1] = b
          /\ \A n \in 1..L : front[n + 1] = R[n]
      BY <1>4, <1>6
    <2>9. Used(R, b) = SubSeq(front, 1, L)
      BY <2>1, <2>8 DEF Used
    <2> HIDE DEF front, back, D
    <2>10. /\ SubSeq(front, 1, L) \in Seq(D) /\ Len(SubSeq(front, 1, L)) = L
           /\ \A n \in 1..L : SubSeq(front, 1, L)[n] = front[n]
      <3>1. L \in 0..Len(front)
        BY <2>1, <2>8
      <3> QED BY <2>8, <3>1, CutProperties
    <2>11. ASSUME NEW n \in 1..L PROVE SubSeq(front, 1, L)[n] = back[n]
      <3>1. CASE n = 1
        BY <2>7, <2>8, <2>10, <3>1
      <3>2. CASE n > 1
        <4>1. n - 1 \in 1..L - 1 /\ n - 1 \in 1..L /\ (n - 1) + 1 = n
          BY <2>1, <3>2
        <4> QED BY <2>7, <2>8, <2>10, <4>1
      <3> QED BY <2>1, <3>1, <3>2
    <2>12. SubSeq(front, 1, L) = back
      BY <2>7, <2>10, <2>11, SeqEqual
    <2> QED BY <2>9, <2>12 DEF R, M, back, r
  <1> QED BY <1>3, <1>5, <1>6 DEF Outcome

-------------------------------------------------------------------------------
(* A line of the trace is one use of its block.                               *)

LEMMA LruInit == Init => Lru!Init
  <1> SUFFICES ASSUME Init PROVE Lru!Init
    OBVIOUS
  <1>1. \A s \in Sets, i \in Lines : ~cacheSet[s][i].isValid
    BY DEF Init, EmptyLine
  <1>2. \A s \in Sets : Valid(cacheSet[s]) = {}
    BY <1>1 DEF Valid
  <1>3. ASSUME NEW s \in Sets PROVE Recency[s] = <<>>
    <2>1. Ranked(cacheSet[s], <<>>)
      <3>1. <<>> \in Seq(Lines) /\ Len(<<>>) = 0 /\ ToSet(<<>>) = {} /\ IsInjective(<<>>)
        BY DEF ToSet, IsInjective
      <3> QED BY <1>2, <3>1, SMTT(60) DEF Ranked
    <2>2. Recency[s] = Mapped(Numbers(cacheSet[s], s), <<>>)
      BY <2>1, IInvInit, RecencyNext DEF RecencyIsRank
    <2>3. \A f : Mapped(f, <<>>) = <<>>
      BY DEF Mapped
    <2> QED BY <2>2, <2>3
  <1>4. Recency = [s \in Sets |-> <<>>]
    BY <1>3 DEF Recency
  <1> QED BY <1>4 DEF Lru!Init, Init, Sets, Counted, States, NoAddress, NoOp

\* The number of a block tells its tag, among the lines of a set.
LEMMA NumbersAreFit ==
  ASSUME IInv, NEW a \in Addresses
  PROVE  /\ NumbersFit(cacheSet[SetIndex(a)], Numbers(cacheSet[SetIndex(a)], SetIndex(a)),
                       Tag(a), a \div BlockCnt)
         /\ a \div BlockCnt = (Tag(a) \div BlockCnt) + SetIndex(a)
  <1> DEFINE s == SetIndex(a)
             set == cacheSet[s]
             f == Numbers(set, s)
  <1>1. s \in Sets /\ s \in Nat /\ Tag(a) \in Nat /\ BlockCnt * (Tag(a) \div BlockCnt) = Tag(a)
        /\ a \div BlockCnt = (Tag(a) \div BlockCnt) + s
    BY PartsOfAddress, SizesAssumption DEF Sets
  <1>2. ASSUME NEW t \in {0} \cup {Tag(x) : x \in Addresses}
        PROVE  t \in Nat /\ t \div BlockCnt \in Nat /\ BlockCnt * (t \div BlockCnt) = t
    <2>1. CASE t = 0
      BY <2>1, SizesAssumption
    <2>2. CASE t # 0
      <3>1. t \in Nat /\ BlockCnt * (t \div BlockCnt) = t
        BY <2>2, PartsOfAddress
      <3> QED BY <3>1, SizesAssumption
    <2> QED BY <2>1, <2>2
  <1>3. \A k \in Lines : set[k].tag \in {0} \cup {Tag(x) : x \in Addresses}
    BY <1>1 DEF IInv, TypeOK, LineType
  <1> HIDE DEF s
  <1>4. \A k \in Valid(set) : k \in Lines /\ f[k] = (set[k].tag \div BlockCnt) + s
    BY DEF Numbers, Valid
  <1> HIDE DEF f
  <1>5. ASSUME NEW t \in {0} \cup {Tag(x) : x \in Addresses},
               NEW u \in {0} \cup {Tag(x) : x \in Addresses},
               (t \div BlockCnt) + s = (u \div BlockCnt) + s
        PROVE  t = u
    <2>1. t \div BlockCnt = u \div BlockCnt
      BY <1>1, <1>2, <1>5
    <2> QED BY <1>2, <2>1
  <1>6. ASSUME NEW k \in Valid(set) PROVE f[k] = a \div BlockCnt <=> set[k].tag = Tag(a)
    <2>1. f[k] = (set[k].tag \div BlockCnt) + s /\ set[k].tag \in {0} \cup {Tag(x) : x \in Addresses}
          /\ Tag(a) \in {0} \cup {Tag(x) : x \in Addresses}
      BY <1>3, <1>4
    <2> QED BY <1>1, <1>5, <2>1
  <1>7. ASSUME NEW j \in Valid(set), NEW k \in Valid(set), f[j] = f[k] PROVE j = k
    <2>1. set[j].tag = set[k].tag
      <3> DEFINE t == set[j].tag
                 u == set[k].tag
      <3>1. /\ f[j] = (t \div BlockCnt) + s /\ f[k] = (u \div BlockCnt) + s
            /\ t \in {0} \cup {Tag(x) : x \in Addresses}
            /\ u \in {0} \cup {Tag(x) : x \in Addresses}
        BY <1>3, <1>4
      <3> HIDE DEF t, u
      <3>2. t = u
        BY <1>5, <1>7, <3>1
      <3> QED BY <3>2 DEF t, u
    <2> QED BY <1>1, <2>1 DEF IInv, NoTagTwice
  <1>8. NumbersFit(set, f, Tag(a), a \div BlockCnt)
    BY <1>6, <1>7 DEF NumbersFit
  <1> QED BY <1>1, <1>8 DEF s, f

\* The list of the set that is used, before and after.
LEMMA RecencyOfUse ==
  ASSUME IInv, IInv', NEW a \in Addresses, NEW i \in Lines, NEW o \in Nat, NEW d,
         o > accessOrder, cacheSet' = Put(cacheSet, SetIndex(a), i, Tag(a), o),
         Outcome(cacheSet[SetIndex(a)], Tag(a), i, stateCnt, d)
  PROVE  /\ Recency' = [Recency EXCEPT ![SetIndex(a)] = Used(@, a \div BlockCnt)]
         /\ (\E n \in 1..Len(Recency[SetIndex(a)]) : Recency[SetIndex(a)][n] = a \div BlockCnt)
              <=> Matching(cacheSet[SetIndex(a)], Tag(a)) # {}
         /\ Len(Recency[SetIndex(a)]) = LineCnt <=> Invalid(cacheSet[SetIndex(a)]) = {}
  <1> DEFINE s == SetIndex(a)
             tag == Tag(a)
             b == a \div BlockCnt
             set == cacheSet[s]
             f == Numbers(set, s)
             new == [set EXCEPT ![i] = Loaded(tag, o)]
             g == Numbers(new, s)
  <1>1. s \in Sets /\ tag \in Nat
    BY PartsOfAddress
  <1>2. NumbersFit(set, f, tag, b) /\ b = (tag \div BlockCnt) + s
    BY NumbersAreFit
  <1>3. set \in [Lines -> Line] /\ \A k \in Lines : set[k].accessOrder < o
    <2>1. /\ cacheSet \in Table /\ accessOrder \in Nat
          /\ \A k \in Lines : cacheSet[s][k].accessOrder \in 0..accessOrder
      BY <1>1, TypesUsed DEF IInv
    <2> QED BY <1>1, <2>1 DEF Table
  <1>4. cacheSet'[s] = new /\ \A x \in Sets \ {s} : cacheSet'[x] = cacheSet[x]
    <2>1. cacheSet \in Table
      BY TypesUsed DEF IInv
    <2> QED BY <1>1, <2>1, PutProperties
  <1>5. PICK q : Ranked(set, q)
    BY <1>1 DEF IInv
  <1>6. Outcome(set, tag, i, stateCnt, d)
    OBVIOUS
  <1> HIDE DEF s, tag, b, f, g
  <1> DEFINE r == RemoveFirst(q, i)
  <1>7. Ranked(new, <<i>> \o r)
    BY <1>1, <1>3, <1>5, RankedAfterUse
  <1>8. Recency[s] = Mapped(f, q)
    BY <1>1, <1>5, RecencyNext DEF RecencyIsRank, f
  <1>9. Recency'[s] = Mapped(g, <<i>> \o r)
    BY <1>1, <1>4, <1>7, RecencyNext DEF RecencyIsRank, g
  <1>10. /\ r \in Seq(Lines) /\ ToSet(r) = ToSet(q) \ {i}
    BY <1>5, WithoutProperties DEF Ranked
  <1>11. Mapped(g, <<i>> \o r) = <<g[i]>> \o Mapped(g, r)
    BY <1>10, MappedCons, SMTT(60)
  <1>12. g[i] = b
    BY <1>2, <1>3 DEF g, Numbers, Loaded
  <1>13. Mapped(g, r) = Mapped(f, r)
    <2>1. ASSUME NEW n \in DOMAIN r PROVE g[r[n]] = f[r[n]]
      <3>1. r[n] \in Lines /\ r[n] # i
        BY <1>10, ToSetOfSeq, LenProperties
      <3> QED BY <1>3, <3>1 DEF f, g, Numbers
    <2> QED BY <2>1 DEF Mapped
  <1>14. Used(Mapped(f, q), b) = <<b>> \o Mapped(f, r)
    BY <1>2, <1>3, <1>5, <1>6, UsedIsMapped
  <1>15. Recency'[s] = Used(Recency[s], b)
    BY <1>8, <1>9, <1>11, <1>12, <1>13, <1>14
  <1>16. ASSUME NEW x \in Sets \ {s} PROVE Recency'[x] = Recency[x]
    <2>1. PICK p : Ranked(cacheSet[x], p)
      BY DEF IInv
    <2>2. Recency[x] = Mapped(Numbers(cacheSet[x], x), p)
      BY <2>1, RecencyNext DEF RecencyIsRank
    <2>3. Recency'[x] = Mapped(Numbers(cacheSet'[x], x), p)
      BY <1>4, <2>1, RecencyNext DEF RecencyIsRank
    <2> QED BY <1>4, <2>2, <2>3
  <1>17. Recency' = [Recency EXCEPT ![s] = Used(@, b)]
    <2>1. DOMAIN Recency = Sets /\ DOMAIN Recency' = Sets
          /\ Recency = [x \in Sets |-> Recency[x]] /\ Recency' = [x \in Sets |-> Recency'[x]]
      BY DEF Recency
    <2> HIDE DEF Recency
    <2> QED BY <1>1, <1>15, <1>16, <2>1
  <1>18. /\ Len(Recency[s]) = Len(q)
         /\ (\E n \in 1..Len(q) : Recency[s][n] = b) <=> Matching(set, tag) # {}
         /\ Len(q) = LineCnt <=> Invalid(set) = {}
    BY <1>2, <1>3, <1>5, <1>8, MappedRank
  <1> QED BY <1>17, <1>18 DEF s, tag, b

LEMMA LruNext == IInv /\ IInv' /\ Next => Lru!Next
  <1> SUFFICES ASSUME IInv, IInv', Next PROVE Lru!Next
    OBVIOUS
  <1>1. PICK a \in Addresses :
          (\E op \in {"LOAD", "STORE"} : LoadOrStore(op, a)) \/ Modify(a)
    BY DEF Next
  <1> DEFINE s == SetIndex(a)
             b == a \div BlockCnt
  <1>2. PICK i \in Lines, o \in Nat, d \in [Counted -> Nat] :
          /\ address' = a /\ optype' \in OpTypes /\ o > accessOrder /\ accessOrder' = o
          /\ cacheSet' = Put(cacheSet, s, i, Tag(a), o)
          /\ Outcome(cacheSet[s], Tag(a), i, stateCnt, d)
          /\ stateCnt' = IF optype' = "MODIFY" THEN [d EXCEPT !["HIT"] = @ + 1] ELSE d
    BY <1>1, StepProperties
  <1> DEFINE held == \E n \in 1..Len(Recency[s]) : Recency[s][n] = b
             full == Len(Recency[s]) = LineCnt
  <1>3. /\ Recency' = [Recency EXCEPT ![s] = Used(@, b)]
        /\ held <=> Matching(cacheSet[s], Tag(a)) # {}
        /\ full <=> Invalid(cacheSet[s]) = {}
    BY <1>2, RecencyOfUse
  <1>4. stateCnt \in [Counted -> Nat]
    BY TypesUsed DEF IInv
  <1>5. /\ stateCnt'["HIT"] = stateCnt["HIT"] + (IF held THEN 1 ELSE 0)
                                 + (IF optype' = "MODIFY" THEN 1 ELSE 0)
        /\ stateCnt'["COLD_MISS"] + stateCnt'["CONFLICT_MISS"]
             = stateCnt["COLD_MISS"] + stateCnt["CONFLICT_MISS"] + (IF held THEN 0 ELSE 1)
        /\ stateCnt'["EVICTION"] = stateCnt["EVICTION"] + (IF ~held /\ full THEN 1 ELSE 0)
    <2> HIDE DEF held, full
    <2>1. /\ d["HIT"] = stateCnt["HIT"] + (IF held THEN 1 ELSE 0)
          /\ d["COLD_MISS"] + d["CONFLICT_MISS"]
               = stateCnt["COLD_MISS"] + stateCnt["CONFLICT_MISS"] + (IF held THEN 0 ELSE 1)
          /\ d["EVICTION"] = stateCnt["EVICTION"] + (IF ~held /\ full THEN 1 ELSE 0)
      <3>1. Outcome(cacheSet[s], Tag(a), i, stateCnt, d)
        BY <1>2
      <3>2. (Matching(cacheSet[s], Tag(a)) # {} <=> held) /\ (Invalid(cacheSet[s]) = {} <=> full)
        BY <1>3
      <3> QED BY <1>4, <3>1, <3>2, OutcomeNumbers
    <2>2. d \in [Counted -> Nat]
      BY <1>2, <1>4, OutcomeCounts
    <2>3. CASE optype' # "MODIFY"
      <3>1. stateCnt' = d
        BY <1>2, <2>3
      <3>2. (IF optype' = "MODIFY" THEN 1 ELSE 0) = 0
        BY <2>3
      <3>3. stateCnt["HIT"] \in Nat
        BY <1>4 DEF Counted, States
      <3> QED BY <2>1, <3>1, <3>2, <3>3
    <2>4. CASE optype' = "MODIFY"
      <3>1. stateCnt' = [d EXCEPT !["HIT"] = @ + 1]
        BY <1>2, <2>4
      <3>2. (IF optype' = "MODIFY" THEN 1 ELSE 0) = 1
        BY <2>4
      <3>3. /\ stateCnt'["HIT"] = d["HIT"] + 1
            /\ \A k \in Counted \ {"HIT"} : stateCnt'[k] = d[k]
        BY <2>2, <3>1 DEF Counted, States
      <3>4. stateCnt["HIT"] \in Nat
        BY <1>4 DEF Counted, States
      <3>5. {"COLD_MISS", "CONFLICT_MISS", "EVICTION"} \subseteq Counted \ {"HIT"}
        BY DEF Counted, States
      <3> QED BY <2>1, <3>2, <3>3, <3>4, <3>5
    <2> QED BY <2>3, <2>4
  <1>6. b \in {x \div BlockCnt : x \in Addresses} /\ Lru!SetOf(b) = s
    BY DEF Lru!SetOf, SetIndex
  <1>7. Lru!Held(b) = held /\ Lru!Full(b) = full /\ Lru!AfterUse(b) = Used(Recency[s], b)
    <2> HIDE DEF s, b, Recency
    <2>1. Lru!Held(b) = held
      BY <1>6 DEF Lru!Held
    <2>2. Lru!Full(b) = full
      BY <1>6 DEF Lru!Full
    <2>3. Lru!RemoveFirst(Recency[s], b) = RemoveFirst(Recency[s], b)
      BY DEF Lru!RemoveFirst, RemoveFirst, Lru!RemoveAt, RemoveAt,
             Lru!SelectInSeq, SelectInSeq, Lru!Min, Min
    <2>4. Lru!AfterUse(b) = Used(Recency[s], b)
      BY <1>6, <2>3 DEF Lru!AfterUse, Used
    <2> QED BY <2>1, <2>2, <2>4
  <1>8. address' # NoAddress
    BY <1>2, AddressesAssumption DEF NoAddress
  <1>9. Lru!Use(optype', b)
    <2> HIDE DEF held, full, Recency, b
    <2> QED BY <1>2, <1>3, <1>5, <1>6, <1>7, <1>8 DEF Lru!Use, b
  <1>10. optype' \in {"LOAD", "STORE", "MODIFY"}
    BY <1>2 DEF OpTypes
  <1> QED BY <1>6, <1>9, <1>10 DEF Lru!Next

\* What csim counts for each line of a trace is what a cache of that geometry
\* with least recently used replacement does with it, for every trace and every
\* geometry parseOp can mask: the property LruSpec (simulator.c:36-204, cache.c,
\* opparser.c).
THEOREM SimulatesLru == Spec => LruSpec
  <1>1. Spec => []IInv /\ [][Next]_vars /\ Init
    BY CacheSimInvariant, PTL DEF Spec
  <1>2. UNCHANGED vars => UNCHANGED Lru!lruVars
    BY DEF vars, Lru!lruVars, Recency, Nth, BlockIn
  <1>3. []IInv /\ [][Next]_vars => [][Lru!Next]_vars
    BY LruNext, PTL
  <1>4. [][Lru!Next]_vars => [][Lru!Next]_Lru!lruVars
    BY <1>2, PTL
  <1> QED BY <1>1, <1>3, <1>4, LruInit, PTL DEF LruSpec, Lru!Spec
===============================================================================
