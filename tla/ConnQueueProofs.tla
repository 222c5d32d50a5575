--------------------------- MODULE ConnQueueProofs ---------------------------
(***************************************************************************)
(* Proofs about ConnQueue, for every number of threads, every capacity and *)
(* every set of descriptors.                                               *)
(***************************************************************************)
EXTENDS ConnQueue, FiniteSetTheorems, SequenceTheorems, TLAPS

-------------------------------------------------------------------------------
(* Lemmas about the ring's arithmetic and about counting threads.          *)

\* Advance moves an index one place and wraps it at the end of the ring.
LEMMA AdvanceWraps ==
  ASSUME NEW i \in 0..Capacity - 1
  PROVE  Advance(i) = IF i + 1 = Capacity THEN 0 ELSE i + 1
  BY CapacityAssumption DEF Advance

\* A number of places below 2 * Capacity, taken modulo Capacity.
LEMMA ModOnce ==
  ASSUME NEW n \in 0..2 * Capacity - 1
  PROVE  n % Capacity = IF n < Capacity THEN n ELSE n - Capacity
  BY CapacityAssumption

\* Moving rear is adding one to the distance from front; moving front is
\* taking one from it.
LEMMA RearStep ==
  ASSUME NEW i \in 0..Capacity - 1, NEW n \in 0..Capacity - 1
  PROVE  Advance((i + n) % Capacity) = (i + (n + 1)) % Capacity
  <1>1. (i + n) % Capacity = IF i + n < Capacity THEN i + n ELSE i + n - Capacity
    BY ModOnce, CapacityAssumption
  <1>2. (i + (n + 1)) % Capacity
          = IF i + n + 1 < Capacity THEN i + n + 1 ELSE i + n + 1 - Capacity
    BY ModOnce, CapacityAssumption
  <1>3. (i + n) % Capacity \in 0..Capacity - 1
    BY <1>1, CapacityAssumption
  <1> QED BY <1>1, <1>2, <1>3, AdvanceWraps, CapacityAssumption

LEMMA FrontStep ==
  ASSUME NEW i \in 0..Capacity - 1, NEW n \in 1..Capacity
  PROVE  (i + n) % Capacity = (Advance(i) + (n - 1)) % Capacity
  <1>1. (i + n) % Capacity = IF i + n < Capacity THEN i + n ELSE i + n - Capacity
    BY ModOnce, CapacityAssumption
  <1>2. CASE i + 1 = Capacity
    <2>1. Advance(i) + (n - 1) = n - 1 /\ n - 1 \in 0..2 * Capacity - 1
      BY <1>2, AdvanceWraps, CapacityAssumption
    <2> QED BY <1>1, <1>2, <2>1, ModOnce, CapacityAssumption
  <1>3. CASE i + 1 # Capacity
    <2>1. Advance(i) + (n - 1) = i + n
      BY <1>3, AdvanceWraps, CapacityAssumption
    <2> QED BY <2>1
  <1> QED BY <1>2, <1>3

\* A set of threads picked by their labels is finite.
LEMMA AtFinite ==
  ASSUME NEW L
  PROVE  IsFiniteSet(At(L)) /\ Cardinality(At(L)) \in Nat
  BY ThreadsAssumption, FS_Subset, FS_CardinalityType DEF At

\* When one thread goes from label a to label b, the number of threads at the
\* labels L changes by what a and b contribute.
LEMMA CountStep ==
  ASSUME NEW CONSTANT L, NEW CONSTANT t \in Threads,
         NEW CONSTANT a, NEW CONSTANT b,
         pc \in [Threads -> ServPcs], Goes(t, a, b)
  PROVE  Cardinality(At(L)') = Cardinality(At(L)) + (IF b \in L THEN 1 ELSE 0)
                                                  - (IF a \in L THEN 1 ELSE 0)
  <1>1. IsFiniteSet(At(L)) /\ Cardinality(At(L)) \in Nat
    BY AtFinite
  <1>2. CASE a \in L /\ b \in L
    <2>1. At(L)' = At(L)
      BY <1>2 DEF At, Goes
    <2> QED BY <2>1, <1>1, <1>2
  <1>3. CASE a \notin L /\ b \notin L
    <2>1. At(L)' = At(L)
      BY <1>3 DEF At, Goes
    <2> QED BY <2>1, <1>1, <1>3
  <1>4. CASE a \in L /\ b \notin L
    <2>1. At(L)' = At(L) \ {t} /\ t \in At(L)
      BY <1>4 DEF At, Goes
    <2>2. Cardinality(At(L) \ {t}) = Cardinality(At(L)) - 1
      BY <2>1, <1>1, FS_RemoveElement
    <2> QED BY <2>1, <2>2, <1>1, <1>4
  <1>5. CASE a \notin L /\ b \in L
    <2>1. At(L)' = At(L) \cup {t} /\ t \notin At(L)
      BY <1>5 DEF At, Goes
    <2>2. Cardinality(At(L) \cup {t}) = Cardinality(At(L)) + 1
      BY <2>1, <1>1, FS_AddElement
    <2> QED BY <2>1, <2>2, <1>1, <1>5
  <1> QED BY <1>2, <1>3, <1>4, <1>5

-------------------------------------------------------------------------------
(* The inductive invariant.  The types of the semaphores depend on the      *)
(* accounting of slots and on mutual exclusion, so the four parts are       *)
(* inductive only together.                                                 *)
Inv == TypeOK /\ MutualExclusion /\ SlotsAccounted /\ IndicesDelimit

LEMMA CountsAreNat == Taking \in Nat /\ Emptied \in Nat
  BY AtFinite DEF Taking, Emptied

LEMMA CountsAreNatNext == Taking' \in Nat /\ Emptied' \in Nat
  BY ThreadsAssumption, FS_Subset, FS_CardinalityType DEF At, Taking, Emptied

LEMMA CountsInit == Init => Taking = 0 /\ Emptied = 0 /\ Stored = 0
  <1> SUFFICES ASSUME Init PROVE Taking = 0 /\ Emptied = 0 /\ Stored = 0
    OBVIOUS
  <1>1. At({"P_mutex", "fetch", "advance"}) = {} /\ At({"V_mutex", "V_slot"}) = {}
    BY DEF Init, At
  <1>2. Taking = 0 /\ Emptied = 0
    BY <1>1, FS_EmptySet DEF Taking, Emptied
  <1> QED BY <1>2 DEF Stored, Unannounced, Init

LEMMA InvInit == Init => Inv
  <1> SUFFICES ASSUME Init PROVE Inv
    OBVIOUS
  <1>1. Taking = 0 /\ Emptied = 0 /\ Stored = 0
    BY CountsInit
  <1>3. TypeOK
    BY CapacityAssumption DEF Init, TypeOK, MainPcs, ServPcs
  <1>4. MutualExclusion
    BY DEF Init, MutualExclusion, At, Locked, MainLocked
  <1>5. SlotsAccounted
    BY <1>1, CapacityAssumption DEF Init, SlotsAccounted, Reserved
  <1>6. IndicesDelimit
    BY <1>1, ModOnce, CapacityAssumption DEF Init, IndicesDelimit
  <1> QED BY <1>3, <1>4, <1>5, <1>6 DEF Inv

\* What a step of a thread adds to the two counts.
LEMMA CountsStep ==
  ASSUME NEW CONSTANT t \in Threads, NEW CONSTANT a, NEW CONSTANT b,
         pc \in [Threads -> ServPcs], Goes(t, a, b)
  PROVE  /\ Taking'  = Taking + (IF b \in {"P_mutex", "fetch", "advance"} THEN 1 ELSE 0)
                              - (IF a \in {"P_mutex", "fetch", "advance"} THEN 1 ELSE 0)
         /\ Emptied' = Emptied + (IF b \in {"V_mutex", "V_slot"} THEN 1 ELSE 0)
                                - (IF a \in {"V_mutex", "V_slot"} THEN 1 ELSE 0)
  BY CountStep DEF Taking, Emptied

LEMMA CountsKept == UNCHANGED pc => UNCHANGED <<Taking, Emptied>>
  BY DEF Taking, Emptied, At

LEMMA InvNext == Inv /\ [Next]_vars => Inv'
  <1> SUFFICES ASSUME Inv, [Next]_vars PROVE Inv'
    OBVIOUS
  <1> USE CapacityAssumption DEF Inv
  <1>0. /\ Taking \in Nat /\ Emptied \in Nat
        /\ Stored \in Nat /\ front + Stored \in 0..2 * Capacity - 1
    BY CountsAreNat DEF Stored, Unannounced, TypeOK, IndicesDelimit
  <1>01. Taking' \in Nat /\ Emptied' \in Nat
    BY CountsAreNatNext
  <1>1. ASSUME NEW f \in Fds, Accept(f) PROVE Inv'
    <2>1. UNCHANGED <<Taking, Emptied>>
      BY CountsKept, <1>1 DEF Accept, serv
    <2>2. Stored' = Stored
          /\ slot_cnt' + Reserved' + Stored' + Emptied' = Capacity
      BY <1>0, <2>1, <1>1 DEF Accept, MainGoes, ring, sems, main, serv, TypeOK, Stored, Unannounced, Reserved, SlotsAccounted, MainPcs
    <2>3. SlotsAccounted'
      BY <2>2 DEF SlotsAccounted
    <2>4. MutualExclusion'
      BY <1>1 DEF Accept, MainGoes, ring, sems, main, serv, TypeOK, MutualExclusion, At, Locked, MainLocked
    <2>5. TypeOK'
      BY <1>0, <1>01, <2>1, <2>2, <1>1, AdvanceWraps DEF Accept, MainGoes, ring, sems, main, serv, TypeOK, MutualExclusion, At, Locked, MainLocked, MainPcs, ServPcs, Stored, Unannounced, Reserved, SlotsAccounted
    <2>6. IndicesDelimit'
      BY <1>0, <2>1, <2>2, <2>5, <1>1 DEF Accept, MainGoes, ring, sems, main, serv, TypeOK, IndicesDelimit, Reserved, MainPcs
    <2> QED BY <2>3, <2>4, <2>5, <2>6
  <1>2. CASE AddTakeSlot
    <2>1. UNCHANGED <<Taking, Emptied>>
      BY CountsKept, <1>2 DEF AddTakeSlot, serv
    <2>2. Stored' = Stored
          /\ slot_cnt' + Reserved' + Stored' + Emptied' = Capacity
      BY <1>0, <2>1, <1>2 DEF AddTakeSlot, MainGoes, ring, sems, main, serv, TypeOK, Stored, Unannounced, Reserved, SlotsAccounted, MainPcs
    <2>3. SlotsAccounted'
      BY <2>2 DEF SlotsAccounted
    <2>4. MutualExclusion'
      BY <1>2 DEF AddTakeSlot, MainGoes, ring, sems, main, serv, TypeOK, MutualExclusion, At, Locked, MainLocked
    <2>5. TypeOK'
      BY <1>0, <1>01, <2>1, <2>2, <1>2, AdvanceWraps DEF AddTakeSlot, MainGoes, ring, sems, main, serv, TypeOK, MutualExclusion, At, Locked, MainLocked, MainPcs, ServPcs, Stored, Unannounced, Reserved, SlotsAccounted
    <2>6. IndicesDelimit'
      BY <1>0, <2>1, <2>2, <2>5, <1>2 DEF AddTakeSlot, MainGoes, ring, sems, main, serv, TypeOK, IndicesDelimit, Reserved, MainPcs
    <2> QED BY <2>3, <2>4, <2>5, <2>6
  <1>3. CASE AddLock
    <2>1. UNCHANGED <<Taking, Emptied>>
      BY CountsKept, <1>3 DEF AddLock, serv
    <2>2. Stored' = Stored
          /\ slot_cnt' + Reserved' + Stored' + Emptied' = Capacity
      BY <1>0, <2>1, <1>3 DEF AddLock, MainGoes, ring, sems, main, serv, TypeOK, Stored, Unannounced, Reserved, SlotsAccounted, MainPcs
    <2>3. SlotsAccounted'
      BY <2>2 DEF SlotsAccounted
    <2>4. MutualExclusion'
      BY <1>3 DEF AddLock, MainGoes, ring, sems, main, serv, TypeOK, MutualExclusion, At, Locked, MainLocked
    <2>5. TypeOK'
      BY <1>0, <1>01, <2>1, <2>2, <1>3, AdvanceWraps DEF AddLock, MainGoes, ring, sems, main, serv, TypeOK, MutualExclusion, At, Locked, MainLocked, MainPcs, ServPcs, Stored, Unannounced, Reserved, SlotsAccounted
    <2>6. IndicesDelimit'
      BY <1>0, <2>1, <2>2, <2>5, <1>3 DEF AddLock, MainGoes, ring, sems, main, serv, TypeOK, IndicesDelimit, Reserved, MainPcs
    <2> QED BY <2>3, <2>4, <2>5, <2>6
  <1>4. CASE AddStore
    <2>1. UNCHANGED <<Taking, Emptied>>
      BY CountsKept, <1>4 DEF AddStore, serv
    <2>2. Stored' = Stored
          /\ slot_cnt' + Reserved' + Stored' + Emptied' = Capacity
      BY <1>0, <2>1, <1>4 DEF AddStore, MainGoes, ring, sems, main, serv, TypeOK, Stored, Unannounced, Reserved, SlotsAccounted, MainPcs
    <2>3. SlotsAccounted'
      BY <2>2 DEF SlotsAccounted
    <2>4. MutualExclusion'
      BY <1>4 DEF AddStore, MainGoes, ring, sems, main, serv, TypeOK, MutualExclusion, At, Locked, MainLocked
    <2>5. TypeOK'
      BY <1>0, <1>01, <2>1, <2>2, <1>4, AdvanceWraps DEF AddStore, MainGoes, ring, sems, main, serv, TypeOK, MutualExclusion, At, Locked, MainLocked, MainPcs, ServPcs, Stored, Unannounced, Reserved, SlotsAccounted
    <2>6. IndicesDelimit'
      BY <1>0, <2>1, <2>2, <2>5, <1>4 DEF AddStore, MainGoes, ring, sems, main, serv, TypeOK, IndicesDelimit, Reserved, MainPcs
    <2> QED BY <2>3, <2>4, <2>5, <2>6
  <1>5. CASE AddAdvance
    <2>1. UNCHANGED <<Taking, Emptied>>
      BY CountsKept, <1>5 DEF AddAdvance, serv
    <2>2. Stored' = Stored + 1
          /\ slot_cnt' + Reserved' + Stored' + Emptied' = Capacity
      BY <1>0, <2>1, <1>5 DEF AddAdvance, MainGoes, ring, sems, main, serv, TypeOK, Stored, Unannounced, Reserved, SlotsAccounted, MainPcs
    <2>3. SlotsAccounted'
      BY <2>2 DEF SlotsAccounted
    <2>4. MutualExclusion'
      BY <1>5 DEF AddAdvance, MainGoes, ring, sems, main, serv, TypeOK, MutualExclusion, At, Locked, MainLocked
    <2>5. TypeOK'
      BY <1>0, <1>01, <2>1, <2>2, <1>5, AdvanceWraps DEF AddAdvance, MainGoes, ring, sems, main, serv, TypeOK, MutualExclusion, At, Locked, MainLocked, MainPcs, ServPcs, Stored, Unannounced, Reserved, SlotsAccounted
    <2>6. IndicesDelimit'
      <3>1. Stored \in 0..Capacity - 1
        BY <1>0, <1>5 DEF AddAdvance, MainGoes, SlotsAccounted, Reserved, TypeOK
      <3>2. rear' = Advance((front + Stored) % Capacity)
        BY <1>5 DEF AddAdvance, IndicesDelimit
      <3>3. rear' = (front + (Stored + 1)) % Capacity
        BY <3>1, <3>2, RearStep DEF TypeOK
      <3> QED BY <3>1, <3>3, <2>2, <1>5 DEF AddAdvance, IndicesDelimit
    <2> QED BY <2>3, <2>4, <2>5, <2>6
  <1>6. CASE AddUnlock
    <2>1. UNCHANGED <<Taking, Emptied>>
      BY CountsKept, <1>6 DEF AddUnlock, serv
    <2>2. Stored' = Stored
          /\ slot_cnt' + Reserved' + Stored' + Emptied' = Capacity
      BY <1>0, <2>1, <1>6 DEF AddUnlock, MainGoes, ring, sems, main, serv, TypeOK, Stored, Unannounced, Reserved, SlotsAccounted, MainPcs
    <2>3. SlotsAccounted'
      BY <2>2 DEF SlotsAccounted
    <2>4. MutualExclusion'
      BY <1>6 DEF AddUnlock, MainGoes, ring, sems, main, serv, TypeOK, MutualExclusion, At, Locked, MainLocked
    <2>5. TypeOK'
      BY <1>0, <1>01, <2>1, <2>2, <1>6, AdvanceWraps DEF AddUnlock, MainGoes, ring, sems, main, serv, TypeOK, MutualExclusion, At, Locked, MainLocked, MainPcs, ServPcs, Stored, Unannounced, Reserved, SlotsAccounted
    <2>6. IndicesDelimit'
      BY <1>0, <2>1, <2>2, <2>5, <1>6 DEF AddUnlock, MainGoes, ring, sems, main, serv, TypeOK, IndicesDelimit, Reserved, MainPcs
    <2> QED BY <2>3, <2>4, <2>5, <2>6
  <1>7. CASE AddPutItem
    <2>1. UNCHANGED <<Taking, Emptied>>
      BY CountsKept, <1>7 DEF AddPutItem, serv
    <2>2. Stored' = Stored
          /\ slot_cnt' + Reserved' + Stored' + Emptied' = Capacity
      BY <1>0, <2>1, <1>7 DEF AddPutItem, MainGoes, ring, sems, main, serv, TypeOK, Stored, Unannounced, Reserved, SlotsAccounted, MainPcs
    <2>3. SlotsAccounted'
      BY <2>2 DEF SlotsAccounted
    <2>4. MutualExclusion'
      BY <1>7 DEF AddPutItem, MainGoes, ring, sems, main, serv, TypeOK, MutualExclusion, At, Locked, MainLocked
    <2>5. TypeOK'
      BY <1>0, <1>01, <2>1, <2>2, <1>7, AdvanceWraps DEF AddPutItem, MainGoes, ring, sems, main, serv, TypeOK, MutualExclusion, At, Locked, MainLocked, MainPcs, ServPcs, Stored, Unannounced, Reserved, SlotsAccounted
    <2>6. IndicesDelimit'
      BY <1>0, <2>1, <2>2, <2>5, <1>7 DEF AddPutItem, MainGoes, ring, sems, main, serv, TypeOK, IndicesDelimit, Reserved, MainPcs
    <2> QED BY <2>3, <2>4, <2>5, <2>6
  <1>8. ASSUME NEW t \in Threads, GetTakeItem(t) PROVE Inv'
    <2>1. /\ Taking' = Taking + 1
          /\ Emptied' = Emptied
      BY CountsStep, <1>0, <1>8 DEF GetTakeItem, TypeOK
    <2>2. Stored' = Stored
          /\ slot_cnt' + Reserved' + Stored' + Emptied' = Capacity
      BY <1>0, <2>1, <1>8 DEF GetTakeItem, Goes, ring, sems, main, serv, TypeOK, Stored, Unannounced, Reserved, SlotsAccounted, MainPcs
    <2>3. SlotsAccounted'
      BY <2>2 DEF SlotsAccounted
    <2>4. MutualExclusion'
      BY <1>8 DEF GetTakeItem, Goes, ring, sems, main, serv, TypeOK, MutualExclusion, At, Locked, MainLocked
    <2>5. TypeOK'
      BY <1>0, <1>01, <2>1, <2>2, <1>8, AdvanceWraps DEF GetTakeItem, Goes, ring, sems, main, serv, TypeOK, MutualExclusion, At, Locked, MainLocked, MainPcs, ServPcs, Stored, Unannounced, Reserved, SlotsAccounted
    <2>6. IndicesDelimit'
      BY <1>0, <2>1, <2>2, <2>5, <1>8 DEF GetTakeItem, Goes, ring, sems, main, serv, TypeOK, IndicesDelimit, Reserved, MainPcs
    <2> QED BY <2>3, <2>4, <2>5, <2>6
  <1>9. ASSUME NEW t \in Threads, GetLock(t) PROVE Inv'
    <2>1. Taking' = Taking
          /\ Emptied' = Emptied
      BY CountsStep, <1>0, <1>9 DEF GetLock, TypeOK
    <2>2. Stored' = Stored
          /\ slot_cnt' + Reserved' + Stored' + Emptied' = Capacity
      BY <1>0, <2>1, <1>9 DEF GetLock, Goes, ring, sems, main, serv, TypeOK, Stored, Unannounced, Reserved, SlotsAccounted, MainPcs
    <2>3. SlotsAccounted'
      BY <2>2 DEF SlotsAccounted
    <2>4. MutualExclusion'
      BY <1>9 DEF GetLock, Goes, ring, sems, main, serv, TypeOK, MutualExclusion, At, Locked, MainLocked
    <2>5. TypeOK'
      BY <1>0, <1>01, <2>1, <2>2, <1>9, AdvanceWraps DEF GetLock, Goes, ring, sems, main, serv, TypeOK, MutualExclusion, At, Locked, MainLocked, MainPcs, ServPcs, Stored, Unannounced, Reserved, SlotsAccounted
    <2>6. IndicesDelimit'
      BY <1>0, <2>1, <2>2, <2>5, <1>9 DEF GetLock, Goes, ring, sems, main, serv, TypeOK, IndicesDelimit, Reserved, MainPcs
    <2> QED BY <2>3, <2>4, <2>5, <2>6
  <1>10. ASSUME NEW t \in Threads, GetFetch(t) PROVE Inv'
    <2>1. Taking' = Taking
          /\ Emptied' = Emptied
      BY CountsStep, <1>0, <1>10 DEF GetFetch, TypeOK
    <2>2. Stored' = Stored
          /\ slot_cnt' + Reserved' + Stored' + Emptied' = Capacity
      BY <1>0, <2>1, <1>10 DEF GetFetch, Goes, ring, sems, main, serv, TypeOK, Stored, Unannounced, Reserved, SlotsAccounted, MainPcs
    <2>3. SlotsAccounted'
      BY <2>2 DEF SlotsAccounted
    <2>4. MutualExclusion'
      BY <1>10 DEF GetFetch, Goes, ring, sems, main, serv, TypeOK, MutualExclusion, At, Locked, MainLocked
    <2>5. TypeOK'
      BY <1>0, <1>01, <2>1, <2>2, <1>10, AdvanceWraps DEF GetFetch, Goes, ring, sems, main, serv, TypeOK, MutualExclusion, At, Locked, MainLocked, MainPcs, ServPcs, Stored, Unannounced, Reserved, SlotsAccounted
    <2>6. IndicesDelimit'
      BY <1>0, <2>1, <2>2, <2>5, <1>10 DEF GetFetch, Goes, ring, sems, main, serv, TypeOK, IndicesDelimit, Reserved, MainPcs
    <2> QED BY <2>3, <2>4, <2>5, <2>6
  <1>11. ASSUME NEW t \in Threads, GetAdvance(t) PROVE Inv'
    <2>1. Taking' = Taking - 1
          /\ Emptied' = Emptied + 1
      BY CountsStep, <1>0, <1>11 DEF GetAdvance, TypeOK
    <2>2. Stored' = Stored - 1
          /\ slot_cnt' + Reserved' + Stored' + Emptied' = Capacity
      BY <1>0, <2>1, <1>11 DEF GetAdvance, Goes, ring, sems, main, serv, TypeOK, Stored, Unannounced, Reserved, SlotsAccounted, MainPcs
    <2>3. SlotsAccounted'
      BY <2>2 DEF SlotsAccounted
    <2>4. MutualExclusion'
      BY <1>11 DEF GetAdvance, Goes, ring, sems, main, serv, TypeOK, MutualExclusion, At, Locked, MainLocked
    <2>5. TypeOK'
      BY <1>0, <1>01, <2>1, <2>2, <1>11, AdvanceWraps DEF GetAdvance, Goes, ring, sems, main, serv, TypeOK, MutualExclusion, At, Locked, MainLocked, MainPcs, ServPcs, Stored, Unannounced, Reserved, SlotsAccounted
    <2>6. IndicesDelimit'
      <3>1. Stored \in 1..Capacity
        BY <1>01, <1>0, <2>1, <1>11 DEF GetAdvance, Stored, Unannounced, TypeOK, IndicesDelimit
      <3>2. rear = (front' + (Stored - 1)) % Capacity
        BY <3>1, FrontStep, <1>11 DEF GetAdvance, TypeOK, IndicesDelimit
      <3> QED BY <3>1, <3>2, <2>2, <1>11 DEF GetAdvance, IndicesDelimit
    <2> QED BY <2>3, <2>4, <2>5, <2>6
  <1>12. ASSUME NEW t \in Threads, GetUnlock(t) PROVE Inv'
    <2>1. Taking' = Taking
          /\ Emptied' = Emptied
      BY CountsStep, <1>0, <1>12 DEF GetUnlock, TypeOK
    <2>2. Stored' = Stored
          /\ slot_cnt' + Reserved' + Stored' + Emptied' = Capacity
      BY <1>0, <2>1, <1>12 DEF GetUnlock, Goes, ring, sems, main, serv, TypeOK, Stored, Unannounced, Reserved, SlotsAccounted, MainPcs
    <2>3. SlotsAccounted'
      BY <2>2 DEF SlotsAccounted
    <2>4. MutualExclusion'
      BY <1>12 DEF GetUnlock, Goes, ring, sems, main, serv, TypeOK, MutualExclusion, At, Locked, MainLocked
    <2>5. TypeOK'
      BY <1>0, <1>01, <2>1, <2>2, <1>12, AdvanceWraps DEF GetUnlock, Goes, ring, sems, main, serv, TypeOK, MutualExclusion, At, Locked, MainLocked, MainPcs, ServPcs, Stored, Unannounced, Reserved, SlotsAccounted
    <2>6. IndicesDelimit'
      BY <1>0, <2>1, <2>2, <2>5, <1>12 DEF GetUnlock, Goes, ring, sems, main, serv, TypeOK, IndicesDelimit, Reserved, MainPcs
    <2> QED BY <2>3, <2>4, <2>5, <2>6
  <1>13. ASSUME NEW t \in Threads, GetGiveSlot(t) PROVE Inv'
    <2>1. Taking' = Taking
          /\ Emptied' = Emptied - 1
      BY CountsStep, <1>0, <1>13 DEF GetGiveSlot, TypeOK
    <2>2. Stored' = Stored
          /\ slot_cnt' + Reserved' + Stored' + Emptied' = Capacity
      BY <1>0, <2>1, <1>13 DEF GetGiveSlot, Goes, ring, sems, main, serv, TypeOK, Stored, Unannounced, Reserved, SlotsAccounted, MainPcs
    <2>3. SlotsAccounted'
      BY <2>2 DEF SlotsAccounted
    <2>4. MutualExclusion'
      BY <1>13 DEF GetGiveSlot, Goes, ring, sems, main, serv, TypeOK, MutualExclusion, At, Locked, MainLocked
    <2>5. TypeOK'
      BY <1>0, <1>01, <2>1, <2>2, <1>13, AdvanceWraps DEF GetGiveSlot, Goes, ring, sems, main, serv, TypeOK, MutualExclusion, At, Locked, MainLocked, MainPcs, ServPcs, Stored, Unannounced, Reserved, SlotsAccounted
    <2>6. IndicesDelimit'
      BY <1>0, <2>1, <2>2, <2>5, <1>13 DEF GetGiveSlot, Goes, ring, sems, main, serv, TypeOK, IndicesDelimit, Reserved, MainPcs
    <2> QED BY <2>3, <2>4, <2>5, <2>6
  <1>14. ASSUME NEW t \in Threads, ServeAndClose(t) PROVE Inv'
    <2>1. Taking' = Taking
          /\ Emptied' = Emptied
      BY CountsStep, <1>0, <1>14 DEF ServeAndClose, TypeOK
    <2>2. Stored' = Stored
          /\ slot_cnt' + Reserved' + Stored' + Emptied' = Capacity
      BY <1>0, <2>1, <1>14 DEF ServeAndClose, Goes, ring, sems, main, serv, TypeOK, Stored, Unannounced, Reserved, SlotsAccounted, MainPcs
    <2>3. SlotsAccounted'
      BY <2>2 DEF SlotsAccounted
    <2>4. MutualExclusion'
      BY <1>14 DEF ServeAndClose, Goes, ring, sems, main, serv, TypeOK, MutualExclusion, At, Locked, MainLocked
    <2>5. TypeOK'
      BY <1>0, <1>01, <2>1, <2>2, <1>14, AdvanceWraps DEF ServeAndClose, Goes, ring, sems, main, serv, TypeOK, MutualExclusion, At, Locked, MainLocked, MainPcs, ServPcs, Stored, Unannounced, Reserved, SlotsAccounted
    <2>6. IndicesDelimit'
      BY <1>0, <2>1, <2>2, <2>5, <1>14 DEF ServeAndClose, Goes, ring, sems, main, serv, TypeOK, IndicesDelimit, Reserved, MainPcs
    <2> QED BY <2>3, <2>4, <2>5, <2>6
  <1>15. CASE UNCHANGED vars
    <2>1. UNCHANGED <<Taking, Emptied>>
      BY CountsKept, <1>15 DEF vars, serv
    <2> QED BY <1>15, <2>1 DEF vars, ring, sems, main, serv, TypeOK, MutualExclusion, At,
               SlotsAccounted, IndicesDelimit, Stored, Unannounced, Reserved
  <1> QED BY <1>1, <1>2, <1>3, <1>4, <1>5, <1>6, <1>7, <1>8, <1>9, <1>10, <1>11, <1>12, <1>13, <1>14, <1>15 DEF Next, AddStep, ServiceStep

\* The semaphores never leave their ranges and every variable keeps its type.
THEOREM TypeCorrect == SafeSpec => []TypeOK
  BY InvInit, InvNext, PTL DEF SafeSpec, Inv

-------------------------------------------------------------------------------
(* The queue implements ConnFifo.                                          *)

\* What the threads hold between reading a slot and moving past it.
Locals ==
  /\ mainPc # "accept" => mainFd \in Fds
  /\ mainPc = "advance" => connfds[rear] = mainFd
  /\ \A t \in Threads : pc[t] = "advance" => fd[t] = connfds[front]
  /\ \A t \in Threads : pc[t] \in {"V_mutex", "V_slot", "serve"} => fd[t] \in Fds

FullInv == Inv /\ Locals /\ EachConnectionOnce

\* The counts do not change under a step that keeps the threads' labels or
\* moves one inside the same group of labels.
LEMMA QueueIsSeq ==
  ASSUME Inv
  PROVE  Queue \in Seq(Fds \cup {NoFd}) /\ Len(Queue) = Stored
         /\ DOMAIN Queue = 1..Stored /\ Stored \in Nat /\ Stored <= Capacity
  <1>1. Stored \in 0..Capacity
    BY DEF Inv, IndicesDelimit
  <1>2. ASSUME NEW i \in 1..Stored PROVE connfds[(front + i - 1) % Capacity] \in Fds \cup {NoFd}
    <2>1. front + i - 1 \in 0..2 * Capacity - 1
      BY <1>1, CapacityAssumption DEF Inv, TypeOK
    <2>2. (front + i - 1) % Capacity \in 0..Capacity - 1
      BY <2>1, ModOnce, CapacityAssumption
    <2> QED BY <2>2 DEF Inv, TypeOK
  <1> QED BY <1>1, <1>2, CapacityAssumption DEF Queue

\* Storing at rear changes no slot of the queue: the queue is not full then.
LEMMA RearIsFree ==
  ASSUME Inv, Stored < Capacity, NEW i \in 1..Stored
  PROVE  (front + i - 1) % Capacity # rear
  <1> DEFINE n == front + i - 1
             m == front + Stored
  <1>1. n \in 0..2 * Capacity - 1 /\ m \in 0..2 * Capacity - 1 /\ n < m /\ m - n <= Stored
    BY CapacityAssumption DEF Inv, TypeOK, IndicesDelimit
  <1>2. rear = m % Capacity
    BY DEF Inv, IndicesDelimit
  <1>3. Stored \in Nat
    BY DEF Inv, IndicesDelimit
  <1> HIDE DEF n, m
  <1>4. n % Capacity # m % Capacity
    BY <1>1, <1>3, ModOnce, CapacityAssumption
  <1> QED BY <1>2, <1>4 DEF n

\* Stored, as each step of the main thread and of a service thread leaves it.
LEMMA StoredStep ==
  ASSUME Inv
  PROVE  /\ \/ \E f \in Fds : Accept(f)
            \/ AddTakeSlot \/ AddLock \/ AddStore \/ AddUnlock \/ AddPutItem
            => Stored' = Stored
         /\ AddAdvance => Stored' = Stored + 1 /\ Stored < Capacity
         /\ \A t \in Threads :
              /\ \/ GetTakeItem(t) \/ GetLock(t) \/ GetFetch(t) \/ GetUnlock(t)
                 \/ GetGiveSlot(t) \/ ServeAndClose(t)
                 => Stored' = Stored
              /\ GetAdvance(t) => Stored' = Stored - 1 /\ Stored > 0
  <1> USE DEF Stored, Unannounced, TypeOK, Inv
  <1>0. Taking \in Nat /\ Emptied \in Nat /\ Taking' \in Nat
    BY CountsAreNat, CountsAreNatNext
  <1>1. ASSUME \/ \E f \in Fds : Accept(f)
               \/ AddTakeSlot \/ AddLock \/ AddStore \/ AddUnlock \/ AddPutItem
        PROVE  Stored' = Stored
    <2>1. UNCHANGED Taking
      BY <1>1, CountsKept DEF Accept, AddTakeSlot, AddLock, AddStore, AddUnlock, AddPutItem, serv
    <2> QED BY <1>0, <1>1, <2>1 DEF Accept, AddTakeSlot, AddLock, AddStore, AddUnlock,
               AddPutItem, MainGoes, sems
  <1>2. ASSUME AddAdvance PROVE Stored' = Stored + 1 /\ Stored < Capacity
    <2>1. UNCHANGED Taking
      BY <1>2, CountsKept DEF AddAdvance, serv
    <2> QED BY <1>0, <1>2, <2>1, CapacityAssumption DEF AddAdvance, MainGoes, sems,
               SlotsAccounted, Reserved
  <1>3. ASSUME NEW t \in Threads,
               \/ GetTakeItem(t) \/ GetLock(t) \/ GetFetch(t) \/ GetUnlock(t)
               \/ GetGiveSlot(t) \/ ServeAndClose(t)
        PROVE  Stored' = Stored
    <2>1. Taking' = Taking + (IF GetTakeItem(t) THEN 1 ELSE 0)
      <3>1. CASE GetTakeItem(t)
        BY <3>1, <1>0, CountsStep DEF GetTakeItem
      <3>2. CASE ~GetTakeItem(t)
        BY <3>2, <1>3, <1>0, CountsStep DEF GetLock, GetFetch, GetUnlock, GetGiveSlot, ServeAndClose
      <3> QED BY <3>1, <3>2
    <2>2. CASE GetTakeItem(t)
      BY <2>1, <2>2, <1>0 DEF GetTakeItem, main
    <2>3. CASE ~GetTakeItem(t)
      BY <2>1, <2>3, <1>0, <1>3 DEF GetLock, GetFetch, GetUnlock, GetGiveSlot, ServeAndClose,
         main, sems
    <2> QED BY <2>2, <2>3
  <1>4. ASSUME NEW t \in Threads, GetAdvance(t) PROVE Stored' = Stored - 1 /\ Stored > 0
    <2>1. Taking' = Taking - 1
      BY <1>0, <1>4, CountsStep DEF GetAdvance
    <2> QED BY <1>0, <1>4, <2>1 DEF GetAdvance, main, sems
  <1> QED BY <1>1, <1>2, <1>3, <1>4

\* What each step does to the three variables of ConnFifo.
LEMMA QueueKept ==
  ASSUME Inv, Stored' = Stored, front' = front,
         \A i \in 1..Stored : connfds'[(front + i - 1) % Capacity]
                                = connfds[(front + i - 1) % Capacity]
  PROVE  Queue' = Queue
  BY DEF Queue

LEMMA QueueAppend ==
  ASSUME Inv, AddAdvance, Locals
  PROVE  Queue' = Append(Queue, mainFd)
  <1>1. Stored' = Stored + 1 /\ Stored \in Nat
    BY StoredStep, QueueIsSeq
  <1>2. Queue' = [i \in 1..Stored + 1 |-> connfds[(front + i - 1) % Capacity]]
    BY <1>1 DEF Queue, AddAdvance
  <1>3. mainFd = connfds[(front + (Stored + 1) - 1) % Capacity]
    <2>1. front + (Stored + 1) - 1 = front + Stored
      BY <1>1 DEF Inv, TypeOK
    <2> QED BY <2>1 DEF Locals, AddAdvance, MainGoes, Inv, IndicesDelimit
  <1>4. Append(Queue, mainFd)
          = [i \in 1..Stored + 1 |-> IF i <= Stored THEN Queue[i] ELSE mainFd]
    <2>1. mainFd \in Fds \cup {NoFd}
      BY DEF Inv, TypeOK
    <2>2. Append(Queue, mainFd) \in Seq(Fds \cup {NoFd})
          /\ Len(Append(Queue, mainFd)) = Stored + 1
          /\ \A i \in 1..Stored : Append(Queue, mainFd)[i] = Queue[i]
          /\ Append(Queue, mainFd)[Stored + 1] = mainFd
      BY <2>1, QueueIsSeq, AppendProperties
    <2>3. Append(Queue, mainFd) \in [1..Stored + 1 -> Fds \cup {NoFd}]
      BY <2>2, LenProperties
    <2>4. ASSUME NEW i \in 1..Stored + 1
          PROVE  Append(Queue, mainFd)[i] = IF i <= Stored THEN Queue[i] ELSE mainFd
      BY <1>1, <2>2
    <2> QED BY <2>3, <2>4
  <1>5. ASSUME NEW i \in 1..Stored + 1
        PROVE  connfds[(front + i - 1) % Capacity] = IF i <= Stored THEN Queue[i] ELSE mainFd
    <2>1. CASE i <= Stored
      BY <2>1, <1>1 DEF Queue
    <2>2. CASE i = Stored + 1
      BY <2>2, <1>1, <1>3
    <2> QED BY <2>1, <2>2, <1>1
  <1> QED BY <1>2, <1>4, <1>5

LEMMA QueueTail ==
  ASSUME Inv, NEW t \in Threads, GetAdvance(t)
  PROVE  Queue # <<>> /\ Queue' = Tail(Queue) /\ Head(Queue) = connfds[front]
  <1>1. Stored' = Stored - 1 /\ Stored > 0 /\ Stored \in Nat
    BY StoredStep, QueueIsSeq
  <1>2. Queue # <<>> /\ Head(Queue) = Queue[1]
    BY <1>1, QueueIsSeq
  <1>3. Queue[1] = connfds[front]
    <2>0. front \in 0..2 * Capacity - 1 /\ front < Capacity
      BY CapacityAssumption DEF Inv, TypeOK
    <2>1. front + 1 - 1 = front /\ front % Capacity = front
      BY <2>0, ModOnce, CapacityAssumption
    <2>2. 1 \in 1..Stored
      BY <1>1
    <2>3. Queue[1] = connfds[(front + 1 - 1) % Capacity]
      BY <2>2 DEF Queue
    <2> QED BY <2>1, <2>3
  <1>4. Queue' = [i \in 1..Stored - 1 |-> connfds[(Advance(front) + i - 1) % Capacity]]
    BY <1>1 DEF Queue, GetAdvance
  <1>5. Tail(Queue) = [i \in 1..Stored - 1 |-> Queue[i + 1]]
    <2>1. Tail(Queue) \in Seq(Fds \cup {NoFd}) /\ Len(Tail(Queue)) = Stored - 1
          /\ \A i \in 1..Stored - 1 : Tail(Queue)[i] = Queue[i + 1]
      BY <1>1, <1>2, QueueIsSeq, HeadTailProperties
    <2>2. Tail(Queue) \in [1..Stored - 1 -> Fds \cup {NoFd}]
      BY <2>1, LenProperties
    <2> QED BY <2>1, <2>2
  <1>6. ASSUME NEW i \in 1..Stored - 1
        PROVE  connfds[(Advance(front) + i - 1) % Capacity] = Queue[i + 1]
    <2>1. i + 1 \in 1..Stored /\ i \in 1..Capacity /\ Stored <= Capacity
      BY <1>1, QueueIsSeq, CapacityAssumption
    <2>2. (front + i) % Capacity = (Advance(front) + (i - 1)) % Capacity
      BY <2>1, FrontStep DEF Inv, TypeOK
    <2>3. Advance(front) + (i - 1) = Advance(front) + i - 1 /\ front + (i + 1) - 1 = front + i
      BY <1>1, AdvanceWraps, CapacityAssumption DEF Inv, TypeOK
    <2> QED BY <2>1, <2>2, <2>3 DEF Queue
  <1> QED BY <1>2, <1>3, <1>4, <1>5, <1>6

\* Every other step leaves the queue as it is.
LEMMA QueueUnchanged ==
  ASSUME FullInv, [Next]_vars, ~AddAdvance, \A t \in Threads : ~GetAdvance(t)
  PROVE  Queue' = Queue
  <1>0. Inv
    BY DEF FullInv
  <1>1. CASE AddStore
    <2>1. Stored' = Stored /\ Stored \in Nat
      BY <1>0, <1>1, StoredStep, QueueIsSeq
    <2>2. Stored < Capacity
      BY <1>0, <1>1, <2>1, CountsAreNat DEF Inv, AddStore, MainGoes, SlotsAccounted, Reserved,
         TypeOK
    <2>3. ASSUME NEW i \in 1..Stored
          PROVE  connfds'[(front + i - 1) % Capacity] = connfds[(front + i - 1) % Capacity]
      <3>1. (front + i - 1) % Capacity # rear
        BY <1>0, <2>2, RearIsFree
      <3> QED BY <3>1, <1>0, <1>1 DEF AddStore, Inv, TypeOK
    <2> QED BY <1>0, <1>1, <2>1, <2>3, QueueKept DEF AddStore
  <1>2. CASE UNCHANGED vars
    <2>1. UNCHANGED <<Taking, Emptied>>
      BY <1>2, CountsKept DEF vars, serv
    <2> QED BY <1>2, <2>1 DEF vars, ring, sems, main, Queue, Stored, Unannounced
  <1>3. CASE ~AddStore /\ Next
    <2>1. Stored' = Stored
      BY <1>0, <1>3, StoredStep DEF Next, AddStep, ServiceStep
    <2>2. UNCHANGED <<connfds, front>>
      BY <1>3 DEF Next, AddStep, ServiceStep, Accept, AddTakeSlot, AddLock, AddUnlock,
         AddPutItem, GetTakeItem, GetLock, GetFetch, GetUnlock, GetGiveSlot, ServeAndClose, ring
    <2> QED BY <2>1, <2>2 DEF Queue
  <1> QED BY <1>1, <1>2, <1>3

\* Each step of the threads is a step of ConnFifo or leaves it as it is.
LEMMA FifoSteps ==
  ASSUME FullInv, [Next]_vars
  PROVE  \/ \E f \in Fds : Accept(f) /\ Fifo!Accept(f)
         \/ \E t \in Threads : ServeAndClose(t) /\ Fifo!Finish(t) /\ Serving[t] = fd[t]
         \/ open' = open /\ (Fifo!Enqueue \/ Fifo!DequeueByAny \/ UNCHANGED Fifo!vars)
  <1> USE DEF FullInv, Fifo!vars
  <1>0. Queue \in Seq(Fds \cup {NoFd}) /\ Len(Queue) = Stored
    BY QueueIsSeq
  <1>1. ASSUME NEW f \in Fds, Accept(f) PROVE Fifo!Accept(f)
    <2>1. Queue' = Queue
      BY <1>1, QueueUnchanged DEF Accept, AddAdvance, GetAdvance, MainGoes, serv, Next, Goes, Inv, TypeOK
    <2>2. f \notin Fifo!Known
      BY <1>1, FdsAssumption DEF Accept, EachConnectionOnce
    <2> QED BY <1>1, <2>1, <2>2 DEF Fifo!Accept, Accept, MainGoes, Accepted, Serving, serv
  <1>2. ASSUME AddAdvance PROVE Fifo!Enqueue
    <2>1. Queue' = Append(Queue, mainFd) /\ Stored < Capacity
      BY <1>2, QueueAppend, StoredStep
    <2>2. Accepted = mainFd /\ mainFd # NoFd /\ Accepted' = NoFd /\ Serving' = Serving
      BY <1>2, FdsAssumption DEF AddAdvance, MainGoes, Accepted, Serving, serv, Locals
    <2> QED BY <2>1, <2>2, <1>0 DEF Fifo!Enqueue
  <1>3. ASSUME NEW t \in Threads, GetAdvance(t) PROVE Fifo!Dequeue(t)
    <2>1. Queue # <<>> /\ Queue' = Tail(Queue) /\ Head(Queue) = fd[t]
      BY <1>3, QueueTail DEF Locals, GetAdvance, Goes
    <2>2. Accepted' = Accepted
      BY <1>3 DEF GetAdvance, Accepted, main
    <2>3. Serving[t] = NoFd /\ Serving' = [Serving EXCEPT ![t] = fd[t]]
      BY <1>3 DEF GetAdvance, Goes, Serving, Inv, TypeOK
    <2> QED BY <2>1, <2>2, <2>3 DEF Fifo!Dequeue
  <1>4. ASSUME NEW t \in Threads, ServeAndClose(t) PROVE Fifo!Finish(t) /\ Serving[t] = fd[t]
    <2>1. Queue' = Queue
      BY <1>4, QueueUnchanged DEF ServeAndClose, AddAdvance, GetAdvance, MainGoes, main, Next,
         ServiceStep, Goes, Inv, TypeOK
    <2>2. Accepted' = Accepted
      BY <1>4 DEF ServeAndClose, Accepted, main
    <2>3. Serving[t] = fd[t] /\ fd[t] # NoFd /\ Serving' = [Serving EXCEPT ![t] = NoFd]
      BY <1>4, FdsAssumption DEF ServeAndClose, Goes, Serving, Inv, TypeOK, Locals
    <2> QED BY <2>1, <2>2, <2>3 DEF Fifo!Finish
  <1>5. ASSUME ~AddAdvance, \A f \in Fds : ~Accept(f),
               \A t \in Threads : ~GetAdvance(t) /\ ~ServeAndClose(t)
        PROVE  UNCHANGED Fifo!vars
    <2>1. Queue' = Queue
      BY <1>5, QueueUnchanged
    <2>2. Accepted' = Accepted
      BY <1>5 DEF Next, AddStep, ServiceStep, AddTakeSlot, AddLock, AddStore, AddUnlock,
         AddPutItem, GetTakeItem, GetLock, GetFetch, GetUnlock, GetGiveSlot, MainGoes, main,
         vars, Accepted
    <2>3. Serving' = Serving
      <3>1. CASE UNCHANGED serv
        BY <3>1 DEF serv, Serving
      <3>2. ASSUME NEW t \in Threads,
                   \/ GetTakeItem(t) \/ GetLock(t) \/ GetFetch(t) \/ GetUnlock(t) \/ GetGiveSlot(t)
            PROVE  Serving' = Serving
        BY <3>2 DEF GetTakeItem, GetLock, GetFetch, GetUnlock, GetGiveSlot, Goes, Serving,
           Inv, TypeOK
      <3> QED BY <1>5, <3>1, <3>2 DEF Next, AddStep, ServiceStep, AddTakeSlot, AddLock,
                 AddStore, AddUnlock, AddPutItem, vars
    <2> QED BY <2>1, <2>2, <2>3
  <1>6. (\A f \in Fds : ~Accept(f)) /\ (\A t \in Threads : ~ServeAndClose(t)) => open' = open
    BY DEF Next, AddStep, ServiceStep, AddTakeSlot, AddLock, AddStore, AddAdvance,
       AddUnlock, AddPutItem, GetTakeItem, GetLock, GetFetch, GetAdvance, GetUnlock,
       GetGiveSlot, vars
  <1>7. CASE \E f \in Fds : Accept(f)
    BY <1>1, <1>7
  <1>8. CASE \E t \in Threads : ServeAndClose(t)
    BY <1>4, <1>8
  <1>9. CASE (\A f \in Fds : ~Accept(f)) /\ (\A t \in Threads : ~ServeAndClose(t))
    BY <1>2, <1>3, <1>5, <1>6, <1>9 DEF Fifo!DequeueByAny
  <1> QED BY <1>7, <1>8, <1>9

LEMMA FifoStep ==
  ASSUME FullInv, [Next]_vars
  PROVE  [Fifo!Next]_(Fifo!vars)
  BY FifoSteps DEF Fifo!Next, Accept

\* The types of the mapped variables, and the sequence operators on the queue.
LEMMA FifoTypes ==
  ASSUME Inv
  PROVE  /\ Queue \in Seq(Fds \cup {NoFd}) /\ DOMAIN Queue = 1..Len(Queue)
         /\ Len(Queue) \in Nat
         /\ Serving \in [Threads -> Fds \cup {NoFd}] /\ Accepted \in Fds \cup {NoFd}
  BY QueueIsSeq DEF Inv, TypeOK, Serving, Accepted

LEMMA AppendShape ==
  ASSUME Inv, NEW x \in Fds \cup {NoFd}
  PROVE  /\ DOMAIN Append(Queue, x) = 1..Len(Queue) + 1
         /\ \A i \in 1..Len(Queue) : Append(Queue, x)[i] = Queue[i]
         /\ Append(Queue, x)[Len(Queue) + 1] = x
  BY FifoTypes, AppendProperties, LenProperties

LEMMA TailShape ==
  ASSUME Inv, Queue # <<>>
  PROVE  /\ DOMAIN Tail(Queue) = 1..Len(Queue) - 1 /\ Len(Queue) >= 1
         /\ \A i \in 1..Len(Queue) - 1 : Tail(Queue)[i] = Queue[i + 1]
         /\ Head(Queue) = Queue[1]
  <1>1. Tail(Queue) \in Seq(Fds \cup {NoFd}) /\ Len(Tail(Queue)) = Len(Queue) - 1
        /\ \A i \in 1..Len(Tail(Queue)) : Tail(Queue)[i] = Queue[i + 1]
    BY FifoTypes, HeadTailProperties
  <1>2. DOMAIN Tail(Queue) = 1..Len(Tail(Queue))
    BY <1>1, LenProperties
  <1> QED BY <1>1, <1>2, FifoTypes

\* ConnFifo's steps keep every connection in one place, and Known follows the
\* descriptors that Accept opens and Finish closes.
LEMMA OnceKept ==
  ASSUME Inv, Fifo!GivenOnce, [Fifo!Next]_(Fifo!vars)
  PROVE  Fifo!GivenOnce'
  <1> USE FifoTypes, FdsAssumption DEF Fifo!GivenOnce
  <1>1. ASSUME NEW f \in Fds, Fifo!Accept(f) PROVE Fifo!GivenOnce'
    BY <1>1 DEF Fifo!Accept, Fifo!Known
  <1>2. CASE Fifo!Enqueue
    <2>1. Queue' = Append(Queue, Accepted) /\ Accepted # NoFd /\ Accepted' = NoFd /\ Serving' = Serving
      BY <1>2 DEF Fifo!Enqueue
    <2>2. /\ DOMAIN Queue' = 1..Len(Queue) + 1
          /\ \A i \in 1..Len(Queue) : Queue'[i] = Queue[i]
          /\ Queue'[Len(Queue) + 1] = Accepted
      BY <2>1, AppendShape
    <2>3. \A i \in DOMAIN Queue' : i \in DOMAIN Queue \/ i = Len(Queue) + 1
      BY <2>2
    <2> QED BY <2>1, <2>2, <2>3
  <1>3. ASSUME NEW t \in Threads, Fifo!Dequeue(t) PROVE Fifo!GivenOnce'
    <2>1. /\ Queue # <<>> /\ Queue' = Tail(Queue) /\ Accepted' = Accepted
          /\ Serving' = [Serving EXCEPT ![t] = Head(Queue)]
      BY <1>3 DEF Fifo!Dequeue
    <2>2. /\ DOMAIN Queue' = 1..Len(Queue) - 1 /\ Len(Queue) >= 1
          /\ \A i \in DOMAIN Queue' : Queue'[i] = Queue[i + 1] /\ i + 1 \in DOMAIN Queue /\ i + 1 # 1
          /\ Head(Queue) = Queue[1] /\ 1 \in DOMAIN Queue
      BY <2>1, TailShape
    <2>3. \A s \in Threads : Serving'[s] = IF s = t THEN Queue[1] ELSE Serving[s]
      BY <2>1, <2>2
    <2>4. \A i, j \in DOMAIN Queue' : Queue'[i] = Queue'[j] => i = j
      BY <2>2
    <2> QED BY <2>1, <2>2, <2>3, <2>4
  <1>4. ASSUME NEW t \in Threads, Fifo!Finish(t) PROVE Fifo!GivenOnce'
    BY <1>4 DEF Fifo!Finish
  <1>5. CASE UNCHANGED Fifo!vars
    BY <1>5 DEF Fifo!vars
  <1> QED BY <1>1, <1>2, <1>3, <1>4, <1>5 DEF Fifo!Next, Fifo!DequeueByAny

LEMMA KnownKept ==
  ASSUME Inv, Fifo!GivenOnce
  PROVE  /\ \A f \in Fds : Fifo!Accept(f) => Fifo!Known' \ {NoFd} = (Fifo!Known \ {NoFd}) \cup {f}
         /\ Fifo!Enqueue \/ Fifo!DequeueByAny \/ UNCHANGED Fifo!vars
              => Fifo!Known' \ {NoFd} = Fifo!Known \ {NoFd}
         /\ \A t \in Threads :
              Fifo!Finish(t) => Fifo!Known' \ {NoFd} = (Fifo!Known \ {NoFd}) \ {Serving[t]}
  <1> USE FifoTypes, FdsAssumption DEF Fifo!Known
  <1>1. ASSUME NEW f \in Fds, Fifo!Accept(f)
        PROVE  Fifo!Known' \ {NoFd} = (Fifo!Known \ {NoFd}) \cup {f}
    BY <1>1 DEF Fifo!Accept
  <1>2. ASSUME Fifo!Enqueue PROVE Fifo!Known' \ {NoFd} = Fifo!Known \ {NoFd}
    <2>1. Queue' = Append(Queue, Accepted) /\ Accepted' = NoFd /\ Serving' = Serving
      BY <1>2 DEF Fifo!Enqueue
    <2>2. {Queue'[i] : i \in DOMAIN Queue'} = {Queue[i] : i \in DOMAIN Queue} \cup {Accepted}
      <3>1. /\ DOMAIN Queue' = 1..Len(Queue) + 1
            /\ \A i \in 1..Len(Queue) : Queue'[i] = Queue[i]
            /\ Queue'[Len(Queue) + 1] = Accepted
        BY <2>1, AppendShape
      <3>2. \A i \in DOMAIN Queue' : i \in DOMAIN Queue \/ i = Len(Queue) + 1
        BY <3>1
      <3>3. Len(Queue) + 1 \in DOMAIN Queue' /\ DOMAIN Queue \subseteq DOMAIN Queue'
        BY <3>1
      <3> QED BY <3>1, <3>2, <3>3
    <2> QED BY <2>1, <2>2
  <1>3. ASSUME NEW t \in Threads, Fifo!Dequeue(t)
        PROVE  Fifo!Known' \ {NoFd} = Fifo!Known \ {NoFd}
    <2>1. /\ Queue # <<>> /\ Queue' = Tail(Queue) /\ Accepted' = Accepted /\ Serving[t] = NoFd
          /\ Serving' = [Serving EXCEPT ![t] = Head(Queue)]
      BY <1>3 DEF Fifo!Dequeue
    <2>2. {Queue[i] : i \in DOMAIN Queue} = {Queue'[i] : i \in DOMAIN Queue'} \cup {Head(Queue)}
      <3>1. /\ DOMAIN Queue' = 1..Len(Queue) - 1 /\ Len(Queue) >= 1
            /\ \A i \in DOMAIN Queue' : Queue'[i] = Queue[i + 1] /\ i + 1 \in DOMAIN Queue
            /\ Head(Queue) = Queue[1] /\ 1 \in DOMAIN Queue
        BY <2>1, TailShape
      <3>2. ASSUME NEW i \in DOMAIN Queue PROVE i = 1 \/ Queue[i] \in {Queue'[k] : k \in DOMAIN Queue'}
        <4>1. CASE i # 1
          <5>1. i - 1 \in DOMAIN Queue' /\ (i - 1) + 1 = i
            BY <4>1, <3>1
          <5> QED BY <5>1, <3>1
        <4> QED BY <4>1
      <3>3. {Queue[i] : i \in DOMAIN Queue} \subseteq {Queue'[i] : i \in DOMAIN Queue'} \cup {Head(Queue)}
        BY <3>1, <3>2
      <3>4. {Queue'[i] : i \in DOMAIN Queue'} \cup {Head(Queue)} \subseteq {Queue[i] : i \in DOMAIN Queue}
        BY <3>1
      <3> QED BY <3>3, <3>4
    <2>3. {Serving'[s] : s \in Threads} \ {NoFd}
            = ({Serving[s] : s \in Threads} \cup {Head(Queue)}) \ {NoFd}
      BY <2>1
    <2> QED BY <2>1, <2>2, <2>3
  <1>4. ASSUME NEW t \in Threads, Fifo!Finish(t)
        PROVE  Fifo!Known' \ {NoFd} = (Fifo!Known \ {NoFd}) \ {Serving[t]}
    <2>1. /\ Serving[t] # NoFd /\ Queue' = Queue /\ Accepted' = Accepted
          /\ Serving' = [Serving EXCEPT ![t] = NoFd]
      BY <1>4 DEF Fifo!Finish
    <2>2. Serving[t] # Accepted /\ \A i \in DOMAIN Queue : Queue[i] # Serving[t]
      BY <2>1 DEF Fifo!GivenOnce
    <2>3. {Serving'[s] : s \in Threads} \ {NoFd} = ({Serving[s] : s \in Threads} \ {NoFd}) \ {Serving[t]}
      BY <2>1 DEF Fifo!GivenOnce
    <2> QED BY <2>1, <2>2, <2>3
  <1>5. ASSUME UNCHANGED Fifo!vars PROVE Fifo!Known' \ {NoFd} = Fifo!Known \ {NoFd}
    BY <1>5 DEF Fifo!vars
  <1> QED BY <1>1, <1>2, <1>3, <1>4, <1>5 DEF Fifo!DequeueByAny

LEMMA LocalsNext ==
  ASSUME FullInv, [Next]_vars
  PROVE  Locals'
  <1> USE DEF FullInv
  <1>1. (mainPc # "accept" => mainFd \in Fds)'
    BY DEF Locals, Next, AddStep, ServiceStep, Accept, AddTakeSlot, AddLock, AddStore,
       AddAdvance, AddUnlock, AddPutItem, GetTakeItem, GetLock, GetFetch, GetAdvance,
       GetUnlock, GetGiveSlot, ServeAndClose, MainGoes, vars, main
  <1>2. (mainPc = "advance" => connfds[rear] = mainFd)'
    BY DEF Locals, Next, AddStep, ServiceStep, Accept, AddTakeSlot, AddLock, AddStore,
       AddAdvance, AddUnlock, AddPutItem, GetTakeItem, GetLock, GetFetch, GetAdvance,
       GetUnlock, GetGiveSlot, ServeAndClose, MainGoes, vars, main, ring, Inv, TypeOK
  <1>3. ASSUME NEW t \in Threads, pc'[t] = "advance" PROVE fd'[t] = connfds'[front']
    <2>1. CASE pc[t] = "advance" /\ fd'[t] = fd[t]
      \* The thread is in its critical section: nobody writes a slot or moves front.
      <3>1. mainPc # "store" /\ \A s \in Threads : pc[s] = "advance" => s = t
        BY <2>1 DEF Inv, MutualExclusion, At, Locked, MainLocked
      <3>2. UNCHANGED <<connfds, front>>
        BY <1>3, <2>1, <3>1 DEF Next, AddStep, ServiceStep, Accept, AddTakeSlot, AddLock,
           AddStore, AddAdvance, AddUnlock, AddPutItem, GetTakeItem, GetLock, GetFetch,
           GetAdvance, GetUnlock, GetGiveSlot, ServeAndClose, MainGoes, Goes, vars, ring,
           Inv, TypeOK, ServPcs
      <3> QED BY <2>1, <3>2 DEF Locals
    <2>2. CASE GetFetch(t)
      BY <2>2 DEF GetFetch, Goes, ring, Inv, TypeOK
    <2>3. CASE ~GetFetch(t)
      <3>1. pc[t] = "advance" /\ fd'[t] = fd[t]
        BY <1>3, <2>3 DEF Next, AddStep, ServiceStep, Accept, AddTakeSlot, AddLock,
           AddStore, AddAdvance, AddUnlock, AddPutItem, GetTakeItem, GetLock, GetFetch,
           GetAdvance, GetUnlock, GetGiveSlot, ServeAndClose, Goes, vars, serv, Inv, TypeOK
      <3> QED BY <3>1, <2>1
    <2> QED BY <2>2, <2>3
  <1>4. ASSUME NEW t \in Threads, pc'[t] \in {"V_mutex", "V_slot", "serve"}
        PROVE  fd'[t] \in Fds
    <2>1. CASE GetAdvance(t)
      <3>1. Queue # <<>> /\ fd[t] = Head(Queue)
        BY <2>1, QueueTail DEF Locals, GetAdvance, Goes
      <3>2. fd[t] = Queue[1] /\ 1 \in DOMAIN Queue
        BY <3>1, TailShape, FifoTypes
      <3>3. fd[t] # NoFd
        BY <3>2 DEF EachConnectionOnce, Fifo!GivenOnce
      <3> QED BY <2>1, <3>3 DEF GetAdvance, Inv, TypeOK
    <2>2. CASE ~GetAdvance(t)
      BY <1>4, <2>2 DEF Locals, Next, AddStep, ServiceStep, Accept, AddTakeSlot, AddLock,
         AddStore, AddAdvance, AddUnlock, AddPutItem, GetTakeItem, GetLock, GetFetch,
         GetAdvance, GetUnlock, GetGiveSlot, ServeAndClose, Goes, vars, serv, Inv, TypeOK
    <2> QED BY <2>1, <2>2
  <1> QED BY <1>1, <1>2, <1>3, <1>4 DEF Locals

LEMMA OnceNext ==
  ASSUME FullInv, [Next]_vars
  PROVE  EachConnectionOnce'
  <1> USE DEF FullInv
  <1>0. [Fifo!Next]_(Fifo!vars) /\ Fifo!GivenOnce /\ open = Fifo!Known \ {NoFd}
    BY FifoStep DEF EachConnectionOnce
  <1>1. Fifo!GivenOnce'
    BY <1>0, OnceKept
  <1>2. open' = Fifo!Known' \ {NoFd}
    <2>1. CASE \E f \in Fds : Accept(f) /\ Fifo!Accept(f)
      BY <2>1, <1>0, KnownKept DEF Accept
    <2>2. CASE \E t \in Threads : ServeAndClose(t) /\ Fifo!Finish(t) /\ Serving[t] = fd[t]
      <3>1. PICK t \in Threads : ServeAndClose(t) /\ Fifo!Finish(t) /\ Serving[t] = fd[t]
        BY <2>2
      <3>2. open' = open \ {Serving[t]}
        BY <3>1 DEF ServeAndClose
      <3> QED BY <3>1, <3>2, <1>0, KnownKept
    <2>3. CASE open' = open /\ (Fifo!Enqueue \/ Fifo!DequeueByAny \/ UNCHANGED Fifo!vars)
      BY <2>3, <1>0, KnownKept
    <2> QED BY <2>1, <2>2, <2>3, FifoSteps
  <1> QED BY <1>1, <1>2 DEF EachConnectionOnce

LEMMA FullInvInit == Init => FullInv
  <1> SUFFICES ASSUME Init PROVE FullInv
    OBVIOUS
  <1>1. Inv /\ Stored = 0
    BY InvInit, CountsInit
  <1>2. Locals
    BY DEF Init, Locals
  <1>3. Queue = <<>> /\ Accepted = NoFd /\ Serving = [t \in Threads |-> NoFd]
    BY <1>1 DEF Queue, Accepted, Serving, Init
  <1>4. EachConnectionOnce
    <2>1. DOMAIN Queue = {} /\ open = {} /\ \A t \in Threads : Serving[t] = NoFd
      BY <1>3 DEF Init
    <2> QED BY <2>1, <1>3 DEF EachConnectionOnce, Fifo!GivenOnce, Fifo!Known
  <1> QED BY <1>1, <1>2, <1>4 DEF FullInv

LEMMA FullInvAlways == SafeSpec => []FullInv
  <1>1. FullInv /\ [Next]_vars => FullInv'
    BY InvNext, LocalsNext, OnceNext DEF FullInv
  <1> QED BY <1>1, FullInvInit, PTL DEF SafeSpec

\* The two critical sections on the ring exclude one another, for any number
\* of service threads.
THEOREM CriticalSectionsExclude == SafeSpec => []MutualExclusion
  BY FullInvAlways, PTL DEF FullInv, Inv

\* No slot is ever lost or counted twice, whatever the capacity.
THEOREM SlotsAlwaysAccounted == SafeSpec => []SlotsAccounted
  BY FullInvAlways, PTL DEF FullInv, Inv

\* The indices always delimit what is stored.
THEOREM IndicesAlwaysDelimit == SafeSpec => []IndicesDelimit
  BY FullInvAlways, PTL DEF FullInv, Inv

\* No connection is lost or given to two service threads.
THEOREM NoConnectionLostOrShared == SafeSpec => []EachConnectionOnce
  BY FullInvAlways, PTL DEF FullInv

\* The ring and its semaphores implement the bounded FIFO queue ConnFifo.
THEOREM ImplementsFifo == SafeSpec => Fifo!SafeSpec
  <1>1. Init => Fifo!Init
    <2> SUFFICES ASSUME Init PROVE Fifo!Init
      OBVIOUS
    <2>1. Stored = 0
      BY CountsInit
    <2> QED BY <2>1 DEF Fifo!Init, Queue, Accepted, Serving, Init
  <1>2. FullInv /\ [Next]_vars => [Fifo!Next]_(Fifo!vars)
    BY FifoStep
  <1> QED BY <1>1, <1>2, FullInvAlways, PTL DEF SafeSpec, Fifo!SafeSpec
===============================================================================
