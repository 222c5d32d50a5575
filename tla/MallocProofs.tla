----------------------------- MODULE MallocProofs -----------------------------
(* The allocator's proofs, for every arena, every set of sizes and any number of  *)
(* calls. Malloc is a composition of pure functions of one record, so that most   *)
(* lemmas are about a function f of the model and read "f(m) gives ...": f's      *)
(* postcondition from its precondition, and the proof of a caller cites those of  *)
(* its callees. From the inside out:                                              *)
(*   - one node of the freetree, and the order of all of them: sinking and        *)
(*     emerging a node that is out of place puts the whole tree in order;         *)
(*   - adding, deleting and finding nodes: the tree indexes the blocks it should; *)
(*   - blocks: cutting a region of the heap again leaves the heap tiled;          *)
(*   - the internal calls (Allocate, Enlarge, MallocOnly, FreeOnly, MoveDown,     *)
(*     ReallocInPlace): each leaves a Whole heap and no other block touched;      *)
(*   - the freetree's capacity: after the adjustment the tree has room, in a      *)
(*     block of its own, and a call that adjusts it several times undoes nothing; *)
(*   - the user's calls, the inductive invariant IInv, and the theorems.          *)
(* A call that runs into undefined behaviour ends in a state with spoiled set,    *)
(* of which IInv says nothing more.                                               *)
EXTENDS Malloc, LibraryLemmas

\* The fields of the allocator's state, and the records of the blocks.
Shape(m) == m = [blocks |-> m.blocks, tree |-> m.tree, end |-> m.end, root |-> m.root,
                 cap |-> m.cap, top |-> m.top, got |-> m.got, bad |-> m.bad]

BlockRecords == [size : Nat \ {0}, status : Statuses, node : Int]

Records(m) ==
  /\ Shape(m)
  /\ m.blocks \in [DOMAIN m.blocks -> BlockRecords]
  /\ m.tree = [i \in DOMAIN m.tree |-> m.tree[i]]
  /\ m.end \in Nat

Typed(m) == Records(m) /\ 0..m.end - 1 \subseteq DOMAIN m.tree

SameRest(m, r) ==
  /\ r.root = m.root /\ r.cap = m.cap /\ r.top = m.top /\ r.got = m.got /\ r.bad = m.bad

\* Only the nodes of the blocks differ.
SameLayout(m, r) ==
  /\ DOMAIN r.blocks = DOMAIN m.blocks
  /\ \A h \in DOMAIN m.blocks : /\ r.blocks[h].size = m.blocks[h].size
                                /\ r.blocks[h].status = m.blocks[h].status

\* The nodes P point to the blocks F, one to one, and each of these to its node.
Indexes(m, P, F) ==
  /\ \A i \in P : m.tree[i] \in F /\ m.blocks[m.tree[i]].node = i
  /\ \A h \in F : m.blocks[h].node \in P /\ m.tree[m.blocks[h].node] = h

-------------------------------------------------------------------------------
(* One node.                                                               *)

\* Setting a node changes that node and the node field of its block.
LEMMA SetNodeGives ==
  ASSUME NEW m, Records(m), NEW i \in Nat, NEW h \in DOMAIN m.blocks
  PROVE  LET r == SetNode(m, i, h)
         IN  /\ Records(r) /\ SameRest(m, r) /\ SameLayout(m, r) /\ r.end = m.end
             /\ DOMAIN r.tree = DOMAIN m.tree \cup {i}
             /\ r.tree[i] = h /\ \A k \in DOMAIN m.tree \ {i} : r.tree[k] = m.tree[k]
             /\ r.blocks[h].node = i
             /\ \A k \in DOMAIN m.blocks \ {h} : r.blocks[k] = m.blocks[k]
  <1> DEFINE r == SetNode(m, i, h)
             t == Put(m.tree, i, h)
             b == [m.blocks EXCEPT ![h].node = i]
  <1>1. /\ t = [k \in DOMAIN m.tree \cup {i} |-> IF k = i THEN h ELSE m.tree[k]]
    BY DEF Put
  <1>2. /\ b \in [DOMAIN m.blocks -> BlockRecords]
        /\ b[h].node = i /\ b[h].size = m.blocks[h].size /\ b[h].status = m.blocks[h].status
        /\ \A k \in DOMAIN m.blocks \ {h} : b[k] = m.blocks[k]
    BY DEF Records, BlockRecords
  <1>3. r = [blocks |-> b, tree |-> t, end |-> m.end, root |-> m.root,
             cap |-> m.cap, top |-> m.top, got |-> m.got, bad |-> m.bad]
    <2> HIDE DEF t, b
    <2>1. r = [m EXCEPT !.tree = t, !.blocks = b]
      BY DEF SetNode, t, b
    <2> QED BY <2>1 DEF Records, Shape
  <1> HIDE DEF t, b, r
  <1>4. Shape(r) /\ r.tree = t /\ r.blocks = b /\ r.end = m.end /\ SameRest(m, r)
    BY <1>3 DEF Shape, SameRest
  <1>5. DOMAIN b = DOMAIN m.blocks
    BY <1>2
  <1>6. /\ DOMAIN t = DOMAIN m.tree \cup {i} /\ t[i] = h
        /\ \A k \in DOMAIN m.tree \ {i} : t[k] = m.tree[k]
        /\ t = [k \in DOMAIN t |-> t[k]]
    BY <1>1
  <1>7. Records(r)
    BY <1>2, <1>4, <1>5, <1>6 DEF Records
  <1>8. SameLayout(m, r)
    BY <1>2, <1>4, <1>5 DEF SameLayout
  <1> QED BY <1>2, <1>4, <1>6, <1>7, <1>8 DEF r

\* Two nodes change places.
LEMMA SwapGives ==
  ASSUME NEW m, Typed(m), NEW i \in Nat, NEW j \in Nat, i # j,
         i \in DOMAIN m.tree, j \in DOMAIN m.tree,
         m.tree[i] \in DOMAIN m.blocks, m.tree[j] \in DOMAIN m.blocks, m.tree[i] # m.tree[j]
  PROVE  LET r == Swap(m, i, j)
         IN  /\ Typed(r) /\ SameRest(m, r) /\ SameLayout(m, r) /\ r.end = m.end
             /\ DOMAIN r.tree = DOMAIN m.tree
             /\ r.tree[i] = m.tree[j] /\ r.tree[j] = m.tree[i]
             /\ \A k \in DOMAIN m.tree \ {i, j} : r.tree[k] = m.tree[k]
             /\ r.blocks[m.tree[j]].node = i /\ r.blocks[m.tree[i]].node = j
             /\ \A k \in DOMAIN m.blocks \ {m.tree[i], m.tree[j]} : r.blocks[k] = m.blocks[k]
  <1> DEFINE q == SetNode(m, i, m.tree[j])
             r == SetNode(q, j, m.tree[i])
  <1>0. Records(m) /\ 0..m.end - 1 \subseteq DOMAIN m.tree
    BY DEF Typed
  <1>1. /\ Records(q) /\ SameRest(m, q) /\ SameLayout(m, q) /\ q.end = m.end
        /\ DOMAIN q.tree = DOMAIN m.tree \cup {i}
        /\ q.tree[i] = m.tree[j] /\ \A k \in DOMAIN m.tree \ {i} : q.tree[k] = m.tree[k]
        /\ q.blocks[m.tree[j]].node = i
        /\ \A k \in DOMAIN m.blocks \ {m.tree[j]} : q.blocks[k] = m.blocks[k]
    BY <1>0, SetNodeGives
  <1> HIDE DEF q
  <1>2. m.tree[i] \in DOMAIN q.blocks
    BY <1>1 DEF SameLayout
  <1>3. /\ Records(r) /\ SameRest(q, r) /\ SameLayout(q, r) /\ r.end = q.end
        /\ DOMAIN r.tree = DOMAIN q.tree \cup {j}
        /\ r.tree[j] = m.tree[i] /\ \A k \in DOMAIN q.tree \ {j} : r.tree[k] = q.tree[k]
        /\ r.blocks[m.tree[i]].node = j
        /\ \A k \in DOMAIN q.blocks \ {m.tree[i]} : r.blocks[k] = q.blocks[k]
    BY <1>1, <1>2, SetNodeGives
  <1>4. r = Swap(m, i, j)
    BY DEF Swap, q
  <1> HIDE DEF r
  <1>5. SameRest(m, r) /\ SameLayout(m, r) /\ r.end = m.end /\ DOMAIN r.tree = DOMAIN m.tree
    BY <1>1, <1>3 DEF SameRest, SameLayout
  <1>6. r.tree[i] = m.tree[j] /\ \A k \in DOMAIN m.tree \ {i, j} : r.tree[k] = m.tree[k]
    BY <1>1, <1>3
  <1>7. r.blocks[m.tree[j]].node = i
        /\ \A k \in DOMAIN m.blocks \ {m.tree[i], m.tree[j]} : r.blocks[k] = m.blocks[k]
    BY <1>1, <1>3 DEF SameLayout
  <1>8. Typed(r)
    BY <1>0, <1>3, <1>5 DEF Typed
  <1> HIDE DEF Typed
  <1>9. /\ Typed(r) /\ SameRest(m, r) /\ SameLayout(m, r) /\ r.end = m.end
        /\ DOMAIN r.tree = DOMAIN m.tree
        /\ r.tree[i] = m.tree[j] /\ r.tree[j] = m.tree[i]
        /\ \A k \in DOMAIN m.tree \ {i, j} : r.tree[k] = m.tree[k]
        /\ r.blocks[m.tree[j]].node = i /\ r.blocks[m.tree[i]].node = j
        /\ \A k \in DOMAIN m.blocks \ {m.tree[i], m.tree[j]} : r.blocks[k] = m.blocks[k]
    BY <1>3, <1>5, <1>6, <1>7, <1>8
  <1> QED BY <1>4, <1>9

\* What moving nodes leaves as it is.
Moves(m, r) == /\ Typed(r) /\ SameRest(m, r) /\ SameLayout(m, r) /\ r.end = m.end
               /\ DOMAIN r.tree = DOMAIN m.tree

\* Moving nodes twice is moving nodes.
LEMMA MovesTrans ==
  ASSUME NEW m, NEW q, NEW r, Moves(m, q), Moves(q, r)
  PROVE  Moves(m, r)
  BY DEF Moves, SameRest, SameLayout

Indexed(m, P, F) == /\ Records(m) /\ P \subseteq Nat /\ P \subseteq DOMAIN m.tree
                    /\ F \subseteq DOMAIN m.blocks /\ Indexes(m, P, F)

Swapped(m, r, i, j) == /\ r.tree[i] = m.tree[j] /\ r.tree[j] = m.tree[i]
                       /\ \A k \in DOMAIN m.tree \ {i, j} : r.tree[k] = m.tree[k]

\* A swap of two nodes of an index leaves an index of the same blocks.
LEMMA SwapIndexes ==
  ASSUME NEW m, Typed(m), NEW P, NEW F, Indexed(m, P, F), NEW i \in P, NEW j \in P, i # j,
         NEW r, r = Swap(m, i, j)
  PROVE  Moves(m, r) /\ Indexed(r, P, F) /\ Swapped(m, r, i, j)
  <1>0. /\ Typed(m) /\ P \subseteq Nat /\ P \subseteq DOMAIN m.tree
        /\ F \subseteq DOMAIN m.blocks /\ Indexes(m, P, F)
    BY DEF Indexed
  <1>1. /\ m.tree[i] \in F /\ m.tree[j] \in F /\ m.tree[i] # m.tree[j]
    BY <1>0 DEF Indexes
  <1>3. /\ Typed(r) /\ SameRest(m, r) /\ SameLayout(m, r) /\ r.end = m.end
        /\ DOMAIN r.tree = DOMAIN m.tree
        /\ r.tree[i] = m.tree[j] /\ r.tree[j] = m.tree[i]
        /\ \A k \in DOMAIN m.tree \ {i, j} : r.tree[k] = m.tree[k]
        /\ r.blocks[m.tree[j]].node = i /\ r.blocks[m.tree[i]].node = j
        /\ \A k \in DOMAIN m.blocks \ {m.tree[i], m.tree[j]} : r.blocks[k] = m.blocks[k]
    <2>1. /\ i \in Nat /\ j \in Nat /\ i \in DOMAIN m.tree /\ j \in DOMAIN m.tree
          /\ m.tree[i] \in DOMAIN m.blocks /\ m.tree[j] \in DOMAIN m.blocks
      BY <1>0, <1>1
    <2> HIDE DEF Typed
    <2> QED BY <1>0, <1>1, <2>1, SwapGives
  <1>4. Indexes(r, P, F)
    <2>1. ASSUME NEW k \in P PROVE r.tree[k] \in F /\ r.blocks[r.tree[k]].node = k
      <3>1. CASE k = i
        BY <1>1, <1>3, <3>1
      <3>2. CASE k = j
        BY <1>1, <1>3, <3>2
      <3>3. CASE k # i /\ k # j
        <4>1. /\ r.tree[k] = m.tree[k] /\ m.tree[k] \in F /\ m.blocks[m.tree[k]].node = k
              /\ m.blocks[m.tree[i]].node = i /\ m.blocks[m.tree[j]].node = j
          BY <1>0, <1>3, <3>3 DEF Indexes
        <4>2. m.tree[k] # m.tree[i] /\ m.tree[k] # m.tree[j]
          BY <4>1, <3>3
        <4> QED BY <4>1, <4>2, <1>0, <1>3
      <3> QED BY <3>1, <3>2, <3>3
    <2>2. ASSUME NEW h \in F PROVE r.blocks[h].node \in P /\ r.tree[r.blocks[h].node] = h
      <3>1. CASE h = m.tree[i]
        BY <1>3, <3>1
      <3>2. CASE h = m.tree[j]
        BY <1>3, <3>2
      <3>3. CASE h # m.tree[i] /\ h # m.tree[j]
        <4>1. r.blocks[h] = m.blocks[h] /\ m.blocks[h].node \in P /\ m.tree[m.blocks[h].node] = h
          BY <1>0, <1>3, <3>3 DEF Indexes
        <4>2. m.blocks[h].node # i /\ m.blocks[h].node # j
          BY <4>1, <3>3
        <4> QED BY <4>1, <4>2, <1>0, <1>3, ZenonT(60)
      <3> QED BY <3>1, <3>2, <3>3
    <2> QED BY <2>1, <2>2 DEF Indexes
  <1>5. Moves(m, r) /\ Swapped(m, r, i, j) /\ Records(r)
    BY <1>3 DEF Moves, Swapped, Typed
  <1>6. P \subseteq DOMAIN r.tree /\ F \subseteq DOMAIN r.blocks
    BY <1>0, <1>3 DEF SameLayout
  <1> QED BY <1>0, <1>4, <1>5, <1>6 DEF Indexed

-------------------------------------------------------------------------------
(* The order of the nodes.                                                 *)

\* Node k is a son of its parent, which has a lower index.
LEMMA ParentOfNode ==
  ASSUME NEW k \in Nat \ {0}
  PROVE  Parent(k) \in Nat /\ Parent(k) < k /\ (k = Left(Parent(k)) \/ k = Right(Parent(k)))
  <1>1. (k - 1) \div 2 \in Nat /\ (k - 1) \div 2 < k
        /\ (k = 2 * ((k - 1) \div 2) + 1 \/ k = 2 * ((k - 1) \div 2) + 2)
    OBVIOUS
  <1> QED BY <1>1 DEF Parent, Left, Right

\* The parent of a node of the tree is a node of the tree.
LEMMA ParentInRange ==
  ASSUME NEW n \in Nat
  PROVE  \A k \in 0..n - 1 : k # 0 => Parent(k) \in 0..n - 1 /\ Parent(k) # k
  <1> SUFFICES ASSUME NEW k \in 0..n - 1, k # 0 PROVE Parent(k) \in 0..n - 1 /\ Parent(k) # k
    OBVIOUS
  <1>1. PICK p : p = Parent(k)
    OBVIOUS
  <1>2. p \in Nat /\ p < k
    BY <1>1, ParentOfNode
  <1> QED BY <1>1, <1>2

\* The two sons of a node have higher indices, and it for their parent.
LEMMA SonsOfNode ==
  ASSUME NEW i \in Nat
  PROVE  /\ Left(i) \in Nat /\ Right(i) \in Nat /\ i < Left(i) /\ i < Right(i) /\ Left(i) # Right(i)
         /\ Parent(Left(i)) = i /\ Parent(Right(i)) = i
  <1>1. ((2 * i + 1) - 1) \div 2 = i /\ ((2 * i + 2) - 1) \div 2 = i
    OBVIOUS
  <1> QED BY <1>1 DEF Parent, Left, Right

\* K gives the sizes of n nodes. Ordered: none is larger than its parent. Loose:
\* the same but for node i, and its sons are no larger than its parent.
UpOk(K, i)      == i # 0 => K[i] <= K[Parent(i)]
DownOk(K, n, i) == \A k \in 0..n - 1 : k # 0 /\ Parent(k) = i => K[k] <= K[i]
Ordered(K, n)   == \A k \in 0..n - 1 : UpOk(K, k)
Loose(K, n, i)  ==
  /\ \A k \in 0..n - 1 : k # 0 /\ k # i /\ Parent(k) # i => K[k] <= K[Parent(k)]
  /\ i # 0 => \A k \in 0..n - 1 : k # 0 /\ Parent(k) = i => K[k] <= K[Parent(i)]

\* Nodes are in order if all but one are, and that one fits its neighbours.
LEMMA LooseAndInPlace ==
  ASSUME NEW n \in Nat, NEW K \in [0..n - 1 -> Nat], NEW i \in 0..n - 1
  PROVE  Ordered(K, n) <=> Loose(K, n, i) /\ UpOk(K, i) /\ DownOk(K, n, i)
  <1>1. ASSUME Ordered(K, n) PROVE Loose(K, n, i) /\ UpOk(K, i) /\ DownOk(K, n, i)
    <2>1. UpOk(K, i) /\ DownOk(K, n, i)
      BY <1>1 DEF Ordered, UpOk, DownOk
    <2>2. ASSUME i # 0, NEW k \in 0..n - 1, k # 0, Parent(k) = i PROVE K[k] <= K[Parent(i)]
      <3>1. Parent(i) \in 0..n - 1
        BY <2>2, ParentOfNode
      <3>2. PICK a \in Nat, b \in Nat, c \in Nat : a = K[k] /\ b = K[i] /\ c = K[Parent(i)]
        BY <3>1
      <3>3. a <= b /\ b <= c
        BY <1>1, <2>2, <3>2 DEF Ordered, UpOk
      <3> QED BY <3>2, <3>3
    <2> QED BY <1>1, <2>1, <2>2 DEF Ordered, Loose, UpOk
  <1>2. ASSUME Loose(K, n, i), UpOk(K, i), DownOk(K, n, i) PROVE Ordered(K, n)
    BY <1>2 DEF Ordered, Loose, UpOk, DownOk
  <1> QED BY <1>1, <1>2

\* A node larger than its parent changes places with it.
LEMMA RiseKeepsLoose ==
  ASSUME NEW n \in Nat, NEW K \in [0..n - 1 -> Nat], NEW i \in 0..n - 1, i # 0,
         Loose(K, n, i), ~(K[i] <= K[Parent(i)]),
         NEW L \in [0..n - 1 -> Nat], L[i] = K[Parent(i)], L[Parent(i)] = K[i],
         \A k \in 0..n - 1 : k # i /\ k # Parent(i) => L[k] = K[k]
  PROVE  Loose(L, n, Parent(i)) /\ DownOk(L, n, Parent(i))
  <1>0. PICK p : p = Parent(i)
    OBVIOUS
  <1>1. p \in 0..n - 1 /\ p # i
    BY <1>0, ParentOfNode
  <1>2. \A k \in 0..n - 1 : k # 0 => Parent(k) \in 0..n - 1 /\ Parent(k) # k
    BY ParentInRange
  <1>3. ASSUME NEW k \in 0..n - 1, k # 0, k # p, Parent(k) # p PROVE L[k] <= L[Parent(k)]
    <2>1. k # i /\ L[k] = K[k]
      BY <1>0, <1>3
    <2>2. CASE Parent(k) = i
      BY <2>1, <2>2, <1>0, <1>3 DEF Loose
    <2>3. CASE Parent(k) # i
      <3>1. L[Parent(k)] = K[Parent(k)] /\ K[k] <= K[Parent(k)]
        BY <1>0, <1>2, <1>3, <2>1, <2>3 DEF Loose
      <3> QED BY <2>1, <3>1
    <2> QED BY <2>2, <2>3
  <1>4. ASSUME p # 0, NEW k \in 0..n - 1, k # 0, Parent(k) = p PROVE L[k] <= L[Parent(p)]
    <2>1. PICK g : g = Parent(p)
      OBVIOUS
    <2>2. g \in 0..n - 1 /\ g # p /\ g # i /\ L[g] = K[g]
      <3>1. g < p /\ p < i /\ g \in Nat
        BY <1>0, <1>1, <1>4, <2>1, ParentOfNode, SMTT(30)
      <3> QED BY <1>0, <1>1, <3>1
    <2>3. K[p] <= K[g]
      BY <1>0, <1>1, <1>4, <2>1, <2>2 DEF Loose
    <2>4. CASE k = i
      BY <1>0, <2>1, <2>2, <2>3, <2>4
    <2>5. CASE k # i
      <3>1. L[k] = K[k] /\ K[k] <= K[p]
        BY <1>0, <1>1, <1>2, <1>4, <2>5 DEF Loose
      <3>2. PICK a \in Nat, b \in Nat, c \in Nat : a = K[k] /\ b = K[p] /\ c = K[g]
        BY <1>1, <2>2
      <3> QED BY <3>1, <3>2, <2>1, <2>2, <2>3
    <2> QED BY <2>4, <2>5
  <1>5. ASSUME NEW k \in 0..n - 1, k # 0, Parent(k) = p PROVE L[k] <= L[p]
    <2>1. PICK x \in Nat, y \in Nat : x = K[i] /\ y = K[p]
      BY <1>1
    <2>2. L[p] = x /\ L[i] = y /\ y < x
      BY <1>0, <2>1
    <2>3. CASE k = i
      BY <2>2, <2>3
    <2>4. CASE k # i
      <3>1. L[k] = K[k] /\ K[k] <= K[p]
        BY <1>0, <1>1, <1>2, <1>5, <2>4 DEF Loose
      <3>2. PICK a \in Nat : a = K[k]
        OBVIOUS
      <3> QED BY <3>1, <3>2, <2>1, <2>2
    <2> QED BY <2>3, <2>4
  <1> QED BY <1>0, <1>3, <1>4, <1>5 DEF Loose, DownOk

\* A node smaller than its larger son changes places with that.
LEMMA SinkKeepsLoose ==
  ASSUME NEW n \in Nat, NEW K \in [0..n - 1 -> Nat], NEW i \in 0..n - 1, Loose(K, n, i),
         NEW j \in 0..n - 1, j # 0, Parent(j) = i, K[i] < K[j],
         \A k \in 0..n - 1 : k # 0 /\ Parent(k) = i => K[k] <= K[j],
         NEW L \in [0..n - 1 -> Nat], L[i] = K[j], L[j] = K[i],
         \A k \in 0..n - 1 : k # i /\ k # j => L[k] = K[k]
  PROVE  Loose(L, n, j) /\ UpOk(L, j)
  <1>2. \A k \in 0..n - 1 : k # 0 => Parent(k) \in 0..n - 1 /\ Parent(k) # k
    BY ParentInRange
  <1>1. UpOk(L, j)
    <2>1. PICK x \in Nat, y \in Nat : x = K[i] /\ y = K[j]
      OBVIOUS
    <2> QED BY <2>1 DEF UpOk
  <1>3. ASSUME NEW k \in 0..n - 1, k # 0, k # j, Parent(k) # j PROVE L[k] <= L[Parent(k)]
    <2>1. CASE k = i
      <3>1. PICK p : p = Parent(i)
        OBVIOUS
      <3>2. p \in 0..n - 1 /\ p # i /\ p # j
        <4>1. p < i /\ i < j /\ p \in Nat
          BY <1>3, <2>1, <3>1, ParentOfNode
        <4> QED BY <4>1
      <3>3. L[p] = K[p] /\ K[j] <= K[p]
        BY <1>3, <2>1, <3>1, <3>2 DEF Loose
      <3> QED BY <2>1, <3>1, <3>3
    <2>2. CASE k # i /\ Parent(k) = i
      BY <1>3, <2>2
    <2>3. CASE k # i /\ Parent(k) # i
      <3>1. L[k] = K[k] /\ L[Parent(k)] = K[Parent(k)] /\ K[k] <= K[Parent(k)]
        BY <1>2, <1>3, <2>3 DEF Loose
      <3> QED BY <3>1
    <2> QED BY <2>1, <2>2, <2>3
  <1>4. ASSUME NEW k \in 0..n - 1, k # 0, Parent(k) = j PROVE L[k] <= L[Parent(j)]
    <2>1. i < j /\ j < k
      BY <1>4, ParentOfNode
    <2>2. L[k] = K[k] /\ K[k] <= K[j]
      BY <1>4, <2>1 DEF Loose
    <2> QED BY <2>2
  <1> QED BY <1>1, <1>3, <1>4 DEF Loose


-------------------------------------------------------------------------------
(* Moving a node to its place. Node j, if there is one, is disregarded: it   *)
(* may point to what is no block any more, and w stands for its size.        *)

Nodes(m, j, F) == Typed(m) /\ Indexed(m, (0..m.end - 1) \ {j}, F)

Keys(m, j, w) == [k \in 0..m.end - 1 |-> IF k = j THEN w ELSE NodeSize(m, k)]

\* The sizes that the order of the nodes is about.
LEMMA KeysType ==
  ASSUME NEW m, NEW j, NEW F, Nodes(m, j, F), NEW w \in Nat
  PROVE  /\ Keys(m, j, w) \in [0..m.end - 1 -> Nat]
         /\ \A k \in 0..m.end - 1 : k # j => Keys(m, j, w)[k] = NodeSize(m, k)
  <1>1. \A k \in 0..m.end - 1 : k # j => NodeSize(m, k) \in Nat
    BY DEF Nodes, Indexed, Indexes, Typed, Records, BlockRecords, NodeSize, SizeOf
  <1> QED BY <1>1 DEF Keys

\* A swap of two nodes swaps their sizes and leaves the others.
LEMMA SwapNodes ==
  ASSUME NEW m, NEW j, NEW F, Nodes(m, j, F), NEW w \in Nat,
         NEW a \in 0..m.end - 1, NEW b \in 0..m.end - 1, a # b, a # j, b # j,
         NEW r, r = Swap(m, a, b)
  PROVE  /\ Moves(m, r) /\ Nodes(r, j, F) /\ Swapped(m, r, a, b)
         /\ Keys(r, j, w) \in [0..m.end - 1 -> Nat]
         /\ Keys(r, j, w)[a] = Keys(m, j, w)[b] /\ Keys(r, j, w)[b] = Keys(m, j, w)[a]
         /\ \A k \in 0..m.end - 1 : k # a /\ k # b => Keys(r, j, w)[k] = Keys(m, j, w)[k]
  <1>2. PICK P : P = (0..m.end - 1) \ {j}
    OBVIOUS
  <1>3. a \in P /\ b \in P
    BY <1>2
  <1>4. Moves(m, r) /\ Indexed(r, P, F) /\ Swapped(m, r, a, b)
    <2>1. Typed(m) /\ Indexed(m, P, F)
      BY <1>2 DEF Nodes
    <2> QED BY <1>3, <2>1, SwapIndexes
  <1>5. Nodes(r, j, F) /\ r.end = m.end
    BY <1>2, <1>4 DEF Nodes, Moves
  <1>6. /\ \A k \in P : m.tree[k] \in DOMAIN m.blocks /\ k \in DOMAIN m.tree
        /\ P \subseteq 0..m.end - 1
    BY <1>2 DEF Nodes, Indexed, Indexes
  <1>7. NodeSize(r, a) = NodeSize(m, b) /\ NodeSize(r, b) = NodeSize(m, a)
    BY <1>3, <1>4, <1>6 DEF NodeSize, SizeOf, Moves, Swapped, SameLayout
  <1>8. \A k \in P \ {a, b} : NodeSize(r, k) = NodeSize(m, k)
    BY <1>3, <1>4, <1>6 DEF NodeSize, SizeOf, Moves, Swapped, SameLayout
  <1>9. Keys(r, j, w) \in [0..m.end - 1 -> Nat]
    BY <1>5, KeysType
  <1>10. \A k \in 0..m.end - 1 :
           /\ Keys(r, j, w)[k] = IF k = j THEN w ELSE NodeSize(r, k)
           /\ Keys(m, j, w)[k] = IF k = j THEN w ELSE NodeSize(m, k)
    BY <1>5 DEF Keys
  <1>11. /\ Keys(r, j, w)[a] = Keys(m, j, w)[b] /\ Keys(r, j, w)[b] = Keys(m, j, w)[a]
         /\ \A k \in 0..m.end - 1 : k # a /\ k # b => Keys(r, j, w)[k] = Keys(m, j, w)[k]
    BY <1>2, <1>7, <1>8, <1>10
  <1> QED BY <1>4, <1>5, <1>9, <1>11

\* Emerging, turn by turn.
EmergeTurns(m, i, n, g) ==
  g = [k \in 0..n |-> IF k = 0 THEN [m |-> m, at |-> i] ELSE EmergeTurn(g[k - 1])]

\* freetree_emerge_node's loop is its turns.
LEMMA EmergeIsTurns ==
  ASSUME NEW m, NEW i
  PROVE  Emerge(m, i) = (CHOOSE g : EmergeTurns(m, i, i, g))[i].m
  BY DEF Emerge, EmergeTurns

\* The turns exist: by induction over their number.
LEMMA EmergeTurnsExist ==
  ASSUME NEW m, NEW i, NEW n \in Nat
  PROVE  \E g : EmergeTurns(m, i, n, g)
  <1> DEFINE C == {k \in Nat : ~ \E g : EmergeTurns(m, i, k, g)}
             start == [m |-> m, at |-> i]
  <1>1. SUFFICES ASSUME C # {} PROVE FALSE
    BY <1>1
  <1>2. PICK k \in C : \A l \in C : k <= l
    BY <1>1, SmallestNat
  <1>3. CASE k = 0
    <2> DEFINE g == [x \in 0..0 |-> start]
    <2>1. g = [x \in 0..0 |-> IF x = 0 THEN start ELSE EmergeTurn(g[x - 1])]
      OBVIOUS
    <2> QED BY <1>2, <1>3, <2>1 DEF EmergeTurns
  <1>4. CASE k # 0
    <2>1. PICK l \in Nat : l + 1 = k
      BY <1>4
    <2>2. l \notin C
      BY <1>2, <2>1
    <2>3. PICK h : EmergeTurns(m, i, l, h)
      BY <2>2
    <2> DEFINE g == [x \in 0..k |-> IF x = k THEN EmergeTurn(h[l]) ELSE h[x]]
    <2>4. ASSUME NEW x \in 0..k PROVE g[x] = IF x = 0 THEN start ELSE EmergeTurn(g[x - 1])
      <3>1. CASE x = k
        <4>1. x - 1 = l /\ x # 0 /\ l # k /\ l \in 0..k
          BY <2>1, <3>1
        <4>2. g[x] = EmergeTurn(h[l]) /\ g[l] = h[l]
          BY <3>1, <4>1
        <4> HIDE DEF g
        <4> QED BY <4>1, <4>2
      <3>2. CASE x # k /\ x # 0
        <4>1. x \in 0..l /\ x - 1 \in 0..k /\ x - 1 # k
          BY <2>1, <3>2
        <4>2. g[x] = h[x] /\ g[x - 1] = h[x - 1]
          BY <3>2, <4>1
        <4>3. h[x] = EmergeTurn(h[x - 1])
          BY <2>3, <3>2, <4>1 DEF EmergeTurns
        <4> HIDE DEF g
        <4> QED BY <3>2, <4>2, <4>3
      <3>3. CASE x = 0
        <4>1. h[0] = start /\ g[0] = h[0]
          BY <2>1, <2>3 DEF EmergeTurns
        <4> HIDE DEF g
        <4> QED BY <3>3, <4>1
      <3> QED BY <3>1, <3>2, <3>3
    <2> DEFINE G == [x \in 0..k |-> IF x = 0 THEN start ELSE EmergeTurn(g[x - 1])]
    <2>5. \A x \in 0..k : g[x] = G[x]
      BY <2>4
    <2>6. g = [x \in 0..k |-> g[x]] /\ G = [x \in 0..k |-> G[x]]
      OBVIOUS
    <2>7. g = G
      <3> HIDE DEF g, G
      <3> QED BY <2>5, <2>6
    <2>8. EmergeTurns(m, i, k, g)
      <3> HIDE DEF g
      <3> QED BY <2>7 DEF EmergeTurns
    <2> HIDE DEF g
    <2> QED BY <1>2, <2>8
  <1> QED BY <1>3, <1>4

\* A node on its way up from i: where it is now, only its parent may be smaller.
Rising(m, i, j, F, w, s) ==
  /\ s.at \in 0..i /\ Moves(m, s.m) /\ Nodes(s.m, j, F)
  /\ \A k \in DOMAIN m.tree \ 0..i : s.m.tree[k] = m.tree[k]
  /\ Loose(Keys(s.m, j, w), m.end, s.at)
  /\ s.at = i => s.m = m
  /\ s.at # i => DownOk(Keys(s.m, j, w), m.end, s.at)

\* A turn brings the node up, unless it is in its place and the turn does nothing.
LEMMA EmergeStep ==
  ASSUME NEW m, m.end \in Nat, NEW i \in 0..m.end - 1, NEW j, j \notin 0..i, NEW F,
         NEW w \in Nat, NEW s, Rising(m, i, j, F, w, s), NEW t, t = EmergeTurn(s)
  PROVE  /\ Rising(m, i, j, F, w, t)
         /\ t.at < s.at \/ UpOk(Keys(t.m, j, w), t.at)
         /\ UpOk(Keys(s.m, j, w), s.at) => t = s
  <1>0. PICK a \in 0..i : a = s.at
    BY DEF Rising
  <1>1. PICK q, K : a = s.at /\ q = s.m /\ K = Keys(q, j, w)
    BY <1>0
  <1>2. /\ Moves(m, q) /\ Nodes(q, j, F) /\ q.end = m.end /\ Loose(K, m.end, a)
        /\ K \in [0..m.end - 1 -> Nat] /\ \A k \in 0..m.end - 1 : k # j => K[k] = NodeSize(q, k)
    BY <1>1, KeysType, SMTT(30) DEF Rising, Moves
  <1>3. CASE a = 0
    BY <1>1, <1>3 DEF EmergeTurn, UpOk
  <1>4. CASE a # 0
    <2>1. PICK p : p = Parent(a)
      OBVIOUS
    <2>2. p \in 0..i /\ p < a
      BY <1>4, <2>1, ParentOfNode
    <2>3. /\ a \in 0..m.end - 1 /\ p \in 0..m.end - 1 /\ a # j /\ p # j /\ a # p
          /\ K[a] = NodeSize(q, a) /\ K[p] = NodeSize(q, p)
      BY <1>2, <2>2
    <2>4. CASE K[a] <= K[p]
      <3>1. t = s
        BY <1>1, <2>1, <2>3, <2>4 DEF EmergeTurn
      <3> QED BY <3>1, <1>1, <2>1, <2>4 DEF UpOk
    <2>5. CASE ~(K[a] <= K[p])
      <3>1. PICK r : r = Swap(q, a, p)
        OBVIOUS
      <3>2. t = [m |-> r, at |-> p]
        BY <1>1, <1>4, <2>1, <2>3, <2>5, <3>1 DEF EmergeTurn
      <3>3. PICK L : L = Keys(r, j, w)
        OBVIOUS
      <3>4. /\ Moves(q, r) /\ Nodes(r, j, F) /\ Swapped(q, r, a, p)
            /\ L \in [0..m.end - 1 -> Nat] /\ L[a] = K[p] /\ L[p] = K[a]
            /\ \A k \in 0..m.end - 1 : k # a /\ k # p => L[k] = K[k]
        <4>1. Nodes(q, j, F) /\ a \in 0..q.end - 1 /\ p \in 0..q.end - 1 /\ q.end = m.end
          BY <1>2, <2>3
        <4>2. /\ Moves(q, r) /\ Nodes(r, j, F) /\ Swapped(q, r, a, p)
              /\ Keys(r, j, w) \in [0..q.end - 1 -> Nat]
              /\ Keys(r, j, w)[a] = Keys(q, j, w)[p] /\ Keys(r, j, w)[p] = Keys(q, j, w)[a]
              /\ \A k \in 0..q.end - 1 :
                   k # a /\ k # p => Keys(r, j, w)[k] = Keys(q, j, w)[k]
          BY <2>3, <3>1, <4>1, SwapNodes
        <4> QED BY <1>1, <3>3, <4>1, <4>2
      <3>5. Loose(L, m.end, p) /\ DownOk(L, m.end, p)
        BY <1>2, <1>4, <2>1, <2>3, <2>5, <3>4, RiseKeepsLoose
      <3>6. Moves(m, r)
        BY <1>2, <3>4, MovesTrans
      <3>7. \A k \in DOMAIN m.tree \ 0..i : r.tree[k] = m.tree[k]
        BY <1>1, <1>2, <2>2, <3>4 DEF Rising, Moves, Swapped
      <3>8. Rising(m, i, j, F, w, t)
        BY <2>2, <3>2, <3>3, <3>4, <3>5, <3>6, <3>7 DEF Rising
      <3>9. ~UpOk(K, a)
        BY <1>4, <2>1, <2>5 DEF UpOk
      <3> QED BY <1>1, <2>2, <3>2, <3>8, <3>9
    <2> QED BY <2>4, <2>5
  <1> QED BY <1>3, <1>4

\* Node i is moved up to its place.
LEMMA EmergeNode ==
  ASSUME NEW m, m.end \in Nat, NEW i \in 0..m.end - 1, NEW j, j \notin 0..i, NEW F,
         NEW w \in Nat, Nodes(m, j, F), Loose(Keys(m, j, w), m.end, i),
         NEW r, r = Emerge(m, i)
  PROVE  /\ Moves(m, r) /\ Nodes(r, j, F)
         /\ \A k \in DOMAIN m.tree \ 0..i : r.tree[k] = m.tree[k]
         /\ Loose(Keys(r, j, w), m.end, i) /\ UpOk(Keys(r, j, w), i)
         /\ DownOk(Keys(m, j, w), m.end, i) => DownOk(Keys(r, j, w), m.end, i)
  <1>1. i \in Nat
    OBVIOUS
  <1>2. PICK g : EmergeTurns(m, i, i, g) /\ r = g[i].m
    BY <1>1, EmergeIsTurns, EmergeTurnsExist
  <1>3. g[0] = [m |-> m, at |-> i] /\ \A k \in 1..i : g[k] = EmergeTurn(g[k - 1])
    BY <1>1, <1>2 DEF EmergeTurns
  <1> DEFINE Done(k) == /\ Rising(m, i, j, F, w, g[k])
                        /\ g[k].at + k <= i \/ UpOk(Keys(g[k].m, j, w), g[k].at)
             C == {k \in Nat : k <= i /\ ~Done(k)}
  <1>4. Done(0)
    <2>1. Moves(m, m)
      BY DEF Moves, Nodes, Indexed, SameRest, SameLayout
    <2>2. Rising(m, i, j, F, w, [m |-> m, at |-> i])
      BY <2>1 DEF Rising
    <2> QED BY <1>3, <2>2
  <1>5. C = {}
    <2>1. SUFFICES ASSUME C # {} PROVE FALSE
      BY <2>1
    <2>2. PICK k \in C : \A l \in C : k <= l
      BY <2>1, SmallestNat
    <2>3. k # 0 /\ k \in Nat /\ k <= i /\ ~Done(k)
      BY <1>4, <2>2
    <2>4. PICK l \in Nat : l + 1 = k
      BY <2>3
    <2>5. l \notin C /\ l <= i
      BY <2>2, <2>3, <2>4
    <2>6. Done(l)
      BY <2>5
    <2>7. k - 1 = l /\ k \in 1..i
      BY <1>1, <2>3, <2>4
    <2>8. PICK s, t : s = g[l] /\ t = g[k]
      OBVIOUS
    <2>9. t = EmergeTurn(s)
      BY <1>3, <2>7, <2>8
    <2>10. Rising(m, i, j, F, w, s)
      BY <2>6, <2>8
    <2>11. /\ Rising(m, i, j, F, w, t)
           /\ t.at < s.at \/ UpOk(Keys(t.m, j, w), t.at)
           /\ UpOk(Keys(s.m, j, w), s.at) => t = s
      BY <2>9, <2>10, EmergeStep
    <2>12. s.at \in Nat /\ t.at \in Nat
      BY <2>10, <2>11 DEF Rising
    <2>13. CASE UpOk(Keys(s.m, j, w), s.at)
      BY <2>3, <2>8, <2>11, <2>13
    <2>14. CASE s.at + l <= i
      <3>1. t.at < s.at => t.at + k <= i
        BY <1>1, <2>4, <2>12, <2>14
      <3> QED BY <2>3, <2>8, <2>11, <3>1
    <2> QED BY <2>6, <2>8, <2>13, <2>14
  <1>6. Done(i)
    BY <1>1, <1>5
  <1> HIDE DEF Done
  <1>7. PICK a, L : a = g[i].at /\ L = Keys(r, j, w)
    OBVIOUS
  <1>8. Rising(m, i, j, F, w, g[i]) /\ UpOk(L, a)
    <2>1. Rising(m, i, j, F, w, g[i]) /\ (g[i].at + i <= i \/ UpOk(L, a))
      BY <1>2, <1>6, <1>7 DEF Done
    <2>2. g[i].at \in Nat
      BY <2>1 DEF Rising
    <2>3. g[i].at + i <= i => a = 0
      BY <1>1, <1>7, <2>2
    <2> QED BY <2>1, <2>3 DEF UpOk
  <1>9. /\ a \in 0..i /\ Moves(m, r) /\ Nodes(r, j, F)
        /\ \A k \in DOMAIN m.tree \ 0..i : r.tree[k] = m.tree[k]
        /\ Loose(L, m.end, a) /\ (a = i => r = m) /\ (a # i => DownOk(L, m.end, a))
    BY <1>2, <1>7, <1>8 DEF Rising
  <1>10. CASE a = i
    BY <1>7, <1>8, <1>9, <1>10
  <1>11. CASE a # i
    <2>1. L \in [0..m.end - 1 -> Nat] /\ a \in 0..m.end - 1
      <3>1. r.end = m.end /\ Keys(r, j, w) \in [0..r.end - 1 -> Nat]
        BY <1>9, KeysType DEF Moves
      <3> QED BY <1>1, <1>7, <1>9, <3>1
    <2>2. Ordered(L, m.end)
      BY <1>8, <1>9, <1>11, <2>1, LooseAndInPlace
    <2> QED BY <1>7, <1>9, <2>1, <2>2, LooseAndInPlace
  <1> QED BY <1>10, <1>11

\* Sinking, turn by turn.
SinkTurns(m, i, n, g) ==
  g = [k \in 0..n |-> IF k = 0 THEN [m |-> m, at |-> i] ELSE SinkTurn(g[k - 1])]

\* freetree_sink_node's loop is its turns.
LEMMA SinkIsTurns ==
  ASSUME NEW m, NEW i
  PROVE  Sink(m, i) = (CHOOSE g : SinkTurns(m, i, m.end, g))[m.end].m
  BY DEF Sink, SinkTurns

\* The turns exist: by induction over their number.
LEMMA SinkTurnsExist ==
  ASSUME NEW m, NEW i, NEW n \in Nat
  PROVE  \E g : SinkTurns(m, i, n, g)
  <1> DEFINE C == {k \in Nat : ~ \E g : SinkTurns(m, i, k, g)}
             start == [m |-> m, at |-> i]
  <1>1. SUFFICES ASSUME C # {} PROVE FALSE
    BY <1>1
  <1>2. PICK k \in C : \A l \in C : k <= l
    BY <1>1, SmallestNat
  <1>3. CASE k = 0
    <2> DEFINE g == [x \in 0..0 |-> start]
    <2>1. g = [x \in 0..0 |-> IF x = 0 THEN start ELSE SinkTurn(g[x - 1])]
      OBVIOUS
    <2> QED BY <1>2, <1>3, <2>1 DEF SinkTurns
  <1>4. CASE k # 0
    <2>1. PICK l \in Nat : l + 1 = k
      BY <1>4
    <2>2. l \notin C
      BY <1>2, <2>1
    <2>3. PICK h : SinkTurns(m, i, l, h)
      BY <2>2
    <2> DEFINE g == [x \in 0..k |-> IF x = k THEN SinkTurn(h[l]) ELSE h[x]]
    <2>4. ASSUME NEW x \in 0..k PROVE g[x] = IF x = 0 THEN start ELSE SinkTurn(g[x - 1])
      <3>1. CASE x = k
        <4>1. x - 1 = l /\ x # 0 /\ l # k /\ l \in 0..k
          BY <2>1, <3>1
        <4>2. g[x] = SinkTurn(h[l]) /\ g[l] = h[l]
          BY <3>1, <4>1
        <4> HIDE DEF g
        <4> QED BY <4>1, <4>2
      <3>2. CASE x # k /\ x # 0
        <4>1. x \in 0..l /\ x - 1 \in 0..k /\ x - 1 # k
          BY <2>1, <3>2
        <4>2. g[x] = h[x] /\ g[x - 1] = h[x - 1]
          BY <3>2, <4>1
        <4>3. h[x] = SinkTurn(h[x - 1])
          BY <2>3, <3>2, <4>1 DEF SinkTurns
        <4> HIDE DEF g
        <4> QED BY <3>2, <4>2, <4>3
      <3>3. CASE x = 0
        <4>1. h[0] = start /\ g[0] = h[0]
          BY <2>1, <2>3 DEF SinkTurns
        <4> HIDE DEF g
        <4> QED BY <3>3, <4>1
      <3> QED BY <3>1, <3>2, <3>3
    <2> DEFINE G == [x \in 0..k |-> IF x = 0 THEN start ELSE SinkTurn(g[x - 1])]
    <2>5. \A x \in 0..k : g[x] = G[x]
      BY <2>4
    <2>6. g = [x \in 0..k |-> g[x]] /\ G = [x \in 0..k |-> G[x]]
      OBVIOUS
    <2>7. g = G
      <3> HIDE DEF g, G
      <3> QED BY <2>5, <2>6
    <2>8. SinkTurns(m, i, k, g)
      <3> HIDE DEF g
      <3> QED BY <2>7 DEF SinkTurns
    <2> HIDE DEF g
    <2> QED BY <1>2, <2>8
  <1> QED BY <1>3, <1>4

\* The node that takes the place of node a, or a: the largest of the three.
Largest(K, n, a, x) == /\ x \in 0..n - 1 /\ K[a] <= K[x]
                       /\ \A k \in 0..n - 1 : k # 0 /\ Parent(k) = a => K[k] <= K[x]
                       /\ x # a => x > a /\ Parent(x) = a /\ K[a] < K[x]

\* Two comparisons find the largest of a node and its sons.
LEMMA LargestNode ==
  ASSUME NEW m, NEW n \in Nat, m.end = n, NEW a \in 0..n - 1,
         NEW j, j \notin 0..n - 1, NEW F, Nodes(m, j, F), NEW w \in Nat,
         NEW K, K = Keys(m, j, w),
         NEW y, y = Larger(m, a, Left(a)), NEW x, x = Larger(m, y, Right(a))
  PROVE  Largest(K, n, a, x)
  <1>0. K \in [0..n - 1 -> Nat] /\ \A k \in 0..n - 1 : K[k] = NodeSize(m, k)
    <2>1. /\ Keys(m, j, w) \in [0..m.end - 1 -> Nat]
          /\ \A k \in 0..m.end - 1 : k # j => Keys(m, j, w)[k] = NodeSize(m, k)
      BY KeysType
    <2> QED BY <2>1
  <1>1. PICK l \in Nat, r \in Nat : l = Left(a) /\ r = Right(a)
    BY SonsOfNode
  <1>2. a < l /\ a < r /\ Parent(l) = a /\ Parent(r) = a
    BY <1>1, SonsOfNode
  <1>3. \A k \in 0..n - 1 : k # 0 /\ Parent(k) = a => k = l \/ k = r
    <2>1. ASSUME NEW k \in 0..n - 1, k # 0, Parent(k) = a PROVE k = l \/ k = r
      <3>1. k \in Nat \ {0}
        BY <2>1
      <3> QED BY <1>1, <2>1, <3>1, ParentOfNode
    <2> QED BY <2>1
  <1>4. y = Larger(m, a, l)
    BY <1>1
  <1>5. /\ y \in 0..n - 1 /\ K[a] <= K[y] /\ (y = a \/ (y = l /\ K[a] < K[y]))
        /\ l \in 0..n - 1 => K[l] <= K[y]
    <2>1. CASE l < n /\ K[a] < K[l]
      <3>1. l \in 0..n - 1 /\ NodeSize(m, a) = K[a] /\ NodeSize(m, l) = K[l]
        BY <1>0, <2>1
      <3>2. y = l
        BY <1>4, <2>1, <3>1 DEF Larger
      <3>3. K[a] \in Nat /\ K[l] \in Nat
        BY <1>0, <3>1
      <3> QED BY <2>1, <3>1, <3>2, <3>3
    <2>2. CASE ~(l < n /\ K[a] < K[l])
      <3>1. l < n => l \in 0..n - 1 /\ NodeSize(m, a) = K[a] /\ NodeSize(m, l) = K[l]
        BY <1>0
      <3>2. y = a
        BY <1>4, <2>2, <3>1 DEF Larger
      <3>3. K[a] \in Nat /\ (l \in 0..n - 1 => K[l] \in Nat /\ l < n)
        BY <1>0
      <3> QED BY <2>2, <3>2, <3>3
    <2> QED BY <2>1, <2>2
  <1>6. x = Larger(m, y, r)
    BY <1>1
  <1>7. /\ x \in 0..n - 1 /\ K[y] <= K[x] /\ (x = y \/ (x = r /\ K[y] < K[x]))
        /\ r \in 0..n - 1 => K[r] <= K[x]
    <2>1. CASE r < n /\ K[y] < K[r]
      <3>1. r \in 0..n - 1 /\ NodeSize(m, y) = K[y] /\ NodeSize(m, r) = K[r]
        BY <1>0, <1>5, <2>1
      <3>2. x = r
        BY <1>6, <2>1, <3>1 DEF Larger
      <3>3. K[y] \in Nat /\ K[r] \in Nat
        BY <1>0, <1>5, <3>1
      <3> QED BY <2>1, <3>1, <3>2, <3>3
    <2>2. CASE ~(r < n /\ K[y] < K[r])
      <3>1. r < n => r \in 0..n - 1 /\ NodeSize(m, y) = K[y] /\ NodeSize(m, r) = K[r]
        BY <1>0, <1>5
      <3>2. x = y
        BY <1>6, <2>2, <3>1 DEF Larger
      <3>3. K[y] \in Nat /\ (r \in 0..n - 1 => K[r] \in Nat /\ r < n)
        BY <1>0, <1>5
      <3> QED BY <1>5, <2>2, <3>2, <3>3
    <2> QED BY <2>1, <2>2
  <1>8. PICK ka \in Nat, ky \in Nat, kx \in Nat : ka = K[a] /\ ky = K[y] /\ kx = K[x]
    BY <1>0, <1>5, <1>7
  <1>9. ka <= ky /\ ky <= kx /\ (y = a \/ (y = l /\ ka < ky)) /\ (x = y \/ (x = r /\ ky < kx))
    BY <1>5, <1>7, <1>8
  <1>10. K[a] <= K[x] /\ (x # a => x > a /\ Parent(x) = a /\ K[a] < K[x])
    BY <1>2, <1>8, <1>9
  <1>11. ASSUME NEW k \in 0..n - 1, k # 0, Parent(k) = a PROVE K[k] <= K[x]
    <2>1. CASE k = r
      BY <1>7, <1>11, <2>1
    <2>2. CASE k = l
      <3>1. PICK kk \in Nat : kk = K[k]
        BY <1>0, <1>11
      <3>2. kk <= ky
        BY <1>5, <1>8, <1>11, <2>2, <3>1
      <3> QED BY <1>8, <1>9, <3>1, <3>2
    <2> QED BY <1>3, <1>11, <2>1, <2>2
  <1> QED BY <1>7, <1>10, <1>11 DEF Largest

\* A node on its way down from i: where it is now, only its sons may be larger.
Sinking(m, i, j, F, w, s) ==
  /\ s.at \in i..m.end - 1 /\ Moves(m, s.m) /\ Nodes(s.m, j, F)
  /\ Loose(Keys(s.m, j, w), m.end, s.at)
  /\ s.at = i => s.m = m
  /\ s.at # i => UpOk(Keys(s.m, j, w), s.at)

\* A turn brings the node down, unless it is in its place and the turn does nothing.
LEMMA SinkStep ==
  ASSUME NEW m, m.end \in Nat, NEW i \in 0..m.end - 1, NEW j, j \notin 0..m.end - 1, NEW F,
         NEW w \in Nat, NEW s, Sinking(m, i, j, F, w, s), NEW t, t = SinkTurn(s)
  PROVE  /\ Sinking(m, i, j, F, w, t)
         /\ t.at > s.at \/ DownOk(Keys(t.m, j, w), m.end, t.at)
         /\ DownOk(Keys(s.m, j, w), m.end, s.at) => t = s
  <1>0. PICK a \in i..m.end - 1 : a = s.at
    BY DEF Sinking
  <1>1. PICK q, K : a = s.at /\ q = s.m /\ K = Keys(q, j, w)
    BY <1>0
  <1>2. /\ Moves(m, q) /\ Nodes(q, j, F) /\ q.end = m.end /\ Loose(K, m.end, a)
        /\ K \in [0..m.end - 1 -> Nat] /\ \A k \in 0..m.end - 1 : K[k] = NodeSize(q, k)
    BY <1>1, KeysType DEF Sinking, Moves
  <1>3. PICK y, x : y = Larger(q, a, Left(a)) /\ x = Larger(q, y, Right(a))
    OBVIOUS
  <1>4. a \in 0..m.end - 1
    OBVIOUS
  <1>5. /\ x \in 0..m.end - 1 /\ K[a] <= K[x]
        /\ \A k \in 0..m.end - 1 : k # 0 /\ Parent(k) = a => K[k] <= K[x]
        /\ x # a => x > a /\ Parent(x) = a /\ K[a] < K[x]
    <2>1. PICK n \in Nat : n = m.end
      OBVIOUS
    <2>2. /\ q.end = n /\ a \in 0..n - 1 /\ Nodes(q, j, F) /\ j \notin 0..n - 1
      BY <1>2, <1>4, <2>1
    <2>3. Largest(K, n, a, x)
      BY <1>1, <1>3, <2>2, LargestNode
    <2> QED BY <2>1, <2>3 DEF Largest
  <1>6. CASE x = a
    <2>1. t = s
      BY <1>1, <1>3, <1>6 DEF SinkTurn
    <2>2. DownOk(K, m.end, a)
      BY <1>5, <1>6 DEF DownOk
    <2> QED BY <2>1, <2>2, <1>1
  <1>7. CASE x # a
    <2>1. PICK r : r = Swap(q, a, x)
      OBVIOUS
    <2>2. t = [m |-> r, at |-> x]
      BY <1>1, <1>3, <1>7, <2>1 DEF SinkTurn
    <2>3. PICK L : L = Keys(r, j, w)
      OBVIOUS
    <2>4. /\ Moves(q, r) /\ Nodes(r, j, F) /\ Swapped(q, r, a, x)
          /\ L \in [0..m.end - 1 -> Nat] /\ L[a] = K[x] /\ L[x] = K[a]
          /\ \A k \in 0..m.end - 1 : k # a /\ k # x => L[k] = K[k]
      <3>1. /\ Nodes(q, j, F) /\ a \in 0..q.end - 1 /\ x \in 0..q.end - 1 /\ q.end = m.end
            /\ a # j /\ x # j
        BY <1>2, <1>4, <1>5
      <3>2. /\ Moves(q, r) /\ Nodes(r, j, F) /\ Swapped(q, r, a, x)
            /\ Keys(r, j, w) \in [0..q.end - 1 -> Nat]
            /\ Keys(r, j, w)[a] = Keys(q, j, w)[x] /\ Keys(r, j, w)[x] = Keys(q, j, w)[a]
            /\ \A k \in 0..q.end - 1 :
                 k # a /\ k # x => Keys(r, j, w)[k] = Keys(q, j, w)[k]
        BY <1>7, <2>1, <3>1, SwapNodes
      <3> QED BY <1>1, <2>3, <3>1, <3>2
    <2>5. Loose(L, m.end, x) /\ UpOk(L, x)
      <3>1. x # 0 /\ Parent(x) = a /\ K[a] < K[x]
        BY <1>4, <1>5, <1>7
      <3> QED BY <1>2, <1>4, <1>5, <2>4, <3>1, SinkKeepsLoose
    <2>6. Moves(m, r)
      BY <1>2, <2>4, MovesTrans
    <2>7. x \in i..m.end - 1 /\ x > a /\ x # i
      BY <1>4, <1>5, <1>7
    <2>8. Sinking(m, i, j, F, w, t)
      BY <2>2, <2>3, <2>4, <2>5, <2>6, <2>7 DEF Sinking
    <2>9. ~DownOk(K, m.end, a)
      <3>1. x # 0 /\ x \in 0..m.end - 1 /\ Parent(x) = a /\ K[a] < K[x]
        BY <1>4, <1>5, <1>7
      <3>2. PICK ka \in Nat, kx \in Nat : ka = K[a] /\ kx = K[x]
        BY <1>2, <1>4, <1>5
      <3>3. ~(K[x] <= K[a])
        BY <3>1, <3>2
      <3> QED BY <3>1, <3>3 DEF DownOk
    <2> QED BY <1>1, <2>2, <2>7, <2>8, <2>9
  <1> QED BY <1>6, <1>7

\* Node i is moved down to its place.
LEMMA SinkNode ==
  ASSUME NEW m, m.end \in Nat, NEW i \in 0..m.end - 1, NEW j, j \notin 0..m.end - 1, NEW F,
         NEW w \in Nat, Nodes(m, j, F), Loose(Keys(m, j, w), m.end, i),
         NEW r, r = Sink(m, i)
  PROVE  /\ Moves(m, r) /\ Nodes(r, j, F)
         /\ Loose(Keys(r, j, w), m.end, i) /\ DownOk(Keys(r, j, w), m.end, i)
         /\ UpOk(Keys(m, j, w), i) => UpOk(Keys(r, j, w), i)
  <1>0. PICK n \in Nat : n = m.end
    OBVIOUS
  <1>2. PICK g : SinkTurns(m, i, n, g) /\ r = g[n].m
    BY <1>0, SinkIsTurns, SinkTurnsExist
  <1>3. g[0] = [m |-> m, at |-> i] /\ \A k \in 1..n : g[k] = SinkTurn(g[k - 1])
    BY <1>2 DEF SinkTurns
  <1> DEFINE Done(k) == /\ Sinking(m, i, j, F, w, g[k])
                        /\ g[k].at >= i + k \/ DownOk(Keys(g[k].m, j, w), n, g[k].at)
             C == {k \in Nat : k <= n /\ ~Done(k)}
  <1>4. Done(0)
    <2>1. Moves(m, m)
      BY DEF Moves, Nodes, Indexed, SameRest, SameLayout
    <2>2. i \in i..m.end - 1 /\ i >= i + 0
      OBVIOUS
    <2>3. Sinking(m, i, j, F, w, [m |-> m, at |-> i])
      BY <2>1, <2>2 DEF Sinking
    <2> QED BY <1>3, <2>2, <2>3
  <1>5. C = {}
    <2>1. SUFFICES ASSUME C # {} PROVE FALSE
      BY <2>1
    <2>2. PICK k \in C : \A l \in C : k <= l
      BY <2>1, SmallestNat
    <2>3. k # 0 /\ k \in Nat /\ k <= n /\ ~Done(k)
      BY <1>4, <2>2
    <2>4. PICK l \in Nat : l + 1 = k
      BY <2>3
    <2>5. l \notin C /\ l <= n
      BY <2>2, <2>3, <2>4
    <2>6. Done(l)
      BY <2>5
    <2>7. k - 1 = l /\ k \in 1..n
      BY <2>3, <2>4
    <2>8. PICK s, t : s = g[l] /\ t = g[k]
      OBVIOUS
    <2>9. t = SinkTurn(s)
      BY <1>3, <2>7, <2>8
    <2>10. Sinking(m, i, j, F, w, s)
      BY <2>6, <2>8
    <2>11. /\ Sinking(m, i, j, F, w, t)
           /\ t.at > s.at \/ DownOk(Keys(t.m, j, w), n, t.at)
           /\ DownOk(Keys(s.m, j, w), n, s.at) => t = s
      BY <1>0, <2>9, <2>10, SinkStep
    <2>12. s.at \in Nat /\ t.at \in Nat
      BY <2>10, <2>11 DEF Sinking
    <2>13. CASE DownOk(Keys(s.m, j, w), n, s.at)
      BY <2>3, <2>8, <2>11, <2>13
    <2>14. CASE s.at >= i + l
      <3>1. t.at > s.at => t.at >= i + k
        BY <2>4, <2>12, <2>14
      <3> QED BY <2>3, <2>8, <2>11, <3>1
    <2> QED BY <2>6, <2>8, <2>13, <2>14
  <1>6. Done(n)
    BY <1>5
  <1> HIDE DEF Done
  <1>7. PICK a, L : a = g[n].at /\ L = Keys(r, j, w)
    OBVIOUS
  <1>8. Sinking(m, i, j, F, w, g[n]) /\ DownOk(L, n, a)
    <2>1. Sinking(m, i, j, F, w, g[n]) /\ (g[n].at >= i + n \/ DownOk(L, n, a))
      BY <1>2, <1>6, <1>7 DEF Done
    <2>2. g[n].at \in i..n - 1
      BY <1>0, <2>1 DEF Sinking
    <2>3. ~(g[n].at >= i + n)
      BY <2>2
    <2> QED BY <2>1, <2>3
  <1>9. /\ a \in i..n - 1 /\ Moves(m, r) /\ Nodes(r, j, F)
        /\ Loose(L, n, a) /\ (a = i => r = m) /\ (a # i => UpOk(L, a))
    BY <1>0, <1>2, <1>7, <1>8 DEF Sinking
  <1>10. CASE a = i
    BY <1>0, <1>7, <1>8, <1>9, <1>10
  <1>11. CASE a # i
    <2>1. L \in [0..n - 1 -> Nat] /\ a \in 0..n - 1
      <3>1. r.end = m.end /\ Keys(r, j, w) \in [0..r.end - 1 -> Nat]
        BY <1>9, KeysType DEF Moves
      <3> QED BY <1>0, <1>7, <1>9, <3>1
    <2>2. Ordered(L, n)
      BY <1>8, <1>9, <1>11, <2>1, LooseAndInPlace
    <2>3. Loose(L, n, i) /\ UpOk(L, i) /\ DownOk(L, n, i)
      BY <1>0, <2>1, <2>2, LooseAndInPlace
    <2> QED BY <1>0, <1>7, <1>9, <2>3
  <1> QED BY <1>10, <1>11

-------------------------------------------------------------------------------
(* Nodes come and go.                                                        *)

\* Nodes in order of which only node i is new or has another size.
LEMMA ChangedIsLoose ==
  ASSUME NEW n \in Nat, NEW K \in [0..n - 1 -> Nat], Ordered(K, n),
         NEW c \in Nat, NEW L \in [0..c - 1 -> Nat], NEW i \in 0..c - 1,
         \A k \in 0..c - 1 : k # i => k < n /\ L[k] = K[k]
  PROVE  Loose(L, c, i) /\ ((i < n => K[i] <= L[i]) => DownOk(L, c, i))
  <1>1. \A k \in 0..c - 1 : k # 0 => Parent(k) \in 0..c - 1 /\ Parent(k) < k
    <2>1. ASSUME NEW k \in 0..c - 1, k # 0 PROVE Parent(k) \in 0..c - 1 /\ Parent(k) < k
      <3>1. PICK p : p = Parent(k)
        OBVIOUS
      <3>2. p \in Nat /\ p < k
        BY <2>1, <3>1, ParentOfNode
      <3> QED BY <3>1, <3>2
    <2> QED BY <2>1
  <1>2. \A k \in 0..c - 1 : k # 0 /\ k # i => K[k] <= K[Parent(k)]
    BY DEF Ordered, UpOk
  <1>3. ASSUME NEW k \in 0..c - 1, k # 0, k # i, Parent(k) # i PROVE L[k] <= L[Parent(k)]
    <2>1. L[k] = K[k] /\ L[Parent(k)] = K[Parent(k)]
      BY <1>1, <1>3
    <2> QED BY <1>2, <1>3, <2>1
  <1>4. ASSUME NEW k \in 0..c - 1, k # 0, Parent(k) = i
        PROVE  /\ i < n /\ i \in 0..n - 1 /\ k \in 0..n - 1 /\ L[k] = K[k] /\ K[k] <= K[i]
    <2>1. i < k
      BY <1>1, <1>4
    <2>2. k < n /\ L[k] = K[k]
      BY <2>1
    <2>3. K[k] <= K[i]
      <3>1. k # i
        BY <2>1
      <3>2. K[k] <= K[Parent(k)]
        BY <1>2, <1>4, <3>1
      <3> QED BY <1>4, <3>2
    <2> QED BY <2>1, <2>2, <2>3
  <1>5. ASSUME i # 0, NEW k \in 0..c - 1, k # 0, Parent(k) = i PROVE L[k] <= L[Parent(i)]
    <2>1. PICK p : p = Parent(i)
      OBVIOUS
    <2>2. p \in 0..c - 1 /\ p < i
      BY <1>1, <1>5, <2>1
    <2>3. i \in 0..n - 1 /\ k \in 0..n - 1 /\ L[k] = K[k] /\ K[k] <= K[i]
      BY <1>4, <1>5
    <2>4. L[p] = K[p] /\ p \in 0..n - 1
      BY <2>2
    <2>5. K[i] <= K[p]
      BY <1>5, <2>1, <2>3 DEF Ordered, UpOk
    <2>6. PICK a \in Nat, b \in Nat, d \in Nat : a = K[k] /\ b = K[i] /\ d = K[p]
      BY <2>3, <2>4
    <2> QED BY <2>1, <2>3, <2>4, <2>5, <2>6
  <1>6. ASSUME i < n => K[i] <= L[i], NEW k \in 0..c - 1, k # 0, Parent(k) = i
        PROVE  L[k] <= L[i]
    <2>1. i < n /\ i \in 0..n - 1 /\ k \in 0..n - 1 /\ L[k] = K[k] /\ K[k] <= K[i]
      BY <1>4, <1>6
    <2>2. PICK a \in Nat, b \in Nat, d \in Nat : a = K[k] /\ b = K[i] /\ d = L[i]
      BY <2>1
    <2> QED BY <1>6, <2>1, <2>2
  <1> QED BY <1>3, <1>5, <1>6 DEF Loose, DownOk

\* The freetree is in order and indexes the blocks F; node i, if there is one,
\* is disregarded and has the size w.
HeapBut(m, i, w, F) == Nodes(m, i, F) /\ Ordered(Keys(m, i, w), m.end)
Heap(m, F)          == HeapBut(m, NOT_EXIST, 0, F)

\* A heap's nodes and their sizes.
LEMMA HeapNodes ==
  ASSUME NEW m, NEW F, Heap(m, F)
  PROVE  /\ Typed(m) /\ F \subseteq DOMAIN m.blocks
         /\ \A k \in 0..m.end - 1 : m.tree[k] \in F /\ m.blocks[m.tree[k]].node = k
         /\ \A h \in F : m.blocks[h].node \in 0..m.end - 1 /\ m.tree[m.blocks[h].node] = h
         /\ \A k \in 0..m.end - 1 : NodeSize(m, k) \in Nat
         /\ \A k \in 0..m.end - 1 : k # 0 => NodeSize(m, k) <= NodeSize(m, Parent(k))
  <1>1. (0..m.end - 1) \ {NOT_EXIST} = 0..m.end - 1
    BY DEF NOT_EXIST
  <1>2. Nodes(m, NOT_EXIST, F) /\ Ordered(Keys(m, NOT_EXIST, 0), m.end)
    BY DEF Heap, HeapBut
  <1>3. Indexed(m, 0..m.end - 1, F)
    BY <1>1, <1>2 DEF Nodes
  <1>4. PICK K : K = Keys(m, NOT_EXIST, 0)
    OBVIOUS
  <1>5. K \in [0..m.end - 1 -> Nat] /\ \A k \in 0..m.end - 1 : K[k] = NodeSize(m, k)
    BY <1>2, <1>4, KeysType DEF NOT_EXIST
  <1>6. m.end \in Nat
    BY <1>3 DEF Indexed, Records
  <1>7. \A k \in 0..m.end - 1 : k # 0 => NodeSize(m, k) <= NodeSize(m, Parent(k))
    BY <1>2, <1>4, <1>5, <1>6, ParentInRange DEF Ordered, UpOk
  <1>8. Typed(m)
    BY <1>2 DEF Nodes
  <1> QED BY <1>3, <1>5, <1>7, <1>8 DEF Indexed, Indexes

\* One node fewer, for all the blocks F.
Deleted(m, r, F) == Heap(r, F) /\ SameRest(m, r) /\ SameLayout(m, r) /\ r.end + 1 = m.end

\* freetree_delete_node leaves an index in order of all blocks but the node's.
LEMMA DeleteNodeGives ==
  ASSUME NEW m, NEW F, NEW w \in Nat, NEW i \in 0..m.end - 1, HeapBut(m, i, w, F),
         NEW r, r = DeleteNode(m, i)
  PROVE  Deleted(m, r, F)
  <1>1. /\ Nodes(m, i, F) /\ Typed(m) /\ m.end \in Nat /\ F \subseteq DOMAIN m.blocks
        /\ 0..m.end - 1 \subseteq DOMAIN m.tree
    BY DEF HeapBut, Nodes, Indexed, Typed, Records
  <1>2. PICK n \in Nat : n + 1 = m.end
    BY <1>1
  <1>3. m.end - 1 = n /\ 0..m.end - 1 = 0..n /\ i \in 0..n /\ m.end = n + 1
    BY <1>2
  <1>4. PICK K : K = Keys(m, i, w)
    OBVIOUS
  <1>5. /\ K \in [0..n -> Nat] /\ Ordered(K, n + 1)
        /\ \A k \in 0..n : k # i => K[k] = NodeSize(m, k)
    BY <1>1, <1>3, <1>4, KeysType DEF HeapBut
  <1>6. /\ \A k \in 0..n : k # i => m.tree[k] \in F /\ m.blocks[m.tree[k]].node = k
        /\ \A h \in F : /\ m.blocks[h].node \in 0..n /\ m.blocks[h].node # i
                        /\ m.tree[m.blocks[h].node] = h
    BY <1>1, <1>3 DEF Nodes, Indexed, Indexes
  <1>7. PICK f : f = [m EXCEPT !.end = @ - 1]
    OBVIOUS
  <1>8. /\ Typed(f) /\ f.end = n /\ f.tree = m.tree /\ f.blocks = m.blocks
        /\ SameRest(m, f)
    <2>1. f = [blocks |-> m.blocks, tree |-> m.tree, end |-> n, root |-> m.root,
               cap |-> m.cap, top |-> m.top, got |-> m.got, bad |-> m.bad]
      BY <1>1, <1>3, <1>7 DEF Typed, Records, Shape
    <2>2. 0..n - 1 \subseteq 0..n
      OBVIOUS
    <2> QED BY <1>1, <1>3, <2>1, <2>2 DEF Typed, Records, Shape, SameRest
  <1>9. CASE i = n
    <2>1. r = f
      BY <1>3, <1>7, <1>9 DEF DeleteNode
    <2>2. \A k \in 0..n - 1 : k \in 0..n /\ k # i /\ k # NOT_EXIST
      BY <1>9 DEF NOT_EXIST
    <2>3. (0..r.end - 1) \ {NOT_EXIST} = 0..n - 1
      BY <1>8, <2>1 DEF NOT_EXIST
    <2>4. Indexed(r, 0..n - 1, F)
      <3>1. /\ \A k \in 0..n - 1 : r.tree[k] \in F /\ r.blocks[r.tree[k]].node = k
            /\ \A h \in F : r.blocks[h].node \in 0..n - 1 /\ r.tree[r.blocks[h].node] = h
        BY <1>6, <1>8, <1>9, <2>1, <2>2
      <3>2. 0..n - 1 \subseteq Nat /\ 0..n - 1 \subseteq DOMAIN r.tree /\ Typed(r)
        BY <1>1, <1>3, <1>8, <2>1, <2>2
      <3> QED BY <1>1, <1>8, <2>1, <3>1, <3>2 DEF Indexed, Indexes, Typed
    <2>5. Nodes(r, NOT_EXIST, F)
      BY <1>8, <2>1, <2>3, <2>4 DEF Nodes
    <2>6. PICK L : L = Keys(r, NOT_EXIST, 0)
      OBVIOUS
    <2>7. L \in [0..n - 1 -> Nat] /\ \A k \in 0..n - 1 : L[k] = K[k]
      <3>1. /\ L \in [0..r.end - 1 -> Nat]
            /\ \A k \in 0..r.end - 1 : k # NOT_EXIST => L[k] = NodeSize(r, k)
        BY <2>5, <2>6, KeysType
      <3>2. \A k \in 0..n - 1 : NodeSize(r, k) = NodeSize(m, k)
        BY <1>8, <2>1 DEF NodeSize, SizeOf
      <3> QED BY <1>5, <1>8, <2>1, <2>2, <3>1, <3>2
    <2>8. Ordered(L, n)
      <3>1. \A k \in 0..n - 1 : k # 0 => Parent(k) \in 0..n - 1
        BY ParentInRange
      <3>2. ASSUME NEW k \in 0..n - 1, k # 0 PROVE L[k] <= L[Parent(k)]
        <4>1. K[k] <= K[Parent(k)]
          BY <1>5, <3>2 DEF Ordered, UpOk
        <4> QED BY <2>7, <3>1, <3>2, <4>1
      <3> QED BY <3>2 DEF Ordered, UpOk
    <2>9. Heap(r, F)
      BY <1>8, <2>1, <2>5, <2>6, <2>8 DEF Heap, HeapBut
    <2> QED BY <1>2, <1>8, <2>1, <2>9 DEF Deleted, SameLayout, SameRest
  <1>10. CASE i # n
    <2>1. i \in 0..n - 1 /\ i \in Nat /\ n \in 0..n
      BY <1>3, <1>10
    <2>2. PICK h : h = m.tree[n]
      OBVIOUS
    <2>3. h \in F /\ h \in DOMAIN m.blocks
      BY <1>1, <1>6, <1>10, <2>1, <2>2
    <2>4. PICK q : q = SetNode(f, i, h)
      OBVIOUS
    <2>5. r = Emerge(Sink(q, i), i)
      BY <1>3, <1>7, <1>10, <2>2, <2>4 DEF DeleteNode
    <2>6. /\ Typed(q) /\ SameRest(f, q) /\ SameLayout(f, q) /\ q.end = n
          /\ DOMAIN q.tree = DOMAIN m.tree \cup {i}
          /\ q.tree[i] = h /\ \A k \in DOMAIN m.tree \ {i} : q.tree[k] = m.tree[k]
          /\ q.blocks[h].node = i
          /\ \A k \in DOMAIN m.blocks \ {h} : q.blocks[k] = m.blocks[k]
      <3>1. h \in DOMAIN f.blocks /\ Records(f)
        BY <1>8, <2>3 DEF Typed
      <3>2. /\ Records(q) /\ SameRest(f, q) /\ SameLayout(f, q) /\ q.end = f.end
            /\ DOMAIN q.tree = DOMAIN f.tree \cup {i}
            /\ q.tree[i] = h /\ \A k \in DOMAIN f.tree \ {i} : q.tree[k] = f.tree[k]
            /\ q.blocks[h].node = i
            /\ \A k \in DOMAIN f.blocks \ {h} : q.blocks[k] = f.blocks[k]
        BY <2>1, <2>4, <3>1, SetNodeGives
      <3>3. 0..f.end - 1 \subseteq DOMAIN f.tree
        BY <1>8 DEF Typed
      <3> QED BY <1>8, <3>2, <3>3 DEF Typed
    <2>7. \A k \in 0..n - 1 : k # i => /\ q.tree[k] = m.tree[k] /\ m.tree[k] # h
                                       /\ q.blocks[m.tree[k]] = m.blocks[m.tree[k]]
                                       /\ m.tree[k] \in F /\ m.blocks[m.tree[k]].node = k
      <3>1. ASSUME NEW k \in 0..n - 1, k # i
            PROVE  /\ q.tree[k] = m.tree[k] /\ m.tree[k] # h
                   /\ q.blocks[m.tree[k]] = m.blocks[m.tree[k]]
                   /\ m.tree[k] \in F /\ m.blocks[m.tree[k]].node = k
        <4>1. k \in 0..n /\ k # n /\ k \in DOMAIN m.tree
          BY <1>1, <1>3
        <4>2. m.tree[k] \in F /\ m.blocks[m.tree[k]].node = k
          BY <1>6, <3>1, <4>1
        <4>3. m.blocks[h].node = n
          BY <1>6, <1>10, <2>1, <2>2
        <4>4. m.tree[k] # h
          BY <4>1, <4>2, <4>3
        <4> QED BY <1>1, <2>6, <3>1, <4>1, <4>2, <4>4
      <3> QED BY <3>1
    <2>8. Indexed(q, 0..n - 1, F)
      <3>1. \A k \in 0..n - 1 : q.tree[k] \in F /\ q.blocks[q.tree[k]].node = k
        BY <2>3, <2>6, <2>7
      <3>2. ASSUME NEW b \in F PROVE q.blocks[b].node \in 0..n - 1 /\ q.tree[q.blocks[b].node] = b
        <4>1. CASE b = h
          BY <2>1, <2>6, <4>1
        <4>2. CASE b # h
          <5>1. /\ m.blocks[b].node \in 0..n /\ m.blocks[b].node # i
                /\ m.tree[m.blocks[b].node] = b
            BY <1>6
          <5>2. m.blocks[b].node # n /\ q.blocks[b] = m.blocks[b]
            BY <1>1, <2>2, <2>6, <4>2, <5>1
          <5>3. m.blocks[b].node \in 0..n - 1
            BY <5>1, <5>2
          <5> QED BY <2>7, <5>1, <5>2, <5>3
        <4> QED BY <4>1, <4>2
      <3>3. 0..n - 1 \subseteq Nat /\ 0..n - 1 \subseteq DOMAIN q.tree /\ F \subseteq DOMAIN q.blocks
        <4>1. F \subseteq DOMAIN q.blocks
          BY <1>1, <1>8, <2>6 DEF SameLayout
        <4>2. \A k \in 0..n - 1 : k \in Nat /\ k \in DOMAIN q.tree
          BY <1>1, <1>3, <2>6
        <4> QED BY <4>1, <4>2
      <3> QED BY <2>6, <3>1, <3>2, <3>3 DEF Indexed, Indexes, Typed
    <2>9. Nodes(q, NOT_EXIST, F)
      <3>1. (0..q.end - 1) \ {NOT_EXIST} = 0..n - 1
        BY <2>6 DEF NOT_EXIST
      <3> QED BY <2>6, <2>8, <3>1 DEF Nodes
    <2>10. PICK Q : Q = Keys(q, NOT_EXIST, 0)
      OBVIOUS
    <2>11. Q \in [0..n - 1 -> Nat] /\ \A k \in 0..n - 1 : k # i => k < n + 1 /\ Q[k] = K[k]
      <3>1. /\ Q \in [0..q.end - 1 -> Nat]
            /\ \A k \in 0..q.end - 1 : k # NOT_EXIST => Q[k] = NodeSize(q, k)
        BY <2>9, <2>10, KeysType
      <3>2. \A k \in 0..n - 1 : k # i => NodeSize(q, k) = NodeSize(m, k)
        BY <2>7 DEF NodeSize, SizeOf
      <3>3. \A k \in 0..n - 1 : k # NOT_EXIST /\ k \in 0..n /\ k < n + 1
        BY DEF NOT_EXIST
      <3> QED BY <1>5, <2>6, <3>1, <3>2, <3>3
    <2>12. Loose(Q, n, i)
      <3>1. n + 1 \in Nat /\ K \in [0..(n + 1) - 1 -> Nat]
        <4>1. (n + 1) - 1 = n
          OBVIOUS
        <4> QED BY <1>5, <4>1
      <3> QED BY <1>5, <2>1, <2>11, <3>1, ChangedIsLoose
    <2>13. PICK s : s = Sink(q, i)
      OBVIOUS
    <2>14. /\ Moves(q, s) /\ Nodes(s, NOT_EXIST, F)
           /\ Loose(Keys(s, NOT_EXIST, 0), n, i) /\ DownOk(Keys(s, NOT_EXIST, 0), n, i)
      <3>1. q.end \in Nat /\ i \in 0..q.end - 1 /\ NOT_EXIST \notin 0..q.end - 1 /\ 0 \in Nat
        BY <2>1, <2>6 DEF NOT_EXIST
      <3> QED BY <2>6, <2>9, <2>10, <2>12, <2>13, <3>1, SinkNode
    <2>15. s.end = n
      BY <2>6, <2>14 DEF Moves
    <2>16. /\ Moves(s, r) /\ Nodes(r, NOT_EXIST, F)
           /\ Loose(Keys(r, NOT_EXIST, 0), n, i) /\ UpOk(Keys(r, NOT_EXIST, 0), i)
           /\ DownOk(Keys(r, NOT_EXIST, 0), n, i)
      <3>1. s.end \in Nat /\ i \in 0..s.end - 1 /\ NOT_EXIST \notin 0..i /\ 0 \in Nat
        BY <2>1, <2>15 DEF NOT_EXIST
      <3> QED BY <2>5, <2>13, <2>14, <2>15, <3>1, EmergeNode
    <2>17. r.end = n
      BY <2>15, <2>16 DEF Moves
    <2>18. Ordered(Keys(r, NOT_EXIST, 0), n)
      <3>1. Keys(r, NOT_EXIST, 0) \in [0..n - 1 -> Nat]
        BY <2>16, <2>17, KeysType
      <3> QED BY <2>1, <2>16, <3>1, LooseAndInPlace
    <2>19. Heap(r, F)
      BY <2>16, <2>17, <2>18 DEF Heap, HeapBut
    <2>20. SameRest(m, r) /\ SameLayout(m, r)
      BY <1>8, <2>6, <2>14, <2>16 DEF Moves, SameRest, SameLayout
    <2> QED BY <1>2, <2>17, <2>19, <2>20 DEF Deleted
  <1> QED BY <1>9, <1>10

-------------------------------------------------------------------------------
(* Finding a node.                                                           *)

\* Descending, turn by turn.
DescendTurns(m, size, n, g) ==
  g = [k \in 0..n |-> IF k = 0 THEN 0 ELSE DescendTurn(m, size, g[k - 1])]

\* freetree_find_suitable_node's walk is its turns.
LEMMA DescendIsTurns ==
  ASSUME NEW m, NEW size
  PROVE  Descend(m, size) = (CHOOSE g : DescendTurns(m, size, m.end, g))[m.end]
  BY DEF Descend, DescendTurns

\* The turns exist: by induction over their number.
LEMMA DescendTurnsExist ==
  ASSUME NEW m, NEW size, NEW n \in Nat
  PROVE  \E g : DescendTurns(m, size, n, g)
  <1> DEFINE C == {k \in Nat : ~ \E g : DescendTurns(m, size, k, g)}
             start == 0
  <1>1. SUFFICES ASSUME C # {} PROVE FALSE
    BY <1>1
  <1>2. PICK k \in C : \A l \in C : k <= l
    BY <1>1, SmallestNat
  <1>3. CASE k = 0
    <2> DEFINE g == [x \in 0..0 |-> start]
    <2>1. g = [x \in 0..0 |-> IF x = 0 THEN start ELSE DescendTurn(m, size, g[x - 1])]
      OBVIOUS
    <2> QED BY <1>2, <1>3, <2>1 DEF DescendTurns
  <1>4. CASE k # 0
    <2>1. PICK l \in Nat : l + 1 = k
      BY <1>4
    <2>2. l \notin C
      BY <1>2, <2>1
    <2>3. PICK h : DescendTurns(m, size, l, h)
      BY <2>2
    <2> DEFINE g == [x \in 0..k |-> IF x = k THEN DescendTurn(m, size, h[l]) ELSE h[x]]
    <2>4. ASSUME NEW x \in 0..k PROVE g[x] = IF x = 0 THEN start ELSE DescendTurn(m, size, g[x - 1])
      <3>1. CASE x = k
        <4>1. x - 1 = l /\ x # 0 /\ l # k /\ l \in 0..k
          BY <2>1, <3>1
        <4>2. g[x] = DescendTurn(m, size, h[l]) /\ g[l] = h[l]
          BY <3>1, <4>1
        <4> HIDE DEF g
        <4> QED BY <4>1, <4>2
      <3>2. CASE x # k /\ x # 0
        <4>1. x \in 0..l /\ x - 1 \in 0..k /\ x - 1 # k
          BY <2>1, <3>2
        <4>2. g[x] = h[x] /\ g[x - 1] = h[x - 1]
          BY <3>2, <4>1
        <4>3. h[x] = DescendTurn(m, size, h[x - 1])
          BY <2>3, <3>2, <4>1 DEF DescendTurns
        <4> HIDE DEF g
        <4> QED BY <3>2, <4>2, <4>3
      <3>3. CASE x = 0
        <4>1. h[0] = start /\ g[0] = h[0]
          BY <2>1, <2>3 DEF DescendTurns
        <4> HIDE DEF g
        <4> QED BY <3>3, <4>1
      <3> QED BY <3>1, <3>2, <3>3
    <2> DEFINE G == [x \in 0..k |-> IF x = 0 THEN start ELSE DescendTurn(m, size, g[x - 1])]
    <2>5. \A x \in 0..k : g[x] = G[x]
      BY <2>4
    <2>6. g = [x \in 0..k |-> g[x]] /\ G = [x \in 0..k |-> G[x]]
      OBVIOUS
    <2>7. g = G
      <3> HIDE DEF g, G
      <3> QED BY <2>5, <2>6
    <2>8. DescendTurns(m, size, k, g)
      <3> HIDE DEF g
      <3> QED BY <2>7 DEF DescendTurns
    <2> HIDE DEF g
    <2> QED BY <1>2, <2>8
  <1> QED BY <1>3, <1>4

\* The first node is the largest.
LEMMA RootIsLargest ==
  ASSUME NEW m, NEW F, Heap(m, F), NEW k \in 0..m.end - 1
  PROVE  NodeSize(m, k) <= NodeSize(m, 0)
  <1>1. /\ m.end \in Nat
        /\ \A i \in 0..m.end - 1 : NodeSize(m, i) \in Nat
        /\ \A i \in 0..m.end - 1 : i # 0 => NodeSize(m, i) <= NodeSize(m, Parent(i))
    BY HeapNodes DEF Typed, Records
  <1> DEFINE C == {i \in Nat : i < m.end /\ ~(NodeSize(m, i) <= NodeSize(m, 0))}
  <1>2. SUFFICES ASSUME C # {} PROVE FALSE
    <2>1. k \in Nat /\ k < m.end
      BY <1>1
    <2> QED BY <1>2, <2>1
  <1>3. PICK i \in C : \A j \in C : i <= j
    BY <1>2, SmallestNat
  <1>4. i \in 0..m.end - 1 /\ 0 \in 0..m.end - 1
    BY <1>1, <1>3
  <1>5. i # 0
    BY <1>1, <1>3, <1>4
  <1>6. PICK p : p = Parent(i)
    OBVIOUS
  <1>7. p \in Nat /\ p < i /\ p < m.end /\ p \in 0..m.end - 1
    BY <1>1, <1>4, <1>5, <1>6, ParentOfNode
  <1>8. NodeSize(m, p) <= NodeSize(m, 0)
    BY <1>3, <1>7
  <1>9. PICK x \in Nat, y \in Nat, z \in Nat :
          x = NodeSize(m, i) /\ y = NodeSize(m, p) /\ z = NodeSize(m, 0)
    BY <1>1, <1>4, <1>7
  <1>10. x <= y /\ y <= z
    BY <1>1, <1>4, <1>5, <1>6, <1>8, <1>9
  <1> QED BY <1>3, <1>9, <1>10

\* A node that is large enough is found unless every block is too small.
Found(m, size, F, i) ==
  \/ i = NOT_EXIST /\ \A h \in F : SizeOf(m, h) < size
  \/ i \in 0..m.end - 1 /\ NodeSize(m, i) >= size

\* freetree_find_suitable_node finds a large enough block if there is one.
LEMMA FindSuitableNodeGives ==
  ASSUME NEW m, NEW F, Heap(m, F), NEW size \in Nat, NEW i, i = FindSuitableNode(m, size)
  PROVE  Found(m, size, F, i)
  <1>1. PICK n \in Nat : n = m.end
    BY HeapNodes DEF Typed, Records
  <1>2. /\ \A k \in 0..n - 1 : NodeSize(m, k) \in Nat
        /\ \A h \in F : m.blocks[h].node \in 0..n - 1 /\ m.tree[m.blocks[h].node] = h
    BY <1>1, HeapNodes
  <1>3. CASE n = 0
    <2>1. F = {} /\ i = NOT_EXIST
      BY <1>1, <1>2, <1>3 DEF FindSuitableNode
    <2> QED BY <2>1 DEF Found
  <1>4. CASE n # 0 /\ NodeSize(m, 0) < size
    <2>1. i = NOT_EXIST
      BY <1>1, <1>4 DEF FindSuitableNode
    <2>2. ASSUME NEW h \in F PROVE SizeOf(m, h) < size
      <3>1. PICK k \in 0..n - 1 : k = m.blocks[h].node
        BY <1>2
      <3>2. SizeOf(m, h) = NodeSize(m, k)
        BY <1>2, <3>1 DEF NodeSize
      <3>3. NodeSize(m, k) <= NodeSize(m, 0)
        BY <1>1, RootIsLargest
      <3>4. PICK x \in Nat, y \in Nat : x = NodeSize(m, k) /\ y = NodeSize(m, 0)
        BY <1>2, <1>4
      <3> QED BY <1>4, <3>2, <3>3, <3>4
    <2> QED BY <2>1, <2>2 DEF Found
  <1>5. CASE n # 0 /\ ~(NodeSize(m, 0) < size)
    <2>1. i = Descend(m, size)
      BY <1>1, <1>5 DEF FindSuitableNode
    <2>2. PICK g : DescendTurns(m, size, n, g) /\ i = g[n]
      BY <1>1, <2>1, DescendIsTurns, DescendTurnsExist
    <2>3. g[0] = 0 /\ \A k \in 1..n : g[k] = DescendTurn(m, size, g[k - 1])
      BY <2>2 DEF DescendTurns
    <2> DEFINE Fits(k) == k \in 0..n - 1 /\ NodeSize(m, k) >= size
               C == {k \in Nat : k <= n /\ ~Fits(g[k])}
    <2>4. Fits(g[0])
      BY <1>2, <1>5, <2>3
    <2>5. ASSUME NEW s, Fits(s), NEW t, t = DescendTurn(m, size, s) PROVE Fits(t)
      <3>1. PICK l \in Nat, r \in Nat : l = Left(s) /\ r = Right(s)
        BY <2>5, SonsOfNode
      <3>2. t = s \/ (t = l /\ l < n /\ NodeSize(m, l) >= size)
                  \/ (t = r /\ r < n /\ NodeSize(m, r) >= size)
        BY <1>1, <2>5, <3>1 DEF DescendTurn
      <3> QED BY <2>5, <3>1, <3>2
    <2>6. C = {}
      <3> HIDE DEF Fits
      <3>1. SUFFICES ASSUME C # {} PROVE FALSE
        BY <3>1
      <3>2. PICK k \in C : \A l \in C : k <= l
        BY <3>1, SmallestNat
      <3>3. k # 0 /\ k \in Nat /\ k <= n /\ ~Fits(g[k])
        BY <2>4, <3>2
      <3>4. PICK l \in Nat : l + 1 = k
        BY <3>3
      <3>5. l \notin C /\ l <= n
        BY <3>2, <3>3, <3>4
      <3>6. Fits(g[l]) /\ k - 1 = l /\ k \in 1..n
        BY <3>3, <3>4, <3>5
      <3>7. g[k] = DescendTurn(m, size, g[l])
        BY <2>3, <3>6
      <3> QED BY <2>5, <3>3, <3>6, <3>7
    <2>7. Fits(g[n])
      BY <2>6
    <2> QED BY <1>1, <2>2, <2>7 DEF Found
  <1> QED BY <1>3, <1>4, <1>5

\* Another node points to another block.
Pointed(m, q, i, h) ==
  /\ SameRest(m, q) /\ SameLayout(m, q) /\ q.end = m.end
  /\ DOMAIN q.tree = DOMAIN m.tree \cup {i}
  /\ q.tree[i] = h /\ \A k \in DOMAIN m.tree \ {i} : q.tree[k] = m.tree[k]

\* A node for one block more makes an index of one block more.
LEMMA PointedNode ==
  ASSUME NEW m, NEW P, NEW F, Indexed(m, P, F), NEW i \in Nat, i \notin P,
         NEW h \in DOMAIN m.blocks, h \notin F, NEW q, q = SetNode(m, i, h)
  PROVE  Indexed(q, P \cup {i}, F \cup {h}) /\ Pointed(m, q, i, h)
  <1>1. /\ Records(m) /\ P \subseteq Nat /\ P \subseteq DOMAIN m.tree
        /\ F \subseteq DOMAIN m.blocks
        /\ \A k \in P : m.tree[k] \in F /\ m.blocks[m.tree[k]].node = k
        /\ \A b \in F : m.blocks[b].node \in P /\ m.tree[m.blocks[b].node] = b
    BY DEF Indexed, Indexes
  <1>2. /\ Records(q) /\ SameRest(m, q) /\ SameLayout(m, q) /\ q.end = m.end
        /\ DOMAIN q.tree = DOMAIN m.tree \cup {i}
        /\ q.tree[i] = h /\ \A k \in DOMAIN m.tree \ {i} : q.tree[k] = m.tree[k]
        /\ q.blocks[h].node = i
        /\ \A k \in DOMAIN m.blocks \ {h} : q.blocks[k] = m.blocks[k]
    <2> HIDE DEF Records
    <2> QED BY <1>1, SetNodeGives
  <1>3. ASSUME NEW k \in P \cup {i}
        PROVE  q.tree[k] \in F \cup {h} /\ q.blocks[q.tree[k]].node = k
    <2>1. CASE k = i
      BY <1>2, <2>1
    <2>2. CASE k # i
      BY <1>1, <1>2, <2>2
    <2> QED BY <2>1, <2>2
  <1>4. ASSUME NEW b \in F \cup {h}
        PROVE  q.blocks[b].node \in P \cup {i} /\ q.tree[q.blocks[b].node] = b
    <2>1. CASE b = h
      BY <1>2, <2>1
    <2>2. CASE b # h
      <3>1. PICK k \in P : k = m.blocks[b].node /\ m.tree[k] = b
        BY <1>1, <1>4, <2>2
      <3>2. q.blocks[b] = m.blocks[b] /\ q.tree[k] = m.tree[k]
        BY <1>1, <1>2, <1>4, <2>2
      <3> QED BY <3>1, <3>2
    <2> QED BY <2>1, <2>2
  <1>5. /\ P \cup {i} \subseteq Nat /\ P \cup {i} \subseteq DOMAIN q.tree
        /\ F \cup {h} \subseteq DOMAIN q.blocks
    BY <1>1, <1>2 DEF SameLayout
  <1> QED BY <1>2, <1>3, <1>4, <1>5 DEF Indexed, Indexes, Pointed

-------------------------------------------------------------------------------
(* Blocks.                                                                   *)

\* The blocks b follow one another and end at top.
Tiled(b, top) ==
  /\ b \in [DOMAIN b -> BlockRecords] /\ top \in Nat
  /\ \A h \in DOMAIN b : /\ h \in Nat /\ h + b[h].size <= top
                         /\ h + b[h].size \in DOMAIN b \/ h + b[h].size = top
  /\ \A h, k \in DOMAIN b : h < k => h + b[h].size <= k

\* The units from lo to hi are those of whole blocks, or of none at the end of
\* the heap, which then ends at hi.
Around(b, top, lo, hi, end) ==
  /\ lo \in Nat /\ hi \in Nat /\ end \in Nat /\ lo < hi /\ hi <= end
  /\ \A k \in DOMAIN b : k + b[k].size <= lo \/ k \in lo..hi - 1 \/ hi <= k
  /\ lo \in DOMAIN b \/ lo = top
  /\ \/ end = top /\ (hi \in DOMAIN b \/ hi = end)
     \/ hi = end /\ \A k \in DOMAIN b : k < hi

\* Other blocks, new, in their place.
Recut(b, lo, hi, c, new) ==
  /\ DOMAIN c = {k \in DOMAIN b : k \notin lo..hi - 1} \cup new
  /\ c \in [DOMAIN c -> BlockRecords]
  /\ \A k \in DOMAIN b : k \notin lo..hi - 1 =>
       c[k].size = b[k].size /\ c[k].status = b[k].status
  /\ lo \in new /\ \A k \in new : /\ k \in lo..hi - 1
                                  /\ k + c[k].size \in new \/ k + c[k].size = hi
                                  /\ k + c[k].size <= hi
  /\ \A h, k \in new : h < k => h + c[h].size <= k

\* The fields of a block's record.
LEMMA SizeIsNat ==
  ASSUME NEW b, b \in [DOMAIN b -> BlockRecords], NEW h \in DOMAIN b
  PROVE  b[h].size \in Nat \ {0} /\ b[h].status \in Statuses /\ b[h].node \in Int
  BY DEF BlockRecords

\* Blocks that fill the place of others follow on from the rest of the heap.
LEMMA RecutIsTiled ==
  ASSUME NEW b, NEW top, Tiled(b, top), NEW lo, NEW hi, NEW end,
         Around(b, top, lo, hi, end), NEW c, NEW new, Recut(b, lo, hi, c, new)
  PROVE  Tiled(c, end)
  <1>1. /\ lo \in Nat /\ hi \in Nat /\ end \in Nat /\ lo < hi /\ hi <= end /\ top \in Nat
        /\ lo \in DOMAIN b \/ lo = top
        /\ \/ end = top /\ (hi \in DOMAIN b \/ hi = end)
           \/ hi = end /\ \A k \in DOMAIN b : k < hi
        /\ \A k \in DOMAIN b : b[k].size \in Nat \ {0}
        /\ \A k \in DOMAIN c : c[k].size \in Nat \ {0}
        /\ c \in [DOMAIN c -> BlockRecords] /\ lo \in new
    <2>1. b \in [DOMAIN b -> BlockRecords] /\ c \in [DOMAIN c -> BlockRecords]
      BY DEF Tiled, Recut
    <2>2. \A k \in DOMAIN b : b[k].size \in Nat \ {0}
      BY <2>1, SizeIsNat
    <2>3. \A k \in DOMAIN c : c[k].size \in Nat \ {0}
      BY <2>1, SizeIsNat
    <2> QED BY <2>1, <2>2, <2>3 DEF Tiled, Around, Recut
  <1>2. \A k \in DOMAIN b : /\ k \in Nat /\ k + b[k].size <= top
                            /\ k + b[k].size \in DOMAIN b \/ k + b[k].size = top
                            /\ k + b[k].size <= lo \/ k \in lo..hi - 1 \/ hi <= k
    BY DEF Tiled, Around
  <1>3. \A k \in DOMAIN c : \/ k \in new
                            \/ k \in DOMAIN b /\ k \notin lo..hi - 1 /\ c[k].size = b[k].size
    BY DEF Recut
  <1>4. /\ \A k \in DOMAIN b : k \notin lo..hi - 1 => k \in DOMAIN c
        /\ \A k \in new : /\ k \in lo..hi - 1 /\ k \in DOMAIN c
                          /\ k + c[k].size \in new \/ k + c[k].size = hi
                          /\ k + c[k].size <= hi
    BY DEF Recut
  <1>5. hi \in DOMAIN c \/ hi = end
    BY <1>1, <1>4
  <1>6. ASSUME NEW k \in DOMAIN c
        PROVE  /\ k \in Nat /\ k + c[k].size <= end
               /\ k + c[k].size \in DOMAIN c \/ k + c[k].size = end
    <2>1. CASE k \in new
      <3>1. PICK x \in Nat : x = k + c[k].size
        BY <1>1, <1>4, <2>1
      <3>2. k \in Nat /\ x <= hi /\ (x \in DOMAIN c \/ x = hi)
        BY <1>1, <1>4, <2>1, <3>1
      <3> QED BY <1>1, <1>5, <3>1, <3>2
    <2>2. CASE k \in DOMAIN b /\ k \notin lo..hi - 1 /\ c[k].size = b[k].size
      <3>1. PICK x \in Nat : x = k + b[k].size
        BY <1>1, <1>2, <2>2
      <3>2. k \in Nat /\ x <= top /\ k < x /\ (x \in DOMAIN b \/ x = top) /\ (x <= lo \/ hi <= k)
        BY <1>1, <1>2, <2>2, <3>1
      <3>3. CASE x <= lo
        <4>1. CASE x = lo
          BY <1>1, <1>4, <2>2, <3>1, <3>2, <4>1
        <4>2. CASE x # lo
          <5>1. x < lo /\ x <= end /\ x # top
            BY <1>1, <1>2, <3>2, <3>3, <4>2
          <5>2. x \in DOMAIN c
            BY <1>1, <1>4, <3>2, <5>1
          <5> QED BY <2>2, <3>1, <3>2, <5>1, <5>2
        <4> QED BY <4>1, <4>2
      <3>4. CASE hi <= k
        <4>1. end = top
          BY <1>1, <2>2, <3>2, <3>4
        <4>2. x \in DOMAIN b => x \in DOMAIN c
          BY <1>1, <1>4, <3>2, <3>4
        <4> QED BY <2>2, <3>1, <3>2, <4>1, <4>2
      <3> QED BY <3>2, <3>3, <3>4
    <2> QED BY <1>3, <2>1, <2>2
  <1>7. ASSUME NEW h \in DOMAIN c, NEW k \in DOMAIN c, h < k
        PROVE  h + c[h].size <= k
    <2>1. h \in Nat /\ k \in Nat /\ c[h].size \in Nat
      BY <1>1, <1>6
    <2>2. CASE h \in new /\ k \in new
      BY <1>7, <2>2 DEF Recut
    <2>3. CASE h \in new /\ k \in DOMAIN b /\ k \notin lo..hi - 1
      <3>1. hi <= k
        BY <1>1, <1>4, <1>7, <2>1, <2>3
      <3>2. h + c[h].size <= hi
        BY <1>4, <2>3
      <3> QED BY <1>1, <2>1, <3>1, <3>2
    <2>4. CASE h \in DOMAIN b /\ h \notin lo..hi - 1 /\ c[h].size = b[h].size /\ k \in new
      <3>1. k \in lo..hi - 1
        BY <1>4, <2>4
      <3>2. h + b[h].size <= lo \/ hi <= h
        BY <1>2, <2>4
      <3> QED BY <1>1, <1>7, <2>1, <2>4, <3>1, <3>2
    <2>5. CASE h \in DOMAIN b /\ c[h].size = b[h].size /\ k \in DOMAIN b
      BY <1>7, <2>5 DEF Tiled
    <2> QED BY <1>3, <2>2, <2>3, <2>4, <2>5
  <1> QED BY <1>1, <1>6, <1>7 DEF Tiled

Freeds(m) == {h \in DOMAIN m.blocks : m.blocks[h].status = "freed"}

\* A block that is not allocated and ends, or starts, where h starts, or ends.
PrevIs(m, h, p) ==
  p # NULL => p \in DOMAIN m.blocks /\ After(m, p) = h /\ m.blocks[p].status # "allocated"

NextIs(m, h, x) ==
  x # NULL => x \in DOMAIN m.blocks /\ After(m, h) = x /\ m.blocks[x].status # "allocated"

\* prev_available finds a block that ends where h starts and is not in use.
LEMMA PrevAvailableGives ==
  ASSUME NEW m, Heap(m, Freeds(m)), NEW h, NEW p, p = PrevAvailable(m, h)
  PROVE  PrevIs(m, h, p)
  <1>1. PICK before : before = {b \in DOMAIN m.blocks : After(m, b) = h}
    OBVIOUS
  <1>2. PICK x : x = CHOOSE b \in before : TRUE
    OBVIOUS
  <1>3. CASE before = {}
    <2>1. p = NULL
      BY <1>1, <1>3 DEF PrevAvailable
    <2> QED BY <2>1 DEF PrevIs
  <1>4. CASE before # {} /\ m.blocks[x].status = "freed"
    <2>1. x \in before
      BY <1>2, <1>4
    <2>2. x \in Freeds(m) /\ After(m, x) = h
      BY <1>1, <1>4, <2>1 DEF Freeds
    <2>3. PICK n : n = m.blocks[x].node
      OBVIOUS
    <2>4. n \in 0..m.end - 1 /\ m.tree[n] = x
      BY <2>2, <2>3, HeapNodes
    <2>5. p = NULL \/ p = m.tree[n]
      BY <1>1, <1>2, <1>4, <2>3 DEF PrevAvailable
    <2> QED BY <1>4, <2>2, <2>4, <2>5 DEF PrevIs, Freeds
  <1>5. CASE before # {} /\ m.blocks[x].status = "wandering"
    <2>1. x \in before
      BY <1>2, <1>5
    <2>2. x \in DOMAIN m.blocks /\ After(m, x) = h
      BY <1>1, <2>1
    <2>3. p = NULL \/ p = x
      BY <1>1, <1>2, <1>5 DEF PrevAvailable
    <2> QED BY <1>5, <2>2, <2>3 DEF PrevIs
  <1>6. CASE before # {} /\ m.blocks[x].status # "freed" /\ m.blocks[x].status # "wandering"
    <2>1. p = NULL
      BY <1>1, <1>2, <1>6 DEF PrevAvailable
    <2> QED BY <2>1 DEF PrevIs
  <1> QED BY <1>3, <1>4, <1>5, <1>6

\* next_available finds a block that starts where h ends and is not in use.
LEMMA NextAvailableGives ==
  ASSUME NEW m, Tiled(m.blocks, m.top), NEW h \in DOMAIN m.blocks,
         NEW x, x = NextAvailable(m, h)
  PROVE  NextIs(m, h, x)
  <1>1. PICK y : y = After(m, h)
    OBVIOUS
  <1>2. h \in Nat /\ m.blocks[h].size \in Nat /\ m.top \in Nat
        /\ y = h + m.blocks[h].size /\ (y \in DOMAIN m.blocks \/ y = m.top)
    BY <1>1, SizeIsNat DEF Tiled, After, SizeOf
  <1>3. CASE y < m.top /\ m.blocks[y].status # "allocated"
    <2>1. x = y
      BY <1>1, <1>3 DEF NextAvailable
    <2>2. y \in DOMAIN m.blocks
      BY <1>2, <1>3
    <2> QED BY <1>1, <1>3, <2>1, <2>2 DEF NextIs
  <1>4. CASE ~(y < m.top /\ m.blocks[y].status # "allocated")
    <2>1. x = NULL
      BY <1>1, <1>4 DEF NextAvailable
    <2> QED BY <2>1 DEF NextIs
  <1> QED BY <1>3, <1>4

\* Setting and clearing blocks leaves everything else alone.
OnlyBlocks(m, q) ==
  /\ Records(q) /\ SameRest(m, q) /\ q.end = m.end /\ q.tree = m.tree

\* Setting a block changes that block.
LEMMA SetBlockGives ==
  ASSUME NEW m, Records(m), NEW h, NEW block \in BlockRecords, NEW q, q = SetBlock(m, h, block)
  PROVE  /\ OnlyBlocks(m, q) /\ DOMAIN q.blocks = DOMAIN m.blocks \cup {h}
         /\ q.blocks[h] = block /\ \A k \in DOMAIN m.blocks \ {h} : q.blocks[k] = m.blocks[k]
  <1>1. PICK b : b = Put(m.blocks, h, block)
    OBVIOUS
  <1>2. b = [k \in DOMAIN m.blocks \cup {h} |-> IF k = h THEN block ELSE m.blocks[k]]
    BY <1>1 DEF Put
  <1>3. /\ DOMAIN b = DOMAIN m.blocks \cup {h} /\ b[h] = block
        /\ \A k \in DOMAIN m.blocks \ {h} : b[k] = m.blocks[k]
        /\ b \in [DOMAIN b -> BlockRecords]
    BY <1>2 DEF Records
  <1>4. q = [blocks |-> b, tree |-> m.tree, end |-> m.end, root |-> m.root,
             cap |-> m.cap, top |-> m.top, got |-> m.got, bad |-> m.bad]
    <2>1. q = [m EXCEPT !.blocks = b]
      BY <1>1 DEF SetBlock
    <2> QED BY <2>1 DEF Records, Shape
  <1> QED BY <1>3, <1>4 DEF OnlyBlocks, Records, Shape, SameRest

\* Clearing a range of the heap removes the blocks that start in it.
LEMMA ClearedGives ==
  ASSUME NEW m, Records(m), NEW lo, NEW hi, NEW q, q = Cleared(m, lo, hi)
  PROVE  /\ OnlyBlocks(m, q)
         /\ DOMAIN q.blocks = {k \in DOMAIN m.blocks : k \notin lo..hi - 1}
         /\ \A k \in DOMAIN q.blocks : q.blocks[k] = m.blocks[k]
  <1>1. PICK b : b = [h \in {k \in DOMAIN m.blocks : k \notin lo..hi - 1} |-> m.blocks[h]]
    OBVIOUS
  <1>3. /\ DOMAIN b = {k \in DOMAIN m.blocks : k \notin lo..hi - 1}
        /\ \A k \in DOMAIN b : b[k] = m.blocks[k]
        /\ b \in [DOMAIN b -> BlockRecords]
    BY <1>1 DEF Records
  <1>4. q = [blocks |-> b, tree |-> m.tree, end |-> m.end, root |-> m.root,
             cap |-> m.cap, top |-> m.top, got |-> m.got, bad |-> m.bad]
    <2>1. q = [m EXCEPT !.blocks = b]
      BY <1>1 DEF Cleared
    <2> QED BY <2>1 DEF Records, Shape
  <1> QED BY <1>3, <1>4 DEF OnlyBlocks, Records, Shape, SameRest

\* Changing blocks twice is changing blocks.
LEMMA OnlyBlocksTrans ==
  ASSUME NEW m, NEW q, NEW r, OnlyBlocks(m, q), OnlyBlocks(q, r)
  PROVE  OnlyBlocks(m, r)
  BY DEF OnlyBlocks, SameRest

\* The order of the nodes does not depend on other blocks.
LEMMA BlocksElsewhere ==
  ASSUME NEW m, NEW F, NEW i, NEW w \in Nat, HeapBut(m, i, w, F),
         NEW c, Records(c), c.tree = m.tree, c.end = m.end,
         F \subseteq DOMAIN c.blocks, \A h \in F : c.blocks[h] = m.blocks[h]
  PROVE  HeapBut(c, i, w, F)
  <1>1. PICK P : P = (0..m.end - 1) \ {i}
    OBVIOUS
  <1>2. /\ Typed(m) /\ P \subseteq Nat /\ P \subseteq DOMAIN m.tree
        /\ \A k \in P : m.tree[k] \in F /\ m.blocks[m.tree[k]].node = k
        /\ \A h \in F : m.blocks[h].node \in P /\ m.tree[m.blocks[h].node] = h
        /\ Ordered(Keys(m, i, w), m.end)
    BY <1>1 DEF HeapBut, Nodes, Indexed, Indexes
  <1>3. Indexed(c, P, F)
    <2>1. \A k \in P : c.tree[k] \in F /\ c.blocks[c.tree[k]].node = k
      BY <1>2
    <2>2. \A h \in F : c.blocks[h].node \in P /\ c.tree[c.blocks[h].node] = h
      BY <1>2
    <2>3. P \subseteq DOMAIN c.tree
      BY <1>2
    <2> QED BY <1>2, <2>1, <2>2, <2>3 DEF Indexed, Indexes
  <1>4. Nodes(c, i, F)
    BY <1>1, <1>2, <1>3 DEF Nodes, Typed
  <1>5. \A k \in P : NodeSize(c, k) = NodeSize(m, k)
    BY <1>2 DEF NodeSize, SizeOf
  <1>6. Keys(c, i, w) = Keys(m, i, w)
    BY <1>1, <1>5 DEF Keys
  <1> QED BY <1>2, <1>4, <1>6 DEF HeapBut

Wander(b) == \A h \in DOMAIN b : b[h].status = "wandering" <=> b[h].size = 1

\* What the blocks outside lo..hi - 1 keep.
Kept(m, r, lo, hi) ==
  \A k \in DOMAIN m.blocks : k \notin lo..hi - 1 =>
    /\ k \in DOMAIN r.blocks
    /\ r.blocks[k].size = m.blocks[k].size /\ r.blocks[k].status = m.blocks[k].status

\* The blocks that Allocate makes.
CutOut(m, lo, hi, size) ==
  LET rest == hi - lo - size
      free == Block(rest, IF rest = 1 THEN "wandering" ELSE "freed", NOT_EXIST)
      used == SetBlock(Cleared(m, lo, hi), lo, Block(size, "allocated", NOT_EXIST))
  IN  IF rest = 0 THEN used ELSE SetBlock(used, lo + size, free)

IsCut(m, lo, hi, size, rest, c) ==
  /\ OnlyBlocks(m, c) /\ Tiled(c.blocks, m.top) /\ Wander(c.blocks)
  /\ DOMAIN c.blocks = {k \in DOMAIN m.blocks : k \notin lo..hi - 1}
                         \cup {lo} \cup (IF rest = 0 THEN {} ELSE {lo + size})
  /\ \A k \in DOMAIN m.blocks : k \notin lo..hi - 1 => c.blocks[k] = m.blocks[k]
  /\ c.blocks[lo] = Block(size, "allocated", NOT_EXIST)
  /\ rest # 0 => /\ lo + size \in lo..hi - 1 /\ lo + size # lo
                 /\ c.blocks[lo + size] =
                      Block(rest, IF rest = 1 THEN "wandering" ELSE "freed", NOT_EXIST)

\* A new block has the type of a block.
LEMMA BlockIsRecord ==
  ASSUME NEW size \in Nat \ {0}, NEW status \in Statuses
  PROVE  Block(size, status, NOT_EXIST) \in BlockRecords
  BY DEF Block, BlockRecords, NOT_EXIST

\* An allocated block and what remains fill the range they are cut from.
LEMMA CutOutGives ==
  ASSUME NEW m, Records(m), NEW top, Tiled(m.blocks, top), Wander(m.blocks),
         NEW lo, NEW hi, Around(m.blocks, top, lo, hi, m.top),
         NEW size \in Nat, size >= 2, NEW rest \in Nat, lo + size + rest = hi,
         NEW c, c = CutOut(m, lo, hi, size)
  PROVE  IsCut(m, lo, hi, size, rest, c)
  <1>1. lo \in Nat /\ hi \in Nat /\ lo < hi /\ hi - lo - size = rest /\ size # 0 /\ size # 1
    BY DEF Around
  <1>2. PICK x \in Nat : x = lo + size
    BY <1>1
  <1>3. PICK a, f : /\ a = Block(size, "allocated", NOT_EXIST)
                    /\ f = Block(rest, IF rest = 1 THEN "wandering" ELSE "freed", NOT_EXIST)
    OBVIOUS
  <1>4. /\ a \in BlockRecords /\ a.size = size /\ a.status = "allocated"
        /\ rest # 0 => /\ f \in BlockRecords /\ f.size = rest
                       /\ f.status = IF rest = 1 THEN "wandering" ELSE "freed"
    <2>1. "allocated" \in Statuses /\ (IF rest = 1 THEN "wandering" ELSE "freed") \in Statuses
      BY DEF Statuses
    <2> QED BY <1>1, <1>3, <2>1, BlockIsRecord DEF Block
  <1>5. PICK d, u : d = Cleared(m, lo, hi) /\ u = SetBlock(d, lo, a)
    OBVIOUS
  <1>6. c = IF rest = 0 THEN u ELSE SetBlock(u, x, f)
    BY <1>1, <1>2, <1>3, <1>5 DEF CutOut
  <1>7. /\ OnlyBlocks(m, d)
        /\ DOMAIN d.blocks = {k \in DOMAIN m.blocks : k \notin lo..hi - 1}
        /\ \A k \in DOMAIN d.blocks : d.blocks[k] = m.blocks[k]
    BY <1>5, ClearedGives
  <1>8. /\ OnlyBlocks(d, u) /\ DOMAIN u.blocks = DOMAIN d.blocks \cup {lo}
        /\ u.blocks[lo] = a /\ \A k \in DOMAIN d.blocks \ {lo} : u.blocks[k] = d.blocks[k]
    <2>1. Records(d)
      BY <1>7 DEF OnlyBlocks
    <2> QED BY <1>4, <1>5, <2>1, SetBlockGives
  <1>9. /\ OnlyBlocks(m, c)
        /\ DOMAIN c.blocks = DOMAIN d.blocks \cup {lo} \cup (IF rest = 0 THEN {} ELSE {x})
        /\ c.blocks[lo] = a
        /\ \A k \in DOMAIN d.blocks : k # lo /\ (rest # 0 => k # x) => c.blocks[k] = d.blocks[k]
        /\ rest # 0 => c.blocks[x] = f
    <2>1. OnlyBlocks(m, u) /\ Records(u)
      BY <1>7, <1>8, OnlyBlocksTrans DEF OnlyBlocks
    <2>2. CASE rest = 0
      BY <1>6, <1>8, <2>1, <2>2
    <2>3. CASE rest # 0
      <3>1. c = SetBlock(u, x, f) /\ f \in BlockRecords /\ x # lo
        BY <1>1, <1>2, <1>4, <1>6, <2>3
      <3>2. /\ OnlyBlocks(u, c) /\ DOMAIN c.blocks = DOMAIN u.blocks \cup {x}
            /\ c.blocks[x] = f /\ \A k \in DOMAIN u.blocks \ {x} : c.blocks[k] = u.blocks[k]
        BY <2>1, <3>1, SetBlockGives
      <3>3. OnlyBlocks(m, c)
        BY <2>1, <3>2, OnlyBlocksTrans
      <3> QED BY <1>8, <2>3, <3>1, <3>2, <3>3
    <2> QED BY <2>2, <2>3
  <1>10. /\ lo \in lo..hi - 1 /\ lo + size = x
         /\ rest = 0 => x = hi
         /\ rest # 0 => x \in lo..hi - 1 /\ x # lo /\ x + rest = hi
    BY <1>1, <1>2
  <1>11. \A k \in DOMAIN m.blocks : k \notin lo..hi - 1 =>
           k \in DOMAIN d.blocks /\ c.blocks[k] = m.blocks[k]
    BY <1>7, <1>9, <1>10
  <1>12. PICK new : new = {lo} \cup (IF rest = 0 THEN {} ELSE {x})
    OBVIOUS
  <1>13. Recut(m.blocks, lo, hi, c.blocks, new)
    <2>1. DOMAIN c.blocks = {k \in DOMAIN m.blocks : k \notin lo..hi - 1} \cup new
      BY <1>7, <1>9, <1>12
    <2>2. c.blocks \in [DOMAIN c.blocks -> BlockRecords]
      BY <1>9 DEF OnlyBlocks, Records
    <2>3. ASSUME NEW k \in new
          PROVE  /\ k \in lo..hi - 1 /\ (k + c.blocks[k].size \in new \/ k + c.blocks[k].size = hi)
                 /\ k + c.blocks[k].size <= hi
      <3>1. CASE k = lo
        <4>1. k + c.blocks[k].size = x
          BY <1>4, <1>9, <1>10, <3>1
        <4>2. x <= hi /\ (x \in new \/ x = hi)
          BY <1>1, <1>2, <1>10, <1>12
        <4> QED BY <1>10, <3>1, <4>1, <4>2
      <3>2. CASE rest # 0 /\ k = x
        BY <1>1, <1>4, <1>9, <1>10, <3>2
      <3> QED BY <1>12, <2>3, <3>1, <3>2
    <2>4. ASSUME NEW h \in new, NEW k \in new, h < k PROVE h + c.blocks[h].size <= k
      <3>1. h = lo /\ k = x
        BY <1>1, <1>2, <1>12, <2>4
      <3> QED BY <1>2, <1>4, <1>9, <3>1
    <2> QED BY <1>11, <1>12, <2>1, <2>2, <2>3, <2>4 DEF Recut
  <1>14. Tiled(c.blocks, m.top)
    BY <1>13, RecutIsTiled
  <1>15. Wander(c.blocks)
    <2>1. ASSUME NEW k \in DOMAIN c.blocks
          PROVE  c.blocks[k].status = "wandering" <=> c.blocks[k].size = 1
      <3>1. CASE k = lo
        BY <1>1, <1>4, <1>9, <3>1
      <3>2. CASE rest # 0 /\ k = x
        BY <1>4, <1>9, <3>2
      <3>3. CASE k \in DOMAIN d.blocks
        BY <1>7, <1>11, <3>3 DEF Wander
      <3> QED BY <1>9, <2>1, <3>1, <3>2, <3>3
    <2> QED BY <2>1 DEF Wander
  <1> QED BY <1>2, <1>3, <1>7, <1>9, <1>10, <1>11, <1>14, <1>15 DEF IsCut

\* What only moves nodes keeps the blocks in their places.
LEMMA SameLayoutKeeps ==
  ASSUME NEW m, NEW r, SameLayout(m, r), Records(r), NEW top, Tiled(m.blocks, top),
         Wander(m.blocks)
  PROVE  Tiled(r.blocks, top) /\ Wander(r.blocks) /\ Freeds(r) = Freeds(m)
  <1>1. /\ DOMAIN r.blocks = DOMAIN m.blocks
        /\ \A h \in DOMAIN m.blocks : /\ r.blocks[h].size = m.blocks[h].size
                                      /\ r.blocks[h].status = m.blocks[h].status
    BY DEF SameLayout
  <1>2. Freeds(r) = Freeds(m)
    BY <1>1 DEF Freeds
  <1>3. Wander(r.blocks)
    BY <1>1 DEF Wander
  <1>4. r.blocks \in [DOMAIN r.blocks -> BlockRecords] /\ top \in Nat
    BY DEF Records, Tiled
  <1>5. \A h \in DOMAIN r.blocks :
          /\ h \in Nat /\ h + r.blocks[h].size <= top
          /\ h + r.blocks[h].size \in DOMAIN r.blocks \/ h + r.blocks[h].size = top
    BY <1>1 DEF Tiled
  <1>6. \A h, k \in DOMAIN r.blocks : h < k => h + r.blocks[h].size <= k
    BY <1>1 DEF Tiled
  <1> QED BY <1>2, <1>3, <1>4, <1>5, <1>6 DEF Tiled

\* The heap is whole: its blocks follow one another, those of one unit are the
\* wandering ones, and the freetree is an index in order of the freed ones.
Whole(m) == Tiled(m.blocks, m.top) /\ Wander(m.blocks) /\ Heap(m, Freeds(m))

Allotted(m, r, lo, hi, size) ==
  /\ Whole(r) /\ r.root = m.root /\ r.cap = m.cap /\ r.top = m.top /\ r.bad = m.bad
  /\ r.got = lo /\ lo \in DOMAIN r.blocks
  /\ r.blocks[lo].size = size /\ r.blocks[lo].status = "allocated"
  /\ Kept(m, r, lo, hi)

\* A heap's fields have their types.
LEMMA HeapIsRecords ==
  ASSUME NEW m, NEW i, NEW w, NEW F, HeapBut(m, i, w, F)
  PROVE  Records(m) /\ Typed(m) /\ m.end \in Nat
  BY DEF HeapBut, Nodes, Typed, Records

\* The block handed out.
LEMMA GotGives ==
  ASSUME NEW m, NEW c, NEW lo, NEW hi, NEW size, NEW rest,
         IsCut(m, lo, hi, size, rest, c), NEW s, Heap(s, Freeds(c)), SameLayout(c, s),
         SameRest(c, s), NEW r, r = [s EXCEPT !.got = lo]
  PROVE  Allotted(m, r, lo, hi, size) /\ r.end = s.end
  <1>1. Records(s)
    BY HeapIsRecords DEF Heap
  <1>2. /\ OnlyBlocks(m, c) /\ Tiled(c.blocks, m.top) /\ Wander(c.blocks)
        /\ lo \in DOMAIN c.blocks /\ c.blocks[lo] = Block(size, "allocated", NOT_EXIST)
        /\ \A k \in DOMAIN m.blocks : k \notin lo..hi - 1 =>
             k \in DOMAIN c.blocks /\ c.blocks[k] = m.blocks[k]
    BY DEF IsCut
  <1>3. r = [blocks |-> s.blocks, tree |-> s.tree, end |-> s.end, root |-> s.root,
             cap |-> s.cap, top |-> s.top, got |-> lo, bad |-> s.bad]
    BY <1>1 DEF Records, Shape
  <1>4. /\ Records(r) /\ r.blocks = s.blocks /\ r.tree = s.tree /\ r.end = s.end /\ r.got = lo
        /\ r.root = m.root /\ r.cap = m.cap /\ r.top = m.top /\ r.bad = m.bad
    <2>1. SameRest(m, c)
      BY <1>2 DEF OnlyBlocks
    <2> QED BY <1>1, <1>3, <2>1 DEF Records, Shape, SameRest
  <1>5. Tiled(s.blocks, m.top) /\ Wander(s.blocks) /\ Freeds(s) = Freeds(c)
    BY <1>1, <1>2, SameLayoutKeeps
  <1>6. Freeds(r) = Freeds(c)
    BY <1>4, <1>5 DEF Freeds
  <1>7. Heap(r, Freeds(c))
    <2>1. Freeds(c) \subseteq DOMAIN r.blocks
      BY <1>2, <1>4 DEF Freeds, SameLayout
    <2> QED BY <1>4, <2>1, BlocksElsewhere DEF Heap
  <1>8. Whole(r)
    BY <1>4, <1>5, <1>6, <1>7 DEF Whole
  <1>9. /\ lo \in DOMAIN r.blocks /\ r.blocks[lo].size = size
        /\ r.blocks[lo].status = "allocated" /\ Kept(m, r, lo, hi)
    BY <1>2, <1>4 DEF SameLayout, Kept, Block
  <1> QED BY <1>4, <1>8, <1>9 DEF Allotted

\* The nodes that Allocate leaves.
NodesLeft(m, r, node, rest) ==
  CASE node = NOT_EXIST /\ rest >= 2 -> r.end = m.end + 1
    [] node # NOT_EXIST /\ rest < 2  -> r.end + 1 = m.end
    [] OTHER                         -> r.end = m.end

\* do_allocate: the block is cut out, and the remainder has the node, a new node or
\* none, so that the freetree is again an index of the freed blocks.
LEMMA AllocateGives ==
  ASSUME NEW m, NEW top, Tiled(m.blocks, top), Wander(m.blocks),
         NEW lo, NEW hi, Around(m.blocks, top, lo, hi, m.top),
         NEW size \in Nat, size >= 2, NEW rest \in Nat, lo + size + rest = hi,
         NEW F, F = {h \in Freeds(m) : h \notin lo..hi - 1},
         NEW node, node = NOT_EXIST \/ node \in 0..m.end - 1,
         NEW w \in Nat, node = NOT_EXIST => w = 0, HeapBut(m, node, w, F),
         NEW r, r = Allocate(m, lo, hi, size, node)
  PROVE  Allotted(m, r, lo, hi, size) /\ NodesLeft(m, r, node, rest)
  <1>1. Records(m) /\ Typed(m) /\ m.end \in Nat
    BY HeapIsRecords
  <1>2. PICK c : c = CutOut(m, lo, hi, size)
    OBVIOUS
  <1>3. IsCut(m, lo, hi, size, rest, c)
    <2> HIDE DEF Records, Tiled, Wander, Around, IsCut
    <2> QED BY <1>1, <1>2, CutOutGives
  <1>4. /\ lo \in Nat /\ hi \in Nat /\ hi - lo - size = rest
        /\ NOT_EXIST \notin Nat
    BY DEF Around, NOT_EXIST
  <1>5. PICK x \in Nat : x = lo + size
    BY <1>4
  <1>6. /\ OnlyBlocks(m, c)
        /\ DOMAIN c.blocks = {k \in DOMAIN m.blocks : k \notin lo..hi - 1}
                               \cup {lo} \cup (IF rest = 0 THEN {} ELSE {x})
        /\ \A k \in DOMAIN m.blocks : k \notin lo..hi - 1 => c.blocks[k] = m.blocks[k]
        /\ c.blocks[lo].status = "allocated" /\ lo \in lo..hi - 1
        /\ rest # 0 => /\ x \in lo..hi - 1 /\ x # lo
                       /\ c.blocks[x].status = IF rest = 1 THEN "wandering" ELSE "freed"
    <2>1. lo \in lo..hi - 1
      BY <1>4
    <2> QED BY <1>3, <1>5, <2>1 DEF IsCut, Block
  <1>7. Records(c) /\ c.end = m.end /\ c.tree = m.tree
    BY <1>6 DEF OnlyBlocks
  <1>8. F \subseteq DOMAIN c.blocks /\ \A h \in F : c.blocks[h] = m.blocks[h]
    BY <1>6 DEF Freeds
  <1>9. HeapBut(c, node, w, F)
    BY <1>7, <1>8, BlocksElsewhere
  <1>10. Freeds(c) = IF rest >= 2 THEN F \cup {x} ELSE F
    BY <1>6 DEF Freeds
  <1>11. CASE rest >= 2
    <2>1. PICK i, n : /\ i = IF node = NOT_EXIST THEN m.end ELSE node
                      /\ n = IF node = NOT_EXIST THEN m.end + 1 ELSE m.end
      OBVIOUS
    <2>2. n \in Nat /\ i \in Nat /\ i \in 0..n - 1
      BY <1>1, <1>4, <2>1
    <2>3. PICK g : g = [c EXCEPT !.end = IF node = NOT_EXIST THEN @ + 1 ELSE @]
      OBVIOUS
    <2>4. /\ Records(g) /\ g.blocks = c.blocks /\ g.tree = c.tree /\ g.end = n
          /\ SameRest(c, g)
      <3>1. g = [blocks |-> c.blocks, tree |-> c.tree, end |-> n, root |-> c.root,
                 cap |-> c.cap, top |-> c.top, got |-> c.got, bad |-> c.bad]
        BY <1>7, <2>1, <2>3 DEF Records, Shape
      <3> QED BY <1>7, <2>2, <3>1 DEF Records, Shape, SameRest
    <2>5. PICK q, e, s : q = SetNode(g, i, x) /\ e = Emerge(q, i) /\ s = Sink(e, i)
      OBVIOUS
    <2>6. r = [s EXCEPT !.got = lo]
      <3>1. r = [Sink(Emerge(SetNode(g, i, x), i), i) EXCEPT !.got = lo]
        BY <1>2, <1>4, <1>5, <1>7, <1>11, <2>1, <2>3 DEF Allocate, CutOut
      <3> QED BY <2>5, <3>1
    <2>7. PICK P : P = (0..m.end - 1) \ {node}
      OBVIOUS
    <2>8. i \notin P /\ P \cup {i} = 0..n - 1
      BY <1>1, <1>4, <2>1, <2>7
    <2>9. Indexed(c, P, F) /\ Typed(c)
      BY <1>7, <1>9, <2>7 DEF HeapBut, Nodes
    <2>10. Indexed(g, P, F)
      BY <2>4, <2>9 DEF Indexed, Indexes
    <2>11. x \notin F /\ x \in DOMAIN g.blocks
      BY <1>6, <1>11, <2>4
    <2>12. /\ Indexed(q, 0..n - 1, F \cup {x}) /\ SameRest(g, q) /\ SameLayout(g, q)
           /\ q.end = n /\ DOMAIN q.tree = DOMAIN g.tree \cup {i}
           /\ q.tree[i] = x /\ \A k \in DOMAIN g.tree \ {i} : q.tree[k] = g.tree[k]
      <3>1. Indexed(q, P \cup {i}, F \cup {x}) /\ Pointed(g, q, i, x)
        BY <2>2, <2>5, <2>8, <2>10, <2>11, PointedNode
      <3> QED BY <2>4, <2>8, <3>1 DEF Pointed
    <2>13. Nodes(q, NOT_EXIST, F \cup {x})
      <3>1. (0..q.end - 1) \ {NOT_EXIST} = 0..n - 1
        BY <1>4, <2>12
      <3>2. Typed(q)
        BY <2>12 DEF Indexed, Typed
      <3> QED BY <2>12, <3>1, <3>2 DEF Nodes
    <2>14. PICK K, L : K = Keys(c, node, w) /\ L = Keys(q, NOT_EXIST, 0)
      OBVIOUS
    <2>15. /\ K \in [0..m.end - 1 -> Nat] /\ Ordered(K, m.end)
           /\ \A k \in 0..m.end - 1 : k # node => K[k] = NodeSize(c, k)
      <3>1. Nodes(c, node, F) /\ Ordered(K, c.end)
        BY <1>9, <2>14 DEF HeapBut
      <3>2. /\ K \in [0..c.end - 1 -> Nat]
            /\ \A k \in 0..c.end - 1 : k # node => K[k] = NodeSize(c, k)
        BY <2>14, <3>1, KeysType
      <3> QED BY <1>7, <3>1, <3>2
    <2>16. L \in [0..n - 1 -> Nat] /\ \A k \in 0..n - 1 : L[k] = NodeSize(q, k)
      <3>1. /\ L \in [0..q.end - 1 -> Nat]
            /\ \A k \in 0..q.end - 1 : k # NOT_EXIST => L[k] = NodeSize(q, k)
        BY <2>13, <2>14, KeysType
      <3> QED BY <1>4, <2>12, <3>1
    <2>17. ASSUME NEW k \in 0..n - 1, k # i PROVE k < m.end /\ L[k] = K[k]
      <3>1. k \in P /\ k \in 0..m.end - 1 /\ k # node /\ k < m.end
        BY <1>1, <1>4, <2>1, <2>7, <2>8, <2>17
      <3>2. q.tree[k] = c.tree[k] /\ c.tree[k] \in F
        BY <2>4, <2>9, <2>12, <2>17, <3>1 DEF Indexed, Indexes
      <3>3. NodeSize(q, k) = NodeSize(c, k)
        BY <1>8, <2>4, <2>12, <3>2 DEF NodeSize, SizeOf, SameLayout
      <3> QED BY <2>15, <2>16, <2>17, <3>1, <3>3
    <2>18. Loose(L, n, i)
      BY <1>1, <2>2, <2>15, <2>16, <2>17, ChangedIsLoose
    <2>19. /\ Moves(q, e) /\ Nodes(e, NOT_EXIST, F \cup {x})
           /\ Loose(Keys(e, NOT_EXIST, 0), n, i) /\ UpOk(Keys(e, NOT_EXIST, 0), i)
      <3>1. q.end \in Nat /\ i \in 0..q.end - 1 /\ NOT_EXIST \notin 0..i
        BY <1>4, <2>2, <2>12
      <3> QED BY <2>5, <2>12, <2>13, <2>14, <2>18, <3>1, EmergeNode
    <2>20. e.end = n
      BY <2>12, <2>19 DEF Moves
    <2>21. /\ Moves(e, s) /\ Nodes(s, NOT_EXIST, F \cup {x})
           /\ Loose(Keys(s, NOT_EXIST, 0), n, i) /\ DownOk(Keys(s, NOT_EXIST, 0), n, i)
           /\ UpOk(Keys(s, NOT_EXIST, 0), i)
      <3>1. e.end \in Nat /\ i \in 0..e.end - 1 /\ NOT_EXIST \notin 0..e.end - 1
        BY <1>4, <2>2, <2>20
      <3> QED BY <2>5, <2>19, <2>20, <3>1, SinkNode
    <2>22. s.end = n
      BY <2>20, <2>21 DEF Moves
    <2>23. Ordered(Keys(s, NOT_EXIST, 0), n)
      <3>1. Keys(s, NOT_EXIST, 0) \in [0..n - 1 -> Nat]
        BY <2>21, <2>22, KeysType
      <3> QED BY <2>2, <2>21, <3>1, LooseAndInPlace
    <2>24. Heap(s, Freeds(c))
      <3>1. Freeds(c) = F \cup {x}
        BY <1>10, <1>11
      <3> QED BY <2>21, <2>22, <2>23, <3>1 DEF Heap, HeapBut
    <2>25. SameRest(c, s) /\ SameLayout(c, s)
      BY <2>4, <2>12, <2>19, <2>21 DEF Moves, SameRest, SameLayout
    <2>26. Allotted(m, r, lo, hi, size) /\ r.end = n
      BY <1>3, <2>6, <2>22, <2>24, <2>25, GotGives
    <2> QED BY <1>11, <2>1, <2>26 DEF NodesLeft
  <1>12. CASE rest < 2 /\ node # NOT_EXIST
    <2>1. PICK s : s = DeleteNode(c, node)
      OBVIOUS
    <2>2. r = [s EXCEPT !.got = lo]
      <3>1. ~(rest >= 2)
        BY <1>12
      <3>2. r = [DeleteNode(c, node) EXCEPT !.got = lo]
        BY <1>2, <1>4, <1>12, <3>1 DEF Allocate, CutOut
      <3> QED BY <2>1, <3>2
    <2>3. Deleted(c, s, F)
      <3>1. node \in 0..c.end - 1
        BY <1>7, <1>12
      <3> QED BY <1>9, <2>1, <3>1, DeleteNodeGives
    <2>4. Heap(s, Freeds(c)) /\ SameRest(c, s) /\ SameLayout(c, s) /\ s.end + 1 = m.end
      BY <1>7, <1>10, <1>12, <2>3 DEF Deleted
    <2>5. Allotted(m, r, lo, hi, size) /\ r.end = s.end
      BY <1>3, <2>2, <2>4, GotGives
    <2> QED BY <1>12, <2>4, <2>5 DEF NodesLeft
  <1>13. CASE rest < 2 /\ node = NOT_EXIST
    <2>1. r = [c EXCEPT !.got = lo]
      <3>1. ~(rest >= 2)
        BY <1>13
      <3> QED BY <1>2, <1>4, <1>13, <3>1 DEF Allocate, CutOut
    <2>2. Heap(c, Freeds(c)) /\ SameRest(c, c) /\ SameLayout(c, c)
      BY <1>9, <1>10, <1>13 DEF Heap, SameRest, SameLayout
    <2>3. Allotted(m, r, lo, hi, size) /\ r.end = c.end
      BY <1>3, <2>1, <2>2, GotGives
    <2> QED BY <1>7, <1>13, <2>3 DEF NodesLeft
  <1> QED BY <1>11, <1>12, <1>13

-------------------------------------------------------------------------------
(* Which blocks a call takes.                                                *)

\* From block lo to block y; and at the end of the heap, which is moved.
LEMMA AroundBlocks ==
  ASSUME NEW b, NEW top, Tiled(b, top), NEW lo \in DOMAIN b, NEW y \in DOMAIN b, lo <= y,
         NEW hi, hi = y + b[y].size
  PROVE  Around(b, top, lo, hi, top) /\ y < hi
  <1>1. /\ \A k \in DOMAIN b : /\ k \in Nat /\ b[k].size \in Nat \ {0} /\ k + b[k].size <= top
                               /\ k + b[k].size \in DOMAIN b \/ k + b[k].size = top
        /\ top \in Nat
    BY SizeIsNat DEF Tiled
  <1>2. \A k, l \in DOMAIN b : k < l => k + b[k].size <= l
    BY DEF Tiled
  <1>3. /\ lo \in Nat /\ y \in Nat /\ hi \in Nat /\ y < hi /\ hi <= top
        /\ hi \in DOMAIN b \/ hi = top
    BY <1>1
  <1>4. ASSUME NEW k \in DOMAIN b PROVE k + b[k].size <= lo \/ k \in lo..hi - 1 \/ hi <= k
    <2>1. k \in Nat
      BY <1>1
    <2>2. CASE k < lo
      BY <1>2, <2>2
    <2>3. CASE lo <= k /\ k <= y
      BY <1>3, <2>1, <2>3
    <2>4. CASE y < k
      BY <1>2, <2>4
    <2> QED BY <1>3, <2>1, <2>2, <2>3, <2>4
  <1> QED BY <1>1, <1>3, <1>4 DEF Around

\* The end of the heap, with the last block or without, is a region to cut from.
LEMMA AroundEnd ==
  ASSUME NEW b, NEW top, Tiled(b, top), NEW lo,
         lo = top \/ (lo \in DOMAIN b /\ lo + b[lo].size = top),
         NEW end \in Nat, lo < end, top <= end
  PROVE  Around(b, top, lo, end, end)
  <1>1. /\ \A k \in DOMAIN b : k \in Nat /\ b[k].size \in Nat \ {0} /\ k + b[k].size <= top
        /\ top \in Nat
    BY SizeIsNat DEF Tiled
  <1>2. \A k, l \in DOMAIN b : k < l => k + b[k].size <= l
    BY DEF Tiled
  <1>3. lo \in Nat
    BY <1>1
  <1>4. ASSUME NEW k \in DOMAIN b PROVE k < end /\ (k + b[k].size <= lo \/ k \in lo..end - 1)
    <2>1. k \in Nat /\ k < end
      BY <1>1
    <2>2. CASE k < lo
      BY <1>1, <1>2, <2>2
    <2>3. CASE lo <= k
      BY <1>3, <2>1, <2>3
    <2> QED BY <1>3, <2>1, <2>2, <2>3
  <1> QED BY <1>3, <1>4 DEF Around

\* A freed block's node taken out of consideration.
LEMMA WithoutOne ==
  ASSUME NEW m, NEW F, Heap(m, F), NEW h \in F, NEW i, i = m.blocks[h].node
  PROVE  /\ i \in 0..m.end - 1 /\ m.tree[i] = h /\ SizeOf(m, h) \in Nat
         /\ HeapBut(m, i, SizeOf(m, h), F \ {h})
  <1>1. /\ Typed(m) /\ F \subseteq DOMAIN m.blocks
        /\ \A k \in 0..m.end - 1 : m.tree[k] \in F /\ m.blocks[m.tree[k]].node = k
        /\ \A b \in F : m.blocks[b].node \in 0..m.end - 1 /\ m.tree[m.blocks[b].node] = b
        /\ \A k \in 0..m.end - 1 : NodeSize(m, k) \in Nat
    BY HeapNodes
  <1>2. i \in 0..m.end - 1 /\ m.tree[i] = h
    BY <1>1
  <1>3. NodeSize(m, i) = SizeOf(m, h) /\ SizeOf(m, h) \in Nat
    BY <1>1, <1>2 DEF NodeSize
  <1>4. PICK P : P = (0..m.end - 1) \ {i}
    OBVIOUS
  <1>5. Indexed(m, P, F \ {h})
    <2>1. ASSUME NEW k \in P PROVE m.tree[k] \in F \ {h} /\ m.blocks[m.tree[k]].node = k
      BY <1>1, <1>2, <1>4, <2>1
    <2>2. ASSUME NEW b \in F \ {h} PROVE m.blocks[b].node \in P /\ m.tree[m.blocks[b].node] = b
      BY <1>1, <1>2, <1>4, <2>2
    <2>3. P \subseteq Nat /\ P \subseteq DOMAIN m.tree /\ F \ {h} \subseteq DOMAIN m.blocks
      BY <1>1, <1>4 DEF Typed, Records
    <2> QED BY <1>1, <2>1, <2>2, <2>3 DEF Indexed, Indexes, Typed
  <1>6. Nodes(m, i, F \ {h})
    BY <1>1, <1>4, <1>5 DEF Nodes
  <1>7. Keys(m, i, SizeOf(m, h)) = Keys(m, NOT_EXIST, 0)
    BY <1>2, <1>3 DEF Keys, NOT_EXIST
  <1> QED BY <1>2, <1>3, <1>6, <1>7 DEF Heap, HeapBut

\* What a call leaves to the holders of blocks other than h: theirs. The block
\* that it hands out is h or was nobody's.
Untouched(m, r, h) ==
  \A k \in DOMAIN m.blocks : m.blocks[k].status = "allocated" /\ k # h =>
    /\ k \in DOMAIN r.blocks
    /\ r.blocks[k].size = m.blocks[k].size /\ r.blocks[k].status = "allocated"

Fresh(m, k) == k \in DOMAIN m.blocks => m.blocks[k].status # "allocated"

\* A call that has run into undefined behaviour.
Spoilt(r) == Shape(r) /\ r.bad = TRUE

SameVars(m, r) == r.root = m.root /\ r.cap = m.cap /\ r.bad = m.bad

Served(m, r, h, size) ==
  /\ Whole(r) /\ SameVars(m, r) /\ Untouched(m, r, h) /\ r.got \in DOMAIN r.blocks
  /\ r.blocks[r.got].size = size /\ r.blocks[r.got].status = "allocated"
  /\ r.got = h \/ Fresh(m, r.got)

Refused(m, r) ==
  /\ Whole(r) /\ SameVars(m, r) /\ Untouched(m, r, NULL) /\ r.got = NULL
  /\ r.end = m.end /\ r.top = m.top

\* A call that has run into undefined behaviour says so.
LEMMA UndefinedIsSpoilt ==
  ASSUME NEW m, NEW h, NEW r, r = Undefined(m, h)
  PROVE  Spoilt(r) /\ r.got = h
  BY DEF Undefined, Spoilt, Shape

\* If only block h is in use in a region, the other blocks in use are outside it.
LEMMA KeptIsUntouched ==
  ASSUME NEW m, NEW r, NEW lo, NEW hi, NEW h, Kept(m, r, lo, hi),
         \A k \in DOMAIN m.blocks :
           m.blocks[k].status = "allocated" /\ k # h => k \notin lo..hi - 1
  PROVE  Untouched(m, r, h)
  BY DEF Kept, Untouched

\* enlarge_heap_and_allocate hands out a new block, or refuses, or is undefined; it has at
\* most one node fewer.
LEMMA EnlargeGives ==
  ASSUME NEW m, Whole(m), m.top <= Arena, m.bad = FALSE, NEW size \in Nat, size >= 2,
         \A h \in Freeds(m) : SizeOf(m, h) < size, NEW r, r = Enlarge(m, size)
  PROVE  \/ Spoilt(r) /\ r.got = NULL
         \/ Refused(m, r)
         \/ Served(m, r, NULL, size) /\ r.top <= Arena /\ r.end <= m.end /\ m.end <= r.end + 1
  <1>1. /\ Tiled(m.blocks, m.top) /\ Wander(m.blocks) /\ Heap(m, Freeds(m))
        /\ Records(m) /\ m.end \in Nat /\ m.top \in Nat
    BY HeapIsRecords DEF Whole, Heap, Tiled
  <1>2. PICK last : last = PrevAvailable(m, m.top)
    OBVIOUS
  <1>3. PrevIs(m, m.top, last)
    BY <1>1, <1>2, PrevAvailableGives
  <1>3a. ASSUME last # NULL, NodeOf(m, last) # NOT_EXIST,
                NEW less, less = DeleteNode(m, NodeOf(m, last))
         PROVE  /\ last \in Freeds(m) /\ last \in Nat /\ last + SizeOf(m, last) = m.top
                /\ Deleted(m, less, Freeds(m) \ {last})
    <2>1. /\ last \in DOMAIN m.blocks /\ m.blocks[last].status # "allocated"
          /\ After(m, last) = m.top
      BY <1>3, <1>3a DEF PrevIs
    <2>2. m.blocks[last].status \in Statuses /\ last \in Nat
      BY <1>1, <2>1, SizeIsNat DEF Tiled
    <2>3. m.blocks[last].status # "wandering"
      BY <1>3a DEF NodeOf
    <2>4. last \in Freeds(m)
      BY <2>1, <2>2, <2>3 DEF Freeds, Statuses
    <2>5. PICK i : i = m.blocks[last].node
      OBVIOUS
    <2>6. less = DeleteNode(m, i)
      BY <1>3a, <2>3, <2>5 DEF NodeOf
    <2>7. /\ i \in 0..m.end - 1 /\ SizeOf(m, last) \in Nat
          /\ HeapBut(m, i, SizeOf(m, last), Freeds(m) \ {last})
      BY <1>1, <2>4, <2>5, WithoutOne
    <2>8. Deleted(m, less, Freeds(m) \ {last})
      BY <2>6, <2>7, DeleteNodeGives
    <2> QED BY <2>1, <2>2, <2>4, <2>8 DEF After
  <1>4. CASE last # NULL /\ NodeOf(m, last) = NOT_EXIST
    <2>1. r = Undefined(m, NULL)
      BY <1>2, <1>4 DEF Enlarge
    <2> QED BY <2>1, UndefinedIsSpoilt
  <1>5. CASE last = NULL /\ ~(m.top + size <= Arena)
    <2>2. r = [m EXCEPT !.got = NULL]
      BY <1>2, <1>5 DEF Enlarge
    <2>3. /\ Records(r) /\ r.blocks = m.blocks /\ r.tree = m.tree /\ r.end = m.end
          /\ r.got = NULL /\ r.top = m.top /\ SameVars(m, r)
      <3>1. r = [blocks |-> m.blocks, tree |-> m.tree, end |-> m.end, root |-> m.root,
                 cap |-> m.cap, top |-> m.top, got |-> NULL, bad |-> m.bad]
        BY <1>1, <2>2 DEF Records, Shape
      <3> QED BY <1>1, <3>1 DEF Records, Shape, SameVars
    <2>4. Freeds(r) = Freeds(m) /\ Freeds(m) \subseteq DOMAIN m.blocks
      BY <2>3 DEF Freeds
    <2>5. Heap(r, Freeds(m))
      BY <1>1, <2>3, <2>4, BlocksElsewhere DEF Heap
    <2>6. Whole(r) /\ Untouched(m, r, NULL)
      BY <1>1, <2>3, <2>4, <2>5 DEF Whole, Untouched
    <2> QED BY <2>3, <2>6 DEF Refused
  <1>6. CASE \/ last = NULL /\ m.top + size <= Arena
             \/ last # NULL /\ NodeOf(m, last) # NOT_EXIST /\ last + size <= Arena
    <2>1. PICK start, less :
            /\ start = IF last = NULL THEN m.top ELSE last
            /\ less = IF last = NULL THEN m ELSE DeleteNode(m, NodeOf(m, last))
      OBVIOUS
    <2>2. r = Allocate([less EXCEPT !.top = start + size], start, start + size, size, NOT_EXIST)
      BY <1>2, <1>6, <2>1 DEF Enlarge
    <2>3. PICK F : F = IF last = NULL THEN Freeds(m) ELSE Freeds(m) \ {last}
      OBVIOUS
    <2>4. /\ Heap(less, F) /\ SameRest(m, less) /\ SameLayout(m, less)
          /\ less.end = m.end \/ less.end + 1 = m.end
          /\ start \in Nat
          /\ \/ last = NULL /\ start = m.top
             \/ last # NULL /\ start = last /\ last \in Freeds(m) /\ start + SizeOf(m, last) = m.top
      <3>1. CASE last = NULL
        BY <1>1, <2>1, <2>3, <3>1 DEF SameRest, SameLayout
      <3>2. CASE last # NULL
        <4>1. /\ last \in Freeds(m) /\ last \in Nat /\ last + SizeOf(m, last) = m.top
              /\ Deleted(m, less, Freeds(m) \ {last})
          BY <1>3a, <1>6, <2>1, <3>2
        <4> QED BY <2>1, <2>3, <3>2, <4>1 DEF Deleted
      <3> QED BY <3>1, <3>2
    <2>5. PICK end \in Nat : end = start + size
      BY <2>4
    <2>6. /\ end <= Arena /\ start < end /\ m.top <= end
          /\ start = m.top \/ (start \in DOMAIN m.blocks /\ start + m.blocks[start].size = m.top)
      <3>1. CASE last = NULL
        BY <1>1, <1>6, <2>4, <2>5, <3>1
      <3>2. CASE last # NULL
        <4>1. last \in Freeds(m) /\ start = last /\ start + SizeOf(m, last) = m.top
          BY <2>4, <3>2
        <4>2. SizeOf(m, last) < size /\ SizeOf(m, last) \in Nat
          BY <1>1, <4>1, WithoutOne
        <4> QED BY <1>6, <2>4, <2>5, <3>2, <4>1, <4>2 DEF Freeds, SizeOf
      <3> QED BY <3>1, <3>2
    <2>7. PICK g : g = [less EXCEPT !.top = end]
      OBVIOUS
    <2>8. r = Allocate(g, start, end, size, NOT_EXIST)
      BY <2>2, <2>5, <2>7
    <2>9. Records(less)
      BY <2>4, HeapIsRecords DEF Heap
    <2>10. /\ Records(g) /\ g.blocks = less.blocks /\ g.tree = less.tree /\ g.end = less.end
           /\ g.top = end /\ g.root = m.root /\ g.cap = m.cap /\ g.bad = m.bad
      <3>1. g = [blocks |-> less.blocks, tree |-> less.tree, end |-> less.end,
                 root |-> less.root, cap |-> less.cap, top |-> end, got |-> less.got,
                 bad |-> less.bad]
        BY <2>7, <2>9 DEF Records, Shape
      <3> QED BY <2>4, <2>9, <3>1 DEF Records, Shape, SameRest
    <2>11. Tiled(g.blocks, m.top) /\ Wander(g.blocks) /\ Freeds(g) = Freeds(m)
      <3>1. SameLayout(m, g)
        BY <2>4, <2>10 DEF SameLayout
      <3> QED BY <1>1, <2>10, <3>1, SameLayoutKeeps
    <2>12. Around(g.blocks, m.top, start, end, g.top)
      <3>1. start = m.top \/ (start \in DOMAIN g.blocks /\ start + g.blocks[start].size = m.top)
        BY <2>4, <2>6, <2>10 DEF SameLayout
      <3> QED BY <2>6, <2>10, <2>11, <3>1, AroundEnd
    <2>13. \A k \in DOMAIN g.blocks : k \in start..end - 1 => last # NULL /\ k = last
      <3>1. ASSUME NEW k \in DOMAIN g.blocks, start <= k PROVE last # NULL /\ k = last
        <4>1. /\ k \in Nat /\ g.blocks[k].size \in Nat \ {0} /\ k + g.blocks[k].size <= m.top
          BY <2>11, SizeIsNat DEF Tiled
        <4>2. k < m.top
          BY <1>1, <4>1
        <4>3. last # NULL /\ start = last /\ last \in Freeds(m) /\ start + SizeOf(m, last) = m.top
          BY <2>4, <3>1, <4>1, <4>2
        <4>4. last \in DOMAIN g.blocks /\ last + g.blocks[last].size = m.top
          BY <2>4, <2>10, <4>3 DEF SameLayout, Freeds, SizeOf
        <4>5. last < k => m.top <= k
          BY <2>11, <4>4 DEF Tiled
        <4> QED BY <1>1, <2>4, <3>1, <4>1, <4>2, <4>3, <4>5
      <3> QED BY <3>1, <2>4, <2>5
    <2>14. F = {h \in Freeds(g) : h \notin start..end - 1}
      <3>1. F = {h \in Freeds(m) : h \notin start..end - 1}
        <4>1. \A h \in Freeds(m) : h \in DOMAIN g.blocks
          BY <2>4, <2>10 DEF Freeds, SameLayout
        <4>2. last # NULL => last \in start..end - 1
          BY <2>4, <2>5, <2>6
        <4> QED BY <2>3, <2>13, <4>1, <4>2
      <3> QED BY <2>11, <3>1
    <2>15. HeapBut(g, NOT_EXIST, 0, F)
      <3>1. F \subseteq DOMAIN g.blocks
        BY <2>4, <2>10, HeapNodes
      <3> QED BY <2>4, <2>10, <3>1, BlocksElsewhere DEF Heap
    <2>16. Allotted(g, r, start, end, size) /\ NodesLeft(g, r, NOT_EXIST, 0)
      <3>1. start + size + 0 = end /\ 0 \in Nat
        BY <2>4, <2>5
      <3> QED BY <2>8, <2>11, <2>12, <2>14, <2>15, <3>1, AllocateGives
    <2>17. r.end = less.end /\ r.top = end
      BY <2>10, <2>16 DEF NodesLeft, Allotted
    <2>18. \A k \in DOMAIN m.blocks : m.blocks[k].status = "allocated" =>
             k \in DOMAIN g.blocks /\ k \notin start..end - 1 /\ g.blocks[k].status = "allocated"
      <3>1. \A k \in DOMAIN m.blocks : k \in DOMAIN g.blocks /\ g.blocks[k].status = m.blocks[k].status
        BY <2>4, <2>10 DEF SameLayout
      <3>2. last # NULL => m.blocks[last].status # "allocated"
        BY <1>3 DEF PrevIs
      <3> QED BY <2>13, <3>1, <3>2
    <2>19. Untouched(m, r, NULL)
      BY <2>4, <2>10, <2>16, <2>18 DEF Untouched, Kept, Allotted, SameLayout
    <2>20. Fresh(m, r.got)
      <3>1. r.got = start /\ start \in start..end - 1
        BY <2>4, <2>6, <2>16 DEF Allotted
      <3> QED BY <2>18, <3>1 DEF Fresh
    <2>21. Served(m, r, NULL, size)
      BY <2>10, <2>16, <2>19, <2>20 DEF Served, Allotted, SameVars
    <2>22. less.end \in Nat
      BY <2>9 DEF Records
    <2>23. r.end <= m.end /\ m.end <= r.end + 1 /\ r.top <= Arena
      BY <1>1, <2>4, <2>6, <2>17, <2>22
    <2> QED BY <2>21, <2>23
  <1>7. CASE last # NULL /\ NodeOf(m, last) # NOT_EXIST /\ ~(last + size <= Arena)
    <2>1. PICK less : less = DeleteNode(m, NodeOf(m, last))
      OBVIOUS
    <2>2. r = Undefined(less, NULL)
      BY <1>2, <1>7, <2>1 DEF Enlarge
    <2> QED BY <2>2, UndefinedIsSpoilt
  <1> QED BY <1>4, <1>5, <1>6, <1>7

\* Rounding up to a multiple of eight adds at most seven.
LEMMA AlignGives ==
  ASSUME NEW n \in Nat
  PROVE  Align(n) \in Nat /\ n <= Align(n) /\ Align(n) <= n + 7
  BY DEF Align

\* A block has room for what was asked for, the header and a byte of footer.
LEMMA UnitsGives ==
  ASSUME NEW n \in Nat
  PROVE  Units(n) \in Nat /\ Units(n) >= 2 /\ Units(n) * 8 >= n + 8 + 1
  <1>1. PICK a \in Nat : a = (n + 16) \div 8
    OBVIOUS
  <1>2. a >= 2 /\ a * 8 >= n + 9
    BY <1>1
  <1>3. Align(n + 8 + 1) = a * 8
    <2>1. n + 8 + 1 + 7 = n + 16
      OBVIOUS
    <2> QED BY <1>1, <2>1 DEF Align
  <1>4. (a * 8) \div 8 = a
    OBVIOUS
  <1>5. Units(n) = a
    BY <1>3, <1>4 DEF Units
  <1> QED BY <1>2, <1>5

\* Two blocks do not share a unit.
LEMMA OneBlock ==
  ASSUME NEW b, NEW top, Tiled(b, top), NEW y \in DOMAIN b, NEW k \in DOMAIN b,
         k \in y..y + b[y].size - 1
  PROVE  k = y
  <1>1. y \in Nat /\ k \in Nat /\ b[y].size \in Nat
    BY SizeIsNat DEF Tiled
  <1>2. y < k => y + b[y].size <= k
    BY DEF Tiled
  <1> QED BY <1>1, <1>2

\* mm_malloc_only hands out a new block, or refuses, or is undefined; the heap grows only
\* when every freed block is too small.
LEMMA MallocOnlyGives ==
  ASSUME NEW m, Whole(m), m.top <= Arena, m.bad = FALSE, NEW n \in Nat,
         NEW r, r = MallocOnly(m, n)
  PROVE  \/ Spoilt(r) /\ r.got = NULL
         \/ Refused(m, r)
         \/ /\ Served(m, r, NULL, Units(n)) /\ r.top <= Arena
            /\ r.end <= m.end /\ m.end <= r.end + 1
            /\ r.top = m.top \/ \A b \in Freeds(m) : SizeOf(m, b) < Units(n)
  <1>1. /\ Tiled(m.blocks, m.top) /\ Wander(m.blocks) /\ Heap(m, Freeds(m))
        /\ Records(m) /\ m.end \in Nat /\ m.top \in Nat
    BY HeapIsRecords DEF Whole, Heap, Tiled
  <1>2. PICK size \in Nat : size = Units(n) /\ size >= 2
    BY UnitsGives
  <1>3. PICK i : i = FindSuitableNode(m, size)
    OBVIOUS
  <1>4. Found(m, size, Freeds(m), i)
    BY <1>1, <1>3, FindSuitableNodeGives
  <1>5. CASE i = NOT_EXIST
    <2>1. r = Enlarge(m, size)
      BY <1>2, <1>3, <1>5 DEF MallocOnly
    <2>2. \A h \in Freeds(m) : SizeOf(m, h) < size
      BY <1>1, <1>4, <1>5 DEF Found, NOT_EXIST
    <2> QED BY <1>2, <2>1, <2>2, EnlargeGives
  <1>6. CASE i # NOT_EXIST
    <2>1. i \in 0..m.end - 1 /\ NodeSize(m, i) >= size
      BY <1>4, <1>6 DEF Found
    <2>2. PICK h, hi : h = m.tree[i] /\ hi = After(m, h)
      OBVIOUS
    <2>3. h \in Freeds(m) /\ m.blocks[h].node = i
      BY <1>1, <2>1, <2>2, HeapNodes
    <2>4. /\ h \in DOMAIN m.blocks /\ m.blocks[h].status = "freed" /\ NodeOf(m, h) = i
          /\ h \in Nat /\ m.blocks[h].size \in Nat /\ hi = h + m.blocks[h].size
          /\ m.blocks[h].size >= size
      BY <1>1, <2>1, <2>2, <2>3, SizeIsNat DEF Freeds, Tiled, NodeOf, After, SizeOf, NodeSize
    <2>5. r = Allocate(m, h, hi, size, i)
      BY <1>2, <1>3, <1>6, <2>2, <2>4 DEF MallocOnly
    <2>6. Around(m.blocks, m.top, h, hi, m.top)
      <3>1. h <= h
        BY <2>4
      <3> QED BY <1>1, <2>4, <3>1, AroundBlocks
    <2>7. PICK rest \in Nat : h + size + rest = hi
      BY <2>4
    <2>8. PICK F : F = {k \in Freeds(m) : k \notin h..hi - 1}
      OBVIOUS
    <2>9. \A k \in DOMAIN m.blocks : k \in h..hi - 1 => k = h
      BY <1>1, <2>4, OneBlock
    <2>10. F = Freeds(m) \ {h}
      <3>1. h \in h..hi - 1
        BY <1>2, <2>4, <2>7
      <3> QED BY <2>8, <2>9, <3>1 DEF Freeds
    <2>11. SizeOf(m, h) \in Nat /\ HeapBut(m, i, SizeOf(m, h), F)
      <3>1. SizeOf(m, h) \in Nat /\ HeapBut(m, i, SizeOf(m, h), Freeds(m) \ {h})
        BY <1>1, <2>3, WithoutOne
      <3> QED BY <2>10, <3>1
    <2>12. Allotted(m, r, h, hi, size) /\ NodesLeft(m, r, i, rest)
      BY <1>1, <1>2, <1>6, <2>1, <2>5, <2>6, <2>7, <2>8, <2>11, AllocateGives
    <2>13. \A k \in DOMAIN m.blocks : m.blocks[k].status = "allocated" => k \notin h..hi - 1
      BY <2>4, <2>9
    <2>14. Untouched(m, r, NULL)
      BY <2>12, <2>13, KeptIsUntouched DEF Allotted
    <2>15. Served(m, r, NULL, size) /\ r.top = m.top
      BY <2>4, <2>12, <2>14 DEF Served, Allotted, SameVars, Fresh
    <2>16. r.end = m.end \/ r.end + 1 = m.end
      BY <1>6, <2>12 DEF NodesLeft
    <2>17. r.end \in Nat
      BY <2>15, HeapIsRecords DEF Served, Whole, Heap
    <2> QED BY <1>1, <1>2, <2>15, <2>16, <2>17
  <1> QED BY <1>5, <1>6

\* One freed block in the place of others.
LEMMA JoinedGives ==
  ASSUME NEW m, Records(m), Tiled(m.blocks, m.top), Wander(m.blocks),
         NEW lo, NEW hi, Around(m.blocks, m.top, lo, hi, m.top),
         NEW size \in Nat, size >= 2, lo + size = hi, NEW i \in Nat,
         NEW c, c = SetBlock(Cleared(m, lo, hi), lo, Block(size, "freed", i))
  PROVE  /\ OnlyBlocks(m, c) /\ Tiled(c.blocks, m.top) /\ Wander(c.blocks)
         /\ lo \in DOMAIN c.blocks /\ c.blocks[lo].size = size
         /\ \A k \in DOMAIN m.blocks :
              k \notin lo..hi - 1 => k \in DOMAIN c.blocks /\ c.blocks[k] = m.blocks[k]
         /\ Freeds(c) = {k \in Freeds(m) : k \notin lo..hi - 1} \cup {lo}
  <1>1. lo \in Nat /\ hi \in Nat /\ lo < hi /\ lo \in lo..hi - 1 /\ size # 1
    BY DEF Around
  <1>2. PICK f : f = Block(size, "freed", i)
    OBVIOUS
  <1>3. f \in BlockRecords /\ f.size = size /\ f.status = "freed"
    BY <1>1, <1>2 DEF Block, BlockRecords, Statuses
  <1>4. PICK d : d = Cleared(m, lo, hi)
    OBVIOUS
  <1>5. /\ OnlyBlocks(m, d)
        /\ DOMAIN d.blocks = {k \in DOMAIN m.blocks : k \notin lo..hi - 1}
        /\ \A k \in DOMAIN d.blocks : d.blocks[k] = m.blocks[k]
    BY <1>4, ClearedGives
  <1>6. Records(d) /\ c = SetBlock(d, lo, f)
    BY <1>2, <1>4, <1>5 DEF OnlyBlocks
  <1>7. /\ OnlyBlocks(d, c) /\ DOMAIN c.blocks = DOMAIN d.blocks \cup {lo}
        /\ c.blocks[lo] = f /\ \A k \in DOMAIN d.blocks \ {lo} : c.blocks[k] = d.blocks[k]
    BY <1>3, <1>6, SetBlockGives
  <1>8. OnlyBlocks(m, c)
    BY <1>5, <1>7, OnlyBlocksTrans
  <1>9. \A k \in DOMAIN m.blocks :
          k \notin lo..hi - 1 => k \in DOMAIN c.blocks /\ c.blocks[k] = m.blocks[k]
    BY <1>1, <1>5, <1>7
  <1>10. Recut(m.blocks, lo, hi, c.blocks, {lo})
    <2>1. DOMAIN c.blocks = {k \in DOMAIN m.blocks : k \notin lo..hi - 1} \cup {lo}
      BY <1>5, <1>7
    <2>2. c.blocks \in [DOMAIN c.blocks -> BlockRecords]
      BY <1>8 DEF OnlyBlocks, Records
    <2>3. lo + c.blocks[lo].size = hi
      BY <1>3, <1>7
    <2> QED BY <1>1, <1>9, <2>1, <2>2, <2>3 DEF Recut
  <1>11. Tiled(c.blocks, m.top)
    BY <1>10, RecutIsTiled
  <1>12. Wander(c.blocks)
    <2>1. ASSUME NEW k \in DOMAIN c.blocks
          PROVE  c.blocks[k].status = "wandering" <=> c.blocks[k].size = 1
      <3>1. CASE k = lo
        BY <1>1, <1>3, <1>7, <3>1
      <3>2. CASE k # lo
        BY <1>5, <1>7, <3>2 DEF Wander
      <3> QED BY <3>1, <3>2
    <2> QED BY <2>1 DEF Wander
  <1>13. Freeds(c) = {k \in Freeds(m) : k \notin lo..hi - 1} \cup {lo}
    BY <1>1, <1>3, <1>5, <1>7 DEF Freeds
  <1> QED BY <1>3, <1>7, <1>8, <1>9, <1>11, <1>12, <1>13

\* The nodes of the neighbours: none, one, or two of which the lower is kept.
LEMMA LowerNode ==
  ASSUME NEW x \in Nat, NEW y \in Nat, x < y
  PROVE  /\ Cardinality({x, y}) = 2
         /\ (CHOOSE n \in {x, y} : \A k \in {x, y} : n <= k) = x
         /\ (CHOOSE n \in {x, y} : n # x) = y
  <1>1. Cardinality({x, y}) = 2
    <2>1. IsFiniteSet({x}) /\ Cardinality({x}) = 1
      BY FS_Singleton
    <2>2. Cardinality({x} \cup {y}) = Cardinality({x}) + 1
      BY <2>1, FS_AddElement
    <2>3. {x} \cup {y} = {x, y}
      OBVIOUS
    <2> QED BY <2>1, <2>2, <2>3
  <1>2. (CHOOSE n \in {x, y} : \A k \in {x, y} : n <= k) = x
    <2>1. PICK c : c = CHOOSE n \in {x, y} : \A k \in {x, y} : n <= k
      OBVIOUS
    <2>2. \E n \in {x, y} : \A k \in {x, y} : n <= k
      OBVIOUS
    <2>3. c \in {x, y} /\ \A k \in {x, y} : c <= k
      BY <2>1, <2>2
    <2>4. c <= x
      BY <2>3
    <2>5. c = x
      BY <2>3, <2>4
    <2> QED BY <2>1, <2>5
  <1>3. (CHOOSE n \in {x, y} : n # x) = y
    <2>1. PICK c : c = CHOOSE n \in {x, y} : n # x
      OBVIOUS
    <2>2. \E n \in {x, y} : n # x
      OBVIOUS
    <2>3. c \in {x, y} /\ c # x
      BY <2>1, <2>2
    <2> QED BY <2>1, <2>3
  <1> QED BY <1>1, <1>2, <1>3

\* The least of one number is that number.
LEMMA OneNode ==
  ASSUME NEW x \in Nat
  PROVE  Cardinality({x}) = 1 /\ (CHOOSE n \in {x} : \A k \in {x} : n <= k) = x
  <1>1. Cardinality({x}) = 1
    BY FS_Singleton
  <1>2. (CHOOSE n \in {x} : \A k \in {x} : n <= k) = x
    <2>1. PICK c : c = CHOOSE n \in {x} : \A k \in {x} : n <= k
      OBVIOUS
    <2>2. \E n \in {x} : \A k \in {x} : n <= k
      OBVIOUS
    <2>3. c \in {x}
      BY <2>1, <2>2
    <2> QED BY <2>1, <2>3
  <1> QED BY <1>1, <1>2

\* A block h with the neighbours prev and next, if there are such.
SizeIf(m, b) == IF b = NULL THEN 0 ELSE SizeOf(m, b)

Spans(m, prev, h, next, lo, hi) ==
  /\ Around(m.blocks, m.top, lo, hi, m.top)
  /\ SizeIf(m, prev) \in Nat /\ SizeIf(m, next) \in Nat /\ SizeOf(m, h) \in Nat
  /\ lo + SizeIf(m, prev) + SizeOf(m, h) + SizeIf(m, next) = hi
  /\ \A k \in DOMAIN m.blocks : k \in lo..hi - 1 => k = h \/ k = prev \/ k = next
  /\ lo \in lo..hi - 1 /\ h \in lo..hi - 1 /\ prev # h /\ next # h
  /\ prev # NULL => prev \in lo..hi - 1 /\ prev # next /\ prev \in DOMAIN m.blocks
  /\ next # NULL => next \in lo..hi - 1 /\ next \in DOMAIN m.blocks

\* A block and its available neighbours are the blocks of a region.
LEMMA SpanGives ==
  ASSUME NEW m, Tiled(m.blocks, m.top), NEW h \in DOMAIN m.blocks,
         NEW prev, PrevIs(m, h, prev), NEW next, NextIs(m, h, next),
         NEW lo, lo = IF prev = NULL THEN h ELSE prev,
         NEW hi, hi = IF next = NULL THEN After(m, h) ELSE After(m, next)
  PROVE  Spans(m, prev, h, next, lo, hi)
  <1>1. \A k \in DOMAIN m.blocks : k \in Nat /\ m.blocks[k].size \in Nat \ {0}
    BY SizeIsNat DEF Tiled
  <1>2. NULL \notin Nat /\ NULL \notin DOMAIN m.blocks
    BY <1>1 DEF NULL
  <1>3. PICK y : y = IF next = NULL THEN h ELSE next
    OBVIOUS
  <1>4. /\ prev # NULL => /\ prev \in DOMAIN m.blocks /\ prev + m.blocks[prev].size = h
                          /\ prev < h
        /\ next # NULL => /\ next \in DOMAIN m.blocks /\ h + m.blocks[h].size = next
                          /\ h < next
    BY <1>1 DEF PrevIs, NextIs, After, SizeOf
  <1>5. /\ lo \in DOMAIN m.blocks /\ y \in DOMAIN m.blocks /\ lo <= y
        /\ hi = y + m.blocks[y].size
    BY <1>1, <1>3, <1>4 DEF After, SizeOf
  <1>6. Around(m.blocks, m.top, lo, hi, m.top) /\ y < hi
    BY <1>5, AroundBlocks
  <1>7. /\ SizeIf(m, prev) \in Nat /\ SizeIf(m, next) \in Nat /\ SizeOf(m, h) \in Nat
        /\ lo + SizeIf(m, prev) + SizeOf(m, h) + SizeIf(m, next) = hi
    <2>1. PICK a \in Nat, b \in Nat, c \in Nat :
            /\ a = SizeIf(m, prev) /\ b = SizeOf(m, h) /\ c = SizeIf(m, next)
      BY <1>1, <1>4 DEF SizeIf, SizeOf
    <2>2. lo + a = h
      BY <1>1, <1>4, <2>1 DEF SizeIf, SizeOf
    <2>3. h + b + c = hi
      BY <1>1, <1>3, <1>4, <1>5, <2>1 DEF SizeIf, SizeOf
    <2>4. lo \in Nat /\ h \in Nat
      BY <1>1, <1>5
    <2>5. lo + a + b + c = hi
      BY <2>2, <2>3, <2>4
    <2> QED BY <2>1, <2>5
  <1>8. ASSUME NEW k \in DOMAIN m.blocks, k \in lo..hi - 1
        PROVE  k = h \/ k = prev \/ k = next
    <2>1. k \in Nat /\ h \in Nat /\ m.blocks[h].size \in Nat
      BY <1>1
    <2>2. CASE k < h
      <3>1. prev # NULL /\ lo = prev
        <4>1. lo \in Nat /\ lo <= k
          BY <1>1, <1>5, <1>8
        <4>2. lo # h
          BY <2>1, <2>2, <4>1
        <4> QED BY <4>2
      <3>2. prev \in Nat /\ m.blocks[prev].size \in Nat /\ prev + m.blocks[prev].size = h
        BY <1>1, <1>4, <3>1
      <3>3. k \in prev..prev + m.blocks[prev].size - 1
        BY <1>8, <2>1, <2>2, <3>1, <3>2
      <3> QED BY <1>4, <3>1, <3>3, OneBlock
    <2>3. CASE h <= k /\ k < h + m.blocks[h].size
      <3>1. k \in h..h + m.blocks[h].size - 1
        BY <2>1, <2>3
      <3> QED BY <3>1, OneBlock
    <2>4. CASE h + m.blocks[h].size <= k
      <3>1. next # NULL /\ y = next
        BY <1>3, <1>5, <1>8, <2>1, <2>4
      <3>2. next \in Nat /\ m.blocks[next].size \in Nat /\ next <= k
            /\ hi = next + m.blocks[next].size
        BY <1>1, <1>4, <1>5, <2>4, <3>1
      <3>3. k \in next..next + m.blocks[next].size - 1
        BY <1>8, <2>1, <3>2
      <3> QED BY <1>4, <3>1, <3>3, OneBlock
    <2> QED BY <2>1, <2>2, <2>3, <2>4
  <1>9. /\ lo \in Nat /\ y \in Nat /\ h \in Nat /\ hi \in Nat /\ lo <= h /\ h <= y /\ y < hi
    BY <1>1, <1>3, <1>4, <1>5, <1>6
  <1>10. /\ lo \in lo..hi - 1 /\ h \in lo..hi - 1 /\ prev # h /\ next # h
    BY <1>1, <1>2, <1>4, <1>9
  <1>11. /\ prev # NULL => prev \in lo..hi - 1 /\ prev # next /\ prev \in DOMAIN m.blocks
         /\ next # NULL => next \in lo..hi - 1 /\ next \in DOMAIN m.blocks
    BY <1>1, <1>2, <1>3, <1>4, <1>9
  <1> QED BY <1>6, <1>7, <1>8, <1>10, <1>11 DEF Spans

\* The nodes of the neighbours prev and next, i that of the block they become,
\* of n nodes, and j the one to delete.
Joins(m, prev, next, size, nodes, i, n, j) ==
  /\ i \in Nat /\ n \in Nat /\ i \in 0..n - 1
  /\ Indexed(m, (0..m.end - 1) \ nodes, Freeds(m) \ {prev, next})
  /\ i \notin (0..m.end - 1) \ nodes
  /\ ((0..m.end - 1) \ nodes) \cup {i} = (0..n - 1) \ {j}
  /\ i < m.end => NodeSize(m, i) <= size
  /\ j # NOT_EXIST => j \in 0..m.end - 1 /\ i < j /\ n = m.end
  /\ Cardinality(nodes) < 2 <=> j = NOT_EXIST
  /\ j # NOT_EXIST => j = CHOOSE k \in nodes : k # i
  /\ i = IF nodes = {} THEN m.end ELSE CHOOSE k \in nodes : \A l \in nodes : k <= l
  /\ n = IF nodes = {} THEN m.end + 1 ELSE m.end

\* The nodes of the neighbours, and the one the joined block gets.
LEMMA JoinsGives ==
  ASSUME NEW m, Whole(m), NEW h, NEW prev, PrevIs(m, h, prev), NEW next, NextIs(m, h, next),
         prev # NULL => prev # next, NEW size \in Nat,
         SizeIf(m, prev) <= size, SizeIf(m, next) <= size,
         NEW nodes, nodes = {NodeOf(m, b) : b \in {prev, next} \ {NULL}} \ {NOT_EXIST}
  PROVE  \E i, n, j : Joins(m, prev, next, size, nodes, i, n, j)
  <1>1. /\ Tiled(m.blocks, m.top) /\ Heap(m, Freeds(m)) /\ Typed(m) /\ Records(m)
        /\ m.end \in Nat /\ NOT_EXIST \notin Nat /\ NULL \notin DOMAIN m.blocks
        /\ \A k \in 0..m.end - 1 : m.tree[k] \in Freeds(m) /\ m.blocks[m.tree[k]].node = k
        /\ \A b \in Freeds(m) : /\ m.blocks[b].node \in 0..m.end - 1
                                /\ m.tree[m.blocks[b].node] = b
    BY HeapIsRecords, HeapNodes DEF Whole, Heap, Tiled, NOT_EXIST, NULL
  <1>2. ASSUME NEW b, b = prev \/ b = next, b # NULL
        PROVE  \/ b \in Freeds(m) /\ NodeOf(m, b) = m.blocks[b].node
               \/ b \notin Freeds(m) /\ NodeOf(m, b) = NOT_EXIST
    <2>1. b \in DOMAIN m.blocks /\ m.blocks[b].status # "allocated"
      BY <1>2 DEF PrevIs, NextIs
    <2>2. m.blocks[b].status \in Statuses
      BY <1>1, <2>1, SizeIsNat DEF Tiled
    <2> QED BY <2>1, <2>2 DEF Freeds, NodeOf, Statuses
  <1>3. Freeds(m) \subseteq DOMAIN m.blocks /\ NULL \notin Freeds(m)
    BY <1>1 DEF Freeds
  <1>4. \A k : k \in nodes <=> \/ prev \in Freeds(m) /\ k = m.blocks[prev].node
                               \/ next \in Freeds(m) /\ k = m.blocks[next].node
    <2>1. ASSUME NEW k \in nodes
          PROVE  \/ prev \in Freeds(m) /\ k = m.blocks[prev].node
                 \/ next \in Freeds(m) /\ k = m.blocks[next].node
      <3>1. PICK b \in {prev, next} \ {NULL} : k = NodeOf(m, b)
        BY <2>1
      <3>2. k # NOT_EXIST
        BY <2>1
      <3> QED BY <1>2, <3>1, <3>2
    <2>2. ASSUME NEW b \in Freeds(m), b = prev \/ b = next PROVE m.blocks[b].node \in nodes
      <3>1. b # NULL /\ b \in {prev, next} \ {NULL}
        BY <1>3, <2>2
      <3>2. NodeOf(m, b) = m.blocks[b].node
        BY <1>2, <2>2, <3>1
      <3>3. m.blocks[b].node # NOT_EXIST
        BY <1>1, <2>2
      <3> QED BY <3>1, <3>2, <3>3
    <2> QED BY <2>1, <2>2
  <1>5. PICK P : P = (0..m.end - 1) \ nodes
    OBVIOUS
  <1>6. Indexed(m, P, Freeds(m) \ {prev, next})
    <2>1. ASSUME NEW k \in P
          PROVE  m.tree[k] \in Freeds(m) \ {prev, next} /\ m.blocks[m.tree[k]].node = k
      BY <1>1, <1>4, <1>5, <2>1
    <2>2. ASSUME NEW b \in Freeds(m) \ {prev, next}
          PROVE  m.blocks[b].node \in P /\ m.tree[m.blocks[b].node] = b
      BY <1>1, <1>4, <1>5, <2>2
    <2>3. P \subseteq Nat /\ P \subseteq DOMAIN m.tree
      BY <1>1, <1>5 DEF Typed
    <2>4. Freeds(m) \ {prev, next} \subseteq DOMAIN m.blocks
      BY <1>3
    <2> QED BY <1>1, <2>1, <2>2, <2>3, <2>4 DEF Indexed, Indexes
  <1>7. ASSUME NEW b \in Freeds(m), b = prev \/ b = next, NEW k, k = m.blocks[b].node
        PROVE  k \in 0..m.end - 1 /\ NodeSize(m, k) <= size
    <2>1. k \in 0..m.end - 1 /\ m.tree[k] = b
      BY <1>1, <1>7
    <2>2. NodeSize(m, k) = SizeIf(m, b)
      BY <1>3, <1>7, <2>1 DEF NodeSize, SizeIf
    <2> QED BY <1>7, <2>1, <2>2
  <1>8. CASE prev \notin Freeds(m) /\ next \notin Freeds(m)
    <2>1. nodes = {}
      BY <1>4, <1>8
    <2>2. PICK i, n, j : i = m.end /\ n = m.end + 1 /\ j = NOT_EXIST
      OBVIOUS
    <2>3. /\ i \in Nat /\ n \in Nat /\ i \in 0..n - 1 /\ i \notin P /\ P \cup {i} = (0..n - 1) \ {j}
      BY <1>1, <1>5, <2>1, <2>2 DEF NOT_EXIST
    <2>4. Cardinality(nodes) < 2
      BY <2>1, FS_EmptySet
    <2>5. ~(i < m.end)
      BY <1>1, <2>2
    <2>6. Joins(m, prev, next, size, nodes, i, n, j)
      BY <1>5, <1>6, <2>1, <2>2, <2>3, <2>4, <2>5 DEF Joins
    <2> QED BY <2>6
  <1>9. ASSUME NEW a \in Freeds(m), a = prev \/ a = next,
               nodes = {m.blocks[a].node}
        PROVE  \E i, n, j : Joins(m, prev, next, size, nodes, i, n, j)
    <2>1. PICK i, n, j : i = m.blocks[a].node /\ n = m.end /\ j = NOT_EXIST
      OBVIOUS
    <2>2. i \in 0..m.end - 1 /\ NodeSize(m, i) <= size /\ nodes = {i}
      BY <1>7, <1>9, <2>1
    <2>3. /\ i \in Nat /\ n \in Nat /\ i \in 0..n - 1 /\ i \notin P /\ P \cup {i} = (0..n - 1) \ {j}
      BY <1>1, <1>5, <2>1, <2>2 DEF NOT_EXIST
    <2>4. Cardinality(nodes) < 2 /\ i = CHOOSE k \in nodes : \A l \in nodes : k <= l
      BY <2>2, <2>3, OneNode
    <2>5. nodes # {}
      BY <2>2
    <2>6. Joins(m, prev, next, size, nodes, i, n, j)
      BY <1>5, <1>6, <2>1, <2>2, <2>3, <2>4, <2>5 DEF Joins
    <2> QED BY <2>6
  <1>10. CASE prev \in Freeds(m) /\ next \notin Freeds(m)
    <2>1. nodes = {m.blocks[prev].node}
      BY <1>4, <1>10
    <2> QED BY <1>9, <1>10, <2>1
  <1>11. CASE prev \notin Freeds(m) /\ next \in Freeds(m)
    <2>1. nodes = {m.blocks[next].node}
      BY <1>4, <1>11
    <2> QED BY <1>9, <1>11, <2>1
  <1>12. CASE prev \in Freeds(m) /\ next \in Freeds(m)
    <2>1. prev # next
      BY <1>3, <1>12
    <2>2. PICK x, y : x = m.blocks[prev].node /\ y = m.blocks[next].node
      OBVIOUS
    <2>3. /\ x \in 0..m.end - 1 /\ y \in 0..m.end - 1 /\ NodeSize(m, x) <= size
          /\ NodeSize(m, y) <= size
      BY <1>7, <1>12, <2>2
    <2>4. x # y /\ nodes = {x, y} /\ x \in Nat /\ y \in Nat
      BY <1>1, <1>4, <1>12, <2>1, <2>2, <2>3
    <2>5. ASSUME NEW i, NEW j, i \in {x, y}, j \in {x, y}, i < j
          PROVE  \E n : Joins(m, prev, next, size, nodes, i, n, j)
      <3>1. /\ i \in 0..m.end - 1 /\ j \in 0..m.end - 1 /\ i \in Nat /\ j \in Nat
            /\ nodes = {i, j} /\ NodeSize(m, i) <= size
        BY <2>3, <2>4, <2>5
      <3>2. PICK n : n = m.end
        OBVIOUS
      <3>3. /\ n \in Nat /\ i \in 0..n - 1 /\ i \notin P /\ P \cup {i} = (0..n - 1) \ {j}
        BY <1>1, <1>5, <2>5, <3>1, <3>2
      <3>4. /\ Cardinality(nodes) = 2 /\ i = CHOOSE k \in nodes : \A l \in nodes : k <= l
            /\ j = CHOOSE k \in nodes : k # i
        <4>1. /\ Cardinality({i, j}) = 2
              /\ (CHOOSE k \in {i, j} : \A l \in {i, j} : k <= l) = i
              /\ (CHOOSE k \in {i, j} : k # i) = j
          BY <2>5, <3>1, LowerNode
        <4> QED BY <3>1, <4>1
      <3>5. nodes # {} /\ j # NOT_EXIST /\ ~(Cardinality(nodes) < 2)
        BY <1>1, <3>1, <3>4
      <3>6. Joins(m, prev, next, size, nodes, i, n, j)
        BY <1>5, <1>6, <2>5, <3>1, <3>2, <3>3, <3>4, <3>5 DEF Joins
      <3> QED BY <3>6
    <2>6. CASE x < y
      BY <2>5, <2>6
    <2>7. CASE y < x
      BY <2>5, <2>7
    <2>8. x < y \/ y < x
      BY <2>4
    <2> QED BY <2>6, <2>7, <2>8
  <1> QED BY <1>8, <1>10, <1>11, <1>12

\* What FreeOnly promises: the block h is gone, the other ones are not touched.
Released(m, r, h) ==
  /\ Whole(r) /\ SameVars(m, r) /\ r.got = m.got /\ r.top = m.top /\ Untouched(m, r, h)
  /\ r.end <= m.end + 1 /\ m.end <= r.end + 1

\* mm_free_only: the block is freed and joined with its neighbours.
LEMMA FreeOnlyGives ==
  ASSUME NEW m, Whole(m), NEW h \in DOMAIN m.blocks, m.blocks[h].status = "allocated",
         NEW r, r = FreeOnly(m, h)
  PROVE  Released(m, r, h)
  <1>1. /\ Tiled(m.blocks, m.top) /\ Wander(m.blocks) /\ Heap(m, Freeds(m))
        /\ Records(m) /\ Typed(m) /\ m.end \in Nat /\ NOT_EXIST \notin Nat
    BY HeapIsRecords DEF Whole, Heap, NOT_EXIST
  <1>2. PICK prev, next : prev = PrevAvailable(m, h) /\ next = NextAvailable(m, h)
    OBVIOUS
  <1>3. PrevIs(m, h, prev) /\ NextIs(m, h, next)
    BY <1>1, <1>2, PrevAvailableGives, NextAvailableGives
  <1>4. PICK lo, hi : /\ lo = IF prev = NULL THEN h ELSE prev
                      /\ hi = IF next = NULL THEN After(m, h) ELSE After(m, next)
    OBVIOUS
  <1>5. Spans(m, prev, h, next, lo, hi)
    BY <1>1, <1>3, <1>4, SpanGives
  <1>6. PICK size \in Nat : size = hi - lo /\ lo + size = hi /\ lo \in Nat
    BY <1>5 DEF Spans, Around
  <1>7. /\ Around(m.blocks, m.top, lo, hi, m.top)
        /\ size >= 2 /\ SizeIf(m, prev) <= size /\ SizeIf(m, next) <= size
    <2>1. SizeOf(m, h) # 1 /\ SizeOf(m, h) # 0
      BY <1>1, SizeIsNat DEF Wander, SizeOf, Tiled
    <2>2. PICK a \in Nat, b \in Nat, c \in Nat :
            a = SizeIf(m, prev) /\ b = SizeOf(m, h) /\ c = SizeIf(m, next)
      BY <1>5 DEF Spans
    <2>3. lo + a + b + c = hi
      BY <1>5, <2>2 DEF Spans
    <2>4. a + b + c = size /\ b # 0 /\ b # 1
      BY <1>6, <2>1, <2>2, <2>3
    <2>5. size >= 2 /\ a <= size /\ c <= size
      BY <2>4
    <2>6. Around(m.blocks, m.top, lo, hi, m.top)
      BY <1>5 DEF Spans
    <2> QED BY <2>2, <2>5, <2>6
  <1>8. PICK nodes : nodes = {NodeOf(m, b) : b \in {prev, next} \ {NULL}} \ {NOT_EXIST}
    OBVIOUS
  <1>9. PICK i, n, j : Joins(m, prev, next, size, nodes, i, n, j)
    <2>1. prev # NULL => prev # next
      BY <1>5 DEF Spans
    <2> QED BY <1>1, <1>3, <1>7, <1>8, <2>1, JoinsGives
  <1>10. PICK P, F : P = (0..m.end - 1) \ nodes /\ F = Freeds(m) \ {prev, next}
    OBVIOUS
  <1>11. /\ i \in Nat /\ n \in Nat /\ i \in 0..n - 1 /\ Indexed(m, P, F) /\ i \notin P
         /\ P \cup {i} = (0..n - 1) \ {j} /\ (i < m.end => NodeSize(m, i) <= size)
         /\ j # NOT_EXIST => j \in 0..m.end - 1 /\ i < j /\ n = m.end
         /\ n = IF nodes = {} THEN m.end + 1 ELSE m.end
    BY <1>9, <1>10 DEF Joins
  <1>12. PICK g : g = [m EXCEPT !.end = IF nodes = {} THEN @ + 1 ELSE @]
    OBVIOUS
  <1>13. /\ Records(g) /\ g.blocks = m.blocks /\ g.tree = m.tree /\ g.end = n /\ SameRest(m, g)
    <2>1. g = [blocks |-> m.blocks, tree |-> m.tree, end |-> n, root |-> m.root,
               cap |-> m.cap, top |-> m.top, got |-> m.got, bad |-> m.bad]
      BY <1>1, <1>11, <1>12 DEF Records, Shape
    <2> QED BY <1>1, <1>11, <2>1 DEF Records, Shape, SameRest
  <1>14. PICK c, q, e : /\ c = SetBlock(Cleared(g, lo, hi), lo, Block(size, "freed", i))
                        /\ q = SetNode(c, i, lo) /\ e = Emerge(q, i)
    OBVIOUS
  <1>15. r = IF j = NOT_EXIST THEN e ELSE DeleteNode(e, j)
    <2>1. /\ Cardinality(nodes) < 2 <=> j = NOT_EXIST
          /\ j # NOT_EXIST => j = CHOOSE k \in nodes : k # i
          /\ i = IF nodes = {} THEN m.end ELSE CHOOSE k \in nodes : \A l \in nodes : k <= l
      BY <1>9 DEF Joins
    <2>2. r = IF Cardinality(nodes) < 2 THEN e ELSE DeleteNode(e, CHOOSE k \in nodes : k # i)
      BY <1>2, <1>4, <1>6, <1>8, <1>12, <1>14, <2>1 DEF FreeOnly
    <2> QED BY <2>1, <2>2
  <1>16. F = {k \in Freeds(m) : k \notin lo..hi - 1}
    <2>1. \A k \in DOMAIN m.blocks : k \in lo..hi - 1 => k = h \/ k = prev \/ k = next
      BY <1>5 DEF Spans
    <2>2. h \notin Freeds(m)
      BY DEF Freeds
    <2>3. \A k \in Freeds(m) : k = prev \/ k = next => k \in lo..hi - 1
      <3>1. NULL \notin Freeds(m)
        BY <1>1 DEF Freeds, Tiled, NULL
      <3> QED BY <1>5, <3>1 DEF Spans
    <2> QED BY <1>10, <2>1, <2>2, <2>3 DEF Freeds
  <1>17. /\ OnlyBlocks(g, c) /\ Tiled(c.blocks, m.top) /\ Wander(c.blocks)
         /\ lo \in DOMAIN c.blocks /\ c.blocks[lo].size = size
         /\ \A k \in DOMAIN m.blocks :
              k \notin lo..hi - 1 => k \in DOMAIN c.blocks /\ c.blocks[k] = m.blocks[k]
         /\ Freeds(c) = F \cup {lo}
    <2>1. /\ Records(g) /\ Tiled(g.blocks, g.top) /\ Wander(g.blocks) /\ g.top = m.top
          /\ Around(g.blocks, g.top, lo, hi, g.top)
      BY <1>1, <1>7, <1>13 DEF SameRest
    <2>2. /\ OnlyBlocks(g, c) /\ Tiled(c.blocks, g.top) /\ Wander(c.blocks)
          /\ lo \in DOMAIN c.blocks /\ c.blocks[lo].size = size
          /\ \A k \in DOMAIN g.blocks :
               k \notin lo..hi - 1 => k \in DOMAIN c.blocks /\ c.blocks[k] = g.blocks[k]
          /\ Freeds(c) = {k \in Freeds(g) : k \notin lo..hi - 1} \cup {lo}
      BY <1>6, <1>7, <1>11, <1>14, <2>1, JoinedGives
    <2>3. Freeds(g) = Freeds(m)
      BY <1>13 DEF Freeds
    <2> QED BY <1>13, <1>16, <2>1, <2>2, <2>3
  <1>18. Records(c) /\ c.tree = m.tree /\ c.end = n /\ SameRest(m, c)
    BY <1>13, <1>17 DEF OnlyBlocks, SameRest
  <1>19. F \subseteq DOMAIN c.blocks /\ lo \notin F /\ \A k \in F : c.blocks[k] = m.blocks[k]
    <2>1. \A k \in F : k \in DOMAIN m.blocks /\ k \notin lo..hi - 1
      BY <1>16 DEF Freeds
    <2>2. lo \in lo..hi - 1
      BY <1>5 DEF Spans
    <2> QED BY <1>17, <2>1, <2>2
  <1>20. /\ \A k \in P : m.tree[k] \in F /\ m.blocks[m.tree[k]].node = k /\ k \in DOMAIN m.tree
         /\ \A b \in F : m.blocks[b].node \in P /\ m.tree[m.blocks[b].node] = b
         /\ P \subseteq Nat /\ P \subseteq DOMAIN m.tree
    BY <1>11 DEF Indexed, Indexes
  <1>21. Indexed(c, P, F)
    <2>1. \A k \in P : c.tree[k] \in F /\ c.blocks[c.tree[k]].node = k
      BY <1>18, <1>19, <1>20
    <2>2. \A b \in F : c.blocks[b].node \in P /\ c.tree[c.blocks[b].node] = b
      BY <1>18, <1>19, <1>20
    <2>3. P \subseteq Nat /\ P \subseteq DOMAIN c.tree
      BY <1>18, <1>20
    <2> QED BY <1>18, <1>19, <2>1, <2>2, <2>3 DEF Indexed, Indexes
  <1>22. Indexed(q, P \cup {i}, F \cup {lo}) /\ Pointed(c, q, i, lo)
    BY <1>11, <1>14, <1>17, <1>19, <1>21, PointedNode
  <1>23. /\ SameRest(c, q) /\ SameLayout(c, q) /\ q.end = n
         /\ DOMAIN q.tree = DOMAIN m.tree \cup {i}
         /\ q.tree[i] = lo /\ \A k \in DOMAIN m.tree \ {i} : q.tree[k] = m.tree[k]
    BY <1>18, <1>22 DEF Pointed
  <1>24. Typed(q) /\ Nodes(q, j, F \cup {lo})
    <2>1. 0..n - 1 \subseteq DOMAIN q.tree
      <3>1. 0..m.end - 1 \subseteq DOMAIN m.tree
        BY <1>1 DEF Typed
      <3>2. CASE nodes = {}
        <4>1. n = m.end + 1 /\ i = m.end
          BY <1>9, <1>11, <3>2 DEF Joins
        <4>2. \A k \in 0..n - 1 : k = i \/ k \in 0..m.end - 1
          BY <1>1, <4>1
        <4> QED BY <1>23, <3>1, <4>2
      <3>3. CASE nodes # {}
        BY <1>11, <1>23, <3>1, <3>3
      <3> QED BY <3>2, <3>3
    <2>2. Records(q)
      BY <1>22 DEF Indexed
    <2> QED BY <1>11, <1>22, <1>23, <2>1, <2>2 DEF Nodes, Typed
  <1>25. /\ \A k \in 0..m.end - 1 : NodeSize(m, k) \in Nat
         /\ Nodes(m, NOT_EXIST, Freeds(m))
    BY <1>1, HeapNodes DEF Heap, HeapBut
  <1>26. PICK w \in Nat : w = IF j = NOT_EXIST THEN 0 ELSE NodeSize(m, j)
    BY <1>11, <1>25
  <1>27. PICK K, L : K = Keys(m, NOT_EXIST, 0) /\ L = Keys(q, j, w)
    OBVIOUS
  <1>28. /\ K \in [0..m.end - 1 -> Nat] /\ Ordered(K, m.end)
         /\ \A k \in 0..m.end - 1 : K[k] = NodeSize(m, k)
    BY <1>1, <1>25, <1>27, KeysType DEF Heap, HeapBut
  <1>29. /\ L \in [0..n - 1 -> Nat]
         /\ \A k \in 0..n - 1 : L[k] = IF k = j THEN w ELSE NodeSize(q, k)
    <2>1. L \in [0..q.end - 1 -> Nat]
      BY <1>24, <1>27, KeysType
    <2>2. \A k \in 0..q.end - 1 : L[k] = IF k = j THEN w ELSE NodeSize(q, k)
      BY <1>27 DEF Keys
    <2> QED BY <1>23, <2>1, <2>2
  <1>30. ASSUME NEW k \in 0..n - 1, k # i PROVE k < m.end /\ L[k] = K[k]
    <2>1. CASE k = j
      <3>1. j # NOT_EXIST /\ j \in 0..m.end - 1
        BY <1>1, <1>11, <1>30, <2>1
      <3> QED BY <1>1, <1>26, <1>28, <1>29, <1>30, <2>1, <3>1
    <2>2. CASE k # j
      <3>1. k \in P /\ k \in 0..m.end - 1 /\ k < m.end
        BY <1>1, <1>10, <1>11, <1>30, <2>2
      <3>2. q.tree[k] = m.tree[k] /\ m.tree[k] \in F
        BY <1>20, <1>23, <1>30, <3>1
      <3>3. NodeSize(q, k) = NodeSize(m, k)
        BY <1>19, <1>23, <3>2 DEF NodeSize, SizeOf, SameLayout
      <3> QED BY <1>28, <1>29, <1>30, <2>2, <3>1, <3>3
    <2> QED BY <2>1, <2>2
  <1>31. i < m.end => K[i] <= L[i]
    <2>1. i # j
      BY <1>1, <1>11
    <2>2. L[i] = size
      <3>1. NodeSize(q, i) = size
        BY <1>17, <1>23 DEF NodeSize, SizeOf, SameLayout
      <3> QED BY <1>11, <1>29, <2>1, <3>1
    <2>3. i < m.end => K[i] = NodeSize(m, i)
      BY <1>1, <1>11, <1>28
    <2> QED BY <1>11, <2>2, <2>3
  <1>32. Loose(L, n, i) /\ DownOk(L, n, i)
    BY <1>1, <1>11, <1>28, <1>29, <1>30, <1>31, ChangedIsLoose
  <1>33. /\ Moves(q, e) /\ Nodes(e, j, F \cup {lo})
         /\ Loose(Keys(e, j, w), n, i) /\ UpOk(Keys(e, j, w), i) /\ DownOk(Keys(e, j, w), n, i)
    <2>1. q.end \in Nat /\ i \in 0..q.end - 1 /\ j \notin 0..i
      BY <1>1, <1>11, <1>23
    <2> QED BY <1>14, <1>23, <1>24, <1>27, <1>32, <2>1, EmergeNode
  <1>34. e.end = n /\ SameRest(c, e) /\ SameLayout(c, e)
    BY <1>23, <1>33 DEF Moves, SameRest, SameLayout
  <1>35. HeapBut(e, j, w, F \cup {lo})
    <2>1. Keys(e, j, w) \in [0..n - 1 -> Nat]
      BY <1>33, <1>34, KeysType
    <2>2. Ordered(Keys(e, j, w), n)
      BY <1>11, <1>33, <2>1, LooseAndInPlace
    <2> QED BY <1>33, <1>34, <2>2 DEF HeapBut
  <1>36. /\ Heap(r, Freeds(c)) /\ SameRest(c, r) /\ SameLayout(c, r)
         /\ r.end <= m.end + 1 /\ m.end <= r.end + 1
    <2>1. CASE j = NOT_EXIST
      <3>1. r = e /\ w = 0
        BY <1>15, <1>26, <2>1
      <3>2. n = m.end \/ n = m.end + 1
        BY <1>11
      <3> QED BY <1>1, <1>17, <1>34, <1>35, <2>1, <3>1, <3>2 DEF Heap
    <2>2. CASE j # NOT_EXIST
      <3>1. r = DeleteNode(e, j) /\ j \in 0..e.end - 1 /\ n = m.end
        BY <1>11, <1>15, <1>34, <2>2
      <3>2. Deleted(e, r, F \cup {lo})
        BY <1>35, <3>1, DeleteNodeGives
      <3>3. r.end + 1 = m.end /\ r.end \in Nat
        BY <1>34, <3>1, <3>2, HeapIsRecords DEF Deleted, Heap
      <3>4. SameRest(c, r) /\ SameLayout(c, r)
        BY <1>34, <3>2 DEF Deleted, SameRest, SameLayout
      <3> QED BY <1>1, <1>17, <3>2, <3>3, <3>4 DEF Deleted
    <2> QED BY <2>1, <2>2
  <1>37. Tiled(r.blocks, m.top) /\ Wander(r.blocks) /\ Freeds(r) = Freeds(c)
    <2>1. Records(r)
      BY <1>36, HeapIsRecords DEF Heap
    <2> QED BY <1>17, <1>36, <2>1, SameLayoutKeeps
  <1>38. r.top = m.top /\ r.got = m.got /\ SameVars(m, r)
    BY <1>18, <1>36 DEF SameRest, SameVars
  <1>39. Whole(r)
    BY <1>36, <1>37, <1>38 DEF Whole
  <1>40. Untouched(m, r, h)
    <2>1. ASSUME NEW k \in DOMAIN m.blocks, m.blocks[k].status = "allocated", k # h
          PROVE  /\ k \in DOMAIN r.blocks
                 /\ r.blocks[k].size = m.blocks[k].size /\ r.blocks[k].status = "allocated"
      <3>1. k \notin lo..hi - 1
        <4>1. prev # NULL => m.blocks[prev].status # "allocated"
          BY <1>3 DEF PrevIs
        <4>2. next # NULL => m.blocks[next].status # "allocated"
          BY <1>3 DEF NextIs
        <4>3. k # NULL
          BY <1>1, <2>1 DEF Tiled, NULL
        <4> QED BY <1>5, <2>1, <4>1, <4>2, <4>3 DEF Spans
      <3> QED BY <1>17, <1>36, <2>1, <3>1 DEF SameLayout
    <2> QED BY <2>1 DEF Untouched
  <1> QED BY <1>36, <1>38, <1>39, <1>40 DEF Released

-------------------------------------------------------------------------------
(* mm_realloc where the block and its neighbours are.                        *)

\* A region in a layout is one in the same layout of other nodes.
LEMMA SameLayoutAround ==
  ASSUME NEW m, NEW r, SameLayout(m, r), NEW top, NEW lo, NEW hi, NEW end,
         Around(m.blocks, top, lo, hi, end)
  PROVE  Around(r.blocks, top, lo, hi, end)
  <1>1. /\ DOMAIN r.blocks = DOMAIN m.blocks
        /\ \A h \in DOMAIN m.blocks : r.blocks[h].size = m.blocks[h].size
    BY DEF SameLayout
  <1>2. \A k \in DOMAIN r.blocks : k + r.blocks[k].size <= lo \/ k \in lo..hi - 1 \/ hi <= k
    BY <1>1 DEF Around
  <1> QED BY <1>1, <1>2 DEF Around

\* Block h and those of its neighbours that are to be joined with it; and less,
\* the allocator without the nodes of theirs that are gone, but for node.
Spanned(m, prev, h, next, lo, hi) ==
  /\ Spans(m, prev, h, next, lo, hi) /\ PrevIs(m, h, prev) /\ NextIs(m, h, next)
  /\ lo = IF prev = NULL THEN h ELSE prev

Lacking(m, F, less, node) ==
  /\ SameRest(m, less) /\ SameLayout(m, less)
  /\ node = NOT_EXIST \/ node \in 0..less.end - 1
  /\ \E w \in Nat : (node = NOT_EXIST => w = 0) /\ HeapBut(less, node, w, F)

\* Some of a block and of its neighbours is handed out.
LEMMA TakeGives ==
  ASSUME NEW m, Whole(m), NEW h \in DOMAIN m.blocks, m.blocks[h].status = "allocated",
         NEW prev, NEW next, NEW lo, NEW hi, Spanned(m, prev, h, next, lo, hi),
         NEW F, F = Freeds(m) \ {prev, next},
         NEW less, NEW node, Lacking(m, F, less, node),
         NEW size \in Nat, size >= 2, NEW rest \in Nat, lo + size + rest = hi,
         NEW r, r = Allocate(less, lo, hi, size, node)
  PROVE  Served(m, r, h, size) /\ r.top = m.top /\ NodesLeft(less, r, node, rest)
  <1>0. /\ Spans(m, prev, h, next, lo, hi) /\ PrevIs(m, h, prev) /\ NextIs(m, h, next)
        /\ lo = IF prev = NULL THEN h ELSE prev
        /\ SameRest(m, less) /\ SameLayout(m, less)
        /\ node = NOT_EXIST \/ node \in 0..less.end - 1
    BY DEF Spanned, Lacking
  <1>0a. PICK w \in Nat : (node = NOT_EXIST => w = 0) /\ HeapBut(less, node, w, F)
    BY DEF Lacking
  <1>1. Tiled(m.blocks, m.top) /\ Wander(m.blocks) /\ Records(less) /\ less.top = m.top
    BY <1>0, <1>0a, HeapIsRecords DEF Whole, SameRest
  <1>2. Tiled(less.blocks, m.top) /\ Wander(less.blocks) /\ Freeds(less) = Freeds(m)
    BY <1>0, <1>1, SameLayoutKeeps
  <1>3. Around(less.blocks, m.top, lo, hi, less.top)
    <2>1. Around(m.blocks, m.top, lo, hi, m.top)
      BY <1>0 DEF Spans
    <2> QED BY <1>0, <1>1, <2>1, SameLayoutAround
  <1>4. PICK G : G = {k \in Freeds(less) : k \notin lo..hi - 1}
    OBVIOUS
  <1>5. G = F
    <2>1. \A k \in Freeds(m) : k \in DOMAIN m.blocks /\ k # h /\ k # NULL
      BY <1>1 DEF Freeds, Tiled, NULL
    <2>2. \A k \in Freeds(m) : k \in lo..hi - 1 <=> k = prev \/ k = next
      BY <1>0, <2>1 DEF Spans
    <2> QED BY <1>2, <1>4, <2>2
  <1>6. Allotted(less, r, lo, hi, size) /\ NodesLeft(less, r, node, rest)
    BY <1>0, <1>0a, <1>2, <1>3, <1>4, <1>5, AllocateGives
  <1>7. \A k \in DOMAIN m.blocks : m.blocks[k].status = "allocated" /\ k # h => k \notin lo..hi - 1
    <2>1. \A k \in DOMAIN m.blocks : k # NULL
      BY <1>1 DEF Tiled, NULL
    <2> QED BY <1>0, <2>1 DEF Spans, PrevIs, NextIs
  <1>8. Untouched(m, r, h)
    BY <1>0, <1>6, <1>7 DEF Untouched, Allotted, Kept, SameLayout
  <1>9. r.got = h \/ Fresh(m, r.got)
    BY <1>0, <1>6 DEF Allotted, Fresh, PrevIs
  <1> QED BY <1>0, <1>6, <1>8, <1>9 DEF Allotted, Served, SameVars, SameRest

\* Without the node of the freed block h.
LEMMA WithoutNode ==
  ASSUME NEW m, NEW F, Heap(m, F), NEW h, h \in F, NEW i, i = m.blocks[h].node,
         NEW G, G = F \ {h}
  PROVE  Lacking(m, G, m, i) /\ \E w \in Nat : HeapBut(m, i, w, G) /\ i \in 0..m.end - 1
  <1>1. /\ i \in 0..m.end - 1 /\ m.tree[i] = h /\ SizeOf(m, h) \in Nat
        /\ HeapBut(m, i, SizeOf(m, h), F \ {h})
    BY WithoutOne
  <1>2. i # NOT_EXIST
    <2>1. m.end \in Nat
      BY HeapIsRecords DEF Heap
    <2> QED BY <1>1, <2>1 DEF NOT_EXIST
  <1> QED BY <1>1, <1>2 DEF Lacking, SameRest, SameLayout

\* A node can be deleted after nodes were moved.
LEMMA LackingTrans ==
  ASSUME NEW m, NEW q, NEW F, NEW less, NEW node, SameRest(m, q), SameLayout(m, q),
         Lacking(q, F, less, node)
  PROVE  Lacking(m, F, less, node)
  <1>1. SameRest(q, less) /\ SameLayout(q, less)
    BY DEF Lacking
  <1>2. SameRest(m, less) /\ SameLayout(m, less)
    BY <1>1 DEF SameRest, SameLayout
  <1> QED BY <1>2 DEF Lacking

\* The node of a neighbour, if it has one.
LEMMA NeighbourNode ==
  ASSUME NEW m, Whole(m), NEW b \in DOMAIN m.blocks, m.blocks[b].status # "allocated"
  PROVE  \/ NodeOf(m, b) = NOT_EXIST /\ b \notin Freeds(m) /\ SizeOf(m, b) = 1
         \/ NodeOf(m, b) # NOT_EXIST /\ b \in Freeds(m) /\ NodeOf(m, b) = m.blocks[b].node
  <1>1. Tiled(m.blocks, m.top) /\ Wander(m.blocks) /\ Heap(m, Freeds(m)) /\ m.end \in Nat
    BY HeapIsRecords DEF Whole, Heap
  <1>2. m.blocks[b].status \in Statuses
    BY <1>1, SizeIsNat DEF Tiled
  <1>3. CASE m.blocks[b].status = "wandering"
    BY <1>1, <1>3 DEF Freeds, NodeOf, Wander, SizeOf
  <1>4. CASE m.blocks[b].status = "freed"
    <2>1. b \in Freeds(m)
      BY <1>4 DEF Freeds
    <2>2. m.blocks[b].node \in 0..m.end - 1
      BY <1>1, <2>1, HeapNodes
    <2> QED BY <1>4, <2>1, <2>2 DEF NodeOf, NOT_EXIST
  <1> QED BY <1>2, <1>3, <1>4 DEF Statuses

\* What mm_realloc promises where it stands.
Taken(m, r, h, size) ==
  /\ r.got # NULL
  /\ \/ Spoilt(r)
     \/ /\ Served(m, r, h, size) /\ r.top = m.top
        /\ r.end <= m.end + 1 /\ m.end <= r.end + 2

\* What is handed out in place has at most two nodes more or one fewer.
LEMMA TakenIf ==
  ASSUME NEW m, Whole(m), NEW less, less.end = m.end \/ less.end + 1 = m.end,
         less.end \in Nat, NEW r, NEW h, NEW size, Served(m, r, h, size), r.top = m.top,
         NEW node, NEW rest, NodesLeft(less, r, node, rest), less.end = m.end \/ node # NOT_EXIST
  PROVE  Taken(m, r, h, size)
  <1>1. m.end \in Nat /\ r.end \in Nat
    BY HeapIsRecords DEF Whole, Heap, Served
  <1>2. r.got # NULL
    BY DEF Served, Whole, Tiled, NULL
  <1>3. r.end = less.end + 1 \/ r.end + 1 = less.end \/ r.end = less.end
    BY DEF NodesLeft
  <1>4. r.end <= m.end + 1 /\ m.end <= r.end + 2
    BY <1>1, <1>3
  <1> QED BY <1>2, <1>4 DEF Taken

\* mm_realloc into the previous block.
LEMMA MoveDownGives ==
  ASSUME NEW m, Whole(m), NEW h \in DOMAIN m.blocks, m.blocks[h].status = "allocated",
         NEW prev, prev # NULL, NEW next, NEW hi, Spanned(m, prev, h, next, prev, hi),
         NEW size \in Nat, size >= 2, NEW rest \in Nat, prev + size + rest = hi,
         NEW r, r = MoveDown(m, prev, next, hi, size)
  PROVE  Taken(m, r, h, size)
  <1>1. /\ Heap(m, Freeds(m)) /\ Records(m) /\ m.end \in Nat /\ Freeds(m) \subseteq DOMAIN m.blocks
        /\ NULL \notin DOMAIN m.blocks
    BY HeapIsRecords DEF Whole, Heap, Freeds, Tiled, NULL
  <1>1a. Spans(m, prev, h, next, prev, hi) /\ PrevIs(m, h, prev) /\ NextIs(m, h, next)
    BY DEF Spanned
  <1>2. PICK node, less :
          /\ node = NodeOf(m, prev)
          /\ less = IF next = NULL \/ NodeOf(m, next) = NOT_EXIST THEN m
                    ELSE DeleteNode(m, NodeOf(m, next))
    OBVIOUS
  <1>3. r = CASE node = NOT_EXIST -> Undefined(less, prev)
              [] node # NOT_EXIST ->
                   IF less.blocks[prev].node = node THEN Allocate(less, prev, hi, size, node)
                   ELSE Undefined(Allocate(less, prev, hi, size, node), prev)
    BY <1>2 DEF MoveDown
  <1>4. PICK G : G = Freeds(m) \ {next}
    OBVIOUS
  <1>5. /\ Heap(less, G) /\ SameRest(m, less) /\ SameLayout(m, less)
        /\ less.end = m.end \/ less.end + 1 = m.end
    <2>1. CASE next = NULL \/ NodeOf(m, next) = NOT_EXIST
      <3>1. next \notin Freeds(m)
        <4>1. CASE next = NULL
          BY <1>1, <4>1
        <4>2. CASE next # NULL
          <5>1. next \in DOMAIN m.blocks /\ m.blocks[next].status # "allocated"
            BY <1>1a, <4>2 DEF NextIs
          <5> QED BY <2>1, <4>2, <5>1, NeighbourNode
        <4> QED BY <4>1, <4>2
      <3>2. G = Freeds(m) /\ less = m
        BY <1>2, <1>4, <2>1, <3>1
      <3> QED BY <1>1, <3>2 DEF SameRest, SameLayout
    <2>2. CASE ~(next = NULL \/ NodeOf(m, next) = NOT_EXIST)
      <3>1. next \in DOMAIN m.blocks /\ m.blocks[next].status # "allocated"
        BY <1>1a, <2>2 DEF NextIs
      <3>2. next \in Freeds(m) /\ NodeOf(m, next) = m.blocks[next].node
        BY <2>2, <3>1, NeighbourNode
      <3>3. PICK i : i = m.blocks[next].node
        OBVIOUS
      <3>4. PICK w \in Nat : HeapBut(m, i, w, G) /\ i \in 0..m.end - 1
        BY <1>1, <1>4, <3>2, <3>3, WithoutNode
      <3>5. less = DeleteNode(m, i)
        BY <1>2, <2>2, <3>2, <3>3
      <3>6. Deleted(m, less, G)
        BY <3>4, <3>5, DeleteNodeGives
      <3> QED BY <3>6 DEF Deleted
    <2> QED BY <2>1, <2>2
  <1>6. Records(less) /\ less.end \in Nat
    BY <1>5, HeapIsRecords DEF Heap
  <1>7. CASE node = NOT_EXIST \/ less.blocks[prev].node # node
    <2>1. \/ r = Undefined(less, prev)
          \/ r = Undefined(Allocate(less, prev, hi, size, node), prev)
      BY <1>3, <1>7
    <2>2. r.got = prev /\ Spoilt(r)
      BY <2>1, UndefinedIsSpoilt
    <2> QED BY <2>2 DEF Taken
  <1>8. CASE node # NOT_EXIST /\ less.blocks[prev].node = node
    <2>1. r = Allocate(less, prev, hi, size, node)
      BY <1>3, <1>8
    <2>2. prev \in DOMAIN m.blocks /\ m.blocks[prev].status # "allocated"
      BY <1>1a DEF PrevIs
    <2>3. prev \in Freeds(m)
      BY <1>2, <1>8, <2>2, NeighbourNode
    <2>4. prev \in G /\ G \ {prev} = Freeds(m) \ {prev, next}
      BY <1>1a, <1>4, <2>3 DEF Spans
    <2>5. PICK F : F = Freeds(m) \ {prev, next}
      OBVIOUS
    <2>6. Lacking(m, F, less, node)
      <3>1. F = G \ {prev} /\ node = less.blocks[prev].node
        BY <1>8, <2>4, <2>5
      <3>2. Lacking(less, F, less, node)
        BY <1>5, <2>4, <3>1, WithoutNode
      <3> QED BY <1>5, <3>2, LackingTrans
    <2>7. Served(m, r, h, size) /\ r.top = m.top /\ NodesLeft(less, r, node, rest)
      BY <2>1, <2>5, <2>6, TakeGives
    <2> QED BY <1>5, <1>6, <1>8, <2>7, TakenIf
  <1> QED BY <1>7, <1>8

\* A block that keeps its size keeps the number of nodes.
LEMMA ReallocInPlaceGives ==
  ASSUME NEW m, Whole(m), NEW h \in DOMAIN m.blocks, m.blocks[h].status = "allocated",
         NEW size \in Nat, size >= 2, NEW r, r = ReallocInPlace(m, h, size)
  PROVE  /\ r.got = NULL \/ Taken(m, r, h, size)
         /\ size = SizeOf(m, h) => r.bad = m.bad /\ r.end = m.end /\ Taken(m, r, h, size)
  <1>1. /\ Tiled(m.blocks, m.top) /\ Heap(m, Freeds(m)) /\ Records(m) /\ m.end \in Nat
        /\ h \in Nat /\ NULL \notin DOMAIN m.blocks /\ Freeds(m) \subseteq DOMAIN m.blocks
    BY HeapIsRecords DEF Whole, Heap, Tiled, Freeds, NULL
  <1>2. PICK prev, next : prev = PrevAvailable(m, h) /\ next = NextAvailable(m, h)
    OBVIOUS
  <1>3. PrevIs(m, h, prev) /\ NextIs(m, h, next)
    BY <1>1, <1>2, PrevAvailableGives, NextAvailableGives
  <1>4. PrevIs(m, h, NULL) /\ NextIs(m, h, NULL)
    BY DEF PrevIs, NextIs
  <1>5. PICK have, before, after :
          have = SizeOf(m, h) /\ before = SizeIf(m, prev) /\ after = SizeIf(m, next)
    OBVIOUS
  <1>6. PICK noded, case1, case2, case3 :
          /\ noded = (next # NULL /\ NodeOf(m, next) # NOT_EXIST)
          /\ case1 = (next # NULL /\ have + after >= size)
          /\ case2 = (~case1 /\ prev # NULL /\ before <= size /\ before + have >= size)
          /\ case3 = (/\ ~case1 /\ ~case2 /\ prev # NULL /\ next # NULL
                      /\ before + have + after >= size)
    OBVIOUS
  <1>7. r = CASE size <= have -> Allocate(m, h, h + have, size, NOT_EXIST)
              [] size > have /\ case1 -> Allocate(m, h, After(m, next), size, NodeOf(m, next))
              [] size > have /\ case2 ->
                   MoveDown(m, prev, IF noded THEN next ELSE NULL,
                            IF noded THEN After(m, next) ELSE h + have, size)
              [] size > have /\ case3 -> MoveDown(m, prev, next, After(m, next), size)
              [] OTHER -> [m EXCEPT !.got = NULL]
    BY <1>2, <1>5, <1>6 DEF ReallocInPlace, SizeIf
  <1>7a. (case1 => ~case2 /\ ~case3) /\ (case2 => ~case3)
    BY <1>6
  <1>8. ASSUME NEW p, p = NULL \/ p = prev, NEW x, x = NULL \/ x = next,
               NEW lo, lo = IF p = NULL THEN h ELSE p,
               NEW hi, hi = IF x = NULL THEN h + have ELSE After(m, x)
        PROVE  /\ Spanned(m, p, h, x, lo, hi) /\ PrevIs(m, h, p) /\ NextIs(m, h, x)
               /\ lo \in Nat /\ have \in Nat /\ SizeIf(m, p) \in Nat /\ SizeIf(m, x) \in Nat
               /\ hi = lo + SizeIf(m, p) + have + SizeIf(m, x)
    <2>1. PrevIs(m, h, p) /\ NextIs(m, h, x)
      BY <1>3, <1>4, <1>8
    <2>2. hi = IF x = NULL THEN After(m, h) ELSE After(m, x)
      BY <1>5, <1>8 DEF After
    <2>3. Spans(m, p, h, x, lo, hi)
      BY <1>1, <1>8, <2>1, <2>2, SpanGives
    <2> QED BY <1>5, <1>8, <2>1, <2>3 DEF Spanned, Spans, Around
  <1>8a. have \in Nat
    BY <1>8
  <1>9. CASE size <= have
    <2>1. PICK hi : hi = h + have
      OBVIOUS
    <2>2. Spanned(m, NULL, h, NULL, h, hi)
      BY <1>8, <2>1
    <2>3. PICK rest \in Nat : rest = have - size
      BY <1>8a, <1>9
    <2>3a. h + size + rest = hi
      BY <1>1, <1>8a, <2>1, <2>3
    <2>4. r = Allocate(m, h, hi, size, NOT_EXIST)
      BY <1>7, <1>8a, <1>9, <2>1
    <2>5. PICK F : F = Freeds(m) \ {NULL, NULL}
      OBVIOUS
    <2>6. Lacking(m, F, m, NOT_EXIST)
      <3>1. F = Freeds(m)
        BY <1>1, <2>5
      <3> QED BY <1>1, <3>1 DEF Heap, Lacking, SameRest, SameLayout
    <2>7. Served(m, r, h, size) /\ r.top = m.top /\ NodesLeft(m, r, NOT_EXIST, rest)
      BY <2>2, <2>3a, <2>4, <2>5, <2>6, TakeGives
    <2>8. Taken(m, r, h, size)
      BY <1>1, <2>7, TakenIf
    <2>9. size = have => r.end = m.end
      BY <1>8a, <2>3, <2>7 DEF NodesLeft
    <2> QED BY <1>5, <2>7, <2>8, <2>9 DEF Served, SameVars
  <1>10. CASE size > have /\ case1
    <2>1. PICK hi : hi = After(m, next)
      OBVIOUS
    <2>2. next # NULL /\ have + after >= size
      BY <1>6, <1>10
    <2>3. /\ Spanned(m, NULL, h, next, h, hi) /\ NextIs(m, h, next) /\ after \in Nat
          /\ hi = h + SizeIf(m, NULL) + have + after
      BY <1>5, <1>8, <2>1, <2>2
    <2>3a. hi = h + have + after
      BY <1>1, <1>8a, <2>3 DEF SizeIf
    <2>4. PICK rest \in Nat : rest = have + after - size
      BY <1>8a, <2>2, <2>3
    <2>4a. h + size + rest = hi
      BY <1>1, <1>8a, <2>3, <2>3a, <2>4
    <2>5. PICK node, F : node = NodeOf(m, next) /\ F = Freeds(m) \ {NULL, next}
      OBVIOUS
    <2>6. r = Allocate(m, h, hi, size, node)
      BY <1>7, <1>7a, <1>8a, <1>10, <2>1, <2>5
    <2>8. next \in DOMAIN m.blocks /\ m.blocks[next].status # "allocated"
      BY <2>2, <2>3 DEF NextIs
    <2>9. F = Freeds(m) \ {next}
      BY <1>1, <2>5
    <2>10. Lacking(m, F, m, node)
      <3>1. CASE node = NOT_EXIST
        <4>1. next \notin Freeds(m)
          BY <2>5, <2>8, <3>1, NeighbourNode
        <4>2. F = Freeds(m)
          BY <2>9, <4>1
        <4> QED BY <1>1, <3>1, <4>2 DEF Heap, Lacking, SameRest, SameLayout
      <3>2. CASE node # NOT_EXIST
        <4>1. next \in Freeds(m) /\ node = m.blocks[next].node
          BY <2>5, <2>8, <3>2, NeighbourNode
        <4> QED BY <1>1, <2>9, <4>1, WithoutNode
      <3> QED BY <3>1, <3>2
    <2>11. Served(m, r, h, size) /\ r.top = m.top /\ NodesLeft(m, r, node, rest)
      BY <2>3, <2>4a, <2>5, <2>6, <2>10, TakeGives
    <2>12. Taken(m, r, h, size)
      BY <1>1, <2>11, TakenIf
    <2>13. size # have
      BY <1>8a, <1>10
    <2> QED BY <1>5, <2>12, <2>13
  <1>11. CASE size > have /\ ~case1 /\ case2
    <2>1. PICK x, hi : /\ x = IF noded THEN next ELSE NULL
                       /\ hi = IF noded THEN After(m, next) ELSE h + have
      OBVIOUS
    <2>2. r = MoveDown(m, prev, x, hi, size)
      BY <1>7, <1>7a, <1>8a, <1>11, <2>1
    <2>3. prev # NULL /\ before + have >= size
      BY <1>6, <1>11
    <2>4. /\ x = NULL \/ x = next
          /\ hi = IF x = NULL THEN h + have ELSE After(m, x)
      BY <1>6, <2>1
    <2>5. /\ Spanned(m, prev, h, x, prev, hi) /\ prev \in Nat /\ have \in Nat /\ before \in Nat
          /\ SizeIf(m, x) \in Nat /\ hi = prev + before + have + SizeIf(m, x)
          /\ PrevIs(m, h, prev) /\ NextIs(m, h, x)
      BY <1>5, <1>8, <2>3, <2>4
    <2>6. PICK c \in Nat : c = SizeIf(m, x)
      BY <2>5
    <2>7. PICK rest \in Nat : rest = before + have + c - size
      BY <2>3, <2>5, <2>6
    <2>8. prev + size + rest = hi
      BY <2>5, <2>6, <2>7
    <2>9. Taken(m, r, h, size)
      BY <2>2, <2>3, <2>5, <2>8, MoveDownGives
    <2>10. size # have
      BY <1>8a, <1>11
    <2> QED BY <1>5, <2>9, <2>10
  <1>12. CASE size > have /\ ~case1 /\ ~case2 /\ case3
    <2>1. PICK hi : hi = After(m, next)
      OBVIOUS
    <2>2. r = MoveDown(m, prev, next, hi, size)
      BY <1>7, <1>8a, <1>12, <2>1
    <2>3. prev # NULL /\ next # NULL /\ before + have + after >= size
      BY <1>6, <1>12
    <2>4. /\ Spanned(m, prev, h, next, prev, hi) /\ prev \in Nat /\ have \in Nat /\ before \in Nat
          /\ after \in Nat /\ hi = prev + before + have + after
      BY <1>5, <1>8, <2>1, <2>3
    <2>5. PICK rest \in Nat : rest = before + have + after - size
      BY <2>3, <2>4
    <2>6. prev + size + rest = hi
      BY <2>4, <2>5
    <2>7. Taken(m, r, h, size)
      BY <1>3, <2>2, <2>3, <2>4, <2>6, MoveDownGives
    <2>8. size # have
      BY <1>8a, <1>12
    <2> QED BY <1>5, <2>7, <2>8
  <1>13. CASE size > have /\ ~case1 /\ ~case2 /\ ~case3
    <2>1. r = [m EXCEPT !.got = NULL]
      <3>1. ~(size <= have)
        BY <1>8a, <1>13
      <3> QED BY <1>7, <1>13, <3>1
    <2>2. r.got = NULL
      BY <1>1, <2>1 DEF Records, Shape
    <2>3. size # have
      BY <1>8a, <1>13
    <2> QED BY <1>5, <2>2, <2>3
  <1>14. size <= have \/ size > have
    BY <1>8a
  <1> QED BY <1>9, <1>10, <1>11, <1>12, <1>13, <1>14

-------------------------------------------------------------------------------
(* The capacity of the freetree.                                             *)

\* The same heap in an allocator with other variables.
LEMMA SameHeapIsWhole ==
  ASSUME NEW m, Whole(m), NEW r, Shape(r), r.blocks = m.blocks, r.tree = m.tree,
         r.end = m.end, r.top = m.top
  PROVE  Whole(r)
  <1>1. /\ Tiled(m.blocks, m.top) /\ Wander(m.blocks) /\ Heap(m, Freeds(m)) /\ Records(m)
    BY HeapIsRecords DEF Whole, Heap
  <1>2. Records(r) /\ Freeds(r) = Freeds(m) /\ Freeds(m) \subseteq DOMAIN r.blocks
    BY <1>1 DEF Records, Freeds
  <1>3. Heap(r, Freeds(m))
    BY <1>1, <1>2, BlocksElsewhere DEF Heap
  <1> QED BY <1>1, <1>2, <1>3 DEF Whole

\* A sound heap has all its fields, and no block at NULL.
LEMMA WholeShape ==
  ASSUME NEW m, Whole(m)
  PROVE  Shape(m) /\ m.end \in Nat /\ NULL \notin DOMAIN m.blocks
  <1>1. Shape(m) /\ m.end \in Nat
    BY HeapIsRecords DEF Whole, Heap, Records
  <1>2. \A h \in DOMAIN m.blocks : h \in Nat
    BY DEF Whole, Tiled
  <1> QED BY <1>1, <1>2 DEF NULL

\* The freetree's block has room for all of its capacity.
Rooted(m, at, cap) ==
  /\ at \in DOMAIN m.blocks /\ m.blocks[at].status = "allocated"
  /\ cap \in Nat /\ cap >= 12 /\ cap * 8 + 9 <= m.blocks[at].size * 8

Ready(m) == /\ Whole(m) /\ m.top <= Arena /\ m.bad = FALSE /\ Rooted(m, m.root, m.cap)

\* What the resized freetree leaves to the others.
Resited(m, r, at) ==
  /\ Whole(r) /\ r.top <= Arena /\ r.bad = FALSE
  /\ Untouched(m, r, m.root) /\ (at = m.root \/ Fresh(m, at))
  /\ r.end <= m.end + 1 /\ m.end <= r.end + 2

\* A block for cap nodes has room for cap nodes, also after it was rounded up.
LEMMA RoomFor ==
  ASSUME NEW cap \in Nat, NEW size, size = Units(cap * 8)
  PROVE  /\ size \in Nat /\ size >= 2 /\ cap * 8 + 9 <= size * 8
         /\ size * 8 \in Nat /\ cap * 8 + 9 <= Units(size * 8) * 8
  <1>1. PICK n \in Nat : n = cap * 8
    OBVIOUS
  <1>2. size \in Nat /\ size >= 2 /\ size * 8 >= n + 8 + 1
    BY <1>1, UnitsGives
  <1>3. PICK k \in Nat : k = size * 8
    BY <1>2
  <1>4. Units(k) \in Nat /\ Units(k) * 8 >= k + 8 + 1
    BY UnitsGives
  <1> QED BY <1>1, <1>2, <1>3, <1>4

\* The freetree's new block: nobody else's block is touched.
LEMMA TreeMovedGives ==
  ASSUME NEW m, Ready(m), NEW n \in Nat, NEW new, new = MallocOnly(m, n),
         NEW r, r = TreeMoved(new, m.root)
  PROVE  \/ Spoilt(r)
         \/ /\ Resited(m, r, r.got) /\ r.got \in DOMAIN r.blocks
            /\ r.blocks[r.got].status = "allocated" /\ r.blocks[r.got].size = Units(n)
  <1>1. /\ Whole(m) /\ m.top <= Arena /\ m.bad = FALSE /\ m.root \in DOMAIN m.blocks
        /\ m.blocks[m.root].status = "allocated" /\ m.end \in Nat /\ NULL \notin DOMAIN m.blocks
    BY WholeShape DEF Ready, Rooted
  <1>2. \/ Spoilt(new) /\ new.got = NULL
        \/ Refused(m, new)
        \/ /\ Served(m, new, NULL, Units(n)) /\ new.top <= Arena
           /\ new.end <= m.end /\ m.end <= new.end + 1
    BY <1>1, MallocOnlyGives
  <1>3. CASE new.got = NULL
    <2>1. r = Undefined(new, NULL)
      BY <1>3 DEF TreeMoved
    <2> QED BY <2>1, UndefinedIsSpoilt
  <1>4. CASE new.got # NULL
    <2>1. /\ Served(m, new, NULL, Units(n)) /\ new.top <= Arena
          /\ new.end <= m.end /\ m.end <= new.end + 1
      BY <1>2, <1>4 DEF Refused
    <2>2. PICK g : g = new.got
      OBVIOUS
    <2>3. /\ Whole(new) /\ SameVars(m, new) /\ Untouched(m, new, NULL) /\ g \in DOMAIN new.blocks
          /\ new.blocks[g].size = Units(n) /\ new.blocks[g].status = "allocated"
          /\ Fresh(m, g) /\ Shape(new) /\ new.end \in Nat
      BY <1>4, <2>1, <2>2, WholeShape DEF Served
    <2>4. PICK q, f : q = [new EXCEPT !.root = g] /\ f = FreeOnly(q, m.root)
      OBVIOUS
    <2>5. r = [f EXCEPT !.got = g]
      BY <1>4, <2>2, <2>4 DEF TreeMoved
    <2>6. /\ Shape(q) /\ q.blocks = new.blocks /\ q.tree = new.tree /\ q.end = new.end
          /\ q.top = new.top /\ q.bad = new.bad
      <3>1. q = [blocks |-> new.blocks, tree |-> new.tree, end |-> new.end, root |-> g,
                 cap |-> new.cap, top |-> new.top, got |-> new.got, bad |-> new.bad]
        BY <2>3, <2>4 DEF Shape
      <3> QED BY <3>1 DEF Shape
    <2>7. Whole(q)
      BY <2>3, <2>6, SameHeapIsWhole
    <2>8. m.root \in DOMAIN q.blocks /\ q.blocks[m.root].status = "allocated"
      BY <1>1, <2>3, <2>6 DEF Untouched
    <2>9. Released(q, f, m.root)
      BY <2>4, <2>7, <2>8, FreeOnlyGives
    <2>10. /\ Whole(f) /\ f.top = new.top /\ f.bad = FALSE /\ Untouched(q, f, m.root)
           /\ f.end <= new.end + 1 /\ new.end <= f.end + 1 /\ Shape(f) /\ f.end \in Nat
      BY <1>1, <2>3, <2>6, <2>9, WholeShape DEF Released, SameVars
    <2>11. /\ Shape(r) /\ r.blocks = f.blocks /\ r.tree = f.tree /\ r.end = f.end
           /\ r.top = f.top /\ r.bad = f.bad /\ r.got = g
      <3>1. r = [blocks |-> f.blocks, tree |-> f.tree, end |-> f.end, root |-> f.root,
                 cap |-> f.cap, top |-> f.top, got |-> g, bad |-> f.bad]
        BY <2>5, <2>10 DEF Shape
      <3> QED BY <3>1 DEF Shape
    <2>12. Whole(r)
      BY <2>10, <2>11, SameHeapIsWhole
    <2>13. g # m.root
      BY <1>1, <2>3 DEF Fresh
    <2>14. g \in DOMAIN r.blocks /\ r.blocks[g].size = Units(n) /\ r.blocks[g].status = "allocated"
      BY <2>3, <2>6, <2>10, <2>11, <2>13 DEF Untouched
    <2>15. Untouched(m, r, m.root)
      BY <1>1, <2>3, <2>6, <2>10, <2>11 DEF Untouched
    <2>16. r.end <= m.end + 1 /\ m.end <= r.end + 2
      BY <1>1, <2>1, <2>3, <2>10, <2>11
    <2>17. Resited(m, r, g)
      BY <2>1, <2>3, <2>10, <2>11, <2>12, <2>15, <2>16 DEF Resited
    <2> QED BY <2>11, <2>14, <2>17
  <1> QED BY <1>3, <1>4

Resettled(m, r, cap) ==
  /\ Ready(r) /\ Resited(m, r, r.root) /\ r.cap = cap /\ r.got = m.got

\* freetree_adjust_capacity leaves a sound heap and the freetree in a block large enough.
LEMMA ResizedGives ==
  ASSUME NEW m, Ready(m), NEW cap \in Nat, cap >= 12, NEW r, r = Resized(m, cap)
  PROVE  Spoilt(r) \/ Resettled(m, r, cap)
  <1>1. /\ Whole(m) /\ m.top <= Arena /\ m.bad = FALSE /\ m.root \in DOMAIN m.blocks
        /\ m.blocks[m.root].status = "allocated" /\ m.end \in Nat /\ NULL \notin DOMAIN m.blocks
    BY WholeShape DEF Ready, Rooted
  <1>2. PICK size : size = Units(cap * 8)
    OBVIOUS
  <1>3. /\ size \in Nat /\ size >= 2 /\ cap * 8 + 9 <= size * 8
        /\ size * 8 \in Nat /\ cap * 8 + 9 <= Units(size * 8) * 8
    BY <1>2, RoomFor
  <1>4. PICK here, x : /\ here = ReallocInPlace(m, m.root, size)
                       /\ x = OrElse(here, TreeMoved(MallocOnly(m, size * 8), m.root))
    OBVIOUS
  <1>5. r = [x EXCEPT !.cap = cap, !.root = x.got, !.got = m.got]
    BY <1>2, <1>4 DEF Resized, Settled
  <1>6. here.got = NULL \/ Taken(m, here, m.root, size)
    BY <1>1, <1>3, <1>4, ReallocInPlaceGives
  <1>7. \/ Spoilt(x)
        \/ /\ Resited(m, x, x.got) /\ x.got \in DOMAIN x.blocks
           /\ x.blocks[x.got].status = "allocated" /\ cap * 8 + 9 <= x.blocks[x.got].size * 8
    <2>1. CASE here.got = NULL
      <3>1. x = TreeMoved(MallocOnly(m, size * 8), m.root)
        BY <1>4, <2>1 DEF OrElse
      <3>2. \/ Spoilt(x)
            \/ /\ Resited(m, x, x.got) /\ x.got \in DOMAIN x.blocks
               /\ x.blocks[x.got].status = "allocated" /\ x.blocks[x.got].size = Units(size * 8)
        BY <1>3, <3>1, TreeMovedGives
      <3> QED BY <1>3, <3>2
    <2>2. CASE here.got # NULL
      <3>1. x = here
        BY <1>4, <2>2 DEF OrElse
      <3>2. CASE Spoilt(here)
        BY <3>1, <3>2
      <3>3. CASE ~Spoilt(here)
        <4>1. /\ Served(m, x, m.root, size) /\ x.top = m.top
              /\ x.end <= m.end + 1 /\ m.end <= x.end + 2
          BY <1>6, <2>2, <3>1, <3>3 DEF Taken
        <4>2. Resited(m, x, x.got)
          BY <1>1, <4>1 DEF Served, Resited, SameVars
        <4> QED BY <1>3, <4>1, <4>2 DEF Served
      <3> QED BY <3>2, <3>3
    <2> QED BY <2>1, <2>2
  <1>8. Shape(x)
    BY <1>7, WholeShape DEF Spoilt, Resited
  <1>9. /\ Shape(r) /\ r.blocks = x.blocks /\ r.tree = x.tree /\ r.end = x.end /\ r.top = x.top
        /\ r.bad = x.bad /\ r.cap = cap /\ r.root = x.got /\ r.got = m.got
    <2>1. r = [blocks |-> x.blocks, tree |-> x.tree, end |-> x.end, root |-> x.got,
               cap |-> cap, top |-> x.top, got |-> m.got, bad |-> x.bad]
      BY <1>5, <1>8 DEF Shape
    <2> QED BY <2>1 DEF Shape
  <1>10. CASE Spoilt(x)
    BY <1>9, <1>10 DEF Spoilt
  <1>11. CASE ~Spoilt(x)
    <2>1. /\ Resited(m, x, x.got) /\ x.got \in DOMAIN x.blocks
          /\ x.blocks[x.got].status = "allocated" /\ cap * 8 + 9 <= x.blocks[x.got].size * 8
      BY <1>7, <1>11
    <2>2. Whole(r)
      BY <1>9, <2>1, SameHeapIsWhole DEF Resited
    <2>3. Resited(m, r, r.root)
      BY <1>9, <2>1, <2>2 DEF Resited, Untouched
    <2>4. Ready(r)
      BY <1>9, <2>1, <2>2, <2>3 DEF Ready, Rooted, Resited
    <2> QED BY <1>9, <2>3, <2>4 DEF Resettled
  <1> QED BY <1>10, <1>11

\* What becomes of the capacity cap with e nodes.
Change(e, cap, c) ==
  \/ c = cap /\ e + 10 <= cap
  \/ e + 9 = cap /\ cap + 6 <= c /\ 2 * c <= 3 * cap + 14
  \/ cap > 256 /\ e * 10 < cap * 6 /\ e + cap <= 2 * c + 2 /\ 2 * c <= e + cap + 14

\* The capacity stays, or grows by half, or goes halfway down to the nodes there are.
LEMMA NewCapacityGives ==
  ASSUME NEW m, m.cap \in Nat, m.cap >= 12, m.end \in Nat, m.end + 9 <= m.cap,
         NEW c, c = NewCapacity(m)
  PROVE  c \in Nat /\ c >= 12 /\ Change(m.end, m.cap, c)
  <1>1. PICK e \in Nat, cap \in Nat : e = m.end /\ cap = m.cap /\ cap >= 12 /\ e + 9 <= cap
    OBVIOUS
  <1>2. c = CASE e > cap - 10 -> Align((cap * 3) \div 2)
              [] e <= cap - 10 /\ cap > 256 /\ e * 10 < cap * 6 -> Align(e \div 2 + cap \div 2)
              [] OTHER -> cap
    BY <1>1 DEF NewCapacity
  <1>3. CASE e > cap - 10
    <2>1. PICK n \in Nat : n = (cap * 3) \div 2
      OBVIOUS
    <2>2. 2 * n <= 3 * cap /\ 3 * cap <= 2 * n + 1
      BY <2>1
    <2>3. c = Align(n)
      BY <1>1, <1>2, <1>3, <2>1
    <2>4. c \in Nat /\ n <= c /\ c <= n + 7
      BY <2>3, AlignGives
    <2>5. e + 9 = cap /\ cap + 6 <= c /\ 2 * c <= 3 * cap + 14
      BY <1>1, <1>3, <2>2, <2>4
    <2> QED BY <1>1, <2>4, <2>5 DEF Change
  <1>4. CASE e <= cap - 10 /\ cap > 256 /\ e * 10 < cap * 6
    <2>1. PICK a \in Nat, b \in Nat : a = e \div 2 /\ b = cap \div 2
      OBVIOUS
    <2>2. 2 * a <= e /\ e <= 2 * a + 1 /\ 2 * b <= cap /\ cap <= 2 * b + 1
      BY <2>1
    <2>3. c = Align(a + b)
      BY <1>1, <1>2, <1>4, <2>1
    <2>4. c \in Nat /\ a + b <= c /\ c <= a + b + 7
      BY <2>3, AlignGives
    <2>5. c >= 12 /\ e + cap <= 2 * c + 2 /\ 2 * c <= e + cap + 14
      BY <1>4, <2>2, <2>4
    <2> QED BY <1>1, <1>4, <2>4, <2>5 DEF Change
  <1>5. CASE ~(e > cap - 10) /\ ~(e <= cap - 10 /\ cap > 256 /\ e * 10 < cap * 6)
    <2>1. c = cap
      BY <1>2, <1>5
    <2> QED BY <1>1, <1>5, <2>1 DEF Change
  <1> QED BY <1>3, <1>4, <1>5

\* Room for ten nodes more once the capacity is adjusted.
LEMMA ChangeLeavesRoom ==
  ASSUME NEW e \in Nat, NEW cap \in Nat, NEW c \in Nat, Change(e, cap, c), c # cap,
         NEW d \in Nat, d <= e + 1
  PROVE  d + 10 <= c
  <1>1. CASE e + 9 = cap /\ cap + 6 <= c
    BY <1>1
  <1>2. CASE cap > 256 /\ e * 10 < cap * 6 /\ e + cap <= 2 * c + 2
    BY <1>2
  <1> QED BY <1>1, <1>2 DEF Change

\* A capacity that was changed is not changed back by the same call.
LEMMA ChangeIsNotUndone ==
  ASSUME NEW e \in Nat, NEW cap \in Nat, NEW c \in Nat, Change(e, cap, c),
         NEW d \in Nat, d <= e + 2, e <= d + 3, Change(d, c, cap)
  PROVE  c = cap
  <1>1. CASE e + 9 = cap /\ cap + 6 <= c /\ 2 * c <= 3 * cap + 14
    <2>1. ~(d + 9 = c /\ c + 6 <= cap)
      BY <1>1
    <2>2. ~(c > 256 /\ d * 10 < c * 6)
      BY <1>1
    <2> QED BY <2>1, <2>2 DEF Change
  <1>2. CASE cap > 256 /\ e * 10 < cap * 6 /\ e + cap <= 2 * c + 2 /\ 2 * c <= e + cap + 14
    <2>1. ~(d + 9 = c)
      BY <1>2
    <2>2. ~(2 * cap <= d + c + 14)
      BY <1>2
    <2> QED BY <2>1, <2>2 DEF Change
  <1> QED BY <1>1, <1>2 DEF Change

\* What freetree_adjust_capacity_if_necessary promises.
Adjusted(m, r) ==
  /\ Ready(r) /\ Resited(m, r, r.root) /\ r.got = m.got /\ r.end + 10 <= r.cap
  /\ Change(m.end, m.cap, r.cap) /\ (r.cap = m.cap => r = m)

\* After freetree_adjust_capacity_if_necessary there is room for ten nodes more.
LEMMA AdjustCapacityGives ==
  ASSUME NEW m, Ready(m), m.end + 9 <= m.cap, NEW r, r = AdjustCapacity(m)
  PROVE  Spoilt(r) \/ Adjusted(m, r)
  <1>1. /\ Whole(m) /\ m.top <= Arena /\ m.bad = FALSE /\ m.end \in Nat
        /\ m.cap \in Nat /\ m.cap >= 12
    BY WholeShape DEF Ready, Rooted
  <1>2. PICK c : c = NewCapacity(m)
    OBVIOUS
  <1>3. c \in Nat /\ c >= 12 /\ Change(m.end, m.cap, c)
    BY <1>1, <1>2, NewCapacityGives
  <1>4. r = IF c = m.cap THEN m ELSE Resized(m, c)
    BY <1>1, <1>2 DEF AdjustCapacity
  <1>5. CASE c = m.cap
    <2>1. r = m
      BY <1>4, <1>5
    <2>2. m.end + 10 <= m.cap
      BY <1>1, <1>3, <1>5 DEF Change
    <2>3. Resited(m, m, m.root)
      BY <1>1 DEF Resited, Untouched
    <2> QED BY <1>3, <1>5, <2>1, <2>2, <2>3 DEF Adjusted
  <1>6. CASE c # m.cap
    <2>1. r = Resized(m, c)
      BY <1>4, <1>6
    <2>2. Spoilt(r) \/ Resettled(m, r, c)
      BY <1>3, <2>1, ResizedGives
    <2>3. CASE Resettled(m, r, c)
      <3>1. Ready(r) /\ Resited(m, r, r.root) /\ r.cap = c /\ r.got = m.got
        BY <2>3 DEF Resettled
      <3>2. r.end \in Nat /\ r.end <= m.end + 1
        BY <3>1, WholeShape DEF Resited
      <3>3. r.end + 10 <= c
        BY <1>1, <1>3, <1>6, <3>2, ChangeLeavesRoom
      <3> QED BY <1>3, <1>6, <3>1, <3>3 DEF Adjusted
    <2> QED BY <2>2, <2>3
  <1> QED BY <1>5, <1>6

\* Three changes in one mm_realloc bring no capacity back that they had changed.
LEMMA ThreeChangesAreNotUndone ==
  ASSUME NEW e \in Nat, NEW cap \in Nat, NEW c \in Nat, Change(e, cap, c),
         NEW d \in Nat, d <= e + 2, e <= d + 3, NEW b \in Nat, Change(d, c, b),
         NEW a \in Nat, a <= d + 1, d <= a + 2, b = c => a = d, Change(a, b, cap)
  PROVE  c = cap /\ b = c
  <1>1. CASE c = cap
    <2>1. b = cap
      BY <1>1, ChangeIsNotUndone
    <2> QED BY <1>1, <2>1
  <1>2. CASE b = c
    <2>1. c = cap
      BY <1>2, ChangeIsNotUndone
    <2> QED BY <1>2, <2>1
  <1>3. CASE c # cap /\ b # c
    <2>1. ~(e + 9 = cap /\ cap + 6 <= c /\ 2 * c <= 3 * cap + 14)
      <3>1. ASSUME e + 9 = cap, cap + 6 <= c, 2 * c <= 3 * cap + 14
            PROVE  ~(d + 9 = c) /\ ~(c > 256 /\ d * 10 < c * 6)
        BY <3>1
      <3> QED BY <1>3, <3>1 DEF Change
    <2>2. cap > 256 /\ e * 10 < cap * 6 /\ e + cap <= 2 * c + 2 /\ 2 * c <= e + cap + 14
      BY <1>3, <2>1 DEF Change
    <2>3. d + c <= 2 * b + 2 /\ 2 * b <= d + c + 14
      <3>1. ~(d + 9 = c)
        BY <2>2
      <3> QED BY <1>3, <3>1 DEF Change
    <2>4. ~(a + 9 = b)
      BY <2>2, <2>3
    <2>5. ~(cap = b)
      BY <2>2, <2>3
    <2>6. ~(2 * cap <= a + b + 14)
      BY <2>2, <2>3
    <2> QED BY <2>4, <2>5, <2>6 DEF Change
  <1> QED BY <1>1, <1>2, <1>3

-------------------------------------------------------------------------------
(* The user's calls.                                                         *)

\* Between calls.
Settles(m) == Ready(m) /\ m.end + 10 <= m.cap

\* The blocks of l hold what was asked for and none is the freetree's.
Holds(m, l) ==
  \A h \in DOMAIN l : /\ h \in DOMAIN m.blocks /\ m.blocks[h].status = "allocated"
                      /\ h # m.root /\ l[h] \in Nat /\ l[h] + 9 <= m.blocks[h].size * 8

\* The blocks in use but for h and the freetree stay in use, and not by it.
Keeps(m, r, h) ==
  \A k \in DOMAIN m.blocks : m.blocks[k].status = "allocated" /\ k # h /\ k # m.root =>
    /\ k \in DOMAIN r.blocks /\ k # r.root
    /\ r.blocks[k].size = m.blocks[k].size /\ r.blocks[k].status = "allocated"

\* Two calls that keep the blocks in use keep them together.
LEMMA KeepsTrans ==
  ASSUME NEW m, NEW q, NEW r, NEW h, Keeps(m, q, NULL) \/ Keeps(m, q, h), Keeps(q, r, h),
         NULL \notin DOMAIN m.blocks
  PROVE  Keeps(m, r, h)
  BY DEF Keeps

\* Live blocks that are kept hold what was asked for.
LEMMA HoldsKept ==
  ASSUME NEW m, NEW l, Holds(m, l), NEW r, NEW h, Keeps(m, r, h),
         NEW k, DOMAIN k \subseteq DOMAIN l, h \notin DOMAIN k, \A b \in DOMAIN k : k[b] = l[b]
  PROVE  Holds(r, k)
  BY DEF Holds, Keeps

\* A new live block that is large enough joins them.
LEMMA HoldsPut ==
  ASSUME NEW r, NEW l, Holds(r, l), NEW g \in DOMAIN r.blocks, g # r.root,
         r.blocks[g].status = "allocated", NEW n \in Nat, n + 9 <= r.blocks[g].size * 8,
         NEW k, k = Put(l, g, n)
  PROVE  Holds(r, k)
  <1>1. k = [x \in DOMAIN l \cup {g} |-> IF x = g THEN n ELSE l[x]]
    BY DEF Put
  <1> QED BY <1>1 DEF Holds

\* A block that a call hands out: it was nobody's and is not the freetree's.
HandedOut(m, r, size) ==
  /\ r.got \in DOMAIN r.blocks /\ r.blocks[r.got].status = "allocated"
  /\ r.blocks[r.got].size = size /\ r.got # r.root /\ Fresh(m, r.got)

\* A call that keeps the freetree's block keeps the allocator ready.
LEMMA StaysReady ==
  ASSUME NEW m, Ready(m), NEW r, Whole(r), r.top <= Arena, SameVars(m, r),
         NEW h, h # m.root, Untouched(m, r, h)
  PROVE  Ready(r)
  BY DEF Ready, Rooted, SameVars, Untouched

\* The adjustment keeps every other block.
LEMMA AdjustedKeeps ==
  ASSUME NEW m, NEW a, NEW r, NEW h, Untouched(m, a, h), a.root = m.root, Adjusted(a, r)
  PROVE  Keeps(m, r, h)
  BY DEF Adjusted, Resited, Untouched, Fresh, Keeps

\* mm_malloc(n).
Malloced(m, r, n) ==
  /\ Settles(r) /\ Keeps(m, r, NULL)
  /\ r.got = NULL \/ HandedOut(m, r, Units(n))
  /\ \E e \in Nat : Change(e, m.cap, r.cap) /\ r.end <= e + 1 /\ e <= r.end + 2
  /\ r.cap = m.cap /\ r.top > m.top =>
       r.got # NULL /\ \A b \in Freeds(m) : SizeOf(m, b) < Units(n)

\* mm_malloc as a whole: mm_malloc_only and the adjustment.
LEMMA MallocedGives ==
  ASSUME NEW m, Settles(m), NEW n \in Nat, NEW r, r = AdjustCapacity(MallocOnly(m, n))
  PROVE  Spoilt(r) \/ Malloced(m, r, n)
  <1>1. /\ Ready(m) /\ Whole(m) /\ m.top <= Arena /\ m.bad = FALSE /\ m.end \in Nat
        /\ NULL \notin DOMAIN m.blocks /\ m.root \in DOMAIN m.blocks
        /\ m.blocks[m.root].status = "allocated" /\ m.cap \in Nat /\ m.end + 10 <= m.cap
    BY WholeShape DEF Settles, Ready, Rooted
  <1>2. PICK a : a = MallocOnly(m, n)
    OBVIOUS
  <1>3. \/ Spoilt(a) /\ a.got = NULL
        \/ Refused(m, a)
        \/ /\ Served(m, a, NULL, Units(n)) /\ a.top <= Arena
           /\ a.end <= m.end /\ m.end <= a.end + 1
           /\ a.top = m.top \/ \A b \in Freeds(m) : SizeOf(m, b) < Units(n)
    BY <1>1, <1>2, MallocOnlyGives
  <1>4. CASE Spoilt(a)
    <2>1. r = a
      BY <1>2, <1>4 DEF AdjustCapacity, Spoilt
    <2> QED BY <1>4, <2>1
  <1>5. CASE ~Spoilt(a)
    <2>1. /\ Whole(a) /\ SameVars(m, a) /\ Untouched(m, a, NULL) /\ a.top <= Arena
          /\ a.end <= m.end /\ a.end \in Nat /\ m.top \in Int
      <3>1. m.top \in Int
        BY <1>1 DEF Whole, Tiled
      <3>2. Whole(a)
        BY <1>3, <1>5 DEF Refused, Served
      <3>3. a.end <= m.end
        BY <1>1, <1>3, <1>5 DEF Refused
      <3> QED BY <1>1, <1>3, <1>5, <3>1, <3>2, <3>3, WholeShape DEF Refused, Served
    <2>2. m.root # NULL
      BY <1>1
    <2>3. Ready(a)
      BY <1>1, <2>1, <2>2, StaysReady
    <2>4. a.end + 9 <= a.cap
      BY <1>1, <2>1 DEF SameVars
    <2>5. Spoilt(r) \/ Adjusted(a, r)
      BY <1>2, <2>3, <2>4, AdjustCapacityGives
    <2>6. CASE Adjusted(a, r)
      <3>1. /\ Ready(r) /\ r.got = a.got /\ r.end + 10 <= r.cap /\ Change(a.end, m.cap, r.cap)
            /\ r.cap = m.cap => r = a
            /\ Untouched(a, r, a.root) /\ (r.root = a.root \/ Fresh(a, r.root))
            /\ r.end <= a.end + 1 /\ a.end <= r.end + 2
        BY <2>1, <2>6 DEF Adjusted, Resited, SameVars
      <3>2. a.root = m.root
        BY <2>1 DEF SameVars
      <3>3. Keeps(m, r, NULL)
        BY <2>1, <2>6, <3>2, AdjustedKeeps
      <3>4. r.got = NULL \/ HandedOut(m, r, Units(n))
        <4>1. CASE a.got = NULL
          BY <3>1, <4>1
        <4>2. CASE a.got # NULL
          <5>1. PICK g : g = a.got
            OBVIOUS
          <5>2. /\ g \in DOMAIN a.blocks /\ a.blocks[g].size = Units(n)
                /\ a.blocks[g].status = "allocated" /\ Fresh(m, g)
            BY <1>3, <1>5, <4>2, <5>1 DEF Refused, Served
          <5>3. g # m.root
            BY <1>1, <5>2 DEF Fresh
          <5>4. /\ g \in DOMAIN r.blocks /\ r.blocks[g].size = Units(n)
                /\ r.blocks[g].status = "allocated"
            BY <3>1, <3>2, <5>2, <5>3 DEF Untouched
          <5>5. g # r.root
            BY <3>1, <3>2, <5>2, <5>3 DEF Fresh
          <5> QED BY <3>1, <5>1, <5>2, <5>4, <5>5 DEF HandedOut
        <4> QED BY <4>1, <4>2
      <3>5. r.cap = m.cap /\ r.top > m.top =>
              r.got # NULL /\ \A b \in Freeds(m) : SizeOf(m, b) < Units(n)
        <4>1. ASSUME r.cap = m.cap, r.top > m.top
              PROVE  r.got # NULL /\ \A b \in Freeds(m) : SizeOf(m, b) < Units(n)
          <5>1. r = a /\ a.top # m.top
            BY <2>1, <3>1, <4>1
          <5>2. /\ Served(m, a, NULL, Units(n))
                /\ \A b \in Freeds(m) : SizeOf(m, b) < Units(n)
            BY <1>3, <1>5, <5>1 DEF Refused
          <5>3. a.got # NULL
            BY <2>1, <5>2, WholeShape DEF Served
          <5> QED BY <5>1, <5>2, <5>3
        <4> QED BY <4>1
      <3> QED BY <2>1, <3>1, <3>3, <3>4, <3>5 DEF Malloced, Settles
    <2> QED BY <2>5, <2>6
  <1> QED BY <1>4, <1>5

\* mm_free(h).
Returned(m, r, h) ==
  /\ Settles(r) /\ Keeps(m, r, h) /\ r.got = m.got
  /\ \E d \in Nat : /\ Change(d, m.cap, r.cap) /\ d <= m.end + 1 /\ m.end <= d + 1
                    /\ r.end <= d + 1 /\ d <= r.end + 2 /\ (r.cap = m.cap => r.end = d)
  /\ r.cap = m.cap => r.top = m.top

\* mm_free as a whole: mm_free_only and the adjustment.
LEMMA FreedGives ==
  ASSUME NEW m, Settles(m), NEW h \in DOMAIN m.blocks, m.blocks[h].status = "allocated",
         h # m.root, NEW r, r = AdjustCapacity(FreeOnly(m, h))
  PROVE  Spoilt(r) \/ Returned(m, r, h)
  <1>1. /\ Ready(m) /\ Whole(m) /\ m.top <= Arena /\ m.end \in Nat
        /\ m.cap \in Nat /\ m.end + 10 <= m.cap
    BY WholeShape DEF Settles, Ready, Rooted
  <1>2. PICK a : a = FreeOnly(m, h)
    OBVIOUS
  <1>3. Released(m, a, h)
    BY <1>1, <1>2, FreeOnlyGives
  <1>4. /\ Whole(a) /\ SameVars(m, a) /\ Untouched(m, a, h) /\ a.top = m.top /\ a.got = m.got
        /\ a.end <= m.end + 1 /\ m.end <= a.end + 1 /\ a.end \in Nat /\ a.cap = m.cap
        /\ a.root = m.root
    BY <1>3, WholeShape DEF Released, SameVars
  <1>5. Ready(a)
    BY <1>1, <1>4, StaysReady
  <1>6. a.end + 9 <= a.cap
    BY <1>1, <1>4
  <1>7. Spoilt(r) \/ Adjusted(a, r)
    BY <1>2, <1>5, <1>6, AdjustCapacityGives
  <1>8. CASE Adjusted(a, r)
    <2>1. Keeps(m, r, h)
      BY <1>4, <1>8, AdjustedKeeps
    <2>2. /\ Settles(r) /\ r.got = m.got /\ Change(a.end, m.cap, r.cap)
          /\ r.cap = m.cap => r = a
          /\ r.end <= a.end + 1 /\ a.end <= r.end + 2
      BY <1>4, <1>8 DEF Adjusted, Resited, Settles
    <2> QED BY <1>4, <2>1, <2>2 DEF Returned
  <1> QED BY <1>7, <1>8

\* mm_realloc of h to another place, up to the last adjustment. The capacity has
\* been adjusted twice: with e nodes, to c, and with d nodes.
Shifted(m, r, h, size) ==
  /\ Settles(r) /\ Keeps(m, r, h) /\ HandedOut(m, r, size)
  /\ \E e, c, d \in Nat :
       /\ Change(e, m.cap, c) /\ d <= e + 2 /\ e <= d + 3
       /\ Change(d, c, r.cap) /\ r.end <= d + 1 /\ d <= r.end + 2 /\ (r.cap = c => r.end = d)
       /\ c = m.cap /\ r.cap = c /\ r.top > m.top => \A b \in Freeds(m) : SizeOf(m, b) < size

\* mm_realloc to another block: mm_malloc, the copy, and mm_free.
LEMMA BlockMovedGives ==
  ASSUME NEW m, Settles(m), NEW h \in DOMAIN m.blocks, m.blocks[h].status = "allocated",
         h # m.root, NEW n \in Nat, NEW new, new = AdjustCapacity(MallocOnly(m, n)),
         NEW r, r = BlockMoved(new, h)
  PROVE  Spoilt(r) \/ Shifted(m, r, h, Units(n))
  <1>1. NULL \notin DOMAIN m.blocks
    BY WholeShape DEF Settles, Ready
  <1>2. Spoilt(new) \/ Malloced(m, new, n)
    BY MallocedGives
  <1>3. Shape(new)
    BY <1>2, WholeShape DEF Spoilt, Malloced, Settles, Ready
  <1>4. CASE new.bad \/ new.got = NULL
    <2>1. r = Undefined(new, NULL)
      BY <1>4 DEF BlockMoved
    <2> QED BY <2>1, UndefinedIsSpoilt
  <1>5. CASE ~(new.bad \/ new.got = NULL)
    <2>1. Malloced(m, new, n)
      BY <1>2, <1>5 DEF Spoilt
    <2>2. PICK g, q : g = new.got /\ q = AdjustCapacity(FreeOnly(new, h))
      OBVIOUS
    <2>3. r = [q EXCEPT !.got = g]
      BY <1>5, <2>2 DEF BlockMoved
    <2>4. /\ Settles(new) /\ Keeps(m, new, NULL) /\ HandedOut(m, new, Units(n))
          /\ \E e \in Nat : Change(e, m.cap, new.cap) /\ new.end <= e + 1 /\ e <= new.end + 2
          /\ new.cap = m.cap /\ new.top > m.top => \A b \in Freeds(m) : SizeOf(m, b) < Units(n)
      BY <1>5, <2>1 DEF Malloced
    <2>5. h \in DOMAIN new.blocks /\ new.blocks[h].status = "allocated" /\ h # new.root
      BY <1>1, <2>4 DEF Keeps
    <2>6. Spoilt(q) \/ Returned(new, q, h)
      BY <2>2, <2>4, <2>5, FreedGives
    <2>7. Shape(q)
      BY <2>6, WholeShape DEF Spoilt, Returned, Settles, Ready
    <2>8. /\ Shape(r) /\ r.blocks = q.blocks /\ r.tree = q.tree /\ r.end = q.end
          /\ r.root = q.root /\ r.cap = q.cap /\ r.top = q.top /\ r.bad = q.bad /\ r.got = g
      <3>1. r = [blocks |-> q.blocks, tree |-> q.tree, end |-> q.end, root |-> q.root,
                 cap |-> q.cap, top |-> q.top, got |-> g, bad |-> q.bad]
        BY <2>3, <2>7 DEF Shape
      <3> QED BY <3>1 DEF Shape
    <2>9. CASE Spoilt(q)
      BY <2>8, <2>9 DEF Spoilt
    <2>10. CASE ~Spoilt(q)
      <3>1. /\ Settles(q) /\ Keeps(new, q, h)
            /\ \E d \in Nat : /\ Change(d, new.cap, q.cap) /\ d <= new.end + 1
                              /\ new.end <= d + 1 /\ q.end <= d + 1 /\ d <= q.end + 2
                              /\ (q.cap = new.cap => q.end = d)
            /\ q.cap = new.cap => q.top = new.top
        BY <2>6, <2>10 DEF Returned
      <3>2. Settles(r)
        <4>1. Ready(q) /\ Whole(q)
          BY <3>1 DEF Settles, Ready
        <4>2. Whole(r)
          BY <2>8, <4>1, SameHeapIsWhole
        <4> QED BY <2>8, <3>1, <4>1, <4>2 DEF Settles, Ready, Rooted
      <3>3. Keeps(m, r, h)
        <4>1. Keeps(m, q, h)
          BY <1>1, <2>4, <3>1, KeepsTrans
        <4> QED BY <2>8, <4>1 DEF Keeps
      <3>4. HandedOut(m, r, Units(n))
        <4>1. /\ g \in DOMAIN new.blocks /\ new.blocks[g].status = "allocated"
              /\ new.blocks[g].size = Units(n) /\ g # new.root /\ Fresh(m, g)
          BY <2>2, <2>4 DEF HandedOut
        <4>2. g # h
          BY <4>1 DEF Fresh
        <4>3. /\ g \in DOMAIN q.blocks /\ q.blocks[g].status = "allocated"
              /\ q.blocks[g].size = Units(n) /\ g # q.root
          BY <3>1, <4>1, <4>2 DEF Keeps
        <4> QED BY <2>8, <4>1, <4>3 DEF HandedOut
      <3>5. new.end \in Nat /\ new.cap \in Nat /\ r.end \in Nat
        BY <2>4, <3>2, WholeShape DEF Settles, Ready, Rooted
      <3>6. PICK e \in Nat : Change(e, m.cap, new.cap) /\ new.end <= e + 1 /\ e <= new.end + 2
        BY <2>4
      <3>7. PICK d \in Nat : /\ Change(d, new.cap, r.cap) /\ d <= new.end + 1
                             /\ new.end <= d + 1 /\ r.end <= d + 1 /\ d <= r.end + 2
                             /\ (r.cap = new.cap => r.end = d)
        BY <2>8, <3>1
      <3>8. d <= e + 2 /\ e <= d + 3
        BY <3>5, <3>6, <3>7
      <3>9. new.cap = m.cap /\ r.cap = new.cap /\ r.top > m.top =>
              \A b \in Freeds(m) : SizeOf(m, b) < Units(n)
        BY <2>4, <2>8, <3>1
      <3> QED BY <3>2, <3>3, <3>4, <3>5, <3>6, <3>7, <3>8, <3>9 DEF Shifted
    <2> QED BY <2>9, <2>10
  <1> QED BY <1>4, <1>5

\* mm_realloc(h, n).
Realloced(m, r, h, n) ==
  /\ Settles(r) /\ Keeps(m, r, h)
  /\ r.got \in DOMAIN r.blocks /\ r.blocks[r.got].status = "allocated" /\ r.got # r.root
  /\ n + 9 <= r.blocks[r.got].size * 8 /\ (r.got = h \/ Fresh(m, r.got))
  /\ r.cap = m.cap /\ r.top > m.top =>
       /\ Fresh(m, r.got)
       /\ \A b \in Freeds(m) : SizeOf(m, b) < r.blocks[r.got].size

\* mm_realloc as a whole.
LEMMA ReallocedGives ==
  ASSUME NEW m, Settles(m), NEW h \in DOMAIN m.blocks, m.blocks[h].status = "allocated",
         h # m.root, NEW n \in Nat, NEW size, size = Units(n),
         NEW new, new = AdjustCapacity(MallocOnly(m, size * 8)),
         NEW x, x = OrElse(ReallocInPlace(m, h, size), BlockMoved(new, h)),
         NEW r, r = Unless(size = SizeOf(m, h), x)
  PROVE  Spoilt(r) \/ Realloced(m, r, h, n)
  <1>1. /\ Ready(m) /\ Whole(m) /\ m.top <= Arena /\ m.bad = FALSE /\ m.end \in Nat
        /\ NULL \notin DOMAIN m.blocks /\ m.cap \in Nat /\ m.end + 10 <= m.cap
        /\ m.root \in DOMAIN m.blocks /\ m.blocks[m.root].status = "allocated"
    BY WholeShape DEF Settles, Ready, Rooted
  <1>2. size \in Nat /\ size >= 2 /\ n + 9 <= size * 8
    <2>1. size \in Nat /\ size >= 2 /\ size * 8 >= n + 8 + 1
      BY UnitsGives
    <2> QED BY <2>1
  <1>3. PICK here : here = ReallocInPlace(m, h, size)
    OBVIOUS
  <1>4. /\ here.got = NULL \/ Taken(m, here, h, size)
        /\ size = SizeOf(m, h) =>
             here.bad = m.bad /\ here.end = m.end /\ Taken(m, here, h, size)
    BY <1>1, <1>2, <1>3, ReallocInPlaceGives
  <1>5. CASE here.got # NULL
    <2>1. x = here /\ Taken(m, x, h, size)
      BY <1>3, <1>4, <1>5 DEF OrElse
    <2>2. CASE Spoilt(x)
      <3>1. size # SizeOf(m, h)
        BY <1>1, <1>4, <2>1, <2>2 DEF Spoilt
      <3>2. r = AdjustCapacity(x) /\ x.bad
        BY <2>2, <3>1 DEF Unless, Spoilt
      <3>3. r = x
        BY <3>2 DEF AdjustCapacity
      <3> QED BY <2>2, <3>3
    <2>3. CASE ~Spoilt(x)
      <3>1. /\ Served(m, x, h, size) /\ x.top = m.top /\ x.end <= m.end + 1
            /\ m.end <= x.end + 2
        BY <2>1, <2>3 DEF Taken
      <3>2. PICK g : g = x.got
        OBVIOUS
      <3>3. /\ Whole(x) /\ SameVars(m, x) /\ Untouched(m, x, h) /\ x.end \in Nat
            /\ x.root = m.root /\ x.cap = m.cap /\ g \in DOMAIN x.blocks
            /\ x.blocks[g].size = size /\ x.blocks[g].status = "allocated"
            /\ g = h \/ Fresh(m, g)
        BY <3>1, <3>2, WholeShape DEF Served, SameVars
      <3>4. g # x.root
        BY <1>1, <3>3 DEF Fresh
      <3>5. Ready(x)
        BY <1>1, <3>1, <3>3, StaysReady
      <3>6. CASE size = SizeOf(m, h)
        <4>1. r = x
          BY <3>6 DEF Unless
        <4>2. x.end = m.end
          BY <1>4, <2>1, <3>6
        <4>3. Settles(r)
          BY <1>1, <3>3, <3>5, <4>1, <4>2 DEF Settles
        <4>4. Keeps(m, r, h)
          BY <3>3, <4>1 DEF Keeps, Untouched
        <4>5. ~(r.top > m.top)
          <5>1. m.top \in Nat
            BY <1>1 DEF Whole, Tiled
          <5> QED BY <3>1, <4>1, <5>1
        <4> QED BY <1>2, <3>2, <3>3, <3>4, <4>1, <4>3, <4>4, <4>5 DEF Realloced
      <3>7. CASE size # SizeOf(m, h)
        <4>1. r = AdjustCapacity(x)
          BY <3>7 DEF Unless
        <4>2. x.end + 9 <= x.cap
          BY <1>1, <3>1, <3>3
        <4>3. Spoilt(r) \/ Adjusted(x, r)
          BY <3>5, <4>1, <4>2, AdjustCapacityGives
        <4>4. CASE Adjusted(x, r)
          <5>1. Keeps(m, r, h)
            BY <3>3, <4>4, AdjustedKeeps
          <5>2. /\ Settles(r) /\ r.got = g /\ Untouched(x, r, x.root)
                /\ r.root = x.root \/ Fresh(x, r.root)
                /\ r.cap = m.cap => r = x
            BY <3>2, <3>3, <4>4 DEF Adjusted, Resited, Settles
          <5>3. /\ g \in DOMAIN r.blocks /\ r.blocks[g].size = size
                /\ r.blocks[g].status = "allocated" /\ g # r.root
            BY <3>3, <3>4, <5>2 DEF Untouched, Fresh
          <5>4. ~(r.cap = m.cap /\ r.top > m.top)
            <6>1. m.top \in Nat
              BY <1>1 DEF Whole, Tiled
            <6> QED BY <3>1, <5>2, <6>1
          <5> QED BY <1>2, <3>3, <5>1, <5>2, <5>3, <5>4 DEF Realloced
        <4> QED BY <4>3, <4>4
      <3> QED BY <3>6, <3>7
    <2> QED BY <2>2, <2>3
  <1>6. CASE here.got = NULL
    <2>1. x = BlockMoved(new, h)
      BY <1>3, <1>6 DEF OrElse
    <2>2. size # SizeOf(m, h)
      BY <1>4, <1>6 DEF Taken
    <2>3. r = AdjustCapacity(x)
      BY <2>2 DEF Unless
    <2>4. PICK k \in Nat : k = size * 8
      BY <1>2
    <2>5. Spoilt(x) \/ Shifted(m, x, h, Units(k))
      BY <2>1, <2>4, BlockMovedGives
    <2>6. CASE Spoilt(x)
      <3>1. r = x
        BY <2>3, <2>6 DEF AdjustCapacity, Spoilt
      <3> QED BY <2>6, <3>1
    <2>7. CASE ~Spoilt(x)
      <3>1. /\ Settles(x) /\ Keeps(m, x, h) /\ HandedOut(m, x, Units(k))
            /\ Ready(x) /\ x.end \in Nat /\ x.cap \in Nat /\ x.end + 10 <= x.cap
        BY <2>5, <2>7, WholeShape DEF Shifted, Settles, Ready, Rooted
      <3>2. x.end + 9 <= x.cap
        BY <3>1
      <3>3. Spoilt(r) \/ Adjusted(x, r)
        BY <2>3, <3>1, <3>2, AdjustCapacityGives
      <3>4. CASE Adjusted(x, r)
        <4>1. PICK g : g = x.got
          OBVIOUS
        <4>2. /\ g \in DOMAIN x.blocks /\ x.blocks[g].size = Units(k) /\ g # x.root
              /\ x.blocks[g].status = "allocated" /\ Fresh(m, g)
          BY <3>1, <4>1 DEF HandedOut
        <4>3. /\ Settles(r) /\ r.got = g /\ Untouched(x, r, x.root)
              /\ r.root = x.root \/ Fresh(x, r.root)
              /\ r.cap = x.cap => r = x
              /\ Change(x.end, x.cap, r.cap)
          BY <3>4, <4>1 DEF Adjusted, Resited, Settles
        <4>4. Keeps(x, r, NULL)
          BY <4>3 DEF Keeps, Untouched, Fresh
        <4>5. Keeps(m, r, h)
          BY <1>1, <3>1, <4>3 DEF Keeps, Untouched, Fresh
        <4>6. /\ g \in DOMAIN r.blocks /\ r.blocks[g].size = Units(k)
              /\ r.blocks[g].status = "allocated" /\ g # r.root
          BY <4>2, <4>3 DEF Untouched, Fresh
        <4>7. Units(k) \in Nat /\ n + 9 <= Units(k) * 8
          <5>1. Units(k) \in Nat /\ Units(k) * 8 >= k + 8 + 1
            BY UnitsGives
          <5> QED BY <1>2, <2>4, <5>1
        <4>8. r.cap = m.cap /\ r.top > m.top => \A b \in Freeds(m) : SizeOf(m, b) < Units(k)
          <5>1. PICK e \in Nat, c \in Nat, d \in Nat :
                  /\ Change(e, m.cap, c) /\ d <= e + 2 /\ e <= d + 3
                  /\ Change(d, c, x.cap) /\ x.end <= d + 1 /\ d <= x.end + 2
                  /\ (x.cap = c => x.end = d)
                  /\ c = m.cap /\ x.cap = c /\ x.top > m.top =>
                       \A b \in Freeds(m) : SizeOf(m, b) < Units(k)
            BY <2>5, <2>7 DEF Shifted
          <5>2. ASSUME r.cap = m.cap PROVE c = m.cap /\ x.cap = c
            <6>1. PICK cap \in Nat, b \in Nat, a \in Nat : cap = m.cap /\ b = x.cap /\ a = x.end
              BY <1>1, <3>1
            <6>2. Change(e, cap, c) /\ Change(d, c, b) /\ Change(a, b, cap)
              BY <4>3, <5>1, <5>2, <6>1
            <6>3. a <= d + 1 /\ d <= a + 2 /\ (b = c => a = d)
              BY <5>1, <6>1
            <6>4. c = cap /\ b = c
              BY <5>1, <6>2, <6>3, ThreeChangesAreNotUndone
            <6> QED BY <6>1, <6>4
          <5> QED BY <4>3, <5>1, <5>2
        <4> QED BY <4>2, <4>3, <4>5, <4>6, <4>7, <4>8 DEF Realloced
      <3> QED BY <3>3, <3>4
    <2> QED BY <2>6, <2>7
  <1> QED BY <1>5, <1>6

-------------------------------------------------------------------------------
(* The inductive invariant.                                                  *)

\* What lies beyond the last node does not matter.
LEMMA CutTreeIsWhole ==
  ASSUME NEW m, Whole(m), NEW r, Shape(r), r.blocks = m.blocks, r.end = m.end,
         r.top = m.top, r.tree = [i \in 0..m.end - 1 |-> m.tree[i]]
  PROVE  Whole(r)
  <1>1. /\ Tiled(m.blocks, m.top) /\ Wander(m.blocks) /\ Heap(m, Freeds(m)) /\ Records(m)
        /\ Freeds(r) = Freeds(m)
    BY HeapIsRecords DEF Whole, Heap, Freeds
  <1>2. PICK P, F : P = (0..m.end - 1) \ {NOT_EXIST} /\ F = Freeds(m)
    OBVIOUS
  <1>3. /\ P \subseteq Nat /\ F \subseteq DOMAIN m.blocks /\ P = 0..m.end - 1
        /\ \A k \in P : m.tree[k] \in F /\ m.blocks[m.tree[k]].node = k
        /\ \A h \in F : m.blocks[h].node \in P /\ m.tree[m.blocks[h].node] = h
        /\ Ordered(Keys(m, NOT_EXIST, 0), m.end)
    BY <1>1, <1>2 DEF Heap, HeapBut, Nodes, Indexed, Indexes, NOT_EXIST
  <1>4. DOMAIN r.tree = P /\ \A k \in P : r.tree[k] = m.tree[k]
    BY <1>3
  <1>5. Records(r)
    BY <1>1, <1>4 DEF Records
  <1>6. Indexed(r, P, F)
    <2>1. \A k \in P : r.tree[k] \in F /\ r.blocks[r.tree[k]].node = k
      BY <1>3, <1>4
    <2>2. \A h \in F : r.blocks[h].node \in P /\ r.tree[r.blocks[h].node] = h
      BY <1>3, <1>4
    <2> QED BY <1>3, <1>4, <1>5, <2>1, <2>2 DEF Indexed, Indexes
  <1>7. Nodes(r, NOT_EXIST, F)
    BY <1>2, <1>3, <1>4, <1>5, <1>6 DEF Nodes, Typed
  <1>8. \A k \in P : NodeSize(r, k) = NodeSize(m, k)
    BY <1>3, <1>4 DEF NodeSize, SizeOf
  <1>9. Keys(r, NOT_EXIST, 0) = Keys(m, NOT_EXIST, 0)
    BY <1>3, <1>8 DEF Keys
  <1>10. Heap(r, F)
    BY <1>3, <1>7, <1>9 DEF Heap, HeapBut
  <1> QED BY <1>1, <1>2, <1>10 DEF Whole

\* Between calls the allocator is whole and ready, as long as no call has run
\* into undefined behaviour.
IInv ==
  /\ calls \in 0..MaxCalls /\ spoiled \in BOOLEAN
  /\ spoiled = FALSE => /\ Settles(Allocator) /\ Holds(Allocator, live)
                        /\ DOMAIN tree = 0..Cardinality(DOMAIN tree) - 1

\* The allocator's variables as the fields of a record.
LEMMA AllocatorFields ==
  /\ Allocator.blocks = blocks /\ Allocator.tree = tree /\ Allocator.root = root
  /\ Allocator.end = Cardinality(DOMAIN tree) /\ Allocator.cap = capacity
  /\ Allocator.top = heap_end /\ Allocator.bad = spoiled /\ Shape(Allocator)
  BY DEF Allocator, Shape

\* What a call's last state says of the variables.
LEMMA BecomesGives ==
  ASSUME NEW r, Becomes(r), Settles(r)
  PROVE  /\ Settles(Allocator') /\ DOMAIN tree' = 0..Cardinality(DOMAIN tree') - 1
         /\ blocks' = r.blocks /\ root' = r.root /\ capacity' = r.cap /\ heap_end' = r.top
         /\ spoiled' = FALSE
  <1>1. /\ Whole(r) /\ Ready(r) /\ r.end \in Nat /\ r.bad = FALSE /\ r.end + 10 <= r.cap
    BY WholeShape DEF Settles, Ready
  <1>2. /\ blocks' = r.blocks /\ root' = r.root /\ capacity' = r.cap /\ heap_end' = r.top
        /\ spoiled' = FALSE /\ tree' = [i \in 0..r.end - 1 |-> r.tree[i]]
    BY <1>1 DEF Becomes
  <1>3. DOMAIN tree' = 0..r.end - 1 /\ Cardinality(0..r.end - 1) = r.end
    <2>1. PICK a \in Int, b \in Int : a = 0 /\ b = r.end - 1
      BY <1>1
    <2>2. Cardinality(a..b) = IF a > b THEN 0 ELSE b - a + 1
      BY FS_Interval
    <2>3. Cardinality(a..b) = r.end
      BY <1>1, <2>1, <2>2
    <2> QED BY <1>2, <2>1, <2>3
  <1>4. PICK s : s = [blocks |-> r.blocks, tree |-> [i \in 0..r.end - 1 |-> r.tree[i]],
                      end |-> r.end, root |-> r.root, cap |-> r.cap, top |-> r.top,
                      got |-> NULL, bad |-> FALSE]
    OBVIOUS
  <1>5. Allocator' = s
    BY <1>2, <1>3, <1>4 DEF Allocator
  <1>6. /\ Shape(s) /\ s.blocks = r.blocks /\ s.tree = [i \in 0..r.end - 1 |-> r.tree[i]]
        /\ s.end = r.end /\ s.root = r.root /\ s.cap = r.cap /\ s.top = r.top /\ s.bad = FALSE
    BY <1>4 DEF Shape
  <1>7. Whole(s)
    BY <1>1, <1>6, CutTreeIsWhole
  <1>8. Settles(s)
    BY <1>1, <1>6, <1>7 DEF Settles, Ready, Rooted
  <1> QED BY <1>2, <1>3, <1>5, <1>8

\* A step ends well, or in undefined behaviour.
Grown ==
  heap_end' > heap_end /\ capacity' = capacity /\ ~spoiled' =>
    \E h \in DOMAIN live' \ DOMAIN live :
      \A b \in Freed : blocks[b].size < blocks'[h].size

Stepped ==
  \/ spoiled' = TRUE
  \/ /\ spoiled' = FALSE /\ Settles(Allocator') /\ Holds(Allocator', live')
     /\ DOMAIN tree' = 0..Cardinality(DOMAIN tree') - 1 /\ Grown

\* The live blocks after a step.
LEMMA HoldsNext ==
  ASSUME NEW r, Holds(r, live'), blocks' = r.blocks, root' = r.root
  PROVE  Holds(Allocator', live')
  <1>1. Allocator'.blocks = r.blocks /\ Allocator'.root = r.root
    BY DEF Allocator
  <1> QED BY <1>1 DEF Holds

\* mm_init establishes the invariant.
LEMMA InitIsSound ==
  Init => IInv
  <1> SUFFICES ASSUME Init PROVE IInv
    OBVIOUS
  <1>1. Units(12 * 8) = 14
    BY DEF Units, Align
  <1>2. PICK b : b = [h \in {0} |-> Block(14, "allocated", NOT_EXIST)]
    OBVIOUS
  <1>3. /\ DOMAIN b = {0} /\ b[0].size = 14 /\ b[0].status = "allocated"
        /\ b \in [DOMAIN b -> BlockRecords]
    <2>1. Block(14, "allocated", NOT_EXIST) \in BlockRecords
      <3>1. 14 \in Nat \ {0} /\ "allocated" \in Statuses
        BY DEF Statuses
      <3> QED BY <3>1, BlockIsRecord
    <2> QED BY <1>2, <2>1 DEF Block
  <1>4. /\ blocks = b /\ tree = << >> /\ root = 0 /\ capacity = 12 /\ heap_end = 14
        /\ live = << >> /\ calls = 0 /\ spoiled = FALSE
    BY <1>1, <1>2 DEF Init
  <1>5. DOMAIN tree = {} /\ tree = [i \in {} |-> tree[i]] /\ Cardinality(DOMAIN tree) = 0
    BY <1>4, FS_EmptySet
  <1>6. PICK m : m = Allocator
    OBVIOUS
  <1>7. /\ m.blocks = b /\ m.tree = tree /\ m.end = 0 /\ m.root = 0 /\ m.cap = 12 /\ m.top = 14
        /\ m.bad = FALSE /\ Shape(m)
    BY <1>4, <1>5, <1>6, AllocatorFields
  <1>8. Tiled(b, 14) /\ Wander(b) /\ Freeds(m) = {}
    BY <1>3, <1>7 DEF Tiled, Wander, Freeds
  <1>9. Records(m) /\ Typed(m)
    BY <1>3, <1>5, <1>7 DEF Records, Typed
  <1>10. Nodes(m, NOT_EXIST, {})
    BY <1>7, <1>9 DEF Nodes, Indexed, Indexes
  <1>11. Ordered(Keys(m, NOT_EXIST, 0), m.end)
    BY <1>7 DEF Ordered, UpOk
  <1>12. Whole(m)
    BY <1>7, <1>8, <1>10, <1>11 DEF Whole, Heap, HeapBut
  <1>13. Settles(m)
    BY <1>3, <1>7, <1>12, ArenaAssumption DEF Settles, Ready, Rooted
  <1>14. Holds(m, live)
    BY <1>4 DEF Holds
  <1>15. calls \in 0..MaxCalls /\ spoiled \in BOOLEAN
    <2>1. calls \in 0..MaxCalls
      BY <1>4, ArenaAssumption
    <2>2. spoiled \in BOOLEAN
      BY <1>4
    <2> QED BY <2>1, <2>2
  <1>16. DOMAIN tree = 0..Cardinality(DOMAIN tree) - 1
    BY <1>5
  <1> QED BY <1>6, <1>13, <1>14, <1>15, <1>16 DEF IInv

\* The blocks that are in use, and not free, before a call.
LEMMA LiveIsAllocated ==
  ASSUME IInv, spoiled = FALSE, NEW m, m = Allocator
  PROVE  /\ Settles(m) /\ Holds(m, live) /\ Ready(m) /\ NULL \notin DOMAIN live
         /\ m.root = root /\ m.cap = capacity /\ m.top = heap_end /\ m.blocks = blocks
         /\ \A h \in DOMAIN live : /\ h \in DOMAIN m.blocks /\ h # m.root
                                   /\ m.blocks[h].status = "allocated"
         /\ \A g : Fresh(m, g) => g \notin DOMAIN live
         /\ Freeds(m) = Freed /\ \A b \in Freed : SizeOf(m, b) = blocks[b].size
  <1>1. Settles(m) /\ Holds(m, live) /\ Ready(m)
    BY DEF IInv, Settles
  <1>2. m.root = root /\ m.cap = capacity /\ m.top = heap_end /\ m.blocks = blocks
    BY AllocatorFields
  <1>3. \A h \in DOMAIN live : /\ h \in DOMAIN m.blocks /\ h # m.root
                               /\ m.blocks[h].status = "allocated"
    BY <1>1 DEF Holds
  <1>4. NULL \notin DOMAIN live
    BY <1>1, <1>3, WholeShape DEF Ready
  <1>5. \A g : Fresh(m, g) => g \notin DOMAIN live
    BY <1>3 DEF Fresh
  <1>6. Freeds(m) = Freed /\ \A b \in Freed : SizeOf(m, b) = blocks[b].size
    BY <1>2 DEF Freeds, Freed, SizeOf
  <1> QED BY <1>1, <1>2, <1>3, <1>4, <1>5, <1>6

\* A key that was put is there.
LEMMA PutKeys ==
  ASSUME NEW f, NEW k, NEW v, NEW g, g = Put(f, k, v)
  PROVE  k \in DOMAIN g
  BY DEF Put

\* Undefined behaviour is remembered.
LEMMA SpoiltBecomes ==
  ASSUME NEW r, Becomes(r), Spoilt(r)
  PROVE  spoiled' = TRUE
  BY DEF Becomes, Spoilt

\* mm_malloc, mm_free and mm_realloc.
LEMMA MallocSteps ==
  ASSUME IInv, spoiled = FALSE, NEW n \in Sizes, mm_malloc(n)
  PROVE  Stepped
  <1>1. PICK m, r : m = Allocator /\ r = AdjustCapacity(MallocOnly(m, n))
    OBVIOUS
  <1>2. /\ Becomes(r) /\ n \in Nat
        /\ live' = IF r.got = NULL THEN live ELSE Put(live, r.got, n)
    BY <1>1, SizesAssumption DEF mm_malloc, Returns
  <1>3. /\ Settles(m) /\ Holds(m, live) /\ NULL \notin DOMAIN live
        /\ m.root = root /\ m.cap = capacity /\ m.top = heap_end
        /\ \A g : Fresh(m, g) => g \notin DOMAIN live
        /\ Freeds(m) = Freed /\ \A b \in Freed : SizeOf(m, b) = blocks[b].size
    BY <1>1, LiveIsAllocated
  <1>4. Spoilt(r) \/ Malloced(m, r, n)
    BY <1>1, <1>2, <1>3, MallocedGives
  <1>5. CASE Spoilt(r)
    BY <1>2, <1>5, SpoiltBecomes DEF Stepped
  <1>6. CASE Malloced(m, r, n)
    <2>1. /\ Settles(r) /\ Keeps(m, r, NULL)
          /\ r.got = NULL \/ HandedOut(m, r, Units(n))
          /\ r.cap = m.cap /\ r.top > m.top =>
               r.got # NULL /\ \A b \in Freeds(m) : SizeOf(m, b) < Units(n)
      BY <1>6 DEF Malloced
    <2>2. /\ Settles(Allocator') /\ DOMAIN tree' = 0..Cardinality(DOMAIN tree') - 1
          /\ blocks' = r.blocks /\ root' = r.root /\ capacity' = r.cap /\ heap_end' = r.top
          /\ spoiled' = FALSE
      BY <1>2, <2>1, BecomesGives
    <2>3. Holds(r, live)
      BY <1>3, <2>1, HoldsKept
    <2>4. Holds(r, live')
      <3>1. CASE r.got = NULL
        BY <1>2, <2>3, <3>1
      <3>2. CASE r.got # NULL
        <4>1. PICK g : g = r.got
          OBVIOUS
        <4>2. /\ g \in DOMAIN r.blocks /\ r.blocks[g].status = "allocated" /\ g # r.root
              /\ r.blocks[g].size = Units(n)
          BY <2>1, <3>2, <4>1 DEF HandedOut
        <4>3. n + 9 <= r.blocks[g].size * 8
          <5>1. Units(n) \in Nat /\ Units(n) * 8 >= n + 8 + 1
            BY <1>2, UnitsGives
          <5> QED BY <1>2, <4>2, <5>1
        <4>4. live' = Put(live, g, n)
          BY <1>2, <3>2, <4>1
        <4> QED BY <1>2, <2>3, <4>2, <4>3, <4>4, HoldsPut
      <3> QED BY <3>1, <3>2
    <2>5. Holds(Allocator', live')
      BY <2>2, <2>4, HoldsNext
    <2>6. Grown
      <3>1. ASSUME heap_end' > heap_end, capacity' = capacity
            PROVE  \E h \in DOMAIN live' \ DOMAIN live :
                     \A b \in Freed : blocks[b].size < blocks'[h].size
        <4>1. r.got # NULL /\ \A b \in Freeds(m) : SizeOf(m, b) < Units(n)
          BY <1>3, <2>1, <2>2, <3>1
        <4>2. PICK g : g = r.got
          OBVIOUS
        <4>3. r.blocks[g].size = Units(n) /\ Fresh(m, g)
          BY <2>1, <4>1, <4>2 DEF HandedOut
        <4>4. g \in DOMAIN live' \ DOMAIN live
          <5>1. live' = Put(live, g, n)
            BY <1>2, <4>1, <4>2
          <5>2. g \in DOMAIN live'
            BY <5>1, PutKeys
          <5> QED BY <1>3, <4>3, <5>2
        <4> QED BY <1>3, <2>2, <4>1, <4>3, <4>4
      <3> QED BY <3>1 DEF Grown
    <2> QED BY <2>2, <2>5, <2>6 DEF Stepped
  <1> QED BY <1>4, <1>5, <1>6

\* mm_free.
LEMMA FreeSteps ==
  ASSUME IInv, spoiled = FALSE, NEW h \in DOMAIN live, mm_free(h)
  PROVE  Stepped
  <1>1. PICK m, r : m = Allocator /\ r = AdjustCapacity(FreeOnly(m, h))
    OBVIOUS
  <1>2. Becomes(r) /\ live' = Without(h)
    BY <1>1 DEF mm_free
  <1>3. /\ Settles(m) /\ Holds(m, live)
        /\ m.cap = capacity /\ m.top = heap_end /\ Ready(m)
        /\ h \in DOMAIN m.blocks /\ h # m.root /\ m.blocks[h].status = "allocated"
    BY <1>1, LiveIsAllocated
  <1>4. Spoilt(r) \/ Returned(m, r, h)
    BY <1>1, <1>3, FreedGives
  <1>5. CASE Spoilt(r)
    BY <1>2, <1>5, SpoiltBecomes DEF Stepped
  <1>6. CASE Returned(m, r, h)
    <2>1. Settles(r) /\ Keeps(m, r, h) /\ (r.cap = m.cap => r.top = m.top)
      BY <1>6 DEF Returned
    <2>2. /\ Settles(Allocator') /\ DOMAIN tree' = 0..Cardinality(DOMAIN tree') - 1
          /\ blocks' = r.blocks /\ root' = r.root /\ capacity' = r.cap /\ heap_end' = r.top
          /\ spoiled' = FALSE
      BY <1>2, <2>1, BecomesGives
    <2>3. /\ DOMAIN live' \subseteq DOMAIN live /\ h \notin DOMAIN live'
          /\ \A b \in DOMAIN live' : live'[b] = live[b]
      BY <1>2 DEF Without
    <2>4. Holds(r, live')
      BY <1>3, <2>1, <2>3, HoldsKept
    <2>5. Holds(Allocator', live')
      BY <2>2, <2>4, HoldsNext
    <2>6. Grown
      <3>1. m.top \in Nat
        BY <1>3 DEF Ready, Whole, Tiled
      <3>2. ~(heap_end' > heap_end /\ capacity' = capacity)
        BY <1>3, <2>1, <2>2, <3>1
      <3> QED BY <3>2 DEF Grown
    <2> QED BY <2>2, <2>5, <2>6 DEF Stepped
  <1> QED BY <1>4, <1>5, <1>6

\* mm_realloc.
LEMMA ReallocSteps ==
  ASSUME IInv, spoiled = FALSE, NEW h \in DOMAIN live, NEW n \in NewSizes, mm_realloc(h, n)
  PROVE  Stepped
  <1>1. PICK m, size : m = Allocator /\ size = Units(n)
    OBVIOUS
  <1>2. PICK new : new = AdjustCapacity(MallocOnly(m, size * 8))
    OBVIOUS
  <1>3. PICK x : x = OrElse(ReallocInPlace(m, h, size), BlockMoved(new, h))
    OBVIOUS
  <1>4. PICK r : r = Unless(size = SizeOf(m, h), x)
    OBVIOUS
  <1>5. /\ Becomes(r) /\ n \in Nat
        /\ live' = IF r.got = NULL THEN live ELSE Put(Without(h), r.got, n)
    BY <1>1, <1>2, <1>3, <1>4, SizesAssumption DEF mm_realloc, Returns
  <1>6. /\ Settles(m) /\ Holds(m, live) /\ NULL \notin DOMAIN live
        /\ m.cap = capacity /\ m.top = heap_end /\ Ready(m)
        /\ h \in DOMAIN m.blocks /\ h # m.root /\ m.blocks[h].status = "allocated"
        /\ \A g : Fresh(m, g) => g \notin DOMAIN live
        /\ Freeds(m) = Freed /\ \A b \in Freed : SizeOf(m, b) = blocks[b].size
    BY <1>1, LiveIsAllocated
  <1>7. Spoilt(r) \/ Realloced(m, r, h, n)
    BY <1>1, <1>2, <1>3, <1>4, <1>5, <1>6, ReallocedGives
  <1>8. CASE Spoilt(r)
    BY <1>5, <1>8, SpoiltBecomes DEF Stepped
  <1>9. CASE Realloced(m, r, h, n)
    <2>1. PICK g : g = r.got
      OBVIOUS
    <2>2. /\ Settles(r) /\ Keeps(m, r, h)
          /\ g \in DOMAIN r.blocks /\ r.blocks[g].status = "allocated" /\ g # r.root
          /\ n + 9 <= r.blocks[g].size * 8
          /\ r.cap = m.cap /\ r.top > m.top =>
               Fresh(m, g) /\ \A b \in Freeds(m) : SizeOf(m, b) < r.blocks[g].size
      BY <1>9, <2>1 DEF Realloced
    <2>3. /\ Settles(Allocator') /\ DOMAIN tree' = 0..Cardinality(DOMAIN tree') - 1
          /\ blocks' = r.blocks /\ root' = r.root /\ capacity' = r.cap /\ heap_end' = r.top
          /\ spoiled' = FALSE
      BY <1>5, <2>2, BecomesGives
    <2>4. g # NULL
      BY <2>2, WholeShape DEF Settles, Ready
    <2>5. live' = Put(Without(h), g, n)
      BY <1>5, <2>1, <2>4
    <2>6. PICK w : w = Without(h)
      OBVIOUS
    <2>7. /\ DOMAIN w \subseteq DOMAIN live /\ h \notin DOMAIN w
          /\ \A b \in DOMAIN w : w[b] = live[b]
      BY <2>6 DEF Without
    <2>8. Holds(r, w)
      BY <1>6, <2>2, <2>7, HoldsKept
    <2>9. Holds(r, live')
      BY <1>5, <2>2, <2>5, <2>6, <2>8, HoldsPut
    <2>10. Holds(Allocator', live')
      BY <2>3, <2>9, HoldsNext
    <2>11. Grown
      <3>1. ASSUME heap_end' > heap_end, capacity' = capacity
            PROVE  \E b \in DOMAIN live' \ DOMAIN live :
                     \A k \in Freed : blocks[k].size < blocks'[b].size
        <4>1. Fresh(m, g) /\ \A b \in Freeds(m) : SizeOf(m, b) < r.blocks[g].size
          BY <1>6, <2>2, <2>3, <3>1
        <4>2. g \in DOMAIN live' \ DOMAIN live
          <5>1. g \in DOMAIN live'
            BY <2>5, PutKeys
          <5> QED BY <1>6, <4>1, <5>1
        <4> QED BY <1>6, <2>3, <4>1, <4>2
      <3> QED BY <3>1 DEF Grown
    <2> QED BY <2>3, <2>10, <2>11 DEF Stepped
  <1> QED BY <1>7, <1>8, <1>9

\* Every step keeps the invariant, and lets the heap grow only when it is full.
LEMMA NextIsSound ==
  ASSUME IInv, Next
  PROVE  IInv' /\ Grown
  <1>1. spoiled = FALSE /\ calls < MaxCalls /\ calls' = calls + 1 /\ calls \in 0..MaxCalls
    BY DEF IInv, Next
  <1>2. Stepped
    <2>1. CASE \E n \in Sizes : mm_malloc(n)
      BY <1>1, <2>1, MallocSteps
    <2>2. CASE \E h \in DOMAIN live : mm_free(h)
      BY <1>1, <2>2, FreeSteps
    <2>3. CASE \E h \in DOMAIN live, n \in NewSizes : mm_realloc(h, n)
      BY <1>1, <2>3, ReallocSteps
    <2> QED BY <2>1, <2>2, <2>3 DEF Next
  <1>3. calls' \in 0..MaxCalls
    BY <1>1, ArenaAssumption
  <1>4. IInv'
    BY <1>2, <1>3 DEF Stepped, IInv
  <1>5. Grown
    BY <1>2 DEF Stepped, Grown
  <1> QED BY <1>4, <1>5

\* The invariant is about the variables only.
LEMMA StutterIsSound ==
  ASSUME IInv, UNCHANGED vars
  PROVE  IInv'
  BY DEF IInv, vars, Settles, Ready, Rooted, Holds, Allocator, Whole, Heap

-------------------------------------------------------------------------------
(* The theorems.                                                             *)

\* IInv is inductive: it holds in every state, so that everything below can be read off
\* from it and from what a step between two such states does.
THEOREM Invariance == Spec => []IInv
  <1>1. Init => IInv
    BY InitIsSound
  <1>2. IInv /\ [Next]_vars => IInv'
    BY NextIsSound, StutterIsSound
  <1> QED BY <1>1, <1>2, PTL DEF Spec

\* The blocks cover the heap from end to end, and everything has its type.
THEOREM TypeCorrect == Spec => []TypeOK
  <1>1. ASSUME IInv PROVE TypeOK
    <2>1. CASE spoiled = FALSE
      <3>1. PICK m : m = Allocator
        OBVIOUS
      <3>2. /\ Settles(m) /\ m.blocks = blocks /\ m.root = root /\ m.cap = capacity
            /\ m.top = heap_end /\ DOMAIN tree = 0..Cardinality(DOMAIN tree) - 1
        BY <1>1, <2>1, <3>1, AllocatorFields DEF IInv
      <3>3. /\ Tiled(blocks, heap_end) /\ Wander(blocks) /\ root \in DOMAIN blocks
            /\ capacity \in Nat /\ heap_end <= Arena
        BY <3>2 DEF Settles, Ready, Rooted, Whole
      <3>4. \A h \in DOMAIN blocks : /\ h \in Nat /\ blocks[h] \in BlockRecords
                                     /\ blocks[h].size \in Nat \ {0}
                                     /\ h + blocks[h].size <= heap_end
                                     /\ h + blocks[h].size \in DOMAIN blocks \cup {heap_end}
        BY <3>3, SizeIsNat DEF Tiled
      <3>5. heap_end \in 0..Arena
        BY <3>3, ArenaAssumption DEF Tiled
      <3>6. DOMAIN blocks \subseteq 0..heap_end - 1
        BY <3>4, <3>5
      <3>7. \A h \in DOMAIN blocks : blocks[h].status = "wandering" <=> blocks[h].size = 1
        BY <3>3 DEF Wander
      <3> QED BY <1>1, <3>2, <3>3, <3>4, <3>5, <3>6, <3>7 DEF IInv, TypeOK, BlockRecords
    <2>2. CASE spoiled # FALSE
      BY <1>1, <2>2 DEF IInv, TypeOK
    <2> QED BY <2>1, <2>2
  <1> QED BY <1>1, Invariance, PTL

\* No two of the user's blocks, nor one of them and the freetree, share a unit,
\* and each has room for what was asked for.
THEOREM BlocksApart == Spec => []LiveBlocksApart
  <1>1. ASSUME IInv PROVE LiveBlocksApart
    <2>1. CASE spoiled = FALSE
      <3>1. PICK m : m = Allocator
        OBVIOUS
      <3>2. /\ Settles(m) /\ Holds(m, live) /\ m.blocks = blocks /\ m.root = root
            /\ m.top = heap_end
        BY <1>1, <2>1, <3>1, AllocatorFields DEF IInv
      <3>3. /\ Tiled(blocks, heap_end) /\ root \in DOMAIN blocks
            /\ blocks[root].status = "allocated"
        BY <3>2 DEF Settles, Ready, Rooted, Whole
      <3>4. \A h \in DOMAIN live : /\ h \in DOMAIN blocks /\ blocks[h].status = "allocated"
                                   /\ h # root /\ live[h] \in Nat
                                   /\ live[h] + 9 <= blocks[h].size * 8
        BY <3>2 DEF Holds
      <3>5. \A h \in InUse : h \in DOMAIN blocks /\ blocks[h].status = "allocated"
        BY <3>3, <3>4 DEF InUse
      <3>6. \A h, k \in InUse : h < k => h + blocks[h].size <= k
        BY <3>3, <3>5 DEF Tiled
      <3>7. \A h \in DOMAIN live : blocks[h].size * 8 >= live[h] + 8 + 1
        <4>1. ASSUME NEW h \in DOMAIN live PROVE blocks[h].size * 8 >= live[h] + 8 + 1
          <5>1. h \in DOMAIN blocks /\ live[h] \in Nat /\ live[h] + 9 <= blocks[h].size * 8
            BY <3>4
          <5>2. blocks[h].size \in Nat
            BY <3>3, <5>1, SizeIsNat DEF Tiled
          <5> QED BY <5>1, <5>2
        <4> QED BY <4>1
      <3> QED BY <3>4, <3>5, <3>6, <3>7 DEF LiveBlocksApart
    <2>2. CASE spoiled # FALSE
      BY <1>1, <2>2 DEF IInv, LiveBlocksApart
    <2> QED BY <2>1, <2>2
  <1> QED BY <1>1, Invariance, PTL

\* The freetree is an index, in heap order, of exactly the freed blocks.
THEOREM FreetreeIsIndex == Spec => []FreetreeIndexesFreed
  <1>1. ASSUME IInv PROVE FreetreeIndexesFreed
    <2>1. CASE spoiled = FALSE
      <3>1. PICK m : m = Allocator
        OBVIOUS
      <3>2. /\ Settles(m) /\ m.blocks = blocks /\ m.tree = tree
            /\ DOMAIN tree = 0..m.end - 1
        BY <1>1, <2>1, <3>1, AllocatorFields DEF IInv
      <3>3. Heap(m, Freeds(m)) /\ Freeds(m) = Freed
        BY <3>2 DEF Settles, Ready, Whole, Freeds, Freed
      <3>4. /\ \A k \in 0..m.end - 1 : tree[k] \in Freed /\ blocks[tree[k]].node = k
            /\ \A h \in Freed : blocks[h].node \in 0..m.end - 1 /\ tree[blocks[h].node] = h
            /\ \A k \in 0..m.end - 1 : k # 0 => NodeSize(m, k) <= NodeSize(m, Parent(k))
        <4>1. PICK F : F = Freed
          OBVIOUS
        <4>2. Heap(m, F)
          BY <3>3, <4>1
        <4>3. /\ \A k \in 0..m.end - 1 : m.tree[k] \in F /\ m.blocks[m.tree[k]].node = k
              /\ \A h \in F : m.blocks[h].node \in 0..m.end - 1 /\ m.tree[m.blocks[h].node] = h
              /\ \A k \in 0..m.end - 1 : k # 0 => NodeSize(m, k) <= NodeSize(m, Parent(k))
          BY <4>2, HeapNodes
        <4> QED BY <3>2, <4>1, <4>3
      <3>5. MmCheck
        BY <3>2, <3>4 DEF MmCheck
      <3>6. Freed = {tree[i] : i \in DOMAIN tree}
        BY <3>2, <3>4
      <3>7. \A k : NodeSize(m, k) = blocks[tree[k]].size
        BY <3>2 DEF NodeSize, SizeOf
      <3>8. \A i \in DOMAIN tree \ {0} : blocks[tree[i]].size <= blocks[tree[Parent(i)]].size
        BY <3>2, <3>4, <3>7
      <3> QED BY <3>5, <3>6, <3>8 DEF FreetreeIndexesFreed
    <2>2. CASE spoiled # FALSE
      BY <1>1, <2>2 DEF IInv, FreetreeIndexesFreed
    <2> QED BY <2>1, <2>2
  <1> QED BY <1>1, Invariance, PTL

\* Between calls the freetree has room for ten nodes more, in its own block.
THEOREM RoomForNodes == Spec => []FreetreeHasRoom
  <1>1. ASSUME IInv PROVE FreetreeHasRoom
    <2>1. CASE spoiled = FALSE
      <3>1. PICK m : m = Allocator
        OBVIOUS
      <3>2. /\ Settles(m) /\ m.blocks = blocks /\ m.root = root /\ m.cap = capacity
            /\ m.end = Cardinality(DOMAIN tree)
        BY <1>1, <2>1, <3>1, AllocatorFields DEF IInv
      <3>3. /\ m.end \in Nat /\ capacity \in Nat /\ m.end + 10 <= capacity
            /\ capacity * 8 + 9 <= blocks[root].size * 8
        BY <3>2, WholeShape DEF Settles, Ready, Rooted
      <3>4. m.end <= capacity - 10 /\ capacity * 8 + 8 + 1 <= blocks[root].size * 8
        BY <3>3
      <3> QED BY <3>2, <3>4 DEF FreetreeHasRoom
    <2>2. CASE spoiled # FALSE
      BY <1>1, <2>2 DEF IInv, FreetreeHasRoom
    <2> QED BY <2>1, <2>2
  <1> QED BY <1>1, Invariance, PTL

\* Apart from the freetree's own needs, the heap grows only when no freed block
\* is large enough for the block handed out.
THEOREM GrowthIsNeeded == Spec => GrowsOnlyWhenFull
  <1>1. ASSUME IInv, [Next]_vars
        PROVE  [heap_end' > heap_end /\ capacity' = capacity /\ ~spoiled' =>
                  \E h \in DOMAIN live' \ DOMAIN live :
                    \A b \in Freed : blocks[b].size < blocks'[h].size]_vars
    <2>1. CASE Next
      BY <1>1, <2>1, NextIsSound DEF Grown
    <2>2. CASE UNCHANGED vars
      BY <2>2
    <2> QED BY <1>1, <2>1, <2>2
  <1> QED BY <1>1, Invariance, PTL DEF Spec, GrowsOnlyWhenFull

===============================================================================
