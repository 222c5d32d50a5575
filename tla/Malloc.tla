-------------------------------- MODULE Malloc --------------------------------
(***************************************************************************)
(* The allocator of malloclab_code/mm.c.  The heap is cut into blocks of   *)
(* 8-byte units, each with a status and size in its first unit.  Freed     *)
(* blocks are the nodes of a binary max-heap on their size, the freetree,  *)
(* an array that lives in a block of the same heap; the last unit of a     *)
(* freed block holds the offset of its node.  A freed remainder of one     *)
(* unit has no room for that and is left as a "wandering" block.           *)
(*                                                                         *)
(* An address is a unit's offset from heap_start and a block is named by   *)
(* the address of its header.  The contents of allocated blocks are left   *)
(* out, except the freetree's own.  A step is one call by the user; the    *)
(* static functions map one state of the allocator, a record m, to the     *)
(* next and mm_malloc, mm_free and mm_realloc compose them.                *)
(***************************************************************************)
EXTENDS Integers, FiniteSets

CONSTANTS Sizes,        \* sizes in bytes that mm_malloc is called with
          NewSizes,     \* sizes in bytes that mm_realloc is called with
          Arena,        \* units that mem_sbrk can give out in all
          MaxCalls      \* bound on the calls of the user

ASSUME SizesAssumption == Sizes \subseteq Nat /\ NewSizes \subseteq Nat
ASSUME ArenaAssumption == Arena \in Nat /\ Arena >= 14 /\ MaxCalls \in Nat

VARIABLES blocks,       \* header address -> size, status and footer
          tree,         \* freetree_root_ptr[0 .. freetree_node_end_offset - 1]
          root,         \* the block the freetree lives in
          capacity,     \* freetree_capacity
          heap_end,
          live,         \* ghost: the user's blocks and the bytes asked for
          calls,        \* ghost: the calls so far
          spoiled       \* ghost: a call has run into undefined behaviour

vars == <<blocks, tree, root, capacity, heap_end, live, calls, spoiled>>

NULL      == -1         \* no block
NOT_EXIST == -1         \* no node

\* The value of BLOCK_IS_WANDERING's constant where a footer has its offset.
WANDERING_OFFSET == 10

Align(n) == ((n + 7) \div 8) * 8

\* The units of the block for a request of n bytes: a unit of header, at least
\* one byte of footer.
Units(n) == Align(n + 8 + 1) \div 8

Block(size, status, node) == [size |-> size, status |-> status, node |-> node]

Allocator == [blocks |-> blocks, tree |-> tree, end |-> Cardinality(DOMAIN tree),
              root |-> root, cap |-> capacity, top |-> heap_end,
              got |-> NULL, bad |-> spoiled]

\* A call that has run into undefined behaviour goes no further; it returns h.
Undefined(m, h) == [blocks |-> m.blocks, tree |-> m.tree, end |-> m.end, root |-> m.root,
                    cap |-> m.cap, top |-> m.top, got |-> h, bad |-> TRUE]

\* f with v at k.
Put(f, k, v) == [x \in DOMAIN f \cup {k} |-> IF x = k THEN v ELSE f[x]]

SizeOf(m, h)  == m.blocks[h].size
After(m, h)   == h + SizeOf(m, h)
NodeSize(m, i) == SizeOf(m, m.tree[i])
NodeOf(m, h)  == IF m.blocks[h].status = "wandering" THEN NOT_EXIST
                                                     ELSE m.blocks[h].node

-------------------------------------------------------------------------------
(* The freetree.                                                           *)

Left(i)   == 2 * i + 1
Right(i)  == 2 * i + 2
Parent(i) == (i - 1) \div 2

\* Node i points to block h, and the footer of h to node i.
SetNode(m, i, h) == [m EXCEPT !.tree = Put(@, i, h), !.blocks[h].node = i]

Swap(m, i, j) == SetNode(SetNode(m, i, m.tree[j]), j, m.tree[i])

\* The larger of node a and, if there is one, node b.
Larger(m, a, b) == IF b < m.end /\ NodeSize(m, a) < NodeSize(m, b) THEN b ELSE a

\* A turn of the loops that move a node: s.m is the allocator so far and s.at
\* where the node is now.
SinkTurn(s) ==
  LET next == Larger(s.m, Larger(s.m, s.at, Left(s.at)), Right(s.at))
  IN  IF next = s.at THEN s ELSE [m |-> Swap(s.m, s.at, next), at |-> next]

EmergeTurn(s) ==
  IF s.at = 0 \/ NodeSize(s.m, s.at) <= NodeSize(s.m, Parent(s.at)) THEN s
  ELSE [m |-> Swap(s.m, s.at, Parent(s.at)), at |-> Parent(s.at)]

\* The loops, from their start to the number of turns that is always enough: a
\* turn leaves the node where it is once it is in its place.
Sink(m, i) ==
  LET turns[k \in 0..m.end] == IF k = 0 THEN [m |-> m, at |-> i] ELSE SinkTurn(turns[k - 1])
  IN  turns[m.end].m

Emerge(m, i) ==
  LET turns[k \in 0..i] == IF k = 0 THEN [m |-> m, at |-> i] ELSE EmergeTurn(turns[k - 1])
  IN  turns[i].m

\* A fault: the footer of the block whose node moves is not updated.
DeleteUnsynced(m, i) == [m EXCEPT !.end = @ - 1, !.tree[i] = m.tree[m.end - 1]]

\* The last leaf takes the place of node i.
DeleteNode(m, i) ==
  LET fewer == [m EXCEPT !.end = @ - 1]
  IN  IF i = m.end - 1 THEN fewer
      ELSE Emerge(Sink(SetNode(fewer, i, m.tree[m.end - 1]), i), i)

\* From a node that is large enough down to a smaller son that still is.
DescendTurn(m, size, i) ==
  LET fits(j) == j < m.end /\ NodeSize(m, j) >= size
      left == IF fits(Left(i)) THEN Left(i) ELSE i
  IN  CASE NodeSize(m, i) = size -> i
        [] NodeSize(m, i) # size ->
             IF fits(Right(i)) /\ NodeSize(m, left) >= NodeSize(m, Right(i)) THEN Right(i) ELSE left

Descend(m, size) ==
  LET turns[k \in 0..m.end] == IF k = 0 THEN 0 ELSE DescendTurn(m, size, turns[k - 1])
  IN  turns[m.end]

\* A fault: a root of just the size asked for is passed over.
FindLargerNode(m, size) ==
  IF m.end = 0 \/ NodeSize(m, 0) <= size THEN NOT_EXIST ELSE Descend(m, size)

FindSuitableNode(m, size) ==
  IF m.end = 0 \/ NodeSize(m, 0) < size THEN NOT_EXIST ELSE Descend(m, size)

-------------------------------------------------------------------------------
(* Blocks.                                                                 *)

\* The units from lo to hi, so far of whole blocks, are no longer blocks; and h
\* becomes one.
Cleared(m, lo, hi) ==
  [m EXCEPT !.blocks = [h \in {k \in DOMAIN @ : k \notin lo..hi - 1} |-> @[h]]]

SetBlock(m, h, block) == [m EXCEPT !.blocks = Put(@, h, block)]

\* block_tryget_previous_available: it reads the unit before h as a footer and
\* believes the node it names.  A wandering unit read that way names node 10.
PrevAvailable(m, h) ==
  LET before == {p \in DOMAIN m.blocks : After(m, p) = h}
      p      == CHOOSE b \in before : TRUE
      node   == m.blocks[p].node
  IN  CASE before = {} -> NULL
        [] before # {} /\ m.blocks[p].status = "freed" ->
             IF node < m.end /\ m.blocks[m.tree[node]].status = "freed"
             THEN m.tree[node] ELSE NULL
        [] before # {} /\ m.blocks[p].status = "wandering" ->
             IF WANDERING_OFFSET < m.end THEN p ELSE NULL
        [] OTHER -> NULL

\* A fault: the status of the next block is not looked at.
NextWhatever(m, h) == IF After(m, h) < m.top THEN After(m, h) ELSE NULL

NextAvailable(m, h) ==
  LET next == After(m, h)
  IN  IF next < m.top /\ m.blocks[next].status # "allocated" THEN next ELSE NULL

\* block_setup_new_allocated for the first size units from lo to hi, and
\* block_bind_freed_with_existed_node for the others: node is that of a freed
\* block among them, which the remainder inherits, or NOT_EXIST.
Allocate(m, lo, hi, size, node) ==
  LET rest   == hi - lo - size
      free   == Block(rest, IF rest = 1 THEN "wandering" ELSE "freed", NOT_EXIST)
      used   == SetBlock(Cleared(m, lo, hi), lo, Block(size, "allocated", NOT_EXIST))
      cut    == IF rest = 0 THEN used ELSE SetBlock(used, lo + size, free)
      i      == IF node = NOT_EXIST THEN m.end ELSE node
      grown  == [cut EXCEPT !.end = IF node = NOT_EXIST THEN @ + 1 ELSE @]
  IN  [ (CASE rest >= 2 -> Sink(Emerge(SetNode(grown, i, lo + size), i), i)
           [] rest < 2 /\ node # NOT_EXIST -> DeleteNode(cut, node)
           [] OTHER -> cut)
        EXCEPT !.got = lo]

\* A fault: the heap grows by the whole size although its last block is used.
EnlargeByAll(m, size) ==
  LET last  == PrevAvailable(m, m.top)
      start == IF last = NULL THEN m.top ELSE last
      less  == IF last = NULL THEN m ELSE DeleteNode(m, NodeOf(m, last))
  IN  Allocate([less EXCEPT !.top = m.top + size], start, start + size, size, NOT_EXIST)

\* mem_enlarge_and_allocate: a free block at the end of the heap is extended.
\* Its node is gone before mem_sbrk is asked, and stays so when that fails; a
\* wandering block there has none, and something else is overwritten.
Enlarge(m, size) ==
  LET last  == PrevAvailable(m, m.top)
      noded == last # NULL /\ NodeOf(m, last) # NOT_EXIST
      start == IF noded THEN last ELSE m.top
      less  == IF noded THEN DeleteNode(m, NodeOf(m, last)) ELSE m
  IN  CASE last # NULL /\ ~noded -> Undefined(m, NULL)
        [] last = NULL \/ noded ->
             IF start + size <= Arena
             THEN Allocate([less EXCEPT !.top = start + size], start, start + size, size, NOT_EXIST)
             ELSE IF noded THEN Undefined(less, NULL) ELSE [m EXCEPT !.got = NULL]

-------------------------------------------------------------------------------
(* The calls, up to freetree_adjust_capacity_if_necessary.                 *)

MallocOnly(m, n) ==
  LET i == FindSuitableNode(m, Units(n))
      h == m.tree[i]
  IN  IF i = NOT_EXIST THEN Enlarge(m, Units(n))
      ELSE Allocate(m, h, After(m, h), Units(n), NodeOf(m, h))

\* The block and its free neighbours become one, which keeps the node with the
\* lower offset; the other neighbour's node is deleted.
FreeOnly(m, h) ==
  LET prev  == PrevAvailable(m, h)
      next  == NextAvailable(m, h)
      lo    == IF prev = NULL THEN h ELSE prev
      hi    == IF next = NULL THEN After(m, h) ELSE After(m, next)
      nodes == {NodeOf(m, b) : b \in {prev, next} \ {NULL}} \ {NOT_EXIST}
      i     == IF nodes = {} THEN m.end ELSE CHOOSE n \in nodes : \A k \in nodes : n <= k
      grown == [m EXCEPT !.end = IF nodes = {} THEN @ + 1 ELSE @]
      whole == SetBlock(Cleared(grown, lo, hi), lo, Block(hi - lo, "freed", i))
      freed == Emerge(SetNode(whole, i, lo), i)
  IN  IF Cardinality(nodes) < 2 THEN freed
      ELSE DeleteNode(freed, CHOOSE n \in nodes : n # i)

\* mm_realloc's cases 2 and 3: the payload moves down into the free block prev,
\* up to hi.  The node of prev is found before that of next is deleted; if the
\* deletion moves it, it writes a footer into the payload and leaves behind an
\* offset that is no longer prev's.
MoveDown(m, prev, next, hi, size) ==
  LET node == NodeOf(m, prev)
      less == IF next = NULL \/ NodeOf(m, next) = NOT_EXIST THEN m
              ELSE DeleteNode(m, NodeOf(m, next))
      done == Allocate(less, prev, hi, size, node)
  IN  CASE node = NOT_EXIST -> Undefined(less, prev)
        [] node # NOT_EXIST ->
             IF less.blocks[prev].node = node THEN done ELSE Undefined(done, prev)

\* mm_realloc up to the point where no block in reach is large enough.
ReallocInPlace(m, h, size) ==
  LET have   == SizeOf(m, h)
      prev   == PrevAvailable(m, h)
      next   == NextAvailable(m, h)
      before == IF prev = NULL THEN 0 ELSE SizeOf(m, prev)
      after  == IF next = NULL THEN 0 ELSE SizeOf(m, next)
      noded  == next # NULL /\ NodeOf(m, next) # NOT_EXIST
      case1  == next # NULL /\ have + after >= size
      case2  == ~case1 /\ prev # NULL /\ before <= size /\ before + have >= size
      case3  == /\ ~case1 /\ ~case2 /\ prev # NULL /\ next # NULL
                /\ before + have + after >= size
  IN  CASE size <= have -> Allocate(m, h, h + have, size, NOT_EXIST)
        [] size > have /\ case1 ->
             Allocate(m, h, After(m, next), size, NodeOf(m, next))
        [] size > have /\ case2 ->
             MoveDown(m, prev, IF noded THEN next ELSE NULL,
                      IF noded THEN After(m, next) ELSE h + have, size)
        [] size > have /\ case3 -> MoveDown(m, prev, next, After(m, next), size)
        [] OTHER -> [m EXCEPT !.got = NULL]

\* The rest of mm_realloc: new is the result of a mm_malloc, which may have
\* failed.  While the freetree itself is moved, its capacity is left alone.
OrElse(here, elsewhere) == IF here.got # NULL THEN here ELSE elsewhere

TreeMoved(new, h) ==
  IF new.got = NULL THEN Undefined(new, NULL)
  ELSE [FreeOnly([new EXCEPT !.root = new.got], h) EXCEPT !.got = new.got]

Settled(m, cap, got) == [m EXCEPT !.cap = cap, !.root = m.got, !.got = got]

Resized(m, cap) ==
  Settled(OrElse(ReallocInPlace(m, m.root, Units(cap * 8)),
                 TreeMoved(MallocOnly(m, Units(cap * 8) * 8), m.root)),
          cap, m.got)

NewCapacity(m) ==
  CASE m.end > m.cap - 10 -> Align((m.cap * 3) \div 2)
    [] m.end <= m.cap - 10 /\ m.cap > 256 /\ m.end * 10 < m.cap * 6 ->
         Align(m.end \div 2 + m.cap \div 2)
    [] OTHER -> m.cap

\* A fault: the capacity is adjusted only once the freetree overflows.
AdjustLate(m) ==
  IF m.end > m.cap THEN Resized(m, Align((m.cap * 3) \div 2)) ELSE m

\* freetree_adjust_capacity_if_necessary; a call goes no further once it has run
\* into undefined behaviour.
AdjustCapacity(m) ==
  IF m.bad \/ NewCapacity(m) = m.cap THEN m ELSE Resized(m, NewCapacity(m))

BlockMoved(new, h) ==
  IF new.bad \/ new.got = NULL THEN Undefined(new, NULL)
  ELSE [AdjustCapacity(FreeOnly(new, h)) EXCEPT !.got = new.got]

-------------------------------------------------------------------------------
(* The user's calls.                                                       *)

\* What lies in the freetree beyond its last node is not read again.
Becomes(m) ==
  /\ blocks' = m.blocks /\ tree' = [i \in 0..m.end - 1 |-> m.tree[i]]
  /\ root' = m.root /\ capacity' = m.cap /\ heap_end' = m.top /\ spoiled' = m.bad

Without(h) == [b \in DOMAIN live \ {h} |-> live[b]]

\* mm_malloc on the empty heap with room for 12 nodes.
Init ==
  /\ blocks = [h \in {0} |-> Block(Units(12 * 8), "allocated", NOT_EXIST)]
  /\ tree = << >> /\ root = 0 /\ capacity = 12 /\ heap_end = Units(12 * 8)
  /\ live = << >> /\ calls = 0 /\ spoiled = FALSE

\* A call returns m.got for the n bytes asked for; kept are the other blocks.
Returns(m, n, kept) ==
  /\ Becomes(m)
  /\ live' = IF m.got = NULL THEN live ELSE Put(kept, m.got, n)

mm_malloc(n) == Returns(AdjustCapacity(MallocOnly(Allocator, n)), n, live)

mm_free(h) ==
  /\ Becomes(AdjustCapacity(FreeOnly(Allocator, h)))
  /\ live' = Without(h)

\* A call for the size the block has returns before the capacity is adjusted.
Unless(same, m) == IF same THEN m ELSE AdjustCapacity(m)

mm_realloc(h, n) ==
  Returns(Unless(Units(n) = SizeOf(Allocator, h),
                 OrElse(ReallocInPlace(Allocator, h, Units(n)),
                        BlockMoved(AdjustCapacity(MallocOnly(Allocator, Units(n) * 8)), h))),
          n, Without(h))

\* After undefined behaviour there is nothing to say about further calls.
Next ==
  /\ ~spoiled
  /\ calls < MaxCalls /\ calls' = calls + 1
  /\ \/ \E n \in Sizes : mm_malloc(n)
     \/ \E h \in DOMAIN live : mm_free(h)
     \/ \E h \in DOMAIN live, n \in NewSizes : mm_realloc(h, n)

Spec == Init /\ [][Next]_vars

-------------------------------------------------------------------------------
(* Properties.                                                             *)

Statuses == {"allocated", "freed", "wandering"}

TypeOK ==
  /\ calls \in 0..MaxCalls /\ spoiled \in BOOLEAN
  /\ ~spoiled =>
       /\ DOMAIN blocks \subseteq 0..heap_end - 1
       /\ \A h \in DOMAIN blocks :
            /\ blocks[h] \in [size : Nat \ {0}, status : Statuses, node : Int]
            /\ h + blocks[h].size \in DOMAIN blocks \cup {heap_end}
            /\ blocks[h].status = "wandering" <=> blocks[h].size = 1
       /\ DOMAIN tree = 0..Cardinality(DOMAIN tree) - 1
       /\ root \in DOMAIN blocks /\ capacity \in Nat /\ heap_end \in 0..Arena

Freed == {h \in DOMAIN blocks : blocks[h].status = "freed"}
InUse == DOMAIN live \cup {root}

\* Every block the user holds has room for what was asked for, and it overlaps
\* neither another one nor the freetree, wherever the freetree has moved to.
LiveBlocksApart == ~spoiled =>
  /\ root \notin DOMAIN live
  /\ \A h \in InUse : h \in DOMAIN blocks /\ blocks[h].status = "allocated"
  /\ \A h \in DOMAIN live : blocks[h].size * 8 >= live[h] + 8 + 1
  /\ \A h, k \in InUse : h < k => h + blocks[h].size <= k

\* What mm_check looks for: a node points to a freed block, whose footer gives
\* the offset of that node.
MmCheck == \A i \in DOMAIN tree : /\ tree[i] \in Freed
                                  /\ blocks[tree[i]].node = i

\* The freetree is an index of exactly the freed blocks: no freed block is lost,
\* each knows its node, and no node is larger than its parent, so that the root
\* is the largest one (mm.c:344-401).
FreetreeIndexesFreed == ~spoiled =>
  /\ MmCheck
  /\ Freed = {tree[i] : i \in DOMAIN tree}
  /\ \A i \in DOMAIN tree \ {0} : blocks[tree[i]].size <= blocks[tree[Parent(i)]].size

\* Between calls at least 10 nodes are free and the block of the freetree holds
\* all of them: the nodes a call adds before it adjusts the capacity never run
\* past the end of the freetree.
FreetreeHasRoom == ~spoiled =>
  /\ Cardinality(DOMAIN tree) <= capacity - 10
  /\ capacity * 8 + 8 + 1 <= blocks[root].size * 8

\* The heap grows only if no freed block could hold the block handed out; what
\* the freetree needs when it moves is apart.
GrowsOnlyWhenFull ==
  [][heap_end' > heap_end /\ capacity' = capacity /\ ~spoiled' =>
       \E h \in DOMAIN live' \ DOMAIN live :
         \A b \in Freed : blocks[b].size < blocks'[h].size]_vars
===============================================================================
