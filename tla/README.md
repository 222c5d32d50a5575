# TLA+ models of the CSAPP lab programs

This directory models, checks and proves things about the programs of this repository: the web proxy
(`proxylab_code`), the job-control shell (`shlab_code`), the dynamic allocator (`malloclab_code`), the
cache simulator (`cachelab_code`) and the bit puzzles (`datalab_code`). Every definition is a translation of the C source. `PROJECT.json`
gives the lines each one stands for.

Contents: [inventory](#inventory), [modules](#modules), [runs](#runs), [proofs](#proofs),
[what the code does that its comments do not say](#what-the-code-does-that-its-comments-do-not-say),
[hazards](#hazards), [not modelled](#not-modelled), [plan](#plan).

## Inventory

### Web proxy

| part | state | operations | what makes it hard |
|---|---|---|---|
| connection queue (`server.c:24-52`, `server.h`) | a ring of 32 descriptors, `front`, `rear`, three semaphores | `add_new_connection` by the main thread, `get_new_connection` by 16 service threads | all interleavings of the threads; full and empty ring look alike |
| response cache (`cache.c`, `cache.h`, `util.c`) | 128 hash chains, a recency queue, `currentSize`, `reader_cnt`, three semaphores | `cache_retrieve_if_possible`, `cache_insert_if_possible` with `evict_one_by_LRU` | readers share one semaphore and still change the recency queue; freed objects; lock order |
| service (`server.c:54-235`) | the descriptor table, one request per thread | `start`, `service_thread`, `doit` | descriptors reused at once; any thread can end the process |
| request (`request.c`) | a request line, a list of header entries | `parse_http_request_line`, `parse_and_add_reqhdr_entry`, `add_reqhdr_entry` | malformed and cut requests, reads that leave the buffer as it was |
| client (`client.c`) | the list of entries | `modify_header_entries`, `send_request_string`, `forward_request` | repeated entries; failed connections |
| Rio and socket wrappers (`csapp.c`) | the Rio buffer | `Rio_readlineb`, `Rio_readnb`, `Rio_writen`, `open_clientfd`, `Accept`, `Close` | short counts, interruptions and failures in the middle of a line or a chunk; which errors return and which exit |

The main thread accepts a connection and queues its descriptor. A service thread takes it, reads the
request, looks it up in the cache and either sends the cached response or forwards the request, relays
the response and inserts it, then closes the connection. The threads share the queue, the cache, the
descriptor table and the process. Correctness: each connection goes to one thread and is closed once;
index, recency queue and size of the cache agree and no freed object is touched; a client is sent one
response to the end of what arrived; no order of semaphores blocks a thread for ever.

### Shell

| part | state | operations |
|---|---|---|
| job list (`tsh.c:54-71, 484-594`) | 16 slots (pid, jid, state), `nextjid` | `addjob`, `deletejob`, `fgpid`, `getjobpid`, `getjobjid`, `maxjid` |
| main loop and builtins (`tsh.c:189-363`) | locals of `eval` and `do_bgfg`, `jmpbuf` | `eval`, `builtin_cmd`, `do_bgfg`, `waitfg` |
| handlers (`tsh.c:397-473`) | the signal mask and the pending bit | `sigchld_handler`, `sigint_handler`, `sigtstp_handler` |

The handlers interrupt the main program between any two of its steps and share the job list with it.
`sigchld_handler` leaves its loop by `siglongjmp` into `waitfg`. Children stop, continue and die by
themselves. Correctness: the list agrees with the processes, at most one job is in the foreground, and
the shell waits exactly while there is one. `parseline` keeps no state between lines: its result is the
arguments of the line in order, whatever the blanks and quotes.

### Allocator

One heap of blocks (header with size and status, footer with a node offset); the *freetree*, a binary
max-heap of the freed blocks, kept in an array that is itself an allocated block and grows by
`mm_realloc`; *wandering* blocks, freed remainders of one unit that have no node. Operations `mm_init`,
`mm_malloc`, `mm_free`, `mm_realloc`. It is sequential: the difficulty is in long sequences of calls, in
which the index moves while it is being changed. Correctness: blocks in use do not overlap, the tree
indexes exactly the freed blocks, and the heap grows only when nothing fits.

### Cache simulator

`csim` reads a trace and plays it on sets of lines with an access clock (`simulator.c`, `opparser.c`,
`cache.c`). Correctness: what it counts is what an LRU cache of that geometry does.

### Others

`bits.c` holds pure functions on 32-bit words: the hard part is the boundary words and the encodings of
floats. Three Y86 programs, option parsing, logging and printing: see [not modelled](#not-modelled).

## Modules

| module | models | with |
|---|---|---|
| `ConnFifo` | what the connection queue promises: a bounded first-in first-out hand-over | |
| `ConnQueue` | the queue as coded | `MCConnQueue`, `ConnQueue.cfg` |
| `ConnQueueProofs` | its theorems | |
| `AtomicCache` | what the response cache promises: a list of responses with atomic use, eviction and insertion | |
| `ResponseCache` | the cache as coded | `MCResponseCache`, `ResponseCache.cfg`, `CacheRear.cfg` |
| `ResponseCacheProofs` | its theorems | |
| `Service` | the proxy around them: main thread, service threads, requests, descriptors; composes `ConnFifo` and `AtomicCache` | `MCService`, `Service.cfg` |
| `ServiceProofs` | its theorems | |
| `ByteStream` | what the proxy relies on when it reads and relays: lines and chunks of a stream of bytes | |
| `Rio` | the buffered reads and robust writes as coded | `MCRio`, `Rio.cfg` |
| `RioProofs` | its theorems | |
| `JobList` | the job list as operators on its 16 slots | |
| `Shell` | main loop, builtins, handlers, children; extends `JobList` | `MCShell`, `Shell.cfg`, `ShellWaitfg.cfg` |
| `ShellProofs` | its theorems | |
| `LruCache` | a set-associative LRU cache as recency lists | |
| `CacheSim` | csim | `MCCacheSim`, `CacheSim.cfg` |
| `CacheSimProofs` | its theorems | |
| `LibraryLemmas` | facts about library operators that several proofs use | |
| `Malloc` | the allocator | `MCMalloc`, `Malloc.cfg`, `MallocCheck.cfg` |
| `MallocProofs` | its theorems | |
| `Bits` | the bit puzzles as operators on words | |
| `CommandLine` | `parseline` as an operator on lines, and what a line means | |
| `PureCalls` | one call of a function of `Bits` or `CommandLine`, and what it should return | `MCPureCalls`, `PureCalls.cfg`, `Floats.cfg` |

Operators whose name or comment says "A fault" are not part of any specification: each is a mutated form
of the definition that follows, and `PROJECT.json` pairs it with the property it breaks.

**ConnQueue.** Every `P`, every `V` and every access to the ring is an action (`AddTakeSlot` is
`P(&slot_cnt)`, `GetFetch` reads `connfds[front]`, and so on); `pc` says where a thread is. `open` is the
set of descriptors accepted and not yet closed, so `accept` returns a number that is free. `doit` is
`ServeAndClose`: what it does is in `Service`.

**ResponseCache.** One action per semaphore operation and per list operation, in the code's order.
Objects are addresses that `malloc` may return and `free` gives back; following one that is not live is
visible (`NoFreedObject`). Linked lists are sequences. A stored key carries what `strcmp` will read of it
(`reads`), because `pack_object` copies it without its terminator: itself, a longer key, or something no
request matches. `AtomicCache` is implemented with the recency queue as its list; the object a reader has
unlinked and not yet relinked counts as first, so a hit takes effect at the unlink and an insert at the
push. `AtomicCache` leaves open which object is evicted: `EvictsFromRear` is about that.

**Service.** The queue and the cache are their abstract specifications (`Fifo!Enqueue`, `Fifo!Dequeue`,
`Fifo!Finish`, `Cache!Use`), which `ConnQueue` and `ResponseCache` implement. An insert and its evictions
are one step because the writer holds `index_lock` alone. `fds` is the descriptor table: a connection, a
server, or closed; the lowest free one is allocated. Reading the request is a step per line: a line that
does not arrive leaves `buf` as it was (`Rio_readlineb` at end of input), an uninitialised buffer may
hold any line, and a reset connection passes for a line (`server.c:120` tests for 0). `Dies` is any end of
the process: an `unix_error`, a signal, exhausted memory, a wild pointer. A response is a number of halves
of `MAXLINE`, so that `Rio_readnb` fills its buffer except at the end, and byte *i* of the response to key
*k* is `<<k, i>>`. Keys are compared exactly here.

**ByteStream, Rio.** One reader of one connection. In mode `lines` it reads a request as
`read_request_line` and `read_requesthdrs` do, in mode `relay` it is `output_response_from_remote`. `Refill`,
`ReadInterrupted`, `ReturnAtEof` and `ReturnError` are the outcomes of the `read` in `rio_read`, `Copy` is its
`memcpy`, `Write` is one `write` of `rio_writen`, which may take any part. Arrivals, closing and resets come
at any point. Bytes the peer has not sent when it leaves never arrive; those that arrived are read before
the end or the reset is reported, and the kernel reports a reset once. `pending` of `ByteStream` is what the
call in progress has copied, the unread part of `rio_buf` and what has arrived, in this order: refilling and
copying are stutters, and a return takes a whole line or chunk off its front. `Service` uses the result: a
`Rio_readlineb` there is one step that gives one line.

**JobList, Shell.** `addjob`, `deletejob` and the searches are operators on a list record. In `Shell` the
main program takes a step per statement that a handler can separate from the next: `Fork`, `SetPgid`,
`AddJob`, `Unblock`, `TakePid`, `Continue`, `SetState`, `SetJmp`; `ForkFails` ends the shell as `Fork` of
`csapp.c` does. `Enter` starts the handler of SIGCHLD when it is
pending, not blocked and not running; each `waitpid` with the handling of its result is a step; the jump
ends it. SIGCHLD is one bit, so two deaths can share one signal. `Waitable` is
`waitpid(-1, WNOHANG|WUNTRACED|WCONTINUED)`. A jump without a frame and a lookup that returns NULL end the
shell (`status`).

**CacheSim.** A step is one line of the trace. The functions of `simulator.c` are operators from one
simulator record to the next, composed as `operate` composes them; a modify makes two accesses. `address`
and `optype` are the last line played and are shared with `LruCache`, so the refinement compares the two on
the same trace: what each operation on each block adds to hits, misses and evictions. `LruSpec` also says that
no line is a stutter of `LruCache`: one that counted nothing would not be a use.

**Malloc.** A step is one call. The static functions are operators from one state of the allocator to the
next; addresses are units from `heap_start`. The freetree lives in block `root`, whose size follows
`capacity`. `live` is a ghost: the blocks the user has and the bytes asked for. `spoiled` is a ghost that
becomes TRUE when a call reaches undefined behaviour (a node offset that names no node is used, `mem_sbrk`
fails after the last block's node was deleted, a NULL result is copied to), or when a reallocation binds a
moved node and so breaks the index. The call goes no further (`Undefined`), except that the reallocation
which binds the wrong node does what it does, for `MmCheck` to see. From then on the heap's contents are unknown, the
model makes no further call, and the invariants claim nothing: they describe every heap reached by calls that stay
inside defined behaviour. `MmCheck` is stated without that condition. The loops over the freetree are
recursive functions of the number of turns (`Sink`, `Emerge`, `Descend`): a turn that has nothing left to do
changes nothing, and there are at most as many turns as nodes. The operators were compared with
the compiled `mm.c` by replaying simulated behaviours (40,500 calls): same addresses, same tree, no difference.

**Bits, CommandLine, PureCalls.** A word is the set of the positions of its 1 bits, so `&`, `|`, `^` and `~` are
operations on sets and the shifts move positions; `Add` defines the carry. The functions follow the
expressions of `bits.c` one for one. `isTmax` depends on `x + x + 1` overflowing, which C leaves undefined:
`wraps` says whether the build lets it wrap (gcc at `-O0` does, at `-O1` and above the function returns 0 for
every argument). `parseline` is the loop over positions of the buffer, with `strchr` as an external operator.
The reference definitions are of another kind: integers for the integer puzzles and sets of powers of two for the
floats (in `PureCalls`), and a scanner with three states for the command line (`Typed` in `CommandLine`).

## Runs

| run | module | question | states |
|---|---|---|---|
| `conn_queue` | `MCConnQueue` | Is every connection handed to one thread, in order, and closed? | 28 thousand |
| `response_cache` | `MCResponseCache` | Do index, queue, size and locks agree in every interleaving, is the cache atomic, and can the threads all wait for one another? | 42 thousand |
| `service` | `MCService` | Do threads use only their own descriptors, send only one response, and end? | 913 thousand |
| `shell` | `MCShell` | Does the job list agree with the processes whatever a SIGCHLD interrupts, and does a death that is still to be signalled end the wait? | 791 thousand |
| `csim` | `MCCacheSim` | Is what csim counts for each load, store and modify what an LRU cache does? | 443 thousand |
| `malloc` | `MCMalloc` | Do blocks stay apart and the freetree exact over every sequence of calls? | 880 thousand |
| `rio` | `MCRio` | Do callers see one stream of bytes whatever counts and errors `read` and `write` return? | 301 thousand |
| `pure_calls` | `MCPureCalls` | Do the puzzles and `parseline` return what their comments describe, but for the floats of `floats`? | 110 thousand |
| `cache_evicts_rear`, `shell_waitfg`, `malloc_check`, `floats` | | Does the code do what its comments say? TLC finds that it does not. | |

### Bounds and why they are enough

- `conn_queue`: two slots, two threads, descriptors 3 to 6. The ring fills, wraps and empties; the main
  thread waits for a slot while threads wait for an item; four connections exist at once. The theorems
  remove the bounds.
- `response_cache`: two threads; keys in one chain, one a continuation of the other; lengths 1, 2, 3 with
  `MAX_CACHE_SIZE = MAX_OBJECT_SIZE = 2`, so an insert evicts none, one or two objects and a response can
  be too long; four addresses, the most that can be in use. Threads and addresses are symmetric. A third
  thread makes a reader that is neither first nor last; the theorems hold for any number.
- `service`: two threads, three connections, three descriptors and a queue of one: descriptors are reused,
  leak and run out while a connection waits. The responses have 3 and 4 halves of `MAXLINE` with a
  buffer of 3, the last one that fits and the first that does not. The requests are two
  well-formed ones, which repeat an entry the proxy changes, one it does not know and a Host, or leave the
  Host out, one with a malformed entry and the same response, one that is refused, and a
  connection that is reset. `Memory` stands for the memory a looping thread uses up, one entry.
- `shell`: three processes, two slots: the list fills and overflows, pids are used again, two children
  change state under one signal. `JidBound` stops commands when `nextjid` exceeds 2; the search for a jid is
  proved for any number. `shell_waitfg` has two processes, which both of its ways to the violation need.
- `csim`: two sets of two lines of two bytes, three blocks for each set, every order of the three operations.
  `MaxOrder` stops the trace after 18 accesses and loads: a miss takes three of them, so both sets are full
  and evict before that.
- `malloc`: two request sizes, two reallocation sizes, 50 units, 9 calls: neighbours merge, remainders of
  one unit appear, and the third freed block makes the freetree move, in `mm_free` and in `mm_malloc`.
- `rio`: every sequence of up to six bytes, with line breaks anywhere and every other byte different from the
  rest; buffers of three, equal as `RIO_BUFSIZE` and `MAXLINE` are. Lines are shorter than the buffer, fill it,
  and are cut by it; chunks take one refill or three, and two full chunks fit an input.
- `pure_calls`: the words `2^k`, `2^k - 1`, their complements, the alternating ones and those around the
  digits, in all pairs; floats of both signs with all 256 exponents and six fractions; `floatPower2` over its
  whole range and beyond (`floats` has the same floats and powers); every command line of up to six characters of a blank, a quote, `&` and a letter.

Deadlock is checked except in `csim` and `malloc` (the trace and the calls are bounded and end), in
`service` and the `shell` runs (the process exits, by `quit`, an error or a crash), in `rio` (the caller has
what it wants) and in `pure_calls` and `floats` (a behaviour is one call).

### Fairness

- `ConnQueue`: weak fairness of the queueing of an accepted connection and of each service thread.
  Threads run, and `doit` returns. A semaphore wakes any waiter, so nothing is strongly fair. Clients need
  not connect.
- `Service`: weak fairness of each thread and of the queueing. This includes that clients send or
  close and that servers end their responses: the code has no timeouts. Nothing need fail.
- `Shell` (`SignalledDeathEndsWait`): weak fairness of the handler and of the main program. A pending signal
  is delivered; users and children do as they like.
- `Rio` (`Progress` in `StreamSpec`): weak fairness of the thread's own steps. It reads what has arrived,
  reports an end that has come, and the client takes some of what is written. The peer need not send or
  close, and nothing need be interrupted or fail. `ByteStream` states its liveness as formulas rather than as
  fairness of its actions: no whole line or chunk is kept back for ever, and a relay ends once the server
  has left.

`ResponseCache` needs none: that its threads never all wait (`SomeoneGoesOn`) is an invariant. With endless
overlapping readers a writer does starve; a request takes finitely many steps, so once requests stop coming
all of them are served.

## Proofs

Checked by TLAPS for every value of the constants, under the named assumptions of the modules. Those assumptions
say what kind of value a constant is (a finite set of threads, sizes that are positive numbers, a hash
function on the keys) and nothing else; TLC evaluates each of them in the run of its module.

`ConnQueueProofs` (from `ThreadsAssumption`, `CapacityAssumption` and `FdsAssumption`):

- `Inv` is `TypeOK`, `MutualExclusion`, `SlotsAccounted` and `IndicesDelimit`. They are inductive only
  together: that `mutex` stays in 0..1 needs mutual exclusion, that `slot_cnt` stays below the capacity
  needs the accounting of slots, and that `rear` is where it should be needs both. The counts of threads
  at a label change by one with each step (`CountStep`); the indices are handled by lemmas on `%`.
- `FullInv` adds that the connections in the ring, with the main thread and with the threads are
  distinct (`EachConnectionOnce`). The queue of `ConnFifo` is the occupied part of the ring, and lemmas
  say that it appends, loses its head, or stays (`QueueAppend`, `QueueTail`, `QueueUnchanged`).
- `ImplementsFifo`: `SafeSpec => Fifo!SafeSpec`, one mapped step or a stutter for each action.

`ResponseCacheProofs` (from `ThreadsAssumption`, `SizesAssumption`, `KeysAssumption` and `MetasAssumption`):

- `LocksInv` accounts for the three semaphores by the number of threads between a `P` and its `V`. `LocksHeld`
  alone is not inductive: a reader that enters beside others must know that none of them still waits for
  `index_lock`, and that is so because that one would hold `mutex`. It also says that no first reader waits for
  `index_lock` while others read. From it `NeverAllWait`: a thread that
  holds `queue_lock` or writes waits for nothing, so if all wait they wait for `mutex` or `index_lock`, and who
  holds `mutex` is a first reader waiting for `index_lock`, which is then taken, and taken by readers. But while
  others read there is no such first reader.
- `StoreInv` says who may change what while: which object a thread at each label may hold (`LocalInv`), that an
  object not yet pushed, or unlinked, has one owner (`OwnersApart`), and by how much chains, queue and
  `currentSize` may disagree meanwhile (`ChainsInv`, `QueueInv`, `SizeInv`). The properties the run checks are what
  is left of it at the moments they speak of. `EvictOne` has an object to evict because sizes add up, for which
  `LibraryLemmas` shows that a sum over a set does not depend on the order in which it is taken.
- `ActsAsAtomicCache`: every step is a step of `AtomicCache` or leaves its list alone.

`ServiceProofs` (from `BoundsAssumption`, `NamesAssumption` and `RequestsAssumption`):

- `IInv` is `Types`, `Descriptors` (a descriptor has one holder, a connection one descriptor), `Contents` (buffers,
  cache and clients hold beginnings of one response), `Fits`, `Answers` and `Forwarded`. `DescriptorsHeld` needs
  more than itself: that `accept` returns a number no thread has rests on the numbers of servers and
  connections being kept apart in `fds`, and that in turn on nobody closing what is not his.
- `modify_header_entries` folds the entries of a request; the fold is taken entry by entry (`Stage`), with the
  names met so far and the list so far, so `HeadersForwarded` holds for requests of any length.
- `QueueIsUsedAsPromised` (`Spec => Fifo!SafeSpec`): `Service` makes no step with the queue that `ConnFifo` does not
  allow. Together with `ImplementsFifo` the ring may stand in for the abstract queue.

`RioProofs` (from `SizesAssumption` and `InputsAssumption`):

- `Inv` adds to `TypeOK` that the unread part of `rio_buf` is bytes that were sent, that a call starts with nothing
  and that a line in progress has no line break. Bounds alone are not inductive: what is copied is a byte only if
  the unread part is. `BuffersAreNotOverrun` is the part that matters for memory.
- `ReadsAsByteStream` is the safety part of `StreamSpec`: each refill and copy stutters, each return takes a line or
  a chunk off the front of what is pending.

`CacheSimProofs` (from `SizesAssumption` and `AddressesAssumption`; `MasksAssumption`, that the bits of set and
block number are at most 31 together, is where the module is faithful: `opparser.c:7-9` builds the masks as `int`):

- `IInv` is `TypeOK`, no tag in two valid lines of a set, and that for each set there is an order of its valid
  lines by their last use (`Ranked`). The order is claimed to exist rather than built, which spares an
  induction over the lines; `LruUpdate` moves one line to its front.
- `SimulatesLru`: with that order as the recency list, each line of the trace is a use of the same block by the same
  operation in `LruCache`, with the same counts: a modify hits once more than a load or a store, and the access
  that follows a load into the cache is no hit (`simulator.c:122-123`). It holds for every geometry the masks
  allow and every trace.

`ShellProofs` (from the assumptions on `Pids` and `MaxJobs`):

- `IInv` strengthens the invariants with `Masked` (SIGCHLD stays blocked from before `fork` to after
  `addjob`), `Located` (what the locals hold where they are used), `NewsIsLatest` (unreaped news is the last
  thing that happened), `Foreground` and `StoppedJobs`. `ChildrenAreListed` needs `Masked`: without the mask the
  handler could look a child up before it is listed.
- Theorems: type correctness, at most one foreground job, none at the prompt, listed jobs are
  unreaped children and each child is listed, the jump has its frame outside the window before
  `sigsetjmp`, and a job shown as stopped is stopped.
- `ParselineReadsArguments`, without assumptions: for every line over every alphabet, `parseline(line) = Typed(line)`.
  The loop that jumps from one delimiter to the next and the scanner that looks at each character are both tables over
  the positions of the buffer. Where the scanner is between two arguments, it has collected what the loop would
  leave before that position, and from there on it collects what the loop does (`SameFrom`, by induction from the
  end of the buffer).

`MallocProofs` (from `SizesAssumption` and `ArenaAssumption`):

- `IInv`: until `spoiled`, the blocks tile the heap (`Tiled`), the wandering ones are those of one unit, the
  freetree is a heap-ordered index of exactly the freed blocks (`Heap`), it has a block of its own with room for its
  capacity of at least 12 nodes (`Rooted`) of which ten are to spare (`Settles`), and the live blocks are in use and not the
  freetree's (`Holds`). None of the four invariants the run checks is inductive by itself: that a block handed out
  overlaps no other rests on the tree naming only freed blocks, that on the footers naming their nodes, that
  on the order, since a deletion that finds its node must leave every other one where its footer says, and
  that the tree is inside its block rests on the capacity at the start of the call.
- Within a call none of this holds, so the lemmas say of each function what it requires and what it gives.
  `HeapBut(m, i, w, F)` is a freetree whose node i is not to be believed: it is how a node looks between the
  moment its block is handed out and the moment the node is sunk or deleted. A node on its way (`Rising`,
  `Sinking`) is the only one that does not fit its neighbours. A turn of the loop moves it on or finds it in
  place, and the index it is at bounds the turns, so that they end with everything in order.
- A region of the heap whose blocks are replaced by others that fill it leaves the heap tiled (`RecutIsTiled`);
  every call changes the blocks of one region, and `Untouched` says what all the others keep.
- `GrowthIsNeeded` has to rule out that the capacity is the same after a call because two or three
  adjustments within it undid one another: `ThreeChangesAreNotUndone` follows from how far a call can move the number of
  nodes between them.
- Where the code runs into undefined behaviour the lemmas say only that the call is marked (`Spoilt`); they show that
  there are no other ways out.

`LibraryLemmas` has no assumptions. The library's induction theorems take the claim as an operator, which the
provers cannot instantiate; here a claim about all numbers or all finite sets is proved by looking at a smallest
one it fails for (`SmallestNat`, `SmallestSet`).

Only model-checked: all liveness (`EveryConnectionCloses`, `EveryConnectionEnds`,
`SignalledDeathEndsWait`, and the liveness parts of `FifoSpec` and `StreamSpec`), because liveness under fairness and ENABLED
are out of the prover's reach; `EvictsFromRear` and the other three properties the code violates; and the bit puzzles of
`PureCalls`, where the value of a word is a sum over 32 bits and its float a set of exponents. `ArgumentsAsTyped` says
for the calls of a run what `ParselineReadsArguments` says for every line.

## What the code does that its comments do not say

Shown by a run each:

- `cache_evicts_rear`: the object evicted is the one at the front of the queue, used most recently
  (`cache.c:61`; `cache.h:13` says the rear).
- `shell_waitfg`: `fg` of a job that dies at that moment marks an empty slot and waits (`tsh.c:344`; 351): the
  trace TLC prints, 15 states. A second way is six states longer and needs no such moment. A job A runs in
  the background, and B in the foreground with the shell at `pause`. B is killed and A dies before the handler runs,
  so that both share one SIGCHLD. The handler reaps B and jumps out of its loop (`tsh.c:416`), where `tsh.c:391-396`
  says that it reaps all available zombies. A stays a zombie in the list and nothing is pending. `fg` of A finds it,
  its `kill` does nothing, A is marked FG, and `waitfg` waits for ever for a process that died long ago.
  `SignalledDeathEndsWait` is what is left to say of the wait: it ends when the death is still to be signalled.
- `malloc_check`: a reallocation into the previous block can bind its remainder to another block's node
  (`mm.c:724`, `745-756`); `mm_check` would report it. Shortest sequence: malloc of 8, 7 and 8 bytes, free of the
  third and of the first, realloc of the second to 32 bytes.
- `floats`: `floatScale2` keeps the fraction when the exponent overflows, so twice a large float is a NaN and not
  infinity (`bits.c:340`; 320 says the equivalent of `2*f`), which is what TLC shows; and `floatPower2` returns 0 for
  the powers from -149 to -127, which are denormal floats (`bits.c:405-414`; 396-399). `FloatsAsDescribed` is about all
  floats and powers, `FloatsOtherwiseAsDescribed` about all but these, and the run `pure_calls` shows it.

Met while modelling, visible in `Service`, contradicting no comment: an address without a port is
accepted for every protocol except http (`request.c:48`, `strcasecmp` taken for equality); a failed
connection is used all the same and ends the process (`client.c:84-89`); SIGPIPE is not ignored, so the
tolerance of EPIPE (`csapp.c:922`) is not reached; the connection to the server is never closed
(`server.c:222`); a response cut short is cached as complete.

Met in the other modules:

- A stored key has no terminator (`cache.c:46`, compared at `cache.c:101`), so a request can be answered with
  the response to a shorter one it continues. `HitIsOwnOrShorter` says that this is the worst of it.
- A reset while `rio_readnb` or `rio_readlineb` has part of a chunk or line drops that part (`csapp.c:859`, `892`):
  `ReadFails` in `ByteStream`.
- A wandering block has no node, and `mm_realloc` overlooks it when the block before the reallocated one is
  wandering: `mm.c:721` and `745` add its offset `FREETREE_NODE_NOT_EXIST`, which is -1, to `freetree_root_ptr`, and the
  sum is not the value that `mm.c:778` and `block_bind_freed_with_existed_node` take for "no node", so the unit before
  the freetree is rebound or deleted as a node. `Malloc` sets `spoiled` there and makes no further call, so
  no property tells what follows.
- `isTmax` is 0 for every argument in optimised builds (`bits.c:177-183`).

## Hazards

`PROJECT.json` lists what is hard to test here, each at its line with the properties that would show
it going wrong. Those without a property have a note: either the code has the defect and no comment
denies it, or the data it concerns is not represented.

## Not modelled

- `clienterror`: nothing calls it. `proxy.c` and the logger: formatting; the shared static buffer of
  `write_log` affects only the text of the log.
- The bytes of requests, responses and blocks, and what `send_request_string` sends after the last line
  break (`client.c:72` takes the length of the line before).
- The shell's option parsing and printing, and the sizes of `parseline`'s arrays.
- The formats and field widths of `sscanf` in `request.c`: `Service` starts from the fields they yield.
- The errors of `accept` other than that no descriptor is left, on each of which `Accept` exits too
  (`csapp.c`); what an exit leads to, the end of the process at any point, is in `Service` already.
- Socket set-up (`open_clientfd`, `open_listenfd`) beyond its outcome, and the parts of `csapp.c` that nothing calls.
- csim's option parsing (`argparser.c` is not in the repository) and the transpose harness; the copying of
  bytes in `simulator.c:43-55`, whose loops use the wrong index and which nothing reads.
- The Y86 programs: straight code on fixed data.

## Plan

Done, in this order: `ConnQueue` with proofs, `ResponseCache`, `Shell` with proofs, `CacheSim`, `Malloc`,
`Service`, `Bits` and `CommandLine` with `PureCalls`, `Rio` with `ByteStream`; then the proofs about `ResponseCache`,
`Rio`, `CacheSim`, `Service`, `Malloc` and `parseline`.

Next:

1. `bitXor`, `allOddBits`, `logicalNeg` and `conditional` for every word.
