\* The run conn_queue; see MCConnQueue for the bounds.
CONSTANTS
  t1 = t1
  t2 = t2
  Threads <- MCThreads
  Fds <- MCFds
  NoFd = NoFd
  Capacity = 2
SPECIFICATION Spec
INVARIANTS
  TypeOK
  MutualExclusion
  SlotsAccounted
  IndicesDelimit
  EachConnectionOnce
PROPERTIES
  EveryConnectionCloses
  FifoSpec
