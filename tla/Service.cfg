\* The run service; see MCService for the bounds.  The process really may end.
CONSTANTS
  t1 = t1
  t2 = t2
  Threads <- MCThreads
  MaxConns = 3
  Fds <- MCFds
  NoFd = NoFd
  Closed = Closed
  Server = Server
  Capacity = 1
  Requests <- MCRequests
  NoRequest = NoRequest
  Blank = Blank
  Bad = Bad
  Garbage = Garbage
  Lens <- MCLens
  MaxLine = 2
  MaxObject = 3
  MaxCache = 3
  Memory = 1
SPECIFICATION Spec
INVARIANTS
  TypeOK
  DescriptorsHeld
  AnswerIsOneResponse
  HeadersForwarded
PROPERTY
  EveryConnectionEnds
CHECK_DEADLOCK FALSE
