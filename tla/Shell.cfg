\* The run shell; see MCShell for the bounds. The shell stops when it exits or crashes.
CONSTANTS
  MaxJobs = 2
  JidBound = 2
  Pids <- MCPids
SPECIFICATION Spec
CHECK_DEADLOCK FALSE
INVARIANTS
  TypeOK
  AtMostOneFG
  PromptHasNoFG
  JobsAreChildren
  ChildrenAreListed
  JumpHasFrame
  StoppedIsStopped
PROPERTY
  SignalledDeathEndsWait
