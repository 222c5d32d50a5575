\* The run shell_waitfg; see MCShell for the bounds. The shell stops when it exits or crashes.
CONSTANTS
  MaxJobs = 2
  JidBound = 2
  Pids <- MCTwoPids
SPECIFICATION SafeSpec
CHECK_DEADLOCK FALSE
INVARIANT
  WaitsForFg
