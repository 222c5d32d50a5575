------------------------------- MODULE MCShell -------------------------------
(* Two slots and three processes: the list fills and overflows, pids are    *)
(* used again, two children change state under one SIGCHLD, and a third     *)
(* may still run.  With two processes the list never overflows.             *)
EXTENDS Shell
MCPids    == 1..3
MCTwoPids == 1..2
===============================================================================
