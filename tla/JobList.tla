------------------------------- MODULE JobList -------------------------------
(***************************************************************************)
(* The job list of the shell (shlab_code/tsh.c, "Helper routines that      *)
(* manipulate the job list"): MAXJOBS slots, a slot is free when its pid   *)
(* is 0.  A list is the record of the array jobs and the counter nextjid,  *)
(* and each routine is an operator on it.                                  *)
(***************************************************************************)
EXTENDS Integers, FiniteSets

CONSTANT MaxJobs        \* MAXJOBS

ASSUME MaxJobsAssumption == MaxJobs \in Nat \ {0}

Slots  == 1..MaxJobs
States == {"UNDEF", "FG", "BG", "ST"}

\* clearjob
Cleared == [pid |-> 0, jid |-> 0, state |-> "UNDEF"]

\* initjobs
EmptyList == [jobs |-> [i \in Slots |-> Cleared], nextjid |-> 1]

\* The first slot that satisfies a condition, as the routines' loops find it.
IsFirst(i, S) == i \in S /\ \A j \in S : i <= j

Free(list)        == {i \in Slots : list.jobs[i].pid = 0}
OfPid(list, pid)  == {i \in Slots : list.jobs[i].pid = pid}
OfJid(list, jid)  == {i \in Slots : list.jobs[i].jid = jid}
InFG(list)        == {i \in Slots : list.jobs[i].state = "FG"}

\* addjob: it fails, and says so, when no slot is free.
CanAdd(list, pid) == pid >= 1 /\ Free(list) # {}

\* A fault: nextjid wraps to 0.
AddAtFromZero(list, i, pid, state) ==
  [jobs    |-> [list.jobs EXCEPT ![i] = [pid |-> pid, jid |-> list.nextjid, state |-> state]],
   nextjid |-> IF list.nextjid + 1 > MaxJobs THEN 0 ELSE list.nextjid + 1]

AddAt(list, i, pid, state) ==
  [jobs    |-> [list.jobs EXCEPT ![i] = [pid |-> pid, jid |-> list.nextjid, state |-> state]],
   nextjid |-> IF list.nextjid + 1 > MaxJobs THEN 1 ELSE list.nextjid + 1]

Added(list, pid, state) ==
  IF CanAdd(list, pid)
  THEN AddAt(list, CHOOSE i \in Slots : IsFirst(i, Free(list)), pid, state)
  ELSE list

\* maxjid, over the slots other than the one being cleared (its jid is 0).
IsMaxJid(jobs, m) ==
  /\ m >= 0 /\ \A i \in Slots : jobs[i].jid <= m
  /\ m = 0 \/ \E i \in Slots : jobs[i].jid = m

MaxJid(jobs) == CHOOSE m \in {0} \cup {jobs[i].jid : i \in Slots} : IsMaxJid(jobs, m)

\* A fault: the slot keeps its pid.
DeletedState(list, pid) ==
  IF pid >= 1 /\ OfPid(list, pid) # {}
  THEN LET i    == CHOOSE k \in Slots : IsFirst(k, OfPid(list, pid))
           jobs == [list.jobs EXCEPT ![i].state = "UNDEF"]
       IN [jobs |-> jobs, nextjid |-> MaxJid(jobs) + 1]
  ELSE list

\* deletejob
Deleted(list, pid) ==
  IF pid >= 1 /\ OfPid(list, pid) # {}
  THEN LET i    == CHOOSE k \in Slots : IsFirst(k, OfPid(list, pid))
           jobs == [list.jobs EXCEPT ![i] = Cleared]
       IN [jobs |-> jobs, nextjid |-> MaxJid(jobs) + 1]
  ELSE list

WithState(list, i, state) == [list EXCEPT !.jobs[i].state = state]

\* fgpid: the pid of the first slot in the foreground, 0 if there is none.
FgPid(list) == IF InFG(list) = {} THEN 0
               ELSE list.jobs[CHOOSE i \in Slots : IsFirst(i, InFG(list))].pid

\* getjobpid and getjobjid: a slot, or 0 for NULL.
GetJobPid(list, pid) ==
  IF pid >= 1 /\ OfPid(list, pid) # {}
  THEN CHOOSE i \in Slots : IsFirst(i, OfPid(list, pid)) ELSE 0

GetJobJid(list, jid) ==
  IF jid >= 1 /\ OfJid(list, jid) # {}
  THEN CHOOSE i \in Slots : IsFirst(i, OfJid(list, jid)) ELSE 0

IsList(list, pids) ==
  list \in [jobs    : [Slots -> [pid : pids \cup {0}, jid : Nat, state : States]],
            nextjid : Nat \ {0}]
===============================================================================
