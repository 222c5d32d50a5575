-------------------------------- MODULE Shell --------------------------------
(***************************************************************************)
(* The shell (shlab_code/tsh.c): its read/eval loop, the fg and bg         *)
(* builtins, waitfg, and the signal handlers that interrupt all of them,   *)
(* with as much of the kernel as they see: child processes that stop,      *)
(* continue and die on their own, waitpid, one pending bit for SIGCHLD     *)
(* and its mask, and sigsetjmp/siglongjmp.                                 *)
(*                                                                         *)
(* The handler of SIGCHLD may start between any two steps of the main      *)
(* program that do not block it; one waitpid and the handling of its       *)
(* result are one step.  The handlers of SIGINT and SIGTSTP, which only    *)
(* read the job list, are one step each.                                   *)
(***************************************************************************)
EXTENDS JobList

CONSTANTS Pids,         \* the process ids fork can return
          JidBound      \* bounds the model: no command when nextjid exceeds it

ASSUME PidsAssumption == Pids \subseteq Nat \ {0}

VARIABLES list,         \* jobs and nextjid
          failedAdd,    \* addjob has said "Tried to create too many jobs"
          pc,           \* where the main program is
          slot, pid,    \* job and pid of do_bgfg, pid of eval and waitfg
          want,         \* the state the command asks for, "FG" or "BG"
          jmpbuf,       \* "unset", "live" inside waitfg, "stale" after it
          status,       \* "up", "exited", "no job" or "no frame" (crashes)
          handling,     \* sigchld_handler is running
          pending,      \* SIGCHLD is pending
          blocked,      \* SIGCHLD is blocked by sigprocmask
          child,        \* the state of each process
          news          \* what waitpid has yet to report of a living child

main   == <<pc, slot, pid, want>>
signal == <<handling, pending, blocked>>
kernel == <<child, news>>
vars   == <<list, failedAdd, main, jmpbuf, status, signal, kernel>>

Init == /\ list = EmptyList /\ failedAdd = FALSE
        /\ pc = "prompt" /\ slot = 0 /\ pid = 0 /\ want = "FG"
        /\ jmpbuf = "unset" /\ status = "up"
        /\ handling = FALSE /\ pending = FALSE /\ blocked = FALSE
        /\ child = [p \in Pids |-> "none"] /\ news = [p \in Pids |-> "none"]

-------------------------------------------------------------------------------
(* The kernel and the child processes.                                     *)

\* The child of fork leaves the shell's process group before it does anything
\* else.
SetPgid(p) == /\ child[p] = "forked"
              /\ child' = [child EXCEPT ![p] = "running"]
              /\ UNCHANGED <<list, failedAdd, main, jmpbuf, status, signal, news>>

\* A process stops, continues or dies, by itself or by a signal.
Becomes(p, from, to, report) ==
  /\ child[p] \in from
  /\ child' = [child EXCEPT ![p] = to]
  /\ news' = [news EXCEPT ![p] = report]
  /\ pending' = TRUE

ChildEvent(p) ==
  /\ \/ Becomes(p, {"running"}, "stopped", "stopped")
     \/ Becomes(p, {"stopped"}, "running", "continued")
     \/ Becomes(p, {"running", "stopped"}, "zombie", "none")
  /\ UNCHANGED <<list, failedAdd, main, jmpbuf, status, handling, blocked>>

\* kill(-p, SIGCONT): nothing happens when there is no group p, or no process
\* of it is stopped.  kill(0, SIGCONT) is for the shell's own group, in which
\* nothing ever stops.
ContinueGroup(p) ==
  IF p \in Pids /\ child[p] = "stopped"
  THEN Becomes(p, {"stopped"}, "running", "continued")
  ELSE UNCHANGED <<pending, kernel>>

-------------------------------------------------------------------------------
(* The main program.  It runs when no handler does.                        *)

\* The locals of eval, do_bgfg and waitfg exist from one prompt to the next.
NoLocals == slot' = 0 /\ pid' = 0 /\ want' = "FG"
KeepLocals == UNCHANGED <<slot, pid, want>>

Goes(from, to) == status = "up" /\ ~handling /\ pc = from /\ pc' = to

\* A fault: SIGCHLD is not blocked.
CommandUnblocked(state) == /\ Goes("prompt", "fork")
                           /\ \E p \in Pids : child[p] = "none"
                           /\ list.nextjid <= JidBound
                           /\ want' = state
                           /\ UNCHANGED <<list, failedAdd, slot, pid, jmpbuf, status, signal, kernel>>

\* A command line that is not a builtin: eval blocks SIGCHLD ...  (The model is
\* bounded by Pids and JidBound; nextjid has no bound in the code while some
\* job remains in the list.)
Command(state) == /\ Goes("prompt", "fork")
                  /\ \E p \in Pids : child[p] = "none"
                  /\ list.nextjid <= JidBound
                  /\ want' = state /\ blocked' = TRUE
                  /\ UNCHANGED <<list, failedAdd, slot, pid, jmpbuf, status, handling, pending, kernel>>

\* ... forks ...
Fork(p) == /\ Goes("fork", "addjob")
           /\ child[p] = "none"
           /\ child' = [child EXCEPT ![p] = "forked"] /\ pid' = p
           /\ UNCHANGED <<list, failedAdd, slot, want, jmpbuf, status, signal, news>>

\* ... which the shell does not survive if it fails ...
ForkFails == /\ Goes("fork", "fork")
             /\ status' = "exited"
             /\ UNCHANGED <<list, failedAdd, slot, pid, want, jmpbuf, signal, kernel>>

\* ... records the job ...
AddJob == /\ Goes("addjob", "unblock")
          /\ list' = Added(list, pid, want)
          /\ failedAdd' = (failedAdd \/ ~CanAdd(list, pid))
          /\ UNCHANGED <<slot, pid, want, jmpbuf, status, signal, kernel>>

\* A fault: eval does not wait for the foreground job.
UnblockNoWait == /\ Goes("unblock", "prompt")
                 /\ NoLocals
                 /\ blocked' = FALSE
                 /\ UNCHANGED <<list, failedAdd, jmpbuf, status, handling, pending, kernel>>

\* ... and unblocks SIGCHLD before it waits for a job in the foreground.
Unblock == /\ Goes("unblock", IF want = "FG" THEN "sigsetjmp" ELSE "prompt")
           /\ IF want = "FG" THEN KeepLocals ELSE NoLocals
           /\ blocked' = FALSE
           /\ UNCHANGED <<list, failedAdd, jmpbuf, status, handling, pending, kernel>>

\* fg and bg: do_bgfg finds the job by its jid or by its pid ...
BgFg(state, i) == /\ Goes("prompt", "getpid")
                  /\ \/ \E j \in 1..JidBound : i = GetJobJid(list, j)
                     \/ \E p \in Pids : i = GetJobPid(list, p)
                  /\ i # 0
                  /\ slot' = i /\ want' = state
                  /\ UNCHANGED <<list, failedAdd, pid, jmpbuf, status, signal, kernel>>

\* ... reads its pid, which is 0 if the handler has cleared the slot ...
TakePid == /\ Goes("getpid", "continue")
           /\ pid' = list.jobs[slot].pid
           /\ UNCHANGED <<list, failedAdd, slot, want, jmpbuf, status, signal, kernel>>

\* ... continues its process group ...
Continue == /\ Goes("continue", "setstate")
            /\ ContinueGroup(pid)
            /\ UNCHANGED <<list, failedAdd, slot, pid, want, jmpbuf, status, handling, blocked>>

\* A fault: fg does not wait for the foreground job.
SetStateNoWait == /\ Goes("setstate", "prompt")
                  /\ NoLocals
                  /\ list' = WithState(list, slot, want)
                  /\ UNCHANGED <<failedAdd, jmpbuf, status, signal, kernel>>

\* ... and sets the state of the slot it found.
SetState == /\ Goes("setstate", IF want = "FG" THEN "sigsetjmp" ELSE "prompt")
            /\ IF want = "FG" THEN KeepLocals ELSE NoLocals
            /\ list' = WithState(list, slot, want)
            /\ UNCHANGED <<failedAdd, jmpbuf, status, signal, kernel>>

\* A fault: waitfg pauses without sigsetjmp.
SetJmpNot == /\ Goes("sigsetjmp", "pause")
             /\ UNCHANGED <<list, failedAdd, slot, pid, want, jmpbuf, status, signal, kernel>>

\* waitfg: after sigsetjmp the shell pauses until a handler jumps back.
SetJmp == /\ Goes("sigsetjmp", "pause")
          /\ jmpbuf' = "live"
          /\ UNCHANGED <<list, failedAdd, slot, pid, want, status, signal, kernel>>

\* The end of the input, or the command quit.
Quit == /\ Goes("prompt", "prompt")
        /\ status' = "exited"
        /\ UNCHANGED <<list, failedAdd, slot, pid, want, jmpbuf, signal, kernel>>

-------------------------------------------------------------------------------
(* The signal handlers.                                                    *)

Enter == /\ status = "up" /\ pending /\ ~blocked /\ ~handling
         /\ handling' = TRUE /\ pending' = FALSE
         /\ UNCHANGED <<list, failedAdd, main, jmpbuf, status, blocked, kernel>>

Waitable(p) == child[p] = "zombie" \/ news[p] # "none"

\* siglongjmp: back into waitfg, which returns to the prompt with the mask it
\* was called with.  Before the first sigsetjmp, or with the buffer of a call
\* that has returned, the jump is undefined: the shell crashes or, when the
\* old frame is still on the stack, ends up at the prompt as well.
LongJmp == \/ /\ jmpbuf \in {"live", "stale"}
              /\ pc' = "prompt" /\ jmpbuf' = "stale" /\ NoLocals
              /\ handling' = FALSE /\ blocked' = FALSE
              /\ UNCHANGED status
           \/ /\ jmpbuf \in {"unset", "stale"}
              /\ status' = "no frame"
              /\ UNCHANGED <<main, jmpbuf, handling, blocked>>

\* A fault: a child that continues is left as it was.
NotedUncontinued(p, i) == IF child[p] = "zombie" THEN Deleted(list, p)
                          ELSE IF news[p] = "stopped" THEN WithState(list, i, "ST")
                          ELSE list

\* What the handler makes of the list when waitpid reports of p, the job i: it
\* is deleted, stopped, or in the background again.
Noted(p, i) == IF child[p] = "zombie" THEN Deleted(list, p)
               ELSE IF news[p] = "stopped" THEN WithState(list, i, "ST")
               ELSE IF list.jobs[i].state \in {"FG", "BG"} THEN list
               ELSE WithState(list, i, "BG")

\* One turn of sigchld_handler's loop: what waitpid reports of p is entered in
\* the job list, and the wait for the foreground job is broken off.
Reap(p) ==
  /\ status = "up" /\ handling /\ Waitable(p)
  /\ GetJobPid(list, p) # 0
  /\ LET i   == GetJobPid(list, p)
         old == list.jobs[i].state
     IN /\ list' = Noted(p, i)
        /\ IF old = "FG" /\ (child[p] = "zombie" \/ news[p] = "stopped")
           THEN LongJmp
           ELSE UNCHANGED <<main, jmpbuf, handling, blocked, status>>
  /\ child' = [child EXCEPT ![p] = IF @ = "zombie" THEN "none" ELSE @]
  /\ news' = [news EXCEPT ![p] = "none"]
  /\ UNCHANGED <<failedAdd, pending>>

\* The handler reads the state of a job that is not in the list.
ReapUnlisted(p) == /\ status = "up" /\ handling /\ Waitable(p)
                   /\ GetJobPid(list, p) = 0
                   /\ status' = "no job"
                   /\ UNCHANGED <<list, failedAdd, main, jmpbuf, signal, kernel>>

\* A fault: the handler returns after one child, or none.
LeaveEarly == /\ status = "up" /\ handling
              /\ handling' = FALSE
              /\ UNCHANGED <<list, failedAdd, main, jmpbuf, status, pending, blocked, kernel>>

Leave == /\ status = "up" /\ handling
         /\ \A p \in Pids : ~Waitable(p)
         /\ handling' = FALSE
         /\ UNCHANGED <<list, failedAdd, main, jmpbuf, status, pending, blocked, kernel>>

\* ctrl-c and ctrl-z: the handler sends the signal on to the foreground job,
\* which it reaches once the job has its own process group.
CtrlC == /\ status = "up"
         /\ FgPid(list) \in Pids
         /\ Becomes(FgPid(list), {"running"}, "zombie", "none")
         /\ UNCHANGED <<list, failedAdd, main, jmpbuf, status, handling, blocked>>

CtrlZ == /\ status = "up"
         /\ FgPid(list) \in Pids
         /\ Becomes(FgPid(list), {"running"}, "stopped", "stopped")
         /\ UNCHANGED <<list, failedAdd, main, jmpbuf, status, handling, blocked>>

-------------------------------------------------------------------------------
Handler == Enter \/ (\E p \in Pids : Reap(p) \/ ReapUnlisted(p)) \/ Leave

Eval == \/ \E p \in Pids : Fork(p)
        \/ AddJob \/ Unblock \/ TakePid \/ Continue \/ SetState \/ SetJmp

User == \/ \E state \in {"FG", "BG"} : Command(state) \/ \E i \in Slots : BgFg(state, i)
        \/ Quit \/ CtrlC \/ CtrlZ

Children == \E p \in Pids : SetPgid(p) \/ ChildEvent(p)

Next == Handler \/ Eval \/ ForkFails \/ User \/ Children

SafeSpec == Init /\ [][Next]_vars

\* A pending signal is delivered and the shell runs; users and children do what
\* they like.
Spec == SafeSpec /\ WF_vars(Handler) /\ WF_vars(Eval)

-------------------------------------------------------------------------------
(* Properties.                                                             *)

TypeOK ==
  /\ IsList(list, Pids) /\ failedAdd \in BOOLEAN
  /\ pc \in {"prompt", "fork", "addjob", "unblock", "getpid", "continue", "setstate",
             "sigsetjmp", "pause"}
  /\ slot \in Slots \cup {0} /\ pid \in Pids \cup {0} /\ want \in {"FG", "BG"}
  /\ jmpbuf \in {"unset", "live", "stale"}
  /\ status \in {"up", "exited", "no job", "no frame"}
  /\ handling \in BOOLEAN /\ pending \in BOOLEAN /\ blocked \in BOOLEAN
  /\ child \in [Pids -> {"none", "forked", "running", "stopped", "zombie"}]
  /\ news \in [Pids -> {"none", "stopped", "continued"}]

Listed == {list.jobs[i].pid : i \in Slots} \ {0}

\* tsh.c:51: at most 1 job can be in the FG state, whatever interrupts eval,
\* do_bgfg and waitfg.
AtMostOneFG == \A i, j \in InFG(list) : i = j

\* The shell never reads a command while it counts a job as in the foreground.
PromptHasNoFG == pc \in {"prompt", "fork", "addjob", "getpid", "continue"} => InFG(list) = {}

\* A used slot names a process that exists, and no two slots the same one: a
\* reaped pid that fork returns again is never found in an old slot.
JobsAreChildren ==
  /\ \A p \in Listed : child[p] # "none"
  /\ \A i, j \in Slots : list.jobs[i].pid = list.jobs[j].pid /\ list.jobs[i].pid # 0 => i = j

\* SIGCHLD is blocked from fork to addjob, so until addjob has failed every
\* child is in the list when the handler asks for it.
ChildrenAreListed ==
  ~failedAdd => /\ status # "no job"
                /\ \A p \in Pids : child[p] # "none" => p \in Listed \/ (pc = "addjob" /\ p = pid)

\* The jump out of the handler has a frame to go to except between the end of
\* the mask (or SetState) and sigsetjmp.
JumpHasFrame == status = "no frame" => pc = "sigsetjmp" /\ want = "FG"

\* A job shown as stopped is stopped, unless the news that it continues has
\* still to be reaped: no order of the two signals leaves a running job ST.
StoppedIsStopped ==
  \A i \in Slots : LET p == list.jobs[i].pid IN
    p # 0 /\ list.jobs[i].state = "ST" => child[p] # "running" \/ news[p] = "continued"

Waiting(p) == pc \in {"sigsetjmp", "pause"} /\ status = "up" /\ FgPid(list) = p

\* The foreground job dies while waitfg waits for it or is about to
\* (tsh.c:353-363), so that its SIGCHLD has still to be delivered or its handler
\* is running: the handler may reap others first, but once the children have
\* settled the shell waits for no job.  Nothing is said of a job that was dead
\* when fg took it, with its signal used up: WaitsForFg is about that.
SignalledDeathEndsWait ==
  <>[][~Children]_vars =>
    ((\E p \in Pids : Waiting(p) /\ child[p] = "zombie") /\ (pending \/ handling)
       ~> \A p \in Pids : ~Waiting(p))

-------------------------------------------------------------------------------
(* What the comments say and the code does not do.                         *)

Alive(p) == p \in Pids /\ child[p] \in {"forked", "running", "stopped"}

\* tsh.c:351: waitfg blocks until pid is no longer the foreground process, so
\* a shell that has nothing left to handle waits for a process that is in the
\* foreground and has not died.
WaitsForFg ==
  pc = "pause" /\ status = "up" /\ ~handling /\ ~pending => FgPid(list) = pid /\ Alive(pid)
===============================================================================
