----------------------------- MODULE ShellProofs -----------------------------
(***************************************************************************)
(* Proofs about the shell: the job list, eval and the signal handlers, for *)
(* every MAXJOBS and every set of process ids, and the parsing of a line,  *)
(* for every line.                                                         *)
(***************************************************************************)
EXTENDS Shell, CommandLine, LibraryLemmas

-------------------------------------------------------------------------------
(* The loops of the list routines find what they look for.                 *)

LEMMA FirstExists ==
  ASSUME NEW S \in SUBSET Slots, S # {}
  PROVE  LET i == CHOOSE k \in Slots : IsFirst(k, S)
         IN i \in Slots /\ i \in S /\ IsFirst(i, S)
  <1>1. S \subseteq Nat
    BY MaxJobsAssumption DEF Slots
  <1>2. PICK m \in S : \A x \in S : m <= x
    BY <1>1, SmallestNat
  <1>3. m \in Slots /\ IsFirst(m, S)
    BY <1>2 DEF IsFirst
  <1> QED BY <1>3 DEF IsFirst

\* A finite set of numbers has a largest one: the one with the fewest above it.
LEMMA NatMax ==
  ASSUME NEW S, S \subseteq Nat, S # {}, IsFiniteSet(S)
  PROVE  \E m \in S : \A x \in S : x <= m
  <1> DEFINE Above(x) == {y \in S : x < y}
             Counts   == {Cardinality(Above(x)) : x \in S}
  <1>1. \A x \in S : IsFiniteSet(Above(x)) /\ Cardinality(Above(x)) \in Nat
    BY FS_Subset, FS_CardinalityType
  <1>2. PICK n \in Counts : \A k \in Counts : n <= k
    <2>1. Counts \subseteq Nat /\ Counts # {}
      BY <1>1
    <2> QED BY <2>1, SmallestNat
  <1>3. PICK m \in S : Cardinality(Above(m)) = n
    OBVIOUS
  <1>4. ASSUME NEW x \in S, m < x PROVE FALSE
    <2>1. Above(x) \subseteq Above(m) /\ x \in Above(m) /\ x \notin Above(x)
      <3>1. x \in Nat /\ m \in Nat /\ \A y \in S : y \in Nat
        OBVIOUS
      <3>2. \A y \in S : x < y => m < y
        BY <3>1, <1>4
      <3>3. ~(x < x)
        BY <3>1
      <3> QED BY <3>2, <3>3, <1>4
    <2>2. Cardinality(Above(x)) < Cardinality(Above(m))
      <3>1. Cardinality(Above(x)) <= Cardinality(Above(m))
            /\ (Cardinality(Above(m)) = Cardinality(Above(x)) => Above(m) = Above(x))
        BY <1>1, <2>1, FS_Subset
      <3> QED BY <3>1, <2>1, <1>1
    <2>3. Cardinality(Above(x)) \in Counts
      BY <1>4
    <2>4. Cardinality(Above(x)) \in Nat /\ Cardinality(Above(m)) \in Nat
      BY <1>1
    <2>5. Cardinality(Above(m)) <= Cardinality(Above(x))
      BY <2>3, <1>2, <1>3
    <2> HIDE DEF Above
    <2> QED BY <2>2, <2>4, <2>5
  <1>5. ASSUME NEW x \in S PROVE x <= m
    <2>1. x \in Nat /\ m \in Nat
      OBVIOUS
    <2> QED BY <2>1, <1>4
  <1> QED BY <1>5

LEMMA MaxJidIsMax ==
  ASSUME NEW jobs, \A i \in Slots : jobs[i].jid \in Nat
  PROVE  MaxJid(jobs) \in Nat /\ IsMaxJid(jobs, MaxJid(jobs))
  <1> DEFINE S == {0} \cup {jobs[i].jid : i \in Slots}
  <1>1. IsFiniteSet(S)
    <2>1. IsFiniteSet(Slots)
      BY MaxJobsAssumption, FS_Interval DEF Slots
    <2>2. IsFiniteSet({jobs[i].jid : i \in Slots})
      <3> DEFINE f == [i \in Slots |-> jobs[i].jid]
      <3>1. f \in Surjection(Slots, {jobs[i].jid : i \in Slots})
        BY DEF Surjection
      <3> QED BY <2>1, <3>1, FS_Surjection
    <2> QED BY <2>2, FS_AddElement
  <1>0. S \subseteq Nat /\ S # {}
    OBVIOUS
  <1>2. PICK m \in S : \A x \in S : x <= m
    <2> HIDE DEF S
    <2> QED BY <1>0, <1>1, NatMax
  <1>3. IsMaxJid(jobs, m) /\ m \in Nat
    BY <1>2 DEF IsMaxJid
  <1> QED BY <1>2, <1>3 DEF MaxJid, IsMaxJid

-------------------------------------------------------------------------------
(* What the routines do to a list.                                         *)

Entry == [pid : Pids \cup {0}, jid : Nat, state : States]

LEMMA ListShape ==
  ASSUME NEW l, IsList(l, Pids)
  PROVE  /\ l.jobs \in [Slots -> Entry] /\ l.nextjid \in Nat \ {0}
         /\ l = [jobs |-> l.jobs, nextjid |-> l.nextjid]
  BY DEF IsList, Entry

LEMMA EmptyIsList == IsList(EmptyList, Pids)
  BY DEF IsList, EmptyList, Cleared, States

LEMMA GetJobPidFinds ==
  ASSUME NEW l, IsList(l, Pids), NEW p \in Pids
  PROVE  /\ GetJobPid(l, p) \in Slots \cup {0}
         /\ GetJobPid(l, p) # 0 => l.jobs[GetJobPid(l, p)].pid = p
         /\ GetJobPid(l, p) = 0 => \A i \in Slots : l.jobs[i].pid # p
  <1>1. p >= 1 /\ OfPid(l, p) \in SUBSET Slots /\ 0 \notin Slots
    BY PidsAssumption, MaxJobsAssumption DEF OfPid, Slots
  <1>2. CASE OfPid(l, p) = {}
    BY <1>1, <1>2 DEF GetJobPid, OfPid
  <1>3. CASE OfPid(l, p) # {}
    <2> DEFINE i == CHOOSE k \in Slots : IsFirst(k, OfPid(l, p))
    <2>1. i \in Slots /\ i \in OfPid(l, p)
      BY <1>1, <1>3, FirstExists
    <2>2. GetJobPid(l, p) = i
      BY <1>1, <1>3 DEF GetJobPid
    <2> HIDE DEF i
    <2> QED BY <1>1, <2>1, <2>2 DEF OfPid
  <1> QED BY <1>2, <1>3

LEMMA AddedJobs ==
  ASSUME NEW l, IsList(l, Pids), NEW p \in Pids, NEW s \in States, CanAdd(l, p)
  PROVE  /\ IsList(Added(l, p, s), Pids)
         /\ \E i \in Slots :
              /\ l.jobs[i].pid = 0
              /\ Added(l, p, s).jobs[i].pid = p /\ Added(l, p, s).jobs[i].state = s
              /\ \A n \in Slots : n # i => Added(l, p, s).jobs[n] = l.jobs[n]
  <1> DEFINE i == CHOOSE k \in Slots : IsFirst(k, Free(l))
  <1>1. i \in Slots /\ i \in Free(l)
    BY FirstExists DEF CanAdd, Free
  <1>2. Added(l, p, s) = AddAt(l, i, p, s)
    BY DEF Added
  <1> HIDE DEF i
  <1>3. l.jobs \in [Slots -> Entry] /\ l.nextjid \in Nat \ {0}
    BY ListShape
  <1>4. AddAt(l, i, p, s).nextjid \in Nat \ {0}
    BY <1>3, MaxJobsAssumption DEF AddAt
  <1>5. AddAt(l, i, p, s).jobs = [l.jobs EXCEPT ![i] = [pid |-> p, jid |-> l.nextjid, state |-> s]]
    BY DEF AddAt
  <1>6. AddAt(l, i, p, s).jobs \in [Slots -> Entry]
    BY <1>1, <1>3, <1>5 DEF Entry
  <1>7. IsList(AddAt(l, i, p, s), Pids)
    BY <1>4, <1>6 DEF IsList, AddAt, Entry
  <1>8. l.jobs[i].pid = 0
    BY <1>1 DEF Free
  <1>9. /\ AddAt(l, i, p, s).jobs[i].pid = p /\ AddAt(l, i, p, s).jobs[i].state = s
        /\ \A n \in Slots : n # i => AddAt(l, i, p, s).jobs[n] = l.jobs[n]
    BY <1>1, <1>3, <1>5
  <1> QED BY <1>1, <1>2, <1>7, <1>8, <1>9

LEMMA DeletedJobs ==
  ASSUME NEW l, IsList(l, Pids), NEW p \in Pids, GetJobPid(l, p) # 0
  PROVE  /\ IsList(Deleted(l, p), Pids)
         /\ Deleted(l, p).jobs = [l.jobs EXCEPT ![GetJobPid(l, p)] = Cleared]
  <1> DEFINE i    == CHOOSE k \in Slots : IsFirst(k, OfPid(l, p))
             jobs == [l.jobs EXCEPT ![i] = Cleared]
  <1>1. p >= 1 /\ OfPid(l, p) # {} /\ GetJobPid(l, p) = i
    BY DEF GetJobPid
  <1>2. Deleted(l, p) = [jobs |-> jobs, nextjid |-> MaxJid(jobs) + 1]
    BY <1>1 DEF Deleted
  <1>3. i \in Slots
    BY <1>1, FirstExists DEF OfPid
  <1> HIDE DEF i
  <1>4. jobs \in [Slots -> Entry]
    BY <1>3, ListShape DEF Entry, Cleared, States
  <1>5. MaxJid(jobs) \in Nat
    <2>1. \A k \in Slots : jobs[k].jid \in Nat
      BY <1>4 DEF Entry
    <2> HIDE DEF jobs
    <2> QED BY <2>1, MaxJidIsMax
  <1> HIDE DEF jobs
  <1>6. IsList(Deleted(l, p), Pids)
    BY <1>2, <1>4, <1>5 DEF IsList, Entry
  <1> QED BY <1>1, <1>2, <1>6 DEF jobs

LEMMA WithStateJobs ==
  ASSUME NEW l, IsList(l, Pids), NEW i \in Slots, NEW s \in States
  PROVE  /\ IsList(WithState(l, i, s), Pids)
         /\ WithState(l, i, s).jobs = [l.jobs EXCEPT ![i] = [l.jobs[i] EXCEPT !.state = s]]
  <1>1. l.jobs \in [Slots -> Entry] /\ l.nextjid \in Nat \ {0}
    BY ListShape
  <1>2. WithState(l, i, s).jobs = [l.jobs EXCEPT ![i] = [l.jobs[i] EXCEPT !.state = s]]
    BY DEF WithState, IsList
  <1>3. WithState(l, i, s).nextjid = l.nextjid
    BY DEF WithState, IsList
  <1>4. WithState(l, i, s).jobs \in [Slots -> Entry]
    BY <1>1, <1>2 DEF Entry
  <1> QED BY <1>1, <1>2, <1>3, <1>4 DEF IsList, WithState, Entry

-------------------------------------------------------------------------------
(* The inductive invariant.                                                *)

\* SIGCHLD stays blocked, and its handler out, from Command to Unblock.
Masked == pc \in {"fork", "addjob", "unblock"} => blocked /\ ~handling

\* What the locals hold where they are used.
Located == /\ pc = "addjob" => pid \in Pids /\ child[pid] # "none" /\ pid \notin Listed
           /\ pc \in {"getpid", "continue", "setstate"} => slot \in Slots
           /\ pc = "sigsetjmp" => want = "FG"
           /\ pc = "pause" => jmpbuf = "live"

\* Unreaped news is the latest thing that happened to a living child.
NewsIsLatest == \A p \in Pids : /\ news[p] = "stopped" => child[p] = "stopped"
                                /\ news[p] = "continued" => child[p] = "running"

\* No slot is in the foreground outside the stretch from AddJob or SetState to
\* the jump out of waitfg.
Foreground ==
  pc \in {"prompt", "fork", "addjob", "getpid", "continue", "setstate"} \/ (pc = "unblock" /\ want = "BG")
    => InFG(list) = {}

\* StoppedIsStopped, and no job shown as stopped is a process just forked.
StoppedJobs ==
  \A i \in Slots : LET p == list.jobs[i].pid IN
    p # 0 /\ list.jobs[i].state = "ST" =>
      child[p] \in {"stopped", "zombie"} \/ (child[p] = "running" /\ news[p] = "continued")

IInv == /\ TypeOK /\ Masked /\ Located /\ NewsIsLatest
        /\ AtMostOneFG /\ Foreground /\ JobsAreChildren /\ ChildrenAreListed
        /\ JumpHasFrame /\ StoppedJobs

LEMMA InitHolds == Init => IInv
  <1> SUFFICES ASSUME Init PROVE IInv
    OBVIOUS
  <1> USE DEF Init
  <1>1. \A i \in Slots : list.jobs[i] = Cleared
    BY DEF EmptyList
  <1>2. InFG(list) = {} /\ Listed = {}
    BY <1>1 DEF InFG, Listed, Cleared
  <1>3. TypeOK
    BY EmptyIsList DEF TypeOK
  <1>4. Masked /\ Located /\ NewsIsLatest /\ Foreground /\ AtMostOneFG /\ JumpHasFrame
    BY <1>2 DEF Masked, Located, NewsIsLatest, Foreground, AtMostOneFG, JumpHasFrame
  <1>5. JobsAreChildren /\ ChildrenAreListed /\ StoppedJobs
    BY <1>1, <1>2 DEF JobsAreChildren, ChildrenAreListed, StoppedJobs, Cleared
  <1> QED BY <1>3, <1>4, <1>5 DEF IInv

\* One step per action, and under it one per group of conjuncts.
LEMMA StepHolds == IInv /\ [Next]_vars => IInv'
  <1> SUFFICES ASSUME IInv, [Next]_vars PROVE IInv'
    OBVIOUS
  <1>0. /\ TypeOK /\ Masked /\ Located /\ NewsIsLatest
        /\ AtMostOneFG /\ Foreground /\ JumpHasFrame
        /\ JobsAreChildren /\ ChildrenAreListed /\ StoppedJobs
    BY DEF IInv
  <1>1. Listed \subseteq Pids /\ list.jobs \in [Slots -> Entry]
    <2>1. list.jobs \in [Slots -> Entry]
      BY <1>0, ListShape DEF TypeOK
    <2>2. \A i \in Slots : list.jobs[i].pid \in Pids \cup {0}
      BY <2>1 DEF Entry
    <2> QED BY <2>1, <2>2 DEF Listed
  <1> USE DEF main, signal, kernel
  <1>2. ASSUME NEW p \in Pids, SetPgid(p) PROVE IInv'
    <2>0. list' = list /\ InFG(list)' = InFG(list) /\ Listed' = Listed
      BY <1>2 DEF SetPgid, InFG, Listed
    <2>1. TypeOK'
      <3>1. child' \in [Pids -> {"none", "forked", "running", "stopped", "zombie"}]
            /\ news' \in [Pids -> {"none", "stopped", "continued"}]
        BY <1>0, <1>2 DEF TypeOK, SetPgid
      <3>2. failedAdd' = failedAdd /\ pc' = pc /\ slot' = slot /\ pid' = pid /\ want' = want
            /\ jmpbuf' = jmpbuf /\ status' = status /\ handling' = handling /\ blocked' = blocked
        BY <1>2 DEF SetPgid
      <3>3. pending' \in BOOLEAN
        BY <1>0, <1>2 DEF TypeOK, SetPgid
      <3>4. IsList(list, Pids)' /\ (failedAdd \in BOOLEAN /\ handling \in BOOLEAN /\ blocked \in BOOLEAN)'
        BY <1>0, <2>0, <3>2 DEF TypeOK
      <3> QED BY <1>0, <3>1, <3>2, <3>3, <3>4 DEF TypeOK
    <2>2. (Masked /\ Located /\ NewsIsLatest)'
      BY <1>0, <1>2, <2>0 DEF TypeOK, Masked, Located, NewsIsLatest, SetPgid
    <2>3. (AtMostOneFG /\ Foreground /\ JumpHasFrame)'
      BY <1>0, <1>2, <2>0 DEF TypeOK, AtMostOneFG, Foreground, JumpHasFrame, SetPgid
    <2>4. (JobsAreChildren /\ ChildrenAreListed)'
      <3>1. \A q \in Pids : child'[q] # "none" <=> child[q] # "none"
        BY <1>0, <1>2 DEF TypeOK, SetPgid
      <3> QED BY <1>0, <1>1, <1>2, <2>0, <3>1 DEF JobsAreChildren, ChildrenAreListed, SetPgid
    <2>5. StoppedJobs'
      <3>1. \A j \in Slots : list.jobs[j].pid # 0 => list.jobs[j].pid \in Pids
        BY <1>1 DEF Entry
      <3> QED BY <1>0, <1>2, <2>0, <3>1, ZenonT(60) DEF TypeOK, NewsIsLatest, StoppedJobs, SetPgid
    <2> QED BY <2>1, <2>2, <2>3, <2>4, <2>5 DEF IInv
  <1>3. ASSUME NEW p \in Pids, ChildEvent(p) PROVE IInv'
    <2>0. list' = list /\ InFG(list)' = InFG(list) /\ Listed' = Listed
      BY <1>3 DEF ChildEvent, Becomes, InFG, Listed
    <2>1. TypeOK'
      <3>1. child' \in [Pids -> {"none", "forked", "running", "stopped", "zombie"}]
            /\ news' \in [Pids -> {"none", "stopped", "continued"}]
        BY <1>0, <1>3 DEF TypeOK, ChildEvent, Becomes
      <3>2. failedAdd' = failedAdd /\ pc' = pc /\ slot' = slot /\ pid' = pid /\ want' = want
            /\ jmpbuf' = jmpbuf /\ status' = status /\ handling' = handling /\ blocked' = blocked
        BY <1>3 DEF ChildEvent, Becomes
      <3>3. pending' \in BOOLEAN
        BY <1>0, <1>3 DEF TypeOK, ChildEvent, Becomes
      <3>4. IsList(list, Pids)' /\ (failedAdd \in BOOLEAN /\ handling \in BOOLEAN /\ blocked \in BOOLEAN)'
        BY <1>0, <2>0, <3>2 DEF TypeOK
      <3> QED BY <1>0, <3>1, <3>2, <3>3, <3>4 DEF TypeOK
    <2>2. (Masked /\ Located /\ NewsIsLatest)'
      BY <1>0, <1>3, <2>0, ZenonT(60) DEF TypeOK, Masked, Located, NewsIsLatest, ChildEvent, Becomes
    <2>3. (AtMostOneFG /\ Foreground /\ JumpHasFrame)'
      BY <1>0, <1>3, <2>0 DEF TypeOK, AtMostOneFG, Foreground, JumpHasFrame, ChildEvent, Becomes
    <2>4. (JobsAreChildren /\ ChildrenAreListed)'
      <3>1. \A q \in Pids : child'[q] # "none" <=> child[q] # "none"
        BY <1>0, <1>3 DEF TypeOK, ChildEvent, Becomes
      <3> QED BY <1>0, <1>1, <1>3, <2>0, <3>1 DEF JobsAreChildren, ChildrenAreListed, ChildEvent, Becomes
    <2>5. StoppedJobs'
      <3>1. \A j \in Slots : list.jobs[j].pid # 0 => list.jobs[j].pid \in Pids
        BY <1>1 DEF Entry
      <3>2. \A q \in Pids : child[q] \in {"stopped", "zombie"} \/ (child[q] = "running" /\ news[q] = "continued")
              => child'[q] \in {"stopped", "zombie"} \/ (child'[q] = "running" /\ news'[q] = "continued")
        BY <1>0, <1>3 DEF TypeOK, ChildEvent, Becomes
      <3> QED BY <1>0, <2>0, <3>1, <3>2 DEF StoppedJobs
    <2> QED BY <2>1, <2>2, <2>3, <2>4, <2>5 DEF IInv
  <1>4. ASSUME NEW p \in Pids, Fork(p) PROVE IInv'
    <2>0. list' = list /\ InFG(list)' = InFG(list) /\ Listed' = Listed
      BY <1>4 DEF Fork, Goes, InFG, Listed
    <2>1. TypeOK'
      BY <1>0, <1>4, <2>0 DEF TypeOK, Fork, Goes
    <2>2. (Masked /\ Located /\ NewsIsLatest)'
      <3>1. p \notin Listed
        BY <1>0, <1>4 DEF JobsAreChildren, Fork
      <3>2. news[p] = "none"
        <4>1. child[p] = "none" /\ news[p] \in {"none", "stopped", "continued"}
          BY <1>0, <1>4 DEF TypeOK, Fork
        <4>2. /\ news[p] = "stopped" => child[p] = "stopped"
              /\ news[p] = "continued" => child[p] = "running"
          BY <1>0, <1>4 DEF NewsIsLatest
        <4> QED BY <4>1, <4>2
      <3>3. NewsIsLatest'
        BY <1>0, <1>4, <3>2 DEF NewsIsLatest, TypeOK, Fork
      <3>4. (Masked /\ Located)'
        BY <1>0, <1>4, <2>0, <3>1 DEF TypeOK, Masked, Located, Fork, Goes
      <3> QED BY <3>3, <3>4
    <2>3. (AtMostOneFG /\ Foreground /\ JumpHasFrame)'
      BY <1>0, <1>4, <2>0 DEF TypeOK, AtMostOneFG, Foreground, JumpHasFrame, Fork, Goes
    <2>4. (JobsAreChildren /\ ChildrenAreListed)'
      <3>1. \A q \in Pids : child'[q] # "none" <=> child[q] # "none" \/ q = p
        BY <1>0, <1>4 DEF TypeOK, Fork, Goes
      <3> QED BY <1>0, <1>1, <1>4, <2>0, <3>1 DEF JobsAreChildren, ChildrenAreListed, Fork, Goes
    <2>5. StoppedJobs'
      BY <1>0, <1>4, <2>0 DEF TypeOK, NewsIsLatest, StoppedJobs, Fork, Goes
    <2> QED BY <2>1, <2>2, <2>3, <2>4, <2>5 DEF IInv
  <1>5. ASSUME NEW state \in {"FG", "BG"}, Command(state) PROVE IInv'
    <2>0. list' = list /\ InFG(list)' = InFG(list) /\ Listed' = Listed
      BY <1>5 DEF Command, Goes, InFG, Listed
    <2>1. TypeOK'
      BY <1>0, <1>5, <2>0 DEF TypeOK, Command, Goes
    <2>2. (Masked /\ Located /\ NewsIsLatest)'
      BY <1>0, <1>5, <2>0 DEF TypeOK, Masked, Located, NewsIsLatest, Command, Goes
    <2>3. (AtMostOneFG /\ Foreground /\ JumpHasFrame)'
      BY <1>0, <1>5, <2>0 DEF TypeOK, AtMostOneFG, Foreground, JumpHasFrame, Command, Goes
    <2>4. (JobsAreChildren /\ ChildrenAreListed)'
      BY <1>0, <1>1, <1>5, <2>0 DEF TypeOK, JobsAreChildren, ChildrenAreListed, Command, Goes
    <2>5. StoppedJobs'
      BY <1>0, <1>5, <2>0 DEF TypeOK, NewsIsLatest, StoppedJobs, Command, Goes
    <2> QED BY <2>1, <2>2, <2>3, <2>4, <2>5 DEF IInv
  <1>6. ASSUME NEW state \in {"FG", "BG"}, NEW i \in Slots, BgFg(state, i) PROVE IInv'
    <2>0. list' = list /\ InFG(list)' = InFG(list) /\ Listed' = Listed
      BY <1>6 DEF BgFg, Goes, InFG, Listed
    <2>1. TypeOK'
      BY <1>0, <1>6, <2>0 DEF TypeOK, BgFg, Goes
    <2>2. (Masked /\ Located /\ NewsIsLatest)'
      BY <1>0, <1>6, <2>0 DEF TypeOK, Masked, Located, NewsIsLatest, BgFg, Goes
    <2>3. (AtMostOneFG /\ Foreground /\ JumpHasFrame)'
      BY <1>0, <1>6, <2>0 DEF TypeOK, AtMostOneFG, Foreground, JumpHasFrame, BgFg, Goes
    <2>4. (JobsAreChildren /\ ChildrenAreListed)'
      BY <1>0, <1>1, <1>6, <2>0 DEF TypeOK, JobsAreChildren, ChildrenAreListed, BgFg, Goes
    <2>5. StoppedJobs'
      BY <1>0, <1>6, <2>0 DEF TypeOK, NewsIsLatest, StoppedJobs, BgFg, Goes
    <2> QED BY <2>1, <2>2, <2>3, <2>4, <2>5 DEF IInv
  <1>7. CASE Unblock
    <2>0. list' = list /\ InFG(list)' = InFG(list) /\ Listed' = Listed
      BY <1>7 DEF Unblock, Goes, NoLocals, KeepLocals, InFG, Listed
    <2>1. TypeOK'
      BY <1>0, <1>7, <2>0 DEF TypeOK, Unblock, Goes, NoLocals, KeepLocals
    <2>2. (Masked /\ Located /\ NewsIsLatest)'
      BY <1>0, <1>7, <2>0 DEF TypeOK, Masked, Located, NewsIsLatest, Unblock, Goes, NoLocals, KeepLocals
    <2>3. (AtMostOneFG /\ Foreground /\ JumpHasFrame)'
      BY <1>0, <1>7, <2>0 DEF TypeOK, AtMostOneFG, Foreground, JumpHasFrame, Unblock, Goes, NoLocals, KeepLocals
    <2>4. (JobsAreChildren /\ ChildrenAreListed)'
      BY <1>0, <1>1, <1>7, <2>0 DEF TypeOK, JobsAreChildren, ChildrenAreListed, Unblock, Goes, NoLocals, KeepLocals
    <2>5. StoppedJobs'
      BY <1>0, <1>7, <2>0 DEF TypeOK, NewsIsLatest, StoppedJobs, Unblock, Goes, NoLocals, KeepLocals
    <2> QED BY <2>1, <2>2, <2>3, <2>4, <2>5 DEF IInv
  <1>8. CASE Continue
    <2>0. list' = list /\ InFG(list)' = InFG(list) /\ Listed' = Listed
      BY <1>8 DEF Continue, Goes, ContinueGroup, Becomes, InFG, Listed
    <2>1. TypeOK'
      BY <1>0, <1>8, <2>0 DEF TypeOK, Continue, Goes, ContinueGroup, Becomes
    <2>2. (Masked /\ Located /\ NewsIsLatest)'
      BY <1>0, <1>8, <2>0 DEF TypeOK, Masked, Located, NewsIsLatest, Continue, Goes, ContinueGroup, Becomes
    <2>3. (AtMostOneFG /\ Foreground /\ JumpHasFrame)'
      BY <1>0, <1>8, <2>0 DEF TypeOK, AtMostOneFG, Foreground, JumpHasFrame, Continue, Goes, ContinueGroup, Becomes
    <2>4. (JobsAreChildren /\ ChildrenAreListed)'
      <3>1. \A q \in Pids : child'[q] # "none" <=> child[q] # "none"
        BY <1>0, <1>8 DEF TypeOK, Continue, Goes, ContinueGroup, Becomes
      <3> QED BY <1>0, <1>1, <1>8, <2>0, <3>1 DEF JobsAreChildren, ChildrenAreListed, Continue, Goes, ContinueGroup, Becomes
    <2>5. StoppedJobs'
      <3>1. \A j \in Slots : list.jobs[j].pid # 0 => list.jobs[j].pid \in Pids
        BY <1>1 DEF Entry
      <3> QED BY <1>0, <1>8, <2>0, <3>1 DEF TypeOK, NewsIsLatest, StoppedJobs, Continue, Goes, ContinueGroup, Becomes
    <2> QED BY <2>1, <2>2, <2>3, <2>4, <2>5 DEF IInv
  <1>9. CASE SetJmp
    <2>0. list' = list /\ InFG(list)' = InFG(list) /\ Listed' = Listed
      BY <1>9 DEF SetJmp, Goes, InFG, Listed
    <2>1. TypeOK'
      BY <1>0, <1>9, <2>0 DEF TypeOK, SetJmp, Goes
    <2>2. (Masked /\ Located /\ NewsIsLatest)'
      BY <1>0, <1>9, <2>0 DEF TypeOK, Masked, Located, NewsIsLatest, SetJmp, Goes
    <2>3. (AtMostOneFG /\ Foreground /\ JumpHasFrame)'
      BY <1>0, <1>9, <2>0 DEF TypeOK, AtMostOneFG, Foreground, JumpHasFrame, SetJmp, Goes
    <2>4. (JobsAreChildren /\ ChildrenAreListed)'
      BY <1>0, <1>1, <1>9, <2>0 DEF TypeOK, JobsAreChildren, ChildrenAreListed, SetJmp, Goes
    <2>5. StoppedJobs'
      BY <1>0, <1>9, <2>0 DEF TypeOK, NewsIsLatest, StoppedJobs, SetJmp, Goes
    <2> QED BY <2>1, <2>2, <2>3, <2>4, <2>5 DEF IInv
  <1>10. CASE Quit
    <2>0. list' = list /\ InFG(list)' = InFG(list) /\ Listed' = Listed
      BY <1>10 DEF Quit, Goes, InFG, Listed
    <2>1. TypeOK'
      BY <1>0, <1>10, <2>0 DEF TypeOK, Quit, Goes
    <2>2. (Masked /\ Located /\ NewsIsLatest)'
      BY <1>0, <1>10, <2>0 DEF TypeOK, Masked, Located, NewsIsLatest, Quit, Goes
    <2>3. (AtMostOneFG /\ Foreground /\ JumpHasFrame)'
      BY <1>0, <1>10, <2>0 DEF TypeOK, AtMostOneFG, Foreground, JumpHasFrame, Quit, Goes
    <2>4. (JobsAreChildren /\ ChildrenAreListed)'
      BY <1>0, <1>1, <1>10, <2>0 DEF TypeOK, JobsAreChildren, ChildrenAreListed, Quit, Goes
    <2>5. StoppedJobs'
      BY <1>0, <1>10, <2>0 DEF TypeOK, NewsIsLatest, StoppedJobs, Quit, Goes
    <2> QED BY <2>1, <2>2, <2>3, <2>4, <2>5 DEF IInv
  <1>11. CASE Enter
    <2>0. list' = list /\ InFG(list)' = InFG(list) /\ Listed' = Listed
      BY <1>11 DEF Enter, InFG, Listed
    <2>1. TypeOK'
      BY <1>0, <1>11, <2>0 DEF TypeOK, Enter
    <2>2. (Masked /\ Located /\ NewsIsLatest)'
      BY <1>0, <1>11, <2>0 DEF TypeOK, Masked, Located, NewsIsLatest, Enter
    <2>3. (AtMostOneFG /\ Foreground /\ JumpHasFrame)'
      BY <1>0, <1>11, <2>0 DEF TypeOK, AtMostOneFG, Foreground, JumpHasFrame, Enter
    <2>4. (JobsAreChildren /\ ChildrenAreListed)'
      BY <1>0, <1>1, <1>11, <2>0 DEF TypeOK, JobsAreChildren, ChildrenAreListed, Enter
    <2>5. StoppedJobs'
      BY <1>0, <1>11, <2>0 DEF TypeOK, NewsIsLatest, StoppedJobs, Enter
    <2> QED BY <2>1, <2>2, <2>3, <2>4, <2>5 DEF IInv
  <1>12. CASE Leave
    <2>0. list' = list /\ InFG(list)' = InFG(list) /\ Listed' = Listed
      BY <1>12 DEF Leave, InFG, Listed
    <2>1. TypeOK'
      BY <1>0, <1>12, <2>0, ZenonT(60) DEF TypeOK, Leave
    <2>2. (Masked /\ Located /\ NewsIsLatest)'
      BY <1>0, <1>12, <2>0 DEF TypeOK, Masked, Located, NewsIsLatest, Leave
    <2>3. (AtMostOneFG /\ Foreground /\ JumpHasFrame)'
      BY <1>0, <1>12, <2>0 DEF TypeOK, AtMostOneFG, Foreground, JumpHasFrame, Leave
    <2>4. (JobsAreChildren /\ ChildrenAreListed)'
      BY <1>0, <1>1, <1>12, <2>0 DEF TypeOK, JobsAreChildren, ChildrenAreListed, Leave
    <2>5. StoppedJobs'
      BY <1>0, <1>12, <2>0 DEF TypeOK, NewsIsLatest, StoppedJobs, Leave
    <2> QED BY <2>1, <2>2, <2>3, <2>4, <2>5 DEF IInv
  <1>13. CASE CtrlC
    <2>0. list' = list /\ InFG(list)' = InFG(list) /\ Listed' = Listed
      BY <1>13 DEF CtrlC, Becomes, InFG, Listed
    <2>1. TypeOK'
      BY <1>0, <1>13, <2>0 DEF TypeOK, CtrlC, Becomes
    <2>2. (Masked /\ Located /\ NewsIsLatest)'
      BY <1>0, <1>13, <2>0 DEF TypeOK, Masked, Located, NewsIsLatest, CtrlC, Becomes
    <2>3. (AtMostOneFG /\ Foreground /\ JumpHasFrame)'
      BY <1>0, <1>13, <2>0 DEF TypeOK, AtMostOneFG, Foreground, JumpHasFrame, CtrlC, Becomes
    <2>4. (JobsAreChildren /\ ChildrenAreListed)'
      <3>1. \A q \in Pids : child'[q] # "none" <=> child[q] # "none"
        BY <1>0, <1>13 DEF TypeOK, CtrlC, Becomes
      <3> QED BY <1>0, <1>1, <1>13, <2>0, <3>1 DEF JobsAreChildren, ChildrenAreListed, CtrlC, Becomes
    <2>5. StoppedJobs'
      BY <1>0, <1>13, <2>0 DEF TypeOK, NewsIsLatest, StoppedJobs, CtrlC, Becomes
    <2> QED BY <2>1, <2>2, <2>3, <2>4, <2>5 DEF IInv
  <1>14. CASE CtrlZ
    <2>0. list' = list /\ InFG(list)' = InFG(list) /\ Listed' = Listed
      BY <1>14 DEF CtrlZ, Becomes, InFG, Listed
    <2>1. TypeOK'
      BY <1>0, <1>14, <2>0 DEF TypeOK, CtrlZ, Becomes
    <2>2. (Masked /\ Located /\ NewsIsLatest)'
      BY <1>0, <1>14, <2>0 DEF TypeOK, Masked, Located, NewsIsLatest, CtrlZ, Becomes
    <2>3. (AtMostOneFG /\ Foreground /\ JumpHasFrame)'
      BY <1>0, <1>14, <2>0 DEF TypeOK, AtMostOneFG, Foreground, JumpHasFrame, CtrlZ, Becomes
    <2>4. (JobsAreChildren /\ ChildrenAreListed)'
      <3>1. \A q \in Pids : child'[q] # "none" <=> child[q] # "none"
        BY <1>0, <1>14 DEF TypeOK, CtrlZ, Becomes
      <3> QED BY <1>0, <1>1, <1>14, <2>0, <3>1 DEF JobsAreChildren, ChildrenAreListed, CtrlZ, Becomes
    <2>5. StoppedJobs'
      BY <1>0, <1>14, <2>0 DEF TypeOK, NewsIsLatest, StoppedJobs, CtrlZ, Becomes
    <2> QED BY <2>1, <2>2, <2>3, <2>4, <2>5 DEF IInv
  <1>15. CASE UNCHANGED vars
    <2>0. list' = list /\ InFG(list)' = InFG(list) /\ Listed' = Listed
      BY <1>15 DEF vars, InFG, Listed
    <2>1. TypeOK'
      <3>1. failedAdd' = failedAdd /\ pc' = pc /\ slot' = slot /\ pid' = pid /\ want' = want
            /\ jmpbuf' = jmpbuf /\ status' = status /\ handling' = handling /\ blocked' = blocked
            /\ pending' = pending /\ child' = child /\ news' = news
        BY <1>15 DEF vars
      <3>2. IsList(list, Pids)' /\ (failedAdd \in BOOLEAN /\ handling \in BOOLEAN
                                   /\ blocked \in BOOLEAN /\ pending \in BOOLEAN)'
        BY <1>0, <2>0, <3>1 DEF TypeOK
      <3> QED BY <1>0, <3>1, <3>2 DEF TypeOK
    <2>2. (Masked /\ Located /\ NewsIsLatest)'
      BY <1>0, <1>15, <2>0 DEF TypeOK, Masked, Located, NewsIsLatest, vars
    <2>3. (AtMostOneFG /\ Foreground /\ JumpHasFrame)'
      BY <1>0, <1>15, <2>0 DEF TypeOK, AtMostOneFG, Foreground, JumpHasFrame, vars
    <2>4. (JobsAreChildren /\ ChildrenAreListed)'
      BY <1>0, <1>1, <1>15, <2>0 DEF TypeOK, JobsAreChildren, ChildrenAreListed, vars
    <2>5. StoppedJobs'
      BY <1>0, <1>15, <2>0 DEF TypeOK, NewsIsLatest, StoppedJobs, vars
    <2> QED BY <2>1, <2>2, <2>3, <2>4, <2>5 DEF IInv
  <1>16. ASSUME NEW p \in Pids, ReapUnlisted(p) PROVE IInv'
    <2>0. list' = list /\ InFG(list)' = InFG(list) /\ Listed' = Listed
      BY <1>16 DEF ReapUnlisted, InFG, Listed
    <2>1. TypeOK'
      BY <1>0, <1>16, <2>0, ZenonT(60) DEF TypeOK, ReapUnlisted
    <2>2. (Masked /\ Located /\ NewsIsLatest)'
      BY <1>0, <1>16, <2>0 DEF TypeOK, Masked, Located, NewsIsLatest, ReapUnlisted
    <2>3. (AtMostOneFG /\ Foreground /\ JumpHasFrame)'
      BY <1>0, <1>16, <2>0 DEF TypeOK, AtMostOneFG, Foreground, JumpHasFrame, ReapUnlisted
    <2>4. (JobsAreChildren /\ ChildrenAreListed)'
      <3>1. p \notin Listed
        <4>1. \A i \in Slots : list.jobs[i].pid # p
          BY <1>0, <1>16, GetJobPidFinds, ZenonT(60) DEF TypeOK, ReapUnlisted
        <4> QED BY <4>1 DEF Listed
      <3>2. child[p] # "none" /\ pc # "addjob"
        <4>1. handling /\ (child[p] = "zombie" \/ news[p] \in {"stopped", "continued"})
          BY <1>0, <1>16 DEF TypeOK, ReapUnlisted, Waitable
        <4>2. /\ news[p] = "stopped" => child[p] = "stopped"
              /\ news[p] = "continued" => child[p] = "running"
          BY <1>0, <1>16 DEF NewsIsLatest
        <4>3. pc # "addjob"
          BY <1>0, <4>1 DEF Masked
        <4> QED BY <4>1, <4>2, <4>3
      <3>3. failedAdd
        BY <1>0, <3>1, <3>2 DEF ChildrenAreListed, TypeOK
      <3> QED BY <1>0, <1>16, <2>0, <3>3 DEF JobsAreChildren, ChildrenAreListed, ReapUnlisted
    <2>5. StoppedJobs'
      BY <1>0, <1>16, <2>0, ZenonT(60) DEF TypeOK, NewsIsLatest, StoppedJobs, ReapUnlisted
    <2> QED BY <2>1, <2>2, <2>3, <2>4, <2>5 DEF IInv
  <1>17. CASE AddJob
    <2>1. pid \in Pids /\ want \in States /\ InFG(list) = {}
      BY <1>0, <1>17 DEF TypeOK, Located, Foreground, AddJob, Goes, States
    <2>2. CASE ~CanAdd(list, pid)
      <3>1. list' = list /\ failedAdd'
        BY <1>17, <2>2 DEF AddJob, Added
      <3>2. InFG(list)' = InFG(list) /\ Listed' = Listed
        BY <3>1 DEF InFG, Listed
      <3>3. TypeOK'
        BY <1>0, <1>17, <3>1 DEF TypeOK, AddJob, Goes
      <3>4. (Masked /\ Located /\ NewsIsLatest)'
        BY <1>0, <1>17 DEF Masked, Located, NewsIsLatest, AddJob, Goes
      <3>5. (AtMostOneFG /\ Foreground /\ JumpHasFrame)'
        BY <1>0, <1>17, <2>1, <3>2 DEF AtMostOneFG, Foreground, JumpHasFrame, AddJob, Goes
      <3>6. (JobsAreChildren /\ ChildrenAreListed)'
        BY <1>0, <1>17, <3>1, <3>2 DEF JobsAreChildren, ChildrenAreListed, AddJob, Goes
      <3>7. StoppedJobs'
        BY <1>0, <1>17, <3>1 DEF StoppedJobs, AddJob
      <3> QED BY <3>3, <3>4, <3>5, <3>6, <3>7 DEF IInv
    <2>3. CASE CanAdd(list, pid)
      <3>1. IsList(list, Pids) /\ list' = Added(list, pid, want)
        BY <1>0, <1>17 DEF TypeOK, AddJob
      <3>2. IsList(list', Pids)
        BY <2>1, <2>3, <3>1, AddedJobs
      <3>3. PICK i \in Slots :
              /\ list.jobs[i].pid = 0
              /\ list'.jobs[i].pid = pid /\ list'.jobs[i].state = want
              /\ \A n \in Slots : n # i => list'.jobs[n] = list.jobs[n]
        BY <2>1, <2>3, <3>1, AddedJobs
      <3>4. Listed' = Listed \cup {pid}
        BY <2>1, <3>3, PidsAssumption DEF Listed
      <3>5. InFG(list)' = IF want = "FG" THEN {i} ELSE {}
        BY <2>1, <3>3 DEF InFG
      <3>6. TypeOK'
        BY <1>0, <1>17, <3>2 DEF TypeOK, AddJob, Goes
      <3>7. (Masked /\ Located /\ NewsIsLatest)'
        BY <1>0, <1>17 DEF Masked, Located, NewsIsLatest, AddJob, Goes
      <3>8. (AtMostOneFG /\ Foreground /\ JumpHasFrame)'
        BY <1>0, <1>17, <3>5 DEF AtMostOneFG, Foreground, JumpHasFrame, AddJob, Goes
      <3>9. JobsAreChildren'
        <4>1. child' = child /\ child[pid] # "none" /\ pid \notin Listed
          BY <1>0, <1>17 DEF Located, AddJob, Goes
        <4>2. \A n \in Slots : list.jobs[n].pid # pid
          BY <2>1, <4>1, PidsAssumption DEF Listed
        <4> QED BY <1>0, <3>3, <3>4, <4>1, <4>2 DEF JobsAreChildren
      <3>10. ChildrenAreListed'
        BY <1>0, <1>17, <3>4 DEF ChildrenAreListed, AddJob, Goes
      <3>11. StoppedJobs'
        <4>1. child' = child /\ news' = news /\ list'.jobs[i].state # "ST"
          BY <1>0, <1>17, <3>3 DEF TypeOK, AddJob
        <4> QED BY <1>0, <3>3, <4>1 DEF StoppedJobs
      <3> QED BY <3>6, <3>7, <3>8, <3>9, <3>10, <3>11 DEF IInv
    <2> QED BY <2>2, <2>3
  <1>18. CASE SetState
    <2>1. slot \in Slots /\ want \in States /\ InFG(list) = {} /\ list' = WithState(list, slot, want)
      BY <1>0, <1>18 DEF TypeOK, Located, Foreground, SetState, Goes, States
    <2>2. IsList(list', Pids) /\ list'.jobs = [list.jobs EXCEPT ![slot] = [list.jobs[slot] EXCEPT !.state = want]]
      <3>1. IsList(list, Pids)
        BY <1>0 DEF TypeOK
      <3> QED BY <2>1, <3>1, WithStateJobs
    <2>3. /\ list'.jobs[slot].state = want
          /\ \A n \in Slots : /\ list'.jobs[n].pid = list.jobs[n].pid
                              /\ n # slot => list'.jobs[n] = list.jobs[n]
      BY <1>1, <2>1, <2>2 DEF Entry
    <2>4. Listed' = Listed
      BY <2>3 DEF Listed
    <2>5. InFG(list)' = IF want = "FG" THEN {slot} ELSE {}
      BY <2>1, <2>3 DEF InFG
    <2>6. TypeOK'
      BY <1>0, <1>18, <2>2 DEF TypeOK, SetState, Goes, KeepLocals, NoLocals
    <2>7. (Masked /\ Located /\ NewsIsLatest)'
      BY <1>0, <1>18 DEF TypeOK, Masked, Located, NewsIsLatest, SetState, Goes, KeepLocals, NoLocals
    <2>8. (AtMostOneFG /\ Foreground /\ JumpHasFrame)'
      BY <1>0, <1>18, <2>5 DEF TypeOK, AtMostOneFG, Foreground, JumpHasFrame, SetState, Goes
    <2>9. (JobsAreChildren /\ ChildrenAreListed)'
      BY <1>0, <1>18, <2>3, <2>4 DEF JobsAreChildren, ChildrenAreListed, SetState, Goes
    <2>10. StoppedJobs'
      <3>1. child' = child /\ news' = news /\ list'.jobs[slot].state # "ST"
        BY <1>0, <1>18, <2>3 DEF TypeOK, SetState
      <3> QED BY <1>0, <2>3, <3>1 DEF StoppedJobs
    <2> QED BY <2>6, <2>7, <2>8, <2>9, <2>10 DEF IInv
  <1>19. ASSUME NEW p \in Pids, Reap(p) PROVE IInv'
    <2> DEFINE i    == GetJobPid(list, p)
               old  == list.jobs[i].state
               dead == child[p] = "zombie"
    <2>1. i \in Slots /\ list.jobs[i].pid = p
      BY <1>0, <1>19, GetJobPidFinds DEF Reap, TypeOK
    <2>2. IsList(Deleted(list, p), Pids) /\ Deleted(list, p).jobs = [list.jobs EXCEPT ![i] = Cleared]
      BY <1>0, <1>19, DeletedJobs DEF Reap, TypeOK
    <2>3. \A s \in States : /\ IsList(WithState(list, i, s), Pids)
                            /\ WithState(list, i, s).jobs
                                 = [list.jobs EXCEPT ![i] = [list.jobs[i] EXCEPT !.state = s]]
      BY <1>0, <2>1, WithStateJobs DEF TypeOK
    <2>4. /\ dead => list' = Deleted(list, p)
          /\ ~dead /\ news[p] = "stopped" => list' = WithState(list, i, "ST")
          /\ ~dead /\ news[p] = "continued" =>
               list' = IF old \in {"FG", "BG"} THEN list ELSE WithState(list, i, "BG")
          /\ dead \/ news[p] \in {"stopped", "continued"}
      BY <1>0, <1>19 DEF Reap, Noted, Waitable, TypeOK
    <2> HIDE DEF i, old, dead
    <2>5. /\ child' = [child EXCEPT ![p] = IF dead THEN "none" ELSE @]
          /\ news' = [news EXCEPT ![p] = "none"]
          /\ failedAdd' = failedAdd /\ pending' = pending
          /\ handling /\ status = "up"
      BY <1>19 DEF Reap, dead
    <2>6. IF old = "FG" /\ (dead \/ news[p] = "stopped")
          THEN LongJmp ELSE UNCHANGED <<main, jmpbuf, handling, blocked, status>>
      BY <1>19 DEF Reap, dead, old, i
    <2>7. IsList(list', Pids)
      BY <1>0, <2>2, <2>3, <2>4 DEF States, TypeOK
    <2>8. /\ \A n \in Slots : n # i => list'.jobs[n] = list.jobs[n]
          /\ dead => list'.jobs[i] = Cleared
          /\ ~dead /\ news[p] = "stopped" => list'.jobs[i].pid = p /\ list'.jobs[i].state = "ST"
          /\ ~dead /\ news[p] = "continued" =>
               list'.jobs[i].pid = p /\ list'.jobs[i].state = IF old = "FG" THEN "FG" ELSE "BG"
      <3>1. list.jobs[i] \in Entry /\ old = list.jobs[i].state
        BY <1>1, <2>1 DEF old
      <3> QED BY <1>1, <2>1, <2>2, <2>3, <2>4, <3>1 DEF States, Entry
    <2>9. /\ dead => Listed' = Listed \ {p}
          /\ ~dead => Listed' = Listed
      <3>1. \A n \in Slots : n # i => list.jobs[n].pid # p
        BY <1>0, <2>1, PidsAssumption DEF JobsAreChildren
      <3> QED BY <2>1, <2>4, <2>8, <3>1 DEF Listed, Cleared
    <2>10. /\ \A n \in InFG(list)' : n \in InFG(list)
           /\ old = "FG" /\ (dead \/ news[p] = "stopped") => i \in InFG(list) /\ i \notin InFG(list)'
      <3>1. \A n \in Slots : list'.jobs[n].state = "FG" => list.jobs[n].state = "FG"
        BY <1>0, <2>4, <2>8 DEF old, Cleared
      <3>2. old = "FG" /\ (dead \/ news[p] = "stopped") => list.jobs[i].state = "FG" /\ list'.jobs[i].state # "FG"
        BY <2>8 DEF old, Cleared
      <3> QED BY <2>1, <3>1, <3>2 DEF InFG
    <2>11. pc \notin {"fork", "addjob", "unblock"} /\ handling = TRUE /\ status = "up"
      BY <1>0, <2>5 DEF Masked, TypeOK
    <2>12. (NewsIsLatest /\ JobsAreChildren /\ StoppedJobs)'
      <3>1. NewsIsLatest'
        BY <1>0, <2>5 DEF NewsIsLatest, TypeOK, dead
      <3>2. JobsAreChildren'
        <4>1. \A q \in Listed' : child'[q] # "none"
          <5>1. \A q \in Pids : q # p => child'[q] = child[q]
            BY <1>0, <2>5 DEF TypeOK
          <5>2. ~dead => child' = child
            BY <1>0, <2>5 DEF TypeOK
          <5> QED BY <1>0, <1>1, <2>9, <5>1, <5>2 DEF JobsAreChildren
        <4>2. \A n \in Slots : list'.jobs[n].pid = list.jobs[n].pid \/ (n = i /\ list'.jobs[n].pid = 0)
          BY <2>1, <2>4, <2>8 DEF Cleared
        <4> QED BY <1>0, <4>1, <4>2 DEF JobsAreChildren
      <3>3. StoppedJobs'
        <4>1. \A n \in Slots \ {i} : list.jobs[n].pid # p
          BY <1>0, <2>1, PidsAssumption DEF JobsAreChildren
        <4>2. \A n \in Slots \ {i} : LET q == list.jobs[n].pid IN
                q # 0 => child'[q] = child[q] /\ news'[q] = news[q]
          BY <1>0, <1>1, <2>5, <4>1 DEF TypeOK, Entry
        <4>3. list'.jobs[i].pid # 0 /\ list'.jobs[i].state = "ST" => child'[p] = "stopped" /\ list'.jobs[i].pid = p
          BY <1>0, <2>4, <2>5, <2>8 DEF TypeOK, NewsIsLatest, Cleared
        <4> QED BY <1>0, <2>8, <4>2, <4>3 DEF StoppedJobs
      <3> QED BY <3>1, <3>2, <3>3
    <2>13. /\ child' \in [Pids -> {"none", "forked", "running", "stopped", "zombie"}]
           /\ news' \in [Pids -> {"none", "stopped", "continued"}]
      BY <1>0, <2>5 DEF TypeOK
    <2>14. ChildrenAreListed'
      <3>1. \A q \in Pids : child'[q] # "none" => child[q] # "none" /\ (dead => q # p)
        BY <1>0, <2>5 DEF TypeOK
      <3>2. (status = "no job")' => status = "no job"
        BY <2>6 DEF LongJmp
      <3>3. failedAdd' = failedAdd
        BY <2>5
      <3>4. ~failedAdd => \A q \in Pids : child'[q] # "none" => q \in Listed'
        BY <1>0, <2>9, <2>11, <3>1 DEF ChildrenAreListed
      <3> QED BY <1>0, <3>2, <3>3, <3>4 DEF ChildrenAreListed
    <2>15. \A m, n \in InFG(list)' : m = n
      BY <1>0, <2>10 DEF AtMostOneFG
    <2>16. old = "FG" /\ (dead \/ news[p] = "stopped") => InFG(list)' = {}
      BY <1>0, <2>10 DEF AtMostOneFG
    <2>17. CASE old = "FG" /\ (dead \/ news[p] = "stopped")
      <3>1. InFG(list)' = {} /\ InFG(list) # {}
        BY <2>10, <2>16, <2>17
      <3>2. pc \in {"sigsetjmp", "pause"}
        BY <1>0, <2>11, <3>1 DEF Foreground, TypeOK
      <3>3. (AtMostOneFG /\ Foreground)'
        BY <3>1 DEF AtMostOneFG, Foreground
      <3>4. CASE /\ jmpbuf \in {"live", "stale"}
                 /\ pc' = "prompt" /\ jmpbuf' = "stale" /\ NoLocals
                 /\ handling' = FALSE /\ blocked' = FALSE
                 /\ UNCHANGED status
        <4>1. (IsList(list, Pids) /\ failedAdd \in BOOLEAN /\ handling \in BOOLEAN
               /\ blocked \in BOOLEAN /\ pending \in BOOLEAN)'
          BY <1>0, <2>5, <2>7, <3>4 DEF TypeOK
        <4>2. TypeOK'
          BY <1>0, <2>13, <3>4, <4>1 DEF TypeOK, NoLocals
        <4>3. (Masked /\ Located /\ JumpHasFrame)'
          BY <2>11, <3>4 DEF Masked, Located, JumpHasFrame
        <4> QED BY <2>12, <2>14, <3>3, <4>2, <4>3 DEF IInv
      <3>5. CASE /\ jmpbuf \in {"unset", "stale"}
                 /\ status' = "no frame"
                 /\ UNCHANGED <<main, jmpbuf, handling, blocked>>
        <4>1. UNCHANGED <<pc, slot, pid, want, jmpbuf>> /\ handling' = handling /\ blocked' = blocked
          BY <3>5
        <4>2. (IsList(list, Pids) /\ failedAdd \in BOOLEAN /\ handling \in BOOLEAN
               /\ blocked \in BOOLEAN /\ pending \in BOOLEAN)'
          BY <1>0, <2>5, <2>7, <4>1 DEF TypeOK
        <4>3. TypeOK'
          BY <1>0, <2>13, <3>5, <4>1, <4>2 DEF TypeOK
        <4>4. (Masked /\ Located)'
          BY <1>0, <2>11, <4>1 DEF Masked, Located
        <4>5. JumpHasFrame'
          BY <1>0, <3>2, <3>5, <4>1 DEF Located, JumpHasFrame
        <4> QED BY <2>12, <2>14, <3>3, <4>3, <4>4, <4>5 DEF IInv
      <3> QED BY <2>6, <2>17, <3>4, <3>5 DEF LongJmp
    <2>18. CASE ~(old = "FG" /\ (dead \/ news[p] = "stopped"))
      <3>1. UNCHANGED <<pc, slot, pid, want, jmpbuf, status>> /\ handling' = handling /\ blocked' = blocked
        BY <2>6, <2>18
      <3>2. (IsList(list, Pids) /\ failedAdd \in BOOLEAN /\ handling \in BOOLEAN
             /\ blocked \in BOOLEAN /\ pending \in BOOLEAN)'
        BY <1>0, <2>5, <2>7, <3>1 DEF TypeOK
      <3>3. TypeOK'
        BY <1>0, <2>13, <3>1, <3>2 DEF TypeOK
      <3>4. (Masked /\ Located)'
        BY <1>0, <2>11, <3>1 DEF Masked, Located
      <3>5. (AtMostOneFG /\ Foreground /\ JumpHasFrame)'
        BY <1>0, <2>10, <2>15, <3>1 DEF AtMostOneFG, Foreground, JumpHasFrame
      <3> QED BY <2>12, <2>14, <3>3, <3>4, <3>5 DEF IInv
    <2> QED BY <2>17, <2>18
  <1>20. CASE TakePid
    <2>0. list' = list /\ InFG(list)' = InFG(list) /\ Listed' = Listed
      BY <1>20 DEF TakePid, Goes, InFG, Listed
    <2>1. TypeOK'
      <3>1. slot \in Slots
        BY <1>0, <1>20 DEF Located, TakePid, Goes
      <3>2. list.jobs[slot].pid \in Pids \cup {0}
        BY <1>1, <3>1 DEF Entry
      <3> QED BY <1>0, <1>20, <2>0, <3>2 DEF TypeOK, TakePid, Goes
    <2>2. (Masked /\ Located /\ NewsIsLatest)'
      BY <1>0, <1>20, <2>0 DEF TypeOK, Masked, Located, NewsIsLatest, TakePid, Goes
    <2>3. (AtMostOneFG /\ Foreground /\ JumpHasFrame)'
      BY <1>0, <1>20, <2>0 DEF TypeOK, AtMostOneFG, Foreground, JumpHasFrame, TakePid, Goes
    <2>4. (JobsAreChildren /\ ChildrenAreListed)'
      BY <1>0, <1>1, <1>20, <2>0 DEF TypeOK, JobsAreChildren, ChildrenAreListed, TakePid, Goes
    <2>5. StoppedJobs'
      BY <1>0, <1>20, <2>0 DEF TypeOK, NewsIsLatest, StoppedJobs, TakePid, Goes
    <2> QED BY <2>1, <2>2, <2>3, <2>4, <2>5 DEF IInv
  <1>21. CASE ForkFails
    <2>0. list' = list /\ InFG(list)' = InFG(list) /\ Listed' = Listed
      BY <1>21 DEF ForkFails, Goes, InFG, Listed
    <2>1. TypeOK'
      BY <1>0, <1>21, <2>0 DEF TypeOK, ForkFails, Goes
    <2>2. (Masked /\ Located /\ NewsIsLatest)'
      BY <1>0, <1>21, <2>0 DEF TypeOK, Masked, Located, NewsIsLatest, ForkFails, Goes
    <2>3. (AtMostOneFG /\ Foreground /\ JumpHasFrame)'
      BY <1>0, <1>21, <2>0 DEF TypeOK, AtMostOneFG, Foreground, JumpHasFrame, ForkFails, Goes
    <2>4. (JobsAreChildren /\ ChildrenAreListed)'
      BY <1>0, <1>1, <1>21, <2>0 DEF TypeOK, JobsAreChildren, ChildrenAreListed, ForkFails, Goes
    <2>5. StoppedJobs'
      BY <1>0, <1>21, <2>0 DEF TypeOK, NewsIsLatest, StoppedJobs, ForkFails, Goes
    <2> QED BY <2>1, <2>2, <2>3, <2>4, <2>5 DEF IInv
  <1> QED BY <1>2, <1>3, <1>4, <1>5, <1>6, <1>7, <1>8, <1>9, <1>10, <1>11, <1>12, <1>13, <1>14, <1>15, <1>16, <1>17, <1>18, <1>19, <1>20, <1>21
          DEF Next, Handler, Eval, User, Children

-------------------------------------------------------------------------------
(* The theorems.                                                           *)

LEMMA InvariantHolds == SafeSpec => []IInv
  <1> QED BY InitHolds, StepHolds, PTL DEF SafeSpec

\* Type correctness of the shell: tsh.c, for any MAXJOBS and any pids.
THEOREM TypeCorrect == SafeSpec => []TypeOK
  <1>1. IInv => TypeOK
    BY DEF IInv
  <1> QED BY <1>1, InvariantHolds, PTL

\* tsh.c:51: at most one job is in the foreground, wherever SIGCHLD, fg and bg
\* interrupt each other.
THEOREM OneForeground == SafeSpec => []AtMostOneFG
  <1>1. IInv => AtMostOneFG
    BY DEF IInv
  <1> QED BY <1>1, InvariantHolds, PTL

\* eval and do_bgfg never go on to the next command with a job still counted as
\* in the foreground.
THEOREM PromptWithoutForeground == SafeSpec => []PromptHasNoFG
  <1>1. IInv => PromptHasNoFG
    BY DEF IInv, Foreground, PromptHasNoFG
  <1> QED BY <1>1, InvariantHolds, PTL

\* A used slot is a process of its own: sigchld_handler deletes a job before its
\* pid can be forked again.
THEOREM ListedJobsAreChildren == SafeSpec => []JobsAreChildren
  <1>1. IInv => JobsAreChildren
    BY DEF IInv
  <1> QED BY <1>1, InvariantHolds, PTL

\* The mask from fork to addjob suffices: while addjob has room, the handler
\* finds every child it reaps in the list.
THEOREM EveryChildIsListed == SafeSpec => []ChildrenAreListed
  <1>1. IInv => ChildrenAreListed
    BY DEF IInv
  <1> QED BY <1>1, InvariantHolds, PTL

\* siglongjmp without a frame happens only before sigsetjmp (tsh.c:359).
THEOREM JumpsHaveFrames == SafeSpec => []JumpHasFrame
  <1>1. IInv => JumpHasFrame
    BY DEF IInv
  <1> QED BY <1>1, InvariantHolds, PTL

\* No order of SIGCHLDs leaves a running job shown as stopped for good.
THEOREM StoppedJobsAreStopped == SafeSpec => []StoppedIsStopped
  <1>1. IInv => StoppedIsStopped
    BY DEF IInv, StoppedJobs, StoppedIsStopped
  <1> QED BY <1>1, InvariantHolds, PTL

-------------------------------------------------------------------------------
(* The command line.  Both readings of a line are tables over the positions   *)
(* of buf: args, what parseline makes of the rest from there, and read, what  *)
(* the scanner has made of it so far.                                         *)

\* The first position from p on that satisfies what T says, or none.
LEMMA FirstIn ==
  ASSUME NEW p \in Nat, NEW n \in Nat, NEW T, T \subseteq p..n, T # {},
         NEW d, d = CHOOSE i \in T : \A j \in T : i <= j
  PROVE  d \in T /\ \A i \in p..d - 1 : i \notin T
  <1>1. T \subseteq Nat
    OBVIOUS
  <1>2. \E i \in T : \A j \in T : i <= j
    BY <1>1, SmallestNat
  <1>3. d \in T /\ \A j \in T : d <= j
    BY <1>2
  <1>4. ASSUME NEW i \in p..d - 1, i \in T PROVE FALSE
    <2>1. d \in Nat /\ d <= i
      BY <1>1, <1>3, <1>4
    <2> QED BY <2>1
  <1> QED BY <1>3, <1>4

\* strchr finds the first c, or none.
LEMMA StrChrGives ==
  ASSUME NEW n \in Nat, NEW buf, Len(buf) = n, NEW p \in Nat \ {0}, NEW c,
         NEW d, d = StrChr(buf, p, c)
  PROVE  \/ d = 0 /\ \A i \in p..n : buf[i] # c
         \/ d \in p..n /\ buf[d] = c /\ \A i \in p..d - 1 : buf[i] # c
  <1> DEFINE T == {i \in p..n : buf[i] = c}
  <1>1. CASE T = {}
    BY <1>1 DEF StrChr, Span
  <1>2. CASE T # {}
    <2>1. d = CHOOSE i \in T : \A j \in T : i <= j
      BY <1>2 DEF StrChr, Span
    <2>2. T \subseteq p..n
      OBVIOUS
    <2>3. d \in T /\ \A i \in p..d - 1 : i \notin T
      <3> HIDE DEF T
      <3> QED BY <1>2, <2>1, <2>2, FirstIn
    <2>4. \A i \in p..d - 1 : i \in p..n
      BY <2>2, <2>3
    <2> QED BY <2>3, <2>4
  <1> QED BY <1>1, <1>2

\* The loop over blanks stops at the first other character, or behind the last.
LEMMA SkipBlanksGives ==
  ASSUME NEW n \in Nat, NEW buf, Len(buf) = n, NEW p \in 1..n + 1,
         NEW q, q = SkipBlanks(buf, p)
  PROVE  /\ q \in p..n + 1 /\ \A i \in p..q - 1 : buf[i] = Blank
         /\ q # n + 1 => buf[q] # Blank
  <1> DEFINE T == {i \in p..n : buf[i] # Blank}
  <1>1. CASE T = {}
    <2>1. q = n + 1
      BY <1>1 DEF SkipBlanks, Span, End
    <2>2. \A i \in p..(n + 1) - 1 : i \in p..n
      OBVIOUS
    <2> QED BY <1>1, <2>1, <2>2
  <1>2. CASE T # {}
    <2>1. q = CHOOSE i \in T : \A j \in T : i <= j
      BY <1>2 DEF SkipBlanks, Span
    <2>2. T \subseteq p..n /\ p \in Nat
      OBVIOUS
    <2>3. q \in T /\ \A i \in p..q - 1 : i \notin T
      <3> HIDE DEF T
      <3> QED BY <1>2, <2>1, <2>2, FirstIn
    <2>4. \A i \in p..q - 1 : i \in p..n
      BY <2>2, <2>3
    <2> QED BY <2>3, <2>4
  <1> QED BY <1>1, <1>2

\* The part of buf from position s to i, and one character more.
LEMMA PartGrows ==
  ASSUME NEW S, NEW buf \in Seq(S), NEW s \in Nat \ {0}, NEW i \in Nat, s <= i + 1, i + 1 <= Len(buf)
  PROVE  /\ Append(SubSeq(buf, s, i), buf[i + 1]) = SubSeq(buf, s, i + 1)
         /\ SubSeq(buf, s, i) \in Seq(S)
  <1>1. s \in 1..Len(buf) /\ i + 1 \in s..Len(buf) /\ (i + 1) - 1 = i
    BY LenProperties
  <1>2. SubSeq(buf, s, i + 1) = SubSeq(buf, s, i) \o <<buf[i + 1]>>
    BY <1>1, SubSeqRecursiveSecond
  <1>3. \A k \in s..i : buf[k] \in S
    BY <1>1, ElementOfSeq
  <1>4. SubSeq(buf, s, i) \in Seq(S) /\ buf[i + 1] \in S
    BY <1>1, <1>3, SubSeqProperties, ElementOfSeq
  <1> QED BY <1>2, <1>4, AppendIsConcat

\* An argument more at the end of those before is one more before the others.
LEMMA AppendThenRest ==
  ASSUME NEW S, NEW a \in Seq(S), NEW x \in S, NEW t \in Seq(S)
  PROVE  Append(a, x) \o t = a \o (<<x>> \o t) /\ <<x>> \o t \in Seq(S) /\ Append(a, x) \in Seq(S)
  <1>1. <<x>> \in Seq(S)
    OBVIOUS
  <1>2. Append(a, x) = a \o <<x>>
    BY AppendIsConcat
  <1>3. (a \o <<x>>) \o t = a \o (<<x>> \o t)
    BY <1>1, ConcatAssociative
  <1> QED BY <1>1, <1>2, <1>3, ConcatProperties

-------------------------------------------------------------------------------

\* What parseline makes of buf from position k on.
ArgsTable(buf, k, g) ==
  g = [p \in k..End(buf) + 1 |->
         IF p > End(buf) \/ ArgAt(buf, p).delim = 0 THEN <<>>
         ELSE <<SubSeq(buf, ArgAt(buf, p).start, ArgAt(buf, p).delim - 1)>>
                \o g[ArgAt(buf, p).delim + 1]]

\* parseline's loop is such a table.
LEMMA ArgsFromIsTable ==
  ASSUME NEW buf
  PROVE  ArgsFrom(buf) = (CHOOSE g : ArgsTable(buf, 1, g))[1]
  BY DEF ArgsFrom, ArgsTable

\* The scanner's states.
Start == [in |-> "gap", arg |-> <<>>, args |-> <<>>]

Scanned(buf, n, g) == g = [i \in 0..n |-> IF i = 0 THEN Start ELSE Read(g[i - 1], buf[i])]

\* So is what a line means.
LEMMA ArgumentsIsScanned ==
  ASSUME NEW line, NEW buf, buf = Append(Front(line), Blank)
  PROVE  Arguments(line) = (CHOOSE g : Scanned(buf, Len(buf), g))[Len(buf)].args
  BY DEF Arguments, Scanned, Start

\* They exist: by induction over their number.
LEMMA ScannedExists ==
  ASSUME NEW buf, NEW n \in Nat
  PROVE  \E g : Scanned(buf, n, g)
  <1> DEFINE C == {k \in Nat : ~ \E g : Scanned(buf, k, g)}
  <1>1. SUFFICES ASSUME C # {} PROVE FALSE
    BY <1>1
  <1>2. PICK k \in C : \A l \in C : k <= l
    BY <1>1, SmallestNat
  <1>3. CASE k = 0
    <2> DEFINE g == [x \in 0..0 |-> Start]
    <2>1. g = [x \in 0..0 |-> IF x = 0 THEN Start ELSE Read(g[x - 1], buf[x])]
      OBVIOUS
    <2> QED BY <1>2, <1>3, <2>1 DEF Scanned
  <1>4. CASE k # 0
    <2>1. PICK l \in Nat : l + 1 = k
      BY <1>4
    <2>2. l \notin C
      BY <1>2, <2>1
    <2>3. PICK h : Scanned(buf, l, h)
      BY <2>2
    <2> DEFINE g == [x \in 0..k |-> IF x = k THEN Read(h[l], buf[k]) ELSE h[x]]
    <2>4. ASSUME NEW x \in 0..k PROVE g[x] = IF x = 0 THEN Start ELSE Read(g[x - 1], buf[x])
      <3>1. CASE x = k
        <4>1. x - 1 = l /\ x # 0 /\ l # k /\ l \in 0..k
          BY <2>1, <3>1
        <4>2. g[x] = Read(h[l], buf[x]) /\ g[l] = h[l]
          BY <3>1, <4>1
        <4> HIDE DEF g
        <4> QED BY <4>1, <4>2
      <3>2. CASE x # k /\ x # 0
        <4>1. x \in 0..l /\ x - 1 \in 0..k /\ x - 1 # k
          BY <2>1, <3>2
        <4>2. g[x] = h[x] /\ g[x - 1] = h[x - 1]
          BY <3>2, <4>1
        <4>3. h[x] = Read(h[x - 1], buf[x])
          BY <2>3, <3>2, <4>1 DEF Scanned
        <4> HIDE DEF g
        <4> QED BY <3>2, <4>2, <4>3
      <3>3. CASE x = 0
        <4>1. h[0] = Start /\ g[0] = h[0]
          BY <2>1, <2>3 DEF Scanned
        <4> HIDE DEF g
        <4> QED BY <3>3, <4>1
      <3> QED BY <3>1, <3>2, <3>3
    <2> DEFINE G == [x \in 0..k |-> IF x = 0 THEN Start ELSE Read(g[x - 1], buf[x])]
    <2>5. \A x \in 0..k : g[x] = G[x]
      BY <2>4
    <2>6. g = [x \in 0..k |-> g[x]] /\ G = [x \in 0..k |-> G[x]]
      OBVIOUS
    <2>7. g = G
      <3> HIDE DEF g, G
      <3> QED BY <2>5, <2>6
    <2>8. Scanned(buf, k, g)
      <3> HIDE DEF g
      <3> QED BY <2>7 DEF Scanned
    <2> HIDE DEF g
    <2> QED BY <1>2, <2>8
  <1> QED BY <1>3, <1>4

\* What ends an argument, by whether it is quoted, and by its first character.
Mark(quoted) == IF quoted THEN Quote ELSE Blank
Ends(first)  == IF first = Quote THEN Quote ELSE Blank

\* The argument a at or after position p begins at q, its text at s; d ends it.
NextArg(buf, n, p, a, q) ==
  LET s == IF buf[q] = Quote THEN q + 1 ELSE q
  IN  /\ q \in p..n + 1 /\ \A i \in p..q - 1 : buf[i] = Blank
      /\ a.delim = 0 \/ a.delim \in p..n
      /\ q = n + 1 => a.delim = 0
      /\ q # n + 1 =>
           /\ buf[q] # Blank /\ a.start = s
           /\ \/ a.delim = 0 /\ \A i \in q + 1..n : buf[i] # Ends(buf[q])
              \/ /\ a.delim \in q + 1..n /\ buf[a.delim] = Ends(buf[q])
                 /\ \A i \in q + 1..a.delim - 1 : buf[i] # Ends(buf[q])

\* So it is found.
LEMMA ArgAtGives ==
  ASSUME NEW S, NEW buf \in Seq(S), NEW n \in Nat, Len(buf) = n, NEW p \in 1..n + 1,
         NEW a, a = ArgAt(buf, p)
  PROVE  \E q : NextArg(buf, n, p, a, q)
  <1> DEFINE q == SkipBlanks(buf, p)
  <1>1. /\ q \in p..n + 1 /\ \A i \in p..q - 1 : buf[i] = Blank
        /\ q # n + 1 => buf[q] # Blank
    BY SkipBlanksGives
  <1>2. DOMAIN buf = 1..n
    BY LenProperties
  <1>3. /\ a.start = IF q \in 1..n /\ buf[q] = Quote THEN q + 1 ELSE q
        /\ a.delim = StrChr(buf, a.start, Mark(q \in 1..n /\ buf[q] = Quote))
    BY <1>2 DEF ArgAt, Mark
  <1> HIDE DEF q
  <1>4. q \in Nat \ {0} /\ q \in p..n + 1 /\ p \in Nat \ {0}
    BY <1>1
  <1>5. CASE q = n + 1
    <2>1. q \notin 1..n /\ a.start = q
      BY <1>3, <1>5
    <2>2. a.delim = StrChr(buf, q, Mark(FALSE))
      BY <1>3, <2>1
    <2>3. a.delim = 0 \/ a.delim \in q..n
      <3>1. PICK d, c : d = a.delim /\ c = Mark(FALSE)
        OBVIOUS
      <3>2. d = StrChr(buf, q, c)
        BY <2>2, <3>1
      <3>3. d = 0 \/ d \in q..n
        BY <1>4, <3>2, StrChrGives
      <3> QED BY <3>1, <3>3
    <2>4. a.delim = 0
      BY <1>5, <2>3
    <2>5. NextArg(buf, n, p, a, q)
      BY <1>1, <1>5, <2>4 DEF NextArg
    <2> QED BY <2>5
  <1>6. CASE q # n + 1
    <2> DEFINE quoted == buf[q] = Quote
    <2>1. q \in 1..n /\ q + 1 \in Nat \ {0}
      BY <1>4, <1>6
    <2>2. a.start = (IF quoted THEN q + 1 ELSE q) /\ a.delim = StrChr(buf, a.start, Mark(quoted))
      BY <1>3, <2>1
    <2>3. a.start \in {q, q + 1} /\ a.start \in Nat \ {0}
      BY <1>4, <2>1, <2>2
    <2>4. \/ a.delim = 0 /\ \A i \in a.start..n : buf[i] # Mark(quoted)
          \/ /\ a.delim \in a.start..n /\ buf[a.delim] = Mark(quoted)
             /\ \A i \in a.start..a.delim - 1 : buf[i] # Mark(quoted)
      <3> HIDE DEF quoted
      <3>1. PICK d, s, c : d = a.delim /\ s = a.start /\ c = Mark(quoted)
        OBVIOUS
      <3>2. s \in Nat \ {0} /\ d = StrChr(buf, s, c)
        BY <2>2, <2>3, <3>1
      <3>3. \/ d = 0 /\ \A i \in s..n : buf[i] # c
            \/ d \in s..n /\ buf[d] = c /\ \A i \in s..d - 1 : buf[i] # c
        BY <3>2, StrChrGives
      <3> QED BY <3>1, <3>3
    <2>5. a.start = q => buf[q] # Mark(quoted)
      <3>1. a.start = q => ~quoted
        BY <2>1, <2>2
      <3>2. ~quoted => Mark(quoted) = Blank
        BY DEF Mark
      <3> QED BY <1>1, <1>6, <3>1, <3>2
    <2>6. \/ a.delim = 0 /\ \A i \in q + 1..n : buf[i] # Mark(quoted)
          \/ /\ a.delim \in q + 1..n /\ buf[a.delim] = Mark(quoted)
             /\ \A i \in q + 1..a.delim - 1 : buf[i] # Mark(quoted)
      <3> HIDE DEF quoted
      <3>1. CASE a.start = q + 1
        BY <3>1, <2>4
      <3>2. CASE a.start = q
        BY <3>2, <2>1, <2>4, <2>5
      <3> QED BY <3>1, <3>2, <2>3
    <2>7. a.delim = 0 \/ a.delim \in p..n
      BY <2>6, <1>4
    <2>8. Mark(quoted) = Ends(buf[q])
      BY DEF Mark, Ends
    <2>9. NextArg(buf, n, p, a, q)
      BY <1>1, <1>6, <2>2, <2>6, <2>7, <2>8 DEF NextArg
    <2> QED BY <2>9
  <1> QED BY <1>5, <1>6

\* The table of arguments exists: by induction over where it starts, downwards.
LEMMA ArgsTableExists ==
  ASSUME NEW S, NEW buf \in Seq(S), NEW n \in Nat, Len(buf) = n
  PROVE  \E g : ArgsTable(buf, 1, g)
  <1> DEFINE Exists(k) == \E g : ArgsTable(buf, k, g)
             C == {j \in 0..n + 1 : ~Exists((n + 2) - j)}
             Then(p, g) == IF p > n + 1 \/ ArgAt(buf, p).delim = 0 THEN <<>>
                           ELSE <<SubSeq(buf, ArgAt(buf, p).start, ArgAt(buf, p).delim - 1)>>
                                  \o g[ArgAt(buf, p).delim + 1]
  <1>0. End(buf) = n + 1
    BY DEF End
  <1>1. ASSUME NEW p \in 1..n + 1, ArgAt(buf, p).delim # 0
        PROVE  ArgAt(buf, p).delim \in p..n
    <2>1. PICK a : a = ArgAt(buf, p)
      OBVIOUS
    <2>2. \E q : NextArg(buf, n, p, a, q)
      BY <2>1, ArgAtGives
    <2> QED BY <1>1, <2>1, <2>2 DEF NextArg
  <1>2. \A k, g : ArgsTable(buf, k, g) <=> g = [p \in k..n + 2 |-> Then(p, g)]
    <2>1. End(buf) + 1 = n + 2
      BY <1>0
    <2> QED BY <1>0, <2>1 DEF ArgsTable
  <1>3. ASSUME C # {} PROVE FALSE
    <2>1. PICK j \in C : \A l \in C : j <= l
      <3>1. C \subseteq Nat
        OBVIOUS
      <3> HIDE DEF C
      <3> QED BY <1>3, <3>1, SmallestNat
    <2>2. CASE j = 0
      <3> DEFINE g == [p \in n + 2..n + 2 |-> <<>>]
      <3>1. g = [p \in n + 2..n + 2 |-> Then(p, g)]
        OBVIOUS
      <3>2. (n + 2) - j = n + 2
        BY <2>2
      <3> HIDE DEF g, Then
      <3>3. ArgsTable(buf, n + 2, g)
        BY <1>2, <3>1
      <3> QED BY <2>1, <3>2, <3>3
    <2>3. CASE j # 0
      <3>1. PICK k \in 1..n + 1 : k = (n + 2) - j
        BY <2>3
      <3>2. j - 1 \in 0..n + 1 /\ (n + 2) - (j - 1) = k + 1 /\ ~(j <= j - 1)
        BY <2>3, <3>1
      <3>3. PICK h : ArgsTable(buf, k + 1, h)
        BY <2>1, <3>2
      <3> HIDE DEF Then
      <3>4. h = [p \in k + 1..n + 2 |-> Then(p, h)]
        BY <1>2, <3>3
      <3> DEFINE g == [p \in k..n + 2 |-> IF p = k THEN Then(p, h) ELSE h[p]]
      <3>5. ASSUME NEW p \in k..n + 2 PROVE g[p] = Then(p, h) /\ Then(p, g) = Then(p, h)
        <4>1. g[p] = Then(p, h)
          BY <3>4, SMTT(30)
        <4>2. p > n + 1 \/ ArgAt(buf, p).delim = 0 \/ ArgAt(buf, p).delim + 1 \in k + 1..n + 2
          BY <1>1
        <4>3. \A x \in k + 1..n + 2 : g[x] = h[x]
          OBVIOUS
        <4> HIDE DEF g
        <4>4. Then(p, g) = Then(p, h)
          BY <4>2, <4>3 DEF Then
        <4> QED BY <4>1, <4>4
      <3>6. g = [p \in k..n + 2 |-> g[p]]
        OBVIOUS
      <3> HIDE DEF g
      <3>7. g = [p \in k..n + 2 |-> Then(p, g)]
        BY <3>5, <3>6
      <3>8. ArgsTable(buf, k, g)
        BY <1>2, <3>7
      <3> QED BY <2>1, <3>1, <3>8
    <2> QED BY <2>2, <2>3
  <1>4. n + 1 \in 0..n + 1 /\ (n + 2) - (n + 1) = 1
    OBVIOUS
  <1> QED BY <1>3, <1>4

-------------------------------------------------------------------------------

\* The scanner between arguments, and in one that begins with first.
Gap(args)            == [in |-> "gap", arg |-> <<>>, args |-> args]
In(first, arg, args) == [in |-> IF first = Quote THEN "quote" ELSE "word", arg |-> arg, args |-> args]

\* What the scanner does with a character between arguments, and in one.
LEMMA ReadBetween ==
  ASSUME NEW args, NEW c
  PROVE  /\ c = Blank => Read(Gap(args), c) = Gap(args)
         /\ c = Quote => Read(Gap(args), c) = In(c, <<>>, args)
         /\ c \notin {Blank, Quote} => Read(Gap(args), c) = In(c, <<c>>, args)
  <1>1. Blank # Quote
    BY DEF Blank, Quote
  <1>2. c = Blank => Read(Gap(args), c) = Gap(args)
    BY <1>1 DEF Read, Gap
  <1>3. c = Quote => Read(Gap(args), c) = In(c, <<>>, args)
    BY <1>1 DEF Read, Gap, In
  <1>4. c \notin {Blank, Quote} => Read(Gap(args), c) = In(c, <<c>>, args)
    BY <1>1 DEF Read, Gap, In
  <1> QED BY <1>2, <1>3, <1>4

\* What ends an argument adds it to those before.
LEMMA ReadEnd ==
  ASSUME NEW args, NEW arg, NEW first, NEW c, c = Ends(first)
  PROVE  Read(In(first, arg, args), c) = Gap(Append(args, arg))
  <1>1. Blank # Quote
    BY DEF Blank, Quote
  <1> QED BY <1>1 DEF Read, Gap, In, Ends

\* Any other character is one more of the argument.
LEMMA ReadMore ==
  ASSUME NEW args, NEW arg, NEW first, NEW c, c # Ends(first)
  PROVE  Read(In(first, arg, args), c) = In(first, Append(arg, c), args)
  <1>1. Blank # Quote
    BY DEF Blank, Quote
  <1> QED BY <1>1 DEF Read, Gap, In, Ends

\* One step of the scanner.
LEMMA ReadNext ==
  ASSUME NEW buf, NEW n \in Nat, NEW g, Scanned(buf, n, g), NEW i \in 1..n
  PROVE  g[i] = Read(g[i - 1], buf[i])
  BY DEF Scanned

\* Blanks between arguments.
LEMMA ReadBlanks ==
  ASSUME NEW buf, NEW n \in Nat, NEW g, Scanned(buf, n, g), NEW u \in 0..n, NEW v \in u..n,
         \A i \in u + 1..v : buf[i] = Blank, NEW args, g[u] = Gap(args)
  PROVE  g[v] = Gap(args)
  <1> DEFINE C == {i \in u..v : g[i] # Gap(args)}
  <1>1. ASSUME C # {} PROVE FALSE
    <2>1. PICK i \in C : \A l \in C : i <= l
      <3>1. C \subseteq Nat
        OBVIOUS
      <3> QED BY <1>1, <3>1, SmallestNat
    <2>2. i # u
      OBVIOUS
    <2>3. i - 1 \in u..v /\ ~(i <= i - 1) /\ i \in 1..n /\ i \in u + 1..v
      BY <2>2
    <2>4. g[i - 1] = Gap(args)
      BY <2>1, <2>3
    <2>5. g[i] = Read(Gap(args), buf[i]) /\ buf[i] = Blank
      BY <2>3, <2>4, ReadNext
    <2>6. g[i] = Gap(args)
      BY <2>5, ReadBetween
    <2> QED BY <2>6
  <1>2. v \in u..v
    OBVIOUS
  <1> QED BY <1>1, <1>2

\* g is what the scanner makes of buf.
Reading(S, buf, n, g) == buf \in Seq(S) /\ n \in Nat /\ Len(buf) = n /\ Scanned(buf, n, g)

\* After args, an argument begins at position q, its text at s.
Opened(buf, n, g, q, s, first, args) ==
  /\ q \in 1..n /\ buf[q] # Blank /\ g[q - 1] = Gap(args)
  /\ first = buf[q] /\ s = IF first = Quote THEN q + 1 ELSE q

\* The text of an argument, up to position m.
LEMMA ReadText ==
  ASSUME NEW S, NEW buf, NEW n, NEW g, Reading(S, buf, n, g),
         NEW q, NEW s, NEW first, NEW args, Opened(buf, n, g, q, s, first, args),
         NEW m \in q..n, \A i \in q + 1..m : buf[i] # Ends(first)
  PROVE  g[m] = In(first, SubSeq(buf, s, m), args)
  <1>0. /\ buf \in Seq(S) /\ n \in Nat /\ Len(buf) = n /\ Scanned(buf, n, g)
        /\ q \in 1..n /\ buf[q] # Blank /\ g[q - 1] = Gap(args) /\ first = buf[q]
        /\ s = IF first = Quote THEN q + 1 ELSE q
    BY DEF Reading, Opened
  <1> USE <1>0
  <1> DEFINE C == {i \in q..m : g[i] # In(first, SubSeq(buf, s, i), args)}
  <1>1. ASSUME C # {} PROVE FALSE
    <2>1. PICK i \in C : \A l \in C : i <= l
      <3>1. C \subseteq Nat
        OBVIOUS
      <3> QED BY <1>1, <3>1, SmallestNat
    <2>2. CASE i = q
      <3>1. g[q] = Read(Gap(args), buf[q])
        BY ReadNext
      <3>2. CASE first = Quote
        <4>1. g[q] = In(first, <<>>, args)
          BY <3>1, <3>2, ReadBetween
        <4>2. SubSeq(buf, s, q) = <<>>
          <5>1. s \in Int /\ q \in Int /\ q < s
            BY <3>2
          <5> QED BY <5>1, SubSeqEmpty
        <4> QED BY <2>1, <2>2, <3>2, <4>1, <4>2
      <3>3. CASE first # Quote
        <4>1. g[q] = In(first, <<buf[q]>>, args)
          BY <3>1, <3>3, ReadBetween
        <4>2. SubSeq(buf, q, q) = <<buf[q]>>
          <5>1. SubSeq(buf, q, q) = SubSeq(buf, q, q - 1) \o <<buf[q]>>
            BY SubSeqRecursiveSecond
          <5>2. SubSeq(buf, q, q - 1) = <<>>
            BY SubSeqEmpty
          <5>3. <<buf[q]>> \in Seq(S)
            BY ElementOfSeq
          <5> QED BY <5>1, <5>2, <5>3, ConcatEmptySeq
        <4>3. s = q
          BY <3>3
        <4> QED BY <2>1, <2>2, <3>3, <4>1, <4>2, <4>3
      <3> QED BY <3>2, <3>3
    <2>3. CASE i # q
      <3>1. PICK k \in q..m : k + 1 = i
        BY <2>3
      <3>2. ~(i <= k) /\ i \in 1..n /\ i - 1 = k /\ i \in q + 1..m /\ k \in Nat
        BY <3>1
      <3>3. g[k] = In(first, SubSeq(buf, s, k), args)
        BY <2>1, <3>1, <3>2
      <3>4. g[i] = In(first, Append(SubSeq(buf, s, k), buf[i]), args)
        <4>1. PICK x, c : x = SubSeq(buf, s, k) /\ c = buf[i]
          OBVIOUS
        <4>2. g[i] = Read(g[k], c)
          BY <3>2, <4>1, ReadNext
        <4>3. c # Ends(first)
          BY <3>2, <4>1
        <4>4. Read(In(first, x, args), c) = In(first, Append(x, c), args)
          BY <4>3, ReadMore
        <4> QED BY <3>3, <4>1, <4>2, <4>4
      <3>5. s \in Nat \ {0} /\ s <= k + 1 /\ k + 1 <= Len(buf)
        BY <3>1
      <3>6. Append(SubSeq(buf, s, k), buf[i]) = SubSeq(buf, s, i)
        BY <3>1, <3>2, <3>5, PartGrows
      <3> QED BY <2>1, <3>4, <3>6
    <2> QED BY <2>2, <2>3
  <1>2. m \in q..m
    OBVIOUS
  <1> QED BY <1>1, <1>2

\* From a gap on, the scanner collects the arguments that parseline finds there.
LEMMA SameFrom ==
  ASSUME NEW S, NEW buf, NEW n, NEW g, Reading(S, buf, n, g),
         NEW h, ArgsTable(buf, 1, h), NEW p \in 1..n + 1
  PROVE  /\ h[p] \in Seq(Seq(S))
         /\ \A args \in Seq(Seq(S)) : g[p - 1] = Gap(args) => g[n].args = args \o h[p]
  <1>0. buf \in Seq(S) /\ n \in Nat /\ Len(buf) = n /\ Scanned(buf, n, g)
    BY DEF Reading
  <1> USE <1>0
  <1> DEFINE Same(k) == /\ h[k] \in Seq(Seq(S))
                        /\ \A args \in Seq(Seq(S)) :
                             g[k - 1] = Gap(args) => g[n].args = args \o h[k]
             C == {j \in 0..n : ~Same((n + 1) - j)}
  <1>1. ASSUME NEW k \in 1..n + 1, \A l \in k + 1..n + 1 : Same(l) PROVE Same(k)
    <2>1. PICK a : a = ArgAt(buf, k)
      OBVIOUS
    <2>2. PICK q : NextArg(buf, n, k, a, q)
      BY <2>1, ArgAtGives
    <2>3. h[k] = IF a.delim = 0 THEN <<>>
                 ELSE <<SubSeq(buf, a.start, a.delim - 1)>> \o h[a.delim + 1]
      <3>1. k \in 1..End(buf) + 1 /\ ~(k > End(buf))
        BY DEF End
      <3> QED BY <2>1, <3>1 DEF ArgsTable
    <2>4. /\ q \in k..n + 1 /\ \A i \in k..q - 1 : buf[i] = Blank
          /\ q = n + 1 => a.delim = 0
      BY <2>2 DEF NextArg
    <2>5. PICK u, v : u = k - 1 /\ v = q - 1
      OBVIOUS
    <2>6. ASSUME NEW args \in Seq(Seq(S)), g[u] = Gap(args) PROVE g[v] = Gap(args)
      <3>1. u \in 0..n /\ v \in u..n /\ u + 1 = k
        BY <2>4, <2>5
      <3>2. \A i \in u + 1..v : buf[i] = Blank
        BY <2>4, <2>5, <3>1
      <3> HIDE DEF Same, C
      <3> QED BY <2>6, <3>1, <3>2, ReadBlanks, SMTT(30)
    <2>7. CASE q = n + 1
      <3>1. h[k] = <<>> /\ <<>> \in Seq(Seq(S))
        BY <2>3, <2>4, <2>7
      <3>2. ASSUME NEW args \in Seq(Seq(S)), g[u] = Gap(args) PROVE g[n].args = args \o h[k]
        <4>1. g[n] = Gap(args)
          BY <2>5, <2>6, <2>7, <3>2
        <4>2. args \o <<>> = args
          BY ConcatEmptySeq
        <4> QED BY <3>1, <4>1, <4>2 DEF Gap
      <3> QED BY <2>5, <3>1, <3>2
    <2>8. CASE q # n + 1
      <3>1. PICK first : first = buf[q]
        OBVIOUS
      <3>2. PICK s : s = IF first = Quote THEN q + 1 ELSE q
        OBVIOUS
      <3>3. PICK d : d = a.delim
        OBVIOUS
      <3>4. q \in 1..n
        BY <2>4, <2>8
      <3>5. /\ buf[q] # Blank /\ a.start = s
            /\ \/ d = 0 /\ \A i \in q + 1..n : buf[i] # Ends(first)
               \/ /\ d \in q + 1..n /\ buf[d] = Ends(first)
                  /\ \A i \in q + 1..d - 1 : buf[i] # Ends(first)
        BY <2>2, <2>8, <3>1, <3>2, <3>3 DEF NextArg
      <3>6. CASE d = 0
        <4>1. h[k] = <<>> /\ <<>> \in Seq(Seq(S))
          BY <2>3, <3>3, <3>6
        <4>2. \A i \in q + 1..n : buf[i] # Ends(first)
          BY <3>4, <3>5, <3>6
        <4>3. ASSUME NEW args \in Seq(Seq(S)), g[u] = Gap(args) PROVE g[n].args = args \o h[k]
          <5>1. g[v] = Gap(args) /\ n \in q..n
            BY <2>6, <3>4, <4>3
          <5>2. g[n] = In(first, SubSeq(buf, s, n), args)
            <6> HIDE DEF Same, C
            <6>1. Opened(buf, n, g, q, s, first, args)
              BY <2>5, <3>1, <3>2, <3>4, <3>5, <5>1 DEF Opened
            <6>2. n \in q..n
              BY <5>1
            <6> QED BY <4>2, <6>1, <6>2, ReadText
          <5>3. args \o <<>> = args
            BY ConcatEmptySeq
          <5> QED BY <4>1, <5>2, <5>3 DEF In
        <4> QED BY <2>5, <4>1, <4>3
      <3>7. CASE d # 0
        <4>1. PICK m : /\ d \in q + 1..n /\ buf[d] = Ends(first) /\ d \in 1..n /\ m \in q..n /\ m = d - 1
                       /\ \A i \in q + 1..m : buf[i] # Ends(first)
          BY <3>4, <3>5, <3>7
        <4>2. PICK x : x = SubSeq(buf, s, m)
          OBVIOUS
        <4>3. PICK t : t = h[d + 1]
          OBVIOUS
        <4>4. x \in Seq(S)
          <5>1. s \in 1..n + 1 /\ m \in Int /\ \A i \in s..m : i \in 1..Len(buf)
            BY <3>2, <3>4, <4>1
          <5>2. \A i \in s..m : buf[i] \in S
            BY <5>1, ElementOfSeq
          <5> QED BY <4>2, <5>1, <5>2, SubSeqProperties
        <4>5. h[k] = <<x>> \o t
          BY <2>3, <3>3, <3>5, <3>7, <4>1, <4>2, <4>3
        <4>6. d + 1 \in k + 1..n + 1 /\ (d + 1) - 1 = d
          BY <2>4, <4>1
        <4>7. t \in Seq(Seq(S)) /\ \A args \in Seq(Seq(S)) : g[d] = Gap(args) => g[n].args = args \o t
          BY <1>1, <4>3, <4>6
        <4>8. h[k] \in Seq(Seq(S))
          BY <4>4, <4>5, <4>7, EmptySeq, AppendThenRest
        <4>9. ASSUME NEW args \in Seq(Seq(S)), g[u] = Gap(args) PROVE g[n].args = args \o h[k]
          <5>1. g[v] = Gap(args)
            BY <2>6, <4>9
          <5>2. g[m] = In(first, x, args)
            <6> HIDE DEF Same, C
            <6>1. Opened(buf, n, g, q, s, first, args)
              BY <2>5, <3>1, <3>2, <3>4, <3>5, <5>1 DEF Opened
            <6>2. m \in q..n /\ \A i \in q + 1..m : buf[i] # Ends(first)
              BY <4>1
            <6>3. g[m] = In(first, SubSeq(buf, s, m), args)
              BY <6>1, <6>2, ReadText
            <6> QED BY <4>2, <6>3
          <5>3. PICK c : c = buf[d]
            OBVIOUS
          <5>4. g[d] = Read(In(first, x, args), c)
            <6> HIDE DEF Same, C
            <6>1. g[d] = Read(g[d - 1], buf[d])
              <7>1. d \in 1..n
                BY <4>1
              <7> QED BY <7>1, ReadNext
            <6>2. g[d - 1] = In(first, x, args)
              BY <4>1, <5>2
            <6> QED BY <5>3, <6>1, <6>2
          <5>5. Read(In(first, x, args), c) = Gap(Append(args, x))
            BY <4>1, <5>3, ReadEnd
          <5>6. /\ Append(args, x) \o t = args \o (<<x>> \o t)
                /\ Append(args, x) \in Seq(Seq(S))
            BY <4>4, <4>7, AppendThenRest
          <5>7. g[n].args = Append(args, x) \o t
            BY <4>7, <5>4, <5>5, <5>6
          <5> QED BY <4>5, <5>6, <5>7
        <4> QED BY <2>5, <4>8, <4>9
      <3> QED BY <3>6, <3>7
    <2> QED BY <2>7, <2>8
  <1>2. ASSUME C # {} PROVE FALSE
    <2>1. PICK j \in C : \A l \in C : j <= l
      <3>1. C \subseteq Nat
        OBVIOUS
      <3> HIDE DEF C
      <3> QED BY <1>2, <3>1, SmallestNat
    <2>2. PICK k \in 1..n + 1 : k = (n + 1) - j
      OBVIOUS
    <2>3. ASSUME NEW l \in k + 1..n + 1 PROVE Same(l)
      <3>1. (n + 1) - l \in 0..n /\ ~(j <= (n + 1) - l) /\ (n + 1) - ((n + 1) - l) = l
        BY <2>2
      <3> HIDE DEF Same
      <3>2. (n + 1) - l \notin C
        <4> HIDE DEF C
        <4> QED BY <2>1, <3>1
      <3> QED BY <3>1, <3>2
    <2> HIDE DEF Same
    <2>4. Same(k)
      BY <1>1, <2>3
    <2> QED BY <2>1, <2>2, <2>4
  <1>3. (n + 1) - p \in 0..n /\ (n + 1) - ((n + 1) - p) = p
    OBVIOUS
  <1> HIDE DEF Same
  <1>4. Same(p)
    BY <1>2, <1>3
  <1> QED BY <1>4 DEF Same

\* For every line parseline gives its arguments in order, whatever the blanks
\* and quotes, and tells whether the last one asks for the background.
THEOREM ParselineReadsArguments ==
  ASSUME NEW S, NEW line \in Seq(S) PROVE parseline(line) = Typed(line)
  <1> DEFINE T == S \cup {Blank}
             buf == Append(Front(line), Blank)
             n == Len(buf)
  <1>1. buf \in Seq(T) /\ n \in Nat /\ n # 0
    <2>1. line \in Seq(T) /\ Len(line) \in Nat
      BY LenProperties
    <2>2. Front(line) \in Seq(T)
      <3>1. \A i \in 1..Len(line) - 1 : line[i] \in T
        BY <2>1, ElementOfSeq
      <3> HIDE DEF T
      <3> QED BY <2>1, <3>1, SubSeqProperties DEF Front
    <2>3. Blank \in T
      OBVIOUS
    <2> HIDE DEF T
    <2> QED BY <2>2, <2>3, AppendProperties, LenProperties
  <1> HIDE DEF T
  <1>2. PICK b : b = buf /\ b \in Seq(T) /\ Len(b) = n
    BY <1>1
  <1>3. ArgsFrom(b) = Arguments(line)
    <2> DEFINE g == CHOOSE g : Scanned(b, n, g)
               h == CHOOSE h : ArgsTable(b, 1, h)
    <2>1. Scanned(b, n, g)
      BY <1>1, ScannedExists
    <2>2. ArgsTable(b, 1, h)
      BY <1>1, <1>2, ArgsTableExists
    <2>3. ArgsFrom(b) = h[1] /\ Arguments(line) = g[n].args
      BY <1>2, ArgsFromIsTable, ArgumentsIsScanned
    <2> HIDE DEF g, h
    <2>4. g[0] = Gap(<<>>)
      BY <1>1, <2>1 DEF Scanned, Start, Gap
    <2>5. PICK p : p = 1 /\ p \in 1..n + 1
      BY <1>1
    <2>6. <<>> \in Seq(Seq(T)) /\ g[p - 1] = Gap(<<>>)
      BY <2>4, <2>5
    <2>7. /\ h[p] \in Seq(Seq(T))
          /\ \A args \in Seq(Seq(T)) : g[p - 1] = Gap(args) => g[n].args = args \o h[p]
      <3>1. Reading(T, b, n, g)
        BY <1>1, <1>2, <2>1 DEF Reading
      <3> HIDE DEF n
      <3> QED BY <2>2, <2>5, <3>1, SameFrom
    <2>8. h[1] \in Seq(Seq(T)) /\ g[n].args = <<>> \o h[1]
      BY <2>5, <2>6, <2>7
    <2> QED BY <2>3, <2>8, ConcatEmptySeq
  <1>4. \A s : s # <<>> /\ s \in Seq(T) => Head(s) = s[1]
    OBVIOUS
  <1> QED BY <1>2, <1>3 DEF parseline, Typed
===============================================================================
