------------------------------ MODULE ConnQueue ------------------------------
(***************************************************************************)
(* The proxy's connection queue (proxylab_code/server.c and server.h): a   *)
(* ring of QUEUE_CAPACITY descriptors guarded by three semaphores.  The    *)
(* main thread accepts connections and adds them; THREAD_CNT service       *)
(* threads take them off, serve them and close them.                       *)
(*                                                                         *)
(* Every P, every V, every access to the ring and every move of an index   *)
(* is a step of its own, so that all the interleavings of the threads      *)
(* between two of them are explored.                                       *)
(***************************************************************************)
EXTENDS Integers, Sequences, FiniteSets

CONSTANTS Threads,      \* the service threads (THREAD_CNT of them)
          Fds,          \* the descriptors accept() can return
          NoFd,         \* what a slot never written to and a free local hold
          Capacity      \* QUEUE_CAPACITY

ASSUME CapacityAssumption == Capacity \in Nat \ {0}
ASSUME ThreadsAssumption  == IsFiniteSet(Threads)
ASSUME FdsAssumption      == NoFd \notin Fds

VARIABLES connfds, front, rear,          \* the ring and its two indices
          mutex, slot_cnt, item_cnt,     \* the semaphores' values
          mainPc, mainFd,                \* the main thread and its connfd
          pc, fd,                        \* the service threads and theirs
          open                           \* descriptors of open connections

ring  == <<connfds, front, rear>>
sems  == <<mutex, slot_cnt, item_cnt>>
main  == <<mainPc, mainFd>>
serv  == <<pc, fd>>
vars  == <<ring, sems, main, serv, open>>

MainPcs == {"accept", "P_slot", "P_mutex", "store", "advance", "V_mutex", "V_item"}
ServPcs == {"P_item", "P_mutex", "fetch", "advance", "V_mutex", "V_slot", "serve"}

Init ==
  /\ connfds = [i \in 0..Capacity - 1 |-> NoFd] /\ front = 0 /\ rear = 0
  /\ mutex = 1 /\ slot_cnt = Capacity /\ item_cnt = 0
  /\ mainPc = "accept" /\ mainFd = NoFd
  /\ pc = [t \in Threads |-> "P_item"] /\ fd = [t \in Threads |-> NoFd]
  /\ open = {}

MainGoes(from, to) == mainPc = from /\ mainPc' = to
Goes(t, from, to)  == pc[t] = from /\ pc' = [pc EXCEPT ![t] = to]

\* A fault: the modulus is the last index.
AdvanceShort(index) == (index + 1) % (Capacity - 1)

Advance(index) == (index + 1) % Capacity

-------------------------------------------------------------------------------
(* The main thread: start()'s loop around add_new_connection.              *)

\* Accept blocks until a connection arrives and returns a free descriptor.
Accept(f) == /\ MainGoes("accept", "P_slot")
             /\ f \notin open
             /\ open' = open \cup {f} /\ mainFd' = f
             /\ UNCHANGED <<ring, sems, serv>>

\* A fault: slot_cnt is counted down without waiting.
AddTakeAnySlot == /\ MainGoes("P_slot", "P_mutex")
                  /\ slot_cnt' = slot_cnt - 1
                  /\ UNCHANGED <<ring, mutex, item_cnt, mainFd, serv, open>>

AddTakeSlot == /\ MainGoes("P_slot", "P_mutex")
               /\ slot_cnt > 0 /\ slot_cnt' = slot_cnt - 1
               /\ UNCHANGED <<ring, mutex, item_cnt, mainFd, serv, open>>

\* A fault: mutex is not taken.
AddLockNot == /\ MainGoes("P_mutex", "store")
              /\ UNCHANGED <<ring, sems, mainFd, serv, open>>

AddLock == /\ MainGoes("P_mutex", "store")
           /\ mutex > 0 /\ mutex' = mutex - 1
           /\ UNCHANGED <<ring, slot_cnt, item_cnt, mainFd, serv, open>>

AddStore == /\ MainGoes("store", "advance")
            /\ connfds' = [connfds EXCEPT ![rear] = mainFd]
            /\ UNCHANGED <<front, rear, sems, mainFd, serv, open>>

AddAdvance == /\ MainGoes("advance", "V_mutex")
              /\ rear' = Advance(rear)
              /\ UNCHANGED <<connfds, front, sems, mainFd, serv, open>>

AddUnlock == /\ MainGoes("V_mutex", "V_item")
             /\ mutex' = mutex + 1
             /\ UNCHANGED <<ring, slot_cnt, item_cnt, mainFd, serv, open>>

\* A fault: item_cnt is not counted up.
AddPutNothing == /\ MainGoes("V_item", "accept")
                 /\ mainFd' = NoFd
                 /\ UNCHANGED <<ring, sems, serv, open>>

AddPutItem == /\ MainGoes("V_item", "accept")
              /\ item_cnt' = item_cnt + 1
              /\ mainFd' = NoFd
              /\ UNCHANGED <<ring, mutex, slot_cnt, serv, open>>

-------------------------------------------------------------------------------
(* A service thread: service_thread's loop around get_new_connection.      *)

GetTakeItem(t) == /\ Goes(t, "P_item", "P_mutex")
                  /\ item_cnt > 0 /\ item_cnt' = item_cnt - 1
                  /\ UNCHANGED <<ring, mutex, slot_cnt, main, fd, open>>

\* A fault: mutex is not taken.
GetLockNot(t) == /\ Goes(t, "P_mutex", "fetch")
                 /\ UNCHANGED <<ring, sems, main, fd, open>>

GetLock(t) == /\ Goes(t, "P_mutex", "fetch")
              /\ mutex > 0 /\ mutex' = mutex - 1
              /\ UNCHANGED <<ring, slot_cnt, item_cnt, main, fd, open>>

\* A fault: the newest connection is taken.
GetFetchNewest(t) == /\ Goes(t, "fetch", "advance")
                     /\ fd' = [fd EXCEPT ![t] = connfds[(rear - 1) % Capacity]]
                     /\ UNCHANGED <<ring, sems, main, open>>

GetFetch(t) == /\ Goes(t, "fetch", "advance")
               /\ fd' = [fd EXCEPT ![t] = connfds[front]]
               /\ UNCHANGED <<ring, sems, main, open>>

GetAdvance(t) == /\ Goes(t, "advance", "V_mutex")
                 /\ front' = Advance(front)
                 /\ UNCHANGED <<connfds, rear, sems, main, fd, open>>

GetUnlock(t) == /\ Goes(t, "V_mutex", "V_slot")
                /\ mutex' = mutex + 1
                /\ UNCHANGED <<ring, slot_cnt, item_cnt, main, fd, open>>

\* A fault: slot_cnt is not counted up.
GetGiveNothing(t) == /\ Goes(t, "V_slot", "serve")
                     /\ UNCHANGED <<ring, sems, main, fd, open>>

GetGiveSlot(t) == /\ Goes(t, "V_slot", "serve")
                  /\ slot_cnt' = slot_cnt + 1
                  /\ UNCHANGED <<ring, mutex, item_cnt, main, fd, open>>

\* doit(connfd) returns and the thread closes the connection.  What doit does
\* with it in between touches nothing of the queue.
ServeAndClose(t) == /\ Goes(t, "serve", "P_item")
                    /\ open' = open \ {fd[t]}
                    /\ fd' = [fd EXCEPT ![t] = NoFd]
                    /\ UNCHANGED <<ring, sems, main>>

-------------------------------------------------------------------------------
AddStep == \/ AddTakeSlot \/ AddLock \/ AddStore \/ AddAdvance
           \/ AddUnlock \/ AddPutItem

ServiceStep(t) == \/ GetTakeItem(t) \/ GetLock(t) \/ GetFetch(t) \/ GetAdvance(t)
                  \/ GetUnlock(t) \/ GetGiveSlot(t) \/ ServeAndClose(t)

Next == \/ \E f \in Fds : Accept(f)
        \/ AddStep
        \/ \E t \in Threads : ServiceStep(t)

SafeSpec == Init /\ [][Next]_vars

\* A thread that can run is run eventually, and doit returns.  Semaphores wake
\* waiters in no particular order, so no strong fairness; clients may stop
\* connecting, so no fairness for Accept.
Spec == SafeSpec /\ WF_vars(AddStep) /\ \A t \in Threads : WF_vars(ServiceStep(t))

-------------------------------------------------------------------------------
(* Properties.                                                             *)

TypeOK ==
  /\ connfds \in [0..Capacity - 1 -> Fds \cup {NoFd}]
  /\ front \in 0..Capacity - 1 /\ rear \in 0..Capacity - 1
  /\ mutex \in 0..1 /\ slot_cnt \in 0..Capacity /\ item_cnt \in 0..Capacity
  /\ mainPc \in MainPcs /\ mainFd \in Fds \cup {NoFd}
  /\ pc \in [Threads -> ServPcs] /\ fd \in [Threads -> Fds \cup {NoFd}]
  /\ open \subseteq Fds

At(labels) == {t \in Threads : pc[t] \in labels}

Locked     == {"fetch", "advance", "V_mutex"}
MainLocked == {"store", "advance", "V_mutex"}

\* Threads that have taken an item and not yet moved front past it, and
\* threads that have emptied a slot and not yet announced it.
Taking  == Cardinality(At({"P_mutex", "fetch", "advance"}))
Emptied == Cardinality(At({"V_mutex", "V_slot"}))

\* The main thread holds a free slot it has reserved, or has stored a
\* connection it has not announced.
Reserved    == IF mainPc \in {"P_mutex", "store", "advance"} THEN 1 ELSE 0
Unannounced == IF mainPc \in {"V_mutex", "V_item"} THEN 1 ELSE 0

\* The connections in the ring.
Stored == item_cnt + Taking + Unannounced

\* The queued connections, oldest first.
Queue == [i \in 1..Stored |-> connfds[(front + i - 1) % Capacity]]

\* The critical sections of add_new_connection and get_new_connection exclude
\* one another, and mutex is free exactly when nobody is inside one.
MutualExclusion ==
  /\ \A s, t \in At(Locked) : s = t
  /\ mainPc \in MainLocked => At(Locked) = {}
  /\ mutex = 1 <=> mainPc \notin MainLocked /\ At(Locked) = {}

\* Every slot of the ring is free (in slot_cnt), reserved by the main thread,
\* occupied, or emptied by a thread that has not announced it yet.
SlotsAccounted == slot_cnt + Reserved + Stored + Emptied = Capacity

\* The indices delimit the occupied part of the ring, which never wraps onto
\* itself: rear is Stored places after front.
IndicesDelimit == Stored \in 0..Capacity /\ rear = (front + Stored) % Capacity

\* Every accepted connection is eventually served and closed, even though no
\* waiter of a semaphore has priority: the capacity of the ring throttles the
\* main thread.
EveryConnectionCloses == \A f \in Fds : f \in open ~> f \notin open

-------------------------------------------------------------------------------
(* The queue implements ConnFifo.  A connection is queued when rear moves  *)
(* past it and taken when front does.                                      *)

Accepted == IF mainPc \in {"P_slot", "P_mutex", "store", "advance"}
            THEN mainFd ELSE NoFd

Serving  == [t \in Threads |->
               IF pc[t] \in {"V_mutex", "V_slot", "serve"} THEN fd[t] ELSE NoFd]

Fifo == INSTANCE ConnFifo
          WITH accepted <- Accepted, waiting <- Queue, serving <- Serving

\* The ring and its semaphores behave as a bounded FIFO queue, and make the
\* same progress.
FifoSpec == Fifo!Spec

\* A connection is never lost and never given to two threads: the open ones
\* are those in the hands of the main thread, of the ring or of one service
\* thread, each in one place only.
EachConnectionOnce == open = Fifo!Known \ {NoFd} /\ Fifo!GivenOnce
===============================================================================
