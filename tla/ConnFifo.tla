------------------------------- MODULE ConnFifo -------------------------------
(***************************************************************************)
(* What the proxy's connection queue (proxylab_code/server.c) promises its *)
(* two users, the accepting thread and the service threads: accepted       *)
(* connections are handed over in the order they were queued, each one to  *)
(* exactly one thread, and never more than Capacity wait at once.          *)
(*                                                                         *)
(* The semaphores, the ring of slots and the two indices do not appear     *)
(* here: ConnQueue is shown to implement this module.                      *)
(***************************************************************************)
EXTENDS Naturals, Sequences

CONSTANTS Threads,      \* the service threads
          Fds,          \* the descriptors accept() can return
          NoFd,         \* "no descriptor"
          Capacity      \* QUEUE_CAPACITY

VARIABLES accepted,     \* the connection accepted and not yet queued, or NoFd
          waiting,      \* the queued connections, oldest first
          serving       \* the connection each thread has taken, or NoFd

vars == <<accepted, waiting, serving>>

Known == {accepted} \cup {waiting[i] : i \in DOMAIN waiting}
                    \cup {serving[t] : t \in Threads}

Init == /\ accepted = NoFd
        /\ waiting = <<>>
        /\ serving = [t \in Threads |-> NoFd]

\* A new connection has a descriptor that names no connection in progress.
Accept(f) == /\ accepted = NoFd
             /\ f \notin Known
             /\ accepted' = f
             /\ UNCHANGED <<waiting, serving>>

Enqueue == /\ accepted # NoFd
           /\ Len(waiting) < Capacity
           /\ waiting' = Append(waiting, accepted)
           /\ accepted' = NoFd
           /\ UNCHANGED serving

Dequeue(t) == /\ waiting # <<>>
              /\ serving[t] = NoFd
              /\ serving' = [serving EXCEPT ![t] = Head(waiting)]
              /\ waiting' = Tail(waiting)
              /\ UNCHANGED accepted

Finish(t) == /\ serving[t] # NoFd
             /\ serving' = [serving EXCEPT ![t] = NoFd]
             /\ UNCHANGED <<accepted, waiting>>

DequeueByAny == \E t \in Threads : Dequeue(t)

Next == \/ \E f \in Fds : Accept(f)
        \/ Enqueue
        \/ DequeueByAny
        \/ \E t \in Threads : Finish(t)

SafeSpec == Init /\ [][Next]_vars

\* The queue promises progress as a whole: it does not say which idle thread
\* takes the next connection.
Spec == /\ SafeSpec
        /\ WF_vars(Enqueue)
        /\ WF_vars(DequeueByAny)
        /\ \A t \in Threads : WF_vars(Finish(t))

\* No connection is in two places: queued twice, taken by two threads, queued
\* and taken, or waiting to be queued while it already is.
GivenOnce ==
  /\ \A i, j \in DOMAIN waiting : waiting[i] = waiting[j] => i = j
  /\ \A s, t \in Threads : serving[s] = serving[t] /\ serving[s] # NoFd => s = t
  /\ \A i \in DOMAIN waiting :
       /\ waiting[i] # NoFd /\ waiting[i] # accepted
       /\ \A t \in Threads : waiting[i] # serving[t]
  /\ \A t \in Threads : serving[t] = accepted => accepted = NoFd
===============================================================================
