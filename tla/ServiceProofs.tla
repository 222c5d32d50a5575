---------------------------- MODULE ServiceProofs ----------------------------
(***************************************************************************)
(* The proxy's invariants, for every number of service threads,            *)
(* connections and descriptors, whatever clients send, however long the    *)
(* responses and whatever the sizes of buffer and cache.                   *)
(***************************************************************************)
EXTENDS Service, LibraryLemmas

-------------------------------------------------------------------------------
(* The inductive invariant.                                                   *)

\* A descriptor has one holder, a connection one descriptor; the connections
\* made so far are the first ones.
Descriptors ==
  /\ Fifo!GivenOnce
  /\ \A f \in Fds : fds[f] \in Conns <=> f \in Fifo!Known
  /\ \A f, g \in Fds : fds[f] \in Conns /\ fds[f] = fds[g] => f = g
  /\ \A c \in Conns : (\E f \in Fds : fds[f] = c) <=> request[c] # NoRequest /\ c \notin ended
  /\ \A c \in ended : request[c] # NoRequest
  /\ \E n \in 0..MaxConns : {d \in Conns : request[d] # NoRequest} = 1..n
  /\ \A t \in Threads : clientfd[t] # NoFd =>
       fds[clientfd[t]] = Server /\ \A s \in Threads \ {t} : clientfd[s] # clientfd[t]
  /\ \A t \in Threads : serving[t] = NoFd => pc[t] = "idle"

\* What a response is known by.
Keys == {ParseLine(r.line) : r \in {q \in Requests : q.line # Garbage}} \ {Refused}

\* The first n bytes of the response k.
Bytes(k, n) == [j \in 1..n |-> <<k, j>>]

Beginnings == {<<>>} \cup {Bytes(k, n) : k \in Keys, n \in Nat}

Objects == {[key |-> k, len |-> n, body |-> Bytes(k, n)] : k \in Keys, n \in 0..MaxObject}

\* Of a thread at label l: its key k, the n bytes it has of the response, the m
\* it still expects, and its buffer b, which holds the n bytes if they fit.
Holds(l, k, n, m, b) ==
  /\ l \notin {"idle", "line", "close"} => k \in Keys
  /\ n \in Nat /\ m \in Nat
  /\ b = [j \in 1..MaxObject |-> b[j]]
  /\ n <= MaxObject => \A j \in 1..n : b[j] = <<k, j>>
  /\ l \notin {"cached", "relay", "insert", "close"} => n = 0
  /\ l = "cached" => n <= MaxObject

\* What the cache and the threads' buffers have of a response is its beginning.
Contents ==
  /\ order \in Seq(Objects)
  /\ \A f \in {key, len, rest, respBuf} : f = [t \in Threads |-> f[t]]
  /\ \A t \in Threads : Holds(pc[t], key[t], len[t], rest[t], respBuf[t])

\* A client that is being answered has been sent what its thread has read, and
\* one that is not yet being answered nothing.
Answers ==
  /\ sent \in [Conns -> Beginnings]
  /\ \A c \in Conns : request[c] = NoRequest => sent[c] = <<>>
  /\ \A f \in {accepted} \cup ToSet(waiting) : f \in Fds => sent[fds[f]] = <<>>
  /\ \A t \in Threads :
       /\ pc[t] \notin {"idle", "relay", "insert", "close"} => sent[Conn(t)] = <<>>
       /\ pc[t] = "relay" => sent[Conn(t)] = Bytes(key[t], len[t])

\* Header entries, as sent by clients or as the proxy makes them.
Names   == Required \cup {h.name : h \in UNION {ToSet(r.headers) : r \in Requests}}
Values  == {Own(n) : n \in Required} \cup {h.value : h \in UNION {ToSet(r.headers) : r \in Requests}}
Entries == [name : Names, value : Values]

\* What is forwarded is what modify_header_entries made of what was read.
Forwarded ==
  /\ headers = [t \in Threads |-> headers[t]] /\ out = [t \in Threads |-> out[t]]
  /\ \A t \in Threads :
       /\ headers[t] \in Seq(Entries)
       /\ pc[t] \in {"connect", "send", "relay", "insert"} /\ headers[t] # <<>> =>
            out[t] = Modified(headers[t])

Types ==
  /\ fds \in [Fds -> Conns \cup {Closed, Server}] /\ down \in BOOLEAN /\ memory \in 0..Memory
  /\ accepted \in Fds \cup {NoFd} /\ waiting \in Seq(Fds) /\ Len(waiting) <= Capacity
  /\ serving \in [Threads -> Fds \cup {NoFd}]
  /\ request \in [Conns -> Requests \cup {NoRequest}] /\ ended \subseteq Conns
  /\ pc \in [Threads -> Labels] /\ read \in [Threads -> Nat]
  /\ clientfd \in [Threads -> Fds \cup {NoFd}]

Fits == Cache!Total <= MaxCache

IInv == Types /\ Descriptors /\ Contents /\ Fits /\ Answers /\ Forwarded

-------------------------------------------------------------------------------
(* The kinds of steps.                                                        *)

\* Steps of a thread that change nothing but where it is, its memory and its
\* header lists.
Moves ==
  {<<"line", "close">>, <<"first", "lookup">>, <<"first", "next">>, <<"next", "next">>,
   <<"next", "lookup">>, <<"lookup", "modify">>, <<"modify", "connect">>, <<"connect", "send">>,
   <<"relay", "insert">>, <<"insert", "close">>}

Plain(t) == /\ UNCHANGED <<fds, queueVars, order, clientVars, key, respVars>>
            /\ \E m \in Moves : pc[t] = m[1] /\ pc' = [pc EXCEPT ![t] = m[2]]

\* The process ends, or nothing happens at all.
Stops == UNCHANGED <<fds, memory, queueVars, order, clientVars, pc, reqVars, respVars>>

LEMMA PlainSteps ==
  ASSUME NEW t,
         \/ RefuseLine(t) \/ FirstHeader(t) \/ NextHeader(t) \/ SameHeader(t) \/ LastHeader(t)
         \/ Miss(t) \/ Modify(t) \/ ModifyNothing(t) \/ ConnectFails(t) \/ RelayEnd(t) \/ TooLong(t)
  PROVE  Plain(t)
  <1> USE DEF Plain, Goes, queueVars, clientVars, respVars, reqVars
  <1>1. CASE RefuseLine(t)
    BY <1>1 DEF RefuseLine, Moves
  <1>2. CASE FirstHeader(t)
    BY <1>2 DEF FirstHeader, Moves
  <1>3. CASE NextHeader(t)
    BY <1>3 DEF NextHeader, Moves
  <1>4. CASE SameHeader(t)
    BY <1>4 DEF SameHeader, Moves
  <1>5. CASE LastHeader(t)
    BY <1>5 DEF LastHeader, Moves
  <1>6. CASE Miss(t)
    BY <1>6 DEF Miss, Moves
  <1>7. CASE Modify(t)
    BY <1>7 DEF Modify, Moves
  <1>8. CASE ModifyNothing(t)
    BY <1>8 DEF ModifyNothing, Moves
  <1>9. CASE ConnectFails(t)
    BY <1>9 DEF ConnectFails, Moves
  <1>10. CASE RelayEnd(t)
    BY <1>10 DEF RelayEnd, Moves
  <1>11. CASE TooLong(t)
    BY <1>11 DEF TooLong, Moves
  <1> QED BY <1>1, <1>2, <1>3, <1>4, <1>5, <1>6, <1>7, <1>8, <1>9, <1>10, <1>11

\* The steps one thread may take that are not plain ones.
Works(t) == \/ Take(t) \/ AcceptLine(t) \/ Hit(t) \/ SendCached(t) \/ Connect(t)
            \/ (\E n \in Lens : SendRequest(t, n)) \/ Relay(t) \/ Insert(t) \/ Close(t)

LEMMA StepKinds ==
  ASSUME [Next]_vars
  PROVE  \/ \E r \in Requests : Accept(r)
         \/ Enqueue
         \/ \E t \in Threads : Works(t) \/ Plain(t)
         \/ Stops
  <1>1. ASSUME Dies \/ UNCHANGED vars PROVE Stops
    BY <1>1 DEF Dies, Stops, vars
  <1>2. CASE Main
    BY <1>1, <1>2 DEF Main, AcceptFails
  <1>3. ASSUME NEW t \in Threads, Thread(t) PROVE Works(t) \/ Plain(t) \/ Stops
    BY <1>1, <1>3, PlainSteps
       DEF Thread, ReadRequest, Answer, Works, MemoryRunsOut, WildPointer, SendNowhere
  <1>4. ASSUME NEW t \in Threads, IoFails(t) PROVE Stops
    BY <1>1, <1>4 DEF IoFails
  <1> QED BY <1>1, <1>2, <1>3, <1>4 DEF Next

-------------------------------------------------------------------------------
(* The queue.                                                                 *)

LEMMA QueueTypes ==
  ASSUME Types
  PROVE  /\ accepted \in Fds \cup {NoFd} /\ serving \in [Threads -> Fds \cup {NoFd}]
         /\ waiting \in Seq(Fds) /\ DOMAIN waiting = 1..Len(waiting) /\ Len(waiting) \in Nat
         /\ \A i \in DOMAIN waiting : waiting[i] \in Fds
         /\ NoFd \notin Fds
  BY LenProperties, BoundsAssumption DEF Types

LEMMA EnqueueShape ==
  ASSUME Types, Fifo!Enqueue
  PROVE  /\ accepted \in Fds /\ accepted' = NoFd /\ serving' = serving
         /\ waiting' \in Seq(Fds) /\ Len(waiting') <= Capacity
         /\ DOMAIN waiting' = 1..Len(waiting) + 1
         /\ \A i \in DOMAIN waiting : waiting'[i] = waiting[i]
         /\ waiting'[Len(waiting) + 1] = accepted
  <1>1. waiting' = Append(waiting, accepted) /\ accepted # NoFd /\ Len(waiting) < Capacity
        /\ accepted' = NoFd /\ serving' = serving
    BY DEF Fifo!Enqueue
  <1>2. accepted \in Fds
    BY <1>1, QueueTypes
  <1>3. /\ Append(waiting, accepted) \in Seq(Fds)
        /\ Len(Append(waiting, accepted)) = Len(waiting) + 1
        /\ \A i \in 1..Len(waiting) : Append(waiting, accepted)[i] = waiting[i]
        /\ Append(waiting, accepted)[Len(waiting) + 1] = accepted
    BY <1>2, QueueTypes, AppendProperties
  <1>4. Len(waiting') = Len(waiting) + 1 /\ Len(waiting) \in Nat /\ Capacity \in Nat
    BY <1>1, <1>3, QueueTypes, BoundsAssumption
  <1>5. DOMAIN waiting' = 1..Len(waiting')
    BY <1>1, <1>3, LenProperties
  <1> QED BY <1>1, <1>2, <1>3, <1>4, <1>5, QueueTypes

LEMMA DequeueShape ==
  ASSUME Types, NEW t \in Threads, Fifo!Dequeue(t)
  PROVE  /\ accepted' = accepted /\ serving[t] = NoFd
         /\ waiting' \in Seq(Fds) /\ Len(waiting') <= Capacity
         /\ DOMAIN waiting' = 1..Len(waiting) - 1 /\ Len(waiting) >= 1 /\ 1 \in DOMAIN waiting
         /\ \A i \in DOMAIN waiting' :
              waiting'[i] = waiting[i + 1] /\ i + 1 \in DOMAIN waiting /\ i + 1 # 1
         /\ serving' = [serving EXCEPT ![t] = waiting[1]]
  <1>1. /\ waiting # <<>> /\ waiting' = Tail(waiting) /\ accepted' = accepted /\ serving[t] = NoFd
        /\ serving' = [serving EXCEPT ![t] = Head(waiting)]
    BY DEF Fifo!Dequeue
  <1>2. /\ Tail(waiting) \in Seq(Fds) /\ Len(Tail(waiting)) = Len(waiting) - 1
        /\ \A i \in 1..Len(waiting) - 1 : Tail(waiting)[i] = waiting[i + 1]
        /\ Head(waiting) = waiting[1]
    BY <1>1, QueueTypes, HeadTailProperties
  <1>3. Len(waiting) >= 1 /\ Len(waiting) <= Capacity
    BY <1>1, QueueTypes, EmptySeq DEF Types
  <1>4. DOMAIN waiting' = 1..Len(waiting) - 1
    BY <1>1, <1>2, LenProperties
  <1>5. Len(waiting) \in Nat /\ DOMAIN waiting = 1..Len(waiting)
    BY QueueTypes
  <1> QED BY <1>1, <1>2, <1>3, <1>4, <1>5, BoundsAssumption

\* The queue's steps keep every descriptor in one place.
LEMMA OnceKept ==
  ASSUME Types, Fifo!GivenOnce
  PROVE  /\ Fifo!Enqueue => Fifo!GivenOnce' /\ \A f \in Fds : f \in Fifo!Known' <=> f \in Fifo!Known
         /\ \A t \in Threads : Fifo!Dequeue(t) =>
              Fifo!GivenOnce' /\ \A f \in Fds : f \in Fifo!Known' <=> f \in Fifo!Known
         /\ \A t \in Threads : Fifo!Finish(t) =>
              Fifo!GivenOnce' /\ \A f \in Fds : f \in Fifo!Known' <=> f \in Fifo!Known \ {serving[t]}
  <1> USE QueueTypes
  <1>1. ASSUME Fifo!Enqueue
        PROVE  Fifo!GivenOnce' /\ \A f \in Fds : f \in Fifo!Known' <=> f \in Fifo!Known
    <2>1. \A i \in DOMAIN waiting' : i \in DOMAIN waiting \/ i = Len(waiting) + 1
      BY <1>1, EnqueueShape
    <2>2. Fifo!GivenOnce'
      BY <1>1, <2>1, EnqueueShape DEF Fifo!GivenOnce
    <2>3. ASSUME NEW f \in Fds PROVE f \in Fifo!Known' <=> f \in Fifo!Known
      BY <1>1, <2>1, EnqueueShape DEF Fifo!Known
    <2> QED BY <2>2, <2>3
  <1>2. ASSUME NEW t \in Threads, Fifo!Dequeue(t)
        PROVE  Fifo!GivenOnce' /\ \A f \in Fds : f \in Fifo!Known' <=> f \in Fifo!Known
    <2>1. \A s \in Threads : serving'[s] = IF s = t THEN waiting[1] ELSE serving[s]
      BY <1>2, DequeueShape
    <2>2. \A i, j \in DOMAIN waiting' : waiting'[i] = waiting'[j] => i = j
      BY <1>2, DequeueShape DEF Fifo!GivenOnce
    <2>3. Fifo!GivenOnce'
      BY <1>2, <2>1, <2>2, DequeueShape, SMTT(60) DEF Fifo!GivenOnce
    <2>4. ASSUME NEW f \in Fds PROVE f \in Fifo!Known' <=> f \in Fifo!Known
      <3>1. (\E i \in DOMAIN waiting : waiting[i] = f)
              <=> waiting[1] = f \/ \E i \in DOMAIN waiting' : waiting'[i] = f
        <4>1. ASSUME NEW i \in DOMAIN waiting, i # 1
              PROVE  \E j \in DOMAIN waiting' : waiting'[j] = waiting[i]
          <5>1. PICK j \in Nat : j + 1 = i
            BY <4>1
          <5>2. j \in DOMAIN waiting'
            <6>1. j \in 1..Len(waiting) - 1
              BY <5>1, <4>1
            <6> QED BY <6>1, <1>2, DequeueShape
          <5>3. waiting'[j] = waiting[j + 1]
            BY <1>2, <5>2, DequeueShape
          <5> QED BY <5>1, <5>2, <5>3
        <4>2. 1 \in DOMAIN waiting
              /\ \A i \in DOMAIN waiting' : waiting'[i] = waiting[i + 1] /\ i + 1 \in DOMAIN waiting
          BY <1>2, DequeueShape
        <4> QED BY <4>1, <4>2
      <3>2. (\E s \in Threads : serving'[s] = f)
              <=> waiting[1] = f \/ \E s \in Threads : serving[s] = f
        BY <1>2, <2>1, DequeueShape
      <3>3. accepted' = accepted
        BY <1>2, DequeueShape
      <3> QED BY <3>1, <3>2, <3>3 DEF Fifo!Known
    <2> QED BY <2>3, <2>4
  <1>3. ASSUME NEW t \in Threads, Fifo!Finish(t)
        PROVE  Fifo!GivenOnce'
               /\ \A f \in Fds : f \in Fifo!Known' <=> f \in Fifo!Known \ {serving[t]}
    <2>1. UNCHANGED <<accepted, waiting>> /\ serving[t] # NoFd
          /\ \A s \in Threads : serving'[s] = IF s = t THEN NoFd ELSE serving[s]
      BY <1>3 DEF Fifo!Finish
    <2>2. Fifo!GivenOnce'
      BY <2>1 DEF Fifo!GivenOnce
    <2>3. ASSUME NEW f \in Fds PROVE f \in Fifo!Known' <=> f \in Fifo!Known \ {serving[t]}
      BY <2>1 DEF Fifo!Known, Fifo!GivenOnce
    <2> QED BY <2>2, <2>3
  <1> QED BY <1>1, <1>2, <1>3

-------------------------------------------------------------------------------
(* Types.                                                                     *)

\* What every action does to the process, its memory and the lines read.
SmallTypes == down \in BOOLEAN /\ memory \in 0..Memory /\ read \in [Threads -> Nat]

LEMMA SmallTypesNext == SmallTypes /\ [Next]_vars => SmallTypes'
  <1> SUFFICES ASSUME SmallTypes, [Next]_vars PROVE SmallTypes'
    OBVIOUS
  <1> USE DEF SmallTypes, reqVars, respVars, clientVars, queueVars
  <1>1. Dies \/ UNCHANGED vars => SmallTypes'
    BY DEF Dies, vars
  <1>2. ASSUME NEW t \in Threads, NEW line, ReadOne(t, line) PROVE read' \in [Threads -> Nat]
    BY <1>2 DEF ReadOne
  <1>3. CASE Main
    BY <1>1, <1>3 DEF Main, Accept, AcceptFails, Enqueue
  <1>4. ASSUME NEW t \in Threads, Thread(t) PROVE SmallTypes'
    <2>1. CASE RefuseLine(t)
      BY <2>1 DEF RefuseLine
    <2>2. CASE FirstHeader(t)
      BY <2>2, <1>2 DEF FirstHeader
    <2>3. CASE NextHeader(t)
      BY <2>3, <1>2 DEF NextHeader
    <2>4. CASE SameHeader(t)
      BY <2>4, BoundsAssumption DEF SameHeader
    <2>5. CASE LastHeader(t)
      BY <2>5, <1>2 DEF LastHeader
    <2>6. CASE Miss(t)
      BY <2>6 DEF Miss
    <2>7. CASE Modify(t)
      BY <2>7 DEF Modify
    <2>8. CASE ModifyNothing(t)
      BY <2>8 DEF ModifyNothing
    <2>9. CASE ConnectFails(t)
      BY <2>9 DEF ConnectFails
    <2>10. CASE RelayEnd(t)
      BY <2>10 DEF RelayEnd
    <2>11. CASE TooLong(t)
      BY <2>11 DEF TooLong
    <2>12. CASE Take(t)
      BY <2>12 DEF Take
    <2>13. CASE AcceptLine(t)
      BY <2>13 DEF AcceptLine
    <2>14. CASE Hit(t)
      BY <2>14 DEF Hit
    <2>15. CASE SendCached(t)
      BY <2>15 DEF SendCached
    <2>16. CASE Connect(t)
      BY <2>16 DEF Connect
    <2>17. CASE Relay(t)
      BY <2>17 DEF Relay
    <2>18. CASE Insert(t)
      BY <2>18 DEF Insert
    <2>19. CASE Close(t)
      BY <2>19 DEF Close
    <2>20. ASSUME NEW n \in Lens, SendRequest(t, n) PROVE SmallTypes'
      BY <2>20 DEF SendRequest
    <2>21. CASE MemoryRunsOut(t) \/ WildPointer(t) \/ SendNowhere(t)
      BY <1>1, <2>21 DEF MemoryRunsOut, WildPointer, SendNowhere
    <2> HIDE DEF SmallTypes, reqVars, respVars, clientVars, queueVars
    <2> QED
      BY <1>4, <2>1, <2>2, <2>3, <2>4, <2>5, <2>6, <2>7, <2>8, <2>9, <2>10, <2>11, <2>12,
         <2>13, <2>14, <2>15, <2>16, <2>17, <2>18, <2>19, <2>20, <2>21
         DEF Thread, ReadRequest, Answer
  <1>5. ASSUME NEW t \in Threads, IoFails(t) PROVE SmallTypes'
    BY <1>1, <1>5 DEF IoFails
  <1> HIDE DEF SmallTypes, reqVars, respVars, clientVars, queueVars
  <1> QED BY <1>1, <1>3, <1>4, <1>5 DEF Next

\* A descriptor that is free exists when Accept or Connect takes the lowest.
LEMMA LowestIsFree == Free # {} => Lowest(Free) \in Free
  <1>1. Free \subseteq Nat
    BY BoundsAssumption DEF Free
  <1> SUFFICES ASSUME Free # {} PROVE Lowest(Free) \in Free
    OBVIOUS
  <1>2. \E n \in Free : \A m \in Free : n <= m
    BY <1>1, SmallestNat
  <1> QED BY <1>2 DEF Lowest, Min

LEMMA TypesNext == Types /\ Descriptors /\ [Next]_vars => Types'
  <1> SUFFICES ASSUME Types, Descriptors, [Next]_vars PROVE Types'
    OBVIOUS
  <1>0. down' \in BOOLEAN /\ memory' \in 0..Memory /\ read' \in [Threads -> Nat]
    BY SmallTypesNext DEF Types, SmallTypes
  <1> DEFINE QueueTyped == /\ accepted' \in Fds \cup {NoFd} /\ waiting' \in Seq(Fds)
                           /\ Len(waiting') <= Capacity
                           /\ serving' \in [Threads -> Fds \cup {NoFd}]
             RestTyped  == /\ fds' \in [Fds -> Conns \cup {Closed, Server}]
                           /\ request' \in [Conns -> Requests \cup {NoRequest}]
                           /\ ended' \subseteq Conns
                           /\ pc' \in [Threads -> Labels]
                           /\ clientfd' \in [Threads -> Fds \cup {NoFd}]
  <1>1. SUFFICES QueueTyped /\ RestTyped
    BY <1>0 DEF Types
  <1>2. ASSUME UNCHANGED <<accepted, waiting, serving>> PROVE QueueTyped
    BY <1>2 DEF Types
  <1>3. ASSUME UNCHANGED <<fds, request, ended, pc, clientfd>> PROVE RestTyped
    BY <1>3 DEF Types
  <1>4. ASSUME NEW r \in Requests, Accept(r) PROVE QueueTyped /\ RestTyped
    <2>1. Lowest(Free) \in Fds
      BY <1>4, LowestIsFree DEF Accept, Free
    <2> HIDE DEF QueueTyped
    <2>2. QueueTyped
      BY <1>4, <2>1 DEF Accept, Types, QueueTyped
    <2>3. RestTyped
      <3> DEFINE c == Cardinality({d \in Conns : request[d] # NoRequest}) + 1
      <3>1. c \in Conns /\ fds' = [fds EXCEPT ![Lowest(Free)] = c]
            /\ request' = [request EXCEPT ![c] = r]
            /\ UNCHANGED <<ended, pc, clientfd>>
        BY <1>4 DEF Accept, respVars
      <3> HIDE DEF c
      <3> QED BY <2>1, <3>1 DEF Types
    <2> QED BY <2>2, <2>3
  <1>5. CASE Enqueue
    <2>1. QueueTyped
      BY <1>5, EnqueueShape DEF Enqueue, Types
    <2>2. RestTyped
      BY <1>3, <1>5 DEF Enqueue, clientVars, respVars
    <2> QED BY <2>1, <2>2
  <1>6. ASSUME NEW t \in Threads, Works(t) PROVE QueueTyped /\ RestTyped
    <2> HIDE DEF QueueTyped, RestTyped
    <2> USE DEF Goes, queueVars, clientVars, respVars, reqVars
    <2>1. CASE Take(t)
      <3>1. QueueTyped
        BY <2>1, DequeueShape, QueueTypes DEF Take, Types, QueueTyped
      <3>2. RestTyped
        BY <2>1 DEF Take, Types, RestTyped, Labels
      <3> QED BY <3>1, <3>2
    <2>2. CASE AcceptLine(t)
      BY <1>2, <2>2 DEF AcceptLine, Types, RestTyped, Labels
    <2>3. CASE Hit(t)
      BY <1>2, <2>3 DEF Hit, Types, RestTyped, Labels
    <2>4. CASE SendCached(t)
      BY <1>2, <2>4 DEF SendCached, Types, RestTyped, Labels
    <2>5. CASE Connect(t)
      <3>1. Lowest(Free) \in Fds
        BY <2>5, LowestIsFree DEF Connect, Free
      <3> QED BY <1>2, <2>5, <3>1 DEF Connect, Types, RestTyped, Labels
    <2>6. ASSUME NEW n \in Lens, SendRequest(t, n) PROVE QueueTyped /\ RestTyped
      BY <1>2, <2>6 DEF SendRequest, Types, RestTyped, Labels
    <2>7. CASE Relay(t)
      BY <1>2, <2>7 DEF Relay, Types, RestTyped, Labels
    <2>8. CASE Insert(t)
      BY <1>2, <2>8 DEF Insert, Types, RestTyped, Labels
    <2>9. CASE Close(t)
      <3>1. serving[t] \in Fds /\ serving[t] \in Fifo!Known
        BY <2>9, QueueTypes DEF Close, Fifo!Finish, Fifo!Known
      <3>2. fds[serving[t]] \in Conns
        BY <3>1 DEF Descriptors
      <3> QED BY <2>9, <3>1, <3>2 DEF Close, Fifo!Finish, Types, QueueTyped, RestTyped, Labels, Conn
    <2> QED BY <1>6, <2>1, <2>2, <2>3, <2>4, <2>5, <2>6, <2>7, <2>8, <2>9 DEF Works
  <1>7. ASSUME NEW t \in Threads, Plain(t) PROVE QueueTyped /\ RestTyped
    <2>1. PICK m \in Moves : pc' = [pc EXCEPT ![t] = m[2]]
      BY <1>7 DEF Plain
    <2>2. m[2] \in Labels
      BY DEF Moves, Labels
    <2> QED BY <1>2, <1>7, <2>1, <2>2 DEF Plain, Types, queueVars, clientVars, respVars
  <1>8. CASE Stops
    BY <1>2, <1>3, <1>8 DEF Stops, queueVars, clientVars, respVars
  <1> QED BY <1>4, <1>5, <1>6, <1>7, <1>8, StepKinds

-------------------------------------------------------------------------------
(* Descriptors and connections.                                               *)

\* Steps that leave the descriptors and their holders alone.
LEMMA DescriptorsSame ==
  ASSUME Descriptors, UNCHANGED <<fds, accepted, waiting, serving, request, ended, clientfd>>,
         \A t \in Threads : serving[t] = NoFd => pc'[t] = pc[t]
  PROVE  Descriptors'
  <1>1. Fifo!GivenOnce' /\ Fifo!Known' = Fifo!Known
    BY DEF Fifo!GivenOnce, Fifo!Known, Descriptors
  <1> QED BY <1>1 DEF Descriptors

\* Working threads hold a connection.
LEMMA ServedConn ==
  ASSUME Types, Descriptors
  PROVE  /\ \A t \in Threads : serving[t] # NoFd =>
              serving[t] \in Fds /\ Conn(t) \in Conns /\ Conn(t) = fds[serving[t]]
         /\ \A t, u \in Threads : serving[t] # NoFd /\ serving[u] # NoFd /\ Conn(t) = Conn(u) => t = u
         /\ \A t \in Threads, f \in {accepted} \cup ToSet(waiting) :
              serving[t] # NoFd /\ f \in Fds => fds[f] \in Conns /\ Conn(t) # fds[f]
  <1>1. \A t \in Threads : serving[t] # NoFd => serving[t] \in Fds /\ serving[t] \in Fifo!Known
    BY QueueTypes DEF Fifo!Known
  <1>2. \A t \in Threads : serving[t] # NoFd => Conn(t) \in Conns /\ Conn(t) = fds[serving[t]]
    BY <1>1 DEF Descriptors, Conn
  <1>3. ASSUME NEW t \in Threads, NEW u \in Threads, serving[t] # NoFd, serving[u] # NoFd,
               Conn(t) = Conn(u)
        PROVE  t = u
    <2>1. serving[t] = serving[u]
      BY <1>1, <1>2, <1>3 DEF Descriptors
    <2> QED BY <1>3, <2>1 DEF Descriptors, Fifo!GivenOnce
  <1>4. ASSUME NEW t \in Threads, NEW f \in {accepted} \cup ToSet(waiting), serving[t] # NoFd, f \in Fds
        PROVE  fds[f] \in Conns /\ Conn(t) # fds[f]
    <2>1. f \in Fifo!Known /\ f # serving[t]
      BY <1>4, QueueTypes DEF Descriptors, Fifo!GivenOnce, Fifo!Known, ToSet
    <2> QED BY <1>1, <1>2, <1>4, <2>1 DEF Descriptors
  <1> QED BY <1>1, <1>2, <1>3, <1>4

\* A working thread's connection has a client, which sends a request.
LEMMA ServedRequest ==
  ASSUME Types, Descriptors, NEW t \in Threads, pc[t] # "idle"
  PROVE  serving[t] # NoFd /\ Client(t) \in Requests
  <1>1. serving[t] # NoFd
    BY DEF Descriptors
  <1>2. Conn(t) \in Conns /\ serving[t] \in Fds /\ fds[serving[t]] = Conn(t)
    BY <1>1, ServedConn
  <1>3. request[Conn(t)] # NoRequest
    BY <1>2 DEF Descriptors
  <1> QED BY <1>1, <1>2, <1>3 DEF Types, Client

\* Accept's connection is the next one, on a descriptor nobody holds.
LEMMA AcceptedConn ==
  ASSUME Types, Descriptors, NEW r \in Requests, Accept(r)
  PROVE  \E n \in Nat, f \in Fds :
           /\ n + 1 \in Conns /\ n \in 0..MaxConns - 1
           /\ {d \in Conns : request[d] # NoRequest} = 1..n /\ request[n + 1] = NoRequest
           /\ fds[f] = Closed /\ f \notin Fifo!Known /\ accepted = NoFd /\ accepted' = f
           /\ fds' = [fds EXCEPT ![f] = n + 1] /\ request' = [request EXCEPT ![n + 1] = r]
           /\ UNCHANGED <<waiting, serving, ended, clientfd, pc>>
  <1> DEFINE made == {d \in Conns : request[d] # NoRequest}
             f == Lowest(Free)
  <1>1. PICK n \in 0..MaxConns : made = 1..n
    BY DEF Descriptors
  <1>2. n \in Nat /\ Cardinality(made) = n
    <2>1. n \in Nat
      BY BoundsAssumption
    <2>2. Cardinality(1..n) = n
      BY <2>1, FS_Interval
    <2> QED BY <1>1, <2>1, <2>2
  <1>3. /\ accepted = NoFd /\ accepted' = f /\ f \in Free
        /\ n + 1 \in Conns /\ fds' = [fds EXCEPT ![f] = n + 1]
        /\ request' = [request EXCEPT ![n + 1] = r]
        /\ UNCHANGED <<waiting, serving, ended, clientfd, pc>>
    BY <1>2, LowestIsFree DEF Accept, respVars
  <1> HIDE DEF f
  <1>4. f \in Fds /\ fds[f] = Closed /\ fds[f] \notin Conns
    BY <1>3, NamesAssumption DEF Free
  <1>5. f \notin Fifo!Known
    BY <1>4 DEF Descriptors
  <1>6. n \in 0..MaxConns - 1 /\ request[n + 1] = NoRequest
    <2>1. n + 1 \notin 1..n /\ n + 1 <= MaxConns
      BY <1>2, <1>3, BoundsAssumption DEF Conns
    <2>2. n + 1 \notin made
      BY <1>1, <2>1
    <2> QED BY <1>2, <1>3, <2>1, <2>2, BoundsAssumption
  <1> QED BY <1>1, <1>2, <1>3, <1>4, <1>5, <1>6

LEMMA DescriptorsAccept ==
  ASSUME Types, Descriptors, NEW r \in Requests, Accept(r)
  PROVE  Descriptors'
  <1>1. PICK n \in Nat, f \in Fds :
           /\ n + 1 \in Conns /\ n \in 0..MaxConns - 1
           /\ {d \in Conns : request[d] # NoRequest} = 1..n /\ request[n + 1] = NoRequest
           /\ fds[f] = Closed /\ f \notin Fifo!Known /\ accepted = NoFd /\ accepted' = f
           /\ fds' = [fds EXCEPT ![f] = n + 1] /\ request' = [request EXCEPT ![n + 1] = r]
           /\ UNCHANGED <<waiting, serving, ended, clientfd, pc>>
    BY AcceptedConn
  <1>2. PICK c \in Conns : c = n + 1
    BY <1>1
  <1>3. /\ fds' = [fds EXCEPT ![f] = c] /\ request' = [request EXCEPT ![c] = r]
        /\ request[c] = NoRequest /\ r # NoRequest
    BY <1>1, <1>2, NamesAssumption
  <1>4. /\ \A g \in Fds : fds'[g] = IF g = f THEN c ELSE fds[g]
        /\ \A d \in Conns : request'[d] = IF d = c THEN r ELSE request[d]
    BY <1>3 DEF Types
  <1>5. Fifo!GivenOnce'
    BY <1>1, QueueTypes DEF Descriptors, Fifo!GivenOnce, Fifo!Known
  <1>6. \A g \in Fds : g \in Fifo!Known' <=> g \in Fifo!Known \/ g = f
    BY <1>1, QueueTypes DEF Fifo!Known
  <1>7. \A g \in Fds : fds'[g] \in Conns <=> g \in Fifo!Known'
    BY <1>4, <1>6 DEF Descriptors
  <1>8. \A g \in Fds : fds[g] # c
    BY <1>3 DEF Descriptors
  <1>9. \A g, h \in Fds : fds'[g] \in Conns /\ fds'[g] = fds'[h] => g = h
    BY <1>4, <1>8 DEF Descriptors
  <1>10. \A d \in Conns : (\E g \in Fds : fds'[g] = d) <=> request'[d] # NoRequest /\ d \notin ended'
    <2>1. c \notin ended
      BY <1>3 DEF Descriptors
    <2>2. \E g \in Fds : fds'[g] = c
      BY <1>4
    <2>3. ASSUME NEW d \in Conns, d # c
          PROVE  (\E g \in Fds : fds'[g] = d) <=> \E g \in Fds : fds[g] = d
      BY <1>1, <1>4, <2>3, NamesAssumption
    <2> QED BY <1>1, <1>3, <1>4, <2>1, <2>2, <2>3 DEF Descriptors
  <1>11. \A d \in ended' : request'[d] # NoRequest
    BY <1>1, <1>3, <1>4 DEF Descriptors, Types
  <1>12. \E k \in 0..MaxConns : {d \in Conns : request'[d] # NoRequest} = 1..k
    <2>1. {d \in Conns : request'[d] # NoRequest} = {d \in Conns : request[d] # NoRequest} \cup {c}
      BY <1>3, <1>4
    <2>2. 1..n \cup {c} = 1..c /\ c \in 0..MaxConns
      BY <1>1, <1>2, BoundsAssumption
    <2> QED BY <1>1, <2>1, <2>2
  <1>13. \A t \in Threads : clientfd'[t] # NoFd =>
           fds'[clientfd'[t]] = Server /\ \A s \in Threads \ {t} : clientfd'[s] # clientfd'[t]
    BY <1>1, <1>4, NamesAssumption DEF Descriptors, Types
  <1> QED BY <1>1, <1>5, <1>7, <1>9, <1>10, <1>11, <1>12, <1>13 DEF Descriptors

LEMMA DescriptorsQueue ==
  ASSUME Types, Descriptors, Enqueue \/ \E t \in Threads : Take(t)
  PROVE  Descriptors'
  <1>1. UNCHANGED <<fds, request, ended, clientfd>>
    BY DEF Enqueue, Take, clientVars, respVars
  <1>2. Fifo!GivenOnce' /\ \A f \in Fds : f \in Fifo!Known' <=> f \in Fifo!Known
    BY OnceKept DEF Enqueue, Take, Descriptors
  <1>3. \A t \in Threads : serving'[t] = NoFd => pc'[t] = "idle"
    <2>1. CASE Enqueue
      BY <2>1, EnqueueShape DEF Enqueue, Descriptors
    <2>2. ASSUME NEW u \in Threads, Take(u) PROVE \A t \in Threads : serving'[t] = NoFd => pc'[t] = "idle"
      BY <2>2, DequeueShape, QueueTypes DEF Take, Goes, Descriptors, Types
    <2> QED BY <2>1, <2>2
  <1> QED BY <1>1, <1>2, <1>3 DEF Descriptors

LEMMA DescriptorsConnect ==
  ASSUME Types, Descriptors, NEW t \in Threads, Connect(t)
  PROVE  Descriptors'
  <1> DEFINE f == Lowest(Free)
  <1>1. /\ f \in Free /\ clientfd' = [clientfd EXCEPT ![t] = f] /\ fds' = [fds EXCEPT ![f] = Server]
        /\ UNCHANGED <<accepted, waiting, serving, request, ended>>
        /\ pc[t] = "connect" /\ pc' = [pc EXCEPT ![t] = "send"]
    BY LowestIsFree DEF Connect, Goes, queueVars, clientVars
  <1> HIDE DEF f
  <1>2. f \in Fds /\ fds[f] = Closed /\ \A g \in Fds : fds'[g] = IF g = f THEN Server ELSE fds[g]
    BY <1>1 DEF Free, Types
  <1>3. Fifo!GivenOnce' /\ Fifo!Known' = Fifo!Known
    BY <1>1 DEF Fifo!GivenOnce, Fifo!Known, Descriptors
  <1>4. \A g \in Fds : fds'[g] \in Conns \/ fds[g] \in Conns => fds'[g] = fds[g]
    BY <1>2, NamesAssumption
  <1>5. \A u \in Threads : clientfd'[u] = IF u = t THEN f ELSE clientfd[u]
    BY <1>1 DEF Types
  <1>6. \A u \in Threads : clientfd[u] # NoFd => clientfd[u] \in Fds /\ clientfd[u] # f
    BY <1>2, NamesAssumption DEF Types, Descriptors
  <1>7. \A u \in Threads : clientfd'[u] # NoFd =>
          fds'[clientfd'[u]] = Server /\ \A s \in Threads \ {u} : clientfd'[s] # clientfd'[u]
    BY <1>2, <1>5, <1>6, BoundsAssumption, ZenonT(60) DEF Descriptors
  <1>8. \A u \in Threads : serving'[u] = NoFd => pc'[u] = "idle"
    BY <1>1 DEF Descriptors, Types
  <1>9. \A d \in Conns : (\E g \in Fds : fds'[g] = d) <=> \E g \in Fds : fds[g] = d
    BY <1>4
  <1>10. \A g \in Fds : fds'[g] \in Conns <=> g \in Fifo!Known'
    BY <1>3, <1>4 DEF Descriptors
  <1>11. \A g, h \in Fds : fds'[g] \in Conns /\ fds'[g] = fds'[h] => g = h
    BY <1>4 DEF Descriptors
  <1>12. /\ \A c \in Conns : (\E g \in Fds : fds'[g] = c) <=> request'[c] # NoRequest /\ c \notin ended'
         /\ \A c \in ended' : request'[c] # NoRequest
         /\ \E n \in 0..MaxConns : {d \in Conns : request'[d] # NoRequest} = 1..n
    BY <1>1, <1>9 DEF Descriptors
  <1> QED BY <1>3, <1>7, <1>8, <1>10, <1>11, <1>12 DEF Descriptors

LEMMA DescriptorsClose ==
  ASSUME Types, Descriptors, NEW t \in Threads, Close(t)
  PROVE  Descriptors'
  <1> DEFINE f == serving[t]
             c == Conn(t)
  <1>1. /\ Fifo!Finish(t) /\ fds' = [fds EXCEPT ![f] = Closed] /\ ended' = ended \cup {c}
        /\ serving' = [serving EXCEPT ![t] = NoFd]
        /\ clientfd' = [clientfd EXCEPT ![t] = NoFd] /\ request' = request
        /\ serving[t] # NoFd /\ pc' = [pc EXCEPT ![t] = "idle"]
    BY DEF Close, Goes, Fifo!Finish
  <1>2. f \in Fds /\ c \in Conns /\ fds[f] = c
    BY <1>1, ServedConn
  <1>3. Fifo!GivenOnce' /\ \A g \in Fds : g \in Fifo!Known' <=> g \in Fifo!Known \ {f}
    BY <1>1, OnceKept DEF Descriptors
  <1> HIDE DEF f, c
  <1>4. \A g \in Fds : fds'[g] = IF g = f THEN Closed ELSE fds[g]
    BY <1>1 DEF Types
  <1>5. \A g \in Fds : fds'[g] \in Conns <=> g \in Fifo!Known'
    BY <1>3, <1>4, NamesAssumption DEF Descriptors
  <1>6. \A g, h \in Fds : fds'[g] \in Conns /\ fds'[g] = fds'[h] => g = h
    BY <1>4, NamesAssumption DEF Descriptors
  <1>7. \A d \in Conns : (\E g \in Fds : fds'[g] = d) <=> request'[d] # NoRequest /\ d \notin ended'
    <2>1. \A d \in Conns : (\E g \in Fds : fds'[g] = d) <=> (\E g \in Fds : fds[g] = d) /\ d # c
      BY <1>2, <1>4, NamesAssumption DEF Descriptors
    <2> QED BY <1>1, <2>1 DEF Descriptors
  <1>8. \A d \in ended' : request'[d] # NoRequest
    BY <1>1, <1>2 DEF Descriptors
  <1>9. \E n \in 0..MaxConns : {d \in Conns : request'[d] # NoRequest} = 1..n
    BY <1>1 DEF Descriptors
  <1>10. \A u \in Threads : clientfd'[u] = IF u = t THEN NoFd ELSE clientfd[u]
    BY <1>1 DEF Types
  <1>11. \A u \in Threads : clientfd[u] # NoFd => clientfd[u] \in Fds /\ clientfd[u] # f
    BY <1>2, NamesAssumption DEF Types, Descriptors
  <1>12. \A u \in Threads : clientfd'[u] # NoFd =>
           fds'[clientfd'[u]] = Server /\ \A s \in Threads \ {u} : clientfd'[s] # clientfd'[u]
    BY <1>4, <1>10, <1>11 DEF Descriptors
  <1>13. \A u \in Threads : serving'[u] = NoFd => pc'[u] = "idle"
    BY <1>1 DEF Descriptors, Types
  <1> QED BY <1>3, <1>5, <1>6, <1>7, <1>8, <1>9, <1>12, <1>13 DEF Descriptors

LEMMA DescriptorsNext == Types /\ Descriptors /\ [Next]_vars => Descriptors'
  <1> SUFFICES ASSUME Types, Descriptors, [Next]_vars PROVE Descriptors'
    OBVIOUS
  <1>1. ASSUME NEW t \in Threads, Works(t) PROVE Descriptors'
    <2> USE DEF Goes, queueVars, clientVars, respVars
    <2>1. ASSUME AcceptLine(t) \/ Hit(t) \/ SendCached(t) \/ (\E n \in Lens : SendRequest(t, n))
                 \/ Relay(t) \/ Insert(t)
          PROVE  Descriptors'
      <3>1. UNCHANGED <<fds, accepted, waiting, serving, request, ended, clientfd>>
        BY <2>1 DEF AcceptLine, Hit, SendCached, SendRequest, Relay, Insert
      <3>2. pc[t] # "idle" /\ \E l : pc' = [pc EXCEPT ![t] = l]
        BY <2>1 DEF AcceptLine, Hit, SendCached, SendRequest, Relay, Insert
      <3>3. \A u \in Threads : serving[u] = NoFd => pc'[u] = pc[u]
        BY <3>2 DEF Descriptors, Types
      <3> QED BY <3>1, <3>3, DescriptorsSame
    <2> QED BY <1>1, <2>1, DescriptorsQueue, DescriptorsConnect, DescriptorsClose DEF Works
  <1>2. ASSUME NEW t \in Threads, Plain(t) PROVE Descriptors'
    <2>1. PICK m \in Moves : pc[t] = m[1] /\ pc' = [pc EXCEPT ![t] = m[2]]
      BY <1>2 DEF Plain
    <2>2. m[1] # "idle"
      BY DEF Moves
    <2>3. \A u \in Threads : serving[u] = NoFd => pc'[u] = pc[u]
      BY <2>1, <2>2 DEF Descriptors, Types
    <2> QED BY <1>2, <2>3, DescriptorsSame DEF Plain, queueVars, clientVars, respVars
  <1>3. CASE Stops
    BY <1>3, DescriptorsSame DEF Stops, queueVars, clientVars, respVars
  <1> QED BY <1>1, <1>2, <1>3, StepKinds, DescriptorsAccept, DescriptorsQueue

-------------------------------------------------------------------------------
(* The cache and the buffers.                                                 *)

LEMMA BytesProperties ==
  ASSUME NEW k, NEW n \in Nat
  PROVE  /\ Bytes(k, n) \in Seq({<<k, j>> : j \in 1..n}) /\ Len(Bytes(k, n)) = n
         /\ DOMAIN Bytes(k, n) = 1..n /\ \A j \in 1..n : Bytes(k, n)[j] = <<k, j>>
         /\ Bytes(k, n) = <<>> <=> n = 0
  <1> DEFINE S == {<<k, j>> : j \in 1..n}
             b == Bytes(k, n)
  <1>1. DOMAIN b = 1..n /\ \A j \in 1..n : b[j] = <<k, j>>
    BY DEF Bytes
  <1>2. b \in [1..n -> S]
    BY DEF Bytes
  <1> HIDE DEF S, b
  <1>3. b \in Seq(S) /\ Len(b) = n
    BY <1>2
  <1>4. b = <<>> <=> n = 0
    BY <1>3, EmptySeq
  <1> QED BY <1>1, <1>3, <1>4 DEF S, b

\* What is cut off a buffer.
LEMMA CutOfBuffer ==
  ASSUME NEW k, NEW b, b = [j \in 1..MaxObject |-> b[j]], NEW n \in 0..MaxObject,
         \A j \in 1..n : b[j] = <<k, j>>
  PROVE  Len(b) = MaxObject /\ SubSeq(b, 1, n) = Bytes(k, n)
  <1> DEFINE S == {b[j] : j \in 1..MaxObject}
  <1>1. b \in [1..MaxObject -> S]
    OBVIOUS
  <1> HIDE DEF S
  <1>2. b \in Seq(S) /\ Len(b) = MaxObject
    BY <1>1, BoundsAssumption
  <1>3. /\ SubSeq(b, 1, n) \in Seq(S) /\ Len(SubSeq(b, 1, n)) = n
        /\ \A j \in 1..n : SubSeq(b, 1, n)[j] = b[j]
    BY <1>2, CutProperties, ZenonT(60)
  <1>4. SubSeq(b, 1, n) = [j \in 1..n |-> SubSeq(b, 1, n)[j]]
    BY <1>3
  <1> QED BY <1>2, <1>3, <1>4 DEF Bytes

LEMMA BytesGoOn ==
  ASSUME NEW k, NEW m \in Nat, NEW n \in Nat
  PROVE  Bytes(k, m) \o [i \in 1..n |-> <<k, m + i>>] = Bytes(k, m + n)
  <1> DEFINE S == {<<k, j>> : j \in 1..m + n}
             c == [i \in 1..n |-> <<k, m + i>>]
             b == Bytes(k, m)
  <1>1. c \in Seq(S) /\ Len(c) = n /\ \A i \in 1..n : c[i] = <<k, m + i>>
    <2>1. c \in [1..n -> S]
      OBVIOUS
    <2> HIDE DEF S
    <2> QED BY <2>1
  <1>2. b \in Seq(S) /\ Len(b) = m /\ \A i \in 1..m : b[i] = <<k, i>>
    <2>1. b \in [1..m -> S]
      BY DEF Bytes
    <2> HIDE DEF S
    <2>2. b \in Seq(S) /\ Len(b) = m
      BY <2>1
    <2> QED BY <2>2 DEF Bytes
  <1> HIDE DEF S, b, c
  <1>3. /\ b \o c \in Seq(S) /\ Len(b \o c) = m + n
        /\ \A i \in 1..m + n : (b \o c)[i] = IF i <= m THEN b[i] ELSE c[i - m]
    BY <1>1, <1>2, ConcatProperties
  <1>4. \A i \in 1..m + n : (b \o c)[i] = <<k, i>>
    <2> SUFFICES ASSUME NEW i \in 1..m + n PROVE (b \o c)[i] = <<k, i>>
      OBVIOUS
    <2>1. CASE i <= m
      BY <1>2, <1>3, <2>1
    <2>2. CASE i > m
      <3>1. PICK u \in 1..n : u = i - m
        BY <2>2
      <3>2. m + u = i
        BY <3>1
      <3>3. c[u] = <<k, i>>
        BY <3>2 DEF c
      <3>4. (b \o c)[i] = c[u]
        BY <1>3, <2>2, <3>1
      <3> QED BY <3>3, <3>4
    <2>3. i <= m \/ i > m
      OBVIOUS
    <2> HIDE DEF b, c
    <2> QED BY <2>1, <2>2, <2>3
  <1>5. b \o c = [i \in 1..m + n |-> (b \o c)[i]]
    <2>1. b \o c \in [1..Len(b \o c) -> S]
      BY <1>3, LenProperties
    <2> QED BY <1>3, <2>1
  <1> QED BY <1>4, <1>5 DEF Bytes, b, c

\* A step of one thread.
LEMMA ContentsStep ==
  ASSUME Types, Contents, order' \in Seq(Objects), NEW t \in Threads,
         \E l : pc' = [pc EXCEPT ![t] = l],
         key' = key \/ \E k : key' = [key EXCEPT ![t] = k],
         len' = len \/ \E n : len' = [len EXCEPT ![t] = n],
         rest' = rest \/ \E m : rest' = [rest EXCEPT ![t] = m],
         respBuf' = respBuf \/ \E b : respBuf' = [respBuf EXCEPT ![t] = b],
         Holds(pc'[t], key'[t], len'[t], rest'[t], respBuf'[t])
  PROVE  Contents'
  <1>1. /\ key = [u \in Threads |-> key[u]] /\ len = [u \in Threads |-> len[u]]
        /\ rest = [u \in Threads |-> rest[u]] /\ respBuf = [u \in Threads |-> respBuf[u]]
    BY DEF Contents
  <1>2. /\ key' = [u \in Threads |-> key'[u]] /\ \A u \in Threads \ {t} : key'[u] = key[u]
        /\ len' = [u \in Threads |-> len'[u]] /\ \A u \in Threads \ {t} : len'[u] = len[u]
    BY <1>1
  <1>3. /\ rest' = [u \in Threads |-> rest'[u]] /\ \A u \in Threads \ {t} : rest'[u] = rest[u]
        /\ respBuf' = [u \in Threads |-> respBuf'[u]]
        /\ \A u \in Threads \ {t} : respBuf'[u] = respBuf[u]
    BY <1>1
  <1>4. \A u \in Threads \ {t} : pc'[u] = pc[u]
    BY DEF Types
  <1>5. \A u \in Threads : Holds(pc'[u], key'[u], len'[u], rest'[u], respBuf'[u])
    BY <1>2, <1>3, <1>4 DEF Contents
  <1> QED BY <1>2, <1>3, <1>5 DEF Contents

\* What the cache's operations do to its list.
LEMMA UseShape ==
  ASSUME order \in Seq(Objects), NEW i \in DOMAIN order, Cache!Use(i)
  PROVE  /\ i \in 1..Len(order) /\ Len(order) \in Nat /\ order[i] \in Objects
         /\ order' \in Seq(Objects) /\ Len(order') = Len(order)
         /\ order'[1] = order[i]
         /\ \A j \in 1..Len(order) :
              (j < i => order'[j + 1] = order[j]) /\ (j > i => order'[j] = order[j])
  <1>1. i \in 1..Len(order) /\ Len(order) \in Nat /\ order[i] \in Objects
    BY LenProperties, ElementOfSeq
  <1> DEFINE r == RemoveAt(order, i)
  <1>2. order' = <<order[i]>> \o r
    BY DEF Cache!Use, Cache!RemoveAt, RemoveAt
  <1>3. /\ r \in Seq(Objects) /\ Len(r) = Len(order) - 1
        /\ \A j \in 1..Len(order) - 1 : r[j] = IF j < i THEN order[j] ELSE order[j + 1]
    BY <1>1, RemoveAtProperties
  <1> HIDE DEF r
  <1>4. /\ order' \in Seq(Objects) /\ Len(order') = Len(r) + 1 /\ order'[1] = order[i]
        /\ \A j \in 1..Len(r) : order'[j + 1] = r[j]
    BY <1>1, <1>2, <1>3, ConsProperties
  <1>5. ASSUME NEW j \in 1..Len(order), j < i PROVE order'[j + 1] = order[j]
    <2>1. j \in 1..Len(order) - 1
      BY <1>1, <1>5
    <2> QED BY <1>3, <1>4, <1>5, <2>1
  <1>6. ASSUME NEW j \in 1..Len(order), j > i PROVE order'[j] = order[j]
    <2>1. PICK k \in 1..Len(order) - 1 : k + 1 = j
      BY <1>1, <1>6
    <2>2. order'[k + 1] = r[k] /\ r[k] = order[k + 1]
      BY <1>1, <1>3, <1>4, <1>6, <2>1
    <2> QED BY <2>1, <2>2
  <1> QED BY <1>1, <1>3, <1>4, <1>5, <1>6

LEMMA TotalIsSum == Cache!Total = LenSum(order, DOMAIN order)
  BY DEF Cache!Total, LenSum, Cache!MapThenSumSet, MapThenSumSet, Cache!MapThenFoldSet, MapThenFoldSet

LEMMA ObjectProperties ==
  ASSUME NEW o \in Objects
  PROVE  o.key \in Keys /\ o.len \in 0..MaxObject /\ o.len \in Nat /\ o.body = Bytes(o.key, o.len)
  BY BoundsAssumption DEF Objects

LEMMA OrderLens ==
  ASSUME NEW q \in Seq(Objects)
  PROVE  /\ Len(q) \in Nat /\ DOMAIN q = 1..Len(q) /\ IsFiniteSet(1..Len(q))
         /\ \A i \in 1..Len(q) : q[i] \in Objects /\ q[i].len \in Nat
  <1>1. Len(q) \in Nat /\ DOMAIN q = 1..Len(q) /\ \A i \in 1..Len(q) : q[i] \in Objects
    BY LenProperties, ElementOfSeq
  <1> QED BY <1>1, ObjectProperties, FS_Interval

\* A use leaves the responses, and so their sum, what they were.
LEMMA UseKeepsTotal ==
  ASSUME order \in Seq(Objects), NEW i \in DOMAIN order, Cache!Use(i)
  PROVE  Cache!Total' = Cache!Total
  <1> DEFINE n == Len(order)
             r == [j \in 1..n |-> IF j = i THEN 1 ELSE IF j < i THEN j + 1 ELSE j]
  <1>1. n \in Nat /\ i \in 1..n /\ DOMAIN order = 1..n /\ DOMAIN order' = 1..n
    BY UseShape, OrderLens
  <1>2. \A j \in 1..n : order[j].len \in Nat
    BY OrderLens
  <1>3. ASSUME NEW j \in 1..n PROVE order'[r[j]] = order[j]
    BY <1>1, <1>3, UseShape
  <1>4. \A j, k \in 1..n : r[j] = r[k] => j = k
    BY <1>1
  <1>5. {r[j] : j \in 1..n} = 1..n
    <2>1. \A j \in 1..n : r[j] \in 1..n
      BY <1>1
    <2>2. ASSUME NEW k \in 1..n PROVE \E j \in 1..n : r[j] = k
      <3>1. CASE k = 1
        BY <1>1, <3>1
      <3>2. CASE k > i
        BY <1>1, <3>2
      <3>3. CASE k # 1 /\ k <= i
        <4>1. PICK j \in 1..n : j + 1 = k
          BY <1>1, <3>3
        <4> QED BY <1>1, <3>3, <4>1
      <3> QED BY <1>1, <3>1, <3>2, <3>3
    <2> HIDE DEF r
    <2> QED BY <2>1, <2>2
  <1> HIDE DEF r
  <1>6. \A j \in 1..n : order[j].len \in Nat /\ order'[r[j]].len = order[j].len
    BY <1>2, <1>3
  <1>7. LenSum(order', {r[j] : j \in 1..n}) = LenSum(order, 1..n)
    <2>1. PICK g : g = order'
      OBVIOUS
    <2>2. IsFiniteSet(1..n)
      BY <1>1, FS_Interval
    <2>3. \A j \in 1..n : order[j].len \in Nat /\ g[r[j]].len = order[j].len
      BY <1>6, <2>1
    <2>4. LenSum(g, {r[j] : j \in 1..n}) = LenSum(order, 1..n)
      BY <1>4, <2>2, <2>3, LenSumRenamed, SMTT(60)
    <2> QED BY <2>1, <2>4
  <1>8. Cache!Total' = LenSum(order', DOMAIN order')
    BY DEF Cache!Total, LenSum, Cache!MapThenSumSet, MapThenSumSet, Cache!MapThenFoldSet, MapThenFoldSet
  <1> QED BY <1>1, <1>5, <1>7, <1>8, TotalIsSum

\* As many responses are dropped as it takes for another of length n to fit.
LEMMA TrimmedShape ==
  ASSUME order \in Seq(Objects), NEW n \in 0..MaxObject
  PROVE  \E m \in 0..Len(order) :
           /\ Trimmed(n) = SubSeq(order, m + 1, Len(order))
           /\ LenSum(order, m + 1..Len(order)) + n <= MaxCache
  <1> DEFINE T == {j \in 0..Len(order) : SumFrom(j + 1) + n <= MaxCache}
             m == Min(T)
  <1>1. \A j : SumFrom(j) = LenSum(order, j..Len(order))
    BY DEF SumFrom, LenSum
  <1>2. Len(order) \in Nat
    BY OrderLens
  <1>3. Len(order) \in T
    <2>1. Len(order) + 1..Len(order) = {}
      BY <1>2
    <2>2. SumFrom(Len(order) + 1) = 0
      BY <1>1, <2>1, LenSumEmpty
    <2>3. n <= MaxCache
      BY BoundsAssumption
    <2> QED BY <1>2, <2>2, <2>3
  <1>4. m \in T
    <2>1. T \subseteq Nat /\ T # {}
      BY <1>2, <1>3
    <2> HIDE DEF T
    <2>2. \E j \in T : \A k \in T : j <= k
      BY <2>1, SmallestNat
    <2> QED BY <2>2 DEF Min
  <1>5. Trimmed(n) = SubSeq(order, 1 + m, Len(order))
    BY DEF Trimmed
  <1> HIDE DEF m
  <1>6. m \in 0..Len(order) /\ SumFrom(m + 1) + n <= MaxCache
    BY <1>4
  <1>7. 1 + m = m + 1
    BY <1>2, <1>6
  <1> QED BY <1>1, <1>5, <1>6, <1>7

LEMMA SumOfInserted ==
  ASSUME NEW q \in Seq(Objects), NEW m \in 0..Len(q), NEW o \in Objects
  PROVE  /\ <<o>> \o SubSeq(q, m + 1, Len(q)) \in Seq(Objects)
         /\ LET g == <<o>> \o SubSeq(q, m + 1, Len(q))
            IN  LenSum(g, DOMAIN g) = LenSum(q, m + 1..Len(q)) + o.len
  <1> DEFINE c == SubSeq(q, m + 1, Len(q))
             g == <<o>> \o c
  <1>1. Len(q) \in Nat /\ m \in Nat /\ DOMAIN q = 1..Len(q)
    BY OrderLens
  <1>2. m <= Len(q)
    BY <1>1
  <1> DEFINE n == Len(q)
  <1>3. c \in Seq(Objects) /\ Len(c) = n - m /\ \A i \in 1..n - m : c[i] = q[m + i]
    BY <1>2, CutProperties
  <1> HIDE DEF c
  <1>4. /\ g \in Seq(Objects) /\ Len(g) = n - m + 1 /\ g[1] = o
        /\ \A i \in 1..n - m : g[i + 1] = c[i]
    <2>1. /\ g \in Seq(Objects) /\ Len(g) = Len(c) + 1 /\ g[1] = o
          /\ \A i \in 1..Len(c) : g[i + 1] = c[i]
      BY <1>3, ConsProperties, ZenonT(60)
    <2>2. Len(c) = n - m
      BY <1>3
    <2> HIDE DEF g, n
    <2> QED BY <2>1, <2>2
  <1> HIDE DEF g
  <1>5. DOMAIN g = 1..n - m + 1 /\ \A i \in 1..n - m + 1 : g[i].len \in Nat
    BY <1>4, OrderLens
  <1> DEFINE r == [j \in m + 1..n |-> j - m + 1]
  <1>6. Moved(q, m + 1..n, g, 2..n - m + 1, r)
    <2>1. ASSUME NEW j \in m + 1..n PROVE q[j].len \in Nat /\ g[r[j]].len = q[j].len
      <3>1. PICK i \in 1..n - m : m + i = j
        <4>1. j - m \in 1..n - m /\ m + (j - m) = j
          BY <1>1
        <4> QED BY <4>1
      <3>2. r[j] = i + 1
        BY <1>1, <3>1
      <3>3. g[i + 1] = q[m + i]
        BY <1>3, <1>4
      <3>4. j \in 1..n
        BY <1>1
      <3> QED BY <3>1, <3>2, <3>3, <3>4, OrderLens
    <2>2. \A j, k \in m + 1..n : r[j] = r[k] => j = k
      BY <1>1
    <2>3. 2..n - m + 1 = {r[j] : j \in m + 1..n}
      <3>1. \A j \in m + 1..n : r[j] \in 2..n - m + 1
        BY <1>1
      <3>2. ASSUME NEW k \in 2..n - m + 1 PROVE \E j \in m + 1..n : r[j] = k
        <4>1. k + m - 1 \in m + 1..n /\ (k + m - 1) - m + 1 = k
          BY <1>1
        <4> QED BY <4>1
      <3> HIDE DEF r
      <3> QED BY <3>1, <3>2
    <2> HIDE DEF r
    <2> QED BY <2>1, <2>2, <2>3 DEF Moved
  <1>7. LenSum(g, 2..n - m + 1) = LenSum(q, m + 1..n)
    <2>1. IsFiniteSet(m + 1..n)
      BY <1>1, FS_Interval
    <2> HIDE DEF r
    <2> QED BY <1>6, <2>1, LenSumMoved
  <1>8. LenSum(g, 1..n - m + 1) = LenSum(g, 2..n - m + 1) + o.len
    <2>1. PICK k \in Nat : k = n - m + 1 /\ k >= 1
      <3>1. n - m + 1 \in Nat /\ n - m + 1 >= 1
        BY <1>1, <1>2
      <3> QED BY <3>1
    <2>2. IsFiniteSet(2..k) /\ 1 \notin 2..k /\ (2..k) \cup {1} = 1..k
      <3>1. IsFiniteSet(2..k)
        BY FS_Interval
      <3>2. (2..k) \cup {1} = 1..k
        BY <2>1
      <3> QED BY <3>1, <3>2
    <2>3. \A i \in (2..k) \cup {1} : g[i].len \in Nat
      BY <1>5, <2>1, <2>2
    <2> DEFINE K == 2..k
    <2> HIDE DEF K
    <2>4. LenSum(g, K \cup {1}) = LenSum(g, K) + g[1].len
      BY <2>2, <2>3, LenSumAdd DEF K
    <2> QED BY <1>4, <2>1, <2>2, <2>4 DEF K
  <1> QED BY <1>2, <1>4, <1>5, <1>7, <1>8 DEF c, g

LEMMA InsertShape ==
  ASSUME order \in Seq(Objects), NEW m \in 0..Len(order), NEW o \in Objects,
         order' = <<o>> \o SubSeq(order, m + 1, Len(order)),
         LenSum(order, m + 1..Len(order)) + o.len <= MaxCache
  PROVE  order' \in Seq(Objects) /\ Cache!Total' <= MaxCache
  <1>1. Cache!Total' = LenSum(order', DOMAIN order')
    BY DEF Cache!Total, LenSum, Cache!MapThenSumSet, MapThenSumSet, Cache!MapThenFoldSet, MapThenFoldSet
  <1>2. order' \in Seq(Objects)
        /\ LenSum(order', DOMAIN order') = LenSum(order, m + 1..Len(order)) + o.len
    BY SumOfInserted
  <1> QED BY <1>1, <1>2

\* A thread's part of Contents.
LEMMA ThreadHolds ==
  ASSUME Types, Contents, NEW t \in Threads
  PROVE  /\ Holds(pc[t], key[t], len[t], rest[t], respBuf[t])
         /\ DOMAIN key = Threads /\ DOMAIN len = Threads /\ DOMAIN rest = Threads
         /\ DOMAIN respBuf = Threads /\ pc \in [Threads -> Labels]
  BY DEF Contents, Types

LEMMA ContentsHit ==
  ASSUME Types, Contents, NEW t \in Threads, Hit(t)
  PROVE  Contents'
  <1>1. PICK i \in DOMAIN order :
          /\ order[i].key = key[t] /\ Goes(t, "lookup", "cached") /\ Cache!Use(i)
          /\ len' = [len EXCEPT ![t] = order[i].len]
          /\ respBuf' = [respBuf EXCEPT ![t] = [j \in DOMAIN @ |->
               IF j <= order[i].len THEN order[i].body[j] ELSE @[j]]]
          /\ UNCHANGED <<key, rest>>
    BY DEF Hit, reqVars
  <1>2. pc[t] = "lookup" /\ pc' = [pc EXCEPT ![t] = "cached"]
    BY <1>1 DEF Goes
  <1>3. order' \in Seq(Objects) /\ order[i] \in Objects
    BY <1>1, UseShape DEF Contents
  <1> DEFINE n == order[i].len
             b == [j \in 1..MaxObject |-> IF j <= n THEN order[i].body[j] ELSE respBuf[t][j]]
  <1>4. key[t] \in Keys /\ n \in 0..MaxObject /\ order[i].body = Bytes(key[t], n)
    BY <1>1, <1>3, ObjectProperties
  <1>5. DOMAIN respBuf[t] = 1..MaxObject
    BY ThreadHolds DEF Holds
  <1>6. respBuf' = [respBuf EXCEPT ![t] = b] /\ len' = [len EXCEPT ![t] = n]
    BY <1>1, <1>5
  <1>7. Holds("cached", key[t], n, rest[t], b)
    <2>1. \A j \in 1..n : b[j] = <<key[t], j>>
      <3>1. \A j \in 1..n : j \in 1..MaxObject /\ j <= n
        BY <1>4, BoundsAssumption
      <3>2. \A j \in 1..n : order[i].body[j] = <<key[t], j>>
        <4>1. n \in Nat
          BY <1>4, BoundsAssumption
        <4> HIDE DEF n
        <4>2. \A j \in 1..n : Bytes(key[t], n)[j] = <<key[t], j>>
          BY <4>1, BytesProperties
        <4> QED BY <1>4, <4>2
      <3> HIDE DEF n
      <3> QED BY <3>1, <3>2
    <2>2. rest[t] \in Nat
      BY ThreadHolds DEF Holds
    <2>3. n \in Nat /\ n <= MaxObject
      BY <1>4, BoundsAssumption
    <2>4. b = [j \in 1..MaxObject |-> b[j]]
      OBVIOUS
    <2> HIDE DEF n, b
    <2> QED BY <1>4, <2>1, <2>2, <2>3, <2>4 DEF Holds
  <1> HIDE DEF n, b
  <1>8. pc'[t] = "cached" /\ key'[t] = key[t] /\ len'[t] = n /\ rest'[t] = rest[t] /\ respBuf'[t] = b
    BY <1>1, <1>2, <1>6, ThreadHolds
  <1> QED BY <1>1, <1>2, <1>3, <1>6, <1>7, <1>8, ContentsStep

\* The part of the response that is read next.
LEMMA ChunkProperties ==
  ASSUME Types, Contents, NEW t \in Threads
  PROVE  Chunk(t) \in Nat /\ Chunk(t) <= rest[t] /\ len[t] \in Nat /\ rest[t] \in Nat
  <1>1. len[t] \in Nat /\ rest[t] \in Nat
    BY ThreadHolds DEF Holds
  <1>2. Chunk(t) = IF MaxLine <= rest[t] THEN MaxLine ELSE rest[t]
    BY <1>1, BoundsAssumption, MinOfTwo DEF Chunk
  <1> QED BY <1>1, <1>2, BoundsAssumption

LEMMA ContentsRelay ==
  ASSUME Types, Contents, NEW t \in Threads, Relay(t)
  PROVE  Contents'
  <1> DEFINE n == Chunk(t)
             k == key[t]
             bytes == [i \in 1..n |-> <<k, len[t] + i>>]
             b == IF len[t] + n <= MaxObject
                  THEN [j \in 1..MaxObject |->
                          IF j \in len[t] + 1..len[t] + n THEN bytes[j - len[t]] ELSE respBuf[t][j]]
                  ELSE respBuf[t]
             m == len[t] + n
             r == rest[t] - n
  <1>1. n \in Nat /\ n <= rest[t] /\ len[t] \in Nat /\ rest[t] \in Nat
    BY ChunkProperties
  <1>2. Holds(pc[t], k, len[t], rest[t], respBuf[t]) /\ DOMAIN respBuf[t] = 1..MaxObject
    BY ThreadHolds DEF Holds
  <1>3. /\ pc[t] = "relay" /\ pc' = [pc EXCEPT ![t] = "relay"] /\ UNCHANGED <<order, key>>
        /\ len' = [len EXCEPT ![t] = m] /\ rest' = [rest EXCEPT ![t] = r]
    BY DEF Relay, Goes, reqVars
  <1>4. respBuf' = [respBuf EXCEPT ![t] = b]
    BY <1>2 DEF Relay
  <1>5. Holds("relay", k, m, r, b)
    <2>1. m \in Nat /\ r \in Nat
      BY <1>1
    <2>2. b = [j \in 1..MaxObject |-> b[j]]
      <3>1. CASE len[t] + n <= MaxObject
        BY <3>1
      <3>2. CASE ~(len[t] + n <= MaxObject)
        <4>1. b = respBuf[t]
          BY <3>2
        <4>2. respBuf[t] = [j \in 1..MaxObject |-> respBuf[t][j]]
          BY <1>2 DEF Holds
        <4> HIDE DEF b
        <4> QED BY <4>1, <4>2
      <3> QED BY <3>1, <3>2
    <2>3. ASSUME m <= MaxObject, NEW j \in 1..m PROVE b[j] = <<k, j>>
      <3>1. j \in 1..MaxObject
        BY <1>1, <2>3, BoundsAssumption
      <3>2. CASE j <= len[t]
        <4>1. respBuf[t][j] = <<k, j>>
          <5>1. len[t] <= MaxObject /\ j \in 1..len[t]
            BY <1>1, <2>3, <3>2, BoundsAssumption
          <5>2. len[t] <= MaxObject => \A i \in 1..len[t] : respBuf[t][i] = <<k, i>>
            BY <1>2 DEF Holds
          <5> QED BY <5>1, <5>2
        <4>2. j \notin len[t] + 1..len[t] + n
          BY <1>1, <3>2
        <4> QED BY <2>3, <3>1, <4>1, <4>2
      <3>3. CASE j > len[t]
        <4>1. j \in len[t] + 1..len[t] + n
          BY <1>1, <2>3, <3>3
        <4>2. PICK i \in 1..n : i = j - len[t] /\ len[t] + i = j
          BY <1>1, <4>1
        <4>3. bytes[i] = <<k, j>>
          BY <4>2
        <4> HIDE DEF bytes
        <4> QED BY <2>3, <3>1, <4>1, <4>2, <4>3
      <3>4. j <= len[t] \/ j > len[t]
        BY <1>1, <2>3
      <3> HIDE DEF b
      <3> QED BY <3>2, <3>3, <3>4
    <2>4. k \in Keys
      BY <1>2, <1>3 DEF Holds
    <2> HIDE DEF b, m, r, k
    <2> QED BY <2>1, <2>2, <2>3, <2>4 DEF Holds
  <1> HIDE DEF b, m, r, k
  <1>6. pc'[t] = "relay" /\ key'[t] = k /\ len'[t] = m /\ rest'[t] = r /\ respBuf'[t] = b
    BY <1>3, <1>4, ThreadHolds DEF k
  <1> QED BY <1>3, <1>4, <1>5, <1>6, ContentsStep DEF Contents

LEMMA InsertedObject ==
  ASSUME Types, Contents, NEW t \in Threads, Insert(t)
  PROVE  \E o \in Objects, m \in 0..Len(order) :
           /\ order' = <<o>> \o SubSeq(order, m + 1, Len(order))
           /\ LenSum(order, m + 1..Len(order)) + o.len <= MaxCache
  <1> DEFINE b == SubSeq(respBuf[t], 1, len[t])
             o == [key |-> key[t], len |-> len[t], body |-> b]
  <1>1. pc[t] = "insert" /\ len[t] <= MaxObject /\ order' = <<o>> \o Trimmed(len[t])
    BY DEF Insert, Goes
  <1>2. Holds(pc[t], key[t], len[t], rest[t], respBuf[t])
    BY ThreadHolds
  <1>3. key[t] \in Keys /\ len[t] \in 0..MaxObject
    BY <1>1, <1>2, BoundsAssumption DEF Holds
  <1>4. b = Bytes(key[t], len[t])
    <2>1. /\ respBuf[t] = [j \in 1..MaxObject |-> respBuf[t][j]]
          /\ \A j \in 1..len[t] : respBuf[t][j] = <<key[t], j>>
      BY <1>1, <1>2 DEF Holds
    <2> QED BY <1>3, <2>1, CutOfBuffer
  <1>5. o \in Objects
    <2>1. PICK k \in Keys, n \in 0..MaxObject : k = key[t] /\ n = len[t]
      BY <1>3
    <2>2. o = [key |-> k, len |-> n, body |-> Bytes(k, n)]
      BY <1>4, <2>1
    <2> HIDE DEF o
    <2> QED BY <2>2 DEF Objects
  <1>6. PICK m \in 0..Len(order) :
          /\ Trimmed(len[t]) = SubSeq(order, m + 1, Len(order))
          /\ LenSum(order, m + 1..Len(order)) + len[t] <= MaxCache
    BY <1>3, TrimmedShape DEF Contents
  <1>7. o.len = len[t]
    OBVIOUS
  <1> HIDE DEF o
  <1> QED BY <1>1, <1>5, <1>6, <1>7

LEMMA ContentsInsert ==
  ASSUME Types, Contents, NEW t \in Threads, Insert(t)
  PROVE  Contents' /\ Fits'
  <1>1. order' \in Seq(Objects) /\ Cache!Total' <= MaxCache
    BY InsertedObject, InsertShape DEF Contents
  <1>2. pc[t] = "insert" /\ pc' = [pc EXCEPT ![t] = "close"]
        /\ UNCHANGED <<key, len, rest, respBuf>>
    BY DEF Insert, Goes, reqVars, respVars
  <1>3. Holds("close", key[t], len[t], rest[t], respBuf[t])
    BY <1>2, ThreadHolds DEF Holds
  <1>4. pc'[t] = "close"
    BY <1>2, ThreadHolds
  <1> QED BY <1>1, <1>2, <1>3, <1>4, ContentsStep DEF Fits

LEMMA ContentsNext == Types /\ Descriptors /\ Contents /\ [Next]_vars => Contents'
  <1> SUFFICES ASSUME Types, Descriptors, Contents, [Next]_vars PROVE Contents'
    OBVIOUS
  <1>1. ASSUME UNCHANGED <<order, pc, key, len, rest, respBuf>> PROVE Contents'
    BY <1>1 DEF Contents
  <1>2. ASSUME (\E r \in Requests : Accept(r)) \/ Enqueue \/ Stops PROVE Contents'
    BY <1>1, <1>2 DEF Accept, Enqueue, Stops, reqVars, respVars
  <1>3. ASSUME NEW t \in Threads, Works(t) PROVE Contents'
    <2>0. Holds(pc[t], key[t], len[t], rest[t], respBuf[t])
      BY ThreadHolds
    <2>1. ASSUME NEW l, pc' = [pc EXCEPT ![t] = l], UNCHANGED <<order, key, len, rest, respBuf>>,
                 Holds(l, key[t], len[t], rest[t], respBuf[t])
          PROVE  Contents'
      <3>1. pc'[t] = l
        BY <2>1, ThreadHolds
      <3> QED BY <2>1, <3>1, ContentsStep DEF Contents
    <2>2. CASE Take(t)
      <3>1. pc[t] = "idle" /\ pc' = [pc EXCEPT ![t] = "line"]
            /\ UNCHANGED <<order, key, len, rest, respBuf>>
        BY <2>2 DEF Take, Goes, reqVars, respVars
      <3>2. Holds("line", key[t], len[t], rest[t], respBuf[t])
        BY <2>0, <3>1 DEF Holds
      <3> QED BY <2>1, <3>1, <3>2
    <2>3. CASE AcceptLine(t)
      <3>1. PICK l \in Lines(t) : ParseLine(l) # Refused /\ key' = [key EXCEPT ![t] = ParseLine(l)]
        BY <2>3 DEF AcceptLine
      <3>2. pc[t] = "line" /\ pc' = [pc EXCEPT ![t] = "first"]
            /\ UNCHANGED <<order, len, rest, respBuf>>
        BY <2>3 DEF AcceptLine, Goes, respVars
      <3>3. ParseLine(l) \in Keys
        <4>1. Client(t) \in Requests
          BY <3>2, ServedRequest
        <4>2. \E r \in Requests : r.line # Garbage /\ l = r.line
          BY <3>1, <4>1 DEF Lines
        <4> QED BY <3>1, <4>2 DEF Keys
      <3>4. Holds("first", ParseLine(l), len[t], rest[t], respBuf[t])
        BY <2>0, <3>2, <3>3 DEF Holds
      <3>5. pc'[t] = "first" /\ key'[t] = ParseLine(l)
        BY <3>1, <3>2, ThreadHolds
      <3> QED BY <3>1, <3>2, <3>4, <3>5, ContentsStep DEF Contents
    <2>4. CASE SendCached(t)
      <3>1. pc[t] = "cached" /\ pc' = [pc EXCEPT ![t] = "close"]
            /\ UNCHANGED <<order, key, len, rest, respBuf>>
        BY <2>4 DEF SendCached, Goes, reqVars, respVars
      <3>2. Holds("close", key[t], len[t], rest[t], respBuf[t])
        BY <2>0, <3>1 DEF Holds
      <3> QED BY <2>1, <3>1, <3>2
    <2>5. CASE Connect(t)
      <3>1. pc[t] = "connect" /\ pc' = [pc EXCEPT ![t] = "send"]
            /\ UNCHANGED <<order, key, len, rest, respBuf>>
        BY <2>5 DEF Connect, Goes, reqVars
      <3>2. Holds("send", key[t], len[t], rest[t], respBuf[t])
        BY <2>0, <3>1 DEF Holds
      <3> QED BY <2>1, <3>1, <3>2
    <2>6. ASSUME NEW n \in Lens, SendRequest(t, n) PROVE Contents'
      <3>1. pc[t] = "send" /\ pc' = [pc EXCEPT ![t] = "relay"] /\ rest' = [rest EXCEPT ![t] = n]
            /\ UNCHANGED <<order, key, len, respBuf>>
        BY <2>6 DEF SendRequest, Goes, reqVars
      <3>2. Holds("relay", key[t], len[t], n, respBuf[t])
        BY <2>0, <3>1, BoundsAssumption DEF Holds
      <3>3. pc'[t] = "relay" /\ rest'[t] = n
        BY <3>1, ThreadHolds
      <3> QED BY <3>1, <3>2, <3>3, ContentsStep DEF Contents
    <2>7. CASE Close(t)
      <3>1. /\ pc' = [pc EXCEPT ![t] = "idle"] /\ order' = order
            /\ key' = [key EXCEPT ![t] = Refused] /\ len' = [len EXCEPT ![t] = 0]
            /\ rest' = [rest EXCEPT ![t] = 0] /\ respBuf' = [respBuf EXCEPT ![t] = EmptyBuf]
        BY <2>7 DEF Close, Goes
      <3>2. Holds("idle", Refused, 0, 0, EmptyBuf)
        BY DEF Holds, EmptyBuf
      <3>3. pc'[t] = "idle" /\ key'[t] = Refused /\ len'[t] = 0 /\ rest'[t] = 0 /\ respBuf'[t] = EmptyBuf
        BY <3>1, ThreadHolds
      <3> QED BY <3>1, <3>2, <3>3, ContentsStep DEF Contents
    <2> QED BY <1>3, <2>2, <2>3, <2>4, <2>5, <2>6, <2>7, ContentsHit, ContentsRelay, ContentsInsert
            DEF Works
  <1>4. ASSUME NEW t \in Threads, Plain(t) PROVE Contents'
    <2>1. PICK m \in Moves : pc[t] = m[1] /\ pc' = [pc EXCEPT ![t] = m[2]]
      BY <1>4 DEF Plain
    <2>2. UNCHANGED <<order, key, len, rest, respBuf>>
      BY <1>4 DEF Plain, respVars
    <2>3. Holds(m[2], key[t], len[t], rest[t], respBuf[t])
      <3>1. Holds(m[1], key[t], len[t], rest[t], respBuf[t])
        BY <2>1, ThreadHolds
      <3>2. /\ m[1] \notin {"idle", "cached", "close"} /\ m[2] \notin {"cached", "idle", "line", "first"}
            /\ m[1] = "line" => m[2] = "close"
            /\ m[1] \in {"relay", "insert"} => m[2] \in {"insert", "close"}
        BY DEF Moves
      <3> QED BY <3>1, <3>2 DEF Holds
    <2>4. pc'[t] = m[2]
      BY <2>1, ThreadHolds
    <2> QED BY <2>1, <2>2, <2>3, <2>4, ContentsStep DEF Contents
  <1> QED BY <1>2, <1>3, <1>4, StepKinds

LEMMA FitsNext == Types /\ Contents /\ Fits /\ [Next]_vars => Fits'
  <1> SUFFICES ASSUME Types, Contents, Fits, [Next]_vars PROVE Fits'
    OBVIOUS
  <1>1. order' = order => Fits'
    <2>1. Cache!Total' = LenSum(order', DOMAIN order')
      BY DEF Cache!Total, LenSum, Cache!MapThenSumSet, MapThenSumSet, Cache!MapThenFoldSet, MapThenFoldSet
    <2> QED BY <2>1, TotalIsSum DEF Fits
  <1>2. ASSUME NEW t \in Threads, Hit(t) PROVE Fits'
    <2>1. PICK i \in DOMAIN order : Cache!Use(i)
      BY <1>2 DEF Hit
    <2> QED BY <2>1, UseKeepsTotal DEF Fits, Contents
  <1>3. ASSUME NEW t \in Threads, Works(t) PROVE Fits'
    BY <1>1, <1>2, <1>3, ContentsInsert
       DEF Works, Take, AcceptLine, SendCached, Connect, SendRequest, Relay, Close
  <1> QED BY <1>1, <1>3, StepKinds DEF Accept, Enqueue, Stops, Plain

-------------------------------------------------------------------------------
(* What clients are sent.                                                     *)

\* A thread at l whose client has been sent s, its key and length being k and n.
Sent(l, s, k, n) == /\ l \notin {"idle", "relay", "insert", "close"} => s = <<>>
                    /\ l = "relay" => s = Bytes(k, n)

\* A step of a thread that leaves the descriptors and their holders alone.
LEMMA AnswersStep ==
  ASSUME Types, Descriptors, Answers, NEW t \in Threads, pc[t] # "idle",
         NEW l, pc' = [pc EXCEPT ![t] = l],
         UNCHANGED <<fds, accepted, waiting, serving, request>>,
         \A u \in Threads \ {t} : key'[u] = key[u] /\ len'[u] = len[u],
         NEW s, sent' = [sent EXCEPT ![Conn(t)] = s],
         s \in Beginnings,
         Sent(l, s, key'[t], len'[t])
  PROVE  Answers'
  <1>1. serving[t] # NoFd /\ Conn(t) \in Conns /\ request[Conn(t)] # NoRequest
    BY ServedRequest, ServedConn, NamesAssumption DEF Client
  <1>2. \A u \in Threads : Conn(u)' = Conn(u)
    BY DEF Conn
  <1>3. sent' \in [Conns -> Beginnings]
        /\ \A c \in Conns : sent'[c] = IF c = Conn(t) THEN s ELSE sent[c]
    BY <1>1 DEF Answers
  <1>5. \A c \in Conns : request'[c] = NoRequest => sent'[c] = <<>>
    BY <1>1, <1>3 DEF Answers
  <1>6. \A f \in {accepted'} \cup ToSet(waiting') : f \in Fds => sent'[fds'[f]] = <<>>
    BY <1>1, <1>3, ServedConn DEF Answers
  <1>7. \A u \in Threads : pc'[u] = IF u = t THEN l ELSE pc[u]
    BY DEF Types
  <1>8. ASSUME NEW u \in Threads, u # t, pc[u] # "idle" PROVE sent'[Conn(u)] = sent[Conn(u)]
    <2>1. serving[u] # NoFd
      BY <1>8, ServedRequest
    <2>2. Conn(u) \in Conns /\ Conn(u) # Conn(t)
      BY <1>1, <1>8, <2>1, ServedConn
    <2> QED BY <1>3, <2>2
  <1>9. ASSUME NEW u \in Threads
        PROVE  /\ pc'[u] \notin {"idle", "relay", "insert", "close"} => sent'[Conn(u)'] = <<>>
               /\ pc'[u] = "relay" => sent'[Conn(u)'] = Bytes(key'[u], len'[u])
    <2>1. CASE u = t
      BY <1>1, <1>2, <1>3, <1>7, <2>1 DEF Sent
    <2>2. CASE u # t
      <3>1. pc'[u] = pc[u] /\ key'[u] = key[u] /\ len'[u] = len[u] /\ Conn(u)' = Conn(u)
        BY <1>2, <1>7, <2>2
      <3>2. pc[u] # "idle" => sent'[Conn(u)] = sent[Conn(u)]
        BY <1>8, <2>2
      <3> QED BY <3>1, <3>2 DEF Answers
    <2> QED BY <2>1, <2>2
  <1> QED BY <1>3, <1>5, <1>6, <1>9 DEF Answers

\* A step that sends nothing.
LEMMA AnswersQuiet ==
  ASSUME Types, Descriptors, Answers, NEW t \in Threads, pc[t] # "idle",
         NEW l, pc' = [pc EXCEPT ![t] = l],
         UNCHANGED <<fds, accepted, waiting, serving, request, sent>>,
         \A u \in Threads \ {t} : key'[u] = key[u] /\ len'[u] = len[u],
         Sent(l, sent[Conn(t)], key'[t], len'[t])
  PROVE  Answers'
  <1>1. Conn(t) \in Conns
    BY ServedRequest, ServedConn
  <1>2. sent' = [sent EXCEPT ![Conn(t)] = sent[Conn(t)]]
    BY <1>1 DEF Answers
  <1>3. sent[Conn(t)] \in Beginnings
    BY <1>1 DEF Answers
  <1> QED BY <1>2, <1>3, AnswersStep

\* The descriptors that are held go on naming what they named.
LEMMA AnswersKept ==
  ASSUME Types, Descriptors, Answers, sent' = sent,
         \A c \in Conns : request'[c] = NoRequest => request[c] = NoRequest,
         \A f \in {accepted'} \cup ToSet(waiting') : f \in Fds =>
           \/ f \in {accepted} \cup ToSet(waiting) /\ fds'[f] = fds[f]
           \/ \E c \in Conns : fds'[f] = c /\ request[c] = NoRequest,
         UNCHANGED <<key, len>>,
         \A t \in Threads : pc'[t] # "idle" =>
           pc'[t] = pc[t] /\ serving'[t] = serving[t] /\ fds'[serving[t]] = fds[serving[t]]
  PROVE  Answers'
  <1>1. \A f \in {accepted'} \cup ToSet(waiting') : f \in Fds => sent'[fds'[f]] = <<>>
    BY DEF Answers
  <1>2. ASSUME NEW t \in Threads
        PROVE  /\ pc'[t] \notin {"idle", "relay", "insert", "close"} => sent'[Conn(t)'] = <<>>
               /\ pc'[t] = "relay" => sent'[Conn(t)'] = Bytes(key'[t], len'[t])
    <2>1. pc'[t] # "idle" => pc'[t] = pc[t] /\ Conn(t)' = Conn(t)
      BY DEF Conn
    <2> QED BY <2>1 DEF Answers
  <1> QED BY <1>1, <1>2 DEF Answers

LEMMA AnswersAccept ==
  ASSUME Types, Descriptors, Answers, NEW r \in Requests, Accept(r)
  PROVE  Answers'
  <1>1. PICK n \in Nat, f \in Fds :
           /\ n + 1 \in Conns /\ n \in 0..MaxConns - 1
           /\ {d \in Conns : request[d] # NoRequest} = 1..n /\ request[n + 1] = NoRequest
           /\ fds[f] = Closed /\ f \notin Fifo!Known /\ accepted = NoFd /\ accepted' = f
           /\ fds' = [fds EXCEPT ![f] = n + 1] /\ request' = [request EXCEPT ![n + 1] = r]
           /\ UNCHANGED <<waiting, serving, ended, clientfd, pc>>
    BY AcceptedConn
  <1>2. PICK c \in Conns : c = n + 1
    BY <1>1
  <1>3. UNCHANGED <<sent, key, len>>
    BY DEF Accept, reqVars, respVars
  <1>4. \A g \in Fds : fds'[g] = IF g = f THEN c ELSE fds[g]
    BY <1>1, <1>2 DEF Types
  <1>5. \A d \in Conns : request'[d] = NoRequest => request[d] = NoRequest
    BY <1>1, NamesAssumption DEF Types
  <1>6. ASSUME NEW g \in {accepted'} \cup ToSet(waiting'), g \in Fds
        PROVE  \/ g \in {accepted} \cup ToSet(waiting) /\ fds'[g] = fds[g]
               \/ \E d \in Conns : fds'[g] = d /\ request[d] = NoRequest
    <2>1. CASE g = f
      BY <1>1, <1>2, <1>4, <2>1
    <2>2. CASE g # f
      BY <1>1, <1>4, <1>6, <2>2
    <2> QED BY <2>1, <2>2
  <1>7. \A t \in Threads : pc'[t] # "idle" =>
          pc'[t] = pc[t] /\ serving'[t] = serving[t] /\ fds'[serving[t]] = fds[serving[t]]
    <2> SUFFICES ASSUME NEW t \in Threads, pc[t] # "idle" PROVE fds'[serving[t]] = fds[serving[t]]
      BY <1>1
    <2>1. serving[t] \in Fds /\ serving[t] \in Fifo!Known
      BY ServedRequest, ServedConn DEF Fifo!Known
    <2> QED BY <1>1, <1>4, <2>1
  <1> QED BY <1>3, <1>5, <1>6, <1>7, AnswersKept

LEMMA AnswersConnect ==
  ASSUME Types, Descriptors, Answers, NEW t \in Threads, Connect(t)
  PROVE  Answers'
  <1> DEFINE f == Lowest(Free)
  <1>1. /\ f \in Free /\ fds' = [fds EXCEPT ![f] = Server]
        /\ UNCHANGED <<accepted, waiting, serving, request, sent, key, len>>
        /\ pc[t] = "connect" /\ pc' = [pc EXCEPT ![t] = "send"]
    BY LowestIsFree DEF Connect, Goes, queueVars, clientVars, reqVars
  <1> HIDE DEF f
  <1>2. fds[f] \notin Conns /\ \A g \in Fds \ {f} : fds'[g] = fds[g]
    BY <1>1, NamesAssumption DEF Free, Types
  <1>3. \A g \in {accepted} \cup ToSet(waiting) : g \in Fds => fds'[g] = fds[g]
    <2>1. \A g \in {accepted} \cup ToSet(waiting) : g \in Fds => g \in Fifo!Known
      BY DEF Fifo!Known, ToSet
    <2> QED BY <1>2, <2>1 DEF Descriptors
  <1>4. \A u \in Threads : pc[u] # "idle" => Conn(u)' = Conn(u)
    <2> SUFFICES ASSUME NEW u \in Threads, pc[u] # "idle" PROVE Conn(u)' = Conn(u)
      OBVIOUS
    <2>1. serving[u] \in Fds /\ fds[serving[u]] \in Conns
      BY ServedRequest, ServedConn
    <2> QED BY <1>1, <1>2, <2>1 DEF Conn
  <1>5. ASSUME NEW u \in Threads
        PROVE  /\ pc'[u] \notin {"idle", "relay", "insert", "close"} => sent'[Conn(u)'] = <<>>
               /\ pc'[u] = "relay" => sent'[Conn(u)'] = Bytes(key'[u], len'[u])
    <2>1. CASE u = t
      <3>1. pc'[u] = "send" /\ pc[u] = "connect"
        BY <1>1, <2>1 DEF Types
      <3> QED BY <1>1, <1>4, <3>1 DEF Answers
    <2>2. CASE u # t
      <3>1. pc'[u] = pc[u]
        BY <1>1, <2>2 DEF Types
      <3> QED BY <1>1, <1>4, <3>1 DEF Answers
    <2> QED BY <2>1, <2>2
  <1> QED BY <1>1, <1>3, <1>5 DEF Answers

LEMMA AnswersQueue ==
  ASSUME Types, Descriptors, Answers
  PROVE  /\ Enqueue => Answers'
         /\ \A t \in Threads : Take(t) => Answers'
  <1>1. ASSUME Enqueue PROVE Answers'
    <2>1. UNCHANGED <<sent, request, key, len, fds, pc, serving>>
      BY <1>1, EnqueueShape DEF Enqueue, clientVars, reqVars, respVars
    <2>2. ASSUME NEW f \in {accepted'} \cup ToSet(waiting'), f \in Fds
          PROVE  f \in {accepted} \cup ToSet(waiting)
      <3>1. accepted' = NoFd /\ f # NoFd
        BY <1>1, <2>2, EnqueueShape, BoundsAssumption DEF Enqueue
      <3>2. PICK i \in DOMAIN waiting' : waiting'[i] = f
        BY <2>2, <3>1 DEF ToSet
      <3>3. i \in DOMAIN waiting \/ i = Len(waiting) + 1
        BY <1>1, EnqueueShape, QueueTypes DEF Enqueue
      <3> QED BY <1>1, <3>2, <3>3, EnqueueShape DEF Enqueue, ToSet
    <2> QED BY <2>1, <2>2, AnswersKept
  <1>2. ASSUME NEW t \in Threads, Take(t) PROVE Answers'
    <2>1. /\ UNCHANGED <<sent, request, key, len, fds>>
          /\ pc[t] = "idle" /\ pc' = [pc EXCEPT ![t] = "line"]
      BY <1>2 DEF Take, Goes, clientVars, reqVars, respVars
    <2>2. /\ accepted' = accepted /\ serving' = [serving EXCEPT ![t] = waiting[1]]
          /\ 1 \in DOMAIN waiting
          /\ \A i \in DOMAIN waiting' : waiting'[i] = waiting[i + 1] /\ i + 1 \in DOMAIN waiting
      BY <1>2, DequeueShape DEF Take
    <2>3. ToSet(waiting') \subseteq ToSet(waiting)
      BY <2>2 DEF ToSet
    <2>4. waiting[1] \in Fds /\ waiting[1] \in ToSet(waiting)
      BY <2>2, QueueTypes DEF ToSet
    <2>5. ASSUME NEW u \in Threads
          PROVE  /\ pc'[u] \notin {"idle", "relay", "insert", "close"} => sent'[Conn(u)'] = <<>>
                 /\ pc'[u] = "relay" => sent'[Conn(u)'] = Bytes(key'[u], len'[u])
      <3>1. CASE u = t
        <4>1. Conn(u)' = fds[waiting[1]] /\ pc'[u] = "line"
          BY <2>1, <2>2, <3>1 DEF Conn, Types
        <4> QED BY <2>1, <2>4, <4>1 DEF Answers
      <3>2. CASE u # t
        <4>1. Conn(u)' = Conn(u) /\ pc'[u] = pc[u]
          BY <2>1, <2>2, <3>2 DEF Conn, Types
        <4> QED BY <2>1, <4>1 DEF Answers
      <3> QED BY <3>1, <3>2
    <2> QED BY <2>1, <2>2, <2>3, <2>5 DEF Answers
  <1> QED BY <1>1, <1>2

LEMMA AnswersClose ==
  ASSUME Types, Descriptors, Answers, Contents, NEW t \in Threads, Close(t)
  PROVE  Answers'
  <1> DEFINE f == serving[t]
  <1>1. /\ UNCHANGED <<accepted, waiting, request, sent>> /\ f # NoFd
        /\ fds' = [fds EXCEPT ![f] = Closed] /\ serving' = [serving EXCEPT ![t] = NoFd]
        /\ pc' = [pc EXCEPT ![t] = "idle"]
    BY DEF Close, Goes, Fifo!Finish
  <1>2. f \in Fds
    BY <1>1, ServedConn
  <1>3. \A g \in {accepted} \cup ToSet(waiting) : g \in Fds => g # f
    BY <1>1, ServedConn DEF Conn
  <1>4. \A g \in Fds \ {f} : fds'[g] = fds[g]
    BY DEF Types, Close
  <1>5. \A u \in Threads \ {t} : key'[u] = key[u] /\ len'[u] = len[u]
    BY DEF Close
  <1>6. ASSUME NEW u \in Threads
        PROVE  /\ pc'[u] \notin {"idle", "relay", "insert", "close"} => sent'[Conn(u)'] = <<>>
               /\ pc'[u] = "relay" => sent'[Conn(u)'] = Bytes(key'[u], len'[u])
    <2>1. CASE u = t \/ pc[u] = "idle"
      BY <1>1, <2>1 DEF Types
    <2>2. CASE u # t /\ pc[u] # "idle"
      <3>1. serving[u] \in Fds /\ serving[u] # f
        BY <1>1, <2>2, ServedRequest, ServedConn DEF Conn
      <3>2. Conn(u)' = Conn(u) /\ pc'[u] = pc[u]
        BY <1>1, <1>4, <2>2, <3>1 DEF Conn, Types
      <3> QED BY <1>1, <1>5, <2>2, <3>2 DEF Answers
    <2> QED BY <2>1, <2>2
  <1> QED BY <1>1, <1>3, <1>4, <1>6 DEF Answers

LEMMA AnswersNext == Types /\ Descriptors /\ Contents /\ Answers /\ [Next]_vars => Answers'
  <1> SUFFICES ASSUME Types, Descriptors, Contents, Answers, [Next]_vars PROVE Answers'
    OBVIOUS
  <1>1. CASE Stops
    BY <1>1 DEF Stops, Answers, Conn, queueVars, clientVars, reqVars, respVars
  <1>2. ASSUME NEW t \in Threads, Works(t) PROVE Answers'
    <2>0. /\ \A u \in Threads \ {t} : \A k : key' = [key EXCEPT ![t] = k] => key'[u] = key[u]
          /\ \A u \in Threads \ {t} : \A n : len' = [len EXCEPT ![t] = n] => len'[u] = len[u]
          /\ \A n : len' = [len EXCEPT ![t] = n] => len'[t] = n
      BY ThreadHolds
    <2>1. CASE AcceptLine(t)
      <3>1. /\ pc[t] = "line" /\ pc' = [pc EXCEPT ![t] = "first"] /\ \E k : key' = [key EXCEPT ![t] = k]
            /\ UNCHANGED <<fds, accepted, waiting, serving, request, sent, len>>
        BY <2>1 DEF AcceptLine, Goes, queueVars, clientVars, respVars
      <3>2. Sent("first", sent[Conn(t)], key'[t], len'[t])
        BY <3>1 DEF Answers, Sent
      <3> QED BY <2>0, <3>1, <3>2, AnswersQuiet
    <2>2. CASE Hit(t)
      <3>1. /\ pc[t] = "lookup" /\ pc' = [pc EXCEPT ![t] = "cached"] /\ \E n : len' = [len EXCEPT ![t] = n]
            /\ UNCHANGED <<fds, accepted, waiting, serving, request, sent, key>>
        BY <2>2 DEF Hit, Goes, queueVars, clientVars, reqVars
      <3>2. Sent("cached", sent[Conn(t)], key'[t], len'[t])
        BY <3>1 DEF Answers, Sent
      <3> QED BY <2>0, <3>1, <3>2, AnswersQuiet
    <2>3. ASSUME NEW n \in Lens, SendRequest(t, n) PROVE Answers'
      <3>1. /\ pc[t] = "send" /\ pc' = [pc EXCEPT ![t] = "relay"]
            /\ UNCHANGED <<fds, accepted, waiting, serving, request, sent, key, len>>
        BY <2>3 DEF SendRequest, Goes, queueVars, clientVars, reqVars
      <3>2. len[t] = 0 /\ sent[Conn(t)] = <<>>
        BY <3>1, ThreadHolds DEF Holds, Answers
      <3>3. Bytes(key[t], 0) = <<>>
        BY BytesProperties
      <3>4. Sent("relay", sent[Conn(t)], key'[t], len'[t])
        BY <3>1, <3>2, <3>3 DEF Sent
      <3> QED BY <3>1, <3>4, AnswersQuiet
    <2>4. CASE Insert(t)
      <3>1. /\ pc[t] = "insert" /\ pc' = [pc EXCEPT ![t] = "close"]
            /\ UNCHANGED <<fds, accepted, waiting, serving, request, sent, key, len>>
        BY <2>4 DEF Insert, Goes, queueVars, clientVars, reqVars, respVars
      <3>2. Sent("close", sent[Conn(t)], key'[t], len'[t])
        BY DEF Sent
      <3> QED BY <3>1, <3>2, AnswersQuiet
    <2>5. CASE SendCached(t)
      <3> DEFINE b == SubSeq(respBuf[t], 1, len[t])
      <3>1. /\ pc[t] = "cached" /\ pc' = [pc EXCEPT ![t] = "close"]
            /\ sent' = [sent EXCEPT ![Conn(t)] = sent[Conn(t)] \o b]
            /\ UNCHANGED <<fds, accepted, waiting, serving, request, key, len>>
        BY <2>5 DEF SendCached, Send, Goes, queueVars, reqVars, respVars
      <3>2. Holds("cached", key[t], len[t], rest[t], respBuf[t])
        BY <3>1, ThreadHolds
      <3>3. b = Bytes(key[t], len[t]) /\ key[t] \in Keys /\ len[t] \in Nat
        <4>1. len[t] \in 0..MaxObject
          BY <3>2, BoundsAssumption DEF Holds
        <4>2. /\ respBuf[t] = [j \in 1..MaxObject |-> respBuf[t][j]]
              /\ \A j \in 1..len[t] : respBuf[t][j] = <<key[t], j>>
          BY <3>2 DEF Holds
        <4>3. key[t] \in Keys /\ len[t] \in Nat
          BY <3>2 DEF Holds
        <4> QED BY <4>1, <4>2, <4>3, CutOfBuffer
      <3>4. sent[Conn(t)] = <<>>
        BY <3>1 DEF Answers
      <3>5. sent[Conn(t)] \o b = Bytes(key[t], len[t])
        BY <3>3, <3>4, BytesProperties, ConcatEmptySeq
      <3>6. Sent("close", Bytes(key[t], len[t]), key'[t], len'[t])
            /\ Bytes(key[t], len[t]) \in Beginnings
        BY <3>3 DEF Sent, Beginnings
      <3> HIDE DEF b
      <3> QED BY <3>1, <3>3, <3>5, <3>6, AnswersStep
    <2>6. CASE Relay(t)
      <3> DEFINE n == Chunk(t)
                 bytes == [i \in 1..n |-> <<key[t], len[t] + i>>]
                 m == len[t] + n
      <3>1. /\ pc[t] = "relay" /\ pc' = [pc EXCEPT ![t] = "relay"]
            /\ sent' = [sent EXCEPT ![Conn(t)] = sent[Conn(t)] \o bytes]
            /\ len' = [len EXCEPT ![t] = m]
            /\ UNCHANGED <<fds, accepted, waiting, serving, request, key>>
        BY <2>6 DEF Relay, Send, Goes, queueVars, reqVars
      <3>2. key[t] \in Keys /\ n \in Nat /\ len[t] \in Nat
        BY <3>1, ThreadHolds, ChunkProperties DEF Holds
      <3>3. sent[Conn(t)] = Bytes(key[t], len[t])
        BY <3>1 DEF Answers
      <3>4. sent[Conn(t)] \o bytes = Bytes(key[t], m)
        BY <3>2, <3>3, BytesGoOn
      <3>5. m \in Nat
        BY <3>2
      <3> HIDE DEF bytes, m
      <3>6. len'[t] = m /\ key'[t] = key[t]
        BY <2>0, <3>1
      <3>7. Sent("relay", Bytes(key[t], m), key'[t], len'[t])
            /\ Bytes(key[t], m) \in Beginnings
        BY <3>2, <3>5, <3>6 DEF Sent, Beginnings
      <3>8. \A u \in Threads \ {t} : key'[u] = key[u] /\ len'[u] = len[u]
        BY <2>0, <3>1
      <3> QED BY <3>1, <3>2, <3>4, <3>5, <3>7, <3>8, AnswersStep
    <2> QED BY <1>2, <2>1, <2>2, <2>3, <2>4, <2>5, <2>6, AnswersQueue, AnswersConnect, AnswersClose
            DEF Works
  <1>3. ASSUME NEW t \in Threads, Plain(t) PROVE Answers'
    <2>1. PICK m \in Moves : pc[t] = m[1] /\ pc' = [pc EXCEPT ![t] = m[2]]
      BY <1>3 DEF Plain
    <2>2. UNCHANGED <<fds, accepted, waiting, serving, request, sent, key, len>>
      BY <1>3 DEF Plain, queueVars, clientVars, respVars
    <2>3. /\ m[1] \notin {"idle", "close"} /\ m[2] # "relay"
          /\ m[1] \in {"relay", "insert"} => m[2] \in {"insert", "close"}
      BY DEF Moves
    <2>4. Sent(m[2], sent[Conn(t)], key'[t], len'[t])
      BY <2>1, <2>3 DEF Answers, Sent
    <2>5. \A u \in Threads \ {t} : key'[u] = key[u] /\ len'[u] = len[u]
      BY <2>2
    <2>6. PICK l : l = m[2]
      OBVIOUS
    <2> QED BY <2>1, <2>2, <2>3, <2>4, <2>5, <2>6, AnswersQuiet
  <1> QED BY <1>1, <1>2, <1>3, StepKinds, AnswersAccept, AnswersQueue

-------------------------------------------------------------------------------
(* The header entries.                                                        *)

NoneMet == [met |-> {}, list |-> <<>>]

\* What FoldLeft computes Rewritten with: for every set of positions of the
\* list, what the loop makes of the entries there.
Stages(list, S, g) ==
  g = [s \in SUBSET S |-> IF s = {} THEN NoneMet ELSE Rewrite(g[s \ {Max(s)}], list[Max(s)])]

LEMMA RewrittenIsStage ==
  ASSUME NEW list
  PROVE  Rewritten(list) = (CHOOSE g : Stages(list, DOMAIN list, g))[DOMAIN list]
  BY DEF Rewritten, Stages, NoneMet, FoldLeft, MapThenFoldSet

LEMMA MaxOfUpTo ==
  ASSUME NEW n \in Nat, NEW s \in SUBSET (1..n + 1), n + 1 \in s
  PROVE  Max(s) = n + 1 /\ s \ {n + 1} \in SUBSET (1..n)
  <1>1. \A x \in s : (\A y \in s : x >= y) <=> x = n + 1
    OBVIOUS
  <1>2. PICK m : m = n + 1
    OBVIOUS
  <1>3. m \in s /\ \A x \in s : (\A y \in s : x >= y) <=> x = m
    BY <1>1, <1>2
  <1>4. Max(s) = m
    BY <1>3 DEF Max
  <1>5. s \ {n + 1} \in SUBSET (1..n)
    OBVIOUS
  <1> QED BY <1>2, <1>4, <1>5

LEMMA MaxIsMember ==
  ASSUME NEW n \in Nat, NEW s \in SUBSET (1..n), s # {}
  PROVE  Max(s) \in s
  <1> DEFINE T == {n - x : x \in s}
  <1>1. T \subseteq Nat /\ T # {}
    <2>1. \A x \in s : n - x \in Nat
      OBVIOUS
    <2> QED BY <2>1
  <1>2. PICK m \in T : \A k \in T : m <= k
    BY <1>1, SmallestNat
  <1>3. PICK x \in s : m = n - x
    BY <1>2
  <1>4. \A y \in s : x >= y
    <2> SUFFICES ASSUME NEW y \in s PROVE x >= y
      OBVIOUS
    <2>1. n - y \in T
      OBVIOUS
    <2>2. n - x <= n - y
      BY <1>2, <1>3, <2>1
    <2> QED BY <2>2
  <1> QED BY <1>4 DEF Max

LEMMA StagesExist ==
  ASSUME NEW list, NEW n \in Nat
  PROVE  \E g : Stages(list, 1..n, g)
  <1> DEFINE C == {k \in Nat : ~ \E g : Stages(list, 1..k, g)}
  <1>1. SUFFICES ASSUME C # {} PROVE FALSE
    BY <1>1
  <1>2. PICK k \in C : \A j \in C : k <= j
    BY <1>1, SmallestNat
  <1>3. CASE k = 0
    <2> DEFINE g == [s \in SUBSET {} |-> NoneMet]
    <2>1. g = [s \in SUBSET {} |-> IF s = {} THEN NoneMet ELSE Rewrite(g[s \ {Max(s)}], list[Max(s)])]
      OBVIOUS
    <2>2. 1..k = {}
      BY <1>3
    <2> QED BY <2>1, <2>2 DEF Stages
  <1>4. CASE k # 0
    <2>1. PICK j \in Nat : j + 1 = k
      BY <1>4
    <2>2. j \notin C
      BY <1>2, <2>1
    <2>3. PICK h : Stages(list, 1..j, h)
      BY <2>2
    <2> DEFINE g == [s \in SUBSET (1..k) |-> IF k \in s THEN Rewrite(h[s \ {k}], list[k]) ELSE h[s]]
    <2>4. ASSUME NEW s \in SUBSET (1..k)
          PROVE  g[s] = IF s = {} THEN NoneMet ELSE Rewrite(g[s \ {Max(s)}], list[Max(s)])
      <3>1. CASE k \in s
        <4>1. Max(s) = k /\ s \ {k} \in SUBSET (1..j)
          BY <2>1, <3>1, MaxOfUpTo
        <4>2. g[s] = Rewrite(h[s \ {k}], list[k])
          BY <3>1
        <4>3. g[s \ {k}] = h[s \ {k}]
          OBVIOUS
        <4> HIDE DEF g
        <4> QED BY <3>1, <4>1, <4>2, <4>3
      <3>2. CASE k \notin s /\ s # {}
        <4>1. s \in SUBSET (1..j)
          BY <2>1, <3>2
        <4>2. Max(s) \in s
          BY <3>2, <4>1, MaxIsMember
        <4>3. s \ {Max(s)} \in SUBSET (1..k) /\ k \notin s \ {Max(s)}
          BY <3>2
        <4>4. g[s] = h[s] /\ g[s \ {Max(s)}] = h[s \ {Max(s)}]
          BY <3>2, <4>3
        <4>5. h[s] = Rewrite(h[s \ {Max(s)}], list[Max(s)])
          BY <2>3, <3>2, <4>1 DEF Stages
        <4> HIDE DEF g
        <4> QED BY <3>2, <4>4, <4>5
      <3>3. CASE s = {}
        BY <2>3, <3>3 DEF Stages
      <3> QED BY <3>1, <3>2, <3>3
    <2>5. g = [s \in SUBSET (1..k) |-> IF s = {} THEN NoneMet
                                      ELSE Rewrite(g[s \ {Max(s)}], list[Max(s)])]
      <3> DEFINE G == [s \in SUBSET (1..k) |-> IF s = {} THEN NoneMet
                                      ELSE Rewrite(g[s \ {Max(s)}], list[Max(s)])]
      <3>1. \A s \in SUBSET (1..k) : g[s] = G[s]
        BY <2>4
      <3>2. g = [s \in SUBSET (1..k) |-> g[s]] /\ G = [s \in SUBSET (1..k) |-> G[s]]
        OBVIOUS
      <3> HIDE DEF g
      <3> QED BY <3>1, <3>2
    <2> HIDE DEF g
    <2> QED BY <1>2, <2>5 DEF Stages
  <1> QED BY <1>3, <1>4

\* The stages of the loop.
LEMMA RewrittenByStages ==
  ASSUME NEW list, NEW n \in Nat, DOMAIN list = 1..n
  PROVE  \E g : /\ Rewritten(list) = g[1..n] /\ g[1..0] = NoneMet
                /\ \A k \in Nat : k + 1 <= n => g[1..k + 1] = Rewrite(g[1..k], list[k + 1])
  <1> DEFINE g == CHOOSE g : Stages(list, 1..n, g)
  <1>1. Stages(list, 1..n, g)
    BY StagesExist
  <1>2. Rewritten(list) = g[1..n]
    BY RewrittenIsStage
  <1> HIDE DEF g
  <1>3. 1..0 = {}
    OBVIOUS
  <1>4. g[1..0] = NoneMet
    BY <1>1, <1>3 DEF Stages
  <1>5. ASSUME NEW k \in Nat, k + 1 <= n PROVE g[1..k + 1] = Rewrite(g[1..k], list[k + 1])
    <2>1. PICK s : s = 1..k + 1
      OBVIOUS
    <2>2. s \in SUBSET (1..k + 1) /\ k + 1 \in s /\ s \in SUBSET (1..n) /\ s # {}
      <3>1. \A x \in s : x \in 1..k + 1 /\ x \in 1..n
        BY <1>5, <2>1
      <3>2. k + 1 \in s
        BY <2>1
      <3> QED BY <3>1, <3>2
    <2>3. Max(s) = k + 1
      BY <2>2, MaxOfUpTo
    <2>4. s \ {k + 1} = 1..k
      BY <2>1
    <2>5. g[s] = Rewrite(g[s \ {Max(s)}], list[Max(s)])
      BY <1>1, <2>2 DEF Stages
    <2> QED BY <2>1, <2>3, <2>4, <2>5
  <1> QED BY <1>2, <1>4, <1>5

\* What the loop makes of the i-th entry: the first of a name the proxy sets.
Before(list, i)  == {list[j].name : j \in {k \in DOMAIN list : k < i}}
Touched(list, i) ==
  IF list[i].name \in Required \ ({"Host"} \cup Before(list, i))
  THEN [name |-> list[i].name, value |-> Own(list[i].name)] ELSE list[i]

\* The state of the loop after the first k entries.
Stage(list, k, acc) ==
  /\ acc = [met |-> acc.met, list |-> acc.list]
  /\ acc.met = Before(list, k + 1)
  /\ acc.list \in Seq(Entries) /\ Len(acc.list) = k
  /\ \A i \in 1..k : acc.list[i] = Touched(list, i)

LEMMA TouchedEntry ==
  ASSUME NEW list \in Seq(Entries), NEW i \in DOMAIN list
  PROVE  list[i] \in Entries /\ Touched(list, i) \in Entries /\ Touched(list, i).name = list[i].name
  <1>1. list[i] \in Entries
    BY ElementOfSeq, LenProperties
  <1>2. \A n \in Required : Own(n) \in Values
    BY DEF Values
  <1> HIDE DEF Values
  <1> QED BY <1>1, <1>2 DEF Touched, Entries

LEMMA StageNext ==
  ASSUME NEW list \in Seq(Entries), NEW k \in Nat, k + 1 <= Len(list), NEW acc, Stage(list, k, acc)
  PROVE  Stage(list, k + 1, Rewrite(acc, list[k + 1]))
  <1>1. PICK m \in Nat : m = k + 1
    OBVIOUS
  <1>2. m \in DOMAIN list /\ DOMAIN list = 1..Len(list) /\ Len(list) \in Nat
    BY <1>1, LenProperties
  <1>3. list[m] \in Entries /\ Touched(list, m) \in Entries
    BY <1>2, TouchedEntry
  <1>4. Before(list, m + 1) = Before(list, m) \cup {list[m].name}
    <2>1. {j \in DOMAIN list : j < m + 1} = {j \in DOMAIN list : j < m} \cup {m}
      BY <1>2
    <2> QED BY <2>1 DEF Before
  <1>5. Rewrite(acc, list[m]) = [met |-> acc.met \cup {list[m].name},
                                 list |-> Append(acc.list, Touched(list, m))]
    <2>1. acc.met = Before(list, m)
      BY <1>1 DEF Stage
    <2>2. [list[m] EXCEPT !.value = Own(list[m].name)]
            = [name |-> list[m].name, value |-> Own(list[m].name)]
      BY <1>3 DEF Entries
    <2> QED BY <2>1, <2>2 DEF Rewrite, Touched
  <1>6. acc.list \in Seq(Entries) /\ Len(acc.list) = k /\ acc.met = Before(list, m)
    BY <1>1 DEF Stage
  <1>7. PICK new : new = Append(acc.list, Touched(list, m))
    OBVIOUS
  <1>8. new \in Seq(Entries) /\ Len(new) = m
    BY <1>1, <1>3, <1>6, <1>7, AppendProperties
  <1>9. \A i \in 1..m : new[i] = Touched(list, i)
    <2>1. new[m] = Touched(list, m) /\ \A i \in 1..k : new[i] = acc.list[i]
      BY <1>1, <1>3, <1>6, <1>7, AppendProperties
    <2>2. \A i \in 1..k : acc.list[i] = Touched(list, i)
      BY DEF Stage
    <2>3. \A i \in 1..m : i \in 1..k \/ i = m
      BY <1>1
    <2> QED BY <2>1, <2>2, <2>3
  <1>10. PICK a : a = Rewrite(acc, list[m])
    OBVIOUS
  <1>11. a = [met |-> Before(list, m + 1), list |-> new]
    BY <1>4, <1>5, <1>6, <1>7, <1>10
  <1>12. Stage(list, m, a)
    BY <1>8, <1>9, <1>11 DEF Stage
  <1> QED BY <1>1, <1>10, <1>12

LEMMA RewrittenShape ==
  ASSUME NEW list \in Seq(Entries)
  PROVE  Stage(list, Len(list), Rewritten(list))
  <1>1. PICK n \in Nat : n = Len(list)
    BY LenProperties
  <1>2. DOMAIN list = 1..n
    BY <1>1, LenProperties
  <1>3. PICK g : /\ Rewritten(list) = g[1..n] /\ g[1..0] = NoneMet
                 /\ \A k \in Nat : k + 1 <= n => g[1..k + 1] = Rewrite(g[1..k], list[k + 1])
    BY <1>2, RewrittenByStages
  <1> DEFINE C == {k \in Nat : k <= n /\ ~Stage(list, k, g[1..k])}
  <1>4. C = {}
    <2> SUFFICES ASSUME C # {} PROVE FALSE
      OBVIOUS
    <2>1. PICK k \in C : \A j \in C : k <= j
      BY SmallestNat
    <2>2. k \in Nat /\ k <= n /\ ~Stage(list, k, g[1..k])
      OBVIOUS
    <2>3. CASE k = 0
      <3>1. Before(list, 1) = {}
        <4>1. {j \in DOMAIN list : j < 1} = {}
          BY <1>2
        <4> QED BY <4>1 DEF Before
      <3>2. Stage(list, 0, NoneMet)
        <4>1. <<>> \in Seq(Entries) /\ Len(<<>>) = 0
          BY EmptySeq
        <4>2. 0 + 1 = 1 /\ \A i \in 1..0 : FALSE
          OBVIOUS
        <4> QED BY <3>1, <4>1, <4>2 DEF Stage, NoneMet
      <3> QED BY <1>3, <2>2, <2>3, <3>2
    <2>4. CASE k # 0
      <3>1. PICK j \in Nat : j + 1 = k
        BY <2>2, <2>4
      <3>2. j \notin C /\ j <= n /\ j + 1 <= n
        BY <2>1, <2>2, <3>1
      <3>3. Stage(list, j, g[1..j])
        BY <3>2
      <3>4. PICK a : a = g[1..j]
        OBVIOUS
      <3>5. Stage(list, j + 1, Rewrite(a, list[j + 1]))
        BY <1>1, <3>2, <3>3, <3>4, StageNext
      <3>6. g[1..j + 1] = Rewrite(a, list[j + 1])
        BY <1>3, <3>2, <3>4
      <3> QED BY <2>2, <3>1, <3>5, <3>6
    <2> QED BY <2>3, <2>4
  <1>5. Stage(list, n, g[1..n])
    <2>1. n \notin C
      BY <1>4
    <2> QED BY <2>1
  <1> QED BY <1>1, <1>3, <1>5

\* What add_reqhdr_entry makes of a list: it has the entries of the names ns
\* behind those of old, one each.
Grown(old, new, ns) ==
  /\ new \in Seq(Entries)
  /\ Len(old) <= Len(new)
  /\ \A i \in DOMAIN old : new[i] = old[i]
  /\ \A i \in DOMAIN new \ DOMAIN old :
       /\ new[i].name \in ns /\ new[i].value = Own(new[i].name)
       /\ \A j \in DOMAIN new \ DOMAIN old : new[j].name = new[i].name => j = i
  /\ \A n \in ns : \E i \in DOMAIN new \ DOMAIN old : new[i].name = n

LEMMA AddEntryShape ==
  ASSUME NEW old \in Seq(Entries), NEW new, NEW ns, Grown(old, new, ns),
         NEW met, NEW n \in Required \ ns
  PROVE  Grown(old, AddEntry(new, met, n), ns \cup ({n} \ met))
  <1>1. CASE n \in met
    <2>1. ns \cup ({n} \ met) = ns /\ AddEntry(new, met, n) = new
      BY <1>1 DEF AddEntry
    <2> QED BY <2>1
  <1>2. CASE n \notin met
    <2> DEFINE h == [name |-> n, value |-> Own(n)]
    <2>1. new \in Seq(Entries) /\ h \in Entries
      BY DEF Grown, Entries, Names, Values
    <2>2. PICK q : q = Append(new, h)
      OBVIOUS
    <2>3. PICK m \in Nat : m = Len(new) + 1
      BY <2>1, LenProperties
    <2>4. q \in Seq(Entries) /\ Len(q) = m /\ q[m] = h /\ \A i \in 1..Len(new) : q[i] = new[i]
      BY <2>1, <2>2, <2>3, AppendProperties
    <2>5. /\ DOMAIN old = 1..Len(old) /\ DOMAIN new = 1..Len(new) /\ DOMAIN q = 1..m
          /\ Len(old) \in Nat /\ Len(new) \in Nat /\ Len(old) <= Len(new)
      BY <2>1, <2>4, LenProperties DEF Grown
    <2>6. /\ DOMAIN q \ DOMAIN old = (DOMAIN new \ DOMAIN old) \cup {m}
          /\ DOMAIN old \subseteq DOMAIN new /\ m \notin DOMAIN new
      BY <2>3, <2>5
    <2>7. \A i \in DOMAIN new : q[i] = new[i]
      BY <2>4, <2>5
    <2>8. h.name = n /\ h.value = Own(n)
      OBVIOUS
    <2>9. AddEntry(new, met, n) = q /\ ns \cup ({n} \ met) = ns \cup {n}
      BY <1>2, <2>2 DEF AddEntry
    <2>10. Len(old) <= Len(q)
      BY <2>3, <2>4, <2>5
    <2> HIDE DEF h
    <2>11. \A i \in DOMAIN old : q[i] = old[i]
      BY <2>6, <2>7 DEF Grown
    <2>12. ASSUME NEW i \in DOMAIN q \ DOMAIN old
           PROVE  /\ q[i].name \in ns \cup {n} /\ q[i].value = Own(q[i].name)
                  /\ \A j \in DOMAIN q \ DOMAIN old : q[j].name = q[i].name => j = i
      <3>1. \A j \in DOMAIN new \ DOMAIN old : q[j] = new[j] /\ new[j].name \in ns /\ new[j].name # n
        BY <2>7 DEF Grown
      <3>2. CASE i = m
        BY <2>4, <2>6, <2>8, <3>1, <3>2
      <3>3. CASE i # m
        <4>1. i \in DOMAIN new \ DOMAIN old
          BY <2>6, <3>3
        <4>2. q[i] = new[i] /\ q[i].name \in ns /\ q[i].name # n
          BY <3>1, <4>1
        <4>3. new[i].value = Own(new[i].name)
          BY <4>1 DEF Grown
        <4>4. ASSUME NEW j \in DOMAIN q \ DOMAIN old, q[j].name = q[i].name PROVE j = i
          <5>1. j # m
            BY <2>4, <2>8, <4>2, <4>4
          <5>2. j \in DOMAIN new \ DOMAIN old
            BY <2>6, <4>4, <5>1
          <5>3. new[j].name = new[i].name
            BY <3>1, <4>2, <4>4, <5>2
          <5> QED BY <4>1, <5>2, <5>3 DEF Grown
        <4> QED BY <4>2, <4>3, <4>4
      <3> QED BY <3>2, <3>3
    <2>13. ASSUME NEW k \in ns \cup {n} PROVE \E i \in DOMAIN q \ DOMAIN old : q[i].name = k
      <3>1. CASE k = n
        BY <2>4, <2>6, <2>8, <3>1
      <3>2. CASE k \in ns
        <4>1. PICK i \in DOMAIN new \ DOMAIN old : new[i].name = k
          BY <3>2 DEF Grown
        <4> QED BY <2>6, <2>7, <4>1
      <3> QED BY <3>1, <3>2
    <2>14. Grown(old, q, ns \cup {n})
      BY <2>4, <2>10, <2>11, <2>12, <2>13 DEF Grown
    <2> QED BY <2>9, <2>14
  <1> QED BY <1>1, <1>2

LEMMA AddMissingShape ==
  ASSUME NEW list \in Seq(Entries), NEW met
  PROVE  Grown(list, AddMissing(list, met), Required \ met)
  <1> DEFINE a == AddEntry(list, met, "Host")
             b == AddEntry(a, met, "User-Agent")
             c == AddEntry(b, met, "Connection")
             d == AddEntry(c, met, "Proxy-Connection")
  <1>1. Grown(list, list, {})
    BY LenProperties DEF Grown
  <1>2. Grown(list, a, {} \cup ({"Host"} \ met))
    BY <1>1, AddEntryShape DEF Required
  <1> HIDE DEF a
  <1>3. PICK n1 : n1 = {} \cup ({"Host"} \ met)
    OBVIOUS
  <1>4. Grown(list, b, n1 \cup ({"User-Agent"} \ met))
    <2>1. "User-Agent" \in Required \ n1
      BY <1>3 DEF Required
    <2> QED BY <1>2, <1>3, <2>1, AddEntryShape
  <1> HIDE DEF b
  <1>5. PICK n2 : n2 = n1 \cup ({"User-Agent"} \ met)
    OBVIOUS
  <1>6. Grown(list, c, n2 \cup ({"Connection"} \ met))
    <2>1. "Connection" \in Required \ n2
      BY <1>3, <1>5 DEF Required
    <2> QED BY <1>4, <1>5, <2>1, AddEntryShape
  <1> HIDE DEF c
  <1>7. PICK n3 : n3 = n2 \cup ({"Connection"} \ met)
    OBVIOUS
  <1>8. Grown(list, d, n3 \cup ({"Proxy-Connection"} \ met))
    <2>1. "Proxy-Connection" \in Required \ n3
      BY <1>3, <1>5, <1>7 DEF Required
    <2> QED BY <1>6, <1>7, <2>1, AddEntryShape
  <1>9. n3 \cup ({"Proxy-Connection"} \ met) = Required \ met
    BY <1>3, <1>5, <1>7 DEF Required
  <1>10. d = AddMissing(list, met)
    BY DEF AddMissing, a, b, c
  <1> HIDE DEF d
  <1> QED BY <1>8, <1>9, <1>10

\* What HeadersForwarded asks of a list and of what is forwarded of it.
FirstOf(new, i) == \A j \in 1..i - 1 : new[j].name # new[i].name
Forwards(old, new) ==
  /\ \A i \in DOMAIN old : /\ new[i].name = old[i].name
                           /\ \/ new[i] = old[i]
                              \/ new[i].name \in Required \ {"Host"} /\ FirstOf(new, i)
  /\ \A n \in Required : \E i \in DOMAIN new :
       /\ FirstOf(new, i) /\ new[i].name = n
       /\ (n # "Host" \/ i > Len(old)) => new[i].value = Own(n)
  /\ \A i \in DOMAIN new \ DOMAIN old : new[i].name \in Required /\ FirstOf(new, i)

\* modify_header_entries: what the client sent is kept but for the values of
\* the first User-Agent, Connection and Proxy-Connection, and each of the four
\* names is there with the proxy's value, or the client's Host.
LEMMA ModifiedForwards ==
  ASSUME NEW old \in Seq(Entries)
  PROVE  Forwards(old, Modified(old))
  <1> DEFINE acc == Rewritten(old)
  <1>1. PICK mid, met : mid = acc.list /\ met = acc.met
    OBVIOUS
  <1>2. PICK new : new = Modified(old)
    OBVIOUS
  <1>3. Stage(old, Len(old), acc)
    BY RewrittenShape
  <1>4. new = AddMissing(mid, met)
    BY <1>1, <1>2 DEF Modified
  <1> HIDE DEF acc
  <1>5. PICK n \in Nat : n = Len(old)
    BY LenProperties
  <1>6. DOMAIN old = 1..n
    BY <1>5, LenProperties
  <1>7. /\ mid \in Seq(Entries) /\ Len(mid) = n /\ DOMAIN mid = 1..n
        /\ \A i \in 1..n : mid[i] = Touched(old, i)
    <2>1. mid \in Seq(Entries) /\ Len(mid) = n /\ \A i \in 1..n : mid[i] = Touched(old, i)
      BY <1>1, <1>3, <1>5 DEF Stage
    <2> QED BY <2>1, LenProperties
  <1>8. met = {old[j].name : j \in 1..n}
    <2>1. met = Before(old, n + 1)
      BY <1>1, <1>3, <1>5 DEF Stage
    <2>2. {j \in DOMAIN old : j < n + 1} = 1..n
      BY <1>6
    <2> QED BY <2>1, <2>2 DEF Before
  <1>9. Grown(mid, new, Required \ met)
    BY <1>4, <1>7, AddMissingShape
  <1>10. PICK m \in Nat : m = Len(new) /\ DOMAIN new = 1..m /\ n <= m
    BY <1>7, <1>9, LenProperties DEF Grown
  <1>11. \A i \in 1..n : new[i] = Touched(old, i) /\ new[i].name = old[i].name
    BY <1>6, <1>7, <1>9, TouchedEntry DEF Grown
  <1>12. \A i \in DOMAIN new \ DOMAIN old :
           /\ new[i].name \in Required \ met /\ new[i].value = Own(new[i].name)
           /\ \A j \in DOMAIN new \ DOMAIN old : new[j].name = new[i].name => j = i
    BY <1>6, <1>7, <1>9 DEF Grown
  <1>13. \A k \in Required \ met : \E i \in DOMAIN new \ DOMAIN old : new[i].name = k
    BY <1>6, <1>7, <1>9 DEF Grown
  <1>14. ASSUME NEW i \in DOMAIN new, NEW j \in 1..i - 1 PROVE j \in DOMAIN new /\ j < i /\ j # i
    BY <1>10
  <1>15. ASSUME NEW i \in DOMAIN old PROVE FirstOf(new, i) <=> old[i].name \notin Before(old, i)
    <2>1. \A j \in 1..i - 1 : j \in 1..n /\ j < i
      BY <1>6
    <2>2. \A j \in DOMAIN old : j < i => j \in 1..i - 1
      BY <1>6
    <2>3. FirstOf(new, i) <=> \A j \in 1..i - 1 : old[j].name # old[i].name
      BY <1>6, <1>11, <2>1 DEF FirstOf
    <2> QED BY <1>6, <2>1, <2>2, <2>3 DEF Before
  <1>16. ASSUME NEW i \in DOMAIN old
         PROVE  /\ new[i].name = old[i].name
                /\ \/ new[i] = old[i]
                   \/ new[i].name \in Required \ {"Host"} /\ FirstOf(new, i)
    BY <1>6, <1>11, <1>15, <1>16 DEF Touched
  <1>17. ASSUME NEW i \in DOMAIN new \ DOMAIN old PROVE new[i].name \in Required /\ FirstOf(new, i)
    <2>1. ASSUME NEW j \in 1..i - 1 PROVE new[j].name # new[i].name
      <3>1. j \in DOMAIN new /\ j # i
        BY <1>14, <2>1
      <3>2. CASE j \in DOMAIN old
        BY <1>6, <1>8, <1>11, <1>12, <3>2
      <3>3. CASE j \notin DOMAIN old
        BY <1>12, <3>1, <3>3
      <3> QED BY <3>2, <3>3
    <2> QED BY <1>12, <2>1 DEF FirstOf
  <1>18. ASSUME NEW k \in Required
         PROVE  \E i \in DOMAIN new :
                  /\ FirstOf(new, i) /\ new[i].name = k
                  /\ (k # "Host" \/ i > Len(old)) => new[i].value = Own(k)
    <2>1. CASE k \notin met
      BY <1>12, <1>13, <1>17, <2>1
    <2>2. CASE k \in met
      <3> DEFINE T == {i \in 1..n : old[i].name = k}
      <3>0. T \subseteq Nat /\ T # {}
        BY <1>8, <2>2
      <3>1. PICK i \in T : \A j \in T : i <= j
        BY <3>0, SmallestNat
      <3>2. i \in DOMAIN old /\ i \in DOMAIN new /\ old[i].name = k /\ ~(i > Len(old))
        BY <1>5, <1>6, <1>10
      <3>3. k \notin Before(old, i)
        <4> SUFFICES ASSUME NEW j \in DOMAIN old, j < i, old[j].name = k PROVE FALSE
          BY DEF Before
        <4>1. j \in T
          BY <1>6
        <4> QED BY <1>6, <3>1, <3>2, <4>1
      <3>4. FirstOf(new, i) /\ new[i].name = k
        BY <1>6, <1>11, <1>15, <3>2, <3>3
      <3>5. k # "Host" => new[i].value = Own(k)
        <4>1. k # "Host" => Touched(old, i) = [name |-> k, value |-> Own(k)]
          BY <3>2, <3>3 DEF Touched
        <4>2. new[i] = Touched(old, i)
          BY <1>6, <1>11, <3>2
        <4> QED BY <4>1, <4>2
      <3> QED BY <3>2, <3>4, <3>5
    <2> QED BY <2>1, <2>2
  <1> QED BY <1>2, <1>16, <1>17, <1>18 DEF Forwards

-------------------------------------------------------------------------------
(* What is forwarded.                                                         *)

LEMMA LineEntry ==
  ASSUME NEW r \in Requests, NEW i \in DOMAIN r.headers, Entry(r.headers[i])
  PROVE  <<r.headers[i]>> \in Seq(Entries) /\ r.headers[i] \in Entries
  <1>1. PICK h : h = r.headers[i]
    OBVIOUS
  <1>2. h \in ToSet(r.headers) \ {Blank, Bad}
    BY <1>1 DEF ToSet, Entry
  <1>3. h = [name |-> h.name, value |-> h.value]
    BY <1>2, RequestsAssumption
  <1>4. h \in Entries
    BY <1>2, <1>3 DEF Entries, Names, Values
  <1> QED BY <1>1, <1>4

\* Steps of one thread.
LEMMA ForwardedStep ==
  ASSUME Types, Forwarded, NEW t \in Threads, NEW l, pc' = [pc EXCEPT ![t] = l],
         NEW h \in Seq(Entries), headers' = [headers EXCEPT ![t] = h],
         NEW o, out' = [out EXCEPT ![t] = o],
         l \in {"connect", "send", "relay", "insert"} /\ h # <<>> => o = Modified(h)
  PROVE  Forwarded'
  <1>1. /\ headers' = [u \in Threads |-> IF u = t THEN h ELSE headers[u]]
        /\ out' = [u \in Threads |-> IF u = t THEN o ELSE out[u]]
        /\ \A u \in Threads : pc'[u] = IF u = t THEN l ELSE pc[u]
    BY DEF Forwarded, Types
  <1> QED BY <1>1 DEF Forwarded

LEMMA ForwardedMove ==
  ASSUME Types, Forwarded, NEW t \in Threads, NEW l, pc' = [pc EXCEPT ![t] = l],
         UNCHANGED <<headers, out>>,
         l \in {"connect", "send", "relay", "insert"} =>
           pc[t] \in {"connect", "send", "relay", "insert"} \/ headers[t] = <<>>
  PROVE  Forwarded'
  <1>1. /\ headers[t] \in Seq(Entries)
        /\ headers' = [headers EXCEPT ![t] = headers[t]] /\ out' = [out EXCEPT ![t] = out[t]]
    BY DEF Forwarded
  <1>2. l \in {"connect", "send", "relay", "insert"} /\ headers[t] # <<>> =>
          out[t] = Modified(headers[t])
    BY DEF Forwarded
  <1> QED BY <1>1, <1>2, ForwardedStep

LEMMA ForwardedNext == Types /\ Descriptors /\ Forwarded /\ [Next]_vars => Forwarded'
  <1> SUFFICES ASSUME Types, Descriptors, Forwarded, [Next]_vars PROVE Forwarded'
    OBVIOUS
  <1> USE DEF reqVars
  <1>1. ASSUME UNCHANGED <<pc, headers, out>> PROVE Forwarded'
    BY <1>1 DEF Forwarded
  <1>2. CASE Dies \/ UNCHANGED vars
    BY <1>1, <1>2 DEF Dies, vars
  <1>3. CASE Main
    BY <1>1, <1>2, <1>3 DEF Main, AcceptFails, Accept, Enqueue
  <1>4. ASSUME NEW t \in Threads, Thread(t) PROVE Forwarded'
    <2> DEFINE Move(to) == /\ pc' = [pc EXCEPT ![t] = to] /\ UNCHANGED <<headers, out>>
                           /\ to \in {"connect", "send", "relay", "insert"} =>
                                pc[t] \in {"connect", "send", "relay", "insert"} \/ headers[t] = <<>>
    <2>1. CASE \E to \in Labels : Move(to)
      BY <2>1, ForwardedMove
    <2>2. CASE Take(t) \/ RefuseLine(t) \/ AcceptLine(t) \/ SameHeader(t)
      <3>1. Move("line") \/ Move("close") \/ Move("first") \/ Move("next")
        BY <2>2 DEF Take, RefuseLine, AcceptLine, SameHeader, Goes
      <3> QED BY <2>1, <3>1 DEF Labels
    <2>3. CASE Hit(t) \/ Miss(t) \/ SendCached(t) \/ ModifyNothing(t)
      <3>1. Move("cached") \/ Move("modify") \/ Move("close") \/ Move("connect")
        BY <2>3 DEF Hit, Miss, SendCached, ModifyNothing, Goes
      <3> QED BY <2>1, <3>1 DEF Labels
    <2>4. CASE Connect(t) \/ ConnectFails(t) \/ \E n \in Lens : SendRequest(t, n)
      <3>1. Move("send") \/ Move("relay")
        BY <2>4 DEF Connect, ConnectFails, SendRequest, Goes
      <3> QED BY <2>1, <3>1 DEF Labels
    <2>5. CASE Relay(t) \/ RelayEnd(t) \/ Insert(t) \/ TooLong(t)
      <3>1. Move("relay") \/ Move("insert") \/ Move("close")
        BY <2>5 DEF Relay, RelayEnd, Insert, TooLong, Goes
      <3> QED BY <2>1, <3>1 DEF Labels
    <2>6. CASE MemoryRunsOut(t) \/ WildPointer(t) \/ SendNowhere(t)
      BY <1>2, <2>6 DEF MemoryRunsOut, WildPointer, SendNowhere
    <2>7. CASE Modify(t)
      <3>1. /\ headers[t] \in Seq(Entries) /\ headers' = [headers EXCEPT ![t] = headers[t]]
            /\ out' = [out EXCEPT ![t] = Modified(headers[t])]
            /\ pc' = [pc EXCEPT ![t] = "connect"]
        BY <2>7 DEF Modify, Goes, Forwarded
      <3>2. PICK o : o = Modified(headers[t])
        OBVIOUS
      <3> QED BY <3>1, <3>2, ForwardedStep
    <2>8. CASE Close(t)
      <3>1. <<>> \in Seq(Entries)
        BY EmptySeq
      <3>2. /\ headers' = [headers EXCEPT ![t] = <<>>] /\ out' = [out EXCEPT ![t] = <<>>]
            /\ pc' = [pc EXCEPT ![t] = "idle"]
        BY <2>8 DEF Close, Goes
      <3> QED BY <3>1, <3>2, ForwardedStep
    <2>9. ASSUME NEW h \in Seq(Entries), headers' = [headers EXCEPT ![t] = h], out' = out,
                 NEW l \in {"lookup", "next"}, pc' = [pc EXCEPT ![t] = l]
          PROVE  Forwarded'
      <3>1. out' = [out EXCEPT ![t] = out[t]]
        BY <2>9 DEF Forwarded
      <3>2. PICK o : o = out[t]
        OBVIOUS
      <3> QED BY <2>9, <3>1, <3>2, ForwardedStep
    <2>10. ASSUME pc[t] \in {"first", "next"}
           PROVE  /\ headers[t] \in Seq(Entries) /\ <<>> \in Seq(Entries)
                  /\ Arrived(t) /\ Entry(Line(t)) =>
                       <<Line(t)>> \in Seq(Entries) /\ Line(t) \in Entries
      <3>1. Client(t) \in Requests
        BY <2>10, ServedRequest
      <3>2. PICK r \in Requests : r = Client(t)
        BY <3>1
      <3>3. r.headers \in Seq(ToSet(r.headers)) /\ read[t] \in Nat
        BY RequestsAssumption DEF Types
      <3>4. DOMAIN r.headers = 1..Len(r.headers) /\ Len(r.headers) \in Nat
        BY <3>3, LenProperties
      <3>5. ASSUME Arrived(t), Entry(Line(t))
            PROVE  <<Line(t)>> \in Seq(Entries) /\ Line(t) \in Entries
        <4>1. PICK i \in Nat : i = read[t] + 1
          BY <3>3
        <4>2. i \in DOMAIN r.headers /\ Line(t) = r.headers[i]
          BY <3>2, <3>3, <3>4, <3>5, <4>1 DEF Arrived, Line
        <4> QED BY <3>5, <4>2, LineEntry
      <3> QED BY <3>5, EmptySeq DEF Forwarded
    <2>11. CASE FirstHeader(t)
      <3>1. PICK line \in IF Arrived(t) THEN {Line(t)}
                          ELSE {Blank, Bad} \cup {r.headers[1] : r \in {q \in Requests : q.headers # <<>>}} :
              /\ pc[t] = "first"
              /\ pc' = [pc EXCEPT ![t] = IF line = Blank THEN "lookup" ELSE "next"]
              /\ headers' = [headers EXCEPT ![t] = IF Entry(line) THEN <<line>> ELSE <<>>]
              /\ out' = out
        BY <2>11 DEF FirstHeader, Goes
      <3>2. Entry(line) => <<line>> \in Seq(Entries)
        <4>1. CASE Arrived(t)
          BY <2>10, <3>1, <4>1
        <4>2. CASE ~Arrived(t) /\ Entry(line)
          <5>1. PICK r \in Requests : r.headers # <<>> /\ line = r.headers[1]
            BY <3>1, <4>2 DEF Entry
          <5>2. r.headers \in Seq(ToSet(r.headers))
            BY RequestsAssumption
          <5>3. 1 \in DOMAIN r.headers
            BY <5>1, <5>2, EmptySeq, LenProperties
          <5> QED BY <4>2, <5>1, <5>3, LineEntry
        <4> QED BY <4>1, <4>2
      <3>3. PICK h : h = IF Entry(line) THEN <<line>> ELSE <<>>
        OBVIOUS
      <3>4. PICK l : l = IF line = Blank THEN "lookup" ELSE "next"
        OBVIOUS
      <3>5. h \in Seq(Entries) /\ l \in {"lookup", "next"}
        BY <2>10, <3>1, <3>2, <3>3, <3>4
      <3> QED BY <2>9, <3>1, <3>3, <3>4, <3>5
    <2>12. CASE NextHeader(t)
      <3>1. PICK h : h = IF headers[t] = <<>> THEN headers[t] ELSE Append(headers[t], Line(t))
        OBVIOUS
      <3>2. /\ pc[t] = "next" /\ pc' = [pc EXCEPT ![t] = "next"] /\ Arrived(t) /\ Entry(Line(t))
            /\ headers' = [headers EXCEPT ![t] = h] /\ out' = out
        BY <2>12, <3>1 DEF NextHeader, Goes
      <3>3. h \in Seq(Entries)
        BY <2>10, <3>1, <3>2, AppendProperties
      <3> QED BY <2>9, <3>2, <3>3
    <2>13. CASE LastHeader(t)
      <3>1. PICK h : h = IF Line(t) = Bad THEN <<>> ELSE headers[t]
        OBVIOUS
      <3>2. /\ pc[t] = "next" /\ pc' = [pc EXCEPT ![t] = "lookup"]
            /\ headers' = [headers EXCEPT ![t] = h] /\ out' = out
        BY <2>13, <3>1 DEF LastHeader, Goes
      <3>3. h \in Seq(Entries)
        BY <2>10, <3>1, <3>2
      <3> QED BY <2>9, <3>2, <3>3
    <2> QED BY <1>4, <2>2, <2>3, <2>4, <2>5, <2>6, <2>7, <2>8, <2>11, <2>12, <2>13
            DEF Thread, ReadRequest, Answer
  <1>5. ASSUME NEW t \in Threads, IoFails(t) PROVE Forwarded'
    BY <1>2, <1>5 DEF IoFails
  <1> QED BY <1>2, <1>3, <1>4, <1>5 DEF Next

-------------------------------------------------------------------------------
(* The theorems.                                                              *)

LEMMA IInvInit == Init => IInv
  <1> SUFFICES ASSUME Init PROVE IInv
    OBVIOUS
  <1>1. /\ fds = [f \in Fds |-> Closed] /\ down = FALSE /\ memory = Memory
        /\ accepted = NoFd /\ waiting = <<>> /\ serving = [t \in Threads |-> NoFd] /\ order = <<>>
        /\ request = [c \in Conns |-> NoRequest] /\ ended = {} /\ sent = [c \in Conns |-> <<>>]
        /\ pc = [t \in Threads |-> "idle"] /\ read = [t \in Threads |-> 0]
        /\ clientfd = [t \in Threads |-> NoFd]
    BY DEF Init, Fifo!Init, Cache!Init
  <1>2. /\ key = [t \in Threads |-> Refused] /\ len = [t \in Threads |-> 0]
        /\ rest = [t \in Threads |-> 0] /\ respBuf = [t \in Threads |-> EmptyBuf]
        /\ headers = [t \in Threads |-> <<>>] /\ out = [t \in Threads |-> <<>>]
    BY DEF Init
  <1>3. /\ <<>> \in Seq(Fds) /\ <<>> \in Seq(Objects) /\ <<>> \in Seq(Entries)
        /\ Len(<<>>) = 0 /\ DOMAIN <<>> = {} /\ ToSet(<<>>) = {}
    BY EmptySeq DEF ToSet
  <1>4. Types
    <2>1. fds \in [Fds -> Conns \cup {Closed, Server}] /\ down \in BOOLEAN /\ memory \in 0..Memory
      <3>1. fds \in [Fds -> Conns \cup {Closed, Server}]
        BY <1>1
      <3>2. down \in BOOLEAN
        BY <1>1, Zenon
      <3>3. memory \in 0..Memory
        BY <1>1, BoundsAssumption
      <3> QED BY <3>1, <3>2, <3>3
    <2>2. /\ accepted \in Fds \cup {NoFd} /\ waiting \in Seq(Fds) /\ Len(waiting) <= Capacity
          /\ serving \in [Threads -> Fds \cup {NoFd}]
      BY <1>1, <1>3, BoundsAssumption
    <2>3. /\ request \in [Conns -> Requests \cup {NoRequest}] /\ ended \subseteq Conns
          /\ pc \in [Threads -> Labels] /\ read \in [Threads -> Nat]
          /\ clientfd \in [Threads -> Fds \cup {NoFd}]
      BY <1>1 DEF Labels
    <2> QED BY <2>1, <2>2, <2>3 DEF Types
  <1>5. Descriptors
    <2>1. Fifo!GivenOnce /\ Fifo!Known = {NoFd} \cup {serving[t] : t \in Threads}
      BY <1>1, <1>3 DEF Fifo!GivenOnce, Fifo!Known
    <2>2. \A f \in Fds : fds[f] \notin Conns /\ f \notin Fifo!Known
      BY <1>1, <2>1, NamesAssumption, BoundsAssumption
    <2>3. \E n \in 0..MaxConns : {d \in Conns : request[d] # NoRequest} = 1..n
      <3>1. {d \in Conns : request[d] # NoRequest} = 1..0 /\ 0 \in 0..MaxConns
        BY <1>1, BoundsAssumption
      <3> QED BY <3>1
    <2> QED BY <1>1, <2>1, <2>2, <2>3 DEF Descriptors
  <1>6. Contents
    <2>1. Holds("idle", Refused, 0, 0, EmptyBuf)
      BY DEF Holds, EmptyBuf
    <2> QED BY <1>1, <1>2, <1>3, <2>1 DEF Contents
  <1>7. Fits
    BY <1>1, <1>3, LenSumEmpty, TotalIsSum, BoundsAssumption DEF Fits
  <1>8. Answers
    BY <1>1, <1>3, BoundsAssumption DEF Answers, Beginnings
  <1>9. Forwarded
    BY <1>1, <1>2, <1>3 DEF Forwarded
  <1> QED BY <1>4, <1>5, <1>6, <1>7, <1>8, <1>9 DEF IInv

LEMMA IInvNext == IInv /\ [Next]_vars => IInv'
  BY TypesNext, DescriptorsNext, ContentsNext, FitsNext, AnswersNext, ForwardedNext DEF IInv

\* The inductive invariant is one.
THEOREM ServiceInvariant == Spec => []IInv
  BY IInvInit, IInvNext, PTL DEF Spec

\* Every variable keeps its type; the queue, the cache and what is in it keep
\* to their capacities, and the buffers a response is taken from have theirs
\* (server.c:40-66, 131-240).
THEOREM TypesAreKept == Spec => []TypeOK
  <1>1. ASSUME IInv PROVE TypeOK
    <2>1. Types /\ Contents /\ Fits
      BY <1>1 DEF IInv
    <2>2. \A t \in Threads : Len(respBuf[t]) = MaxObject
      <3> SUFFICES ASSUME NEW t \in Threads PROVE Len(respBuf[t]) = MaxObject
        OBVIOUS
      <3>1. respBuf[t] = [j \in 1..MaxObject |-> respBuf[t][j]]
        BY <2>1 DEF Contents, Holds
      <3>2. PICK b : b = respBuf[t]
        OBVIOUS
      <3>3. 0 \in 0..MaxObject /\ \A j \in 1..0 : FALSE
        BY BoundsAssumption
      <3>4. Len(b) = MaxObject
        BY <3>1, <3>2, <3>3, CutOfBuffer
      <3> QED BY <3>2, <3>4
    <2>3. ASSUME NEW i \in DOMAIN order
          PROVE  order[i].len \in 0..MaxObject /\ Len(order[i].body) = order[i].len
      <3>1. PICK o : o = order[i]
        OBVIOUS
      <3>2. o \in Objects
        BY <2>1, <3>1, OrderLens DEF Contents
      <3>3. o.len \in 0..MaxObject /\ o.len \in Nat /\ o.body = Bytes(o.key, o.len)
        BY <3>2, ObjectProperties
      <3>4. PICK k, n : k = o.key /\ n = o.len /\ n \in Nat
        BY <3>3
      <3>5. Len(Bytes(k, n)) = n
        BY <3>4, BytesProperties
      <3> QED BY <3>1, <3>3, <3>4, <3>5
    <2> QED BY <2>1, <2>2, <2>3 DEF TypeOK, Types, Fits
  <1> QED BY <1>1, ServiceInvariant, PTL

\* Close at server.c:63 is the only close of a connection, and the main
\* thread, the queue and the threads never hold a descriptor twice, a closed
\* one, or a server's; a thread reads its response from a socket of its own.
THEOREM DescriptorsAreHeld == Spec => []DescriptorsHeld
  <1>1. ASSUME IInv PROVE DescriptorsHeld
    <2>1. Types /\ Descriptors
      BY <1>1 DEF IInv
    <2>2. Fifo!Known \ {NoFd} \subseteq Fds
      BY <2>1, QueueTypes DEF Fifo!Known
    <2>3. Fifo!Known \ {NoFd} = {f \in Fds : fds[f] \in Conns}
      BY <2>1, <2>2, BoundsAssumption DEF Descriptors
    <2>4. ASSUME NEW c \in Conns
          PROVE  Cardinality({f \in Fds : fds[f] = c})
                   = IF request[c] # NoRequest /\ c \notin ended THEN 1 ELSE 0
      <3> DEFINE S == {f \in Fds : fds[f] = c}
      <3>1. (\E f \in Fds : fds[f] = c) <=> request[c] # NoRequest /\ c \notin ended
        BY <2>1 DEF Descriptors
      <3>2. CASE S = {}
        <4>1. ~(request[c] # NoRequest /\ c \notin ended)
          BY <3>1, <3>2
        <4> QED BY <3>2, <4>1, FS_EmptySet
      <3>3. CASE S # {}
        <4>1. PICK f \in Fds : fds[f] = c
          BY <3>3
        <4>2. S = {f}
          BY <2>1, <4>1 DEF Descriptors
        <4>3. Cardinality(S) = 1
          BY <4>2, FS_Singleton
        <4>4. request[c] # NoRequest /\ c \notin ended
          BY <3>1, <3>3
        <4> QED BY <4>3, <4>4
      <3> QED BY <3>2, <3>3
    <2> QED BY <2>1, <2>3, <2>4 DEF DescriptorsHeld, Descriptors
  <1> QED BY <1>1, ServiceInvariant, PTL

\* Whatever hits, misses, evictions and overlong responses mix, a client is
\* sent the beginning of one response and nothing else (server.c:172-193,
\* 211-232).
THEOREM AnswersAreOneResponse == Spec => []AnswerIsOneResponse
  <1>1. ASSUME IInv PROVE AnswerIsOneResponse
    <2> SUFFICES ASSUME NEW c \in Conns, sent[c] # <<>>
                 PROVE  \E r \in Requests :
                          /\ r.line # Garbage
                          /\ \A i \in DOMAIN sent[c] : sent[c][i] = <<ParseLine(r.line), i>>
      BY DEF AnswerIsOneResponse
    <2>1. sent[c] \in Beginnings
      BY <1>1 DEF IInv, Answers
    <2>2. PICK k \in Keys, n \in Nat : sent[c] = Bytes(k, n)
      BY <2>1 DEF Beginnings
    <2>3. PICK r \in Requests : r.line # Garbage /\ k = ParseLine(r.line)
      BY <2>2 DEF Keys
    <2>4. \A i \in DOMAIN sent[c] : sent[c][i] = <<k, i>>
      BY <2>2 DEF Bytes
    <2> QED BY <2>3, <2>4
  <1> QED BY <1>1, ServiceInvariant, PTL

\* Whatever the client sent, the server is sent those entries in their order,
\* unchanged but for the first User-Agent, Connection and Proxy-Connection,
\* which have the proxy's value, and each of these and Host is there, added
\* where the client did not send it: the property HeadersForwarded
\* (client.c:10-50).
THEOREM HeadersAreForwarded == Spec => []HeadersForwarded
  <1>1. ASSUME IInv PROVE HeadersForwarded
    <2>1. ASSUME NEW t \in Threads, pc[t] \in {"connect", "send", "relay", "insert"}, headers[t] # <<>>
          PROVE  Forwards(headers[t], out[t])
      <3>1. PICK old : old = headers[t] /\ old \in Seq(Entries) /\ out[t] = Modified(old)
        BY <1>1, <2>1 DEF IInv, Forwarded
      <3> QED BY <3>1, ModifiedForwards
    <2> QED BY <2>1 DEF HeadersForwarded, Forwards, FirstOf
  <1> QED BY <1>1, ServiceInvariant, PTL

\* The threads use the queue as its specification asks: in particular accept
\* never returns a descriptor the queue or a thread still has, because nobody
\* closes a connection that is not his (server.c:40-66).
THEOREM QueueIsUsedAsPromised == Spec => Fifo!SafeSpec
  <1>1. Init => Fifo!Init
    BY DEF Init
  <1>2. IInv /\ [Next]_vars => [Fifo!Next]_Fifo!vars
    <2> SUFFICES ASSUME Types, Descriptors, [Next]_vars PROVE Fifo!Next \/ UNCHANGED Fifo!vars
      BY DEF IInv
    <2>1. ASSUME NEW r \in Requests, Accept(r) PROVE Fifo!Next
      <3>1. PICK f \in Fds : f \notin Fifo!Known /\ accepted = NoFd /\ accepted' = f
                             /\ UNCHANGED <<waiting, serving>>
        BY <2>1, AcceptedConn
      <3> QED BY <3>1 DEF Fifo!Next, Fifo!Accept
    <2>2. CASE Enqueue
      BY <2>2 DEF Enqueue, Fifo!Next
    <2>3. CASE Stops
      BY <2>3 DEF Stops, queueVars, Fifo!vars
    <2>4. ASSUME NEW t \in Threads, Plain(t) PROVE UNCHANGED Fifo!vars
      BY <2>4 DEF Plain, queueVars, Fifo!vars
    <2>5. ASSUME NEW t \in Threads, Works(t) PROVE Fifo!Next \/ UNCHANGED Fifo!vars
      <3>1. CASE Take(t)
        BY <3>1 DEF Take, Fifo!Next, Fifo!DequeueByAny
      <3>2. CASE Close(t)
        BY <3>2 DEF Close, Fifo!Next
      <3>3. CASE ~Take(t) /\ ~Close(t)
        BY <2>5, <3>3 DEF Works, AcceptLine, Hit, SendCached, Connect, SendRequest, Relay, Insert,
                          queueVars, Fifo!vars
      <3> QED BY <3>1, <3>2, <3>3
    <2> QED BY <2>1, <2>2, <2>3, <2>4, <2>5, StepKinds
  <1> QED BY <1>1, <1>2, ServiceInvariant, PTL DEF Spec, Fifo!SafeSpec

===============================================================================
