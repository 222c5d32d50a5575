------------------------------- MODULE Service -------------------------------
(***************************************************************************)
(* The proxy as a whole (proxylab_code/server.c, client.c, request.c and   *)
(* the Rio and socket wrappers of csapp.c they call): the main thread      *)
(* accepts connections, the service threads take them from the queue,      *)
(* read a request, answer it from the cache or from its server, and close  *)
(* the connection.  They share the queue, the cache, the descriptor table  *)
(* and their fate: any of them can end the process.                        *)
(*                                                                         *)
(* The queue is ConnFifo, which ConnQueue implements, and the cache is     *)
(* AtomicCache, which ResponseCache implements, here with the victims the  *)
(* code chooses.  A request line is the fields its parser tells apart, a   *)
(* header line a name and a value, a response its length in halves of      *)
(* MAXLINE.  Keys are compared as they were stored: what becomes of their  *)
(* missing terminator is ResponseCache's subject.                          *)
(***************************************************************************)
EXTENDS Integers, Sequences, FiniteSets, SequencesExt, FiniteSetsExt

CONSTANTS Threads,      \* the service threads
          MaxConns,     \* a bound: connections clients make
          Fds,          \* the descriptors left to connections, by RLIMIT_NOFILE
          NoFd,         \* -1 or -2
          Closed,       \* a descriptor that is not open
          Server,       \* a descriptor open to a server
          Capacity,     \* QUEUE_CAPACITY
          Requests,     \* what clients send: [line, headers]
          NoRequest,    \* a client that has not connected yet
          Blank, Bad,   \* the line "\r\n", and a line that is no header entry
          Garbage,      \* what malloc or the stack left behind
          Lens,         \* the lengths in which a response may arrive
          MaxLine,      \* MAXLINE
          MaxObject,    \* MAX_OBJECT_SIZE
          MaxCache,     \* MAX_CACHE_SIZE
          Memory        \* a bound: header entries malloc has room for

Conns == 1..MaxConns

ASSUME BoundsAssumption ==
  /\ MaxConns \in Nat /\ Memory \in Nat /\ Capacity \in Nat \ {0} /\ Fds \subseteq Nat
  /\ MaxLine \in Nat \ {0} /\ MaxObject \in Nat /\ MaxCache \in Nat /\ MaxObject <= MaxCache
  /\ Lens \subseteq Nat /\ NoFd \notin Fds

ASSUME NamesAssumption == Closed # Server /\ Conns \cap {Closed, Server} = {} /\ NoRequest \notin Requests

\* Header entries have a name and a value.
ASSUME RequestsAssumption ==
  \A r \in Requests :
    /\ r.headers \in Seq(ToSet(r.headers))
    /\ \A h \in ToSet(r.headers) \ {Blank, Bad} : h = [name |-> h.name, value |-> h.value]

VARIABLES fds,          \* for each descriptor, the connection it names, Server or Closed
          down,         \* the process has ended
          memory,       \* header entries malloc still has room for
          accepted, waiting, serving,                    \* ConnFifo's: descriptors
          order,        \* AtomicCache's: the cached responses
          request,      \* what each connection's client sends
          ended,        \* the connections that have been closed
          sent,         \* what each connection's client has been sent
          pc, key,      \* of each thread: where it is, and szKey
          buf, read,    \* the line read last, and how many have been
          headers,      \* pReqHeader's list
          out,          \* the header entries forwarded
          clientfd,     \* the descriptor of the connection to the server
          rest,         \* what of the response has not arrived
          respBuf, len  \* what is kept of it, and its length so far

queueVars  == <<accepted, waiting, serving>>
clientVars == <<request, ended, sent>>
reqVars    == <<key, buf, read, headers, out>>
respVars   == <<clientfd, rest, respBuf, len>>
vars == <<fds, down, memory, queueVars, order, clientVars, pc, reqVars, respVars>>

Refused  == <<"refused", 0>>
NoPort   == -1    \* the address has no port
EmptyBuf == [i \in 1..MaxObject |-> Garbage]

Fifo  == INSTANCE ConnFifo
Cache == INSTANCE AtomicCache WITH
  Responses <- [key : UNION {{r.line.resource} \X Nat : r \in Requests}, len : Lens, body : Seq(Nat)]

Init == /\ fds = [f \in Fds |-> Closed] /\ down = FALSE /\ memory = Memory
        /\ Fifo!Init /\ Cache!Init
        /\ request = [c \in Conns |-> NoRequest] /\ ended = {}
        /\ sent = [c \in Conns |-> <<>>]
        /\ pc = [t \in Threads |-> "idle"] /\ key = [t \in Threads |-> Refused]
        /\ buf = [t \in Threads |-> Garbage] /\ read = [t \in Threads |-> 0]
        /\ headers = [t \in Threads |-> <<>>] /\ out = [t \in Threads |-> <<>>]
        /\ clientfd = [t \in Threads |-> NoFd] /\ rest = [t \in Threads |-> 0]
        /\ respBuf = [t \in Threads |-> EmptyBuf] /\ len = [t \in Threads |-> 0]

Goes(t, from, to) == ~down /\ pc[t] = from /\ pc' = [pc EXCEPT ![t] = to]

\* exit or a fatal signal: no thread takes another step.
Dies == /\ ~down /\ down' = TRUE
        /\ UNCHANGED <<fds, memory, queueVars, order, clientVars, pc, reqVars, respVars>>

Free      == {f \in Fds : fds[f] = Closed}
Lowest(S) == Min(S)

\* The connection a thread's descriptor names now, and its request.
Conn(t)   == fds[serving[t]]
Client(t) == request[Conn(t)]

-------------------------------------------------------------------------------
(* The main thread.                                                        *)

\* accept returns the lowest free descriptor.
Accept(r) ==
  LET c == Cardinality({d \in Conns : request[d] # NoRequest}) + 1
  IN /\ ~down /\ accepted = NoFd /\ c \in Conns /\ Free # {}
     /\ accepted' = Lowest(Free)
     /\ fds' = [fds EXCEPT ![Lowest(Free)] = c]
     /\ request' = [request EXCEPT ![c] = r]
     /\ UNCHANGED <<down, memory, waiting, serving, order, ended, sent, pc, reqVars, respVars>>

\* With no descriptor left accept fails, and Accept exits.
AcceptFails == /\ accepted = NoFd /\ Free = {}
               /\ \E c \in Conns : request[c] = NoRequest
               /\ Dies

Enqueue == /\ ~down /\ Fifo!Enqueue
           /\ UNCHANGED <<fds, down, memory, order, clientVars, pc, reqVars, respVars>>

-------------------------------------------------------------------------------
(* A service thread reads the request.                                     *)

Take(t) == /\ Goes(t, "idle", "line")
           /\ Fifo!Dequeue(t)
           /\ UNCHANGED <<fds, down, memory, order, clientVars, reqVars, respVars>>

\* An address with a port is accepted when the port is a number of 16 bits.
\* Without one strcasecmp's result is taken for equality, and it is the
\* protocol http that is refused.
ParseLine(l) ==
  CASE l.fields # 3                                  -> Refused
    [] l.fields = 3 /\ l.port \in 0..65535           -> <<l.resource, l.port>>
    [] l.fields = 3 /\ l.port = NoPort
         /\ l.protocol # "http"                      -> <<l.resource, 80>>
    [] OTHER                                         -> Refused

\* A connection that is reset makes Rio_readlineb return -1, which is not 0:
\* the line parsed is whatever the buffer held.
Lines(t) == IF Client(t).line = Garbage
            THEN {r.line : r \in {q \in Requests : q.line # Garbage}}
            ELSE {Client(t).line}

\* A fault: the connection is closed where the line is refused, and again by
\* service_thread.
RefuseAndClose(t) == /\ Goes(t, "line", "close")
                     /\ \E l \in Lines(t) : ParseLine(l) = Refused
                     /\ fds' = [fds EXCEPT ![serving[t]] = Closed]
                     /\ UNCHANGED <<down, memory, queueVars, order, clientVars, reqVars, respVars>>

RefuseLine(t) == /\ Goes(t, "line", "close")
                 /\ \E l \in Lines(t) : ParseLine(l) = Refused
                 /\ UNCHANGED <<fds, down, memory, queueVars, order, clientVars, reqVars, respVars>>

AcceptLine(t) == /\ Goes(t, "line", "first")
                 /\ \E l \in Lines(t) : /\ ParseLine(l) # Refused
                                        /\ key' = [key EXCEPT ![t] = ParseLine(l)]
                 /\ UNCHANGED <<fds, down, memory, queueVars, order, clientVars,
                                buf, read, headers, out, respVars>>

Arrived(t) == read[t] < Len(Client(t).headers)

\* What Rio_readlineb leaves in the buffer: the next line or, when the client
\* sends no more, what was there.
Line(t) == IF Arrived(t) THEN Client(t).headers[read[t] + 1] ELSE buf[t]

Entry(line) == line \notin {Blank, Bad}

ReadOne(t, line) == /\ buf' = [buf EXCEPT ![t] = line]
                    /\ read' = [read EXCEPT ![t] = IF Arrived(t) THEN @ + 1 ELSE @]

\* The first line after the request line; an uninitialised buffer may hold
\* any kind of line.
FirstHeader(t) == pc[t] = "first" /\
  \E line \in IF Arrived(t) THEN {Line(t)}
              ELSE {Blank, Bad} \cup {r.headers[1] : r \in {q \in Requests : q.headers # <<>>}} :
    /\ Goes(t, "first", IF line = Blank THEN "lookup" ELSE "next")
    /\ ReadOne(t, line)
    /\ headers' = [headers EXCEPT ![t] = IF Entry(line) THEN <<line>> ELSE <<>>]
    /\ UNCHANGED <<fds, down, memory, queueVars, order, clientVars, key, out, respVars>>

\* Entries that follow a malformed first one are linked to nothing.
NextHeader(t) ==
  /\ Goes(t, "next", "next")
  /\ Arrived(t) /\ Entry(Line(t))
  /\ ReadOne(t, Line(t))
  /\ headers' = [headers EXCEPT ![t] = IF @ = <<>> THEN @ ELSE Append(@, Line(t))]
  /\ UNCHANGED <<fds, down, memory, queueVars, order, clientVars, key, out, respVars>>

\* The client has sent no blank line and sends no more: the last entry is
\* parsed again and again, each time into memory of its own.
SameHeader(t) ==
  /\ Goes(t, "next", "next")
  /\ ~Arrived(t) /\ Entry(Line(t)) /\ memory > 0
  /\ memory' = memory - 1
  /\ UNCHANGED <<fds, down, queueVars, order, clientVars, reqVars, respVars>>

\* malloc returns NULL, which sscanf writes through.
MemoryRunsOut(t) == /\ pc[t] = "next" /\ ~Arrived(t) /\ Entry(Line(t)) /\ memory = 0
                    /\ Dies

\* A malformed entry makes read_requesthdrs return NULL, as if there were none.
LastHeader(t) ==
  /\ Goes(t, "next", "lookup")
  /\ ~Entry(Line(t))
  /\ ReadOne(t, Line(t))
  /\ headers' = [headers EXCEPT ![t] = IF Line(t) = Bad THEN <<>> ELSE @]
  /\ UNCHANGED <<fds, down, memory, queueVars, order, clientVars, key, out, respVars>>

-------------------------------------------------------------------------------
(* The answer, from the cache or from the server.                          *)

\* cache_retrieve_if_possible copies the object into respBuf.
Hit(t) == \E i \in DOMAIN order :
  /\ order[i].key = key[t]
  /\ Goes(t, "lookup", "cached")
  /\ Cache!Use(i)
  /\ len' = [len EXCEPT ![t] = order[i].len]
  /\ respBuf' = [respBuf EXCEPT ![t] = [j \in DOMAIN @ |->
       IF j <= order[i].len THEN order[i].body[j] ELSE @[j]]]
  /\ UNCHANGED <<fds, down, memory, queueVars, clientVars, reqVars, clientfd, rest>>

Miss(t) == /\ Goes(t, "lookup", "modify")
           /\ \A i \in DOMAIN order : order[i].key # key[t]
           /\ UNCHANGED <<fds, down, memory, queueVars, order, clientVars, reqVars, respVars>>

\* Rio_writen to the client.
Send(t, bytes) == sent' = [sent EXCEPT ![Conn(t)] = @ \o bytes]

SendCached(t) == /\ Goes(t, "cached", "close")
                 /\ Send(t, SubSeq(respBuf[t], 1, len[t]))
                 /\ UNCHANGED <<fds, down, memory, queueVars, order, request, ended, reqVars, respVars>>

Required == {"Host", "User-Agent", "Connection", "Proxy-Connection"}
Own(name) == CASE name = "Host" -> "uri" [] name = "User-Agent" -> "proxy" [] OTHER -> "close"

\* A fault: a Host the client names is overwritten like the other three.
RewriteHostToo(acc, h) ==
  [met |-> acc.met \cup {h.name},
   list |-> Append(acc.list, IF h.name \in Required \ acc.met THEN [h EXCEPT !.value = Own(h.name)]
                             ELSE h)]

\* modify_header_entries sets the first entry of each name but Host, the flags
\* noting the names met, ...
Rewrite(acc, h) ==
  LET first == h.name \in Required \ acc.met
  IN [met |-> acc.met \cup {h.name},
      list |-> Append(acc.list, IF first /\ h.name # "Host" THEN [h EXCEPT !.value = Own(h.name)]
                                ELSE h)]

\* ... and appends one for each name not met.
AddEntry(list, met, n) ==
  IF n \in met THEN list ELSE Append(list, [name |-> n, value |-> Own(n)])

AddMissing(list, met) ==
  LET host  == AddEntry(list, met, "Host")
      agent == AddEntry(host, met, "User-Agent")
      conn  == AddEntry(agent, met, "Connection")
  IN AddEntry(conn, met, "Proxy-Connection")

Rewritten(list) == FoldLeft(Rewrite, [met |-> {}, list |-> <<>>], list)

Modified(list) == AddMissing(Rewritten(list).list, Rewritten(list).met)

Modify(t) == /\ Goes(t, "modify", "connect")
             /\ headers[t] # <<>>
             /\ out' = [out EXCEPT ![t] = Modified(headers[t])]
             /\ UNCHANGED <<fds, down, memory, queueVars, order, clientVars,
                            key, buf, read, headers, respVars>>

\* With no list to append to, the new entries are linked through an
\* uninitialised pointer: the process dies, or no entry is forwarded.
ModifyNothing(t) == /\ Goes(t, "modify", "connect")
                    /\ headers[t] = <<>>
                    /\ UNCHANGED <<fds, down, memory, queueVars, order, clientVars, reqVars, respVars>>

WildPointer(t) == /\ pc[t] = "modify" /\ headers[t] = <<>>
                  /\ Dies

Connect(t) == /\ Goes(t, "connect", "send")
              /\ Free # {}
              /\ clientfd' = [clientfd EXCEPT ![t] = Lowest(Free)]
              /\ fds' = [fds EXCEPT ![Lowest(Free)] = Server]
              /\ UNCHANGED <<down, memory, queueVars, order, clientVars, reqVars, rest, respBuf, len>>

\* The name or the server is not there, or no descriptor is left.
ConnectFails(t) == /\ Goes(t, "connect", "send")
                   /\ UNCHANGED <<fds, down, memory, queueVars, order, clientVars, reqVars, respVars>>

\* send_request_string; n is as much of the response as will arrive.
SendRequest(t, n) == /\ Goes(t, "send", "relay")
                     /\ clientfd[t] # NoFd
                     /\ rest' = [rest EXCEPT ![t] = n]
                     /\ UNCHANGED <<fds, down, memory, queueVars, order, clientVars,
                                    reqVars, clientfd, respBuf, len>>

\* A failed connection is written to all the same, and EBADF is fatal.
SendNowhere(t) == /\ pc[t] = "send" /\ clientfd[t] = NoFd
                  /\ Dies

\* Rio_readnb fills its buffer unless the response ends in it.
Chunk(t) == Min({MaxLine, rest[t]})

\* A fault: a chunk that just fits is not kept.
RelayOffByOne(t) ==
  LET n == Chunk(t)
      bytes == [i \in 1..n |-> <<key[t], len[t] + i>>]
  IN /\ Goes(t, "relay", "relay")
     /\ rest[t] > 0
     /\ respBuf' = [respBuf EXCEPT ![t] =
          IF len[t] + n < MaxObject
          THEN [j \in DOMAIN @ |-> IF j \in len[t] + 1..len[t] + n THEN bytes[j - len[t]] ELSE @[j]]
          ELSE @]
     /\ Send(t, bytes)
     /\ len' = [len EXCEPT ![t] = @ + n] /\ rest' = [rest EXCEPT ![t] = @ - n]
     /\ UNCHANGED <<fds, down, memory, queueVars, order, request, ended, reqVars, clientfd>>

Relay(t) ==
  LET n == Chunk(t)
      bytes == [i \in 1..n |-> <<key[t], len[t] + i>>]
  IN /\ Goes(t, "relay", "relay")
     /\ rest[t] > 0
     /\ respBuf' = [respBuf EXCEPT ![t] =
          IF len[t] + n <= MaxObject
          THEN [j \in DOMAIN @ |-> IF j \in len[t] + 1..len[t] + n THEN bytes[j - len[t]] ELSE @[j]]
          ELSE @]
     /\ Send(t, bytes)
     /\ len' = [len EXCEPT ![t] = @ + n] /\ rest' = [rest EXCEPT ![t] = @ - n]
     /\ UNCHANGED <<fds, down, memory, queueVars, order, request, ended, reqVars, clientfd>>

\* A fault: the end of the response does not end the loop.
RelayNoEnd(t) == /\ Goes(t, "relay", "relay")
                 /\ rest[t] = 0
                 /\ UNCHANGED <<fds, down, memory, queueVars, order, clientVars, reqVars, respVars>>

\* Rio_readnb returns 0 at the end of the response, or -1 when the server
\* resets the connection; the loop ends the same way.
RelayEnd(t) == /\ Goes(t, "relay", "insert")
               /\ rest[t] = 0
               /\ UNCHANGED <<fds, down, memory, queueVars, order, clientVars, reqVars, respVars>>

\* evict_one_by_LRU drops the first response until the new one fits.
SumFrom(j) == MapThenSumSet(LAMBDA i : order[i].len, j..Len(order))

\* A fault: nothing is evicted.
Untrimmed(n) == order

Trimmed(n) == SubSeq(order, 1 + Min({j \in 0..Len(order) : SumFrom(j + 1) + n <= MaxCache}),
                     Len(order))

Insert(t) == /\ Goes(t, "insert", "close")
             /\ len[t] <= MaxObject
             /\ order' = <<[key |-> key[t], len |-> len[t], body |-> SubSeq(respBuf[t], 1, len[t])]>>
                           \o Trimmed(len[t])
             /\ UNCHANGED <<fds, down, memory, queueVars, clientVars, reqVars, respVars>>

TooLong(t) == /\ Goes(t, "insert", "close")
              /\ len[t] > MaxObject
              /\ UNCHANGED <<fds, down, memory, queueVars, order, clientVars, reqVars, respVars>>

\* doit returns and service_thread closes the connection; clientfd stays open.
Close(t) == /\ Goes(t, "close", "idle")
            /\ Fifo!Finish(t)
            /\ fds' = [fds EXCEPT ![serving[t]] = Closed]
            /\ ended' = ended \cup {Conn(t)}
            /\ key' = [key EXCEPT ![t] = Refused] /\ read' = [read EXCEPT ![t] = 0]
            /\ buf' = [buf EXCEPT ![t] = Garbage]
            /\ headers' = [headers EXCEPT ![t] = <<>>] /\ out' = [out EXCEPT ![t] = <<>>]
            /\ clientfd' = [clientfd EXCEPT ![t] = NoFd] /\ rest' = [rest EXCEPT ![t] = 0]
            /\ respBuf' = [respBuf EXCEPT ![t] = EmptyBuf] /\ len' = [len EXCEPT ![t] = 0]
            /\ UNCHANGED <<down, memory, order, request, sent>>

\* The Rio wrappers exit on the errors they do not expect, and a write to a
\* connection the other side has closed raises SIGPIPE, which kills.
IoFails(t) == /\ pc[t] \in {"line", "first", "next", "cached", "send", "relay"}
              /\ Dies

-------------------------------------------------------------------------------
Main == (\E r \in Requests : Accept(r)) \/ AcceptFails \/ Enqueue

ReadRequest(t) == RefuseLine(t) \/ AcceptLine(t) \/ FirstHeader(t) \/ NextHeader(t)
                  \/ SameHeader(t) \/ MemoryRunsOut(t) \/ LastHeader(t)

Answer(t) == Hit(t) \/ Miss(t) \/ SendCached(t) \/ Modify(t) \/ ModifyNothing(t)
             \/ WildPointer(t) \/ Connect(t) \/ ConnectFails(t)
             \/ (\E n \in Lens : SendRequest(t, n)) \/ SendNowhere(t)
             \/ Relay(t) \/ RelayEnd(t) \/ Insert(t) \/ TooLong(t)

Thread(t) == Take(t) \/ ReadRequest(t) \/ Answer(t) \/ Close(t)

Next == Main \/ \E t \in Threads : Thread(t) \/ IoFails(t)

\* Threads run; clients go on sending until they close, and servers until
\* their response ends.  Nothing need fail.
Spec == /\ Init /\ [][Next]_vars
        /\ WF_vars(Enqueue)
        /\ \A t \in Threads : WF_vars(Thread(t))

-------------------------------------------------------------------------------
(* Properties.                                                             *)

Labels == {"idle", "line", "first", "next", "lookup", "cached", "modify", "connect", "send",
           "relay", "insert", "close"}

TypeOK ==
  /\ fds \in [Fds -> Conns \cup {Closed, Server}] /\ down \in BOOLEAN /\ memory \in 0..Memory
  /\ accepted \in Fds \cup {NoFd} /\ waiting \in Seq(Fds) /\ Len(waiting) <= Capacity
  /\ serving \in [Threads -> Fds \cup {NoFd}]
  /\ request \in [Conns -> Requests \cup {NoRequest}] /\ ended \subseteq Conns
  /\ pc \in [Threads -> Labels] /\ read \in [Threads -> Nat]
  /\ \A t \in Threads : pc[t] \in {"cached", "insert"} => Len(respBuf[t]) = MaxObject
  /\ \A i \in DOMAIN order : order[i].len \in 0..MaxObject /\ Len(order[i].body) = order[i].len
  /\ Cache!Total <= MaxCache /\ clientfd \in [Threads -> Fds \cup {NoFd}]

\* Close at server.c:63 is the only one: every descriptor that the main
\* thread, the queue or a thread holds is open and names a connection that
\* nobody else has, no connection is left without a holder, and what a thread
\* reads a response from is a server's socket and its own.
DescriptorsHeld ==
  LET held == (Fifo!Known) \ {NoFd}
      busy == {t \in Threads : clientfd[t] # NoFd}
  IN /\ held = {f \in Fds : fds[f] \in Conns}
     /\ Fifo!GivenOnce
     /\ \A c \in Conns : Cardinality({f \in Fds : fds[f] = c})
                           = IF request[c] # NoRequest /\ c \notin ended THEN 1 ELSE 0
     /\ \A t \in busy : fds[clientfd[t]] = Server /\ \A s \in busy \ {t} : clientfd[s] # clientfd[t]

\* server.c:179-183 and 225-228: whatever mixture of misses, hits, evictions
\* and responses longer than the buffer, a client is sent the beginning of
\* one response, byte for byte, and never what the buffer held before.
AnswerIsOneResponse ==
  \A c \in Conns : sent[c] # <<>> =>
    \E r \in Requests : /\ r.line # Garbage
                        /\ \A i \in DOMAIN sent[c] : sent[c][i] = <<ParseLine(r.line), i>>

\* client.c:10-50: the proxy's values replace those of the first User-Agent,
\* Connection and Proxy-Connection; all else the client sent, its Host and the
\* repeated entries included, is forwarded unchanged and in order; and of the
\* four names those the client did not name are added, once, with the proxy's
\* value.
HeadersForwarded ==
  \A t \in Threads : pc[t] \in {"connect", "send", "relay", "insert"} /\ headers[t] # <<>> =>
    LET old == headers[t]
        First(i) == \A j \in 1..i - 1 : out[t][j].name # out[t][i].name
        Replaced(i) == out[t][i].name \in Required \ {"Host"} /\ First(i)
    IN /\ \A i \in DOMAIN old : /\ out[t][i].name = old[i].name
                                /\ out[t][i] = old[i] \/ Replaced(i)
       /\ \A n \in Required : \E i \in DOMAIN out[t] :
            /\ First(i) /\ out[t][i].name = n
            /\ (n # "Host" \/ i > Len(old)) => out[t][i].value = Own(n)
       /\ \A i \in DOMAIN out[t] \ DOMAIN old : out[t][i].name \in Required /\ First(i)

\* server.c:56-66: every connection the proxy has accepted is closed in the
\* end, or the process is (the MaxConns clients stop coming some time).  A
\* client that stops in the middle of its headers is no exception only because
\* its thread uses up the memory (server.c:152-163).
EveryConnectionEnds ==
  []<>(down \/ ended = {c \in Conns : request[c] # NoRequest})
===============================================================================
