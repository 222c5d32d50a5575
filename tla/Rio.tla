--------------------------------- MODULE Rio ---------------------------------
(***************************************************************************)
(* The buffered reads and the robust writes of the proxy                   *)
(* (proxylab_code/csapp.c) between the callers in proxylab_code/server.c   *)
(* and the kernel: rio_read with its internal buffer, rio_readlineb for    *)
(* the lines of a request, rio_readnb and rio_writen for the relay of a    *)
(* response.                                                               *)
(*                                                                         *)
(* read() and write() return any count the kernel may choose, are          *)
(* interrupted, meet the end of the connection, a reset or another error,  *)
(* at any point of a call.                                                 *)
(***************************************************************************)
EXTENDS Integers, Sequences, FiniteSetsExt

CONSTANTS Inputs,       \* what a peer may send: sequences of bytes
          NL,           \* '\n'
          BufSize,      \* RIO_BUFSIZE
          MaxLine       \* MAXLINE, the size of the callers' buffers

Byte == UNION {{s[i] : i \in DOMAIN s} : s \in Inputs}

ASSUME SizesAssumption  == BufSize \in Nat \ {0} /\ MaxLine \in Nat \ {0, 1}
ASSUME InputsAssumption == Inputs \subseteq Seq(Byte)

VARIABLES input,        \* what the peer has still to send
          wire,         \* what has arrived and read() has not returned
          ending,       \* how the peer has left: "open", "closed" or "reset"
          rio_buf,      \* the internal buffer
          rio_bufptr,   \* its next unread byte
          rio_cnt,      \* the number of unread bytes, or what read() returned
          mode,         \* "lines": read_request_line and read_requesthdrs;
                        \* "relay": output_response_from_remote
          pc,           \* "call", "read", "write" or "over"
          usrbuf,       \* what the call in progress has copied
          last,         \* what the last call returned, and the bytes with it
          unsent,       \* what rio_writen has still to write
          sink          \* what the client has been sent

peer == <<input, wire, ending>>
rio == <<rio_buf, rio_bufptr, rio_cnt>>
caller == <<mode, pc, usrbuf, last, unsent, sink>>
vars == <<peer, rio, caller>>

Unread == [i \in 1 .. Max({0, rio_cnt}) |-> rio_buf[rio_bufptr + i - 1]]

\* rio_readnb fills the buffer; rio_readlineb keeps room for the terminator.
Most == IF mode = "lines" THEN MaxLine - 1 ELSE MaxLine

\* How much rio_read is asked for.
Wanted == IF mode = "lines" THEN 1 ELSE Most - Len(usrbuf)

\* A fault: rio_readnb returns with what one rio_read gave it.
FullAtOnce == \/ usrbuf # <<>> /\ mode = "relay"
              \/ Len(usrbuf) = Most
              \/ mode = "lines" /\ usrbuf # <<>> /\ usrbuf[Len(usrbuf)] = NL

Full == \/ Len(usrbuf) = Most
        \/ mode = "lines" /\ usrbuf # <<>> /\ usrbuf[Len(usrbuf)] = NL

Init == /\ input \in Inputs
        /\ wire = <<>> /\ ending = "open"
        /\ rio_buf = [i \in 1 .. BufSize |-> NL] /\ rio_bufptr = 1 /\ rio_cnt = 0
        /\ mode \in {"lines", "relay"}
        /\ pc = "call"
        /\ usrbuf = <<>> /\ unsent = <<>> /\ sink = <<>>
        /\ last = [ret |-> 0, text |-> <<>>]

-------------------------------------------------------------------------------
(* The peer. *)

Arrive == /\ ending = "open" /\ input # <<>>
          /\ input' = Tail(input)
          /\ wire' = Append(wire, Head(input))
          /\ UNCHANGED <<ending, rio, caller>>

\* What the peer had still to send is never sent.
Leave == /\ ending = "open"
         /\ ending' \in {"closed", "reset"}
         /\ UNCHANGED <<input, wire, rio, caller>>

-------------------------------------------------------------------------------
(* rio_read, called by rio_readlineb and rio_readnb until they are done. *)

Reading == pc = "read" /\ ~Full

\* A fault: rio_bufptr is not set back to the start of the buffer.
RefillInPlace ==
  /\ Reading /\ rio_cnt <= 0 /\ wire # <<>>
  /\ rio_cnt' = Min({BufSize, Len(wire)})
  /\ rio_buf' = [i \in 1 .. BufSize |->
                   IF i <= rio_cnt' THEN wire[i] ELSE rio_buf[i]]
  /\ wire' = SubSeq(wire, rio_cnt' + 1, Len(wire))
  /\ UNCHANGED <<rio_bufptr, input, ending, caller>>

\* read() gives as much as has arrived and fits, and at least one byte.
Refill == /\ Reading /\ rio_cnt <= 0 /\ wire # <<>>
          /\ rio_cnt' = Min({BufSize, Len(wire)})
          /\ rio_bufptr' = 1
          /\ rio_buf' = [i \in 1 .. BufSize |->
                           IF i <= rio_cnt' THEN wire[i] ELSE rio_buf[i]]
          /\ wire' = SubSeq(wire, rio_cnt' + 1, Len(wire))
          /\ UNCHANGED <<input, ending, caller>>

\* errno = EINTR: the loop calls read() again.
ReadInterrupted == /\ Reading /\ rio_cnt = 0
                   /\ rio_cnt' = -1
                   /\ UNCHANGED <<peer, rio_buf, rio_bufptr, caller>>

Copy == /\ Reading /\ rio_cnt > 0
        /\ LET cnt == Min({Wanted, rio_cnt})
           IN  /\ usrbuf' = usrbuf \o SubSeq(Unread, 1, cnt)
               /\ rio_bufptr' = rio_bufptr + cnt
               /\ rio_cnt' = rio_cnt - cnt
        /\ UNCHANGED <<peer, rio_buf, mode, pc, last, unsent, sink>>

\* What the caller does with the return value ret and the bytes s.
Return(ret, s) == /\ last' = [ret |-> ret, text |-> s]
                  /\ unsent' = IF mode = "relay" THEN s ELSE <<>>
                  /\ pc' = CASE mode = "lines" -> "call"
                             [] mode = "relay" /\ ret > 0 -> "write"
                             [] OTHER -> "over"
                  /\ usrbuf' = <<>>
                  /\ UNCHANGED <<mode, sink>>

ReturnFull == /\ pc = "read" /\ Full
              /\ Return(Len(usrbuf), usrbuf)
              /\ UNCHANGED <<peer, rio>>

ReturnAtEof == /\ Reading /\ rio_cnt <= 0 /\ wire = <<>>
               /\ ending = "closed"
               /\ rio_cnt' = 0
               /\ Return(Len(usrbuf), usrbuf)
               /\ UNCHANGED <<peer, rio_buf, rio_bufptr>>

\* ECONNRESET, which the kernel reports once, after the bytes that arrived.
ReturnError == /\ Reading /\ rio_cnt <= 0 /\ wire = <<>>
               /\ ending = "reset"
               /\ ending' = "closed"
               /\ rio_cnt' = -1
               /\ Return(-1, <<>>)
               /\ UNCHANGED <<input, wire, rio_buf, rio_bufptr>>

-------------------------------------------------------------------------------
(* The caller. *)

Call == /\ pc = "call"
        /\ pc' = "read"
        /\ UNCHANGED <<peer, rio, mode, usrbuf, last, unsent, sink>>

\* A request has its last line, or is refused.
Stop == /\ pc = "call" /\ mode = "lines"
        /\ pc' = "over"
        /\ UNCHANGED <<peer, rio, mode, usrbuf, last, unsent, sink>>

\* rio_writen: one write(), which may take less than it is given.
Write == /\ pc = "write"
         /\ \E n \in DOMAIN unsent :
              /\ sink' = sink \o SubSeq(unsent, 1, n)
              /\ unsent' = SubSeq(unsent, n + 1, Len(unsent))
         /\ pc' = IF unsent' = <<>> THEN "call" ELSE "write"
         /\ UNCHANGED <<peer, rio, mode, usrbuf, last>>

\* Any other error ends the process through unix_error; a write to a client
\* that has left raises SIGPIPE, which nothing handles.
Dies == /\ pc = "write" \/ (Reading /\ rio_cnt <= 0)
        /\ pc' = "over"
        /\ UNCHANGED <<peer, rio, mode, usrbuf, last, unsent, sink>>

ThreadStep == \/ Call \/ Refill \/ Copy \/ ReturnFull \/ ReturnAtEof
              \/ ReturnError \/ Write

Next == Arrive \/ Leave \/ ThreadStep \/ ReadInterrupted \/ Stop \/ Dies

SafeSpec == Init /\ [][Next]_vars

\* The thread runs on whenever it has something to do: data that arrived, an
\* end to report, a client that takes what is written.
Spec == SafeSpec /\ WF_vars(ThreadStep)

-------------------------------------------------------------------------------
(* Properties. *)

\* Every variable keeps its type; in particular what rio_read has still to
\* copy lies inside rio_buf, and no call writes past the caller's buffer
\* (rio_read, rio_readlineb and rio_readnb, csapp.c:806-898).
TypeOK ==
  /\ input \in Seq(Byte) /\ wire \in Seq(Byte)
  /\ ending \in {"open", "closed", "reset"}
  /\ rio_buf \in [1 .. BufSize -> Byte \cup {NL}]
  /\ rio_cnt \in -1 .. BufSize
  /\ rio_bufptr \in 1 .. BufSize + 1
  /\ rio_bufptr + rio_cnt <= BufSize + 1
  /\ mode \in {"lines", "relay"}
  /\ pc \in {"call", "read", "write", "over"}
  /\ usrbuf \in Seq(Byte) /\ Len(usrbuf) <= Most
  /\ last.ret \in -1 .. Most /\ last.text \in Seq(Byte)
  /\ unsent \in Seq(Byte) /\ sink \in Seq(Byte)
  /\ pc = "write" <=> (unsent # <<>> /\ pc # "over")

\* The callers of the rio functions see a stream of bytes cut only into lines
\* and full buffers, and the client of a relay is sent every byte that was
\* read, once and in order, whatever counts read() and write() return
\* (csapp.c:776-898, server.c:172-184).
Stream == INSTANCE ByteStream WITH
            pending <- usrbuf \o Unread \o wire,
            over <- pc = "over"

StreamSpec == Stream!Spec

===============================================================================
