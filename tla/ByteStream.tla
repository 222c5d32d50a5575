------------------------------ MODULE ByteStream ------------------------------
(***************************************************************************)
(* What the proxy relies on when it reads a connection through the rio     *)
(* functions of proxylab_code/csapp.c.  The bytes of the peer come back in *)
(* the order they were sent, each once, and a call returns less than a     *)
(* whole line or a full buffer only at the end of the connection, however  *)
(* the network cut the bytes up.  Relaying writes what each call returned, *)
(* all of it, before the next call.                                        *)
(*                                                                         *)
(* There is no buffer here and no system call: Rio is shown to implement   *)
(* this module.                                                            *)
(***************************************************************************)
EXTENDS Integers, Sequences, FiniteSetsExt

CONSTANTS Inputs,       \* what a peer may send: sequences of bytes
          NL,           \* the byte that ends a line
          MaxLine       \* MAXLINE, the size of the callers' buffers

VARIABLES mode,         \* "lines": the caller reads a request;
                        \* "relay": it copies a response to the client
          input,        \* what the peer has still to send
          pending,      \* what it has sent and no call has returned
          ending,       \* how the peer has left: "open", "closed" or "reset"
          last,         \* what the last call returned, and the bytes with it
          unsent,       \* what the relay has still to write of those
          sink,         \* what the client has been sent
          over          \* the caller reads no more

vars == <<mode, input, pending, ending, last, unsent, sink, over>>

\* A line leaves room for the terminator, a chunk of a response needs none.
Most == IF mode = "lines" THEN MaxLine - 1 ELSE MaxLine

\* Where a line or chunk that starts the bytes s can end.
Ends(s) == {i \in DOMAIN s : i = Most \/ (mode = "lines" /\ s[i] = NL)}

Whole(s) == Ends(s) # {}

Init == /\ mode \in {"lines", "relay"}
        /\ input \in Inputs
        /\ pending = <<>> /\ unsent = <<>> /\ sink = <<>>
        /\ ending = "open"
        /\ last = [ret |-> 0, text |-> <<>>]
        /\ over = FALSE

Arrive == /\ ending = "open" /\ input # <<>>
          /\ input' = Tail(input)
          /\ pending' = Append(pending, Head(input))
          /\ UNCHANGED <<mode, ending, last, unsent, sink, over>>

Leave == /\ ending = "open"
         /\ ending' \in {"closed", "reset"}
         /\ UNCHANGED <<mode, input, pending, last, unsent, sink, over>>

\* A call returns the bytes s.
Gives(s) == /\ last' = [ret |-> Len(s), text |-> s]
            /\ unsent' = IF mode = "relay" THEN s ELSE <<>>
            /\ over' = (mode = "relay" /\ s = <<>>)

Reading == ~over /\ unsent = <<>>

ReadWhole == /\ Reading /\ Whole(pending)
             /\ LET n == Min(Ends(pending))
                IN  /\ Gives(SubSeq(pending, 1, n))
                    /\ pending' = SubSeq(pending, n + 1, Len(pending))
             /\ UNCHANGED <<mode, input, ending, sink>>

ReadRest == /\ Reading /\ ~Whole(pending)
            /\ ending = "closed"
            /\ Gives(pending)
            /\ pending' = <<>>
            /\ UNCHANGED <<mode, input, ending, sink>>

\* A reset is reported once, and the piece of a line or chunk before it is
\* not handed over.
ReadFails == /\ Reading /\ ~Whole(pending)
             /\ ending = "reset"
             /\ ending' = "closed"
             /\ pending' = <<>>
             /\ last' = [ret |-> -1, text |-> <<>>]
             /\ over' = (mode = "relay")
             /\ UNCHANGED <<mode, input, unsent, sink>>

WriteSome == \E n \in DOMAIN unsent :
               /\ sink' = sink \o SubSeq(unsent, 1, n)
               /\ unsent' = SubSeq(unsent, n + 1, Len(unsent))
               /\ UNCHANGED <<mode, input, pending, ending, last, over>>

\* The caller has its request, or the process is gone.
Stop == /\ ~over
        /\ over' = TRUE
        /\ UNCHANGED <<mode, input, pending, ending, last, unsent, sink>>

Next == \/ Arrive \/ Leave
        \/ ReadWhole \/ ReadRest \/ ReadFails
        \/ WriteSome \/ Stop

SafeSpec == Init /\ [][Next]_vars

\* No whole line or chunk is kept back while the reader waits for more, and a
\* relay comes to its end once the server has left.
Progress == /\ []<>(over \/ ~Whole(pending))
            /\ (mode = "relay" /\ ending # "open") ~> over

Spec == SafeSpec /\ Progress
===============================================================================
