------------------------------ MODULE RioProofs ------------------------------
(***************************************************************************)
(* Proofs about Rio, for whatever a peer sends and every size of the       *)
(* buffers.                                                                *)
(***************************************************************************)
EXTENDS Rio, LibraryLemmas

\* TypeOK alone is not inductive: what rio_read copies is a byte the peer has
\* sent only because the unread part of rio_buf holds nothing else; and the
\* calls return whole lines because a line break ends the line in progress.
Inv == /\ TypeOK
       /\ \A i \in rio_bufptr..rio_bufptr + rio_cnt - 1 : rio_buf[i] \in Byte
       /\ pc \in {"call", "write"} => usrbuf = <<>>
       /\ mode = "lines" => \A i \in 1..Len(usrbuf) - 1 : usrbuf[i] # NL

LEMMA MostIsNat == mode \in {"lines", "relay"} => Most \in Nat \ {0}
  BY SizesAssumption DEF Most

\* The unread part of the internal buffer.
LEMMA UnreadProperties ==
  ASSUME Inv
  PROVE  /\ Unread \in Seq(Byte)
         /\ Len(Unread) = IF rio_cnt > 0 THEN rio_cnt ELSE 0
         /\ \A i \in 1..rio_cnt : Unread[i] = rio_buf[rio_bufptr + i - 1]
         /\ rio_cnt <= 0 => Unread = <<>>
  <1>1. rio_cnt \in Int /\ rio_bufptr \in Nat
    BY SizesAssumption DEF Inv, TypeOK
  <1>2. Max({0, rio_cnt}) = IF rio_cnt > 0 THEN rio_cnt ELSE 0
    BY <1>1, MaxOfTwo
  <1>3. CASE rio_cnt > 0
    <2>1. Unread = [i \in 1..rio_cnt |-> rio_buf[rio_bufptr + i - 1]]
      BY <1>2, <1>3 DEF Unread
    <2>2. ASSUME NEW i \in 1..rio_cnt PROVE rio_buf[rio_bufptr + i - 1] \in Byte
      <3>1. rio_bufptr + i - 1 \in rio_bufptr..rio_bufptr + rio_cnt - 1
        BY <1>1
      <3> QED BY <3>1 DEF Inv
    <2> QED BY <1>1, <1>3, <2>1, <2>2
  <1>4. CASE rio_cnt <= 0
    <2>1. Max({0, rio_cnt}) = 0
      BY <1>1, <1>2, <1>4
    <2>2. Unread = [i \in 1..0 |-> rio_buf[rio_bufptr + i - 1]]
      BY <2>1 DEF Unread
    <2>3. Unread \in Seq(Byte) /\ Len(Unread) = 0
      BY <2>2
    <2>4. Unread = <<>>
      BY <2>3, EmptySeq
    <2> QED BY <1>1, <1>4, <2>3, <2>4
  <1> QED BY <1>1, <1>3, <1>4

\* What one rio_read copies, and what it leaves.
LEMMA CopyProperties ==
  ASSUME Inv, Copy
  PROVE  \E cnt \in 1..rio_cnt :
           /\ cnt <= Wanted /\ rio_cnt' = rio_cnt - cnt /\ rio_bufptr' = rio_bufptr + cnt
           /\ usrbuf' = usrbuf \o SubSeq(Unread, 1, cnt) /\ SubSeq(Unread, 1, cnt) \in Seq(Byte)
           /\ Len(usrbuf') = Len(usrbuf) + cnt /\ usrbuf' \in Seq(Byte)
           /\ \A i \in 1..Len(usrbuf) : usrbuf'[i] = usrbuf[i]
  <1>0. pc = "read" /\ ~Full /\ rio_cnt > 0 /\ rio_cnt \in Nat /\ rio_bufptr \in Nat
        /\ usrbuf \in Seq(Byte) /\ Len(usrbuf) \in Nat
    BY SizesAssumption, LenProperties DEF Inv, TypeOK, Copy, Reading
  <1>1. Wanted \in Nat \ {0} /\ Len(usrbuf) + Wanted <= Most
    BY <1>0, MostIsNat, SMTT(60) DEF Inv, TypeOK, Wanted, Full
  <1> DEFINE cnt == Min({Wanted, rio_cnt})
             piece == SubSeq(Unread, 1, cnt)
  <1>2. cnt \in 1..rio_cnt /\ cnt <= Wanted
    BY <1>0, <1>1, MinOfTwo
  <1>3. rio_cnt' = rio_cnt - cnt /\ rio_bufptr' = rio_bufptr + cnt /\ usrbuf' = usrbuf \o piece
    BY DEF Copy
  <1> HIDE DEF cnt
  <1>4. Unread \in Seq(Byte) /\ Len(Unread) = rio_cnt
    BY <1>0, UnreadProperties
  <1>5. piece \in Seq(Byte) /\ Len(piece) = cnt
    BY <1>2, <1>4, SubSeqProperties
  <1> HIDE DEF piece
  <1>6. /\ usrbuf \o piece \in Seq(Byte) /\ Len(usrbuf \o piece) = Len(usrbuf) + cnt
        /\ \A i \in 1..Len(usrbuf) : (usrbuf \o piece)[i] = usrbuf[i]
    BY <1>0, <1>2, <1>5, ConcatProperties, SMTT(60)
  <1> QED BY <1>2, <1>3, <1>5, <1>6 DEF piece

LEMMA InvInit == Init => Inv
  <1> SUFFICES ASSUME Init PROVE Inv
    OBVIOUS
  <1>1. input \in Seq(Byte)
    BY InputsAssumption DEF Init
  <1>2. TypeOK
    BY <1>1, MostIsNat, SizesAssumption DEF Init, TypeOK, Most
  <1> QED BY <1>2 DEF Init, Inv

\* A call that returns leaves nothing in progress.
LEMMA ReturnKeeps ==
  ASSUME Inv, pc = "read", NEW CONSTANT ret, NEW CONSTANT s, Return(ret, s),
         s \in Seq(Byte), ret \in -1..Most, ret > 0 <=> s # <<>>,
         UNCHANGED <<input, wire, rio_buf, rio_bufptr>>,
         rio_cnt' \in -1..rio_cnt \/ rio_cnt' \in -1..0, ending' \in {"open", "closed", "reset"}
  PROVE  Inv'
  <1>1. /\ last' = [ret |-> ret, text |-> s] /\ usrbuf' = <<>> /\ UNCHANGED <<mode, sink>>
        /\ unsent' = IF mode = "relay" THEN s ELSE <<>>
        /\ pc' = CASE mode = "lines" -> "call"
                   [] mode = "relay" /\ ret > 0 -> "write"
                   [] OTHER -> "over"
    BY DEF Return
  <1>2. mode' = mode /\ Most' = Most /\ mode \in {"lines", "relay"} /\ Most \in Nat \ {0}
    BY <1>1, MostIsNat DEF Most, Inv, TypeOK
  <1>3. rio_cnt' \in -1..BufSize /\ rio_bufptr' + rio_cnt' <= BufSize + 1
    BY SizesAssumption, SMTT(60) DEF Inv, TypeOK
  <1>4. TypeOK'
    BY <1>1, <1>2, <1>3 DEF Inv, TypeOK
  <1>5. \A i \in rio_bufptr'..rio_bufptr' + rio_cnt' - 1 : rio_buf'[i] \in Byte
    BY SizesAssumption DEF Inv, TypeOK
  <1> QED BY <1>1, <1>4, <1>5 DEF Inv

LEMMA InvNext == Inv /\ [Next]_vars => Inv'
  <1> SUFFICES ASSUME Inv, [Next]_vars PROVE Inv'
    OBVIOUS
  <1>0. mode \in {"lines", "relay"} /\ Most \in Nat \ {0} /\ (mode' = mode => Most' = Most)
    BY MostIsNat DEF Inv, TypeOK, Most
  <1>1. CASE UNCHANGED vars
    BY <1>0, <1>1 DEF vars, peer, rio, caller, Inv, TypeOK
  <1>2. CASE Arrive
    <2>1. Head(input) \in Byte /\ Tail(input) \in Seq(Byte)
      BY <1>2, HeadTailProperties DEF Arrive, Inv, TypeOK
    <2> QED BY <1>0, <1>2, <2>1, AppendProperties DEF Arrive, rio, caller, Inv, TypeOK
  <1>3. CASE Leave
    BY <1>0, <1>3 DEF Leave, rio, caller, Inv, TypeOK
  <1>4. CASE Call
    BY <1>0, <1>4 DEF Call, peer, rio, Inv, TypeOK
  <1>5. CASE Refill
    <2>1. rio_cnt' = Min({BufSize, Len(wire)}) /\ Len(wire) \in Nat \ {0}
      BY <1>5, LenProperties DEF Refill, Inv, TypeOK
    <2>2. rio_cnt' \in 1..BufSize /\ rio_cnt' \in 1..Len(wire)
      BY <2>1, MinOfTwo, SizesAssumption
    <2>8. PICK n \in 1..BufSize : rio_cnt' = n /\ rio_bufptr' = 1
      BY <1>5, <2>2 DEF Refill
    <2>3. rio_bufptr' = 1 /\ rio_buf' = [i \in 1..BufSize |-> IF i <= rio_cnt' THEN wire[i] ELSE rio_buf[i]]
          /\ wire' = SubSeq(wire, rio_cnt' + 1, Len(wire)) /\ UNCHANGED <<input, ending, caller>>
      BY <1>5 DEF Refill
    <2>4. rio_buf' \in [1..BufSize -> Byte \cup {NL}] /\ \A i \in 1..rio_cnt' : rio_buf'[i] \in Byte
      BY <2>2, <2>3, SizesAssumption, SMTT(60) DEF Inv, TypeOK
    <2>5. wire' \in Seq(Byte)
      <3>1. rio_cnt' \in 0..Len(wire) /\ wire \in Seq(Byte)
        BY <2>2 DEF Inv, TypeOK
      <3> QED BY <2>3, <3>1, CutProperties
    <2>6. TypeOK'
      <3>1. /\ rio_cnt' \in -1..BufSize /\ rio_bufptr' \in 1..BufSize + 1
            /\ rio_bufptr' + rio_cnt' <= BufSize + 1
        BY <2>8, SizesAssumption
      <3>2. UNCHANGED <<input, ending, mode, pc, usrbuf, last, unsent, sink>>
        BY <2>3 DEF caller
      <3> QED BY <1>0, <2>4, <2>5, <3>1, <3>2 DEF Inv, TypeOK
    <2>7. \A i \in rio_bufptr'..rio_bufptr' + rio_cnt' - 1 : rio_buf'[i] \in Byte
      <3>1. rio_bufptr' + rio_cnt' - 1 = rio_cnt'
        BY <2>8
      <3> QED BY <2>3, <2>4, <3>1
    <2> QED BY <2>3, <2>6, <2>7 DEF caller, Inv
  <1>6. CASE Copy
    <2>1. PICK cnt \in 1..rio_cnt :
            /\ cnt <= Wanted /\ rio_cnt' = rio_cnt - cnt /\ rio_bufptr' = rio_bufptr + cnt
            /\ Len(usrbuf') = Len(usrbuf) + cnt /\ usrbuf' \in Seq(Byte)
            /\ \A i \in 1..Len(usrbuf) : usrbuf'[i] = usrbuf[i]
      BY <1>6, CopyProperties
    <2>2. UNCHANGED <<peer, rio_buf, mode, pc, last, unsent, sink>> /\ pc = "read" /\ ~Full
      BY <1>6 DEF Copy, Reading
    <2>3. Len(usrbuf) \in Nat /\ Len(usrbuf) + cnt <= Most
      BY <1>0, <2>1, <2>2, LenProperties DEF Wanted, Full, Inv, TypeOK
    <2>4. TypeOK'
      BY <1>0, <2>1, <2>2, <2>3, SizesAssumption DEF Inv, TypeOK, peer
    <2>5. \A i \in rio_bufptr'..rio_bufptr' + rio_cnt' - 1 : rio_buf'[i] \in Byte
      BY <2>1, <2>2, SizesAssumption DEF Inv, TypeOK
    <2>6. ASSUME mode' = "lines", NEW i \in 1..Len(usrbuf') - 1 PROVE usrbuf'[i] # NL
      <3>1. i \in 1..Len(usrbuf)
        BY <2>1, <2>2, <2>3, <2>6 DEF Wanted
      <3>2. usrbuf[i] # NL
        BY <2>2, <2>3, <2>6, <3>1 DEF Inv, Full
      <3> QED BY <2>1, <3>1, <3>2
    <2> QED BY <2>2, <2>4, <2>5, <2>6 DEF Inv
  <1>7. CASE ReturnFull \/ ReturnAtEof
    <2>1. PICK ret \in -1..Most, s \in Seq(Byte) : Return(ret, s) /\ (ret > 0 <=> s # <<>>)
      BY <1>0, <1>7, LenProperties DEF ReturnFull, ReturnAtEof, Return, Inv, TypeOK
    <2>2. /\ pc = "read" /\ UNCHANGED <<input, wire, ending, rio_buf, rio_bufptr>>
          /\ rio_cnt' \in -1..rio_cnt \/ rio_cnt' \in -1..0
      BY <1>7, SMTT(60) DEF ReturnFull, ReturnAtEof, Reading, peer, rio, Inv, TypeOK
    <2>3. ending' \in {"open", "closed", "reset"}
      BY <2>2 DEF Inv, TypeOK
    <2> QED BY <2>1, <2>2, <2>3, ReturnKeeps
  <1>9. CASE ReturnError
    <2>1. PICK ret \in -1..Most, s \in Seq(Byte) : Return(ret, s) /\ (ret > 0 <=> s # <<>>)
      <3>1. -1 \in -1..Most /\ <<>> \in Seq(Byte)
        BY <1>0
      <3>2. Return(-1, <<>>)
        BY <1>9 DEF ReturnError
      <3>3. -1 > 0 <=> <<>> # <<>>
        OBVIOUS
      <3> QED BY <3>1, <3>2, <3>3, Zenon
    <2>2. /\ pc = "read" /\ UNCHANGED <<input, wire, rio_buf, rio_bufptr>> /\ rio_cnt' \in -1..0
          /\ ending' = "closed"
      BY <1>9 DEF ReturnError, Reading
    <2> QED BY <2>1, <2>2, ReturnKeeps
  <1>10. CASE Write
    <2>1. PICK n \in DOMAIN unsent :
            sink' = sink \o SubSeq(unsent, 1, n) /\ unsent' = SubSeq(unsent, n + 1, Len(unsent))
      BY <1>10 DEF Write
    <2>2. SubSeq(unsent, 1, n) \in Seq(Byte) /\ unsent' \in Seq(Byte)
      <3>1. n \in 0..Len(unsent) /\ unsent \in Seq(Byte)
        BY LenProperties DEF Inv, TypeOK
      <3> QED BY <2>1, <3>1, CutProperties
    <2>3. sink' \in Seq(Byte)
      BY <2>1, <2>2, ConcatProperties DEF Inv, TypeOK
    <2> QED BY <1>0, <1>10, <2>2, <2>3 DEF Write, peer, rio, Inv, TypeOK
  <1>11. CASE ReadInterrupted
    BY <1>0, <1>11, SizesAssumption DEF ReadInterrupted, peer, caller, Inv, TypeOK
  <1>12. CASE Stop \/ Dies
    BY <1>0, <1>12 DEF Stop, Dies, Reading, peer, rio, Inv, TypeOK
  <1> QED BY <1>1, <1>2, <1>3, <1>4, <1>5, <1>6, <1>7, <1>9, <1>10, <1>11, <1>12
          DEF Next, ThreadStep

\* Whatever read() and write() return: what rio_read has still to copy lies
\* inside rio_buf, and no call writes past the caller's buffer.
THEOREM BuffersAreNotOverrun == Spec => []TypeOK
  <1>1. Inv => TypeOK
    BY DEF Inv
  <1> QED BY <1>1, InvInit, InvNext, PTL DEF Spec, SafeSpec

-------------------------------------------------------------------------------
(* The callers see the stream of ByteStream: what a call has copied, what is  *)
(* left in rio_buf and what has arrived are one list, which only the return   *)
(* of a call shortens.                                                        *)

Pending == usrbuf \o Unread \o wire

UnreadIsBuffered == /\ Unread \in Seq(Byte)
                    /\ Len(Unread) = IF rio_cnt > 0 THEN rio_cnt ELSE 0
                    /\ \A i \in 1..rio_cnt : \A j \in Nat :
                         rio_bufptr + i = j + 1 => Unread[i] = rio_buf[j]
                    /\ rio_cnt <= 0 => Unread = <<>>

LEMMA UnreadNext == (Inv => UnreadIsBuffered) /\ (Inv' => UnreadIsBuffered')
  <1>1. Inv => UnreadIsBuffered
    <2> SUFFICES ASSUME Inv PROVE UnreadIsBuffered
      OBVIOUS
    <2>1. \A i \in 1..rio_cnt : \A j \in Nat : rio_bufptr + i = j + 1 => Unread[i] = rio_buf[j]
      <3> SUFFICES ASSUME NEW i \in 1..rio_cnt, NEW j \in Nat, rio_bufptr + i = j + 1
                   PROVE  Unread[i] = rio_buf[j]
        OBVIOUS
      <3>1. rio_bufptr + i - 1 = j
        BY SizesAssumption DEF Inv, TypeOK
      <3> QED BY <3>1, UnreadProperties
    <2> QED BY <2>1, UnreadProperties DEF UnreadIsBuffered
  <1> QED BY <1>1, PTL

\* One list in front of another, cut where they meet.
LEMMA CutWhereJoined ==
  ASSUME NEW S, NEW a \in Seq(S), NEW b \in Seq(S)
  PROVE  /\ SubSeq(a \o b, 1, Len(a)) = a
         /\ SubSeq(a \o b, Len(a) + 1, Len(a \o b)) = b
         /\ Len(a) \in 0..Len(a \o b) /\ DOMAIN (a \o b) = 1..Len(a \o b)
         /\ \A i \in 1..Len(a) : (a \o b)[i] = a[i]
  <1> DEFINE c == a \o b
  <1>1. /\ c \in Seq(S) /\ Len(c) = Len(a) + Len(b) /\ Len(a) \in Nat /\ Len(b) \in Nat
        /\ \A i \in 1..Len(a) : c[i] = a[i]
        /\ \A i \in 1..Len(b) : c[Len(a) + i] = b[i]
    BY ConcatProperties, LenProperties
  <1> HIDE DEF c
  <1>2. Len(a) \in 0..Len(c) /\ DOMAIN c = 1..Len(c)
    BY <1>1, LenProperties
  <1> DEFINE l == SubSeq(c, 1, Len(a))
             r == SubSeq(c, Len(a) + 1, Len(c))
  <1>3. /\ l \in Seq(S) /\ Len(l) = Len(a) /\ \A i \in 1..Len(a) : l[i] = c[i]
        /\ r \in Seq(S) /\ Len(r) = Len(b) /\ \A i \in 1..Len(b) : r[i] = c[Len(a) + i]
    BY <1>1, <1>2, CutProperties
  <1> HIDE DEF l, r
  <1>4. l = a
    BY <1>1, <1>3, SeqEqual
  <1>5. r = b
    BY <1>1, <1>3, SeqEqual
  <1> QED BY <1>1, <1>2, <1>4, <1>5 DEF l, r, c

\* read() moves what has arrived into the buffer, in order.
LEMMA RefillKeepsPending ==
  ASSUME Inv, Inv', Refill
  PROVE  Pending' = Pending
  <1>1. PICK n \in 1..Len(wire) : n = rio_cnt' /\ n \in 1..BufSize
    <2>1. rio_cnt' = Min({BufSize, Len(wire)}) /\ Len(wire) \in Nat \ {0}
      BY LenProperties DEF Refill, Inv, TypeOK
    <2> QED BY <2>1, MinOfTwo, SizesAssumption
  <1>2. /\ rio_cnt' = n /\ rio_bufptr' = 1 /\ wire' = SubSeq(wire, n + 1, Len(wire))
        /\ rio_buf' = [i \in 1..BufSize |-> IF i <= n THEN wire[i] ELSE rio_buf[i]]
        /\ usrbuf' = usrbuf /\ rio_cnt <= 0
    BY <1>1 DEF Refill, caller
  <1>3. Unread = <<>> /\ usrbuf \in Seq(Byte) /\ wire \in Seq(Byte)
    BY <1>2, UnreadNext DEF UnreadIsBuffered, Inv, TypeOK
  <1> DEFINE l == SubSeq(wire, 1, n)
             r == SubSeq(wire, n + 1, Len(wire))
  <1>4. /\ l \in Seq(Byte) /\ Len(l) = n /\ \A i \in 1..n : l[i] = wire[i]
        /\ r \in Seq(Byte) /\ l \o r = wire
    <2>1. n \in 0..Len(wire)
      BY LenProperties, <1>3
    <2> QED BY <1>3, <2>1, CutProperties
  <1> HIDE DEF l, r
  <1>5. Unread' = l
    <2>1. Unread' \in Seq(Byte) /\ Len(Unread') = n
          /\ \A i \in 1..n : \A j \in Nat : 1 + i = j + 1 => Unread'[i] = rio_buf'[j]
      BY <1>1, <1>2, UnreadNext DEF UnreadIsBuffered
    <2>2. ASSUME NEW i \in 1..n PROVE Unread'[i] = l[i]
      <3>1. i \in 1..BufSize /\ i \in Nat /\ 1 + i = i + 1
        BY <1>1, SizesAssumption
      <3>2. rio_buf'[i] = wire[i]
        BY <1>2, <3>1
      <3> QED BY <1>4, <2>1, <3>1, <3>2
    <2> DEFINE u == Unread'
    <2>3. u \in Seq(Byte) /\ Len(u) = Len(l) /\ \A i \in 1..Len(u) : u[i] = l[i]
      BY <1>4, <2>1, <2>2
    <2> HIDE DEF u
    <2>4. u = l
      BY <1>4, <2>3, SeqEqual
    <2> QED BY <2>4 DEF u
  <1>6. Pending' = usrbuf \o l \o r
    BY <1>2, <1>5 DEF Pending, r
  <1>7. usrbuf \o l \o r = usrbuf \o (l \o r)
    <2>1. usrbuf \in Seq(Byte) /\ l \in Seq(Byte) /\ r \in Seq(Byte)
      BY <1>3, <1>4
    <2> QED BY <2>1, ConcatAssociative
  <1>8. Pending = usrbuf \o wire
    BY <1>3, ConcatEmptySeq DEF Pending
  <1> QED BY <1>4, <1>6, <1>7, <1>8

\* rio_read moves bytes from the front of the buffer to the end of usrbuf.
LEMMA CopyKeepsPending ==
  ASSUME Inv, Inv', Copy
  PROVE  Pending' = Pending
  <1>1. PICK n \in 1..rio_cnt :
          /\ rio_cnt' = rio_cnt - n /\ rio_bufptr' = rio_bufptr + n
          /\ usrbuf' = usrbuf \o SubSeq(Unread, 1, n)
    BY CopyProperties
  <1>2. rio_buf' = rio_buf /\ wire' = wire /\ rio_cnt \in Nat /\ rio_bufptr \in Nat
        /\ rio_cnt > 0
    BY SizesAssumption DEF Copy, peer, Inv, TypeOK
  <1>3. Unread \in Seq(Byte) /\ Len(Unread) = rio_cnt
        /\ \A i \in 1..rio_cnt : \A j \in Nat : rio_bufptr + i = j + 1 => Unread[i] = rio_buf[j]
    BY <1>2, UnreadNext DEF UnreadIsBuffered
  <1> DEFINE l == SubSeq(Unread, 1, n)
             r == SubSeq(Unread, n + 1, Len(Unread))
  <1>4. /\ l \in Seq(Byte) /\ r \in Seq(Byte) /\ l \o r = Unread
        /\ Len(r) = rio_cnt - n /\ \A i \in 1..rio_cnt - n : r[i] = Unread[n + i]
    BY <1>1, <1>3, CutProperties, SMTT(60)
  <1> HIDE DEF l, r
  <1>5. Unread' = r
    <2> DEFINE u == Unread'
    <2>1. u \in Seq(Byte) /\ Len(u) = rio_cnt - n
          /\ \A i \in 1..rio_cnt - n : \A j \in Nat :
               rio_bufptr + n + i = j + 1 => u[i] = rio_buf[j]
      <3>1. UnreadIsBuffered'
        BY UnreadNext
      <3>2. rio_cnt - n \in Nat
        BY <1>1, <1>2
      <3>3. PICK c \in Nat, q \in Nat : c = rio_cnt - n /\ q = rio_bufptr + n
                                      /\ rio_cnt' = c /\ rio_bufptr' = q
        BY <1>1, <1>2, <3>2
      <3>4. /\ u \in Seq(Byte) /\ Len(u) = (IF c > 0 THEN c ELSE 0)
            /\ \A i \in 1..c : \A j \in Nat : q + i = j + 1 => u[i] = rio_buf[j]
        BY <1>2, <3>1, <3>3 DEF UnreadIsBuffered
      <3>5. Len(u) = c
        BY <3>4
      <3> QED BY <3>3, <3>4, <3>5
    <2> HIDE DEF u
    <2>2. ASSUME NEW i \in 1..rio_cnt - n PROVE u[i] = r[i]
      <3>1. /\ n + i \in 1..rio_cnt /\ rio_bufptr + n + i - 1 \in Nat
            /\ rio_bufptr + n + i = (rio_bufptr + n + i - 1) + 1
            /\ rio_bufptr + (n + i) = (rio_bufptr + n + i - 1) + 1
        BY <1>1, <1>2
      <3>2. u[i] = rio_buf[rio_bufptr + n + i - 1]
        BY <2>1, <3>1
      <3>3. Unread[n + i] = rio_buf[rio_bufptr + n + i - 1]
        BY <1>3, <3>1
      <3> QED BY <1>4, <3>2, <3>3
    <2>3. u = r
      BY <1>4, <2>1, <2>2, SeqEqual
    <2> QED BY <2>3 DEF u
  <1>6. Pending' = usrbuf \o l \o r \o wire
    BY <1>1, <1>2, <1>5 DEF Pending, l
  <1>7. (usrbuf \o l) \o r = usrbuf \o (l \o r)
    <2>1. usrbuf \in Seq(Byte) /\ l \in Seq(Byte) /\ r \in Seq(Byte)
      BY <1>4 DEF Inv, TypeOK
    <2> QED BY <2>1, ConcatAssociative
  <1> QED BY <1>4, <1>6, <1>7 DEF Pending

LEMMA PendingIsSeq ==
  ASSUME Inv
  PROVE  /\ usrbuf \in Seq(Byte) /\ Unread \in Seq(Byte) /\ wire \in Seq(Byte)
         /\ Unread \o wire \in Seq(Byte) /\ Pending \in Seq(Byte)
         /\ Pending = usrbuf \o (Unread \o wire)
  <1>1. usrbuf \in Seq(Byte) /\ Unread \in Seq(Byte) /\ wire \in Seq(Byte)
    BY UnreadNext DEF UnreadIsBuffered, Inv, TypeOK
  <1>2. Unread \o wire \in Seq(Byte) /\ usrbuf \o Unread \in Seq(Byte)
    BY <1>1, ConcatProperties
  <1>3. (usrbuf \o Unread) \o wire = usrbuf \o (Unread \o wire)
    BY <1>1, ConcatAssociative, SMTT(60)
  <1>4. (usrbuf \o Unread) \o wire \in Seq(Byte)
    BY <1>1, <1>2, ConcatProperties
  <1> QED BY <1>1, <1>2, <1>3, <1>4 DEF Pending

\* Where the line or chunk in progress ends, ByteStream cuts its list.
LEMMA FullEndsFirst ==
  ASSUME Inv, pc = "read", Full
  PROVE  /\ Stream!Whole(Pending) /\ Stream!Min(Stream!Ends(Pending)) = Len(usrbuf)
         /\ Len(usrbuf) \in Nat \ {0}
  <1>1. /\ usrbuf \in Seq(Byte) /\ Unread \o wire \in Seq(Byte) /\ Len(usrbuf) \in Nat \ {0}
        /\ Pending = usrbuf \o (Unread \o wire)
    <2>1. usrbuf # <<>>
      BY MostIsNat, EmptySeq DEF Inv, TypeOK, Full
    <2> QED BY <2>1, PendingIsSeq, EmptySeq
  <1>2. /\ Len(usrbuf) \in 1..Len(Pending) /\ DOMAIN Pending = 1..Len(Pending)
        /\ Len(Pending) \in Nat /\ \A i \in 1..Len(usrbuf) : Pending[i] = usrbuf[i]
    BY <1>1, CutWhereJoined, PendingIsSeq, LenProperties
  <1>3. Stream!Most = Most
    BY DEF Stream!Most, Most
  <1>4. Len(usrbuf) \in Stream!Ends(Pending)
    BY <1>1, <1>2, <1>3 DEF Stream!Ends, Full
  <1>5. ASSUME NEW i \in Stream!Ends(Pending) PROVE Len(usrbuf) <= i
    <2>1. i \in 1..Len(Pending) /\ (i = Most \/ (mode = "lines" /\ Pending[i] = NL))
      BY <1>2, <1>3, <1>5 DEF Stream!Ends
    <2>2. CASE i = Most
      BY <2>2 DEF Inv, TypeOK
    <2>3. CASE mode = "lines" /\ Pending[i] = NL /\ i < Len(usrbuf)
      BY <1>1, <1>2, <2>1, <2>3 DEF Inv
    <2> QED BY <1>1, <2>1, <2>2, <2>3
  <1> HIDE DEF Stream!Ends
  <1>6. Stream!Min(Stream!Ends(Pending)) = Len(usrbuf)
    <2>1. \A i \in Stream!Ends(Pending) : i \in Nat
      BY <1>2 DEF Stream!Ends
    <2>2. \A i \in Stream!Ends(Pending) :
            (\A j \in Stream!Ends(Pending) : i <= j) => i = Len(usrbuf)
      BY <1>1, <1>4, <1>5, <2>1
    <2> QED BY <1>4, <1>5, <2>2 DEF Stream!Min
  <1> QED BY <1>1, <1>4, <1>6 DEF Stream!Whole

LEMMA NotWholeUnlessFull ==
  ASSUME Inv, pc = "read", ~Full, rio_cnt <= 0, wire = <<>>
  PROVE  Pending = usrbuf /\ ~Stream!Whole(Pending)
  <1>1. Pending = usrbuf
    <2>1. Unread = <<>> /\ usrbuf \in Seq(Byte)
      BY UnreadNext DEF UnreadIsBuffered, Inv, TypeOK
    <2> QED BY <2>1, ConcatEmptySeq DEF Pending
  <1>2. Stream!Most = Most /\ DOMAIN usrbuf = 1..Len(usrbuf) /\ Len(usrbuf) \in Nat
    BY LenProperties DEF Stream!Most, Most, Inv, TypeOK
  <1>4. Most \in Nat /\ Len(usrbuf) <= Most /\ Len(usrbuf) # Most
    BY MostIsNat DEF Inv, TypeOK, Full
  <1>5. mode = "lines" => usrbuf = <<>> \/ usrbuf[Len(usrbuf)] # NL
    BY DEF Full
  <1>3. ASSUME NEW i \in Stream!Ends(usrbuf) PROVE FALSE
    <2>1. i \in 1..Len(usrbuf) /\ (i = Most \/ (mode = "lines" /\ usrbuf[i] = NL))
      BY <1>2, <1>3 DEF Stream!Ends
    <2>2. mode = "lines" /\ usrbuf[i] = NL
      <3>1. i # Most
        <4>1. PICK n \in Nat, most \in Nat : n = Len(usrbuf) /\ most = Most
          BY <1>2, <1>4
        <4>2. i \in 1..n /\ n <= most /\ n # most
          BY <1>4, <2>1, <4>1
        <4> QED BY <4>1, <4>2
      <3> QED BY <2>1, <3>1
    <2>3. i \in 1..Len(usrbuf) - 1
      BY <1>2, <1>5, <2>1, <2>2, EmptySeq
    <2> QED BY <2>2, <2>3 DEF Inv
  <1> QED BY <1>1, <1>3 DEF Stream!Whole

-------------------------------------------------------------------------------
(* Every step of Rio is a step of ByteStream or leaves its variables alone.   *)

LEMMA StreamInit == Init => Stream!Init
  <1> SUFFICES ASSUME Init PROVE Stream!Init
    OBVIOUS
  <1>1. Inv /\ usrbuf = <<>> /\ wire = <<>> /\ rio_cnt <= 0
    BY InvInit DEF Init
  <1>2. Unread = <<>>
    BY <1>1, UnreadNext DEF UnreadIsBuffered
  <1>3. usrbuf \o Unread \o wire = <<>>
    BY <1>1, <1>2, PendingIsSeq, ConcatEmptySeq
  <1> QED BY <1>3 DEF Init, Stream!Init

\* What a step that leaves usrbuf and the internal buffer alone keeps.
LEMMA UnreadSame == UNCHANGED rio => Unread' = Unread
  BY DEF rio, Unread

LEMMA StreamStutters ==
  ASSUME Pending' = Pending, UNCHANGED <<mode, input, ending, last, unsent, sink>>,
         (pc' = "over") = (pc = "over")
  PROVE  UNCHANGED Stream!vars
  BY DEF Stream!vars, Pending

LEMMA ArriveMaps ==
  ASSUME Inv, Arrive
  PROVE  Stream!Arrive
  <1>1. Unread' = Unread /\ usrbuf' = usrbuf
    BY UnreadSame DEF Arrive, caller
  <1> DEFINE q == usrbuf \o Unread
  <1>2. q \in Seq(Byte) /\ wire \in Seq(Byte) /\ Head(input) \in Byte
    <2>1. Head(input) \in Byte
      BY HeadTailProperties DEF Arrive, Inv, TypeOK
    <2> QED BY <2>1, PendingIsSeq, ConcatProperties
  <1>3. q' = q
    BY <1>1
  <1> HIDE DEF q
  <1>4. q \o Append(wire, Head(input)) = Append(q \o wire, Head(input))
    <2>1. /\ <<Head(input)>> \in Seq(Byte) /\ q \o wire \in Seq(Byte)
          /\ Append(wire, Head(input)) = wire \o <<Head(input)>>
          /\ Append(q \o wire, Head(input)) = (q \o wire) \o <<Head(input)>>
      BY <1>2, ConcatProperties, AppendIsConcat
    <2>2. (q \o wire) \o <<Head(input)>> = q \o (wire \o <<Head(input)>>)
      BY <1>2, <2>1, ConcatAssociative
    <2> QED BY <2>1, <2>2
  <1>5. (usrbuf \o Unread \o wire)' = Append(usrbuf \o Unread \o wire, Head(input))
    BY <1>3, <1>4 DEF Arrive, q
  <1> QED BY <1>5 DEF Arrive, caller, Stream!Arrive

LEMMA LeaveMaps ==
  ASSUME Inv, Leave
  PROVE  Stream!Leave
  <1>1. Unread' = Unread
    BY UnreadSame DEF Leave
  <1> QED BY <1>1 DEF Leave, caller, Stream!Leave

LEMMA WriteMaps ==
  ASSUME Inv, Write
  PROVE  Stream!WriteSome
  <1>1. Unread' = Unread
    BY UnreadSame DEF Write
  <1>2. pc # "over" /\ pc' # "over"
    BY DEF Write
  <1> QED BY <1>1, <1>2 DEF Write, peer, Stream!WriteSome

LEMMA StopMaps ==
  ASSUME Inv, Stop \/ Dies
  PROVE  Stream!Stop
  <1>1. Unread' = Unread
    BY UnreadSame DEF Stop, Dies
  <1>2. pc # "over" /\ pc' = "over"
    BY DEF Stop, Dies, Reading
  <1> QED BY <1>1, <1>2 DEF Stop, Dies, peer, Stream!Stop

\* What the return of a call leaves of the stream.
LEMMA ReturnLeaves ==
  ASSUME Inv, Inv', UNCHANGED <<wire, rio>> \/ (UNCHANGED wire /\ wire = <<>> /\ rio_cnt <= 0 /\ rio_cnt' <= 0),
         usrbuf' = <<>>
  PROVE  Pending' = Unread \o wire
  <1>1. Unread' \in Seq(Byte) /\ (rio_cnt' <= 0 => Unread' = <<>>)
        /\ (rio_cnt <= 0 => Unread = <<>>) /\ Unread \in Seq(Byte)
    BY UnreadNext DEF UnreadIsBuffered
  <1>2. Unread' = Unread /\ wire' = wire
    BY <1>1, UnreadSame
  <1>3. <<>> \o Unread = Unread
    BY <1>1, ConcatEmptySeq
  <1> QED BY <1>2, <1>3 DEF Pending

LEMMA ReturnFullMaps ==
  ASSUME Inv, Inv', ReturnFull
  PROVE  Stream!ReadWhole
  <1>1. pc = "read" /\ Full /\ Return(Len(usrbuf), usrbuf) /\ UNCHANGED <<peer, rio>>
    BY DEF ReturnFull
  <1>2. Stream!Whole(Pending) /\ Stream!Min(Stream!Ends(Pending)) = Len(usrbuf)
        /\ Len(usrbuf) \in Nat \ {0}
    BY <1>1, FullEndsFirst
  <1>3. SubSeq(Pending, 1, Len(usrbuf)) = usrbuf
        /\ SubSeq(Pending, Len(usrbuf) + 1, Len(Pending)) = Unread \o wire
    <2> DEFINE b == Unread \o wire
    <2>1. usrbuf \in Seq(Byte) /\ b \in Seq(Byte) /\ Pending = usrbuf \o b
      BY PendingIsSeq
    <2> HIDE DEF b
    <2>2. SubSeq(usrbuf \o b, 1, Len(usrbuf)) = usrbuf
          /\ SubSeq(usrbuf \o b, Len(usrbuf) + 1, Len(usrbuf \o b)) = b
      BY <2>1, CutWhereJoined
    <2> QED BY <2>1, <2>2 DEF b
  <1>4. usrbuf' = <<>> /\ UNCHANGED <<wire, rio>>
    BY <1>1 DEF Return, peer
  <1>5. Pending' = Unread \o wire
    BY <1>4, ReturnLeaves
  <1>6. usrbuf # <<>>
    BY <1>2, EmptySeq
  <1>7. Stream!Gives(usrbuf)
    <2>1. (pc' = "over") = (mode = "relay" /\ usrbuf = <<>>)
      BY <1>1, <1>2, <1>6, SMTT(60) DEF Return, Inv, TypeOK
    <2> QED BY <1>1, <2>1 DEF Return, Stream!Gives
  <1>8. unsent = <<>> /\ pc # "over"
    BY <1>1 DEF Inv, TypeOK
  <1> HIDE DEF Pending
  <1>9. /\ Stream!Reading /\ Stream!Whole(Pending)
        /\ Stream!Gives(SubSeq(Pending, 1, Stream!Min(Stream!Ends(Pending))))
        /\ Pending' = SubSeq(Pending, Stream!Min(Stream!Ends(Pending)) + 1, Len(Pending))
        /\ UNCHANGED <<mode, input, ending, sink>>
    BY <1>1, <1>2, <1>3, <1>5, <1>7, <1>8 DEF Return, peer, Stream!Reading
  <1> QED BY <1>9 DEF Stream!ReadWhole, Pending

LEMMA ReturnAtEofMaps ==
  ASSUME Inv, Inv', ReturnAtEof
  PROVE  Stream!ReadRest
  <1>1. /\ pc = "read" /\ ~Full /\ rio_cnt <= 0 /\ wire = <<>> /\ ending = "closed"
        /\ Return(Len(usrbuf), usrbuf) /\ UNCHANGED peer /\ rio_cnt' = 0
    BY DEF ReturnAtEof, Reading
  <1>2. Pending = usrbuf /\ ~Stream!Whole(Pending)
    BY <1>1, NotWholeUnlessFull
  <1>3. usrbuf' = <<>> /\ wire' = wire /\ rio_cnt' <= 0
    BY <1>1 DEF Return, peer
  <1>4. Unread \o wire = <<>>
    <2>1. Unread = <<>>
      BY <1>1, UnreadNext DEF UnreadIsBuffered
    <2> QED BY <1>1, <2>1, PendingIsSeq, ConcatEmptySeq
  <1>5. Pending' = <<>>
    BY <1>1, <1>3, <1>4, ReturnLeaves
  <1>6. Stream!Gives(usrbuf)
    <2>1. Len(usrbuf) > 0 <=> usrbuf # <<>>
      <3>1. usrbuf \in Seq(Byte) /\ Len(<<>>) = 0
        BY DEF Inv, TypeOK
      <3> QED BY <3>1, EmptySeq
    <2>2. (pc' = "over") = (mode = "relay" /\ usrbuf = <<>>)
      BY <1>1, <2>1 DEF Return, Inv, TypeOK
    <2> QED BY <1>1, <2>2 DEF Return, Stream!Gives
  <1>7. unsent = <<>> /\ pc # "over"
    BY <1>1 DEF Inv, TypeOK
  <1> HIDE DEF Pending
  <1>8. /\ Stream!Reading /\ ~Stream!Whole(Pending) /\ ending = "closed"
        /\ Stream!Gives(Pending) /\ Pending' = <<>> /\ UNCHANGED <<mode, input, ending, sink>>
    BY <1>1, <1>2, <1>5, <1>6, <1>7 DEF Return, peer, Stream!Reading
  <1> QED BY <1>8 DEF Stream!ReadRest, Pending

LEMMA ReturnErrorMaps ==
  ASSUME Inv, Inv', ReturnError
  PROVE  Stream!ReadFails
  <1>1. /\ pc = "read" /\ ~Full /\ rio_cnt <= 0 /\ wire = <<>> /\ ending = "reset"
        /\ ending' = "closed" /\ Return(-1, <<>>) /\ UNCHANGED <<input, wire>> /\ rio_cnt' <= 0
    BY DEF ReturnError, Reading
  <1>2. ~Stream!Whole(Pending)
    BY <1>1, NotWholeUnlessFull
  <1>3. usrbuf' = <<>>
    BY <1>1 DEF Return
  <1>4. Unread \o wire = <<>>
    <2>1. Unread = <<>>
      BY <1>1, UnreadNext DEF UnreadIsBuffered
    <2> QED BY <1>1, <2>1, PendingIsSeq, ConcatEmptySeq
  <1>5. Pending' = <<>>
    BY <1>1, <1>3, <1>4, ReturnLeaves
  <1>6. unsent = <<>> /\ unsent' = <<>> /\ pc # "over" /\ ((pc' = "over") = (mode = "relay"))
    BY <1>1 DEF Inv, TypeOK, Return
  <1> HIDE DEF Pending
  <1>7. Stream!Reading /\ ~Stream!Whole(Pending) /\ Pending' = <<>> /\ ending = "reset"
        /\ last' = [ret |-> -1, text |-> <<>>] /\ ending' = "closed"
        /\ UNCHANGED <<mode, input, unsent, sink>>
    BY <1>1, <1>2, <1>5, <1>6 DEF Return, Stream!Reading
  <1> QED BY <1>6, <1>7 DEF Stream!ReadFails, Pending

LEMMA StreamNext == Inv /\ Inv' /\ [Next]_vars => [Stream!Next]_Stream!vars
  <1> SUFFICES ASSUME Inv, Inv', [Next]_vars PROVE Stream!Next \/ UNCHANGED Stream!vars
    OBVIOUS
  <1>1. CASE UNCHANGED vars
    <2>1. UNCHANGED <<wire, usrbuf, rio>> /\ UNCHANGED <<mode, input, ending, last, unsent, sink, pc>>
      BY <1>1 DEF vars, peer, rio, caller
    <2> QED BY <2>1, UnreadSame, StreamStutters DEF Pending
  <1>2. CASE Call
    <2>1. UNCHANGED <<wire, usrbuf, rio>> /\ UNCHANGED <<mode, input, ending, last, unsent, sink>>
          /\ pc = "call" /\ pc' = "read"
      BY <1>2 DEF Call, peer
    <2> QED BY <2>1, UnreadSame, StreamStutters DEF Pending
  <1>3. CASE Refill
    <2>1. UNCHANGED <<mode, input, ending, last, unsent, sink, pc>>
      BY <1>3 DEF Refill, caller
    <2> QED BY <1>3, <2>1, RefillKeepsPending, StreamStutters
  <1>4. CASE Copy
    <2>1. UNCHANGED <<mode, input, ending, last, unsent, sink, pc>>
      BY <1>4 DEF Copy, peer
    <2> QED BY <1>4, <2>1, CopyKeepsPending, StreamStutters
  <1>5. CASE ReadInterrupted
    <2>1. UNCHANGED <<wire, usrbuf>> /\ UNCHANGED <<mode, input, ending, last, unsent, sink, pc>>
          /\ rio_cnt = 0 /\ rio_cnt' = -1
      BY <1>5 DEF ReadInterrupted, peer, caller
    <2>2. Unread = <<>> /\ Unread' = <<>>
      BY <2>1, UnreadNext DEF UnreadIsBuffered
    <2> QED BY <2>1, <2>2, StreamStutters DEF Pending
  <1> QED BY <1>1, <1>2, <1>3, <1>4, <1>5, ArriveMaps, LeaveMaps, WriteMaps, StopMaps,
             ReturnFullMaps, ReturnAtEofMaps, ReturnErrorMaps
          DEF Next, ThreadStep, Stream!Next

\* The callers of the rio functions see the bytes of the peer in order and each
\* once, cut only into lines and full buffers, and the client of a relay is
\* sent what was read: the safety part of StreamSpec (csapp.c:776-898,
\* server.c:172-184). That ByteStream also makes progress stays with TLC.
THEOREM ReadsAsByteStream == Spec => Stream!SafeSpec
  <1>1. Spec => []Inv /\ [][Next]_vars /\ Init
    BY InvInit, InvNext, PTL DEF Spec, SafeSpec
  <1>2. [][Next]_vars /\ []Inv => [][Stream!Next]_Stream!vars
    BY StreamNext, PTL
  <1> QED BY <1>1, <1>2, StreamInit, PTL DEF Stream!SafeSpec
===============================================================================
