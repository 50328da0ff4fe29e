------------------------------ MODULE RxPieces ------------------------------
(***************************************************************************)
(* The unread data of a socket.  The receive buffer is circular, so libtas *)
(* reports new data in at most two parts (lib/tas/init.c), and the socket  *)
(* keeps what was not read as at most two pieces of the buffer             *)
(* (lib/sockets/context.c), from which tas_recvmsg and recv_simple copy    *)
(* (lib/sockets/transfer.c).  A byte is named by its place in the buffer.  *)
(***************************************************************************)
EXTENDS Integers, Sequences

CONSTANTS RxLen,   \* bytes of the receive buffer
          IovLens  \* lengths of the buffers that applications pass

VARIABLES rxb,     \* head and used of libtas
          evs,     \* events that were reported and not handled yet
          buf, len,\* rx_buf_1, rx_buf_2 and rx_len_1, rx_len_2
          next,    \* the place of the next byte of the stream to read
          wrong    \* a byte was read out of order, or a third piece needed

rxVars == <<rxb, evs, buf, len, next, wrong>>

NULL == -1
Wrap(p) == IF p >= RxLen THEN p - RxLen ELSE p

Init ==
  /\ rxb = [head |-> 0, used |-> 0] /\ evs = <<>>
  /\ buf = <<NULL, NULL>> /\ len = <<0, 0>> /\ next = 0 /\ wrong = FALSE

\* event_arx_connupdate: the part before the end of the buffer and the rest
NewParts(n) ==
  LET first == RxLen - rxb.head
  IN IF rxb.head + n > RxLen
     THEN <<[buf |-> rxb.head, len |-> first], [buf |-> 0, len |-> n - first]>>
     ELSE <<[buf |-> rxb.head, len |-> n]>>

Received(n) ==
  /\ n <= RxLen - rxb.used
  /\ evs' = evs \o NewParts(n)
  /\ rxb' = [head |-> Wrap(rxb.head + n), used |-> rxb.used + n]
  /\ UNCHANGED <<buf, len, next, wrong>>

\* Mutation of Piece: data is appended to the only piece without looking where
\* it lies.
append_blindly(x) ==
  IF len[1] = 0 THEN "first" ELSE IF len[2] = 0 THEN "append1"
  ELSE IF x.buf = buf[2] + len[2] THEN "append2" ELSE "second"

\* Where the data of an event belongs.
Piece(x) ==
  IF len[1] = 0 THEN "first"
  ELSE IF len[2] = 0 /\ x.buf = buf[1] + len[1] THEN "append1"
  ELSE IF x.buf = buf[2] + len[2] THEN "append2" ELSE "second"

ev_conn_received ==
  /\ evs # <<>>
  /\ LET x == Head(evs)
         p == Piece(x)
     IN /\ buf' = CASE p = "first" -> [buf EXCEPT ![1] = x.buf]
                    [] p = "second" -> [buf EXCEPT ![2] = x.buf]
                    [] OTHER -> buf
        /\ len' = CASE p = "first" -> <<x.len, 0>>
                    [] p = "append1" -> [len EXCEPT ![1] = @ + x.len]
                    [] p = "append2" -> [len EXCEPT ![2] = @ + x.len]
                    [] p = "second" -> [len EXCEPT ![2] = x.len]
        /\ wrong' = (wrong \/ (p = "second" /\ len[2] # 0))
  /\ evs' = Tail(evs)
  /\ UNCHANGED <<rxb, next>>

\* What one buffer of iov bytes takes of the pieces s: all of the first piece
\* and then of the second, or a part of the first.
Take(s, iov) ==
  LET off == IF s.len[1] <= iov THEN s.len[1] ELSE 0
      t == IF s.len[1] <= iov
           THEN [s EXCEPT !.buf = <<s.buf[2], NULL>>, !.len = <<s.len[2], 0>>] ELSE s
      n == IF t.len[1] <= iov - off THEN t.len[1] ELSE iov - off
      mid == Wrap(s.next + off)
  IN [buf |-> [t.buf EXCEPT ![1] = @ + n], len |-> [t.len EXCEPT ![1] = @ - n],
      next |-> Wrap(mid + n), ret |-> s.ret + off + n,
      wrong |-> s.wrong \/ (off > 0 /\ s.buf[1] # s.next)
                        \/ (n > 0 /\ t.buf[1] # mid)]

Unread == [buf |-> buf, len |-> len, next |-> next, ret |-> 0, wrong |-> wrong]

Apply(s) ==
  /\ buf' = s.buf /\ len' = s.len /\ next' = s.next /\ wrong' = s.wrong
  /\ rxb' = [rxb EXCEPT !.used = @ - s.ret]
  /\ UNCHANGED evs

recv_simple(iov) == len[1] > 0 /\ Apply(Take(Unread, iov))

tas_recvmsg(iov1, iov2) ==
  /\ len[1] > 0
  /\ LET s == Take(Unread, iov1)
     IN Apply(IF s.len[1] > 0 THEN Take(s, iov2) ELSE s)

Next ==
  \/ \E n \in 1 .. RxLen : Received(n)
  \/ ev_conn_received
  \/ \E iov \in IovLens : recv_simple(iov)
  \/ \E iov1, iov2 \in IovLens : tas_recvmsg(iov1, iov2)

\* The application reads the stream in order and without gaps, and never more
\* than two pieces are needed, the case in which ev_conn_received aborts.
ReadsInOrder == ~ wrong
=============================================================================
