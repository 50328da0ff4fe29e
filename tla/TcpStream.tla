----------------------------- MODULE TcpStream -----------------------------
(***************************************************************************)
(* Two TAS hosts with one established connection between them.  Each end   *)
(* has a flow of the fast path (FlowOps), its circular transmit and        *)
(* receive buffers in packet memory, and an application that writes,       *)
(* reads and closes through libtas (lib/tas/conn.c).  The network loses,   *)
(* duplicates and reorders segments.                                       *)
(*                                                                         *)
(* A byte is its offset in the stream its end writes, so that a byte       *)
(* delivered in the wrong place is seen.  An application learns of arrived *)
(* and acknowledged bytes in the step that handles the segment and its     *)
(* updates reach the flow in the step that makes them: a later one only    *)
(* delays what it does next.  How updates cross the queues between them is *)
(* the subject of ConnBump.                                                *)
(***************************************************************************)
EXTENDS FlowOps, Sequences, FiniteSets

CONSTANTS Isn,       \* sequence number of each end's first byte
          Plans      \* what the applications may do, and the bound on the
                     \* network: total, the bytes each end writes, closers,
                     \* the ends that close after that, and room, the
                     \* segments under way to each end

Side == {"A", "B"}
Peer(s) == IF s = "A" THEN "B" ELSE "A"

ASSUME StreamAssumption ==
  /\ Isn \in [Side -> SeqNum]
  /\ Plans \subseteq [total : [Side -> Nat], closers : SUBSET Side,
                     room : [Side -> Nat \ {0}]]

VARIABLES plan,     \* the member of Plans of this behaviour
          fs,       \* flow of each end
          txbuf,    \* transmit buffer of each end
          rxbuf,    \* receive buffer of each end
          wr,       \* bytes the application has written
          out,      \* bytes the application has read
          net       \* segments on their way to each end

vars == <<plan, fs, txbuf, rxbuf, wr, out, net>>
-----------------------------------------------------------------------------
\* flow_tx_read: len bytes of a circular buffer from position pos on
flow_tx_read(buf, pos, len) == [k \in 1 .. len |-> buf[(pos + k - 1) % TxLen]]

\* flow_rx_write: the bytes data go to position pos of a circular buffer
flow_rx_write(buf, pos, data) ==
  [i \in DOMAIN buf |->
     LET k == (((i + RxLen) - pos) % RxLen) + 1
     IN IF k <= Len(data) THEN data[k] ELSE buf[i]]

\* Mutation of SeqPos: out-of-order bytes go to the next position.
SeqPos_next(f, seq) == f.rx_next_pos

\* flow_rx_seq_write: the position of an out-of-order byte
SeqPos(f, seq) == Wrap(f.rx_next_pos + SeqSub(seq, f.rx_next_seq), RxLen)

\* the payload bytes that are left after trimming
Payload(f, p) ==
  LET trim == tcp_trim_rxbuf(f, p.seg.seq, p.seg.len)
  IN SubSeq(p.data, trim.trim_start + 1, p.seg.len - trim.trim_end)

\* what fast_flows_packet writes to the receive buffer
RxStore(buf, f, p) ==
  IF ToSlowpath(f, p.seg) \/ FastRetransmit(f, p.seg) \/ Outside(f, p.seg) THEN buf
  ELSE IF InOrder(f, p.seg)
    THEN IF f.rxfin THEN buf ELSE flow_rx_write(buf, f.rx_next_pos, Payload(f, p))
  ELSE IF OooFits(f, First(f, p.seg), Bytes(f, p.seg))
    THEN flow_rx_write(buf, SeqPos(f, First(f, p.seg)), Payload(f, p))
  ELSE buf

\* bytes in the receive buffer that the application has not read: rxb_used
Unread(s) == RxLen - fs[s].rx_avail

\* the network towards the peer of s after s sends m, if m is not lost
Sent(s, m, lost) == net[Peer(s)] \cup (IF lost THEN {} ELSE {m})

\* a segment is lost, or there is room for it below the bound
Through(s, lost) == lost \/ Cardinality(net[Peer(s)]) < plan.room[Peer(s)]

\* room in the transmit buffer: conn_tx_allocbytes
Room(s) == TxLen - (fs[s].tx_avail + fs[s].tx_sent)

\* an update from the application; they arrive in order here
Update(rx, tx, done) == [seq |-> 0, rx |-> rx, tx |-> tx, done |-> done]
-----------------------------------------------------------------------------
Init ==
  /\ plan \in Plans
  /\ fs = [s \in Side |-> nicif_connection_add(Isn[s], Isn[Peer(s)])]
  /\ txbuf = [s \in Side |-> [i \in 0 .. TxLen - 1 |-> 0]]
  /\ rxbuf = [s \in Side |-> [i \in 0 .. RxLen - 1 |-> 0]]
  /\ wr = [s \in Side |-> 0]
  /\ out = [s \in Side |-> <<>>]
  /\ net = [s \in Side |-> {}]

\* flextcp_connection_tx_alloc, tx_send and the bump they cause
Write(s, n) ==
  /\ n <= Room(s) /\ wr[s] + n <= plan.total[s] /\ ~ fs[s].txfin
  /\ txbuf' = [txbuf EXCEPT ![s] =
                 [i \in DOMAIN @ |->
                    LET k == ((i + wr[s] * TxLen) - wr[s]) % TxLen
                    IN IF k < n THEN wr[s] + k ELSE @[i]]]
  /\ wr' = [wr EXCEPT ![s] = @ + n]
  /\ fs' = [fs EXCEPT ![s] = fast_flows_bump(@, Update(0, n, FALSE))]
  /\ UNCHANGED <<plan, rxbuf, out, net>>

\* flextcp_connection_tx_close and flextcp_conn_pushtxeos: the FIN takes a
\* dummy byte of the transmit buffer, and waits until there is room for it
Close(s) ==
  /\ s \in plan.closers /\ wr[s] = plan.total[s] /\ ~ fs[s].txfin /\ Room(s) > 0
  /\ fs' = [fs EXCEPT ![s] = fast_flows_bump(@, Update(0, 1, TRUE))]
  /\ UNCHANGED <<plan, txbuf, rxbuf, wr, out, net>>

\* Mutation of Read: the bytes after the end of the buffer are not taken from
\* its start.
Read_unwrapped(s, n, lost) ==
  /\ n <= Unread(s) /\ ~ lost
  /\ fs' = [fs EXCEPT ![s] = fast_flows_bump(@, Update(n, 0, FALSE))]
  /\ out' = [out EXCEPT ![s] =
               @ \o [k \in 1 .. n |->
                       rxbuf[s][Min2((Len(@) % RxLen) + k - 1, RxLen - 1)]]]
  /\ UNCHANGED <<plan, txbuf, rxbuf, wr, net>>

\* the application reads n bytes and calls flextcp_connection_rx_done
Read(s, n, lost) ==
  /\ n <= Unread(s)
  /\ LET b == Update(n, 0, FALSE)
         ack == [seg |-> flow_tx_ack(fast_flows_bump(fs[s], b)), data |-> <<>>]
     IN /\ fs' = [fs EXCEPT ![s] = fast_flows_bump(@, b)]
        /\ IF WindowUpdate(fs[s], b)
             THEN /\ Through(s, lost)
                  /\ net' = [net EXCEPT ![Peer(s)] = Sent(s, ack, lost)]
             ELSE ~ lost /\ UNCHANGED net
  /\ out' = [out EXCEPT ![s] =
               @ \o [k \in 1 .. n |-> rxbuf[s][(Len(@) + k - 1) % RxLen]]]
  /\ UNCHANGED <<plan, txbuf, rxbuf, wr>>

\* fast_flows_qman: the next segment
Transmit(s, lost) ==
  /\ Avail(fs[s]) > 0 /\ Through(s, lost)
  /\ LET seg == flow_tx_segment(fs[s])
         data == flow_tx_read(txbuf[s], fs[s].tx_next_pos, seg.len)
     IN net' = [net EXCEPT ![Peer(s)] =
                  Sent(s, [seg |-> seg, data |-> data], lost)]
  /\ fs' = [fs EXCEPT ![s] = fast_flows_qman(@)]
  /\ UNCHANGED <<plan, txbuf, rxbuf, wr, out>>

\* fast_flows_packet: a segment arrives, and may arrive again
Receive(s, dup, lost) ==
  /\ \E p \in net[s] :
       LET f == fast_flows_packet(fs[s], p.seg)
           rest == IF dup THEN net[s] ELSE net[s] \ {p}
           ack == [seg |-> flow_tx_ack(f), data |-> <<>>]
       IN /\ IF TriggerAck(fs[s], p.seg)
               THEN /\ Through(s, lost)
                    /\ net' = [net EXCEPT ![s] = rest,
                                          ![Peer(s)] = Sent(s, ack, lost)]
               ELSE ~ lost /\ net' = [net EXCEPT ![s] = rest]
          /\ fs' = [fs EXCEPT ![s] = f]
          /\ rxbuf' = [rxbuf EXCEPT ![s] = RxStore(@, fs[s], p)]
  /\ UNCHANGED <<plan, txbuf, wr, out>>

\* fast_flows_retransmit, when the slow path sees no acknowledgements; it may
\* be wrong about the loss
Retransmit(s) ==
  /\ fs[s].tx_sent > 0
  /\ fs' = [fs EXCEPT ![s] = fast_flows_retransmit(@)]
  /\ UNCHANGED <<plan, txbuf, rxbuf, wr, out, net>>

\* a step of the system; it may lose or duplicate only if faulty
Step(faulty) ==
  \E s \in Side :
    \/ \E n \in 1 .. TxLen : Write(s, n)
    \/ Close(s)
    \/ Retransmit(s)
    \/ \E lost \in {FALSE, faulty} :
         \/ \E n \in 1 .. RxLen : Read(s, n, lost)
         \/ Transmit(s, lost)
         \/ \E dup \in {FALSE, faulty} : Receive(s, dup, lost)

Next == Step(TRUE)

Spec == Init /\ [][Next]_vars
-----------------------------------------------------------------------------
\* bytes that have arrived in order at s
Got(s) == Len(out[s]) + Unread(s)

\* bytes of s that were acknowledged, the FIN counted as one
Acked(s) == (wr[s] + IF fs[s].txfin THEN 1 ELSE 0)
              - (fs[s].tx_avail + fs[s].tx_sent)

(***************************************************************************)
(* Every byte in the readable part of a receive buffer is the byte the     *)
(* peer wrote at that place of its stream: no loss, retransmission,        *)
(* reordering or out-of-order interval misplaces a byte, and nothing       *)
(* overwrites a byte the application has yet to read.  A FIN is reported   *)
(* after every byte the peer has written, never before.                    *)
(***************************************************************************)
StreamIntact ==
  \A s \in Side :
    /\ Got(s) <= wr[Peer(s)]
    /\ \A k \in Len(out[s]) .. Got(s) - 1 : rxbuf[s][k % RxLen] = k
    /\ fs[s].rxfin => fs[Peer(s)].txfin /\ Got(s) = wr[Peer(s)]

(***************************************************************************)
(* The transmit buffer is not freed early: what a sender takes for         *)
(* acknowledged, its FIN included, has arrived in order at the peer.       *)
(***************************************************************************)
AckedArrived ==
  \A s \in Side :
    /\ Acked(s) >= 0
    /\ Acked(s) <= Got(Peer(s)) + (IF fs[Peer(s)].rxfin THEN 1 ELSE 0)

\* ends that have read everything and seen the FIN
Eof == {s \in Side : fs[s].rxfin /\ Unread(s) = 0}

Stream == INSTANCE ByteStream WITH closed <- {s \in Side : fs[s].txfin},
                                   eof <- Eof

(***************************************************************************)
(* Two flows of the fast path over a network that loses, duplicates and    *)
(* reorders segments implement the reliable byte stream: what the          *)
(* applications read is what was written, in order, once, and the end of   *)
(* the stream comes last.                                                  *)
(***************************************************************************)
ImplementsByteStream == Stream!Spec
-----------------------------------------------------------------------------
(***************************************************************************)
(* Fairness.  The fast path keeps sending what may be sent and handling    *)
(* what arrives, the slow path keeps asking for retransmissions while      *)
(* nothing is acknowledged, the applications keep writing, closing and     *)
(* reading, and the network loses and duplicates only finitely often.      *)
(* (Fairness of Receive is written with its enabling condition, which TLC  *)
(* evaluates much faster than ENABLED.)                                    *)
(***************************************************************************)
AppStep ==
  \E s \in Side : \/ \E n \in 1 .. TxLen : Write(s, n)
                  \/ Close(s)
                  \/ \E n \in 1 .. RxLen, lost \in BOOLEAN : Read(s, n, lost)

\* Receive(s, FALSE, FALSE) is enabled
CanReceive(s) == \E p \in net[s] : TriggerAck(fs[s], p.seg) => Through(s, FALSE)

Fairness ==
  /\ <>[][Step(FALSE)]_vars
  /\ WF_vars(AppStep)
  /\ \A s \in Side :
       []<>~CanReceive(s) \/ []<><<Receive(s, FALSE, FALSE)>>_vars
  /\ \A s \in Side : /\ WF_vars(s \in plan.closers /\ Transmit(s, FALSE))
                     /\ WF_vars(s \in plan.closers /\ Retransmit(s))

FairSpec == Spec /\ Fairness

(***************************************************************************)
(* Everything is delivered in the end: an application whose peer writes    *)
(* and closes reads all of the stream and sees its end, whatever the       *)
(* network loses in between.                                               *)
(***************************************************************************)
AllDelivered ==
  \A s \in Side : <>(s \in plan.closers =>
                      Len(out[Peer(s)]) = plan.total[s] /\ Peer(s) \in Eof)
=============================================================================
