------------------------------ MODULE FlowOps ------------------------------
(***************************************************************************)
(* What the fast path does to the state of one flow: tas/fast/fast_flows.c *)
(* (the build without GRE, with FLEXNIC_PL_OOO_RECV).  Each operator is    *)
(* one function of that file applied to a flow-state record fs; every call *)
(* runs under the flow's spinlock (fs_lock), so it is one step for         *)
(* everybody else.  The modules that EXTEND this one decide who calls what *)
(* when.                                                                   *)
(*                                                                         *)
(* Left out: addresses, checksums, timestamps and the rtt estimate, the    *)
(* rate and the counters read by congestion control only.  A segment has   *)
(* kind "data" (flags within ACK, PSH, ECE, CWR, FIN; ACK set, as on every *)
(* segment of an established connection), "syn", or "odd" (any other flag).*)
(***************************************************************************)
EXTENDS TcpCommon

CONSTANTS TxLen,     \* fs->tx_len, bytes in the transmit buffer
          RxLen,     \* fs->rx_len, bytes in the receive buffer
          Mss,       \* TCP_MSS
          WndMax,    \* 0xFFFF: largest window of a header, largest uint16_t
          BumpMax    \* UINT16_MAX: largest bump sequence number

ASSUME FlowAssumption ==
  /\ TxLen \in Nat \ {0} /\ RxLen \in Nat \ {0} /\ Mss \in Nat \ {0}
  /\ WndMax \in Nat /\ BumpMax \in Nat
  \* buffers are small against the sequence space, and the receive buffer
  \* and one segment together against a uint16_t (the default is 8 KiB)
  /\ TxLen < SeqMod /\ RxLen + WndMax < SeqMod
  /\ RxLen + Mss <= WndMax

FlowState ==
  [tx_avail : 0 .. TxLen, tx_sent : 0 .. TxLen,
   tx_next_seq : SeqNum, tx_next_pos : 0 .. TxLen - 1,
   rx_avail : 0 .. RxLen, rx_next_seq : SeqNum, rx_next_pos : 0 .. RxLen - 1,
   rx_remote_avail : 0 .. WndMax,
   rx_ooo_start : SeqNum, rx_ooo_len : 0 .. WndMax,
   rx_dupack_cnt : 0 .. 2, bump_seq : 0 .. BumpMax,
   rxfin : BOOLEAN, txfin : BOOLEAN, slowpath : BOOLEAN]

Segment == [kind : {"data", "syn", "odd"}, seq : SeqNum, ack : SeqNum,
            wnd : 0 .. WndMax, fin : BOOLEAN, len : 0 .. Mss]

\* the fields of a zeroed flow that nicif_connection_add sets
nicif_connection_add(local_seq, remote_seq) ==
  [tx_avail |-> 0, tx_sent |-> 0, tx_next_seq |-> local_seq, tx_next_pos |-> 0,
   rx_avail |-> RxLen, rx_next_seq |-> remote_seq, rx_next_pos |-> 0,
   rx_remote_avail |-> RxLen, rx_ooo_start |-> 0, rx_ooo_len |-> 0,
   rx_dupack_cnt |-> 0, bump_seq |-> 0,
   rxfin |-> FALSE, txfin |-> FALSE, slowpath |-> FALSE]

\* advancing a position of a circular buffer of n bytes
Wrap(pos, n) == IF pos >= n THEN pos - n ELSE pos

\* bytes of the flow that may be sent now: tcp_txavail(fs, NULL)
Avail(fs) == tcp_txavail(fs, fs.tx_avail)
-----------------------------------------------------------------------------
(* Acknowledgements *)

\* forget that anything unacknowledged was ever sent
flow_reset_retransmit(fs) ==
  [fs EXCEPT !.rx_dupack_cnt = 0,
             !.tx_next_seq = fsack_a(fs),
             !.tx_next_pos = IF @ >= fs.tx_sent THEN @ - fs.tx_sent
                                                ELSE TxLen - (fs.tx_sent - @),
             !.tx_avail = @ + fs.tx_sent,
             !.tx_sent = 0]

\* Mutation of AckBytes: bytes put back by a retransmission are skipped twice.
AckBytes_twice(fs, bump) ==
  IF bump <= fs.tx_sent
    THEN [fs EXCEPT !.tx_sent = @ - bump]
    ELSE [fs EXCEPT !.tx_next_seq = SeqAdd(@, bump),
                    !.tx_next_pos = Wrap(@ + bump, TxLen),
                    !.tx_avail = @ - (bump - fs.tx_sent),
                    !.tx_sent = 0]

\* take bump acknowledged bytes off the send buffer; an acknowledgement may
\* reach into bytes a retransmission put back, which then count as sent
AckBytes(fs, bump) ==
  IF bump <= fs.tx_sent
    THEN [fs EXCEPT !.tx_sent = @ - bump]
    ELSE LET future == bump - fs.tx_sent
         IN [fs EXCEPT !.tx_next_seq = SeqAdd(@, future),
                       !.tx_next_pos = Wrap(@ + future, TxLen),
                       !.tx_avail = @ - future,
                       !.tx_sent = 0]

\* bytes the acknowledgement of segment p covers, 0 if it is not valid
TxBump(fs, p) == IF tcp_valid_rxack(fs, p.ack) THEN rxack_bump(fs, p.ack) ELSE 0

IsDupAck(fs, p) ==
  tcp_valid_rxack(fs, p.ack) /\ rxack_bump(fs, p.ack) = 0 /\ p.len = 0

\* the third duplicate acknowledgement; the rest of the segment is ignored
FastRetransmit(fs, p) == IsDupAck(fs, p) /\ fs.rx_dupack_cnt >= 2

\* the acknowledgement half of fast_flows_packet
RxAck(fs, p) ==
  IF FastRetransmit(fs, p) THEN flow_reset_retransmit(fs)
  ELSE [AckBytes(fs, TxBump(fs, p)) EXCEPT
          !.rx_dupack_cnt = IF TxBump(fs, p) # 0 THEN 0
                            ELSE IF IsDupAck(fs, p) THEN @ + 1 ELSE @]
-----------------------------------------------------------------------------
(* Payload *)

\* hand the next n bytes of the receive buffer to the application
RxAdvance(fs, n) ==
  [fs EXCEPT !.rx_avail = @ - n,
             !.rx_next_pos = Wrap(@ + n, RxLen),
             !.rx_next_seq = SeqAdd(@, n)]

\* Mutation of OooFits: a second interval need not touch the first.
OooFits_any(fs, seq, n) == n > 0

\* what becomes of n out-of-order bytes at seq: the one out-of-order interval
\* is created, or extended at its front or back, or they are ignored
OooFits(fs, seq, n) ==
  n > 0 /\ \/ fs.rx_ooo_len = 0
           \/ SeqAdd(seq, n) = fs.rx_ooo_start
           \/ SeqAdd(fs.rx_ooo_start, fs.rx_ooo_len) = seq

RxOutOfOrder(fs, seq, n) ==
  IF ~ OooFits(fs, seq, n) THEN fs
  ELSE [fs EXCEPT
          !.rx_ooo_len = @ + n,
          !.rx_ooo_start =
             IF fs.rx_ooo_len = 0 \/ SeqAdd(seq, n) = @ THEN seq ELSE @]

\* the parameter pkt_bytes of tcp_trim_rxbuf is a uint16_t
Uint16(n) == IF n <= WndMax THEN n ELSE n % (WndMax + 1)

\* after in-order bytes: trim the out-of-order interval, deliver it if it has
\* become contiguous
RxMergeOoo(fs) ==
  LET trim == tcp_trim_rxbuf(fs, fs.rx_ooo_start, Uint16(fs.rx_ooo_len))
      rest == [fs EXCEPT !.rx_ooo_start = SeqAdd(@, trim.trim_start),
                         !.rx_ooo_len = @ - (trim.trim_start + trim.trim_end)]
  IN IF fs.rx_ooo_len = 0 THEN fs
     ELSE IF trim.drop THEN [fs EXCEPT !.rx_ooo_len = 0]
     ELSE IF rest.rx_ooo_len > 0 /\ rest.rx_ooo_start = rest.rx_next_seq
       THEN [RxAdvance(rest, rest.rx_ooo_len) EXCEPT !.rx_ooo_len = 0]
     ELSE rest

\* a FIN is taken only when everything before it has been received
FinAccepted(fs, p) ==
  /\ p.fin /\ ~ fs.rxfin
  /\ fs.rx_next_seq = SeqAdd(p.seq, p.len)
  /\ fs.rx_ooo_len = 0

RxFin(fs, p) ==
  IF FinAccepted(fs, p)
    THEN [fs EXCEPT !.rxfin = TRUE, !.rx_next_seq = SeqAdd(@, 1)] ELSE fs

\* Mutation of RxInOrder: payload is taken after the FIN.
RxInOrder_afterfin(fs, p, n) ==
  LET seen == [fs EXCEPT !.rx_remote_avail = p.wnd]
  IN RxFin(IF n > 0 THEN RxMergeOoo(RxAdvance(seen, n)) ELSE seen, p)

\* n bytes of p, the first of them the next expected one
RxInOrder(fs, p, n) ==
  LET seen == [fs EXCEPT !.rx_remote_avail = p.wnd]
  IN IF fs.rxfin /\ n > 0 THEN seen
     ELSE RxFin(IF n > 0 THEN RxMergeOoo(RxAdvance(seen, n)) ELSE seen, p)

\* bytes of p left after trimming, and the sequence number of the first
Bytes(fs, p) == LET trim == tcp_trim_rxbuf(fs, p.seq, p.len)
                IN p.len - (trim.trim_start + trim.trim_end)
First(fs, p) == SeqAdd(p.seq, tcp_trim_rxbuf(fs, p.seq, p.len).trim_start)

Outside(fs, p) == tcp_trim_rxbuf(fs, p.seq, p.len).drop
InOrder(fs, p) == ~ Outside(fs, p) /\ First(fs, p) = fs.rx_next_seq

\* the payload half of fast_flows_packet
RxPayload(fs, p) ==
  CASE Outside(fs, p) -> fs
    [] InOrder(fs, p) -> RxInOrder(fs, p, Bytes(fs, p))
    [] OTHER          -> RxOutOfOrder(fs, First(fs, p), Bytes(fs, p))
-----------------------------------------------------------------------------
(* The entry points *)

ToSlowpath(fs, p) == fs.slowpath \/ p.kind # "data"

fast_flows_packet(fs, p) ==
  IF ToSlowpath(fs, p) THEN [fs EXCEPT !.slowpath = @ \/ p.kind # "syn"]
  ELSE IF FastRetransmit(fs, p) THEN RxAck(fs, p)
  ELSE RxPayload(RxAck(fs, p), p)

\* an acknowledgement is sent for any payload, for a segment that is outside
\* the window or out of order, and for an accepted FIN
TriggerAck(fs, p) ==
  /\ ~ ToSlowpath(fs, p)
  /\ \/ p.len > 0
     \/ /\ ~ FastRetransmit(fs, p)
        /\ \/ ~ InOrder(RxAck(fs, p), p)
           \/ fast_flows_packet(fs, p).rxfin # fs.rxfin

\* a bump from the application that was overtaken by a later one
StaleBump(fs, seq) ==
  \/ seq >= fs.bump_seq /\ seq - fs.bump_seq > BumpMax \div 2
  \/ /\ seq < fs.bump_seq
     /\ fs.bump_seq < (BumpMax \div 4) * 3 \/ seq > BumpMax \div 4

\* tx_bump as fast_flows_bump counts it, and below the checks it must pass;
\* the receive credit is compared with the length of the transmit buffer
BumpTx(fs, b) == IF fs.txfin THEN 0 ELSE b.tx

\* Mutation of BumpValid: bytes in flight do not count against the buffer.
BumpValid_unsent(fs, b) ==
  /\ ~ (b.done /\ ~ fs.txfin /\ b.tx = 0)
  /\ fs.tx_avail + BumpTx(fs, b) <= TxLen
  /\ b.rx <= RxLen
  /\ b.rx + fs.rx_avail <= TxLen

BumpValid(fs, b) ==
  /\ ~ (b.done /\ ~ fs.txfin /\ b.tx = 0)
  /\ fs.tx_avail + BumpTx(fs, b) + fs.tx_sent <= TxLen
  /\ b.rx <= RxLen
  /\ b.rx + fs.rx_avail <= TxLen

fast_flows_bump(fs, b) ==
  IF StaleBump(fs, b.seq) THEN fs
  ELSE IF ~ BumpValid(fs, b) THEN [fs EXCEPT !.bump_seq = b.seq]
  ELSE [fs EXCEPT !.bump_seq = b.seq,
                  !.tx_avail = @ + BumpTx(fs, b),
                  !.rx_avail = @ + b.rx,
                  !.txfin = @ \/ b.done]

\* fast_flows_bump reopens a closed receive window with an empty segment, if
\* no data segment is about to carry the new window
WindowUpdate(fs, b) ==
  /\ ~ StaleBump(fs, b.seq) /\ BumpValid(fs, b)
  /\ Avail(fast_flows_bump(fs, b)) = 0 /\ fs.rx_avail = 0 /\ b.rx # 0

\* bytes (with the dummy byte of a FIN) the next data segment takes
SegBytes(fs) == Min2(Avail(fs), Mss)

\* the last segment of a closed stream carries the FIN instead of the dummy
SegFin(fs) == fs.txfin /\ fs.tx_avail = SegBytes(fs)

fast_flows_qman(fs) ==
  LET len == SegBytes(fs)
  IN [fs EXCEPT !.tx_next_seq = SeqAdd(@, len),
                !.tx_next_pos = Wrap(@ + len, TxLen),
                !.tx_sent = @ + len,
                !.tx_avail = @ - len]

\* Mutation of fast_flows_retransmit: the request is ignored.
fast_flows_retransmit_never(fs) == fs

fast_flows_retransmit(fs) ==
  IF fs.tx_sent = 0 THEN fs ELSE flow_reset_retransmit(fs)

\* the segments the fast path sends: data (or a FIN), and empty ones for
\* acknowledgements and window updates
flow_tx_segment(fs) ==
  [kind |-> "data", seq |-> fs.tx_next_seq, ack |-> fs.rx_next_seq,
   wnd |-> Min2(WndMax, fs.rx_avail), fin |-> SegFin(fs),
   len |-> IF SegFin(fs) THEN SegBytes(fs) - 1 ELSE SegBytes(fs)]

\* Mutation of flow_tx_ack: out-of-order bytes are acknowledged.
flow_tx_ack_ooo(fs) ==
  [kind |-> "data", seq |-> fs.tx_next_seq,
   ack |-> SeqAdd(fs.rx_next_seq, fs.rx_ooo_len),
   wnd |-> Min2(WndMax, fs.rx_avail), fin |-> FALSE, len |-> 0]

flow_tx_ack(fs) ==
  [kind |-> "data", seq |-> fs.tx_next_seq, ack |-> fs.rx_next_seq,
   wnd |-> Min2(WndMax, fs.rx_avail), fin |-> FALSE, len |-> 0]
-----------------------------------------------------------------------------
(* What every operation keeps true of a flow *)

\* distance of the out-of-order interval from the next expected byte
OooDist(fs) == SeqSub(fs.rx_ooo_start, fs.rx_next_seq)

\* The out-of-order interval starts inside the receive window, after the next
\* expected byte, and ends at most one segment beyond the window.
OooOK(fs) ==
  fs.rx_ooo_len > 0 =>
    /\ OooDist(fs) \in 1 .. fs.rx_avail
    /\ OooDist(fs) + fs.rx_ooo_len <= fs.rx_avail + Mss

\* bytes sent and bytes waiting share the transmit buffer
TxOK(fs) == fs.tx_avail + fs.tx_sent <= TxLen
=============================================================================
