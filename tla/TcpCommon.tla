----------------------------- MODULE TcpCommon -----------------------------
(***************************************************************************)
(* The sequence-number arithmetic of tas/fast/tcp_common.h: which part of  *)
(* a segment fits the receive window, which acknowledgements are valid,    *)
(* and how much may be sent.  The operators take the flow state as a       *)
(* record fs whose fields have the names of struct flextcp_pl_flowst.      *)
(*                                                                         *)
(* Sequence numbers are uint32_t and wrap.  SeqMod is 2^32 in the code.    *)
(* Both operands are always below SeqMod, so one conditional correction is *)
(* the same as reduction modulo SeqMod.                                    *)
(***************************************************************************)
EXTENDS Integers

CONSTANT SeqMod      \* number of sequence numbers: 2^32

ASSUME SeqModAssumption == SeqMod \in Nat \ {0}

SeqNum == 0 .. SeqMod - 1

\* uint32_t addition and subtraction
SeqAdd(a, b) == IF a + b >= SeqMod THEN (a + b) - SeqMod ELSE a + b
SeqSub(a, b) == IF a >= b THEN a - b ELSE (a + SeqMod) - b

Min2(a, b) == IF a <= b THEN a ELSE b
-----------------------------------------------------------------------------
\* Mutation of tcp_trim_rxbuf: it knows nothing of intervals split by the wrap.
trim_unsplit(fs, pkt_seq, pkt_bytes) ==
  LET pb == SeqAdd(pkt_seq, pkt_bytes)
      sb == SeqAdd(fs.rx_next_seq, fs.rx_avail)
      drop == pb < fs.rx_next_seq \/ pkt_seq > sb
  IN [drop |-> drop,
      trim_start |-> IF ~drop /\ pkt_seq < fs.rx_next_seq
                       THEN fs.rx_next_seq - pkt_seq ELSE 0,
      trim_end |-> IF ~drop /\ pb > sb THEN pb - sb ELSE 0]
(***************************************************************************)
(* tcp_trim_rxbuf.  pa, pb delimit the packet, sa, sb the unused part of   *)
(* the receive buffer; either interval may be split by the wrap of the     *)
(* sequence space, which gives the four branches of the code.              *)
(***************************************************************************)
tcp_trim_rxbuf(fs, pkt_seq, pkt_bytes) ==
  LET pa == pkt_seq
      pb == SeqAdd(pkt_seq, pkt_bytes)
      sa == fs.rx_next_seq
      sb == SeqAdd(fs.rx_next_seq, fs.rx_avail)
      psplit == pa > pb
      ssplit == sa > sb
      drop == \/ ~psplit /\ ~ssplit /\ (pb < sa \/ pa > sb)
              \/ (psplit <=> ~ssplit) /\ pa > sb /\ pb < sa
      cutStart == \/ (psplit <=> ssplit) /\ pa < sa
                  \/ ~psplit /\ ssplit /\ pa > sb /\ pa < sa
                  \/ psplit /\ ~ssplit /\ (sa <= pb \/ sa > pa)
      cutEnd == \/ (psplit <=> ssplit) /\ pb > sb
                \/ ~psplit /\ ssplit /\ pb >= sb /\ pb < sa
                \/ psplit /\ ~ssplit /\ (pb > sb \/ sa >= pa)
  IN [drop |-> drop,
      trim_start |-> IF ~drop /\ cutStart THEN SeqSub(sa, pa) ELSE 0,
      trim_end |-> IF ~drop /\ cutEnd THEN SeqSub(pb, sb) ELSE 0]

\* The oldest unacknowledged sequence number of the flow.
fsack_a(fs) == SeqSub(fs.tx_next_seq, fs.tx_sent)

(***************************************************************************)
(* tcp_valid_rxack, with ALLOW_FUTURE_ACKS: an acknowledgement may cover   *)
(* bytes that were handed back to the send buffer by a retransmission.     *)
(***************************************************************************)
tcp_valid_rxack(fs, ack) ==
  LET a == fsack_a(fs)
      b == SeqAdd(fs.tx_next_seq, fs.tx_avail)
  IN IF a <= b THEN a <= ack /\ ack <= b ELSE ~ (a > ack /\ ack > b)

\* *bump of tcp_valid_rxack: the bytes a valid acknowledgement covers
rxack_bump(fs, ack) == SeqSub(ack, fsack_a(fs))

(***************************************************************************)
(* tcp_txavail: bytes that can be sent now, from buf_avail unsent bytes    *)
(* and what is left of the peer's window.                                  *)
(***************************************************************************)
tcp_txavail(fs, buf_avail) ==
  Min2(buf_avail, IF fs.tx_sent > fs.rx_remote_avail
                    THEN 0 ELSE fs.rx_remote_avail - fs.tx_sent)
=============================================================================
