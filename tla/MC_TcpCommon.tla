--------------------------- MODULE MC_TcpCommon ---------------------------
(***************************************************************************)
(* Checks tcp_trim_rxbuf and tcp_valid_rxack against definitions that      *)
(* speak of sets of sequence numbers only.  A state is one flow and one    *)
(* segment; any flow meets any segment.                                    *)
(***************************************************************************)
EXTENDS TcpCommon, FiniteSets

CONSTANTS MaxBuf,    \* largest buffer (and so largest window)
          MaxLen     \* largest payload of a segment

VARIABLES fs, pkt

vars == <<fs, pkt>>

Buf == 0 .. MaxBuf

Flow == [rx_next_seq : SeqNum, rx_avail : Buf, rx_remote_avail : {0},
         tx_next_seq : {0}, tx_sent : {0}, tx_avail : {0}]
        \cup
        [rx_next_seq : {0}, rx_avail : {0}, rx_remote_avail : {0},
         tx_next_seq : SeqNum, tx_sent : Buf, tx_avail : Buf]
Segment == [seq : SeqNum, len : 0 .. MaxLen, ack : {0}]
           \cup [seq : {0}, len : {0}, ack : SeqNum]

NoSegment == [seq |-> 0, len |-> 0, ack |-> 0]

\* the flow is in any state the buffer sizes allow
Init == /\ fs \in {g \in Flow : g.tx_sent + g.tx_avail <= MaxBuf}
        /\ pkt = NoSegment

\* any segment arrives for it
Arrives == /\ pkt = NoSegment
           /\ pkt' \in Segment
           /\ UNCHANGED fs

Next == Arrives

Spec == Init /\ [][Next]_vars
-----------------------------------------------------------------------------
\* The sequence numbers of n bytes from s on.
Interval(s, n) == {SeqAdd(s, i) : i \in 0 .. n - 1}

trim == tcp_trim_rxbuf(fs, pkt.seq, pkt.len)

Window == Interval(fs.rx_next_seq, fs.rx_avail)
Usable == Interval(pkt.seq, pkt.len) \cap Window
Kept   == IF trim.drop THEN {}
          ELSE {SeqAdd(pkt.seq, i) :
                  i \in trim.trim_start .. pkt.len - trim.trim_end - 1}

(***************************************************************************)
(* tcp_trim_rxbuf never throws away a byte that fits the receive buffer,   *)
(* wherever the packet and the buffer wrap.  A segment whose first kept    *)
(* byte is the next expected one keeps exactly what fits: the in-order     *)
(* path of fast_flows_packet subtracts its length from rx_avail without    *)
(* another check.                                                          *)
(*                                                                         *)
(* tcp_valid_rxack accepts exactly the acknowledgements between the oldest *)
(* unacknowledged byte and the last byte in the send buffer, and its bump  *)
(* is the number of bytes between that oldest byte and the ack.            *)
(***************************************************************************)
IntervalsExact ==
  LET n == fs.tx_sent + fs.tx_avail
      valid == tcp_valid_rxack(fs, pkt.ack)
  IN /\ Usable \subseteq Kept
     /\ (~ trim.drop /\ SeqAdd(pkt.seq, trim.trim_start) = fs.rx_next_seq)
          => Kept = Usable
     /\ valid <=> pkt.ack \in Interval(fsack_a(fs), n + 1)
     /\ valid => /\ rxack_bump(fs, pkt.ack) \in 0 .. n
                 /\ SeqAdd(fsack_a(fs), rxack_bump(fs, pkt.ack)) = pkt.ack
=============================================================================
