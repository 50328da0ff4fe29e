--------------------------- MODULE FlowOps_proofs ---------------------------
(***************************************************************************)
(* Facts about the flow operations, for every buffer size, segment size    *)
(* and sequence space that FlowAssumption allows.                          *)
(***************************************************************************)
EXTENDS FlowOps, TLAPS

(***************************************************************************)
(* tcp_trim_rxbuf never trims more than the packet.  What it keeps either  *)
(* starts at the next expected byte and fits the window, or is the front   *)
(* of the packet and starts inside the window.                             *)
(***************************************************************************)
LEMMA TrimLemma ==
  ASSUME NEW s, s.rx_next_seq \in SeqNum, s.rx_avail \in Nat,
         NEW seq \in SeqNum, NEW n \in Nat, s.rx_avail + n < SeqMod,
         NEW t, t = tcp_trim_rxbuf(s, seq, n)
  PROVE  /\ t.trim_start \in Nat /\ t.trim_end \in Nat
         /\ t.trim_start + t.trim_end <= n
         /\ ~ t.drop /\ SeqAdd(seq, t.trim_start) = s.rx_next_seq
              => n - (t.trim_start + t.trim_end) <= s.rx_avail
         /\ ~ t.drop /\ SeqAdd(seq, t.trim_start) # s.rx_next_seq
              => /\ t.trim_start = 0
                 /\ SeqSub(seq, s.rx_next_seq) \in 1 .. s.rx_avail
<1> DEFINE sa == s.rx_next_seq
           sb == SeqAdd(sa, s.rx_avail)
           pa == seq
           pb == SeqAdd(seq, n)
<1>1. CASE t.drop
  <2>1. t.trim_start = 0 /\ t.trim_end = 0
    BY <1>1 DEF tcp_trim_rxbuf
  <2> QED
    BY <2>1, <1>1
<1>2. CASE ~ t.drop
  <2>1. /\ pa \in Int /\ pb \in Int /\ sa \in Int /\ sb \in Int
    BY SeqModAssumption DEF SeqNum, SeqAdd
  <2>2. /\ ~ (~(pa > pb) /\ ~(sa > sb) /\ (pb < sa \/ pa > sb))
        /\ ~ ((pa > pb <=> ~(sa > sb)) /\ pa > sb /\ pb < sa)
    BY <1>2 DEF tcp_trim_rxbuf
  <2>3. t.trim_start = IF \/ (pa > pb <=> sa > sb) /\ pa < sa
                          \/ ~(pa > pb) /\ sa > sb /\ pa > sb /\ pa < sa
                          \/ pa > pb /\ ~(sa > sb) /\ (sa <= pb \/ sa > pa)
                       THEN SeqSub(sa, pa) ELSE 0
    BY <1>2 DEF tcp_trim_rxbuf
  <2>4. t.trim_end = IF \/ (pa > pb <=> sa > sb) /\ pb > sb
                        \/ ~(pa > pb) /\ sa > sb /\ pb >= sb /\ pb < sa
                        \/ pa > pb /\ ~(sa > sb) /\ (pb > sb \/ sa >= pa)
                     THEN SeqSub(pb, sb) ELSE 0
    BY <1>2 DEF tcp_trim_rxbuf
  <2> HIDE DEF sb, pb
  <2>5. /\ t.trim_start \in Nat /\ t.trim_end \in Nat
        /\ t.trim_start + t.trim_end <= n
        /\ SeqAdd(pa, t.trim_start) = sa
             => n - (t.trim_start + t.trim_end) <= s.rx_avail
        /\ SeqAdd(pa, t.trim_start) # sa
             => t.trim_start = 0 /\ SeqSub(pa, sa) \in 1 .. s.rx_avail
    <3>1. sb = SeqAdd(sa, s.rx_avail) /\ pb = SeqAdd(pa, n)
      BY DEF sb, pb
    <3>2. /\ ~ (pa <= pb /\ sa <= sb /\ (pb < sa \/ pa > sb))
          /\ ~ (pa > pb /\ sa <= sb /\ pa > sb /\ pb < sa)
          /\ ~ (pa <= pb /\ sa > sb /\ pa > sb /\ pb < sa)
      BY <2>1, <2>2
    <3>3. t.trim_start =
            IF \/ pa <= pb /\ sa <= sb /\ pa < sa
               \/ pa > pb /\ sa > sb /\ pa < sa
               \/ pa <= pb /\ sa > sb /\ pa > sb /\ pa < sa
               \/ pa > pb /\ sa <= sb /\ (sa <= pb \/ sa > pa)
            THEN SeqSub(sa, pa) ELSE 0
      BY <2>1, <2>3
    <3>4. t.trim_end =
            IF \/ pa <= pb /\ sa <= sb /\ pb > sb
               \/ pa > pb /\ sa > sb /\ pb > sb
               \/ pa <= pb /\ sa > sb /\ pb >= sb /\ pb < sa
               \/ pa > pb /\ sa <= sb /\ (pb > sb \/ sa >= pa)
            THEN SeqSub(pb, sb) ELSE 0
      BY <2>1, <2>4
    <3> DEFINE ts == t.trim_start
               te == t.trim_end
               av == s.rx_avail
    <3> HIDE DEF sa, ts, te, av
    <3>5. SUFFICES
            /\ ts \in Nat /\ te \in Nat /\ ts + te <= n
            /\ SeqAdd(pa, ts) = sa => n - (ts + te) <= av
            /\ SeqAdd(pa, ts) # sa => ts = 0 /\ SeqSub(pa, sa) \in 1 .. av
      BY DEF ts, te, av
    <3>6. sa \in SeqNum /\ av \in Nat /\ av + n < SeqMod /\ sb = SeqAdd(sa, av)
      BY SMTT(60), <3>1 DEF sa, av
    <3> USE SeqModAssumption DEF SeqNum, SeqAdd, SeqSub
    <3>7. CASE pa <= pb /\ sa <= sb
      BY SMTT(60), <3>1, <3>2, <3>3, <3>4, <3>6, <3>7 DEF ts, te
    <3>8. CASE pa <= pb /\ sa > sb
      BY SMTT(60), <3>1, <3>2, <3>3, <3>4, <3>6, <3>8 DEF ts, te
    <3>9. CASE pa > pb /\ sa <= sb
      BY SMTT(60), <3>1, <3>2, <3>3, <3>4, <3>6, <3>9 DEF ts, te
    <3>10. CASE pa > pb /\ sa > sb
      BY <3>1, <3>2, <3>3, <3>4, <3>6, <3>10 DEF ts, te
    <3> QED
      BY <2>1, <3>7, <3>8, <3>9, <3>10
  <2> QED
    BY <2>5
<1> QED
  BY <1>1, <1>2

(***************************************************************************)
(* The bytes a valid acknowledgement covers are in the send buffer.        *)
(***************************************************************************)
LEMMA RxAckLemma ==
  ASSUME NEW s, s.tx_next_seq \in SeqNum, s.tx_sent \in Nat, s.tx_avail \in Nat,
         s.tx_sent + s.tx_avail < SeqMod,
         NEW ack \in SeqNum, tcp_valid_rxack(s, ack)
  PROVE  rxack_bump(s, ack) \in 0 .. s.tx_sent + s.tx_avail
  BY SeqModAssumption
     DEF tcp_valid_rxack, rxack_bump, fsack_a, SeqNum, SeqAdd, SeqSub
-----------------------------------------------------------------------------
FlowInv(s) == s \in FlowState /\ TxOK(s) /\ OooOK(s)

(***************************************************************************)
(* Assigning a field of the flow state a value of its type.                *)
(***************************************************************************)
LEMMA Upd ==
  ASSUME NEW s \in FlowState
  PROVE  /\ \A v \in 0 .. TxLen : [s EXCEPT !.tx_sent = v] \in FlowState
         /\ \A v \in 0 .. TxLen : [s EXCEPT !.tx_avail = v] \in FlowState
         /\ \A v \in SeqNum : [s EXCEPT !.tx_next_seq = v] \in FlowState
         /\ \A v \in 0 .. TxLen - 1 : [s EXCEPT !.tx_next_pos = v] \in FlowState
         /\ \A v \in 0 .. RxLen : [s EXCEPT !.rx_avail = v] \in FlowState
         /\ \A v \in SeqNum : [s EXCEPT !.rx_next_seq = v] \in FlowState
         /\ \A v \in 0 .. RxLen - 1 : [s EXCEPT !.rx_next_pos = v] \in FlowState
         /\ \A v \in 0 .. WndMax : [s EXCEPT !.rx_remote_avail = v] \in FlowState
         /\ \A v \in SeqNum : [s EXCEPT !.rx_ooo_start = v] \in FlowState
         /\ \A v \in 0 .. WndMax : [s EXCEPT !.rx_ooo_len = v] \in FlowState
         /\ \A v \in 0 .. 2 : [s EXCEPT !.rx_dupack_cnt = v] \in FlowState
         /\ \A v \in 0 .. BumpMax : [s EXCEPT !.bump_seq = v] \in FlowState
         /\ \A v \in BOOLEAN : [s EXCEPT !.rxfin = v] \in FlowState
         /\ \A v \in BOOLEAN : [s EXCEPT !.txfin = v] \in FlowState
         /\ \A v \in BOOLEAN : [s EXCEPT !.slowpath = v] \in FlowState
  BY DEF FlowState

(***************************************************************************)
(* flow_reset_retransmit, from fast_flows_retransmit or a third duplicate  *)
(* acknowledgement, moves the sent bytes back without losing one.          *)
(***************************************************************************)
LEMMA ResetInv ==
  ASSUME NEW s, FlowInv(s)
  PROVE  FlowInv(flow_reset_retransmit(s))
<1> DEFINE r == flow_reset_retransmit(s)
           pos == IF s.tx_next_pos >= s.tx_sent THEN s.tx_next_pos - s.tx_sent
                  ELSE TxLen - (s.tx_sent - s.tx_next_pos)
           avl == s.tx_avail + s.tx_sent
<1>a. pos \in 0 .. TxLen - 1 /\ fsack_a(s) \in SeqNum /\ avl \in 0 .. TxLen
  BY FlowAssumption, SeqModAssumption
     DEF FlowInv, FlowState, TxOK, fsack_a, SeqSub, SeqNum
<1>b. r = [s EXCEPT !.rx_dupack_cnt = 0, !.tx_next_seq = fsack_a(s),
                    !.tx_next_pos = pos, !.tx_avail = avl, !.tx_sent = 0]
  BY DEF FlowInv, FlowState, flow_reset_retransmit
<1> HIDE DEF pos, avl
<1>1. r \in FlowState
  <2>1. 0 \in 0 .. 2 /\ 0 \in 0 .. TxLen
    BY FlowAssumption
  <2>2. [s EXCEPT !.rx_dupack_cnt = 0, !.tx_next_seq = fsack_a(s),
                  !.tx_next_pos = pos, !.tx_avail = avl, !.tx_sent = 0]
           \in FlowState
    BY Zenon, <1>a, <2>1, Upd DEF FlowInv
  <2> QED
    BY Zenon, <1>b, <2>2
<1>2. TxOK(r)
  BY FlowAssumption DEF FlowInv, FlowState, TxOK, flow_reset_retransmit
<1>3. OooOK(r)
  BY DEF FlowInv, FlowState, OooOK, OooDist, flow_reset_retransmit
<1> QED
  BY <1>1, <1>2, <1>3 DEF FlowInv

(***************************************************************************)
(* The acknowledgement half of fast_flows_packet, future acknowledgements  *)
(* included, keeps the send counters within the buffer.                    *)
(***************************************************************************)
LEMMA RxAckInv ==
  ASSUME NEW s, FlowInv(s), NEW p \in Segment
  PROVE  FlowInv(RxAck(s, p))
<1>0. /\ s.tx_sent \in 0 .. TxLen /\ s.tx_avail \in 0 .. TxLen
      /\ s.tx_sent + s.tx_avail <= TxLen /\ s.tx_next_seq \in SeqNum
      /\ s.tx_next_pos \in 0 .. TxLen - 1 /\ p.ack \in SeqNum
  BY DEF FlowInv, FlowState, TxOK, Segment
<1>1. TxBump(s, p) \in 0 .. s.tx_sent + s.tx_avail
  <2>1. s.tx_sent \in Nat /\ s.tx_avail \in Nat /\ s.tx_sent + s.tx_avail < SeqMod
    BY <1>0, FlowAssumption, SeqModAssumption
  <2> QED
    BY <1>0, <2>1, RxAckLemma DEF TxBump
<1> DEFINE b == TxBump(s, p)
           r == AckBytes(s, b)
           fut == b - s.tx_sent
           seq == SeqAdd(s.tx_next_seq, fut)
           pos == Wrap(s.tx_next_pos + fut, TxLen)
<1>a. b <= s.tx_sent => s.tx_sent - b \in 0 .. TxLen
  BY <1>0, <1>1, FlowAssumption
<1>b. b > s.tx_sent => /\ seq \in SeqNum /\ pos \in 0 .. TxLen - 1
                       /\ s.tx_avail - fut \in 0 .. TxLen
  BY <1>0, <1>1, FlowAssumption, SeqModAssumption DEF SeqAdd, SeqNum, Wrap
<1>c. r = IF b <= s.tx_sent THEN [s EXCEPT !.tx_sent = s.tx_sent - b]
          ELSE [s EXCEPT !.tx_next_seq = seq, !.tx_next_pos = pos,
                         !.tx_avail = s.tx_avail - fut, !.tx_sent = 0]
  BY DEF FlowInv, FlowState, AckBytes
<1>d. b \in Int /\ s.tx_sent \in Int
  BY <1>0, <1>1
<1> HIDE DEF b, r, seq, pos, fut
<1>2. r \in FlowState
  <2>1. CASE b <= s.tx_sent
    BY <1>a, <1>c, <2>1 DEF FlowInv, FlowState
  <2>2. CASE b > s.tx_sent
    <3>1. ~ (b <= s.tx_sent) /\ 0 \in 0 .. TxLen
      BY <1>d, <2>2, FlowAssumption
    <3> QED
      BY Zenon, <1>b, <1>c, <2>2, <3>1, Upd DEF FlowInv
  <2> QED
    BY <1>d, <2>1, <2>2
<1>3. /\ TxOK(r) /\ r.rx_dupack_cnt = s.rx_dupack_cnt
      /\ r.rx_ooo_len = s.rx_ooo_len /\ r.rx_ooo_start = s.rx_ooo_start
      /\ r.rx_next_seq = s.rx_next_seq /\ r.rx_avail = s.rx_avail
  BY <1>1, <1>c, FlowAssumption DEF FlowInv, FlowState, TxOK, fut, b
<1>4. OooOK(r)
  BY <1>3 DEF FlowInv, OooOK, OooDist
<1>5. CASE FastRetransmit(s, p)
  BY <1>5, ResetInv DEF RxAck
<1>6. CASE ~ FastRetransmit(s, p)
  <2> DEFINE cnt == IF b # 0 THEN 0
                    ELSE IF IsDupAck(s, p) THEN r.rx_dupack_cnt + 1
                         ELSE r.rx_dupack_cnt
  <2>1. cnt \in 0 .. 2
    BY <1>2, <1>3, <1>6 DEF FlowState, FastRetransmit
  <2>2. RxAck(s, p) = [r EXCEPT !.rx_dupack_cnt = cnt]
    BY <1>6 DEF RxAck, r, b
  <2> HIDE DEF cnt
  <2>3. [r EXCEPT !.rx_dupack_cnt = cnt] \in FlowState
    BY <1>2, <2>1 DEF FlowState
  <2> QED
    BY <1>2, <1>3, <1>4, <2>2, <2>3 DEF FlowInv, FlowState, TxOK, OooOK, OooDist
<1> QED
  BY <1>5, <1>6
-----------------------------------------------------------------------------
(***************************************************************************)
(* Delivering n bytes that fit the window keeps the receive counters in    *)
(* range; nothing else of the flow changes.                                *)
(***************************************************************************)
LEMMA AdvanceLemma ==
  ASSUME NEW s \in FlowState, NEW n \in 0 .. s.rx_avail
  PROVE  /\ RxAdvance(s, n) \in FlowState
         /\ RxAdvance(s, n).rx_avail = s.rx_avail - n
         /\ RxAdvance(s, n).rx_next_seq = SeqAdd(s.rx_next_seq, n)
         /\ RxAdvance(s, n).rx_ooo_start = s.rx_ooo_start
         /\ RxAdvance(s, n).rx_ooo_len = s.rx_ooo_len
         /\ RxAdvance(s, n).tx_avail = s.tx_avail
         /\ RxAdvance(s, n).tx_sent = s.tx_sent
<1> DEFINE pos == Wrap(s.rx_next_pos + n, RxLen)
           seq == SeqAdd(s.rx_next_seq, n)
           avl == s.rx_avail - n
<1>1. /\ s.rx_avail \in 0 .. RxLen /\ s.rx_next_pos \in 0 .. RxLen - 1
      /\ s.rx_next_seq \in SeqNum
  BY DEF FlowState
<1>2. avl \in 0 .. RxLen /\ pos \in 0 .. RxLen - 1 /\ seq \in SeqNum
  BY <1>1, FlowAssumption, SeqModAssumption DEF Wrap, SeqAdd, SeqNum
<1>3. RxAdvance(s, n) = [s EXCEPT !.rx_avail = avl, !.rx_next_pos = pos,
                                  !.rx_next_seq = seq]
  BY DEF FlowState, RxAdvance
<1> HIDE DEF pos, seq, avl
<1>4. [s EXCEPT !.rx_avail = avl, !.rx_next_pos = pos, !.rx_next_seq = seq]
         \in FlowState
  BY Zenon, <1>2, Upd
<1>5. RxAdvance(s, n) \in FlowState
  BY Zenon, <1>3, <1>4
<1>6. /\ RxAdvance(s, n).rx_avail = avl
      /\ RxAdvance(s, n).rx_next_seq = seq
      /\ RxAdvance(s, n).rx_ooo_start = s.rx_ooo_start
      /\ RxAdvance(s, n).rx_ooo_len = s.rx_ooo_len
      /\ RxAdvance(s, n).tx_avail = s.tx_avail
      /\ RxAdvance(s, n).tx_sent = s.tx_sent
  BY <1>3 DEF FlowState
<1> QED
  BY <1>5, <1>6 DEF avl, seq

\* the out-of-order interval just after in-order bytes: where OooOK wants it,
\* or overtaken by at most the receive buffer
OooBehind(s) ==
  s.rx_ooo_len > 0 =>
    \/ /\ OooDist(s) \in 0 .. s.rx_avail
       /\ OooDist(s) + s.rx_ooo_len <= s.rx_avail + Mss
    \/ SeqSub(s.rx_next_seq, s.rx_ooo_start) \in 1 .. RxLen

(***************************************************************************)
(* Merging the out-of-order interval never delivers more than the window   *)
(* holds, and leaves an interval that lies ahead of the next byte.         *)
(***************************************************************************)
LEMMA MergeInv ==
  ASSUME NEW s \in FlowState, TxOK(s), OooBehind(s)
  PROVE  FlowInv(RxMergeOoo(s))
<1> DEFINE t == tcp_trim_rxbuf(s, s.rx_ooo_start, Uint16(s.rx_ooo_len))
           start == SeqAdd(s.rx_ooo_start, t.trim_start)
           len == s.rx_ooo_len - (t.trim_start + t.trim_end)
           rest == [s EXCEPT !.rx_ooo_start = start, !.rx_ooo_len = len]
<1>1. /\ s.rx_avail \in 0 .. RxLen /\ s.rx_ooo_len \in 0 .. WndMax
      /\ s.rx_ooo_start \in SeqNum /\ s.rx_next_seq \in SeqNum
      /\ s.tx_avail \in Nat /\ s.tx_sent \in Nat
  BY FlowAssumption DEF FlowState
<1>2. Uint16(s.rx_ooo_len) = s.rx_ooo_len
  BY <1>1, FlowAssumption DEF Uint16
<1>3. /\ t.trim_start \in Nat /\ t.trim_end \in Nat
      /\ t.trim_start + t.trim_end <= s.rx_ooo_len
      /\ ~ t.drop /\ start = s.rx_next_seq => len <= s.rx_avail
      /\ ~ t.drop /\ start # s.rx_next_seq
           => /\ t.trim_start = 0
              /\ SeqSub(s.rx_ooo_start, s.rx_next_seq) \in 1 .. s.rx_avail
  <2>1. /\ s.rx_avail \in Nat /\ s.rx_ooo_len \in Nat
        /\ s.rx_avail + s.rx_ooo_len < SeqMod
    BY <1>1, FlowAssumption, SeqModAssumption
  <2> QED
    BY <1>1, <1>2, <2>1, TrimLemma
<1> HIDE DEF t
<1>4. start \in SeqNum /\ len \in 0 .. WndMax
  BY <1>1, <1>3, FlowAssumption, SeqModAssumption DEF SeqAdd, SeqNum
<1>5. RxMergeOoo(s) =
        IF s.rx_ooo_len = 0 THEN s
        ELSE IF t.drop THEN [s EXCEPT !.rx_ooo_len = 0]
        ELSE IF rest.rx_ooo_len > 0 /\ rest.rx_ooo_start = rest.rx_next_seq
          THEN [RxAdvance(rest, rest.rx_ooo_len) EXCEPT !.rx_ooo_len = 0]
        ELSE rest
  BY DEF RxMergeOoo, t, FlowState
<1>6. /\ rest.rx_ooo_start = start /\ rest.rx_ooo_len = len
      /\ rest.rx_next_seq = s.rx_next_seq /\ rest.rx_avail = s.rx_avail
      /\ rest.tx_avail = s.tx_avail /\ rest.tx_sent = s.tx_sent
  BY DEF FlowState
<1>7. 0 \in 0 .. WndMax
  BY FlowAssumption
<1>8. rest \in FlowState
  BY Zenon, <1>4, Upd
<1> HIDE DEF rest
<1>9. CASE s.rx_ooo_len = 0
  BY <1>5, <1>9 DEF FlowInv, OooOK
<1>10. CASE s.rx_ooo_len # 0 /\ t.drop
  <2> DEFINE r == [s EXCEPT !.rx_ooo_len = 0]
  <2>1. r \in FlowState
    BY Zenon, <1>7, Upd
  <2>2. r.rx_ooo_len = 0 /\ r.tx_avail = s.tx_avail /\ r.tx_sent = s.tx_sent
    BY DEF FlowState
  <2>3. RxMergeOoo(s) = r
    BY <1>5, <1>10
  <2> QED
    BY <2>1, <2>2, <2>3 DEF FlowInv, TxOK, OooOK
<1>11. CASE s.rx_ooo_len # 0 /\ ~ t.drop /\ len > 0 /\ start = s.rx_next_seq
  <2> DEFINE a == RxAdvance(rest, len)
             r == [a EXCEPT !.rx_ooo_len = 0]
  <2>1. len \in 0 .. rest.rx_avail
    BY <1>3, <1>4, <1>6, <1>11, <1>1, FlowAssumption
  <2>2. /\ a \in FlowState
        /\ a.tx_avail = s.tx_avail /\ a.tx_sent = s.tx_sent
    BY <1>6, <1>8, <2>1, AdvanceLemma
  <2>3. RxMergeOoo(s) = r
    BY <1>5, <1>6, <1>11
  <2> HIDE DEF a
  <2>4. r \in FlowState
    BY Zenon, <1>7, <2>2, Upd
  <2>5. r.rx_ooo_len = 0 /\ r.tx_avail = s.tx_avail /\ r.tx_sent = s.tx_sent
    BY <2>2 DEF FlowState
  <2> QED
    BY <2>3, <2>4, <2>5 DEF FlowInv, TxOK, OooOK
<1>12. CASE s.rx_ooo_len # 0 /\ ~ t.drop /\ ~ (len > 0 /\ start = s.rx_next_seq)
  <2>1. RxMergeOoo(s) = rest
    BY <1>5, <1>6, <1>12
  <2>2. OooOK(rest)
    BY <1>1, <1>3, <1>4, <1>6, <1>12, FlowAssumption, SeqModAssumption
       DEF OooOK, OooBehind, OooDist, SeqAdd, SeqSub, SeqNum
  <2> QED
    BY <1>6, <1>8, <2>1, <2>2 DEF FlowInv, TxOK
<1> QED
  BY <1>9, <1>10, <1>11, <1>12

(***************************************************************************)
(* Out-of-order bytes that passed the trim (or were left over by it)       *)
(* create or extend an interval that still starts inside the window.       *)
(***************************************************************************)
LEMMA OutOfOrderInv ==
  ASSUME NEW s, FlowInv(s), NEW seq \in SeqNum, NEW n \in 0 .. Mss,
         SeqSub(seq, s.rx_next_seq) \in 1 .. s.rx_avail
  PROVE  FlowInv(RxOutOfOrder(s, seq, n))
<1> DEFINE start == IF s.rx_ooo_len = 0 \/ SeqAdd(seq, n) = s.rx_ooo_start
                      THEN seq ELSE s.rx_ooo_start
           len == s.rx_ooo_len + n
           r == [s EXCEPT !.rx_ooo_len = len, !.rx_ooo_start = start]
<1>1. /\ s \in FlowState /\ TxOK(s) /\ OooOK(s)
      /\ s.rx_avail \in 0 .. RxLen /\ s.rx_ooo_len \in 0 .. WndMax
      /\ s.rx_ooo_start \in SeqNum /\ s.rx_next_seq \in SeqNum
  BY DEF FlowInv, FlowState
<1>2. CASE ~ OooFits(s, seq, n)
  BY <1>2 DEF RxOutOfOrder
<1>3. CASE OooFits(s, seq, n)
  <2>1. n > 0 /\ (\/ s.rx_ooo_len = 0
                  \/ SeqAdd(seq, n) = s.rx_ooo_start
                  \/ SeqAdd(s.rx_ooo_start, s.rx_ooo_len) = seq)
    BY <1>3 DEF OooFits
  <2>2. start \in SeqNum
    BY <1>1
  <2>3. /\ SeqSub(start, s.rx_next_seq) \in 1 .. s.rx_avail
        /\ SeqSub(start, s.rx_next_seq) + len <= s.rx_avail + Mss
    BY <1>1, <2>1, FlowAssumption, SeqModAssumption
       DEF OooOK, OooDist, SeqAdd, SeqSub, SeqNum
  <2>4. len \in 0 .. WndMax
    BY <1>1, <2>2, <2>3, FlowAssumption, SeqModAssumption DEF SeqSub, SeqNum
  <2>5. RxOutOfOrder(s, seq, n) = r
    BY <1>1, <1>3 DEF RxOutOfOrder, FlowState
  <2> HIDE DEF start, len
  <2>6. r \in FlowState
    BY Zenon, <1>1, <2>2, <2>4, Upd
  <2>7. /\ r.rx_ooo_start = start /\ r.rx_ooo_len = len
        /\ r.rx_next_seq = s.rx_next_seq /\ r.rx_avail = s.rx_avail
        /\ r.tx_avail = s.tx_avail /\ r.tx_sent = s.tx_sent
    BY <1>1 DEF FlowState
  <2> QED
    BY <1>1, <2>3, <2>5, <2>6, <2>7 DEF FlowInv, TxOK, OooOK, OooDist
<1> QED
  BY <1>2, <1>3

(***************************************************************************)
(* Taking a FIN: one sequence number, no buffer space, and only when no    *)
(* out-of-order interval is left.                                          *)
(***************************************************************************)
LEMMA FinInv ==
  ASSUME NEW s, FlowInv(s), NEW p
  PROVE  FlowInv(RxFin(s, p))
<1> DEFINE seq == SeqAdd(s.rx_next_seq, 1)
           r == [s EXCEPT !.rxfin = TRUE, !.rx_next_seq = seq]
<1>1. CASE ~ FinAccepted(s, p)
  BY <1>1 DEF RxFin
<1>2. CASE FinAccepted(s, p)
  <2>1. s \in FlowState /\ TxOK(s) /\ s.rx_ooo_len = 0 /\ s.rx_next_seq \in SeqNum
    BY <1>2 DEF FlowInv, FlowState, FinAccepted
  <2>2. seq \in SeqNum
    BY <2>1, SeqModAssumption, FlowAssumption DEF SeqAdd, SeqNum
  <2>3. RxFin(s, p) = r
    BY <1>2, <2>1 DEF RxFin, FlowState
  <2> HIDE DEF seq
  <2>4. r \in FlowState
    BY Zenon, <2>1, <2>2, Upd
  <2>5. r.rx_ooo_len = 0 /\ r.tx_avail = s.tx_avail /\ r.tx_sent = s.tx_sent
    BY <2>1 DEF FlowState
  <2> QED
    BY <2>1, <2>3, <2>4, <2>5 DEF FlowInv, TxOK, OooOK
<1> QED
  BY <1>1, <1>2

(***************************************************************************)
(* In-order bytes that fit the window, and the merge that follows them.    *)
(***************************************************************************)
LEMMA DeliverInv ==
  ASSUME NEW w, FlowInv(w), NEW n \in 0 .. w.rx_avail
  PROVE  FlowInv(RxMergeOoo(RxAdvance(w, n)))
<1> DEFINE a == RxAdvance(w, n)
<1>1. w \in FlowState
  BY DEF FlowInv
<1>2. /\ a \in FlowState
      /\ a.rx_avail = w.rx_avail - n
      /\ a.rx_next_seq = SeqAdd(w.rx_next_seq, n)
      /\ a.rx_ooo_start = w.rx_ooo_start
      /\ a.rx_ooo_len = w.rx_ooo_len
      /\ a.tx_avail = w.tx_avail
      /\ a.tx_sent = w.tx_sent
  BY <1>1, AdvanceLemma
<1> HIDE DEF a
<1>3. TxOK(a)
  BY <1>2 DEF FlowInv, TxOK
<1>4. /\ w.rx_avail \in 0 .. RxLen /\ w.rx_ooo_len \in 0 .. WndMax
      /\ w.rx_ooo_start \in SeqNum /\ w.rx_next_seq \in SeqNum
      /\ n \in 0 .. w.rx_avail /\ OooOK(w)
  BY DEF FlowInv, FlowState
<1>5. OooBehind(a)
  BY <1>2, <1>4, FlowAssumption, SeqModAssumption
     DEF OooBehind, OooOK, OooDist, SeqAdd, SeqSub, SeqNum
<1> QED
  BY <1>2, <1>3, <1>5, MergeInv DEF a

(***************************************************************************)
(* The in-order path: n bytes that fit the window, then the merge and FIN. *)
(***************************************************************************)
LEMMA InOrderInv ==
  ASSUME NEW s, FlowInv(s), NEW p \in Segment, NEW n \in 0 .. s.rx_avail
  PROVE  FlowInv(RxInOrder(s, p, n))
<1> DEFINE w == [s EXCEPT !.rx_remote_avail = p.wnd]
<1>1. s \in FlowState /\ p.wnd \in 0 .. WndMax
  BY DEF FlowInv, Segment
<1>2. w \in FlowState
  BY Zenon, <1>1, Upd
<1>3. /\ w.rx_avail = s.rx_avail /\ w.rx_next_seq = s.rx_next_seq
      /\ w.rx_ooo_start = s.rx_ooo_start /\ w.rx_ooo_len = s.rx_ooo_len
      /\ w.tx_avail = s.tx_avail /\ w.tx_sent = s.tx_sent
  BY <1>1 DEF FlowState
<1>4. RxInOrder(s, p, n) =
        IF s.rxfin /\ n > 0 THEN w
        ELSE RxFin(IF n > 0 THEN RxMergeOoo(RxAdvance(w, n)) ELSE w, p)
  BY DEF RxInOrder
<1> HIDE DEF w
<1>5. FlowInv(w)
  BY <1>2, <1>3 DEF FlowInv, TxOK, OooOK, OooDist
<1>6. FlowInv(RxMergeOoo(RxAdvance(w, n)))
  BY <1>3, <1>5, DeliverInv
<1> QED
  BY <1>4, <1>5, <1>6, FinInv

(***************************************************************************)
(* fast_flows_packet keeps the flow consistent for every segment the       *)
(* network may deliver: old, duplicated, reordered, overlapping or beyond  *)
(* the window.                                                             *)
(***************************************************************************)
LEMMA PacketInv ==
  ASSUME NEW s, FlowInv(s), NEW p \in Segment
  PROVE  FlowInv(fast_flows_packet(s, p))
<1>1. CASE ToSlowpath(s, p)
  <2> DEFINE v == s.slowpath \/ p.kind # "syn"
             r == [s EXCEPT !.slowpath = v]
  <2>1. s \in FlowState /\ v \in BOOLEAN
    BY DEF FlowInv
  <2>2. fast_flows_packet(s, p) = r
    BY <1>1, <2>1 DEF fast_flows_packet, FlowState
  <2> HIDE DEF v
  <2>3. r \in FlowState
    BY Zenon, <2>1, Upd
  <2>4. /\ r.rx_avail = s.rx_avail /\ r.rx_next_seq = s.rx_next_seq
        /\ r.rx_ooo_start = s.rx_ooo_start /\ r.rx_ooo_len = s.rx_ooo_len
        /\ r.tx_avail = s.tx_avail /\ r.tx_sent = s.tx_sent
    BY <2>1 DEF FlowState
  <2> QED
    BY <2>2, <2>3, <2>4 DEF FlowInv, TxOK, OooOK, OooDist
<1>2. CASE ~ ToSlowpath(s, p) /\ FastRetransmit(s, p)
  BY <1>2, RxAckInv DEF fast_flows_packet
<1>3. CASE ~ ToSlowpath(s, p) /\ ~ FastRetransmit(s, p)
  <2> DEFINE a == RxAck(s, p)
             t == tcp_trim_rxbuf(a, p.seq, p.len)
             n == p.len - (t.trim_start + t.trim_end)
             seq == SeqAdd(p.seq, t.trim_start)
  <2>1. FlowInv(a)
    BY RxAckInv
  <2>2. fast_flows_packet(s, p) = RxPayload(a, p)
    BY <1>3 DEF fast_flows_packet
  <2> HIDE DEF a
  <2>3. /\ a.rx_avail \in 0 .. RxLen /\ a.rx_next_seq \in SeqNum
        /\ p.seq \in SeqNum /\ p.len \in 0 .. Mss
    BY <2>1 DEF FlowInv, FlowState, Segment
  <2>4. a.rx_avail \in Nat /\ p.len \in Nat /\ a.rx_avail + p.len < SeqMod
    BY <2>3, FlowAssumption, SeqModAssumption
  <2>5. /\ t.trim_start \in Nat /\ t.trim_end \in Nat
        /\ t.trim_start + t.trim_end <= p.len
        /\ ~ t.drop /\ seq = a.rx_next_seq => n <= a.rx_avail
        /\ ~ t.drop /\ seq # a.rx_next_seq
             => /\ t.trim_start = 0
                /\ SeqSub(p.seq, a.rx_next_seq) \in 1 .. a.rx_avail
    BY <2>3, <2>4, TrimLemma
  <2>6. RxPayload(a, p) =
          IF t.drop THEN a
          ELSE IF seq = a.rx_next_seq THEN RxInOrder(a, p, n)
          ELSE RxOutOfOrder(a, seq, n)
    BY DEF RxPayload, Outside, InOrder, First, Bytes
  <2> HIDE DEF t
  <2>7. n \in 0 .. Mss
    BY <2>3, <2>5, FlowAssumption
  <2>8. CASE t.drop
    BY <2>1, <2>2, <2>6, <2>8
  <2>9. CASE ~ t.drop /\ seq = a.rx_next_seq
    <3>1. n \in 0 .. a.rx_avail
      BY <2>3, <2>5, <2>7, <2>9, FlowAssumption
    <3> QED
      BY <2>1, <2>2, <2>6, <2>9, <3>1, InOrderInv
  <2>10. CASE ~ t.drop /\ seq # a.rx_next_seq
    <3>1. seq = p.seq
      BY <2>3, <2>5, <2>10, SeqModAssumption DEF SeqAdd, SeqNum
    <3>2. seq \in SeqNum /\ SeqSub(seq, a.rx_next_seq) \in 1 .. a.rx_avail
      BY <2>3, <2>5, <2>10, <3>1
    <3> HIDE DEF seq, n
    <3>3. FlowInv(RxOutOfOrder(a, seq, n))
      BY <2>1, <2>7, <3>2, OutOfOrderInv
    <3> QED
      BY <2>2, <2>6, <2>10, <3>3
  <2> QED
    BY <2>8, <2>9, <2>10
<1> QED
  BY <1>1, <1>2, <1>3
-----------------------------------------------------------------------------
(***************************************************************************)
(* fast_flows_bump: its checks keep the transmit buffer from overflowing   *)
(* whatever the application claims; the receive side relies on the         *)
(* application returning no more than it was given.                        *)
(***************************************************************************)
LEMMA BumpInv ==
  ASSUME NEW s, FlowInv(s), NEW b, b.seq \in 0 .. BumpMax, b.rx \in Nat,
         b.tx \in Nat, b.done \in BOOLEAN, b.rx + s.rx_avail <= RxLen
  PROVE  FlowInv(fast_flows_bump(s, b))
<1> DEFINE tx == s.tx_avail + BumpTx(s, b)
           rx == s.rx_avail + b.rx
           fin == s.txfin \/ b.done
           q == [s EXCEPT !.bump_seq = b.seq]
           r == [s EXCEPT !.bump_seq = b.seq, !.tx_avail = tx,
                          !.rx_avail = rx, !.txfin = fin]
<1>1. /\ s \in FlowState /\ TxOK(s) /\ OooOK(s)
      /\ s.tx_avail \in 0 .. TxLen /\ s.tx_sent \in 0 .. TxLen
      /\ s.rx_avail \in 0 .. RxLen /\ s.rx_ooo_len \in 0 .. WndMax
      /\ s.rx_ooo_start \in SeqNum /\ s.rx_next_seq \in SeqNum
  BY DEF FlowInv, FlowState
<1>2. CASE StaleBump(s, b.seq)
  BY <1>2 DEF fast_flows_bump
<1>3. CASE ~ StaleBump(s, b.seq) /\ ~ BumpValid(s, b)
  <2>1. fast_flows_bump(s, b) = q
    BY <1>3 DEF fast_flows_bump
  <2>2. q \in FlowState
    BY Zenon, <1>1, Upd
  <2>3. /\ q.rx_avail = s.rx_avail /\ q.rx_next_seq = s.rx_next_seq
        /\ q.rx_ooo_start = s.rx_ooo_start /\ q.rx_ooo_len = s.rx_ooo_len
        /\ q.tx_avail = s.tx_avail /\ q.tx_sent = s.tx_sent
    BY <1>1 DEF FlowState
  <2> QED
    BY <1>1, <2>1, <2>2, <2>3 DEF FlowInv, TxOK, OooOK, OooDist
<1>4. CASE ~ StaleBump(s, b.seq) /\ BumpValid(s, b)
  <2>1. /\ BumpTx(s, b) \in Nat
        /\ s.tx_avail + BumpTx(s, b) + s.tx_sent <= TxLen
    BY <1>4 DEF BumpValid, BumpTx
  <2>2. tx \in 0 .. TxLen /\ rx \in 0 .. RxLen /\ tx + s.tx_sent <= TxLen
    BY <1>1, <2>1, FlowAssumption
  <2>3. fin \in BOOLEAN
    OBVIOUS
  <2>4. fast_flows_bump(s, b) = r
    BY <1>1, <1>4 DEF fast_flows_bump, FlowState
  <2>5. rx >= s.rx_avail
    BY <1>1, FlowAssumption
  <2> HIDE DEF tx, rx, fin
  <2>6. r \in FlowState
    BY Zenon, <1>1, <2>2, <2>3, Upd
  <2>7. /\ r.rx_avail = rx /\ r.rx_next_seq = s.rx_next_seq
        /\ r.rx_ooo_start = s.rx_ooo_start /\ r.rx_ooo_len = s.rx_ooo_len
        /\ r.tx_avail = tx /\ r.tx_sent = s.tx_sent
    BY <1>1 DEF FlowState
  <2>8. OooOK(r)
    BY <1>1, <2>2, <2>5, <2>7, FlowAssumption, SeqModAssumption
       DEF OooOK, OooDist, SeqSub, SeqNum
  <2> QED
    BY <1>1, <2>2, <2>4, <2>6, <2>7, <2>8 DEF FlowInv, TxOK
<1> QED
  BY <1>2, <1>3, <1>4

(***************************************************************************)
(* What may be sent is a number of bytes in the transmit buffer.           *)
(***************************************************************************)
LEMMA AvailLemma ==
  ASSUME NEW s \in FlowState
  PROVE  /\ Avail(s) \in 0 .. TxLen /\ Avail(s) <= s.tx_avail
         /\ SegBytes(s) \in 0 .. Avail(s) /\ SegBytes(s) = Min2(Avail(s), Mss)
<1>1. /\ s.tx_avail \in 0 .. TxLen /\ s.tx_sent \in 0 .. TxLen
      /\ s.rx_remote_avail \in 0 .. WndMax
  BY DEF FlowState
<1> QED
  BY <1>1, FlowAssumption DEF Avail, tcp_txavail, Min2, SegBytes

(***************************************************************************)
(* fast_flows_qman: a segment reduces what may be sent by its length.      *)
(***************************************************************************)
LEMMA QmanInv ==
  ASSUME NEW s, FlowInv(s)
  PROVE  /\ FlowInv(fast_flows_qman(s))
         /\ Avail(fast_flows_qman(s)) = Avail(s) - SegBytes(s)
<1> DEFINE len == SegBytes(s)
           seq == SeqAdd(s.tx_next_seq, len)
           pos == Wrap(s.tx_next_pos + len, TxLen)
           sent == s.tx_sent + len
           avl == s.tx_avail - len
           r == [s EXCEPT !.tx_next_seq = seq, !.tx_next_pos = pos,
                          !.tx_sent = sent, !.tx_avail = avl]
<1>1. /\ s \in FlowState /\ OooOK(s)
      /\ s.tx_avail \in 0 .. TxLen /\ s.tx_sent \in 0 .. TxLen
      /\ s.tx_avail + s.tx_sent <= TxLen
      /\ s.tx_next_seq \in SeqNum /\ s.tx_next_pos \in 0 .. TxLen - 1
      /\ s.rx_remote_avail \in 0 .. WndMax
  BY DEF FlowInv, FlowState, TxOK
<1>2. /\ Avail(s) \in 0 .. TxLen /\ Avail(s) <= s.tx_avail
      /\ len \in 0 .. Avail(s)
  BY <1>1, AvailLemma
<1> HIDE DEF len
<1>3. /\ seq \in SeqNum /\ pos \in 0 .. TxLen - 1
      /\ sent \in 0 .. TxLen /\ avl \in 0 .. TxLen /\ avl + sent <= TxLen
  BY <1>1, <1>2, FlowAssumption, SeqModAssumption DEF SeqAdd, SeqNum, Wrap
<1>4. fast_flows_qman(s) = r
  BY <1>1 DEF fast_flows_qman, FlowState, len
<1> HIDE DEF seq, pos, sent, avl
<1>5. r \in FlowState
  BY Zenon, <1>1, <1>3, Upd
<1>6. /\ r.rx_avail = s.rx_avail /\ r.rx_next_seq = s.rx_next_seq
      /\ r.rx_ooo_start = s.rx_ooo_start /\ r.rx_ooo_len = s.rx_ooo_len
      /\ r.tx_avail = avl /\ r.tx_sent = sent
      /\ r.rx_remote_avail = s.rx_remote_avail
  BY <1>1 DEF FlowState
<1>7. FlowInv(r)
  BY <1>1, <1>3, <1>5, <1>6 DEF FlowInv, TxOK, OooOK, OooDist
<1> HIDE DEF r
<1>8. Avail(r) = Avail(s) - len
  <2> DEFINE wnd(x) == IF x > s.rx_remote_avail THEN 0 ELSE s.rx_remote_avail - x
  <2>1. /\ Avail(s) = Min2(s.tx_avail, wnd(s.tx_sent))
        /\ Avail(r) = Min2(s.tx_avail - len, wnd(s.tx_sent + len))
    BY <1>6 DEF Avail, tcp_txavail, sent, avl
  <2>2. len \in Nat /\ len <= s.tx_avail /\ len <= wnd(s.tx_sent)
    BY <1>1, <1>2, <2>1, FlowAssumption DEF Min2
  <2>3. wnd(s.tx_sent + len) = wnd(s.tx_sent) - len
    BY <1>1, <2>2, FlowAssumption
  <2>4. wnd(s.tx_sent) \in Nat /\ s.tx_avail \in Nat
    BY <1>1, FlowAssumption
  <2> HIDE DEF wnd
  <2> QED
    BY <2>1, <2>2, <2>3, <2>4 DEF Min2
<1> QED
  BY <1>4, <1>7, <1>8 DEF len

(***************************************************************************)
(* The state nicif_connection_add gives a flow.                            *)
(***************************************************************************)
LEMMA AddInv ==
  ASSUME NEW l \in SeqNum, NEW r \in SeqNum
  PROVE  FlowInv(nicif_connection_add(l, r)) /\ Avail(nicif_connection_add(l, r)) = 0
<1>1. /\ 0 \in SeqNum /\ 0 \in 0 .. TxLen /\ 0 \in 0 .. TxLen - 1
      /\ RxLen \in 0 .. RxLen /\ 0 \in 0 .. RxLen - 1 /\ RxLen \in 0 .. WndMax
      /\ 0 \in 0 .. WndMax /\ 0 \in 0 .. 2 /\ 0 \in 0 .. BumpMax
  BY FlowAssumption, SeqModAssumption DEF SeqNum
<1>2. nicif_connection_add(l, r) \in FlowState
  BY Zenon, <1>1 DEF nicif_connection_add, FlowState
<1> QED
  BY <1>2, FlowAssumption
     DEF FlowInv, TxOK, OooOK, nicif_connection_add, Avail, tcp_txavail, Min2
-----------------------------------------------------------------------------
\* what the payload half leaves of the send side, and what an accepted FIN
\* leaves of the receive side
SameTx(r, s) == r.tx_next_seq = s.tx_next_seq /\ r.tx_sent = s.tx_sent
SameRx(r, s) == /\ r.rxfin = s.rxfin /\ r.rx_next_seq = s.rx_next_seq
                /\ r.rx_next_pos = s.rx_next_pos

(***************************************************************************)
(* The acknowledgement half leaves the receive side alone.                 *)
(***************************************************************************)
LEMMA RxAckRx ==
  ASSUME NEW s \in FlowState, NEW p
  PROVE  SameRx(RxAck(s, p), s)
<1>1. CASE FastRetransmit(s, p)
  BY <1>1 DEF RxAck, flow_reset_retransmit, SameRx, FlowState
<1>2. CASE ~ FastRetransmit(s, p)
  <2> DEFINE r == AckBytes(s, TxBump(s, p))
  <2>1. SameRx(r, s)
    BY DEF AckBytes, SameRx, FlowState
  <2> HIDE DEF r
  <2>2. PICK cnt : RxAck(s, p) = [r EXCEPT !.rx_dupack_cnt = cnt]
    BY <1>2 DEF RxAck, r
  <2>3. SameRx([r EXCEPT !.rx_dupack_cnt = cnt], r)
    BY DEF SameRx
  <2> QED
    BY <2>1, <2>2, <2>3 DEF SameRx
<1> QED
  BY <1>1, <1>2

(***************************************************************************)
(* The payload half leaves the send counters alone, and after a FIN was    *)
(* accepted neither payload nor another FIN moves the receive stream.      *)
(***************************************************************************)
LEMMA PayloadSame ==
  ASSUME NEW s \in FlowState, NEW p
  PROVE  /\ SameTx(RxPayload(s, p), s)
         /\ s.rxfin => SameRx(RxPayload(s, p), s)
<1> DEFINE Good(r) == SameTx(r, s) /\ (s.rxfin => SameRx(r, s))
<1>1. Good(s)
  BY DEF SameTx, SameRx
<1>2. ASSUME NEW seq, NEW n PROVE Good(RxOutOfOrder(s, seq, n))
  BY DEF RxOutOfOrder, SameTx, SameRx, FlowState
<1>3. ASSUME NEW n PROVE Good(RxInOrder(s, p, n))
  <2> DEFINE w == [s EXCEPT !.rx_remote_avail = p.wnd]
             m == RxMergeOoo(RxAdvance(w, n))
  <2>1. Good(w) /\ w.rxfin = s.rxfin
    BY DEF SameTx, SameRx, FlowState
  <2>2. \A q, k : SameTx(RxAdvance(q, k), q)
    BY DEF RxAdvance, SameTx
  <2>3. \A q : SameTx(RxMergeOoo(q), q)
    <3> TAKE q
    <3> DEFINE t == tcp_trim_rxbuf(q, q.rx_ooo_start, Uint16(q.rx_ooo_len))
               rest == [q EXCEPT !.rx_ooo_start = SeqAdd(@, t.trim_start),
                                 !.rx_ooo_len = @ - (t.trim_start + t.trim_end)]
               a == RxAdvance(rest, rest.rx_ooo_len)
    <3>1. SameTx(rest, q) /\ SameTx([q EXCEPT !.rx_ooo_len = 0], q)
      BY DEF SameTx
    <3>2. SameTx(a, rest) /\ SameTx([a EXCEPT !.rx_ooo_len = 0], a)
      <4>1. SameTx(a, rest)
        BY Zenon, <2>2
      <4>2. \A x : SameTx([x EXCEPT !.rx_ooo_len = 0], x)
        BY DEF SameTx
      <4> QED
        BY Zenon, <4>1, <4>2
    <3>3. RxMergeOoo(q) =
            IF q.rx_ooo_len = 0 THEN q
            ELSE IF t.drop THEN [q EXCEPT !.rx_ooo_len = 0]
            ELSE IF rest.rx_ooo_len > 0 /\ rest.rx_ooo_start = rest.rx_next_seq
              THEN [a EXCEPT !.rx_ooo_len = 0]
            ELSE rest
      BY DEF RxMergeOoo
    <3> HIDE DEF rest, a
    <3> QED
      BY <3>1, <3>2, <3>3 DEF SameTx
  <2>4. SameTx(m, s)
    BY ZenonT(60), <2>1, <2>2, <2>3 DEF SameTx
  <2>5. \A q : SameTx(RxFin(q, p), q)
    BY DEF RxFin, SameTx
  <2>6. \A q : q.rxfin => RxFin(q, p) = q
    BY DEF RxFin, FinAccepted
  <2>7. RxInOrder(s, p, n) =
          IF s.rxfin /\ n > 0 THEN w ELSE RxFin(IF n > 0 THEN m ELSE w, p)
    BY DEF RxInOrder
  <2> HIDE DEF w, m
  <2>8. SameTx(RxInOrder(s, p, n), s)
    BY <2>1, <2>4, <2>5, <2>7 DEF SameTx
  <2>9. s.rxfin => RxInOrder(s, p, n) = w
    BY Zenon, <2>1, <2>6, <2>7
  <2> QED
    BY <2>1, <2>8, <2>9
<1>4. RxPayload(s, p) = IF Outside(s, p) THEN s
                        ELSE IF InOrder(s, p) THEN RxInOrder(s, p, Bytes(s, p))
                        ELSE RxOutOfOrder(s, First(s, p), Bytes(s, p))
  BY DEF RxPayload, InOrder
<1>5. Good(RxPayload(s, p))
  BY Zenon, <1>1, <1>2, <1>3, <1>4
<1> QED
  BY <1>5

(***************************************************************************)
(* fast_flows_packet does not move the receive stream after a FIN.         *)
(***************************************************************************)
LEMMA PacketFinal ==
  ASSUME NEW s, FlowInv(s), NEW p \in Segment, s.rxfin
  PROVE  SameRx(fast_flows_packet(s, p), s)
<1>1. s \in FlowState /\ RxAck(s, p) \in FlowState
  BY RxAckInv DEF FlowInv
<1>2. SameRx(RxAck(s, p), s)
  BY <1>1, RxAckRx
<1>3. SameRx(RxPayload(RxAck(s, p), p), RxAck(s, p))
  BY Zenon, <1>1, <1>2, PayloadSame DEF SameRx
<1>4. SameRx([s EXCEPT !.slowpath = @ \/ p.kind # "syn"], s)
  BY Zenon, <1>1 DEF SameRx, FlowState
<1> QED
  BY Zenon, <1>2, <1>3, <1>4 DEF fast_flows_packet, SameRx

\* the acknowledged bytes move forward, within what the application has written
AckForwardStep(r, s) == SeqSub(fsack_a(r), fsack_a(s)) <= s.tx_sent + s.tx_avail

(***************************************************************************)
(* What does not touch tx_next_seq and tx_sent acknowledges nothing.       *)
(***************************************************************************)
LEMMA SameAck ==
  ASSUME NEW s \in FlowState, NEW r, fsack_a(r) = fsack_a(s)
  PROVE  AckForwardStep(r, s)
<1>1. /\ s.tx_next_seq \in SeqNum
      /\ s.tx_sent \in 0 .. TxLen /\ s.tx_avail \in 0 .. TxLen
  BY DEF FlowState
<1> QED
  BY <1>1, FlowAssumption, SeqModAssumption
     DEF AckForwardStep, fsack_a, SeqSub, SeqNum

(***************************************************************************)
(* flow_reset_retransmit goes back to the oldest unacknowledged byte, and  *)
(* no further.                                                             *)
(***************************************************************************)
LEMMA ResetAck ==
  ASSUME NEW s, FlowInv(s)
  PROVE  AckForwardStep(flow_reset_retransmit(s), s)
<1>1. /\ s \in FlowState /\ s.tx_next_seq \in SeqNum /\ s.tx_sent \in 0 .. TxLen
  BY DEF FlowInv, FlowState
<1>2. /\ flow_reset_retransmit(s).tx_next_seq = fsack_a(s)
      /\ flow_reset_retransmit(s).tx_sent = 0
  BY <1>1 DEF flow_reset_retransmit, FlowState
<1>3. fsack_a(s) \in SeqNum
  BY <1>1, FlowAssumption, SeqModAssumption DEF fsack_a, SeqSub, SeqNum
<1>4. fsack_a(flow_reset_retransmit(s)) = SeqSub(fsack_a(s), 0)
  BY <1>2 DEF fsack_a
<1>5. SeqSub(fsack_a(s), 0) = fsack_a(s)
  BY <1>3, SeqModAssumption DEF SeqSub, SeqNum
<1> QED
  BY <1>1, <1>4, <1>5, SameAck

(***************************************************************************)
(* A packet moves the oldest unacknowledged byte by what its valid         *)
(* acknowledgement covers, future acknowledgements included.               *)
(***************************************************************************)
LEMMA PacketAck ==
  ASSUME NEW s, FlowInv(s), NEW p \in Segment
  PROVE  AckForwardStep(fast_flows_packet(s, p), s)
<1>1. /\ s \in FlowState /\ s.tx_next_seq \in SeqNum
      /\ s.tx_sent \in Nat /\ s.tx_avail \in Nat
      /\ s.tx_sent + s.tx_avail <= TxLen /\ p.ack \in SeqNum
  BY FlowAssumption DEF FlowInv, FlowState, TxOK, Segment
<1>2. CASE ToSlowpath(s, p)
  <2>1. SameTx(fast_flows_packet(s, p), s)
    BY <1>1, <1>2 DEF fast_flows_packet, SameTx, FlowState
  <2> QED
    BY <1>1, <2>1, SameAck DEF SameTx, fsack_a
<1>3. CASE ~ ToSlowpath(s, p) /\ FastRetransmit(s, p)
  BY <1>3, ResetAck DEF fast_flows_packet, RxAck
<1>4. CASE ~ ToSlowpath(s, p) /\ ~ FastRetransmit(s, p)
  <2> DEFINE b == TxBump(s, p)
             r == AckBytes(s, b)
             a == RxAck(s, p)
  <2>1. b \in 0 .. s.tx_sent + s.tx_avail
    <3>1. s.tx_sent + s.tx_avail < SeqMod
      BY <1>1, FlowAssumption, SeqModAssumption
    <3> QED
      BY <1>1, <3>1, RxAckLemma DEF TxBump
  <2>2. a \in FlowState
    BY RxAckInv DEF FlowInv
  <2>3. SameTx(a, r)
    BY <1>4 DEF RxAck, SameTx
  <2>4. SameTx(fast_flows_packet(s, p), a)
    BY <1>4, <2>2, PayloadSame DEF fast_flows_packet
  <2>5. \/ b <= s.tx_sent /\ r.tx_next_seq = s.tx_next_seq /\ r.tx_sent = s.tx_sent - b
        \/ /\ b > s.tx_sent /\ r.tx_sent = 0
           /\ r.tx_next_seq = SeqAdd(s.tx_next_seq, b - s.tx_sent)
    <3>1. b \in Int /\ s.tx_sent \in Int
      BY <1>1, <2>1
    <3> HIDE DEF b
    <3> QED
      BY <1>1, <3>1 DEF AckBytes, FlowState
  <2> HIDE DEF b, r, a
  <2>6. fsack_a(fast_flows_packet(s, p)) = fsack_a(r)
    BY <2>3, <2>4 DEF SameTx, fsack_a
  <2>7. SeqSub(fsack_a(r), fsack_a(s)) = b
    <3> DEFINE rn == r.tx_next_seq
               rs == r.tx_sent
               n == s.tx_next_seq
               t == s.tx_sent
               v == s.tx_avail
    <3>1. /\ n \in SeqNum /\ t \in Nat /\ v \in Nat /\ t + v < SeqMod /\ b \in 0 .. t + v
          /\ \/ b <= t /\ rn = n /\ rs = t - b
             \/ b > t /\ rs = 0 /\ rn = SeqAdd(n, b - t)
      BY <1>1, <2>1, <2>5, FlowAssumption, SeqModAssumption
    <3>2. SUFFICES SeqSub(SeqSub(rn, rs), SeqSub(n, t)) = b
      BY DEF fsack_a
    <3> HIDE DEF rn, rs, n, t, v
    <3>3. CASE b <= t /\ rn = n /\ rs = t - b
      BY <3>1, <3>3, SeqModAssumption DEF SeqSub, SeqNum
    <3>4. CASE b > t /\ rs = 0 /\ rn = SeqAdd(n, b - t)
      BY <3>1, <3>4, SeqModAssumption DEF SeqSub, SeqAdd, SeqNum
    <3> QED
      BY <3>1, <3>3, <3>4
  <2> QED
    BY <1>1, <2>1, <2>6, <2>7 DEF AckForwardStep
<1> QED
  BY <1>2, <1>3, <1>4

(***************************************************************************)
(* Sending a segment acknowledges nothing.                                 *)
(***************************************************************************)
LEMMA QmanAck ==
  ASSUME NEW s, FlowInv(s)
  PROVE  AckForwardStep(fast_flows_qman(s), s) /\ SameRx(fast_flows_qman(s), s)
<1> DEFINE len == SegBytes(s)
           r == fast_flows_qman(s)
<1>1. /\ s \in FlowState /\ s.tx_next_seq \in SeqNum
      /\ s.tx_sent \in Nat /\ s.tx_avail \in Nat
      /\ s.tx_sent + s.tx_avail <= TxLen
  BY FlowAssumption DEF FlowInv, FlowState, TxOK
<1>2. len \in Nat /\ len <= s.tx_avail
  <2>1. /\ Avail(s) \in 0 .. TxLen /\ Avail(s) <= s.tx_avail /\ len \in 0 .. Avail(s)
    BY <1>1, AvailLemma
  <2> HIDE DEF len
  <2> QED
    BY <1>1, <2>1, FlowAssumption
<1>3. /\ r.tx_next_seq = SeqAdd(s.tx_next_seq, len) /\ r.tx_sent = s.tx_sent + len
      /\ SameRx(r, s)
  BY <1>1 DEF fast_flows_qman, SameRx, FlowState
<1> HIDE DEF len, r
<1>4. fsack_a(r) = fsack_a(s)
  <2> DEFINE n == s.tx_next_seq
             t == s.tx_sent
             v == s.tx_avail
  <2>1. n \in SeqNum /\ t \in Nat /\ v \in Nat /\ t + v < SeqMod /\ len <= v
    BY <1>1, <1>2, FlowAssumption, SeqModAssumption
  <2>2. SUFFICES SeqSub(SeqAdd(n, len), t + len) = SeqSub(n, t)
    BY <1>3 DEF fsack_a
  <2> HIDE DEF n, t, v
  <2> QED
    BY <1>2, <2>1, SeqModAssumption DEF SeqSub, SeqAdd, SeqNum
<1> QED
  BY <1>1, <1>3, <1>4, SameAck DEF r

(***************************************************************************)
(* A bump touches neither the sent bytes nor the receive stream.           *)
(***************************************************************************)
LEMMA BumpSame ==
  ASSUME NEW s \in FlowState, NEW b
  PROVE  SameTx(fast_flows_bump(s, b), s) /\ SameRx(fast_flows_bump(s, b), s)
  BY DEF fast_flows_bump, SameTx, SameRx, FlowState

(***************************************************************************)
(* Nor does a retransmission touch the receive stream.                     *)
(***************************************************************************)
LEMMA RetransmitSame ==
  ASSUME NEW s, FlowInv(s)
  PROVE  /\ AckForwardStep(fast_flows_retransmit(s), s)
         /\ SameRx(fast_flows_retransmit(s), s)
<1>1. s \in FlowState
  BY DEF FlowInv
<1>2. SameRx(flow_reset_retransmit(s), s)
  BY <1>1 DEF flow_reset_retransmit, SameRx, FlowState
<1>3. SameRx(s, s) /\ AckForwardStep(s, s)
  BY <1>1, SameAck DEF SameRx
<1> QED
  BY <1>2, <1>3, ResetAck DEF fast_flows_retransmit
=============================================================================
