--------------------------- MODULE TcpStream_proofs --------------------------
(***************************************************************************)
(* Theorems about TcpStream: what arrives is what was written, nothing is  *)
(* acknowledged that did not arrive, and the connection implements a pair  *)
(* of byte streams.  They hold for all buffer sizes, initial sequence      *)
(* numbers and streams that are shorter than the sequence space            *)
(* (StreamsFit), for any loss, duplication and reordering of segments.     *)
(*                                                                         *)
(* TcpFlow_proofs has what an end does to its receive and its send side;   *)
(* here are how the end as a whole moves (Moves), the inductive invariant  *)
(* of both ends and the network (IInv), and the refinement.                *)
(***************************************************************************)
EXTENDS TcpFlow_proofs
-----------------------------------------------------------------------------
\* One end of the connection moves: its flow f becomes g, its buffers tb and
\* rb, its application has written w bytes, now w2, and read o, now o2.  The
\* peer's stream has wp bytes, is closed if cp, and the peer expects next.
Moves(f, w, o, g, tb, w2, rb, o2, i, j, wp, cp, next) ==
  /\ TxSide(g, tb, i, w2) /\ RxSide(g, rb, j, o2, wp, cp)
  /\ ~ g.slowpath /\ g.bump_seq = 0
  /\ Grows(w, f.txfin, w2, g.txfin) /\ NextOf(f, o) <= NextOf(g, o2)
  /\ AckedOf(g, w2) <= next

\* the end of the connection before it moves
Stands(f, tb, w, rb, o, i, j, wp, cp, next) ==
  Moves(f, w, o, f, tb, w, rb, o, i, j, wp, cp, next)

\* the receive side goes along with an operation that leaves it alone
LEMMA RxStays ==
  ASSUME NEW f, NEW g, NEW buf, NEW i, NEW o, NEW w, NEW c,
         RxSide(f, buf, i, o, w, c), RxAll(g, f), FlowInv(g)
  PROVE  RxSide(g, buf, i, o, w, c) /\ NextOf(f, o) <= NextOf(g, o)
<1>1. RxStream(g, buf, i, o, w, c)
  BY Zenon, StreamFrame DEF RxSide
<1>2. NextOf(g, o) = NextOf(f, o) /\ NextOf(f, o) \in Nat
  BY Zenon, NextFrame, NextBound
<1>3. NextOf(f, o) <= NextOf(g, o)
  BY SMTT(60), <1>2
<1> QED
  BY Zenon, <1>1, <1>3 DEF RxSide

\* the end of the stream that is sent has not moved
SameFin(g, f) == g.txfin = f.txfin

\* the application writes
LEMMA WriteMoves ==
  ASSUME NEW f, NEW tb, NEW w, NEW rb, NEW o, NEW i, NEW j, NEW wp, NEW cp, NEW next,
         Stands(f, tb, w, rb, o, i, j, wp, cp, next),
         RxLen <= TxLen, ~ f.txfin, NEW n \in Nat,
         n <= TxLen - (f.tx_avail + f.tx_sent), (w + n) + 1 < SeqMod
  PROVE  /\ Moves(f, w, o, fast_flows_bump(f, Update(0, n, FALSE)), Filled(tb, w, n),
                  w + n, rb, o, i, j, wp, cp, next)
         /\ RxAll(fast_flows_bump(f, Update(0, n, FALSE)), f)
         /\ SameFin(fast_flows_bump(f, Update(0, n, FALSE)), f)
<1>1. /\ TxSide(f, tb, i, w) /\ RxSide(f, rb, j, o, wp, cp) /\ ~ f.slowpath
      /\ f.bump_seq = 0 /\ AckedOf(f, w) <= next
  BY Zenon DEF Stands, Moves
<1>2. PICK g : g = fast_flows_bump(f, Update(0, n, FALSE))
  BY Zenon
<1>3. TxGoesOn(g, f, i, Filled(tb, w, n), w + n, w) /\ Bumped(g, f, 0, n, FALSE)
  BY Zenon, <1>1, <1>2, WriteStream
<1>4. FlowInv(f) /\ FlowInv(g) /\ w \in Nat
  BY Zenon, <1>1, <1>3 DEF TxSide, TxGoesOn
<1>5. RxAll(g, f)
  BY Zenon, <1>3, <1>4, BumpedRx
<1>6. RxSide(g, rb, j, o, wp, cp) /\ NextOf(f, o) <= NextOf(g, o)
  BY ZenonT(60), <1>1, <1>4, <1>5, RxStays
<1>7. ~ g.txfin /\ g.slowpath = f.slowpath /\ g.bump_seq = 0
  BY Zenon, <1>3 DEF Bumped
<1>8. Grows(w, f.txfin, w + n, g.txfin)
  <2>1. f.txfin \in BOOLEAN /\ g.txfin \in BOOLEAN
    BY SMTT(60), <1>4 DEF FlowInv, FlowState
  <2>2. w + n \in Nat /\ w <= w + n
    BY SMTT(60), <1>4
  <2> QED
    BY ZenonT(60), <1>4, <2>1, <2>2 DEF Grows
<1>9. SameFin(g, f)
  <2>1. f.txfin \in BOOLEAN /\ g.txfin \in BOOLEAN
    BY <1>4 DEF FlowInv, FlowState
  <2> QED
    BY Zenon, <1>7, <2>1 DEF SameFin
<1>10. Moves(f, w, o, g, Filled(tb, w, n), w + n, rb, o, i, j, wp, cp, next)
  BY ZenonT(60), <1>1, <1>3, <1>6, <1>7, <1>8 DEF Moves, TxGoesOn
<1> QED
  BY Zenon, <1>2, <1>5, <1>9, <1>10

\* the application closes
LEMMA CloseMoves ==
  ASSUME NEW f, NEW tb, NEW w, NEW rb, NEW o, NEW i, NEW j, NEW wp, NEW cp, NEW next,
         Stands(f, tb, w, rb, o, i, j, wp, cp, next),
         RxLen <= TxLen, ~ f.txfin, TxLen - (f.tx_avail + f.tx_sent) > 0
  PROVE  /\ Moves(f, w, o, fast_flows_bump(f, Update(0, 1, TRUE)), tb, w, rb, o,
                  i, j, wp, cp, next)
         /\ RxAll(fast_flows_bump(f, Update(0, 1, TRUE)), f)
         /\ fast_flows_bump(f, Update(0, 1, TRUE)).txfin
<1>1. /\ TxSide(f, tb, i, w) /\ RxSide(f, rb, j, o, wp, cp) /\ ~ f.slowpath
      /\ f.bump_seq = 0 /\ AckedOf(f, w) <= next
  BY Zenon DEF Stands, Moves
<1>2. PICK g : g = fast_flows_bump(f, Update(0, 1, TRUE))
  BY Zenon
<1>3. TxGoesOn(g, f, i, tb, w, w) /\ Bumped(g, f, 0, 1, TRUE)
  BY Zenon, <1>1, <1>2, CloseStream
<1>4. FlowInv(f) /\ FlowInv(g) /\ w \in Nat
  BY Zenon, <1>1, <1>3 DEF TxSide, TxGoesOn
<1>5. RxAll(g, f)
  BY Zenon, <1>3, <1>4, BumpedRx
<1>6. RxSide(g, rb, j, o, wp, cp) /\ NextOf(f, o) <= NextOf(g, o)
  BY ZenonT(60), <1>1, <1>4, <1>5, RxStays
<1>7. g.txfin /\ g.slowpath = f.slowpath /\ g.bump_seq = 0
  BY Zenon, <1>3 DEF Bumped
<1>8. Grows(w, f.txfin, w, g.txfin)
  <2>1. f.txfin \in BOOLEAN /\ g.txfin \in BOOLEAN
    BY SMTT(60), <1>4 DEF FlowInv, FlowState
  <2>2. w <= w
    BY SMTT(60), <1>4
  <2> QED
    BY ZenonT(60), <1>4, <2>1, <2>2 DEF Grows
<1>9. Moves(f, w, o, g, tb, w, rb, o, i, j, wp, cp, next)
  BY Zenon, <1>1, <1>3, <1>6, <1>7, <1>8 DEF Moves, TxGoesOn
<1> QED
  BY Zenon, <1>2, <1>5, <1>7, <1>9

\* a stream does not change
LEMMA GrowsSame ==
  ASSUME NEW f, NEW g, FlowInv(f), g.txfin = f.txfin, NEW w \in Nat
  PROVE  Grows(w, f.txfin, w, g.txfin)
<1>1. f.txfin \in BOOLEAN
  BY SMTT(60) DEF FlowInv, FlowState
<1>2. w <= w
  OBVIOUS
<1> QED
  BY Zenon, <1>1, <1>2 DEF Grows

\* fast_flows_qman sends
LEMMA QmanMoves ==
  ASSUME NEW f, NEW tb, NEW w, NEW rb, NEW o, NEW i, NEW j, NEW wp, NEW cp, NEW next,
         Stands(f, tb, w, rb, o, i, j, wp, cp, next)
  PROVE  /\ Moves(f, w, o, fast_flows_qman(f), tb, w, rb, o, i, j, wp, cp, next)
         /\ RxAll(fast_flows_qman(f), f) /\ SameFin(fast_flows_qman(f), f)
<1>1. /\ TxSide(f, tb, i, w) /\ RxSide(f, rb, j, o, wp, cp) /\ ~ f.slowpath
      /\ f.bump_seq = 0 /\ AckedOf(f, w) <= next
  BY Zenon DEF Stands, Moves
<1>2. PICK g : g = fast_flows_qman(f)
  BY SMTT(60)
<1>3. /\ TxGoesOn(g, f, i, tb, w, w) /\ RxAll(g, f) /\ g.slowpath = f.slowpath
      /\ g.bump_seq = f.bump_seq /\ g.txfin = f.txfin
  BY Zenon, <1>1, <1>2, QmanStream
<1>4. FlowInv(f) /\ FlowInv(g) /\ w \in Nat
  BY Zenon, <1>1, <1>3 DEF TxSide, TxGoesOn
<1>6. RxSide(g, rb, j, o, wp, cp) /\ NextOf(f, o) <= NextOf(g, o)
  BY Zenon, <1>1, <1>3, <1>4, RxStays
<1>8. Grows(w, f.txfin, w, g.txfin)
  BY Zenon, <1>3, <1>4, GrowsSame
<1>9. Moves(f, w, o, g, tb, w, rb, o, i, j, wp, cp, next) /\ SameFin(g, f)
  BY Zenon, <1>1, <1>3, <1>6, <1>8 DEF Moves, TxGoesOn, SameFin
<1> QED
  BY Zenon, <1>2, <1>3, <1>9

\* fast_flows_retransmit takes back what was sent
LEMMA RetransmitMoves ==
  ASSUME NEW f, NEW tb, NEW w, NEW rb, NEW o, NEW i, NEW j, NEW wp, NEW cp, NEW next,
         Stands(f, tb, w, rb, o, i, j, wp, cp, next)
  PROVE  /\ Moves(f, w, o, fast_flows_retransmit(f), tb, w, rb, o, i, j, wp, cp, next)
         /\ RxAll(fast_flows_retransmit(f), f) /\ SameFin(fast_flows_retransmit(f), f)
<1>1. /\ TxSide(f, tb, i, w) /\ RxSide(f, rb, j, o, wp, cp) /\ ~ f.slowpath
      /\ f.bump_seq = 0 /\ AckedOf(f, w) <= next
  BY Zenon DEF Stands, Moves
<1>2. CASE f.tx_sent = 0
  <2>1. RxAll(f, f) /\ SameFin(f, f)
    BY Zenon DEF RxAll, RxKeeps, SameFin
  <2> QED
    BY Zenon, <1>2, <2>1 DEF Stands, fast_flows_retransmit
<1>3. CASE f.tx_sent # 0
  <2>1. PICK g : g = flow_reset_retransmit(f) /\ g = fast_flows_retransmit(f)
    BY Zenon, <1>3 DEF fast_flows_retransmit
  <2>2. FlowInv(f) /\ FlowInv(g) /\ w \in Nat
    BY Zenon, <1>1, <2>1, ResetInv DEF TxSide
  <2>3. TxStream(g, tb, i, w) /\ AckedOf(g, w) = AckedOf(f, w)
    BY Zenon, <1>1, <2>1, ResetStream
  <2>4. /\ RxAll(g, f) /\ g.slowpath = f.slowpath /\ g.bump_seq = f.bump_seq
        /\ g.txfin = f.txfin
    <3>1. f \in FlowState
      BY Zenon, <2>2 DEF FlowInv
    <3> QED
      BY <2>1, <3>1 DEF flow_reset_retransmit, FlowState, RxAll, RxKeeps
  <2>5. TxSide(g, tb, i, w)
    BY Zenon, <1>1, <2>2, <2>3 DEF TxSide
  <2>6. RxSide(g, rb, j, o, wp, cp) /\ NextOf(f, o) <= NextOf(g, o)
    BY Zenon, <1>1, <2>2, <2>4, RxStays
  <2>7. Grows(w, f.txfin, w, g.txfin)
    BY Zenon, <2>2, <2>4, GrowsSame
  <2>8. Moves(f, w, o, g, tb, w, rb, o, i, j, wp, cp, next) /\ SameFin(g, f)
    BY ZenonT(60), <1>1, <2>3, <2>4, <2>5, <2>6, <2>7 DEF Moves, SameFin
  <2> QED
    BY Zenon, <2>1, <2>4, <2>8
<1> QED
  BY Zenon, <1>2, <1>3

\* the receive side after the application has read on to byte o2
RxReads(g, f, buf, i, o2, o, w, c) ==
  RxSide(g, buf, i, o2, w, c) /\ NextOf(g, o2) = NextOf(f, o)

\* what the application reads leaves the buffer, and nothing else changes
LEMMA ReadStream ==
  ASSUME NEW f, NEW g, NEW buf, NEW i, NEW o, NEW w, NEW c, NEW n \in Nat,
         RxSide(f, buf, i, o, w, c), Bumped(g, f, n, 0, FALSE), FlowInv(g)
  PROVE  RxReads(g, f, buf, i, o + n, o, w, c)
<1>1. /\ f \in FlowState /\ Ctx(i, o, w, c) /\ RxBytes(f, buf, i, o, w, c)
      /\ RxStream(f, buf, i, o, w, c) /\ buf \in [0 .. RxLen - 1 -> Nat]
  BY Zenon DEF RxSide, FlowInv, RxStream
<1>2. o \in Nat /\ f.rx_avail \in Nat /\ f.rx_ooo_len \in Nat
  BY SMTT(60), <1>1, FlowAssumption DEF Ctx, FlowState
<1>3. /\ g.rx_avail = f.rx_avail + n /\ g.rxfin = f.rxfin
      /\ g.rx_next_seq = f.rx_next_seq /\ g.rx_next_pos = f.rx_next_pos
      /\ g.rx_ooo_start = f.rx_ooo_start /\ g.rx_ooo_len = f.rx_ooo_len
  BY ZenonT(60) DEF Bumped
<1>4. GotOf(g, o + n) = GotOf(f, o)
  BY SMTT(60), <1>2, <1>3, FlowAssumption DEF GotOf
<1>5. NextOf(g, o + n) = NextOf(f, o)
  BY Zenon, <1>3, <1>4 DEF NextOf
<1>6. PICK t \in Nat : t = GotOf(f, o)
  BY Zenon, <1>1, RxRanges
<1>7. Holds(buf, o + n, t)
  <2>1. Holds(buf, o, t)
    BY Zenon, <1>1, <1>6 DEF RxBytes
  <2>2. \A k \in o + n .. t - 1 : k \in o .. t - 1
    BY SMTT(60), <1>2
  <2> QED
    BY Zenon, <2>1, <2>2 DEF Holds
<1>8. RxBytes(g, buf, i, o + n, w, c)
  BY Zenon, <1>1, <1>3, <1>4, <1>5, <1>6, <1>7 DEF RxBytes
<1>9. ASSUME g.rx_ooo_len > 0
      PROVE  \E st \in GotOf(g, o + n) + 1 .. w : OooAt(g, buf, i, o + n, w, st)
  <2>0. f.rx_ooo_len > 0
    BY Zenon, <1>3, <1>9
  <2>1. PICK st \in t + 1 .. w : OooAt(f, buf, i, o, w, st)
    BY Zenon, <1>1, <1>6, <2>0 DEF RxStream
  <2>2. st + f.rx_ooo_len <= o + RxLen
    BY Zenon, <2>1 DEF OooAt
  <2>3. st + f.rx_ooo_len <= (o + n) + RxLen
    <3>1. st \in Int
      BY SMTT(60), <1>6
    <3> QED
      BY SMTT(60), <1>2, <2>2, <3>1, FlowAssumption
  <2>4. OooAt(g, buf, i, o + n, w, st)
    BY Zenon, <1>3, <2>1, <2>3 DEF OooAt
  <2> QED
    BY Zenon, <1>4, <1>6, <2>1, <2>4
<1>10. RxStream(g, buf, i, o + n, w, c)
  BY Zenon, <1>8, <1>9 DEF RxStream
<1>11. o + n \in Nat
  BY SMTT(60), <1>2
<1>12. Ctx(i, o + n, w, c)
  BY Zenon, <1>1, <1>11 DEF Ctx
<1> QED
  BY ZenonT(60), <1>1, <1>5, <1>10, <1>12 DEF RxSide, RxReads

\* the application reads
LEMMA ReadMoves ==
  ASSUME NEW f, NEW tb, NEW w, NEW rb, NEW o, NEW i, NEW j, NEW wp, NEW cp, NEW next,
         Stands(f, tb, w, rb, o, i, j, wp, cp, next),
         RxLen <= TxLen, NEW n \in Nat, n <= RxLen - f.rx_avail
  PROVE  /\ Moves(f, w, o, fast_flows_bump(f, Update(n, 0, FALSE)), tb, w, rb, o + n,
                  i, j, wp, cp, next)
         /\ SameFin(fast_flows_bump(f, Update(n, 0, FALSE)), f)
<1>1. /\ TxSide(f, tb, i, w) /\ RxSide(f, rb, j, o, wp, cp) /\ ~ f.slowpath
      /\ f.bump_seq = 0 /\ AckedOf(f, w) <= next
  BY Zenon DEF Stands, Moves
<1>2. PICK g : g = fast_flows_bump(f, Update(n, 0, FALSE))
  BY Zenon
<1>3. /\ FlowInv(f) /\ w \in Nat /\ f.rx_avail \in Nat /\ f.tx_avail \in Nat
      /\ f.tx_sent \in Nat /\ f.tx_avail + f.tx_sent <= TxLen
  BY <1>1, FlowAssumption DEF TxSide, FlowInv, FlowState, TxOK
<1>4. CanBump(f, n, 0, FALSE)
  <2>1. f.tx_avail + 0 + f.tx_sent <= TxLen /\ n + f.rx_avail <= RxLen /\ 0 \in Nat
    BY <1>3, FlowAssumption
  <2> QED
    BY Zenon, <1>1, <2>1 DEF CanBump
<1>5. Bumped(g, f, n, 0, FALSE) /\ FlowInv(g)
  BY Zenon, <1>2, <1>3, <1>4, BumpIs
<1>6. TxAll(g, f)
  BY Zenon, <1>3, <1>5, BumpedTx
<1>7. TxSide(g, tb, i, w) /\ AckedOf(g, w) = AckedOf(f, w)
  <2>1. TxStream(g, tb, i, w) /\ AckedOf(g, w) = AckedOf(f, w)
    <3>1. TxStream(f, tb, i, w)
      BY Zenon, <1>1 DEF TxSide
    <3> QED
      BY SMTT(60), <1>6, <3>1, TxFrame
  <2> QED
    BY Zenon, <1>1, <1>5, <2>1 DEF TxSide
<1>8. RxSide(g, rb, j, o + n, wp, cp) /\ NextOf(g, o + n) = NextOf(f, o)
  <2>1. RxReads(g, f, rb, j, o + n, o, wp, cp)
    BY Zenon, <1>1, <1>5, ReadStream
  <2> QED
    BY Zenon, <2>1 DEF RxReads
<1>9. NextOf(f, o) <= NextOf(g, o + n)
  <2>1. NextOf(f, o) \in Nat
    BY Zenon, <1>1, NextBound
  <2> QED
    BY SMTT(60), <1>8, <2>1
<1>10. g.slowpath = f.slowpath /\ g.bump_seq = 0
  BY Zenon, <1>5 DEF Bumped
<1>11. Grows(w, f.txfin, w, g.txfin)
  BY Zenon, <1>3, <1>6, GrowsSame DEF TxAll
<1>12. Moves(f, w, o, g, tb, w, rb, o + n, i, j, wp, cp, next)
  BY Zenon, <1>1, <1>7, <1>8, <1>9, <1>10, <1>11 DEF Moves
<1>13. SameFin(g, f)
  BY Zenon, <1>6 DEF TxAll, SameFin
<1> QED
  BY Zenon, <1>2, <1>12, <1>13

\* an application has read q: the first bytes of the peer's stream, in order
OutOK(q) == q \in Seq(Nat) /\ \A k \in 1 .. Len(q) : q[k] = k - 1

\* functions as sequences
LEMMA FcnSeq ==
  ASSUME NEW n \in Nat, NEW h \in [1 .. n -> Nat]
  PROVE  h \in Seq(Nat) /\ Len(h) = n
  BY SMTT(60)

\* the parts of a concatenation
LEMMA Concat ==
  ASSUME NEW q \in Seq(Nat), NEW h \in Seq(Nat)
  PROVE  /\ q \o h \in Seq(Nat) /\ Len(q \o h) = Len(q) + Len(h)
         /\ \A k \in 1 .. Len(q) : (q \o h)[k] = q[k]
         /\ \A k \in Len(q) + 1 .. Len(q) + Len(h) : (q \o h)[k] = h[k - Len(q)]
  OBVIOUS

\* n bytes of a receive buffer, from byte o of the stream on
Taken(buf, o, n) == [k \in 1 .. n |-> buf[(o + k - 1) % RxLen]]

\* h is what follows q in a stream of w bytes, n bytes of it
Continues(q, h, n, w) ==
  /\ OutOK(q \o h) /\ Len(q \o h) = Len(q) + n
  /\ h = [k \in 1 .. n |-> Len(q) + k - 1]
  /\ Len(q) + n <= w

\* the bytes Read appends: what the peer wrote next
LEMMA ReadOut ==
  ASSUME NEW f, NEW buf, NEW i, NEW w, NEW c, NEW q, NEW n \in Nat, OutOK(q),
         RxSide(f, buf, i, Len(q), w, c), n <= RxLen - f.rx_avail
  PROVE  Continues(q, Taken(buf, Len(q), n), n, w)
<1>0. PICK h : h = Taken(buf, Len(q), n)
  BY SMTT(60)
<1>1. PICK o \in Nat : o = Len(q)
  BY DEF OutOK
<1>2. q \in Seq(Nat) /\ \A k \in 1 .. o : q[k] = k - 1
  BY Zenon, <1>1 DEF OutOK
<1>3. f \in FlowState /\ Ctx(i, o, w, c) /\ RxBytes(f, buf, i, o, w, c)
  BY ZenonT(60), <1>1 DEF RxSide, FlowInv, RxStream
<1>4. f.rx_avail \in Nat /\ w \in Nat
  BY SMTT(60), <1>3, FlowAssumption DEF Ctx, FlowState
<1>5. PICK t \in Nat : t = GotOf(f, o) /\ t <= w
  BY ZenonT(60), <1>3, RxRanges
<1>6. o + n <= t
  BY SMTT(60), <1>4, <1>5, FlowAssumption DEF GotOf
<1>7. Holds(buf, o, t)
  BY Zenon, <1>3, <1>5 DEF RxBytes
<1>8. ASSUME NEW k \in 1 .. n
      PROVE  buf[(o + k - 1) % RxLen] = o + k - 1
  <2>1. o + k - 1 \in o .. t - 1
    BY SMTT(60), <1>6
  <2> QED
    BY Zenon, <1>7, <2>1 DEF Holds
<1>9. h = [k \in 1 .. n |-> o + k - 1]
  <2>1. h = [k \in 1 .. n |-> buf[(o + k - 1) % RxLen]]
    BY Zenon, <1>0, <1>1 DEF Taken
  <2> QED
    BY Zenon, <1>8, <2>1
<1>10. h \in Seq(Nat) /\ Len(h) = n /\ \A k \in 1 .. n : h[k] = o + k - 1
  <2>1. \A k \in 1 .. n : o + k - 1 \in Nat
    OBVIOUS
  <2>2. h \in [1 .. n -> Nat]
    BY <1>9, <2>1
  <2>3. h \in Seq(Nat) /\ Len(h) = n
    BY Zenon, <2>2, FcnSeq
  <2> QED
    BY <1>9, <2>3
<1>11. PICK r : r = q \o h
  BY Zenon
<1>12. /\ r \in Seq(Nat) /\ Len(r) = o + n
       /\ \A k \in 1 .. o : r[k] = q[k]
       /\ \A k \in o + 1 .. o + n : r[k] = h[k - o]
  BY Zenon, <1>1, <1>2, <1>10, <1>11, Concat
<1>13. ASSUME NEW k \in 1 .. o + n
       PROVE  r[k] = k - 1
  <2>1. CASE k <= o
    BY <1>2, <1>12, <2>1
  <2>2. CASE k > o
    <3>1. r[k] = h[k - o] /\ k - o \in 1 .. n
      BY SMTT(60), <1>12, <2>2
    <3>2. h[k - o] = o + (k - o) - 1
      BY SMTT(60), <1>10, <3>1
    <3> QED
      BY SMTT(60), <3>1, <3>2
  <2> QED
    BY <2>1, <2>2
<1>14. OutOK(r)
  BY Zenon, <1>12, <1>13 DEF OutOK
<1>15. o + n <= w
  BY SMTT(60), <1>4, <1>5, <1>6
<1> QED
  BY ZenonT(60), <1>0, <1>1, <1>9, <1>11, <1>12, <1>14, <1>15 DEF Continues

\* the acknowledgement half of fast_flows_packet leaves alone what follows
Kept(g, f) == g.slowpath = f.slowpath /\ g.bump_seq = f.bump_seq /\ g.txfin = f.txfin

\* and it does leave them alone
LEMMA AckKept ==
  ASSUME NEW f, NEW p
  PROVE  Kept(RxAck(f, p), f)
<1>1. Kept(flow_reset_retransmit(f), f)
  BY DEF flow_reset_retransmit, Kept
<1>2. \A b : Kept(AckBytes(f, b), f)
  BY DEF AckBytes, Kept
<1>3. \A g, n : Kept([g EXCEPT !.rx_dupack_cnt = n], g)
  BY DEF Kept
<1>4. \A q, r, s : Kept(q, r) /\ Kept(r, s) => Kept(q, s)
  BY Zenon DEF Kept
<1>5. CASE FastRetransmit(f, p)
  BY Zenon, <1>1, <1>5 DEF RxAck
<1>6. CASE ~ FastRetransmit(f, p)
  <2>1. PICK g : g = AckBytes(f, TxBump(f, p))
    BY SMTT(60)
  <2>2. PICK n : RxAck(f, p) = [g EXCEPT !.rx_dupack_cnt = n]
    BY Zenon, <1>6, <2>1 DEF RxAck
  <2> QED
    BY ZenonT(60), <1>2, <1>3, <1>4, <2>1, <2>2
<1> QED
  BY Zenon, <1>5, <1>6

\* fast_flows_packet receives a segment the peer may have sent
LEMMA ReceiveMoves ==
  ASSUME NEW f, NEW tb, NEW w, NEW rb, NEW o, NEW i, NEW j, NEW wp, NEW cp,
         NEW next \in Nat, Stands(f, tb, w, rb, o, i, j, wp, cp, next),
         next <= w + One(f.txfin), NEW p, Sends(p, j, wp, cp), Acks(p, i, next),
         ~ Overrun(f, p.seg.seq, p.seg.len)
  PROVE  /\ Moves(f, w, o, fast_flows_packet(f, p.seg), tb, w, RxStore(rb, f, p), o,
                  i, j, wp, cp, next)
         /\ SameFin(fast_flows_packet(f, p.seg), f)
<1>1. /\ TxSide(f, tb, i, w) /\ RxSide(f, rb, j, o, wp, cp) /\ ~ f.slowpath
      /\ f.bump_seq = 0 /\ AckedOf(f, w) <= next
  BY Zenon DEF Stands, Moves
<1>2. p.seg \in Segment /\ p.seg.kind = "data"
  BY Zenon DEF Sends
<1>3. PICK x \in Nat : Under(p, j, wp, cp, x)
  <2>1. PICK x \in 0 .. wp + One(cp) : SegAt(p, j, wp, cp, x)
    BY Zenon DEF Sends
  <2>2. wp + One(cp) \in Nat
    <3>1. wp \in Nat /\ cp \in BOOLEAN
      BY Zenon, <1>1 DEF RxSide, Ctx
    <3> QED
      BY SMTT(60), <3>1 DEF One
  <2>3. x \in Nat
    BY SMTT(60), <2>1, <2>2
  <2> QED
    BY Zenon, <1>2, <2>1, <2>3 DEF Under
<1>4. PICK g : g = fast_flows_packet(f, p.seg)
  BY SMTT(60)
<1>5. RxSide(g, RxStore(rb, f, p), j, o, wp, cp) /\ NextOf(f, o) <= NextOf(g, o)
  BY ZenonT(60), <1>1, <1>2, <1>3, <1>4, PacketStream
<1>6. PICK y \in Nat : p.seg.ack = SeqAdd(i, y) /\ y <= next
  <2>1. PICK y \in 0 .. next : p.seg.ack = SeqAdd(i, y)
    BY Zenon DEF Acks
  <2>2. y \in Nat /\ y <= next
    BY SMTT(60)
  <2> QED
    BY Zenon, <2>1, <2>2
<1>7. PICK h : h = RxAck(f, p.seg)
  BY SMTT(60)
<1>8. TxStream(h, tb, i, w) /\ (AckedOf(h, w) = AckedOf(f, w) \/ AckedOf(h, w) = y)
  <2>1. y <= w + One(f.txfin)
    <3>1. w \in Nat /\ f.txfin \in BOOLEAN
      BY SMTT(60), <1>1 DEF TxSide, FlowInv, FlowState
    <3>2. w + One(f.txfin) \in Nat
      BY SMTT(60), <3>1 DEF One
    <3> QED
      BY SMTT(60), <1>6, <3>2
  <2> QED
    <3>1. AckTo(RxAck(f, p.seg), f, tb, i, w, y)
      BY ZenonT(60), <1>1, <1>2, <1>6, <2>1, AckStream
    <3> QED
      BY Zenon, <1>7, <3>1 DEF AckTo
<1>9. TxAll(g, h) /\ Kept(g, h)
  <2>1. ~ ToSlowpath(f, p.seg)
    BY Zenon, <1>1, <1>2 DEF ToSlowpath
  <2>2. g = IF FastRetransmit(f, p.seg) THEN h ELSE RxPayload(h, p.seg)
    BY Zenon, <1>4, <1>7, <2>1 DEF fast_flows_packet
  <2>3. Rest(h, h)
    BY Zenon DEF Rest, TxAll
  <2>4. Rest(RxPayload(h, p.seg), h)
    BY Zenon, PayloadRest
  <2>5. Rest(g, h)
    BY Zenon, <2>2, <2>3, <2>4
  <2> QED
    BY Zenon, <2>5 DEF Rest, TxAll, Kept
<1>10. Kept(h, f)
  BY Zenon, <1>7, AckKept
<1>11. g.slowpath = f.slowpath /\ g.bump_seq = f.bump_seq /\ g.txfin = f.txfin
  BY ZenonT(60), <1>9, <1>10 DEF Kept
<1>12. TxStream(g, tb, i, w) /\ AckedOf(g, w) = AckedOf(h, w)
  BY SMTT(60), <1>8, <1>9, TxFrame
<1>13. FlowInv(f) /\ FlowInv(g) /\ w \in Nat
  BY Zenon, <1>1, <1>2, <1>4, PacketInv DEF TxSide
<1>14. TxSide(g, tb, i, w)
  BY Zenon, <1>1, <1>12, <1>13 DEF TxSide
<1>15. AckedOf(g, w) <= next
  <2>1. AckedOf(g, w) = AckedOf(f, w) \/ AckedOf(g, w) = y
    BY Zenon, <1>8, <1>12
  <2> QED
    BY Zenon, <1>1, <1>6, <2>1
<1>16. Grows(w, f.txfin, w, g.txfin)
  BY Zenon, <1>11, <1>13, GrowsSame
<1>17. Moves(f, w, o, g, tb, w, RxStore(rb, f, p), o, i, j, wp, cp, next)
  BY ZenonT(60), <1>1, <1>5, <1>11, <1>14, <1>15, <1>16 DEF Moves
<1>18. SameFin(g, f)
  BY Zenon, <1>11 DEF SameFin
<1> QED
  BY Zenon, <1>4, <1>17, <1>18
-----------------------------------------------------------------------------
(***************************************************************************)
(* The streams are shorter than the sequence space, and the receive buffer *)
(* is not larger than the transmit buffer, with whose length the fast path *)
(* compares the receive credit (BumpValid).                                *)
(***************************************************************************)
StreamsFit ==
  /\ RxLen <= TxLen
  /\ \A pl \in Plans : \A s \in Side : pl.total[s] + 1 + RxLen < SeqMod

\* h is a function on the two ends
Table(h) == h = [x \in Side |-> h[x]]

\* the variables with a value for each end
Tables ==
  /\ Table(fs) /\ Table(txbuf) /\ Table(rxbuf)
  /\ Table(wr) /\ Table(out) /\ Table(net)

\* the byte of the stream to s that s expects next, the FIN counted
Next0(s) == NextOf(fs[s], Len(out[s]))

\* segment p may be on its way from r to s
UnderWay(p, s, r) ==
  Sends(p, Isn[r], wr[r], fs[r].txfin) /\ Acks(p, Isn[s], Next0(r))

\* end s of the connection, towards its peer r
EndOK(s, r) ==
  /\ Stands(fs[s], txbuf[s], wr[s], rxbuf[s], Len(out[s]), Isn[s], Isn[r],
            wr[r], fs[r].txfin, Next0(r))
  /\ wr[s] <= plan.total[s] /\ OutOK(out[s])
  /\ \A p \in net[s] : UnderWay(p, s, r)

(***************************************************************************)
(* The inductive invariant.  Each end's send buffer holds what it has      *)
(* written and the peer has not acknowledged, its receive buffer what has  *)
(* arrived and is not read, at the places the positions and sequence       *)
(* numbers of the flow say; out-of-order bytes are the stream's; what is   *)
(* read is a prefix of it; every segment under way, duplicates and old     *)
(* ones included, carries bytes of the stream under their sequence number; *)
(* and nobody acknowledges a byte that has not arrived.                    *)
(***************************************************************************)
IInv == plan \in Plans /\ Tables /\ \A s \in Side : EndOK(s, Peer(s))

\* table h2 is table h with v for s
IsSet(h2, h, s, v) == h2 = [h EXCEPT ![s] = v]
\* the entries of such a table
Turned(h2, h, s, r, v) == Table(h2) /\ h2[s] = v /\ h2[r] = h[r]

\* an EXCEPT changes one entry
LEMMA TableSet ==
  ASSUME NEW h, Table(h), NEW s \in Side, NEW r \in Side, r # s, NEW v,
         NEW h2, IsSet(h2, h, s, v)
  PROVE  Turned(h2, h, s, r, v)
  BY SMTT(60) DEF Table, IsSet, Turned

\* the two ends
LEMMA PeerIs ==
  ASSUME NEW s \in Side
  PROVE  Peer(s) \in Side /\ Peer(s) # s /\ Peer(Peer(s)) = s
         /\ \A x \in Side : x = s \/ x = Peer(s)
  BY DEF Side, Peer

\* what a step of s leaves of its peer r
Alone(r) ==
  /\ fs'[r] = fs[r] /\ txbuf'[r] = txbuf[r] /\ rxbuf'[r] = rxbuf[r]
  /\ wr'[r] = wr[r] /\ out'[r] = out[r]

\* a step in which s moves and sends at most what it may send
StepOf(s, r) ==
  /\ plan' = plan /\ Tables' /\ Alone(r)
  /\ Moves(fs[s], wr[s], Len(out[s]), fs'[s], txbuf'[s], wr'[s], rxbuf'[s],
           Len(out'[s]), Isn[s], Isn[r], wr[r], fs[r].txfin, Next0(r))
  /\ wr'[s] <= plan.total[s] /\ OutOK(out'[s])
  /\ net'[s] \subseteq net[s]
  /\ \A p \in net'[r] :
       \/ p \in net[r]
       \/ /\ Sends(p, Isn[s], wr'[s], fs'[s].txfin)
          /\ Acks(p, Isn[r], NextOf(fs'[s], Len(out'[s])))

\* a step of one end keeps the invariant of both
LEMMA StepOK ==
  ASSUME StreamsFit, IInv, NEW s \in Side, StepOf(s, Peer(s))
  PROVE  IInv'
<1>1. PICK r \in Side : /\ r = Peer(s) /\ r # s /\ Peer(r) = s
                        /\ \A x \in Side : x = s \/ x = r
  BY Zenon, PeerIs
<1>2. /\ plan \in Plans /\ EndOK(s, r) /\ EndOK(r, s)
  BY Zenon, <1>1 DEF IInv
<1>3. /\ plan' = plan /\ Tables' /\ Alone(r)
      /\ Moves(fs[s], wr[s], Len(out[s]), fs'[s], txbuf'[s], wr'[s], rxbuf'[s],
               Len(out'[s]), Isn[s], Isn[r], wr[r], fs[r].txfin, Next0(r))
      /\ wr'[s] <= plan.total[s] /\ OutOK(out'[s]) /\ net'[s] \subseteq net[s]
  BY Zenon, <1>1 DEF StepOf
<1>4. /\ TxSide(fs'[s], txbuf'[s], Isn[s], wr'[s])
      /\ RxSide(fs'[s], rxbuf'[s], Isn[r], Len(out'[s]), wr[r], fs[r].txfin)
      /\ ~ fs'[s].slowpath /\ fs'[s].bump_seq = 0
      /\ Grows(wr[s], fs[s].txfin, wr'[s], fs'[s].txfin)
      /\ NextOf(fs[s], Len(out[s])) <= NextOf(fs'[s], Len(out'[s]))
      /\ AckedOf(fs'[s], wr'[s]) <= Next0(r)
  BY Zenon, <1>3 DEF Moves
<1>5. /\ TxSide(fs[r], txbuf[r], Isn[r], wr[r])
      /\ RxSide(fs[r], rxbuf[r], Isn[s], Len(out[r]), wr[s], fs[s].txfin)
      /\ ~ fs[r].slowpath /\ fs[r].bump_seq = 0
      /\ Grows(wr[r], fs[r].txfin, wr[r], fs[r].txfin)
      /\ AckedOf(fs[r], wr[r]) <= Next0(s)
      /\ NextOf(fs[r], Len(out[r])) <= NextOf(fs[r], Len(out[r]))
  BY ZenonT(60), <1>2 DEF EndOK, Stands, Moves
<1>6. wr'[s] + 1 + RxLen < SeqMod
  <2>1. plan.total[s] + 1 + RxLen < SeqMod /\ wr'[s] <= plan.total[s]
    BY ZenonT(60), <1>2, <1>3 DEF StreamsFit
  <2>2. wr'[s] \in Nat /\ plan.total[s] \in Nat
    BY Zenon, <1>2, <1>4, StreamAssumption DEF Grows
  <2> QED
    BY SMTT(60), <2>1, <2>2, FlowAssumption, SeqModAssumption
<1>7. RxSide(fs[r], rxbuf[r], Isn[s], Len(out[r]), wr'[s], fs'[s].txfin)
  BY ZenonT(60), <1>4, <1>5, <1>6, RxGrow
<1>8. /\ Next0(s) \in Nat /\ Next0(s)' \in Nat /\ Next0(s) <= Next0(s)'
      /\ AckedOf(fs[r], wr[r]) \in Int
  <2>1. Next0(s) \in Nat
    BY Zenon, <1>2, NextBound DEF EndOK, Stands, Moves, Next0
  <2>2. NextOf(fs'[s], Len(out'[s])) \in Nat
    BY ZenonT(60), <1>4, NextBound
  <2>3. AckedOf(fs[r], wr[r]) \in Int
    <3>1. PICK a, v, u, e \in Nat : TxNums(fs[r], wr[r], a, v, u, e)
      BY Zenon, <1>5, TxRanges
    <3>2. a = AckedOf(fs[r], wr[r])
      BY ZenonT(60), <3>1 DEF TxNums
    <3> QED
      BY SMTT(60), <3>2
  <2> QED
    BY ZenonT(60), <1>4, <2>1, <2>2, <2>3 DEF Next0
<1>9. AckedOf(fs[r], wr[r]) <= Next0(s)'
  <2>1. AckedOf(fs[r], wr[r]) <= Next0(s)
    BY Zenon, <1>5
  <2> QED
    BY <1>8, <2>1
<1>10. Next0(r)' = Next0(r)
  BY Zenon, <1>3 DEF Alone, Next0
<1>11. EndOK(s, r)'
  <2>1. Moves(fs'[s], wr'[s], Len(out'[s]), fs'[s], txbuf'[s], wr'[s], rxbuf'[s],
              Len(out'[s]), Isn[s], Isn[r], wr'[r], fs'[r].txfin, Next0(r)')
    <3>1. wr'[r] = wr[r] /\ fs'[r] = fs[r]
      BY Zenon, <1>3 DEF Alone
    <3>2. /\ wr'[s] \in Nat /\ fs'[s].txfin \in BOOLEAN
      BY ZenonT(60), <1>4 DEF Grows
    <3>3. wr'[s] <= wr'[s] /\ NextOf(fs'[s], Len(out'[s])) <= NextOf(fs'[s], Len(out'[s]))
      BY SMTT(60), <1>8, <3>2 DEF Next0
    <3>4. Grows(wr'[s], fs'[s].txfin, wr'[s], fs'[s].txfin)
      BY Zenon, <3>2, <3>3 DEF Grows
    <3> QED
      BY ZenonT(60), <1>4, <1>10, <3>1, <3>3, <3>4 DEF Moves
  <2>2. ASSUME NEW p \in net'[s] PROVE UnderWay(p, s, r)'
    <3>1. UnderWay(p, s, r)
      BY Zenon, <1>2, <1>3 DEF EndOK
    <3> QED
      BY ZenonT(60), <1>3, <1>10, <3>1 DEF UnderWay, Alone
  <2> QED
    BY Zenon, <1>3, <2>1, <2>2 DEF EndOK, Stands
<1>12. EndOK(r, s)'
  <2>1. Moves(fs'[r], wr'[r], Len(out'[r]), fs'[r], txbuf'[r], wr'[r], rxbuf'[r],
              Len(out'[r]), Isn[r], Isn[s], wr'[s], fs'[s].txfin, Next0(s)')
    BY ZenonT(60), <1>3, <1>5, <1>7, <1>9 DEF Moves, Alone
  <2>2. ASSUME NEW p \in net'[r] PROVE UnderWay(p, r, s)'
    <3>1. CASE p \in net[r]
      <4>1. Sends(p, Isn[s], wr[s], fs[s].txfin) /\ Acks(p, Isn[r], Next0(s))
        BY ZenonT(60), <1>2, <3>1 DEF EndOK, UnderWay
      <4>2. Sends(p, Isn[s], wr'[s], fs'[s].txfin)
        <5>1. Grows(wr[s], fs[s].txfin, wr'[s], fs'[s].txfin)
          BY Zenon, <1>4
        <5>2. Sends(p, Isn[s], wr[s], fs[s].txfin)
          BY Zenon, <4>1
        <5> QED
          BY <5>1, <5>2, SendsGrow
      <4>3. Acks(p, Isn[r], Next0(s)')
        BY Zenon, <1>8, <4>1, AcksGrow
      <4> QED
        BY Zenon, <4>2, <4>3 DEF UnderWay
    <3>2. CASE p \notin net[r]
      BY Zenon, <1>1, <3>2 DEF StepOf, UnderWay, Next0
    <3> QED
      BY ZenonT(60), <3>1, <3>2
  <2>3. wr'[r] <= plan'.total[r] /\ OutOK(out'[r])
    BY Zenon, <1>2, <1>3 DEF EndOK, Alone
  <2> QED
    BY ZenonT(60), <2>1, <2>2, <2>3 DEF EndOK, Stands
<1> QED
  BY ZenonT(60), <1>1, <1>2, <1>3, <1>11, <1>12 DEF IInv
-----------------------------------------------------------------------------
\* a new connection
LEMMA InitStands ==
  ASSUME NEW i \in SeqNum, NEW j \in SeqNum, NEW f, f = nicif_connection_add(i, j),
         NEW tb, tb = [k \in 0 .. TxLen - 1 |-> 0],
         NEW rb, rb = [k \in 0 .. RxLen - 1 |-> 0]
  PROVE  Stands(f, tb, 0, rb, 0, i, j, 0, FALSE, 0) /\ NextOf(f, 0) = 0 /\ f.txfin = FALSE
<1>0. /\ TxLen \in Nat \ {0} /\ RxLen \in Nat \ {0} /\ SeqMod \in Nat
      /\ 1 + RxLen < SeqMod /\ 1 < SeqMod
  BY SMTT(60), FlowAssumption, SeqModAssumption
<1>1. FlowInv(f)
  BY ZenonT(60), AddInv
<1>2. /\ f.tx_avail = 0 /\ f.tx_sent = 0 /\ f.txfin = FALSE /\ f.rxfin = FALSE
      /\ f.tx_next_seq = i /\ f.tx_next_pos = 0 /\ f.rx_avail = RxLen
      /\ f.rx_next_seq = j /\ f.rx_next_pos = 0 /\ f.rx_ooo_len = 0
      /\ f.slowpath = FALSE /\ f.bump_seq = 0
  BY SMTT(60) DEF nicif_connection_add
<1>3. tb \in [0 .. TxLen - 1 -> Nat] /\ rb \in [0 .. RxLen - 1 -> Nat]
  BY SMTT(60)
<1>4. 0 % TxLen = 0 /\ 0 % RxLen = 0
  <2>1. 0 \in 0 .. TxLen - 1 /\ 0 \in 0 .. RxLen - 1
    BY SMTT(60), <1>0
  <2> QED
    BY ZenonT(60), <1>0, <2>1, ModSmall
<1>5. SeqAdd(i, 0) = i /\ SeqAdd(j, 0) = j
  BY SMTT(60), SeqModAssumption DEF SeqNum, SeqAdd
<1>6. AckedOf(f, 0) = 0 /\ GotOf(f, 0) = 0 /\ NextOf(f, 0) = 0
  <2>1. AckedOf(f, 0) = (0 + 0) - (0 + 0)
    BY Zenon, <1>2 DEF AckedOf, One
  <2>2. GotOf(f, 0) = 0 + (RxLen - RxLen)
    BY ZenonT(60), <1>2 DEF GotOf
  <2>3. GotOf(f, 0) = 0
    BY SMTT(60), <1>0, <2>2
  <2>4. NextOf(f, 0) = 0 + 0
    BY Zenon, <1>2, <2>3 DEF NextOf, One
  <2> QED
    BY SMTT(60), <2>1, <2>3, <2>4
<1>7. TxSide(f, tb, i, 0)
  <2>1. 0 >= 0 /\ 0 + 0 = 0 /\ 0 \in Nat /\ 0 + 1 < SeqMod
    BY SMTT(60), <1>0
  <2>2. \A k \in 0 .. 0 - 1 : tb[k % TxLen] = k
    BY SMTT(60)
  <2>3. TxStream(f, tb, i, 0)
    BY ZenonT(60), <1>2, <1>4, <1>5, <1>6, <2>1, <2>2 DEF TxStream
  <2> QED
    BY ZenonT(60), <1>1, <1>3, <2>1, <2>3 DEF TxSide
<1>8. RxSide(f, rb, j, 0, 0, FALSE)
  <2>1. 0 <= 0 /\ ~ (0 > 0) /\ 0 \in Nat /\ 0 + 1 + RxLen < SeqMod
    BY SMTT(60), <1>0
  <2>2. Holds(rb, 0, 0)
    BY SMTT(60) DEF Holds
  <2>3. RxBytes(f, rb, j, 0, 0, FALSE)
    BY ZenonT(60), <1>2, <1>4, <1>5, <1>6, <2>1, <2>2 DEF RxBytes
  <2>4. RxStream(f, rb, j, 0, 0, FALSE)
    BY ZenonT(60), <1>2, <2>1, <2>3 DEF RxStream
  <2>5. Ctx(j, 0, 0, FALSE)
    BY Zenon, <2>1 DEF Ctx
  <2> QED
    BY ZenonT(60), <1>1, <1>3, <2>4, <2>5 DEF RxSide
<1>9. Grows(0, FALSE, 0, FALSE) /\ 0 <= 0
  BY SMTT(60) DEF Grows
<1> QED
  BY Zenon, <1>2, <1>6, <1>7, <1>8, <1>9 DEF Stands, Moves

\* and it satisfies the invariant
LEMMA InitOK == Init => IInv
<1> SUFFICES ASSUME Init PROVE IInv
  BY SMTT(60)
<1>1. Tables /\ plan \in Plans
  BY DEF Init, Tables, Table
<1>2. ASSUME NEW s \in Side PROVE EndOK(s, Peer(s))
  <2>1. PICK r \in Side : r = Peer(s) /\ Peer(r) = s
    BY Zenon, PeerIs
  <2>2. PICK i \in SeqNum : i = Isn[s]
    BY SMTT(60), StreamAssumption
  <2>3. PICK j \in SeqNum : j = Isn[r]
    BY SMTT(60), StreamAssumption
  <2>4. /\ fs[s] = nicif_connection_add(i, j) /\ fs[r] = nicif_connection_add(j, i)
        /\ wr[s] = 0 /\ wr[r] = 0 /\ out[s] = <<>> /\ out[r] = <<>> /\ net[s] = {}
        /\ txbuf[s] = [k \in 0 .. TxLen - 1 |-> 0] /\ rxbuf[s] = [k \in 0 .. RxLen - 1 |-> 0]
    BY SMTT(60), <2>1, <2>2, <2>3 DEF Init
  <2>5. Len(out[s]) = 0 /\ Len(out[r]) = 0
    BY SMTT(60), <2>4
  <2>6. Stands(fs[s], txbuf[s], 0, rxbuf[s], 0, i, j, 0, FALSE, 0)
    BY Zenon, <2>4, InitStands
  <2>7. NextOf(fs[r], 0) = 0 /\ fs[r].txfin = FALSE
    <3>1. PICK tb : tb = [k \in 0 .. TxLen - 1 |-> 0]
      BY Zenon
    <3>2. PICK rb : rb = [k \in 0 .. RxLen - 1 |-> 0]
      BY Zenon
    <3> QED
      BY ZenonT(60), <2>4, <3>1, <3>2, InitStands
  <2>8. Stands(fs[s], txbuf[s], wr[s], rxbuf[s], Len(out[s]), Isn[s], Isn[r],
               wr[r], fs[r].txfin, Next0(r))
    BY Zenon, <2>2, <2>3, <2>4, <2>5, <2>6, <2>7 DEF Next0
  <2>9. wr[s] <= plan.total[s]
    <3>1. plan.total[s] \in Nat
      BY SMTT(60), <1>1, StreamAssumption
    <3> QED
      BY SMTT(60), <2>4, <3>1
  <2>10. OutOK(out[s])
    BY SMTT(60), <2>4 DEF OutOK
  <2>11. \A p \in net[s] : UnderWay(p, s, r)
    BY Zenon, <2>4
  <2> QED
    BY ZenonT(60), <2>1, <2>8, <2>9, <2>10, <2>11 DEF EndOK
<1> QED
  BY Zenon, <1>1, <1>2 DEF IInv
-----------------------------------------------------------------------------
\* every action is a step of one end
LEMMA WriteStep ==
  ASSUME StreamsFit, IInv, NEW s \in Side, NEW n \in 1 .. TxLen, Write(s, n)
  PROVE  StepOf(s, Peer(s)) /\ RxAll(fs'[s], fs[s]) /\ SameFin(fs'[s], fs[s])
<1>1. PICK r \in Side : r = Peer(s) /\ r # s
  BY Zenon, PeerIs
<1>2. EndOK(s, r) /\ plan \in Plans /\ Tables
  BY Zenon, <1>1 DEF IInv
<1>3. /\ Stands(fs[s], txbuf[s], wr[s], rxbuf[s], Len(out[s]), Isn[s], Isn[r],
                wr[r], fs[r].txfin, Next0(r))
      /\ OutOK(out[s]) /\ \A p \in net[s] : UnderWay(p, s, r)
  BY Zenon, <1>2 DEF EndOK
<1>4. /\ n <= Room(s) /\ wr[s] + n <= plan.total[s] /\ ~ fs[s].txfin
      /\ txbuf' = [txbuf EXCEPT ![s] = Filled(txbuf[s], wr[s], n)]
      /\ wr' = [wr EXCEPT ![s] = wr[s] + n]
      /\ fs' = [fs EXCEPT ![s] = fast_flows_bump(fs[s], Update(0, n, FALSE))]
      /\ plan' = plan /\ rxbuf' = rxbuf /\ out' = out /\ net' = net
  BY Zenon DEF Write, Filled
<1>5. /\ Table(fs') /\ fs'[s] = fast_flows_bump(fs[s], Update(0, n, FALSE))
      /\ fs'[r] = fs[r]
  <2>1. IsSet(fs', fs, s, fast_flows_bump(fs[s], Update(0, n, FALSE)))
    BY Zenon, <1>1, <1>4 DEF IsSet
  <2>2. Turned(fs', fs, s, r, fast_flows_bump(fs[s], Update(0, n, FALSE)))
    BY ZenonT(60), <1>1, <1>2, <2>1, TableSet DEF Tables
  <2> QED
    BY Zenon, <2>2 DEF Turned
<1>6. Table(txbuf') /\ txbuf'[s] = Filled(txbuf[s], wr[s], n) /\ txbuf'[r] = txbuf[r]
  <2>1. IsSet(txbuf', txbuf, s, Filled(txbuf[s], wr[s], n))
    BY Zenon, <1>1, <1>4 DEF IsSet
  <2>2. Turned(txbuf', txbuf, s, r, Filled(txbuf[s], wr[s], n))
    BY ZenonT(60), <1>1, <1>2, <2>1, TableSet DEF Tables
  <2> QED
    BY Zenon, <2>2 DEF Turned
<1>7. Table(wr') /\ wr'[s] = wr[s] + n /\ wr'[r] = wr[r]
  <2>1. IsSet(wr', wr, s, wr[s] + n)
    BY Zenon, <1>1, <1>4 DEF IsSet
  <2>2. Turned(wr', wr, s, r, wr[s] + n)
    BY ZenonT(60), <1>1, <1>2, <2>1, TableSet DEF Tables
  <2> QED
    BY Zenon, <2>2 DEF Turned
<1>8. n \in Nat /\ n <= TxLen - (fs[s].tx_avail + fs[s].tx_sent)
  BY SMTT(60), <1>4 DEF Room
<1>9. (wr[s] + n) + 1 < SeqMod
  <2>1. plan.total[s] + 1 + RxLen < SeqMod /\ plan.total[s] \in Nat
    BY SMTT(60), <1>2, StreamAssumption DEF StreamsFit
  <2>2. wr[s] \in Nat
    BY Zenon, <1>3 DEF Stands, Moves, Grows
  <2> QED
    BY SMTT(60), <1>4, <1>8, <2>1, <2>2, FlowAssumption, SeqModAssumption
<1>10. /\ Moves(fs[s], wr[s], Len(out[s]), fs'[s], txbuf'[s], wr'[s], rxbuf[s],
                Len(out[s]), Isn[s], Isn[r], wr[r], fs[r].txfin, Next0(r))
       /\ RxAll(fs'[s], fs[s]) /\ SameFin(fs'[s], fs[s])
  <2>1. /\ Moves(fs[s], wr[s], Len(out[s]), fast_flows_bump(fs[s], Update(0, n, FALSE)),
                 Filled(txbuf[s], wr[s], n), wr[s] + n, rxbuf[s],
                 Len(out[s]), Isn[s], Isn[r], wr[r], fs[r].txfin, Next0(r))
        /\ RxAll(fast_flows_bump(fs[s], Update(0, n, FALSE)), fs[s])
        /\ SameFin(fast_flows_bump(fs[s], Update(0, n, FALSE)), fs[s])
    BY ZenonT(60), <1>3, <1>4, <1>8, <1>9, WriteMoves DEF StreamsFit
  <2> QED
    BY ZenonT(60), <1>5, <1>6, <1>7, <2>1
<1>11. Tables' /\ Alone(r)
  BY ZenonT(60), <1>2, <1>4, <1>5, <1>6, <1>7 DEF Tables, Alone
<1>12. net'[s] \subseteq net[s] /\ \A p \in net'[r] : p \in net[r]
  BY Zenon, <1>4
<1>13. StepOf(s, r)
  BY ZenonT(60), <1>3, <1>4, <1>7, <1>10, <1>11, <1>12 DEF StepOf
<1> QED
  BY Zenon, <1>1, <1>10, <1>13

\* Close is such a step
LEMMA CloseStep ==
  ASSUME StreamsFit, IInv, NEW s \in Side, Close(s)
  PROVE  StepOf(s, Peer(s)) /\ RxAll(fs'[s], fs[s]) /\ fs'[s].txfin
<1>1. PICK r \in Side : r = Peer(s) /\ r # s
  BY Zenon, PeerIs
<1>2. EndOK(s, r) /\ plan \in Plans /\ Tables
  BY Zenon, <1>1 DEF IInv
<1>3. /\ Stands(fs[s], txbuf[s], wr[s], rxbuf[s], Len(out[s]), Isn[s], Isn[r],
                wr[r], fs[r].txfin, Next0(r))
      /\ wr[s] <= plan.total[s] /\ OutOK(out[s])
  BY Zenon, <1>2 DEF EndOK
<1>4. /\ ~ fs[s].txfin /\ Room(s) > 0
      /\ fs' = [fs EXCEPT ![s] = fast_flows_bump(fs[s], Update(0, 1, TRUE))]
      /\ txbuf' = txbuf /\ wr' = wr
      /\ plan' = plan /\ rxbuf' = rxbuf /\ out' = out /\ net' = net
  BY Zenon DEF Close
<1>5. /\ Table(fs') /\ fs'[s] = fast_flows_bump(fs[s], Update(0, 1, TRUE))
      /\ fs'[r] = fs[r]
  <2>1. IsSet(fs', fs, s, fast_flows_bump(fs[s], Update(0, 1, TRUE)))
    BY Zenon, <1>1, <1>4 DEF IsSet
  <2>2. Turned(fs', fs, s, r, fast_flows_bump(fs[s], Update(0, 1, TRUE)))
    BY ZenonT(60), <1>1, <1>2, <2>1, TableSet DEF Tables
  <2> QED
    BY Zenon, <2>2 DEF Turned
<1>8. TxLen - (fs[s].tx_avail + fs[s].tx_sent) > 0
  BY SMTT(60), <1>4 DEF Room
<1>10. /\ Moves(fs[s], wr[s], Len(out[s]), fs'[s], txbuf[s], wr[s], rxbuf[s],
                Len(out[s]), Isn[s], Isn[r], wr[r], fs[r].txfin, Next0(r))
       /\ RxAll(fs'[s], fs[s]) /\ fs'[s].txfin
  BY Zenon, <1>3, <1>4, <1>5, <1>8, CloseMoves DEF StreamsFit
<1>11. Tables' /\ Alone(r)
  BY Zenon, <1>2, <1>4, <1>5 DEF Tables, Alone
<1>12. net'[s] \subseteq net[s] /\ \A p \in net'[r] : p \in net[r]
  BY Zenon, <1>4
<1>13. StepOf(s, r)
  BY ZenonT(60), <1>3, <1>4, <1>10, <1>11, <1>12 DEF StepOf
<1> QED
  BY Zenon, <1>1, <1>10, <1>13

\* Retransmit is such a step
LEMMA RetransmitStep ==
  ASSUME IInv, NEW s \in Side, Retransmit(s)
  PROVE  StepOf(s, Peer(s)) /\ RxAll(fs'[s], fs[s]) /\ SameFin(fs'[s], fs[s])
<1>1. PICK r \in Side : r = Peer(s) /\ r # s
  BY Zenon, PeerIs
<1>2. EndOK(s, r) /\ plan \in Plans /\ Tables
  BY Zenon, <1>1 DEF IInv
<1>3. /\ Stands(fs[s], txbuf[s], wr[s], rxbuf[s], Len(out[s]), Isn[s], Isn[r],
                wr[r], fs[r].txfin, Next0(r))
      /\ wr[s] <= plan.total[s] /\ OutOK(out[s])
  BY Zenon, <1>2 DEF EndOK
<1>4. /\ fs' = [fs EXCEPT ![s] = fast_flows_retransmit(fs[s])]
      /\ txbuf' = txbuf /\ wr' = wr
      /\ plan' = plan /\ rxbuf' = rxbuf /\ out' = out /\ net' = net
  BY Zenon DEF Retransmit
<1>5. Table(fs') /\ fs'[s] = fast_flows_retransmit(fs[s]) /\ fs'[r] = fs[r]
  <2>1. IsSet(fs', fs, s, fast_flows_retransmit(fs[s]))
    BY Zenon, <1>1, <1>4 DEF IsSet
  <2>2. Turned(fs', fs, s, r, fast_flows_retransmit(fs[s]))
    BY ZenonT(60), <1>1, <1>2, <2>1, TableSet DEF Tables
  <2> QED
    BY Zenon, <2>2 DEF Turned
<1>10. /\ Moves(fs[s], wr[s], Len(out[s]), fs'[s], txbuf[s], wr[s], rxbuf[s],
                Len(out[s]), Isn[s], Isn[r], wr[r], fs[r].txfin, Next0(r))
       /\ RxAll(fs'[s], fs[s]) /\ SameFin(fs'[s], fs[s])
  BY Zenon, <1>3, <1>5, RetransmitMoves
<1>11. Tables' /\ Alone(r)
  BY Zenon, <1>2, <1>4, <1>5 DEF Tables, Alone
<1>12. net'[s] \subseteq net[s] /\ \A p \in net'[r] : p \in net[r]
  BY Zenon, <1>4
<1>13. StepOf(s, r)
  BY ZenonT(60), <1>3, <1>4, <1>10, <1>11, <1>12 DEF StepOf
<1> QED
  BY Zenon, <1>1, <1>10, <1>13

\* the segments under way to the peer after s sends m, or m is lost
LEMMA SentIn ==
  ASSUME NEW s, NEW m, NEW lost, NEW p \in Sent(s, m, lost)
  PROVE  p \in net[Peer(s)] \/ p = m
  BY SMTT(60) DEF Sent

\* Transmit is such a step
LEMMA TransmitStep ==
  ASSUME IInv, NEW s \in Side, NEW lost, Transmit(s, lost)
  PROVE  StepOf(s, Peer(s)) /\ RxAll(fs'[s], fs[s]) /\ SameFin(fs'[s], fs[s])
<1>1. PICK r \in Side : r = Peer(s) /\ r # s
  BY Zenon, PeerIs
<1>2. EndOK(s, r) /\ plan \in Plans /\ Tables
  BY Zenon, <1>1 DEF IInv
<1>3. /\ Stands(fs[s], txbuf[s], wr[s], rxbuf[s], Len(out[s]), Isn[s], Isn[r],
                wr[r], fs[r].txfin, Next0(r))
      /\ wr[s] <= plan.total[s] /\ OutOK(out[s])
  BY Zenon, <1>2 DEF EndOK
<1>4. /\ fs' = [fs EXCEPT ![s] = fast_flows_qman(fs[s])]
      /\ net' = [net EXCEPT ![Peer(s)] = Sent(s, DataSeg(fs[s], txbuf[s]), lost)]
      /\ txbuf' = txbuf /\ wr' = wr /\ Avail(fs[s]) > 0
      /\ plan' = plan /\ rxbuf' = rxbuf /\ out' = out
  BY Zenon DEF Transmit, DataSeg
<1>5. Table(fs') /\ fs'[s] = fast_flows_qman(fs[s]) /\ fs'[r] = fs[r]
  <2>1. IsSet(fs', fs, s, fast_flows_qman(fs[s]))
    BY Zenon, <1>1, <1>4 DEF IsSet
  <2>2. Turned(fs', fs, s, r, fast_flows_qman(fs[s]))
    BY ZenonT(60), <1>1, <1>2, <2>1, TableSet DEF Tables
  <2> QED
    BY Zenon, <2>2 DEF Turned
<1>6. /\ Table(net') /\ net'[r] = Sent(s, DataSeg(fs[s], txbuf[s]), lost)
      /\ net'[s] = net[s]
  <2>1. IsSet(net', net, r, Sent(s, DataSeg(fs[s], txbuf[s]), lost))
    BY Zenon, <1>1, <1>4 DEF IsSet
  <2>2. Turned(net', net, r, s, Sent(s, DataSeg(fs[s], txbuf[s]), lost))
    BY ZenonT(60), <1>1, <1>2, <2>1, TableSet DEF Tables
  <2> QED
    BY Zenon, <2>2 DEF Turned
<1>10. /\ Moves(fs[s], wr[s], Len(out[s]), fs'[s], txbuf[s], wr[s], rxbuf[s],
                Len(out[s]), Isn[s], Isn[r], wr[r], fs[r].txfin, Next0(r))
       /\ RxAll(fs'[s], fs[s]) /\ SameFin(fs'[s], fs[s])
  BY Zenon, <1>3, <1>5, QmanMoves
<1>11. Tables' /\ Alone(r)
  BY ZenonT(60), <1>2, <1>4, <1>5, <1>6 DEF Tables, Alone
<1>12. ASSUME NEW p \in net'[r], p \notin net[r]
       PROVE  /\ Sends(p, Isn[s], wr[s], fs'[s].txfin)
              /\ Acks(p, Isn[r], NextOf(fs'[s], Len(out[s])))
  <2>1. p = DataSeg(fs[s], txbuf[s])
    BY ZenonT(60), <1>1, <1>6, <1>12, SentIn
  <2>2. /\ TxSide(fs[s], txbuf[s], Isn[s], wr[s])
        /\ RxSide(fs[s], rxbuf[s], Isn[r], Len(out[s]), wr[r], fs[r].txfin)
    BY ZenonT(60), <1>3 DEF Stands, Moves
  <2>3. Sends(p, Isn[s], wr[s], fs[s].txfin)
    BY ZenonT(60), <1>4, <2>1, <2>2, SegSends
  <2>4. p.seg.ack = fs[s].rx_next_seq
    BY Zenon, <2>1 DEF DataSeg, flow_tx_segment
  <2>5. Acks(p, Isn[r], NextOf(fs[s], Len(out[s])))
    BY Zenon, <2>2, <2>4, AcksNext
  <2>6. NextOf(fs'[s], Len(out[s])) = NextOf(fs[s], Len(out[s]))
    BY Zenon, <1>10, NextFrame
  <2> QED
    BY ZenonT(60), <1>10, <2>3, <2>5, <2>6 DEF SameFin
<1>13. StepOf(s, r)
  BY ZenonT(60), <1>3, <1>4, <1>6, <1>10, <1>11, <1>12 DEF StepOf
<1> QED
  BY ZenonT(60), <1>1, <1>10, <1>13

-----------------------------------------------------------------------------
\* the segment with which end s acknowledges in state f
AckSeg(f) == [seg |-> flow_tx_ack(f), data |-> <<>>]

\* an acknowledgement may be under way
LEMMA AckSegOK ==
  ASSUME NEW f, NEW tb, NEW i, NEW w, NEW rb, NEW j, NEW o, NEW wp, NEW cp,
         TxSide(f, tb, i, w), RxSide(f, rb, j, o, wp, cp)
  PROVE  Sends(AckSeg(f), i, w, f.txfin) /\ Acks(AckSeg(f), j, NextOf(f, o))
<1>1. Sends(AckSeg(f), i, w, f.txfin)
  BY ZenonT(60), AckSends DEF AckSeg
<1>2. AckSeg(f).seg.ack = f.rx_next_seq
  BY SMTT(60) DEF AckSeg, flow_tx_ack
<1>3. Acks(AckSeg(f), j, NextOf(f, o))
  BY Zenon, <1>2, AcksNext
<1> QED
  BY Zenon, <1>1, <1>3

\* Read is such a step
LEMMA ReadStep ==
  ASSUME StreamsFit, IInv, NEW s \in Side, NEW n \in 1 .. RxLen, NEW lost, Read(s, n, lost)
  PROVE  StepOf(s, Peer(s)) /\ SameFin(fs'[s], fs[s])
<1>1. PICK r \in Side : r = Peer(s) /\ r # s
  BY Zenon, PeerIs
<1>2. EndOK(s, r) /\ plan \in Plans /\ Tables
  BY Zenon, <1>1 DEF IInv
<1>3. /\ Stands(fs[s], txbuf[s], wr[s], rxbuf[s], Len(out[s]), Isn[s], Isn[r],
                wr[r], fs[r].txfin, Next0(r))
      /\ wr[s] <= plan.total[s] /\ OutOK(out[s])
  BY Zenon, <1>2 DEF EndOK
<1>4. PICK g : g = fast_flows_bump(fs[s], Update(n, 0, FALSE))
  BY Zenon
<1>5. PICK h : h = Taken(rxbuf[s], Len(out[s]), n)
  OBVIOUS
<1>6. /\ n <= Unread(s) /\ fs' = [fs EXCEPT ![s] = g]
      /\ \/ net' = [net EXCEPT ![Peer(s)] = Sent(s, AckSeg(g), lost)]
         \/ net' = net
      /\ out' = [out EXCEPT ![s] = out[s] \o h]
      /\ txbuf' = txbuf /\ wr' = wr /\ plan' = plan /\ rxbuf' = rxbuf
  BY Zenon, <1>4, <1>5 DEF Read, AckSeg, Taken
<1>7. Table(fs') /\ fs'[s] = g /\ fs'[r] = fs[r]
  <2>1. IsSet(fs', fs, s, g)
    BY Zenon, <1>6 DEF IsSet
  <2>2. Turned(fs', fs, s, r, g)
    BY ZenonT(60), <1>1, <1>2, <2>1, TableSet DEF Tables
  <2> QED
    BY Zenon, <2>2 DEF Turned
<1>8. Table(out') /\ out'[s] = out[s] \o h /\ out'[r] = out[r]
  <2>1. IsSet(out', out, s, out[s] \o h)
    BY Zenon, <1>6 DEF IsSet
  <2>2. Turned(out', out, s, r, out[s] \o h)
    BY ZenonT(60), <1>1, <1>2, <2>1, TableSet DEF Tables
  <2> QED
    BY Zenon, <2>2 DEF Turned
<1>9. Table(net') /\ net'[s] = net[s] /\ \A p \in net'[r] : p \in net[r] \/ p = AckSeg(g)
  <2>1. CASE net' = net
    BY Zenon, <1>2, <2>1 DEF Tables
  <2>2. CASE net' = [net EXCEPT ![Peer(s)] = Sent(s, AckSeg(g), lost)]
    <3>1. IsSet(net', net, r, Sent(s, AckSeg(g), lost))
      BY Zenon, <1>1, <2>2 DEF IsSet
    <3>2. Turned(net', net, r, s, Sent(s, AckSeg(g), lost))
      BY ZenonT(60), <1>1, <1>2, <3>1, TableSet DEF Tables
    <3> QED
      BY ZenonT(60), <1>1, <3>2, SentIn DEF Turned
  <2> QED
    BY Zenon, <1>6, <2>1, <2>2
<1>10. n \in Nat /\ n <= RxLen - fs[s].rx_avail
  BY SMTT(60), <1>6 DEF Unread
<1>11. PICK o \in Nat : o = Len(out[s])
  BY SMTT(60), <1>3 DEF OutOK
<1>12. Moves(fs[s], wr[s], o, g, txbuf[s], wr[s], rxbuf[s], o + n,
             Isn[s], Isn[r], wr[r], fs[r].txfin, Next0(r)) /\ SameFin(g, fs[s])
  BY ZenonT(60), <1>3, <1>4, <1>10, <1>11, ReadMoves DEF StreamsFit
<1>13. OutOK(out[s] \o h) /\ Len(out[s] \o h) = o + n
  <2>1. RxSide(fs[s], rxbuf[s], Isn[r], Len(out[s]), wr[r], fs[r].txfin)
    BY Zenon, <1>3 DEF Stands, Moves
  <2>2. Continues(out[s], h, n, wr[r])
    BY ZenonT(60), <1>3, <1>5, <1>10, <2>1, ReadOut
  <2> QED
    BY Zenon, <1>11, <2>2 DEF Continues
<1>14. Sends(AckSeg(g), Isn[s], wr[s], g.txfin) /\ Acks(AckSeg(g), Isn[r], NextOf(g, o + n))
  <2>1. /\ TxSide(g, txbuf[s], Isn[s], wr[s])
        /\ RxSide(g, rxbuf[s], Isn[r], o + n, wr[r], fs[r].txfin)
    BY Zenon, <1>12 DEF Moves
  <2> QED
    BY Zenon, <2>1, AckSegOK
<1>15. Tables' /\ Alone(r)
  BY ZenonT(60), <1>2, <1>6, <1>7, <1>8, <1>9 DEF Tables, Alone
<1>16. Moves(fs[s], wr[s], Len(out[s]), fs'[s], txbuf'[s], wr'[s], rxbuf'[s],
             Len(out'[s]), Isn[s], Isn[r], wr[r], fs[r].txfin, Next0(r))
  BY ZenonT(60), <1>6, <1>7, <1>8, <1>11, <1>12, <1>13
<1>17. \A p \in net'[r] :
         \/ p \in net[r]
         \/ /\ Sends(p, Isn[s], wr'[s], fs'[s].txfin)
            /\ Acks(p, Isn[r], NextOf(fs'[s], Len(out'[s])))
  BY ZenonT(60), <1>6, <1>7, <1>8, <1>9, <1>13, <1>14
<1>18. /\ wr'[s] <= plan.total[s] /\ OutOK(out'[s]) /\ net'[s] \subseteq net[s]
       /\ plan' = plan
  BY ZenonT(60), <1>3, <1>6, <1>8, <1>9, <1>13
<1>19. StepOf(s, r)
  BY ZenonT(60), <1>15, <1>16, <1>17, <1>18 DEF StepOf
<1> QED
  BY ZenonT(60), <1>1, <1>7, <1>12, <1>19

(***************************************************************************)
(* No segment under way reaches past the end of the sequence space while   *)
(* the receive window of its flow ends before it: the one case in which    *)
(* tcp_trim_rxbuf does not trim a segment exactly (TrimExact).             *)
(***************************************************************************)
NoOverrun == \A s \in Side : \A p \in net[s] : ~ Overrun(fs[s], p.seg.seq, p.seg.len)

\* Receive is such a step
LEMMA ReceiveStep ==
  ASSUME StreamsFit, IInv, NoOverrun, NEW s \in Side, NEW dup, NEW lost,
         Receive(s, dup, lost)
  PROVE  StepOf(s, Peer(s)) /\ SameFin(fs'[s], fs[s]) /\ out' = out /\ wr' = wr
<1>1. PICK r \in Side : r = Peer(s) /\ r # s /\ Peer(r) = s
  BY Zenon, PeerIs
<1>2. EndOK(s, r) /\ EndOK(r, s) /\ plan \in Plans /\ Tables
  BY Zenon, <1>1 DEF IInv
<1>3. /\ Stands(fs[s], txbuf[s], wr[s], rxbuf[s], Len(out[s]), Isn[s], Isn[r],
                wr[r], fs[r].txfin, Next0(r))
      /\ wr[s] <= plan.total[s] /\ OutOK(out[s])
      /\ \A p \in net[s] : UnderWay(p, s, r)
  BY Zenon, <1>2 DEF EndOK
<1>40. PICK p \in net[s], rest \in SUBSET net[s] :
        /\ fs' = [fs EXCEPT ![s] = fast_flows_packet(fs[s], p.seg)]
        /\ rxbuf' = [rxbuf EXCEPT ![s] = RxStore(rxbuf[s], fs[s], p)]
        /\ \/ net' = [net EXCEPT ![s] = rest,
                                 ![Peer(s)] = Sent(s, AckSeg(fast_flows_packet(fs[s], p.seg)), lost)]
           \/ net' = [net EXCEPT ![s] = rest]
  <2>1. PICK p \in net[s] :
        /\ fs' = [fs EXCEPT ![s] = fast_flows_packet(fs[s], p.seg)]
        /\ rxbuf' = [rxbuf EXCEPT ![s] = RxStore(rxbuf[s], fs[s], p)]
        /\ \/ net' = [net EXCEPT ![s] = IF dup THEN net[s] ELSE net[s] \ {p},
                                 ![Peer(s)] = Sent(s, AckSeg(fast_flows_packet(fs[s], p.seg)), lost)]
           \/ net' = [net EXCEPT ![s] = IF dup THEN net[s] ELSE net[s] \ {p}]
    BY Zenon DEF Receive, AckSeg
  <2>2. (IF dup THEN net[s] ELSE net[s] \ {p}) \in SUBSET net[s]
    BY ZenonT(60)
  <2> QED
    BY Zenon, <2>1, <2>2
<1>41. PICK g : g = fast_flows_packet(fs[s], p.seg)
  BY SMTT(60)
<1>4. /\ g = fast_flows_packet(fs[s], p.seg)
      /\ fs' = [fs EXCEPT ![s] = g]
      /\ rxbuf' = [rxbuf EXCEPT ![s] = RxStore(rxbuf[s], fs[s], p)]
      /\ \/ net' = [net EXCEPT ![s] = rest, ![Peer(s)] = Sent(s, AckSeg(g), lost)]
         \/ net' = [net EXCEPT ![s] = rest]
  BY ZenonT(60), <1>40, <1>41
<1>5. txbuf' = txbuf /\ wr' = wr /\ plan' = plan /\ out' = out
  BY Zenon DEF Receive
<1>6. Table(fs') /\ fs'[s] = g /\ fs'[r] = fs[r]
  <2>1. IsSet(fs', fs, s, g)
    BY Zenon, <1>4 DEF IsSet
  <2>2. Turned(fs', fs, s, r, g)
    BY ZenonT(60), <1>1, <1>2, <2>1, TableSet DEF Tables
  <2> QED
    BY Zenon, <2>2 DEF Turned
<1>7. /\ Table(rxbuf') /\ rxbuf'[s] = RxStore(rxbuf[s], fs[s], p)
      /\ rxbuf'[r] = rxbuf[r]
  <2>1. IsSet(rxbuf', rxbuf, s, RxStore(rxbuf[s], fs[s], p))
    BY Zenon, <1>4 DEF IsSet
  <2>2. Turned(rxbuf', rxbuf, s, r, RxStore(rxbuf[s], fs[s], p))
    BY ZenonT(60), <1>1, <1>2, <2>1, TableSet DEF Tables
  <2> QED
    BY Zenon, <2>2 DEF Turned
<1>8. /\ Table(net') /\ net'[s] \subseteq net[s]
      /\ \A q \in net'[r] : q \in net[r] \/ q = AckSeg(g)
  <2>1. CASE net' = [net EXCEPT ![s] = rest]
    <3>1. IsSet(net', net, s, rest)
      BY Zenon, <2>1 DEF IsSet
    <3>2. Turned(net', net, s, r, rest)
      BY ZenonT(60), <1>1, <1>2, <3>1, TableSet DEF Tables
    <3> QED
      BY Zenon, <3>2 DEF Turned
  <2>2. CASE net' = [net EXCEPT ![s] = rest, ![Peer(s)] = Sent(s, AckSeg(g), lost)]
    <3>1. PICK m : m = [net EXCEPT ![s] = rest]
      BY Zenon
    <3>2. IsSet(m, net, s, rest) /\ IsSet(net', m, r, Sent(s, AckSeg(g), lost))
      BY Zenon, <1>1, <2>2, <3>1 DEF IsSet
    <3>3. Turned(m, net, s, r, rest)
      BY Zenon, <1>1, <1>2, <3>2, TableSet DEF Tables
    <3>4. Table(m)
      BY Zenon, <3>3 DEF Turned
    <3>5. Turned(net', m, r, s, Sent(s, AckSeg(g), lost))
      BY ZenonT(60), <1>1, <3>2, <3>4, TableSet
    <3> QED
      BY ZenonT(60), <1>1, <3>3, <3>5, SentIn DEF Turned
  <2> QED
    BY ZenonT(60), <1>4, <2>1, <2>2
<1>9. Next0(r) \in Nat /\ Next0(r) <= wr[s] + One(fs[s].txfin)
  BY Zenon, <1>2, NextBound DEF EndOK, Stands, Moves, Next0
<1>10. /\ Sends(p, Isn[r], wr[r], fs[r].txfin) /\ Acks(p, Isn[s], Next0(r))
       /\ ~ Overrun(fs[s], p.seg.seq, p.seg.len)
  BY Zenon, <1>3, <1>4 DEF UnderWay, NoOverrun
<1>11. /\ Moves(fs[s], wr[s], Len(out[s]), g, txbuf[s], wr[s],
                RxStore(rxbuf[s], fs[s], p), Len(out[s]),
                Isn[s], Isn[r], wr[r], fs[r].txfin, Next0(r))
       /\ SameFin(g, fs[s])
  BY ZenonT(60), <1>3, <1>4, <1>9, <1>10, ReceiveMoves
<1>12. Sends(AckSeg(g), Isn[s], wr[s], g.txfin) /\ Acks(AckSeg(g), Isn[r], NextOf(g, Len(out[s])))
  <2>1. /\ TxSide(g, txbuf[s], Isn[s], wr[s])
        /\ RxSide(g, RxStore(rxbuf[s], fs[s], p), Isn[r], Len(out[s]), wr[r], fs[r].txfin)
    BY Zenon, <1>11 DEF Moves
  <2> QED
    BY Zenon, <2>1, AckSegOK
<1>13. Tables' /\ Alone(r)
  BY ZenonT(60), <1>2, <1>5, <1>6, <1>7, <1>8 DEF Tables, Alone
<1>14. Moves(fs[s], wr[s], Len(out[s]), fs'[s], txbuf'[s], wr'[s], rxbuf'[s],
             Len(out'[s]), Isn[s], Isn[r], wr[r], fs[r].txfin, Next0(r))
  BY ZenonT(60), <1>5, <1>6, <1>7, <1>11
<1>15. \A q \in net'[r] :
         \/ q \in net[r]
         \/ /\ Sends(q, Isn[s], wr'[s], fs'[s].txfin)
            /\ Acks(q, Isn[r], NextOf(fs'[s], Len(out'[s])))
  BY ZenonT(60), <1>5, <1>6, <1>8, <1>12
<1>16. StepOf(s, r)
  BY ZenonT(60), <1>3, <1>5, <1>8, <1>13, <1>14, <1>15 DEF StepOf
<1> QED
  BY ZenonT(60), <1>1, <1>5, <1>6, <1>11, <1>16

-----------------------------------------------------------------------------
\* IInv is inductive as long as nothing overruns
LEMMA NextOK == StreamsFit /\ IInv /\ NoOverrun /\ [Next]_vars => IInv'
<1> SUFFICES ASSUME StreamsFit, IInv, NoOverrun, [Next]_vars
             PROVE  IInv'
  BY SMTT(60)
<1>1. CASE Next
  <2>1. PICK s \in Side :
          \/ \E n \in 1 .. TxLen : Write(s, n)
          \/ Close(s)
          \/ Retransmit(s)
          \/ \E lost : \E n \in 1 .. RxLen : Read(s, n, lost)
          \/ \E lost : Transmit(s, lost)
          \/ \E lost : \E dup : Receive(s, dup, lost)
    BY Zenon, <1>1 DEF Next, Step
  <2>2. StepOf(s, Peer(s))
    BY ZenonT(60), <2>1, WriteStep, CloseStep, RetransmitStep, ReadStep, TransmitStep, ReceiveStep
  <2> QED
    BY Zenon, <2>2, StepOK
<1>2. CASE UNCHANGED vars
  BY Zenon, <1>2 DEF vars, IInv, Tables, EndOK, UnderWay, Next0
<1> QED
  BY Zenon, <1>1, <1>2

\* so it always holds
LEMMA Inductive == ASSUME StreamsFit PROVE Spec /\ []NoOverrun => []IInv
<1>1. Init => IInv
  BY SMTT(60), InitOK
<1>2. IInv /\ NoOverrun /\ [Next]_vars => IInv'
  BY Zenon, NextOK
<1> QED
  BY <1>1, <1>2, PTL DEF Spec

\* IInv says more than StreamIntact
LEMMA IntactOK == IInv => StreamIntact
<1> SUFFICES ASSUME IInv, NEW s \in Side
             PROVE  /\ Got(s) <= wr[Peer(s)]
                    /\ \A k \in Len(out[s]) .. Got(s) - 1 : rxbuf[s][k % RxLen] = k
                    /\ fs[s].rxfin => fs[Peer(s)].txfin /\ Got(s) = wr[Peer(s)]
  BY Zenon DEF StreamIntact
<1>1. RxBytes(fs[s], rxbuf[s], Isn[Peer(s)], Len(out[s]), wr[Peer(s)], fs[Peer(s)].txfin)
  BY Zenon DEF IInv, EndOK, Stands, Moves, RxSide, RxStream
<1>2. Got(s) = GotOf(fs[s], Len(out[s]))
  BY Zenon DEF Got, Unread, GotOf
<1> QED
  BY Zenon, <1>1, <1>2 DEF RxBytes, Holds

\* IInv says more than AckedArrived
LEMMA ArrivedOK == IInv => AckedArrived
<1> SUFFICES ASSUME IInv, NEW s \in Side
             PROVE  /\ Acked(s) >= 0
                    /\ Acked(s) <= Got(Peer(s)) + (IF fs[Peer(s)].rxfin THEN 1 ELSE 0)
  BY Zenon DEF AckedArrived
<1>1. /\ AckedOf(fs[s], wr[s]) >= 0
      /\ AckedOf(fs[s], wr[s]) <= NextOf(fs[Peer(s)], Len(out[Peer(s)]))
  BY Zenon DEF IInv, EndOK, Stands, Moves, TxSide, TxStream, Next0
<1>2. Acked(s) = AckedOf(fs[s], wr[s])
  BY Zenon DEF Acked, AckedOf, One
<1>3. Got(Peer(s)) + (IF fs[Peer(s)].rxfin THEN 1 ELSE 0)
        = NextOf(fs[Peer(s)], Len(out[Peer(s)]))
  BY Zenon DEF Got, Unread, GotOf, NextOf, One
<1> QED
  BY Zenon, <1>1, <1>2, <1>3

(***************************************************************************)
(* What the fast path puts in a receive buffer is what the peer's          *)
(* application wrote (StreamIntact): for all buffer and segment sizes, all *)
(* initial sequence numbers, any loss, duplication and reordering of       *)
(* segments, and any timing of fast_flows_packet, fast_flows_qman,         *)
(* fast_flows_retransmit and fast_flows_bump, and a FIN is taken only      *)
(* after the last byte.                                                    *)
(***************************************************************************)
THEOREM StreamDelivered ==
  ASSUME StreamsFit
  PROVE  Spec /\ []NoOverrun => []StreamIntact
<1>1. Spec /\ []NoOverrun => []IInv
  BY SMTT(60), Inductive
<1>2. IInv => StreamIntact
  BY SMTT(60), IntactOK
<1> QED
  BY <1>1, <1>2, PTL

(***************************************************************************)
(* A byte that fast_flows_packet takes from a send buffer, as              *)
(* acknowledged, is in the peer's receive buffer or was read from it       *)
(* (AckedArrived): no retransmission will be needed that can no longer be  *)
(* made.                                                                   *)
(***************************************************************************)
THEOREM AcknowledgedArrived ==
  ASSUME StreamsFit
  PROVE  Spec /\ []NoOverrun => []AckedArrived
<1>1. Spec /\ []NoOverrun => []IInv
  BY Inductive
<1>2. IInv => AckedArrived
  BY SMTT(60), ArrivedOK
<1> QED
  BY <1>1, <1>2, PTL
-----------------------------------------------------------------------------
(***************************************************************************)
(* The sequence numbers of a stream do not wrap after its first byte.      *)
(***************************************************************************)
IsnSafe ==
  \A pl \in Plans : \A s \in Side :
    Isn[s] = SeqMod - 1 \/ Isn[s] + pl.total[s] + 1 < SeqMod

\* the arithmetic: a segment of such a stream does not overrun
LEMMA SafeNumbers ==
  ASSUME NEW i \in SeqNum, NEW w \in Nat, NEW t \in Nat, NEW x \in Nat, NEW n \in Nat,
         NEW c \in 0 .. 1, NEW next \in Nat, NEW av \in Nat, next + av < SeqMod,
         w <= t, t + 1 < SeqMod, i = SeqMod - 1 \/ i + t + 1 < SeqMod,
         x + n <= w + c, NEW s, s.rx_next_seq = SeqAdd(i, next), s.rx_avail = av
  PROVE  ~ Overrun(s, SeqAdd(i, x), n)
<1>1. Overrun(s, SeqAdd(i, x), n) =>
        /\ SeqAdd(i, next) < SeqAdd(i, x) /\ SeqAdd(i, x) <= SeqAdd(i, next) + av
        /\ SeqAdd(i, next) + av < SeqMod /\ SeqAdd(i, x) + n >= SeqMod
  BY Zenon DEF Overrun
<1>2. i \in Nat /\ i < SeqMod /\ SeqMod \in Nat
  BY SMTT(60), SeqModAssumption DEF SeqNum
<1>3. CASE i + t + 1 < SeqMod
  <2>1. SeqAdd(i, x) + n < SeqMod
    BY SMTT(60), <1>2, <1>3 DEF SeqAdd
  <2>2. SeqAdd(i, x) \in Int
    BY SMTT(60), <1>2 DEF SeqAdd
  <2> QED
    BY SMTT(60), <1>1, <1>2, <2>1, <2>2
<1>4. CASE i = SeqMod - 1
  <2>1. CASE x = 0
    <3>1. SeqAdd(i, x) = SeqMod - 1 /\ (next > 0 => SeqAdd(i, next) = next - 1)
          /\ (next = 0 => SeqAdd(i, next) = SeqMod - 1)
      BY SMTT(60), <1>2, <1>4, <2>1 DEF SeqAdd
    <3> QED
      BY SMTT(60), <1>1, <1>2, <3>1
  <2>2. CASE x > 0
    <3>1. SeqAdd(i, x) = x - 1
      BY SMTT(60), <1>2, <1>4, <2>2 DEF SeqAdd
    <3> QED
      BY SMTT(60), <1>1, <1>2, <2>2, <3>1
  <2> QED
    BY SMTT(60), <2>1, <2>2
<1> QED
  BY SMTT(60), <1>3, <1>4

\* no segment of such streams overruns
LEMMA SafeOverrun == StreamsFit /\ IsnSafe /\ IInv => NoOverrun
<1> SUFFICES ASSUME StreamsFit, IsnSafe, IInv, NEW s \in Side, NEW p \in net[s]
             PROVE  ~ Overrun(fs[s], p.seg.seq, p.seg.len)
  BY Zenon DEF NoOverrun
<1>1. PICK r \in Side : r = Peer(s) /\ Peer(r) = s
  BY Zenon, PeerIs
<1>2. EndOK(s, r) /\ EndOK(r, s) /\ plan \in Plans
  BY ZenonT(60), <1>1 DEF IInv
<1>3. PICK i \in SeqNum : i = Isn[r]
  BY SMTT(60), StreamAssumption
<1>4. PICK t \in Nat : t = plan.total[r]
  BY SMTT(60), <1>2, StreamAssumption
<1>5. RxSide(fs[s], rxbuf[s], i, Len(out[s]), wr[r], fs[r].txfin)
  BY Zenon, <1>2, <1>3 DEF EndOK, Stands, Moves
<1>6. /\ fs[s] \in FlowState /\ Ctx(i, Len(out[s]), wr[r], fs[r].txfin)
      /\ RxBytes(fs[s], rxbuf[s], i, Len(out[s]), wr[r], fs[r].txfin)
  BY Zenon, <1>5 DEF RxSide, FlowInv, RxStream
<1>7. PICK next \in Nat : next = NextOf(fs[s], Len(out[s]))
  BY Zenon, <1>6, RxRanges
<1>8. PICK av \in Nat : av = fs[s].rx_avail /\ next + av < SeqMod
  BY ZenonT(60), <1>6, <1>7, RxRanges
<1>9. fs[s].rx_next_seq = SeqAdd(i, next)
  BY ZenonT(60), <1>6, <1>7 DEF RxBytes
<1>10. PICK w \in Nat : w = wr[r] /\ w <= t
  BY ZenonT(60), <1>2, <1>4, <1>6 DEF Ctx, EndOK
<1>11. PICK c \in 0 .. 1 : c = One(fs[r].txfin)
  BY Zenon, OneIs
<1>12. Sends(p, i, w, fs[r].txfin)
  BY ZenonT(60), <1>2, <1>3, <1>10 DEF EndOK, UnderWay
<1>13. PICK x \in 0 .. w + c : SegAt(p, i, w, fs[r].txfin, x)
  BY ZenonT(60), <1>11, <1>12 DEF Sends
<1>14. x \in Nat
  BY SMTT(60)
<1>15. PICK n \in Nat : n = p.seg.len
  BY Zenon, <1>12, SegFields DEF Sends
<1>16. x + n <= w + c
  <2>2. PICK d \in 0 .. 1 : d = One(p.seg.fin)
    BY Zenon, OneIs
  <2>3. x + n + d <= w + c
    BY ZenonT(60), <1>11, <1>13, <1>15, <2>2 DEF SegAt
  <2> QED
    BY <1>14, <2>3
<1>17. t + 1 < SeqMod /\ (i = SeqMod - 1 \/ i + t + 1 < SeqMod)
  <2>1. t + 1 + RxLen < SeqMod /\ (i = SeqMod - 1 \/ i + t + 1 < SeqMod)
    BY ZenonT(60), <1>2, <1>3, <1>4 DEF StreamsFit, IsnSafe
  <2> QED
    BY SMTT(60), <2>1, FlowAssumption, SeqModAssumption
<1>18. ~ Overrun(fs[s], SeqAdd(i, x), n)
  BY Zenon, <1>8, <1>9, <1>10, <1>14, <1>16, <1>17, SafeNumbers
<1> QED
  BY ZenonT(60), <1>13, <1>15, <1>18 DEF SegAt

(***************************************************************************)
(* Overrun cannot happen to streams whose sequence numbers do not wrap     *)
(* after the first byte: tcp_trim_rxbuf then trims every segment exactly.  *)
(***************************************************************************)
THEOREM NeverOverruns ==
  ASSUME StreamsFit, IsnSafe
  PROVE  Spec => []NoOverrun
<1>1. Init => IInv
  BY SMTT(60), InitOK
<1>2. IInv => NoOverrun
  BY Zenon, SafeOverrun
<1>3. IInv /\ NoOverrun /\ [Next]_vars => IInv'
  BY Zenon, NextOK
<1> QED
  BY <1>1, <1>2, <1>3, PTL DEF Spec

-----------------------------------------------------------------------------
\* the two modules name the ends alike
LEMMA SameEnds == Stream!Side = Side /\ \A s : Stream!Peer(s) = Peer(s)
  BY Zenon DEF Stream!Side, Side, Stream!Peer, Peer

\* the stream is closed and has been read to its end
AllRead(o, w, c) == c /\ o = w

\* the end of the stream is reported when all of it has been read
LEMMA EofIs ==
  ASSUME NEW g, NEW rb, NEW j, NEW o, NEW w, NEW c, RxSide(g, rb, j, o, w, c),
         g.rxfin, RxLen - g.rx_avail = 0
  PROVE  AllRead(o, w, c)
<1>1. /\ Ctx(j, o, w, c) /\ RxBytes(g, rb, j, o, w, c)
  BY Zenon DEF RxSide, RxStream
<1>2. c /\ GotOf(g, o) = w /\ o \in Nat
  BY Zenon, <1>1 DEF RxBytes, Ctx
<1>3. GotOf(g, o) = o
  BY SMTT(60), <1>2, FlowAssumption DEF GotOf
<1> QED
  BY ZenonT(60), <1>2, <1>3 DEF AllRead

\* and stays reported whatever segment arrives
LEMMA EofStays ==
  ASSUME NEW f, NEW g, NEW rb, NEW rb2, NEW j, NEW o, NEW w, NEW c,
         RxSide(f, rb, j, o, w, c), RxSide(g, rb2, j, o, w, c),
         NextOf(f, o) <= NextOf(g, o), f.rxfin, RxLen - f.rx_avail = 0
  PROVE  g.rxfin /\ RxLen - g.rx_avail = 0
<1>1. /\ f \in FlowState /\ g \in FlowState /\ Ctx(j, o, w, c)
      /\ RxBytes(f, rb, j, o, w, c) /\ RxBytes(g, rb2, j, o, w, c)
  BY Zenon DEF RxSide, RxStream, FlowInv
<1>2. w \in Nat /\ o \in Nat
  BY Zenon, <1>1 DEF Ctx
<1>3. NextOf(f, o) = w + 1
  <2>1. f.rxfin => c /\ NextOf(f, o) = w + 1
    BY SMTT(60), <1>1, RxRanges
  <2> QED
    BY ZenonT(60), <2>1
<1>4. /\ GotOf(g, o) \in Nat /\ GotOf(g, o) <= w
      /\ ~ g.rxfin => NextOf(g, o) = GotOf(g, o)
  BY ZenonT(60), <1>1, RxRanges
<1>5. g.rxfin
  BY SMTT(60), <1>2, <1>3, <1>4
<1>6. GotOf(g, o) = w /\ GotOf(f, o) = w
  BY ZenonT(60), <1>1, <1>5 DEF RxBytes
<1>7. g.rx_avail \in Nat /\ f.rx_avail \in Nat
  BY Zenon, <1>1, FlowField
<1>8. RxLen - g.rx_avail = 0
  BY SMTT(60), <1>2, <1>6, <1>7, FlowAssumption DEF GotOf
<1> QED
  BY Zenon, <1>5, <1>8

\* the ends that have closed, as the refinement mapping has them
Closed == {s \in Side : fs[s].txfin}

\* s is told of the end of its peer's stream
AtEof(f) == f.rxfin /\ RxLen - f.rx_avail = 0

\* who is told of the end
LEMMA EofIn == \A s : (s \in Eof <=> s \in Side /\ AtEof(fs[s]))
  BY Zenon DEF Eof, AtEof, Unread

\* and who after a step
LEMMA EofIn1 == \A s : (s \in Eof' <=> s \in Side /\ AtEof(fs'[s]))
  BY ZenonT(60) DEF Eof, AtEof, Unread

\* what the mapped variables do in a step of s
LEMMA EofSame ==
  ASSUME NEW s \in Side, Alone(Peer(s)), RxAll(fs'[s], fs[s])
  PROVE  Eof' = Eof
<1>1. AtEof(fs'[s]) <=> AtEof(fs[s])
  BY Zenon DEF AtEof, RxAll, RxKeeps
<1>2. \A x \in Side : AtEof(fs'[x]) <=> AtEof(fs[x])
  BY ZenonT(60), <1>1, PeerIs DEF Alone
<1> QED
  BY SMTT(60), <1>2, EofIn, EofIn1

\* who has closed after a step
LEMMA ClosedSame ==
  ASSUME NEW s \in Side, Alone(Peer(s)), SameFin(fs'[s], fs[s])
  PROVE  Closed' = Closed
<1>1. \A x \in Side : fs'[x].txfin <=> fs[x].txfin
  BY Zenon, PeerIs DEF Alone, SameFin
<1> QED
  BY SMTT(60), <1>1 DEF Closed

\* the peer is not told of the end by a step of s
LEMMA EofOther ==
  ASSUME NEW s \in Side, Alone(Peer(s))
  PROVE  \A x \in Side : x # s => (x \in Eof' <=> x \in Eof)
  BY ZenonT(60), PeerIs, EofIn, EofIn1 DEF Alone

\* Write implements the abstract Write
LEMMA WriteRefines ==
  ASSUME StreamsFit, IInv, NEW s \in Side, NEW n \in 1 .. TxLen, Write(s, n)
  PROVE  Stream!Write(s)
<1>1. StepOf(s, Peer(s)) /\ RxAll(fs'[s], fs[s]) /\ SameFin(fs'[s], fs[s])
  BY Zenon, WriteStep
<1>2. Alone(Peer(s))
  BY Zenon, <1>1 DEF StepOf
<1>3. Closed' = Closed /\ Eof' = Eof
  BY ZenonT(60), <1>1, <1>2, ClosedSame, EofSame
<1>4. out' = out /\ ~ fs[s].txfin
  BY Zenon DEF Write
<1>5. wr' = [wr EXCEPT ![s] = wr[s] + n]
  BY Zenon DEF Write
<1>6. \A x \in Side : wr[x] \in Nat
  BY Zenon DEF IInv, EndOK, Stands, Moves, Grows
<1>7. Table(wr)
  BY Zenon DEF IInv, Tables
<1>8. wr \in [Side -> Nat]
  BY SMTT(60), <1>6, <1>7 DEF Table
<1>9. wr' \in [Side -> Nat] /\ wr'[s] > wr[s]
  BY SMTT(60), <1>5, <1>8
<1>10. wr'[Peer(s)] = wr[Peer(s)]
  BY Zenon, <1>2 DEF Alone
<1>11. s \notin Closed
  BY Zenon, <1>4 DEF Closed
<1> QED
  BY ZenonT(60), <1>3, <1>4, <1>9, <1>10, <1>11, SameEnds DEF Stream!Write, Closed

\* Close implements the abstract Close
LEMMA CloseRefines ==
  ASSUME StreamsFit, IInv, NEW s \in Side, Close(s)
  PROVE  Stream!Close(s)
<1>1. StepOf(s, Peer(s)) /\ RxAll(fs'[s], fs[s]) /\ fs'[s].txfin
  BY Zenon, CloseStep
<1>2. Alone(Peer(s))
  BY Zenon, <1>1 DEF StepOf
<1>3. Eof' = Eof
  BY ZenonT(60), <1>1, <1>2, EofSame
<1>4. out' = out /\ wr' = wr
  BY Zenon DEF Close
<1>5. \A x \in Side : fs'[x].txfin <=> fs[x].txfin \/ x = s
  BY ZenonT(60), <1>1, <1>2, PeerIs DEF Alone
<1>6. Closed' = Closed \cup {s}
  BY SMTT(60), <1>5 DEF Closed
<1> QED
  BY ZenonT(60), <1>3, <1>4, <1>6 DEF Stream!Close, Closed

\* s reads on to byte m of its peer's stream
LEMMA ReadIs ==
  ASSUME NEW s \in Side, NEW m, m \in Len(out[s]) .. wr[Peer(s)],
         out' = [out EXCEPT ![s] = @ \o [k \in 1 .. m - Len(@) |-> Len(@) + k - 1]],
         Eof' = Eof \/ Eof' = Eof \cup {s},
         s \in Eof' => Peer(s) \in Closed /\ Len(out'[s]) = wr[Peer(s)],
         wr' = wr, Closed' = Closed
  PROVE  Stream!Read(s)
  BY Zenon, SameEnds DEF Stream!Read, Closed

\* s is told of the end only when it has read all of a closed stream
LEMMA EofFollows ==
  ASSUME IInv', NEW s \in Side, Closed' = Closed, wr' = wr, s \in Eof'
  PROVE  Peer(s) \in Closed /\ Len(out'[s]) = wr[Peer(s)]
<1>1. PICK r \in Side : r = Peer(s)
  BY ZenonT(60), PeerIs
<1>2. EndOK(s, r)'
  BY ZenonT(60), <1>1 DEF IInv
<1>3. RxSide(fs'[s], rxbuf'[s], Isn[r], Len(out'[s]), wr'[r], fs'[r].txfin)
  BY ZenonT(60), <1>2 DEF EndOK, Stands, Moves
<1>4. fs'[s].rxfin /\ RxLen - fs'[s].rx_avail = 0
  BY ZenonT(60), EofIn1 DEF AtEof
<1>5. fs'[r].txfin /\ Len(out'[s]) = wr'[r]
  <2>1. AllRead(Len(out'[s]), wr'[r], fs'[r].txfin)
    BY ZenonT(60), <1>3, <1>4, EofIs
  <2> QED
    BY Zenon, <2>1 DEF AllRead
<1>6. r \in Closed'
  BY Zenon, <1>5 DEF Closed
<1> QED
  BY ZenonT(60), <1>1, <1>5, <1>6

\* Read implements the abstract Read: it returns the next bytes of the stream
LEMMA ReadRefines ==
  ASSUME StreamsFit, IInv, NEW s \in Side, NEW n \in 1 .. RxLen, NEW lost, Read(s, n, lost)
  PROVE  Stream!Read(s)
<1>1. StepOf(s, Peer(s)) /\ SameFin(fs'[s], fs[s])
  BY Zenon, ReadStep
<1>2. Alone(Peer(s))
  BY Zenon, <1>1 DEF StepOf
<1>3. Closed' = Closed
  BY ZenonT(60), <1>1, <1>2, ClosedSame
<1>4. /\ wr' = wr /\ n <= Unread(s)
      /\ out' = [out EXCEPT ![s] = out[s] \o Taken(rxbuf[s], Len(out[s]), n)]
  BY Zenon DEF Read, Taken
<1>5. PICK r \in Side : r = Peer(s)
  BY Zenon, PeerIs
<1>6. EndOK(s, r)
  BY Zenon, <1>5 DEF IInv
<1>7. /\ RxSide(fs[s], rxbuf[s], Isn[r], Len(out[s]), wr[r], fs[r].txfin)
      /\ OutOK(out[s])
  BY ZenonT(60), <1>6 DEF EndOK, Stands, Moves
<1>8. n \in Nat /\ n <= RxLen - fs[s].rx_avail /\ n # 0
  BY SMTT(60), <1>4 DEF Unread
<1>9. Continues(out[s], Taken(rxbuf[s], Len(out[s]), n), n, wr[r])
  BY ZenonT(60), <1>7, <1>8, ReadOut
<1>10. PICK o \in Nat : o = Len(out[s])
  BY SMTT(60), <1>7 DEF OutOK
<1>11. wr[r] \in Nat
  BY ZenonT(60), <1>7 DEF RxSide, Ctx
<1>12. PICK m : m = o + n /\ m \in o .. wr[r] /\ m - o = n
  <2>1. o + n <= wr[r]
    BY ZenonT(60), <1>9, <1>10 DEF Continues
  <2> QED
    BY SMTT(60), <1>8, <1>11, <2>1
<1>13. out' = [out EXCEPT ![s] = @ \o [k \in 1 .. m - Len(@) |-> Len(@) + k - 1]]
  <2>1. Taken(rxbuf[s], Len(out[s]), n) = [k \in 1 .. n |-> Len(out[s]) + k - 1]
    BY Zenon, <1>9 DEF Continues
  <2>2. n = m - Len(out[s])
    BY ZenonT(60), <1>10, <1>12
  <2> QED
    BY ZenonT(60), <1>4, <2>1, <2>2
<1>14. s \notin Eof
  <2>1. fs[s].rx_avail \in Nat
    BY Zenon, <1>7, FlowField DEF RxSide, FlowInv
  <2>2. ~ (RxLen - fs[s].rx_avail = 0)
    BY <1>8, <2>1, FlowAssumption
  <2> QED
    BY ZenonT(60), <2>2, EofIn DEF AtEof
<1>15. Eof' = Eof \/ Eof' = Eof \cup {s}
  <2>1. \A x : x # s => (x \in Eof' <=> x \in Eof)
    BY Zenon, <1>2, EofOther, EofIn, EofIn1
  <2>2. CASE s \in Eof'
    BY SMTT(60), <2>1, <2>2
  <2>3. CASE s \notin Eof'
    BY SMTT(60), <1>14, <2>1, <2>3
  <2> QED
    BY Zenon, <2>2, <2>3
<1>16. IInv'
  BY ZenonT(60), <1>1, StepOK
<1>17. s \in Eof' => Peer(s) \in Closed /\ Len(out'[s]) = wr[Peer(s)]
  BY ZenonT(60), <1>3, <1>4, <1>16, EofFollows
<1>18. m \in Len(out[s]) .. wr[Peer(s)]
  BY ZenonT(60), <1>5, <1>10, <1>12
<1> QED
  BY Zenon, <1>3, <1>4, <1>13, <1>15, <1>17, <1>18, ReadIs

\* nothing appended
LEMMA ConcatNone ==
  ASSUME NEW q \in Seq(Nat), NEW h \in Seq(Nat), Len(h) = 0
  PROVE  q \o h = q
<1>1. /\ q \o h \in Seq(Nat) /\ Len(q \o h) = Len(q)
      /\ \A k \in 1 .. Len(q) : (q \o h)[k] = q[k]
  BY SMTT(60), Concat
<1> QED
  BY SMTT(60), <1>1

\* Receive is no step of the byte stream, or the one that reports its end
LEMMA ReceiveRefines ==
  ASSUME StreamsFit, IInv, NoOverrun, NEW s \in Side, NEW dup, NEW lost,
         Receive(s, dup, lost)
  PROVE  Stream!Read(s) \/ (wr' = wr /\ Closed' = Closed /\ out' = out /\ Eof' = Eof)
<1>1. StepOf(s, Peer(s)) /\ SameFin(fs'[s], fs[s]) /\ out' = out /\ wr' = wr
  BY Zenon, ReceiveStep
<1>2. Alone(Peer(s))
  BY Zenon, <1>1 DEF StepOf
<1>3. Closed' = Closed
  BY ZenonT(60), <1>1, <1>2, ClosedSame
<1>4. IInv'
  BY Zenon, <1>1, StepOK
<1>5. PICK r \in Side : r = Peer(s) /\ r # s
  BY Zenon, PeerIs
<1>6. EndOK(s, r)
  BY Zenon, <1>5 DEF IInv
<1>7. /\ RxSide(fs[s], rxbuf[s], Isn[r], Len(out[s]), wr[r], fs[r].txfin)
      /\ OutOK(out[s])
  BY Zenon, <1>6 DEF EndOK, Stands, Moves
<1>8. s \in Eof => s \in Eof'
  <2> SUFFICES ASSUME s \in Eof PROVE s \in Eof'
    BY SMTT(60)
  <2>1. fs[s].rxfin /\ RxLen - fs[s].rx_avail = 0
    BY Zenon, EofIn DEF AtEof
  <2>2. /\ RxSide(fs'[s], rxbuf'[s], Isn[r], Len(out[s]), wr[r], fs[r].txfin)
        /\ NextOf(fs[s], Len(out[s])) <= NextOf(fs'[s], Len(out[s]))
    BY ZenonT(60), <1>1, <1>5 DEF StepOf, Moves
  <2>3. fs'[s].rxfin /\ RxLen - fs'[s].rx_avail = 0
    BY ZenonT(60), <1>7, <2>1, <2>2, EofStays
  <2> QED
    BY ZenonT(60), <2>3, EofIn1 DEF AtEof
<1>9. \A x : x # s => (x \in Eof' <=> x \in Eof)
  BY ZenonT(60), <1>2, EofOther, EofIn, EofIn1
<1>10. CASE s \in Eof' /\ s \notin Eof
  <2>1. Eof' = Eof \cup {s}
    BY SMTT(60), <1>9, <1>10
  <2>2. PICK o \in Nat : o = Len(out[s])
    BY SMTT(60), <1>7 DEF OutOK
  <2>3. Peer(s) \in Closed /\ Len(out'[s]) = wr[Peer(s)]
    BY ZenonT(60), <1>1, <1>3, <1>4, <1>10, EofFollows
  <2>4. o \in o .. wr[Peer(s)]
    <3>1. wr[Peer(s)] = o
      BY ZenonT(60), <1>1, <2>2, <2>3
    <3> QED
      BY SMTT(60), <3>1
  <2>5. out[s] \o [k \in 1 .. o - Len(out[s]) |-> Len(out[s]) + k - 1] = out[s]
    <3>1. out[s] \in Seq(Nat)
      BY ZenonT(60), <1>7 DEF OutOK
    <3>2. \A k \in 1 .. o - Len(out[s]) : Len(out[s]) + k - 1 \in Nat
      BY SMTT(60), <2>2
    <3>3. /\ [k \in 1 .. o - Len(out[s]) |-> Len(out[s]) + k - 1] \in Seq(Nat)
          /\ Len([k \in 1 .. o - Len(out[s]) |-> Len(out[s]) + k - 1]) = 0
      <4>1. o - Len(out[s]) = 0
        BY SMTT(60), <2>2
      <4> QED
        BY SMTT(60), <3>2, <4>1
    <3> QED
      BY ZenonT(60), <3>1, <3>3, ConcatNone
  <2>6. out' = [out EXCEPT ![s] = @ \o [k \in 1 .. o - Len(@) |-> Len(@) + k - 1]]
    <3>1. [out EXCEPT ![s] = out[s]] = out
      <4>1. Table(out)
        BY Zenon DEF IInv, Tables
      <4> QED
        BY SMTT(60), <4>1 DEF Table
    <3> QED
      BY ZenonT(60), <1>1, <2>5, <3>1
  <2> QED
    BY ZenonT(60), <1>1, <1>3, <2>1, <2>2, <2>3, <2>4, <2>6, ReadIs
<1>11. CASE ~ (s \in Eof' /\ s \notin Eof)
  <2>1. Eof' = Eof
    BY SMTT(60), <1>8, <1>9, <1>11
  <2> QED
    BY ZenonT(60), <1>1, <1>3, <2>1
<1> QED
  BY ZenonT(60), <1>10, <1>11

\* every step of the connection is one of the byte stream, or none
LEMMA StepRefines ==
  ASSUME StreamsFit, IInv, NoOverrun, [Next]_vars
  PROVE  [Stream!Next]_(Stream!vars)
<1>0. wr' = wr /\ Closed' = Closed /\ out' = out /\ Eof' = Eof => UNCHANGED Stream!vars
  BY Zenon DEF Stream!vars, Closed
<1>1. CASE Next
  <2>1. PICK s \in Side :
          \/ \E n \in 1 .. TxLen : Write(s, n)
          \/ Close(s)
          \/ Retransmit(s)
          \/ \E lost : \E n \in 1 .. RxLen : Read(s, n, lost)
          \/ \E lost : Transmit(s, lost)
          \/ \E lost : \E dup : Receive(s, dup, lost)
    BY Zenon, <1>1 DEF Next, Step
  <2>2. s \in Stream!Side
    BY Zenon, SameEnds
  <2>3. CASE \E n \in 1 .. TxLen : Write(s, n)
    BY ZenonT(60), <2>2, <2>3, WriteRefines DEF Stream!Next
  <2>4. CASE Close(s)
    BY ZenonT(60), <2>2, <2>4, CloseRefines DEF Stream!Next
  <2>5. CASE \E lost : \E n \in 1 .. RxLen : Read(s, n, lost)
    BY ZenonT(60), <2>2, <2>5, ReadRefines DEF Stream!Next
  <2>6. CASE \E lost : \E dup : Receive(s, dup, lost)
    BY ZenonT(60), <1>0, <2>2, <2>6, ReceiveRefines DEF Stream!Next
  <2>7. CASE Retransmit(s) \/ \E lost : Transmit(s, lost)
    <3>1. StepOf(s, Peer(s)) /\ RxAll(fs'[s], fs[s]) /\ SameFin(fs'[s], fs[s])
      BY ZenonT(60), <2>7, RetransmitStep, TransmitStep
    <3>2. wr' = wr /\ out' = out
      BY Zenon, <2>7 DEF Retransmit, Transmit
    <3>3. Closed' = Closed /\ Eof' = Eof
      BY ZenonT(60), <3>1, ClosedSame, EofSame DEF StepOf
    <3> QED
      BY ZenonT(60), <1>0, <3>2, <3>3
  <2> QED
    BY ZenonT(60), <2>1, <2>3, <2>4, <2>5, <2>6, <2>7
<1>2. CASE UNCHANGED vars
  BY ZenonT(60), <1>0, <1>2 DEF vars, Closed, Eof, Unread
<1> QED
  BY ZenonT(60), <1>1, <1>2

\* the initial states map to initial states
LEMMA InitRefines == Init => Stream!Init
<1> SUFFICES ASSUME Init PROVE Stream!Init
  OBVIOUS
<1>1. \A s \in Side : fs[s].txfin = FALSE /\ fs[s].rxfin = FALSE
  BY SMTT(60) DEF Init, nicif_connection_add
<1>2. {s \in Side : fs[s].txfin} = {} /\ Eof = {}
  BY SMTT(60), <1>1 DEF Eof
<1> QED
  BY ZenonT(60), <1>2, SameEnds DEF Stream!Init, Init

(***************************************************************************)
(* Two fast paths, their four buffers and a network that loses, duplicates *)
(* and reorders implement a pair of byte streams (ImplementsByteStream):   *)
(* what an application reads is what the other has written, in order and   *)
(* once, and the end of the stream is reported when all of it has been     *)
(* read and never before, nor taken back.                                  *)
(***************************************************************************)
THEOREM ConnectionImplements ==
  ASSUME StreamsFit
  PROVE  Spec /\ []NoOverrun => ImplementsByteStream
<1>1. Init => Stream!Init
  BY SMTT(60), InitRefines
<1>2. IInv /\ NoOverrun /\ [Next]_vars => [Stream!Next]_(Stream!vars)
  BY Zenon, StepRefines
<1>3. Spec /\ []NoOverrun => []IInv
  BY Inductive
<1> QED
  BY <1>1, <1>2, <1>3, PTL DEF Spec, ImplementsByteStream, Stream!Spec

(***************************************************************************)
(* For streams whose sequence numbers do not wrap after the first byte     *)
(* nothing is left to assume of the run: the connection keeps both         *)
(* invariants and implements the byte streams.                             *)
(***************************************************************************)
THEOREM ShortStreamsSafe ==
  ASSUME StreamsFit, IsnSafe
  PROVE  Spec => []StreamIntact /\ []AckedArrived /\ ImplementsByteStream
<1>1. Spec => []NoOverrun
  BY SMTT(60), NeverOverruns
<1>2. Spec /\ []NoOverrun => []StreamIntact
  BY SMTT(60), StreamDelivered
<1>3. Spec /\ []NoOverrun => []AckedArrived
  BY SMTT(60), AcknowledgedArrived
<1>4. Spec /\ []NoOverrun => ImplementsByteStream
  BY ConnectionImplements
<1> QED
  BY <1>1, <1>2, <1>3, <1>4, PTL
=============================================================================
