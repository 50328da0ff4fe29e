---------------------------- MODULE TcpFlow_proofs ---------------------------
(***************************************************************************)
(* Lemmas about one end of a connection of TcpStream: its flow state, its  *)
(* two buffers, the stream it sends and the one it receives.  They hold    *)
(* for all buffer sizes and initial sequence numbers and for streams that  *)
(* are shorter than the sequence space.                                    *)
(*                                                                         *)
(* They go from the inside out: the arithmetic of buffer positions and     *)
(* sequence numbers; what tcp_trim_rxbuf leaves of a segment; the receive  *)
(* side (RxSide) under each branch of fast_flows_packet; and the send side *)
(* (TxSide) under acknowledgements, writes and transmission.               *)
(***************************************************************************)
EXTENDS TcpStream, FlowOps_proofs
-----------------------------------------------------------------------------
\* the remainder is unique
LEMMA ModUnique ==
  ASSUME NEW L \in Nat \ {0}, NEW a \in Nat, NEW q \in Nat, NEW r \in 0 .. L - 1,
         a = L * q + r
  PROVE  a % L = r
  BY SMTT(60)

\* what the remainder is
LEMMA ModDef ==
  ASSUME NEW L \in Nat \ {0}, NEW a \in Nat
  PROVE  a % L \in 0 .. L - 1 /\ \E q \in Nat : a = L * q + (a % L)
<1>1. a % L \in 0 .. L - 1 /\ a \div L \in Nat
  BY SMTT(60)
<1>2. a = L * (a \div L) + (a % L)
  BY SMTT(60)
<1> QED BY Zenon, <1>1, <1>2

\* positions in a circular buffer advance by addition and one correction (Wrap)
LEMMA ModAdd ==
  ASSUME NEW L \in Nat \ {0}, NEW a \in Nat, NEW n \in 0 .. L
  PROVE  (a + n) % L = Wrap((a % L) + n, L)
<1> DEFINE r == a % L
<1>1. r \in 0 .. L - 1
  BY ModDef
<1>2. PICK q \in Nat : a = L * q + r
  BY Zenon, ModDef
<1> HIDE DEF r
<1>3. L * q \in Nat /\ L * (q + 1) = L * q + L
  BY SMTT(60)
<1>4. CASE r + n >= L
  <2>1. a + n = L * (q + 1) + (r + n - L) /\ r + n - L \in 0 .. L - 1
        /\ a + n \in Nat /\ q + 1 \in Nat
    BY SMTT(60), <1>1, <1>2, <1>3, <1>4
  <2>2. (a + n) % L = r + n - L
    BY Zenon, <2>1, ModUnique
  <2> QED
    BY <1>4, <2>2 DEF Wrap, r
<1>5. CASE r + n < L
  <2>1. a + n = L * q + (r + n) /\ r + n \in 0 .. L - 1 /\ a + n \in Nat
    BY SMTT(60), <1>1, <1>2, <1>3, <1>5
  <2>2. (a + n) % L = r + n
    BY Zenon, <2>1, ModUnique
  <2> QED
    BY <1>1, <1>5, <2>2 DEF Wrap, r
<1> QED BY <1>1, <1>4, <1>5

\* the remainder of a number below L, and of one below 2 L
LEMMA ModSmall ==
  ASSUME NEW L \in Nat \ {0}, NEW x \in 0 .. L - 1
  PROVE  x % L = x /\ (x + L) % L = x
<1>1. x \in Nat /\ x + L \in Nat /\ x = L * 0 + x /\ x + L = L * 1 + x
  BY SMTT(60)
<1> QED
  BY <1>1, ModUnique

\* the distance between the positions of bytes k and r in a buffer of L bytes
LEMMA ModDist ==
  ASSUME NEW L \in Nat \ {0}, NEW r \in Nat, NEW k \in Nat
  PROVE  /\ k - r \in 0 .. L - 1 => (((k % L) + L) - (r % L)) % L = k - r
         /\ r - k \in 1 .. L => (((k % L) + L) - (r % L)) % L = L - (r - k)
<1> DEFINE i == k % L
           j == r % L
<1>0. i \in 0 .. L - 1 /\ j \in 0 .. L - 1
  BY ModDef
<1>1. ASSUME k - r \in 0 .. L - 1
      PROVE  ((i + L) - j) % L = k - r
  <2>1. i = Wrap(j + (k - r), L)
    <3>1. k = r + (k - r) /\ k - r \in 0 .. L
      BY <1>1
    <3> QED
      BY Zenon, <3>1, ModAdd
  <2> HIDE DEF i, j
  <2>2. (i + L) - j = k - r \/ (i + L) - j = (k - r) + L
    BY <1>0, <1>1, <2>1 DEF Wrap
  <2> QED
    BY <1>1, <2>2, ModSmall
<1>2. ASSUME r - k \in 1 .. L
      PROVE  ((i + L) - j) % L = L - (r - k)
  <2>1. j = Wrap(i + (r - k), L)
    <3>1. r = k + (r - k) /\ r - k \in 0 .. L
      BY <1>2
    <3> QED
      BY Zenon, <3>1, ModAdd
  <2> HIDE DEF i, j
  <2>2. /\ L - (r - k) \in 0 .. L - 1
        /\ (i + L) - j = L - (r - k) \/ (i + L) - j = (L - (r - k)) + L
    BY <1>0, <1>2, <2>1 DEF Wrap
  <2> QED
    BY <2>2, ModSmall
<1> QED
  BY <1>1, <1>2

\* the same, for the form in which Write states it
LEMMA ModWrite ==
  ASSUME NEW L \in Nat \ {0}, NEW w \in Nat, NEW k \in Nat
  PROVE  /\ k - w \in 0 .. L - 1 => (((k % L) + w * L) - w) % L = k - w
         /\ w - k \in 1 .. L => (((k % L) + w * L) - w) % L = L - (w - k)
<1> DEFINE i == k % L
<1>0. i \in 0 .. L - 1
  BY ModDef
<1>q. PICK q \in Nat : k = L * q + i
  BY Zenon, ModDef
<1> HIDE DEF i
<1>a. L * q \in Nat /\ w * L \in Nat /\ w * L = L * w /\ L * w >= w /\ L * q >= q
  BY SMTT(60)
<1>1. ASSUME k - w \in 0 .. L - 1
      PROVE  ((i + w * L) - w) % L = k - w
  <2>1. q <= w
    <3>1. SUFFICES ASSUME q >= w + 1 PROVE FALSE
      OBVIOUS
    <3>2. L * q >= L * w + L
      BY SMTT(60), <3>1
    <3> QED
      BY <1>0, <1>q, <1>a, <1>1, <3>2
  <2>2. w - q \in Nat /\ L * (w - q) = L * w - L * q
    BY SMTT(60), <2>1
  <2>3. (i + w * L) - w = L * (w - q) + (k - w) /\ (i + w * L) - w \in Nat
    BY <1>0, <1>q, <1>a, <1>1, <2>2
  <2> QED
    BY Zenon, <1>1, <2>2, <2>3, ModUnique
<1>2. ASSUME w - k \in 1 .. L
      PROVE  ((i + w * L) - w) % L = L - (w - k)
  <2>1. q + 1 <= w
    BY <1>0, <1>q, <1>a, <1>2
  <2>2. w - q - 1 \in Nat /\ L * (w - q - 1) = L * w - L * q - L
    BY SMTT(60), <2>1
  <2>3. /\ (i + w * L) - w = L * (w - q - 1) + (L - (w - k))
        /\ (i + w * L) - w \in Nat /\ L - (w - k) \in 0 .. L - 1
    BY <1>0, <1>q, <1>a, <1>2, <2>2
  <2> QED
    BY Zenon, <2>2, <2>3, ModUnique
<1> QED
  BY <1>1, <1>2 DEF i

\* the segment is cut wrong
Overrun(s, seq, n) ==
  /\ s.rx_next_seq < seq /\ seq <= s.rx_next_seq + s.rx_avail
  /\ s.rx_next_seq + s.rx_avail < SeqMod /\ seq + n >= SeqMod

\* tcp_trim_rxbuf, for every position of a packet and of the window: a packet that
\* starts d bytes before the window loses its first d bytes, one that starts d
\* bytes into it none, both lose what is beyond the window, and a packet is dropped
\* exactly if nothing of it can touch the window; but for Overrun
LEMMA TrimExact ==
  ASSUME NEW s, s.rx_next_seq \in SeqNum, s.rx_avail \in Nat,
         NEW seq \in SeqNum, NEW n \in Nat, s.rx_avail + n < SeqMod,
         NEW d \in Nat, NEW t, t = tcp_trim_rxbuf(s, seq, n)
  PROVE  /\ SeqAdd(seq, d) = s.rx_next_seq /\ d + s.rx_avail < SeqMod =>
              /\ t.drop <=> n < d
              /\ ~ t.drop => /\ t.trim_start = d
                             /\ t.trim_end = IF n > d + s.rx_avail
                                               THEN n - (d + s.rx_avail) ELSE 0
         /\ (/\ SeqAdd(s.rx_next_seq, d) = seq /\ d > 0 /\ d + n < SeqMod
             /\ ~ Overrun(s, seq, n)) =>
              /\ t.drop <=> d > s.rx_avail
              /\ ~ t.drop => /\ t.trim_start = 0
                             /\ t.trim_end = IF d + n > s.rx_avail
                                               THEN (d + n) - s.rx_avail ELSE 0
<1> DEFINE sa == s.rx_next_seq
           av == s.rx_avail
           sb == SeqAdd(sa, av)
           pa == seq
           pb == SeqAdd(seq, n)
           D == t.drop
           ts == t.trim_start
           te == t.trim_end
<1>1. /\ pa \in SeqNum /\ pb \in SeqNum /\ sa \in SeqNum /\ sb \in SeqNum
      /\ av \in Nat /\ av + n < SeqMod
      /\ sb = SeqAdd(sa, av) /\ pb = SeqAdd(seq, n)
  BY SeqModAssumption DEF SeqNum, SeqAdd
<1>2. D <=> \/ pa <= pb /\ sa <= sb /\ (pb < sa \/ pa > sb)
            \/ pa > pb /\ sa <= sb /\ pa > sb /\ pb < sa
            \/ pa <= pb /\ sa > sb /\ pa > sb /\ pb < sa
  <2>1. D <=> \/ ~(pa > pb) /\ ~(sa > sb) /\ (pb < sa \/ pa > sb)
              \/ (pa > pb <=> ~(sa > sb)) /\ pa > sb /\ pb < sa
    BY Zenon DEF tcp_trim_rxbuf
  <2> HIDE DEF sa, sb, pb, D
  <2> QED
    BY <1>1, <2>1 DEF SeqNum
<1>3. ts = IF /\ ~ D
              /\ \/ pa <= pb /\ sa <= sb /\ pa < sa
                 \/ pa > pb /\ sa > sb /\ pa < sa
                 \/ pa <= pb /\ sa > sb /\ pa > sb /\ pa < sa
                 \/ pa > pb /\ sa <= sb /\ (sa <= pb \/ sa > pa)
           THEN SeqSub(sa, pa) ELSE 0
  <2>1. ts = IF /\ ~ D
                /\ \/ (pa > pb <=> sa > sb) /\ pa < sa
                   \/ ~(pa > pb) /\ sa > sb /\ pa > sb /\ pa < sa
                   \/ pa > pb /\ ~(sa > sb) /\ (sa <= pb \/ sa > pa)
             THEN SeqSub(sa, pa) ELSE 0
    BY DEF tcp_trim_rxbuf
  <2> HIDE DEF sa, sb, pb, D, ts
  <2> QED
    BY SMTT(60), <1>1, <2>1 DEF SeqNum
<1>4. te = IF /\ ~ D
              /\ \/ pa <= pb /\ sa <= sb /\ pb > sb
                 \/ pa > pb /\ sa > sb /\ pb > sb
                 \/ pa <= pb /\ sa > sb /\ pb >= sb /\ pb < sa
                 \/ pa > pb /\ sa <= sb /\ (pb > sb \/ sa >= pa)
           THEN SeqSub(pb, sb) ELSE 0
  <2>1. te = IF /\ ~ D
                /\ \/ (pa > pb <=> sa > sb) /\ pb > sb
                   \/ ~(pa > pb) /\ sa > sb /\ pb >= sb /\ pb < sa
                   \/ pa > pb /\ ~(sa > sb) /\ (pb > sb \/ sa >= pa)
             THEN SeqSub(pb, sb) ELSE 0
    BY DEF tcp_trim_rxbuf
  <2> HIDE DEF sa, sb, pb, D, te
  <2> QED
    BY SMTT(60), <1>1, <2>1 DEF SeqNum
<1>5. Overrun(s, seq, n) <=> /\ sa < pa /\ pa <= sa + av
                             /\ sa + av < SeqMod /\ pa + n >= SeqMod
  BY DEF Overrun
<1> HIDE DEF sa, av, sb, pb, D, ts, te
<1> USE SeqModAssumption DEF SeqNum, SeqAdd, SeqSub
<1>6. ASSUME SeqAdd(pa, d) = sa, d + av < SeqMod
      PROVE  /\ D <=> n < d
             /\ ~ D => ts = d /\ te = IF n > d + av THEN n - (d + av) ELSE 0
  <2>1. D <=> n < d
    BY SMTT(60), <1>1, <1>2, <1>6
  <2>2. ~ D => ts = d
    BY SMTT(60), <1>1, <1>3, <1>6, <2>1
  <2>3. ~ D => te = IF n > d + av THEN n - (d + av) ELSE 0
    BY SMTT(60), <1>1, <1>4, <1>6, <2>1
  <2> QED
    BY <2>1, <2>2, <2>3
<1>7. ASSUME SeqAdd(sa, d) = pa, d > 0, d + n < SeqMod, ~ Overrun(s, seq, n)
      PROVE  /\ D <=> d > av
             /\ ~ D => ts = 0 /\ te = IF d + n > av THEN (d + n) - av ELSE 0
  <2>1. D <=> d > av
    BY SMTT(60), <1>1, <1>2, <1>5, <1>7
  <2>2. ~ D => ts = 0
    BY SMTT(60), <1>1, <1>3, <1>5, <1>7, <2>1
  <2>3. ~ D => te = IF d + n > av THEN (d + n) - av ELSE 0
    BY SMTT(60), <1>1, <1>4, <1>5, <1>7, <2>1
  <2> QED
    BY <2>1, <2>2, <2>3
<1> QED
  BY <1>6, <1>7 DEF sa, av, D, ts, te
-----------------------------------------------------------------------------
\* sums and differences of sequence numbers, less than the sequence space apart
LEMMA SeqFacts ==
  ASSUME NEW i \in SeqNum, NEW x \in Nat, NEW n \in Nat, x + n < SeqMod
  PROVE  /\ SeqAdd(i, x) \in SeqNum /\ SeqAdd(i, x + n) \in SeqNum
         /\ SeqAdd(SeqAdd(i, x), n) = SeqAdd(i, x + n)
         /\ SeqSub(SeqAdd(i, x + n), n) = SeqAdd(i, x)
         /\ SeqSub(SeqAdd(i, x + n), SeqAdd(i, x)) = n
         /\ SeqAdd(i, x + n) = SeqAdd(i, x) => n = 0
  BY SMTT(60), SeqModAssumption DEF SeqNum, SeqAdd, SeqSub

\* sums of sequence numbers
LEMMA SeqAddAdd ==
  ASSUME NEW i \in SeqNum, NEW x \in Nat, NEW n \in Nat, x + n < SeqMod
  PROVE  SeqAdd(SeqAdd(i, x), n) = SeqAdd(i, x + n)
  BY SMTT(60), SeqModAssumption DEF SeqNum, SeqAdd, SeqSub

\* the distance between two sequence numbers
LEMMA SeqAddSub ==
  ASSUME NEW i \in SeqNum, NEW x \in Nat, NEW n \in Nat, x + n < SeqMod
  PROVE  SeqSub(SeqAdd(i, x + n), SeqAdd(i, x)) = n
  BY SMTT(60), SeqModAssumption DEF SeqNum, SeqAdd, SeqSub

\* bytes of a stream have different sequence numbers
LEMMA SeqSame ==
  ASSUME NEW i \in SeqNum, NEW x \in Nat, NEW y \in Nat, x < SeqMod, y < SeqMod,
         SeqAdd(i, x) = SeqAdd(i, y)
  PROVE  x = y
  BY SMTT(60), SeqModAssumption DEF SeqNum, SeqAdd
-----------------------------------------------------------------------------
\* bytes of a stream of w bytes that were acknowledged to flow f, and bytes
\* that arrived at f after o bytes were read; a FIN counts as one
One(b) == IF b THEN 1 ELSE 0
\* bytes of its stream that are acknowledged to f
AckedOf(f, w) == (w + One(f.txfin)) - (f.tx_avail + f.tx_sent)
\* bytes of the peer's stream that arrived in order
GotOf(f, o) == o + (RxLen - f.rx_avail)
\* and the FIN with them: the byte expected next
NextOf(f, o) == GotOf(f, o) + One(f.rxfin)

\* the send side of flow f, with transmit buffer buf, of a stream that starts
\* at sequence number i and of which w bytes are written
TxStream(f, buf, i, w) ==
  /\ AckedOf(f, w) >= 0
  /\ f.tx_next_seq = SeqAdd(i, AckedOf(f, w) + f.tx_sent)
  /\ f.tx_next_pos = (AckedOf(f, w) + f.tx_sent) % TxLen
  /\ \A k \in AckedOf(f, w) .. w - 1 : buf[k % TxLen] = k

\* buffer buf holds the bytes a .. b - 1 of the stream
Holds(buf, a, b) == \A k \in a .. b - 1 : buf[k % RxLen] = k

\* flow f has an out-of-order interval that starts at byte st of the stream
OooAt(f, buf, i, o, w, st) ==
  /\ f.rx_ooo_start = SeqAdd(i, st)
  /\ st + f.rx_ooo_len <= o + RxLen /\ st + f.rx_ooo_len <= w
  /\ Holds(buf, st, st + f.rx_ooo_len)

\* the receive side: the peer's stream starts at i, has w bytes so far and is
\* closed or not, and the application has read o of them
RxBytes(f, buf, i, o, w, closed) ==
  /\ GotOf(f, o) <= w
  /\ f.rxfin => closed /\ GotOf(f, o) = w /\ f.rx_ooo_len = 0
  /\ f.rx_next_seq = SeqAdd(i, NextOf(f, o))
  /\ f.rx_next_pos = GotOf(f, o) % RxLen
  /\ Holds(buf, o, GotOf(f, o))

\* and what is buffered out of order is the stream's, beyond a gap
RxStream(f, buf, i, o, w, closed) ==
  /\ RxBytes(f, buf, i, o, w, closed)
  /\ f.rx_ooo_len > 0 =>
       \E st \in GotOf(f, o) + 1 .. w : OooAt(f, buf, i, o, w, st)

\* data are the bytes from byte x of the stream on
BytesFrom(data, x) == data \in Seq(Nat) /\ \A k \in 1 .. Len(data) : data[k] = x + k - 1

\* segment p carries the bytes from byte x on of a stream that starts at i, has w
\* bytes and is closed or not
SegAt(p, i, w, closed, x) ==
  /\ p.seg.seq = SeqAdd(i, x)
  /\ x + p.seg.len + One(p.seg.fin) <= w + One(closed)
  /\ p.seg.len > 0 => x + p.seg.len <= w
  /\ p.seg.fin => closed /\ x + p.seg.len = w
  /\ Len(p.data) = p.seg.len /\ BytesFrom(p.data, x)

-----------------------------------------------------------------------------
\* flow_rx_write puts bytes where Holds expects them, across the end of the buffer
\* too, and leaves the other bytes within a buffer length of them in place
LEMMA WriteHolds ==
  ASSUME NEW buf \in [0 .. RxLen - 1 -> Nat], NEW a \in Nat, NEW data \in Seq(Nat),
         Len(data) <= RxLen, \A k \in 1 .. Len(data) : data[k] = a + k - 1,
         NEW res, res = flow_rx_write(buf, a % RxLen, data)
  PROVE  /\ res \in [0 .. RxLen - 1 -> Nat]
         /\ Holds(res, a, a + Len(data))
         /\ \A c, d \in Nat :
              /\ Holds(buf, c, d)
              /\ \/ c + RxLen >= a + Len(data) /\ d <= a
                 \/ c >= a + Len(data) /\ d <= a + RxLen
              => Holds(res, c, d)
<1> DEFINE n == Len(data)
           at(j) == (((j + RxLen) - (a % RxLen)) % RxLen) + 1
<1>0. RxLen \in Nat \ {0} /\ n \in Nat /\ n <= RxLen
  BY FlowAssumption
<1>1. a % RxLen \in 0 .. RxLen - 1 /\ \A k \in Nat : k % RxLen \in 0 .. RxLen - 1
  BY Zenon, <1>0, ModDef
<1>2. res = [j \in 0 .. RxLen - 1 |-> IF at(j) <= n THEN data[at(j)] ELSE buf[j]]
  BY DEF flow_rx_write
<1>3. \A j \in 0 .. RxLen - 1 : at(j) \in 1 .. RxLen
  <2> TAKE j \in 0 .. RxLen - 1
  <2>1. (j + RxLen) - (a % RxLen) \in Nat
    <3>1. \A r \in 0 .. RxLen - 1 : (j + RxLen) - r \in Nat
      BY <1>0
    <3> QED
      BY Zenon, <1>1, <3>1
  <2>2. ((j + RxLen) - (a % RxLen)) % RxLen \in 0 .. RxLen - 1
    BY Zenon, <1>0, <2>1, ModDef
  <2> QED
    BY <1>0, <2>2
<1>4. res \in [0 .. RxLen - 1 -> Nat]
  <2> HIDE DEF at
  <2>1. ASSUME NEW j \in 0 .. RxLen - 1
        PROVE  (IF at(j) <= n THEN data[at(j)] ELSE buf[j]) \in Nat
    BY SMTT(60), <1>0, <1>3
  <2> QED
    BY <1>2, <2>1
<1>5. \A k \in Nat : k - a \in 0 .. RxLen - 1 => at(k % RxLen) = (k - a) + 1
  BY Zenon, <1>0, ModDist
<1>6. \A k \in Nat : a - k \in 1 .. RxLen => at(k % RxLen) = (RxLen - (a - k)) + 1
  BY Zenon, <1>0, ModDist
<1>7. \A k \in Nat : res[k % RxLen] = IF at(k % RxLen) <= n THEN data[at(k % RxLen)]
                                      ELSE buf[k % RxLen]
  <2> HIDE DEF at
  <2> QED
    BY Zenon, <1>1, <1>2
<1> HIDE DEF n, at
<1>8. Holds(res, a, a + n)
  <2> SUFFICES ASSUME NEW k \in a .. (a + n) - 1 PROVE res[k % RxLen] = k
    BY DEF Holds
  <2>1. k \in Nat /\ k - a \in 0 .. RxLen - 1 /\ (k - a) + 1 \in 1 .. n
    BY <1>0
  <2>2. res[k % RxLen] = data[(k - a) + 1]
    BY <1>5, <1>7, <2>1
  <2>3. data[(k - a) + 1] = a + ((k - a) + 1) - 1
    BY SMTT(60), <2>1 DEF n
  <2> QED
    BY <2>1, <2>2, <2>3
<1>9. ASSUME NEW c \in Nat, NEW d \in Nat, Holds(buf, c, d),
             \/ c + RxLen >= a + n /\ d <= a
             \/ c >= a + n /\ d <= a + RxLen
      PROVE  Holds(res, c, d)
  <2> SUFFICES ASSUME NEW k \in c .. d - 1 PROVE res[k % RxLen] = k
    BY DEF Holds
  <2>1. k \in Nat /\ buf[k % RxLen] = k
    BY <1>9 DEF Holds
  <2>2. at(k % RxLen) \in Int /\ at(k % RxLen) > n
    <3>1. CASE k >= a
      <4>1. k - a \in 0 .. RxLen - 1 /\ (k - a) + 1 > n
        BY SMTT(60), <1>0, <1>9, <2>1, <3>1
      <4>2. at(k % RxLen) = (k - a) + 1
        BY <1>5, <2>1, <4>1
      <4> QED
        BY <2>1, <4>1, <4>2
    <3>2. CASE k < a
      <4>1. a - k \in 1 .. RxLen /\ (RxLen - (a - k)) + 1 > n
        BY SMTT(60), <1>0, <1>9, <2>1, <3>2
      <4>2. at(k % RxLen) = (RxLen - (a - k)) + 1
        BY <1>6, <2>1, <4>1
      <4> QED
        BY SMTT(60), <1>0, <2>1, <4>1, <4>2
    <3> QED
      BY <2>1, <3>1, <3>2
  <2>3. ~ (at(k % RxLen) <= n)
    BY <1>0, <2>2
  <2> QED
    BY Zenon, <1>7, <2>1, <2>3
<1> QED
  BY <1>4, <1>8, <1>9 DEF n
-----------------------------------------------------------------------------
\* the packet of n bytes at seq starts d bytes before, or after, the window
Behind(s, seq, n, d) ==
  /\ s.rx_next_seq \in SeqNum /\ s.rx_avail \in Nat /\ seq \in SeqNum
  /\ n \in Nat /\ d \in Nat /\ s.rx_avail + n < SeqMod
  /\ SeqAdd(seq, d) = s.rx_next_seq /\ d + s.rx_avail < SeqMod

\* the packet starts d bytes into the window, or beyond it
Ahead(s, seq, n, d) ==
  /\ s.rx_next_seq \in SeqNum /\ s.rx_avail \in Nat /\ seq \in SeqNum
  /\ n \in Nat /\ d \in Nat /\ s.rx_avail + n < SeqMod
  /\ SeqAdd(s.rx_next_seq, d) = seq /\ d > 0 /\ d + n < SeqMod
  /\ ~ Overrun(s, seq, n)

\* the answer of tcp_trim_rxbuf, with a window of av bytes
CutBehind(t, n, d, av) ==
  /\ t.drop <=> n < d
  /\ ~ t.drop => /\ t.trim_start = d
                 /\ t.trim_end = IF n > d + av THEN n - (d + av) ELSE 0

\* TrimExact for a packet that starts before the window
LEMMA TrimBehind ==
  ASSUME NEW s, NEW seq, NEW n, NEW d, Behind(s, seq, n, d)
  PROVE  CutBehind(tcp_trim_rxbuf(s, seq, n), n, d, s.rx_avail)
  BY TrimExact DEF Behind, CutBehind

\* TrimExact for a packet that starts after the next byte
LEMMA TrimAhead ==
  ASSUME NEW s, NEW seq, NEW n, NEW d, Ahead(s, seq, n, d)
  PROVE  /\ tcp_trim_rxbuf(s, seq, n).drop <=> d > s.rx_avail
         /\ ~ tcp_trim_rxbuf(s, seq, n).drop =>
              /\ tcp_trim_rxbuf(s, seq, n).trim_start = 0
              /\ tcp_trim_rxbuf(s, seq, n).trim_end =
                   IF d + n > s.rx_avail THEN (d + n) - s.rx_avail ELSE 0
  BY SMTT(60), TrimExact DEF Ahead

\* a packet of the bytes x .. x + n - 1 of a stream that starts at i meets the
\* window of av bytes from byte r on
Meets(s, i, x, n, r, av) ==
  /\ i \in SeqNum /\ x \in Nat /\ n \in Nat /\ r \in Nat /\ av \in Nat
  /\ s.rx_avail = av /\ s.rx_next_seq = SeqAdd(i, r)
  /\ av + n < SeqMod /\ r + av < SeqMod /\ x + n < SeqMod
  /\ ~ Overrun(s, SeqAdd(i, x), n)

\* the part b .. e - 1 of the stream is kept
From(x, r) == IF x <= r THEN r ELSE x
\* the end of the part that is kept
To(x, n, r, av) == Min2(x + n, r + av)

\* t is the answer of tcp_trim_rxbuf to such a packet
TrimIs(t, s, i, x, n, r, av) ==
  /\ t.drop \in BOOLEAN
  /\ t.drop <=> x + n < r \/ x > r + av
  /\ ~ t.drop => /\ From(x, r) <= To(x, n, r, av)
                 /\ t.trim_start = From(x, r) - x
                 /\ t.trim_end = (x + n) - To(x, n, r, av)
                 /\ SeqAdd(SeqAdd(i, x), t.trim_start) = SeqAdd(i, From(x, r))
                 /\ SeqAdd(i, From(x, r)) = s.rx_next_seq <=> x <= r

\* what tcp_trim_rxbuf leaves, in bytes of the stream
LEMMA TrimMeets ==
  ASSUME NEW s, NEW i, NEW x, NEW n, NEW r, NEW av, Meets(s, i, x, n, r, av)
  PROVE  TrimIs(tcp_trim_rxbuf(s, SeqAdd(i, x), n), s, i, x, n, r, av)
<1>0. PICK t : t = tcp_trim_rxbuf(s, SeqAdd(i, x), n)
  OBVIOUS
<1>1. /\ i \in SeqNum /\ x \in Nat /\ n \in Nat /\ r \in Nat /\ av \in Nat
      /\ s.rx_avail = av /\ s.rx_next_seq = SeqAdd(i, r)
      /\ av + n < SeqMod /\ r + av < SeqMod /\ x + n < SeqMod
      /\ ~ Overrun(s, SeqAdd(i, x), n)
  BY DEF Meets
<1>2. x < SeqMod /\ r < SeqMod
  BY <1>1, SeqModAssumption
<1>3. SeqAdd(i, r) \in SeqNum /\ SeqAdd(i, x) \in SeqNum
  BY SMTT(60), <1>1, <1>2, SeqModAssumption DEF SeqAdd, SeqNum
<1>4. t.drop \in BOOLEAN
  BY Zenon, <1>0 DEF tcp_trim_rxbuf
<1> SUFFICES TrimIs(t, s, i, x, n, r, av)
  BY Zenon, <1>0
<1> USE DEF TrimIs
<1>5. CASE x <= r
  <2>1. Behind(s, SeqAdd(i, x), n, r - x)
    <3>1. SeqAdd(SeqAdd(i, x), r - x) = SeqAdd(i, r)
      BY SMTT(60), <1>1, <1>2, <1>5, SeqModAssumption DEF SeqAdd, SeqNum
    <3>2. r - x \in Nat /\ (r - x) + av < SeqMod
      BY <1>1, <1>5, SeqModAssumption
    <3> QED
      BY Zenon, <1>1, <1>3, <3>1, <3>2 DEF Behind
  <2>2. /\ t.drop <=> n < r - x
        /\ ~ t.drop => /\ t.trim_start = r - x
                       /\ t.trim_end = IF n > (r - x) + av
                                         THEN n - ((r - x) + av) ELSE 0
    <3>1. CutBehind(t, n, r - x, av)
      BY Zenon, <1>0, <1>1, <2>1, TrimBehind
    <3> QED
      BY Zenon, <3>1 DEF CutBehind
  <2>3. From(x, r) = r
    BY Zenon, <1>5 DEF From
  <2>4. ~ t.drop => r <= To(x, n, r, av) /\ t.trim_end = (x + n) - To(x, n, r, av)
    BY <1>1, <1>5, <2>2 DEF To, Min2
  <2>5. t.drop <=> x + n < r \/ x > r + av
    BY <1>1, <1>5, <2>2
  <2>6. SeqAdd(SeqAdd(i, x), r - x) = SeqAdd(i, r)
    BY <1>1, <1>2, <1>5, SeqModAssumption DEF SeqAdd, SeqNum
  <2> QED
    BY Zenon, <1>1, <1>4, <1>5, <2>2, <2>3, <2>4, <2>5, <2>6
<1>6. CASE x > r
  <2>1. Ahead(s, SeqAdd(i, x), n, x - r)
    <3>1. SeqAdd(SeqAdd(i, r), x - r) = SeqAdd(i, x)
      BY <1>1, <1>2, <1>6, SeqModAssumption DEF SeqAdd, SeqNum
    <3>2. x - r \in Nat /\ x - r > 0 /\ (x - r) + n < SeqMod
      BY <1>1, <1>6, SeqModAssumption
    <3> QED
      BY Zenon, <1>1, <1>3, <3>1, <3>2 DEF Ahead
  <2>2. /\ t.drop <=> x - r > av
        /\ ~ t.drop => /\ t.trim_start = 0
                       /\ t.trim_end = IF (x - r) + n > av
                                         THEN ((x - r) + n) - av ELSE 0
    <3>1. t.drop <=> x - r > s.rx_avail
      BY Zenon, <1>0, <2>1, TrimAhead
    <3>2. ~ t.drop => /\ t.trim_start = 0
                      /\ t.trim_end = IF (x - r) + n > s.rx_avail
                                        THEN ((x - r) + n) - s.rx_avail ELSE 0
      BY Zenon, <1>0, <2>1, TrimAhead
    <3> QED
      BY Zenon, <1>1, <3>1, <3>2
  <2>3. From(x, r) = x /\ x - x = 0 /\ ~ (x <= r)
    BY <1>1, <1>6 DEF From
  <2>4. ~ t.drop => x <= To(x, n, r, av) /\ t.trim_end = (x + n) - To(x, n, r, av)
    BY <1>1, <1>6, <2>2 DEF To, Min2
  <2>5. t.drop <=> x + n < r \/ x > r + av
    BY <1>1, <1>6, <2>2
  <2>6. SeqAdd(SeqAdd(i, x), 0) = SeqAdd(i, x)
    BY <1>3, SeqModAssumption DEF SeqAdd, SeqNum
  <2>7. SeqAdd(i, x) # SeqAdd(i, r)
    BY <1>1, <1>2, <1>6, SeqModAssumption DEF SeqAdd, SeqNum
  <2> QED
    BY Zenon, <1>1, <1>4, <2>2, <2>3, <2>4, <2>5, <2>6, <2>7
<1> QED
  BY <1>1, <1>5, <1>6

\* the part that is kept lies in the packet and in the window
LEMMA CutRange ==
  ASSUME NEW x \in Nat, NEW n \in Nat, NEW r \in Nat, NEW av \in Nat
  PROVE  /\ From(x, r) \in Nat /\ x <= From(x, r) /\ r <= From(x, r)
         /\ To(x, n, r, av) \in Nat /\ To(x, n, r, av) <= x + n
         /\ To(x, n, r, av) <= r + av
  BY DEF From, To, Min2

\* data are the bytes from byte b to byte e of the stream
BytesAre(data, b, e) == BytesFrom(data, b) /\ Len(data) = e - b

\* a part of the payload is a part of the stream
LEMMA CutData ==
  ASSUME NEW data, NEW x \in Nat, BytesFrom(data, x),
         NEW b \in Nat, NEW e \in Nat, x <= b, b <= e, e <= x + Len(data)
  PROVE  BytesAre(SubSeq(data, (b - x) + 1, e - x), b, e)
<1>0. data \in Seq(Nat) /\ \A k \in 1 .. Len(data) : data[k] = x + k - 1
  BY DEF BytesFrom
<1>1. PICK u \in Nat, v \in Nat, n \in Nat, m \in Nat :
        u = (b - x) + 1 /\ v = e - x /\ n = Len(data) /\ m = e - b
  <2>1. (b - x) + 1 \in Nat /\ e - x \in Nat /\ Len(data) \in Nat /\ e - b \in Nat
    BY <1>0
  <2> QED
    BY Zenon, <2>1
<1>2. u \in 1 .. n + 1 /\ v \in 0 .. n /\ (v - u) + 1 = m /\ x + u - 1 = b
  BY <1>1
<1>3. PICK sub : sub = SubSeq(data, u, v)
  BY Zenon
<1>4. sub \in Seq(Nat) /\ Len(sub) = m
  BY SMTT(60), <1>0, <1>1, <1>2, <1>3
<1>5. \A k \in 1 .. m : sub[k] = data[u + k - 1] /\ u + k - 1 \in 1 .. n
  BY SMTT(60), <1>0, <1>1, <1>2, <1>3
<1>6. \A k \in 1 .. m : data[u + k - 1] = x + (u + k - 1) - 1
  BY Zenon, <1>0, <1>1, <1>5
<1>7. \A k \in 1 .. m : x + (u + k - 1) - 1 = b + k - 1
  BY <1>1, <1>2
<1>8. BytesFrom(sub, b)
  BY Zenon, <1>4, <1>5, <1>6, <1>7 DEF BytesFrom
<1> QED
  BY Zenon, <1>1, <1>3, <1>4, <1>8 DEF BytesAre
-----------------------------------------------------------------------------
\* a stream that starts at sequence number i, of which w bytes are written so
\* far and o are read, and that is closed or not
Ctx(i, o, w, closed) ==
  /\ i \in SeqNum /\ o \in Nat /\ w \in Nat /\ closed \in BOOLEAN
  /\ w + 1 + RxLen < SeqMod

\* flow f, buffer and stream as RxBytes wants them
RxBase(f, buf, i, o, w, closed) ==
  /\ f \in FlowState /\ Ctx(i, o, w, closed) /\ RxBytes(f, buf, i, o, w, closed)

\* the ranges of the receive side: what arrived, the window, the end
LEMMA RxRanges ==
  ASSUME NEW f \in FlowState, NEW buf, NEW i, NEW o, NEW w, NEW closed,
         Ctx(i, o, w, closed), RxBytes(f, buf, i, o, w, closed)
  PROVE  /\ f.rx_avail \in Nat /\ f.rx_avail <= RxLen
         /\ GotOf(f, o) \in Nat /\ GotOf(f, o) <= w /\ o <= GotOf(f, o)
         /\ GotOf(f, o) + f.rx_avail = o + RxLen
         /\ NextOf(f, o) \in Nat /\ NextOf(f, o) + f.rx_avail < SeqMod
         /\ f.rxfin \in BOOLEAN
         /\ ~ f.rxfin => NextOf(f, o) = GotOf(f, o)
         /\ f.rxfin => closed /\ NextOf(f, o) = w + 1
<1>1. f.rx_avail \in 0 .. RxLen /\ f.rxfin \in BOOLEAN
  BY DEF FlowState
<1>2. o \in Nat /\ w \in Nat /\ w + 1 + RxLen < SeqMod
  BY DEF Ctx
<1>3. /\ GotOf(f, o) <= w /\ (f.rxfin => closed /\ GotOf(f, o) = w)
      /\ GotOf(f, o) = o + (RxLen - f.rx_avail)
      /\ NextOf(f, o) = GotOf(f, o) + IF f.rxfin THEN 1 ELSE 0
  BY DEF RxBytes, GotOf, NextOf, One
<1> QED
  BY <1>1, <1>2, <1>3, FlowAssumption, SeqModAssumption

\* the ranges of a segment
LEMMA SegRanges ==
  ASSUME NEW p, p.seg \in Segment, NEW i, NEW w \in Nat, NEW closed \in BOOLEAN,
         NEW x \in Nat, SegAt(p, i, w, closed, x)
  PROVE  /\ p.seg.len \in Nat /\ p.seg.len <= Mss /\ x + p.seg.len <= w + 1
         /\ p.seg.len > 0 => x + p.seg.len <= w
         /\ p.seg.fin => closed /\ x + p.seg.len = w
         /\ ~ closed => x + p.seg.len <= w
<1>1. p.seg.len \in 0 .. Mss /\ p.seg.fin \in BOOLEAN
  BY DEF Segment
<1>2. /\ x + p.seg.len + (IF p.seg.fin THEN 1 ELSE 0) <= w + (IF closed THEN 1 ELSE 0)
      /\ p.seg.len > 0 => x + p.seg.len <= w
      /\ p.seg.fin => closed /\ x + p.seg.len = w
  BY DEF SegAt, One
<1> QED
  BY SMTT(60), <1>1, <1>2, FlowAssumption

\* segment p has the n bytes from byte x of a stream that starts at i on
SegIs(p, i, x, n) ==
  /\ p.seg.seq = SeqAdd(i, x) /\ p.seg.len = n
  /\ Len(p.data) = n /\ BytesFrom(p.data, x)

\* what is left of segment p is the part from b to e of the stream
Leaves(f, p, i, b, e) ==
  /\ b <= e /\ First(f, p.seg) = SeqAdd(i, b) /\ Bytes(f, p.seg) = e - b
  /\ BytesAre(Payload(f, p), b, e)

\* how fast_flows_packet classifies a segment and what it keeps of it
LEMMA TrimSeg ==
  ASSUME NEW f, NEW p, NEW i, NEW x, NEW n, NEW r, NEW av,
         Meets(f, i, x, n, r, av), SegIs(p, i, x, n)
  PROVE  /\ Outside(f, p.seg) <=> x + n < r \/ x > r + av
         /\ InOrder(f, p.seg) <=> ~ Outside(f, p.seg) /\ x <= r
         /\ ~ Outside(f, p.seg) => Leaves(f, p, i, From(x, r), To(x, n, r, av))
<1>1. PICK t : t = tcp_trim_rxbuf(f, SeqAdd(i, x), n)
  OBVIOUS
<1>2. /\ t.drop \in BOOLEAN
      /\ t.drop <=> x + n < r \/ x > r + av
      /\ ~ t.drop => /\ From(x, r) <= To(x, n, r, av)
                     /\ t.trim_start = From(x, r) - x
                     /\ t.trim_end = (x + n) - To(x, n, r, av)
                     /\ SeqAdd(SeqAdd(i, x), t.trim_start) = SeqAdd(i, From(x, r))
                     /\ SeqAdd(i, From(x, r)) = f.rx_next_seq <=> x <= r
  <2>1. TrimIs(t, f, i, x, n, r, av)
    BY Zenon, <1>1, TrimMeets
  <2> QED
    BY Zenon, <2>1 DEF TrimIs
<1>3. /\ Outside(f, p.seg) <=> t.drop
      /\ First(f, p.seg) = SeqAdd(SeqAdd(i, x), t.trim_start)
      /\ Bytes(f, p.seg) = n - (t.trim_start + t.trim_end)
      /\ InOrder(f, p.seg) <=> ~ t.drop /\ First(f, p.seg) = f.rx_next_seq
      /\ Payload(f, p) = SubSeq(p.data, t.trim_start + 1, n - t.trim_end)
  BY <1>1 DEF SegIs, Outside, First, Bytes, InOrder, Payload
<1>4. ASSUME ~ t.drop PROVE Leaves(f, p, i, From(x, r), To(x, n, r, av))
  <2>1. x \in Nat /\ n \in Nat /\ r \in Nat /\ av \in Nat
    BY Zenon DEF Meets
  <2>2. PICK b \in Nat, e \in Nat : /\ b = From(x, r) /\ e = To(x, n, r, av)
                                    /\ x <= b /\ e <= x + n
    BY Zenon, <2>1, CutRange
  <2>3. b <= e /\ t.trim_start = b - x /\ t.trim_end = (x + n) - e
    BY Zenon, <1>2, <1>4, <2>2
  <2>4. /\ n - ((b - x) + ((x + n) - e)) = e - b /\ n - ((x + n) - e) = e - x
    BY <2>1
  <2>5. Bytes(f, p.seg) = e - b
    BY Zenon, <1>3, <2>3, <2>4
  <2>6. Payload(f, p) = SubSeq(p.data, (b - x) + 1, e - x)
    BY Zenon, <1>3, <2>3, <2>4
  <2>7. BytesFrom(p.data, x) /\ e <= x + Len(p.data)
    BY Zenon, <2>2 DEF SegIs
  <2>8. BytesAre(SubSeq(p.data, (b - x) + 1, e - x), b, e)
    BY Zenon, <2>1, <2>2, <2>3, <2>7, CutData
  <2>9. First(f, p.seg) = SeqAdd(i, b)
    BY Zenon, <1>2, <1>3, <1>4, <2>2
  <2>10. Leaves(f, p, i, b, e)
    BY Zenon, <2>3, <2>5, <2>6, <2>8, <2>9 DEF Leaves
  <2> QED
    BY Zenon, <2>2, <2>10
<1> QED
  BY Zenon, <1>2, <1>3, <1>4

\* the receive side and a segment under way meet these conditions
LEMMA TrimAt ==
  ASSUME NEW f \in FlowState, NEW buf, NEW i, NEW o, NEW w, NEW closed,
         Ctx(i, o, w, closed), RxBytes(f, buf, i, o, w, closed),
         NEW p, p.seg \in Segment, NEW x \in Nat, SegAt(p, i, w, closed, x),
         ~ Overrun(f, p.seg.seq, p.seg.len)
  PROVE  /\ Meets(f, i, x, p.seg.len, NextOf(f, o), f.rx_avail)
         /\ SegIs(p, i, x, p.seg.len)
<1>0. /\ i \in SeqNum /\ o \in Nat /\ w \in Nat /\ closed \in BOOLEAN
      /\ w + 1 + RxLen < SeqMod
  BY DEF Ctx
<1>1. /\ NextOf(f, o) \in Nat /\ f.rx_avail \in Nat
      /\ f.rx_avail <= RxLen /\ NextOf(f, o) + f.rx_avail < SeqMod
  BY SMTT(60), RxRanges
<1>2. p.seg.len \in Nat /\ p.seg.len <= Mss /\ x + p.seg.len <= w + 1
  BY SMTT(60), <1>0, SegRanges
<1>3. f.rx_avail + p.seg.len < SeqMod /\ x + p.seg.len < SeqMod
  BY SMTT(60), <1>0, <1>1, <1>2, FlowAssumption, SeqModAssumption
<1>4. /\ p.seg.seq = SeqAdd(i, x) /\ f.rx_next_seq = SeqAdd(i, NextOf(f, o))
      /\ Len(p.data) = p.seg.len /\ BytesFrom(p.data, x)
  BY Zenon DEF SegAt, RxBytes
<1> QED
  BY Zenon, <1>0, <1>1, <1>2, <1>3, <1>4 DEF Meets, SegIs
-----------------------------------------------------------------------------
\* the next n bytes are in the buffer, and a flow g that has taken them
CanAdvance(f, buf, o, w, n) ==
  /\ ~ f.rxfin /\ n \in Nat /\ n <= f.rx_avail /\ GotOf(f, o) + n <= w
  /\ Holds(buf, o, GotOf(f, o) + n)
\* g has taken n bytes more than f
Advanced(g, f, o, n) ==
  /\ GotOf(g, o) = GotOf(f, o) + n /\ g.rxfin = f.rxfin
  /\ g.rx_ooo_start = f.rx_ooo_start /\ g.rx_ooo_len = f.rx_ooo_len

\* taking bytes that are in the buffer keeps the receive side
LEMMA AdvanceBytes ==
  ASSUME NEW f, NEW buf, NEW i, NEW o, NEW w, NEW closed, NEW n,
         RxBase(f, buf, i, o, w, closed), CanAdvance(f, buf, o, w, n)
  PROVE  /\ RxBytes(RxAdvance(f, n), buf, i, o, w, closed)
         /\ Advanced(RxAdvance(f, n), f, o, n)
<1>0. /\ f \in FlowState /\ Ctx(i, o, w, closed) /\ RxBytes(f, buf, i, o, w, closed)
      /\ ~ f.rxfin /\ n \in Nat /\ n <= f.rx_avail /\ GotOf(f, o) + n <= w
      /\ Holds(buf, o, GotOf(f, o) + n)
  BY Zenon DEF RxBase, CanAdvance
<1>g. PICK g : g = RxAdvance(f, n)
  OBVIOUS
<1>1. /\ i \in SeqNum /\ o \in Nat /\ w \in Nat /\ w + 1 + RxLen < SeqMod
  BY <1>0 DEF Ctx
<1>2. PICK a \in Nat, got \in Nat : /\ a = f.rx_avail /\ got = GotOf(f, o)
                                    /\ a <= RxLen /\ got + a = o + RxLen
                                    /\ NextOf(f, o) = got /\ got <= w
  BY <1>0, RxRanges
<1>3. /\ g.rx_avail = a - n /\ g.rx_next_seq = SeqAdd(f.rx_next_seq, n)
      /\ g.rx_next_pos = Wrap(f.rx_next_pos + n, RxLen) /\ g.rxfin = f.rxfin
      /\ g.rx_ooo_start = f.rx_ooo_start /\ g.rx_ooo_len = f.rx_ooo_len
  BY SMTT(60), <1>0, <1>2, <1>g DEF RxAdvance, FlowState
<1>4. GotOf(g, o) = got + n
  <2>1. GotOf(f, o) = o + (RxLen - a) /\ GotOf(g, o) = o + (RxLen - (a - n))
    BY Zenon, <1>2, <1>3 DEF GotOf
  <2> QED
    BY SMTT(60), <1>0, <1>1, <1>2, <2>1, FlowAssumption
<1>5. NextOf(g, o) = got + n
  <2>1. NextOf(g, o) = (got + n) + 0
    BY Zenon, <1>0, <1>3, <1>4 DEF NextOf, One
  <2> QED
    BY SMTT(60), <1>0, <1>2, <2>1
<1>6. g.rx_next_seq = SeqAdd(i, got + n)
  <2>1. f.rx_next_seq = SeqAdd(i, got)
    BY Zenon, <1>0, <1>2 DEF RxBytes
  <2>2. SeqAdd(SeqAdd(i, got), n) = SeqAdd(i, got + n)
    BY SMTT(60), <1>0, <1>1, <1>2, FlowAssumption, SeqModAssumption DEF SeqAdd, SeqNum
  <2> QED
    BY Zenon, <1>3, <2>1, <2>2
<1>7. g.rx_next_pos = (got + n) % RxLen
  <2>1. f.rx_next_pos = got % RxLen
    BY Zenon, <1>0, <1>2 DEF RxBytes
  <2>2. n \in 0 .. RxLen /\ RxLen \in Nat \ {0}
    BY SMTT(60), <1>0, <1>2, FlowAssumption
  <2> QED
    BY Zenon, <1>2, <1>3, <2>1, <2>2, ModAdd
<1> QED
  BY Zenon, <1>0, <1>2, <1>3, <1>4, <1>5, <1>6, <1>7, <1>g DEF RxBytes, Advanced
-----------------------------------------------------------------------------
\* the flag, as a number
LEMMA OneIs == \A b : One(b) \in 0 .. 1
  BY DEF One

\* the types of two fields of a segment
LEMMA SegFields == \A g \in Segment : g.len \in Nat /\ g.fin \in BOOLEAN
  BY FlowAssumption DEF Segment

\* and of one of a flow
LEMMA FlowField == \A f \in FlowState : f.rx_avail \in Nat
  BY FlowAssumption DEF FlowState

\* g receives where f does
RxKeeps(g, f) ==
  /\ g.rx_avail = f.rx_avail /\ g.rx_next_seq = f.rx_next_seq
  /\ g.rx_next_pos = f.rx_next_pos /\ g.rxfin = f.rxfin

\* the in-order part depends only on where the flow receives
LEMMA BytesFrame ==
  ASSUME NEW f, NEW g, NEW buf, NEW i, NEW o, NEW w, NEW closed,
         RxBytes(f, buf, i, o, w, closed), RxKeeps(g, f),
         ~ f.rxfin \/ g.rx_ooo_len = f.rx_ooo_len
  PROVE  RxBytes(g, buf, i, o, w, closed)
<1>1. GotOf(g, o) = GotOf(f, o) /\ NextOf(g, o) = NextOf(f, o)
  BY Zenon DEF RxKeeps, GotOf, NextOf
<1> QED
  BY Zenon, <1>1 DEF RxBytes, RxKeeps

\* the out-of-order interval, as if it were a packet that arrives now
LEMMA OooMeets ==
  ASSUME NEW f, NEW buf, NEW i, NEW o, NEW w, NEW closed, NEW st \in Nat,
         RxBase(f, buf, i, o, w, closed), ~ f.rxfin, OooAt(f, buf, i, o, w, st)
  PROVE  Meets(f, i, st, f.rx_ooo_len, GotOf(f, o), f.rx_avail)
<1>1. f \in FlowState /\ Ctx(i, o, w, closed) /\ RxBytes(f, buf, i, o, w, closed)
  BY DEF RxBase
<1>2. i \in SeqNum /\ o \in Nat /\ w \in Nat /\ w + 1 + RxLen < SeqMod
  BY SMTT(60), <1>1 DEF Ctx
<1>3. PICK r \in Nat, av \in Nat, n \in Nat :
        /\ r = GotOf(f, o) /\ av = f.rx_avail /\ n = f.rx_ooo_len
        /\ av <= RxLen /\ n <= WndMax /\ r <= w /\ r + av = o + RxLen
        /\ NextOf(f, o) = r
  <2>1. f.rx_ooo_len \in Nat /\ f.rx_ooo_len <= WndMax
    BY <1>1, FlowAssumption DEF FlowState
  <2> QED
    BY SMTT(60), <1>1, <2>1, RxRanges
<1>4. /\ f.rx_ooo_start = SeqAdd(i, st) /\ st + n <= r + av /\ st + n <= w
      /\ f.rx_next_seq = SeqAdd(i, r)
  BY Zenon, <1>1, <1>3 DEF OooAt, RxBytes
<1>5. av + n < SeqMod /\ r + av < SeqMod /\ st + n < SeqMod
  <2>1. r + av < SeqMod
    BY SMTT(60), <1>1, <1>3, RxRanges
  <2> QED
    BY SMTT(60), <1>2, <1>3, <1>4, <2>1, FlowAssumption, SeqModAssumption
<1>6. ~ Overrun(f, SeqAdd(i, st), n)
  <2>1. ~ (/\ SeqAdd(i, r) < SeqAdd(i, st) /\ SeqAdd(i, st) <= SeqAdd(i, r) + av
           /\ SeqAdd(i, r) + av < SeqMod /\ SeqAdd(i, st) + n >= SeqMod)
    BY SMTT(60), <1>2, <1>3, <1>4, <1>5, SeqModAssumption DEF SeqAdd, SeqNum
  <2> QED
    BY Zenon, <1>3, <1>4, <2>1 DEF Overrun
<1> QED
  BY Zenon, <1>2, <1>3, <1>4, <1>5, <1>6 DEF Meets

\* what delivering bytes must establish
Delivers(g, f, buf, i, o, w, closed) ==
  /\ RxStream(g, buf, i, o, w, closed)
  /\ ~ g.rxfin /\ GotOf(g, o) \in Nat /\ GotOf(f, o) <= GotOf(g, o)

\* the out-of-order interval is delivered when the gap is closed, dropped when it
\* has been overtaken, and kept otherwise
LEMMA MergeStream ==
  ASSUME NEW f, NEW buf, NEW i, NEW o, NEW w, NEW closed,
         RxBase(f, buf, i, o, w, closed), ~ f.rxfin,
         f.rx_ooo_len > 0 => \E st \in Nat : OooAt(f, buf, i, o, w, st)
  PROVE  Delivers(RxMergeOoo(f), f, buf, i, o, w, closed)
<1>1. f \in FlowState /\ Ctx(i, o, w, closed) /\ RxBytes(f, buf, i, o, w, closed)
  BY DEF RxBase
<1>2. o \in Nat /\ w \in Nat /\ i \in SeqNum
  BY SMTT(60), <1>1 DEF Ctx
<1>3. PICK r \in Nat, av \in Nat, n \in Nat :
        /\ r = GotOf(f, o) /\ av = f.rx_avail /\ n = f.rx_ooo_len
        /\ n <= WndMax /\ r <= w /\ r + av = o + RxLen /\ o <= r
        /\ r + av < SeqMod
  <2>1. f.rx_ooo_len \in Nat /\ f.rx_ooo_len <= WndMax
    BY SMTT(60), <1>1, FlowAssumption DEF FlowState
  <2> QED
    BY SMTT(60), <1>1, <2>1, RxRanges
<1>4. ASSUME NEW g, RxKeeps(g, f), g.rx_ooo_len = 0
      PROVE  Delivers(g, f, buf, i, o, w, closed)
  <2>1. RxBytes(g, buf, i, o, w, closed)
    BY Zenon, <1>1, <1>4, BytesFrame
  <2>2. GotOf(g, o) = r /\ ~ g.rxfin
    BY Zenon, <1>3, <1>4 DEF RxKeeps, GotOf
  <2>3. RxStream(g, buf, i, o, w, closed)
    BY <1>4, <2>1 DEF RxStream
  <2> QED
    BY SMTT(60), <1>3, <2>2, <2>3 DEF Delivers
<1>5. CASE n = 0
  <2>1. RxMergeOoo(f) = f
    BY <1>3, <1>5 DEF RxMergeOoo
  <2>2. RxKeeps(f, f)
    BY DEF RxKeeps
  <2> QED
    BY Zenon, <1>3, <1>4, <1>5, <2>1, <2>2
<1>6. CASE n > 0
  <2>1. PICK st \in Nat : OooAt(f, buf, i, o, w, st)
    BY <1>3, <1>6
  <2>2. PICK t : t = tcp_trim_rxbuf(f, SeqAdd(i, st), n)
    OBVIOUS
  <2>3. TrimIs(t, f, i, st, n, r, av)
    <3>1. Meets(f, i, st, n, r, av)
      BY Zenon, <1>3, <2>1, OooMeets
    <3> QED
      BY Zenon, <2>2, <3>1, TrimMeets
  <2>4. /\ f.rx_ooo_start = SeqAdd(i, st) /\ st + n <= r + av /\ st + n <= w
        /\ Holds(buf, st, st + n) /\ Holds(buf, o, r) /\ f.rx_next_seq = SeqAdd(i, r)
    <3>1. NextOf(f, o) = r
      BY SMTT(60), <1>1, <1>3, RxRanges
    <3> QED
      BY Zenon, <1>1, <1>3, <2>1, <3>1 DEF OooAt, RxBytes
  <2>5. Uint16(f.rx_ooo_len) = n
    BY SMTT(60), <1>3, FlowAssumption DEF Uint16
  <2> DEFINE rest == [f EXCEPT !.rx_ooo_start = SeqAdd(f.rx_ooo_start, t.trim_start),
                               !.rx_ooo_len = n - (t.trim_start + t.trim_end)]
  <2>6. RxMergeOoo(f) =
          IF t.drop THEN [f EXCEPT !.rx_ooo_len = 0]
          ELSE IF rest.rx_ooo_len > 0 /\ rest.rx_ooo_start = rest.rx_next_seq
            THEN [RxAdvance(rest, rest.rx_ooo_len) EXCEPT !.rx_ooo_len = 0]
            ELSE rest
    BY SMTT(60), <1>1, <1>3, <1>6, <2>2, <2>4, <2>5 DEF RxMergeOoo, FlowState
  <2>7. CASE t.drop
    <3>1. /\ RxKeeps([f EXCEPT !.rx_ooo_len = 0], f)
          /\ [f EXCEPT !.rx_ooo_len = 0].rx_ooo_len = 0
      BY <1>1 DEF FlowState, RxKeeps
    <3> QED
      BY Zenon, <1>4, <2>6, <2>7, <3>1
  <2>8. /\ rest.rx_ooo_start = SeqAdd(f.rx_ooo_start, t.trim_start)
        /\ rest.rx_ooo_len = n - (t.trim_start + t.trim_end)
        /\ RxKeeps(rest, f)
    BY <1>1 DEF FlowState, RxKeeps
  <2>9. RxBytes(rest, buf, i, o, w, closed) /\ GotOf(rest, o) = r
    <3>1. RxBytes(rest, buf, i, o, w, closed)
      BY Zenon, <1>1, <2>8, BytesFrame
    <3> QED
      BY Zenon, <1>3, <2>8, <3>1 DEF RxKeeps, GotOf
  <2>10. To(st, n, r, av) = st + n
    BY SMTT(60), <1>3, <2>4 DEF To, Min2
  <2>11. CASE ~ t.drop /\ st <= r
    <3>1. From(st, r) = r
      BY Zenon, <2>11 DEF From
    <3>2. /\ r <= st + n /\ t.trim_start = r - st
          /\ t.trim_end = (st + n) - (st + n)
          /\ SeqAdd(SeqAdd(i, st), t.trim_start) = SeqAdd(i, r)
      BY Zenon, <2>3, <2>10, <2>11, <3>1 DEF TrimIs
    <3>3. PICK m \in Nat : m = (st + n) - r
      BY <1>3, <3>2
    <3>4. n - (t.trim_start + t.trim_end) = m /\ r + m = st + n
      <4>1. n - ((r - st) + ((st + n) - (st + n))) = m /\ r + m = st + n
        BY <3>3
      <4> QED
        BY Zenon, <3>2, <4>1
    <3>5. rest.rx_ooo_len = m /\ rest.rx_ooo_start = rest.rx_next_seq
      BY Zenon, <2>4, <2>8, <3>2, <3>4 DEF RxKeeps
    <3>6. m <= WndMax
      BY SMTT(60), <1>3, <2>11, <3>3, FlowAssumption
    <3>7. rest \in FlowState
      <4>1. SeqAdd(f.rx_ooo_start, t.trim_start) \in SeqNum
        <5>1. f.rx_next_seq \in SeqNum
          BY <1>1 DEF FlowState
        <5> QED
          BY Zenon, <2>4, <3>2, <5>1
      <4>2. n - (t.trim_start + t.trim_end) \in 0 .. WndMax
        BY <3>4, <3>6, FlowAssumption
      <4> QED
        BY Zenon, <1>1, <4>1, <4>2, Upd
    <3> HIDE DEF rest
    <3>8. CASE m = 0
      <4>1. RxMergeOoo(f) = rest
        BY SMTT(60), <2>6, <2>11, <3>5, <3>8
      <4> QED
        BY Zenon, <1>4, <2>8, <3>5, <3>8, <4>1
    <3>9. CASE m > 0
      <4>1. PICK a : a = RxAdvance(rest, m)
        OBVIOUS
      <4>2. RxMergeOoo(f) = [a EXCEPT !.rx_ooo_len = 0]
        BY SMTT(60), <2>6, <2>11, <3>5, <3>9, <4>1
      <4>3. m <= rest.rx_avail /\ m \in 0 .. rest.rx_avail /\ r + m <= w
        <5>1. rest.rx_avail = av
          BY Zenon, <1>3, <2>8 DEF RxKeeps
        <5> QED
          BY SMTT(60), <1>3, <2>4, <3>4, <5>1
      <4>4. a \in FlowState
        BY Zenon, <3>7, <4>1, <4>3, AdvanceLemma
      <4>5. Holds(buf, o, r + m)
        BY SMTT(60), <1>2, <1>3, <2>4, <2>11, <3>4 DEF Holds
      <4>6. ~ rest.rxfin
        BY Zenon, <2>8 DEF RxKeeps
      <4>7. RxBytes(a, buf, i, o, w, closed) /\ GotOf(a, o) = r + m /\ a.rxfin = rest.rxfin
        <5>1. CanAdvance(rest, buf, o, w, m)
          BY Zenon, <2>9, <4>3, <4>5, <4>6 DEF CanAdvance
        <5>2. RxBase(rest, buf, i, o, w, closed)
          BY Zenon, <1>1, <2>9, <3>7 DEF RxBase
        <5>3. RxBytes(a, buf, i, o, w, closed) /\ Advanced(a, rest, o, m)
          BY Zenon, <4>1, <5>1, <5>2, AdvanceBytes
        <5> QED
          BY Zenon, <2>9, <5>3 DEF Advanced
      <4>8. PICK g : g = [a EXCEPT !.rx_ooo_len = 0]
        BY Zenon
      <4>9. RxKeeps(g, a) /\ g.rx_ooo_len = 0
        BY <4>4, <4>8 DEF FlowState, RxKeeps
      <4>10. RxBytes(g, buf, i, o, w, closed)
        BY Zenon, <4>6, <4>7, <4>9, BytesFrame
      <4>11. GotOf(g, o) = r + m /\ ~ g.rxfin
        BY Zenon, <4>6, <4>7, <4>9 DEF RxKeeps, GotOf
      <4>12. RxStream(g, buf, i, o, w, closed)
        BY <4>9, <4>10 DEF RxStream
      <4>13. Delivers(g, f, buf, i, o, w, closed)
        BY <1>3, <4>11, <4>12 DEF Delivers
      <4> QED
        BY Zenon, <4>2, <4>8, <4>13
    <3> QED
      BY <3>8, <3>9
  <2>12. CASE ~ t.drop /\ st > r
    <3>1. From(st, r) = st /\ st - st = 0 /\ (st + n) - (st + n) = 0 /\ ~ (st <= r)
      BY <1>3, <2>12 DEF From
    <3>2. /\ t.trim_start = 0 /\ t.trim_end = 0
          /\ SeqAdd(SeqAdd(i, st), t.trim_start) = SeqAdd(i, st)
          /\ SeqAdd(i, st) # f.rx_next_seq
      BY Zenon, <2>3, <2>10, <2>12, <3>1 DEF TrimIs
    <3>3. n - (0 + 0) = n
      BY <1>3
    <3>4. /\ rest.rx_ooo_len = n /\ rest.rx_ooo_start = SeqAdd(i, st)
          /\ rest.rx_ooo_start # rest.rx_next_seq
      BY Zenon, <2>4, <2>8, <3>2, <3>3 DEF RxKeeps
    <3>5. RxMergeOoo(f) = rest
      BY Zenon, <2>6, <2>12, <3>4
    <3> HIDE DEF rest
    <3>6. st \in r + 1 .. w
      BY SMTT(60), <1>2, <1>3, <1>6, <2>4, <2>12
    <3>7. OooAt(rest, buf, i, o, w, st)
      BY Zenon, <1>3, <2>4, <3>4 DEF OooAt
    <3>8. RxStream(rest, buf, i, o, w, closed)
      BY Zenon, <2>9, <3>6, <3>7 DEF RxStream
    <3>9. ~ rest.rxfin /\ r <= r
      <4>1. r <= r
        BY <1>3
      <4> QED
        BY Zenon, <2>8, <4>1 DEF RxKeeps
    <3> QED
      BY Zenon, <1>3, <2>9, <3>5, <3>8, <3>9 DEF Delivers
  <2> QED
    <3>1. st <= r \/ st > r
      BY <1>3
    <3> QED
      BY Zenon, <2>7, <2>11, <2>12, <3>1
<1> QED
  BY SMTT(60), <1>3, <1>5, <1>6
-----------------------------------------------------------------------------
\* res is buf after the bytes from a to e of the stream went to their place
Stored(res, buf, a, e) ==
  /\ res \in [0 .. RxLen - 1 -> Nat] /\ Holds(res, a, e)
  /\ \A c, d \in Nat : /\ Holds(buf, c, d)
                       /\ \/ c + RxLen >= e /\ d <= a
                          \/ c >= e /\ d <= a + RxLen
                       => Holds(res, c, d)

\* flow_rx_write stores a part of the stream
LEMMA StoreData ==
  ASSUME NEW buf \in [0 .. RxLen - 1 -> Nat], NEW a \in Nat, NEW e \in Nat,
         NEW data, BytesAre(data, a, e), e <= a + RxLen
  PROVE  Stored(flow_rx_write(buf, a % RxLen, data), buf, a, e)
<1>1. /\ data \in Seq(Nat) /\ \A k \in 1 .. Len(data) : data[k] = a + k - 1
      /\ Len(data) = e - a
  BY DEF BytesAre, BytesFrom
<1>2. Len(data) \in Nat
  BY <1>1
<1>3. Len(data) <= RxLen /\ a + Len(data) = e
  BY <1>1, <1>2, FlowAssumption
<1> QED
  BY Zenon, <1>1, <1>3, WriteHolds DEF Stored

\* storing bytes keeps what is held from them on, within the buffer
LEMMA StoreOver ==
  ASSUME NEW res, NEW buf, NEW a \in Nat, NEW e \in Nat, Stored(res, buf, a, e),
         NEW c \in Nat, NEW d \in Nat, Holds(buf, c, d), a <= c, d <= a + RxLen
  PROVE  Holds(res, c, d)
<1>1. Holds(buf, e, d) \/ e < c
  BY DEF Holds
<1>2. e < c => Holds(res, c, d)
  BY DEF Stored
<1>3. e >= c => Holds(res, e, d)
  BY <1>1 DEF Stored
<1>4. Holds(res, a, e)
  BY DEF Stored
<1>5. ASSUME e >= c PROVE Holds(res, c, d)
  BY SMTT(60), <1>3, <1>4, <1>5 DEF Holds
<1> QED
  BY <1>2, <1>5

\* the receive side of a flow after a step that may deliver bytes
Progress(g, f, buf, i, o, w, closed) ==
  /\ RxStream(g, buf, i, o, w, closed) /\ NextOf(f, o) <= NextOf(g, o)

\* a FIN is taken exactly when the whole stream has arrived
LEMMA FinStream ==
  ASSUME NEW f \in FlowState, NEW buf, NEW i, NEW o, NEW w, NEW closed,
         Ctx(i, o, w, closed), RxStream(f, buf, i, o, w, closed),
         NEW p, p.seg \in Segment, NEW x \in Nat, SegAt(p, i, w, closed, x)
  PROVE  Progress(RxFin(f, p.seg), f, buf, i, o, w, closed)
<1>0. i \in SeqNum /\ o \in Nat /\ w \in Nat /\ closed \in BOOLEAN /\ w + 1 + RxLen < SeqMod
  BY DEF Ctx
<1>1. RxBytes(f, buf, i, o, w, closed)
  BY DEF RxStream
<1>2. PICK r \in Nat : /\ r = GotOf(f, o) /\ r <= w
                       /\ (~ f.rxfin => NextOf(f, o) = r) /\ NextOf(f, o) \in Nat
  BY <1>1, RxRanges
<1>3. CASE ~ FinAccepted(f, p.seg)
  BY <1>2, <1>3 DEF RxFin, Progress
<1>4. CASE FinAccepted(f, p.seg)
  <2>1. /\ p.seg.fin /\ ~ f.rxfin /\ f.rx_ooo_len = 0
        /\ f.rx_next_seq = SeqAdd(p.seg.seq, p.seg.len)
    BY Zenon, <1>4 DEF FinAccepted
  <2>2. closed /\ x + p.seg.len = w /\ p.seg.len \in Nat
    BY SMTT(60), <1>0, <2>1, SegRanges
  <2>3. w < SeqMod /\ r < SeqMod /\ w + 1 < SeqMod
    BY <1>0, <1>2, FlowAssumption, SeqModAssumption
  <2>4. p.seg.seq = SeqAdd(i, x) /\ f.rx_next_seq = SeqAdd(i, r)
    BY Zenon, <1>1, <1>2, <2>1 DEF SegAt, RxBytes
  <2>5. f.rx_next_seq = SeqAdd(i, w)
    BY SMTT(60), <1>0, <2>1, <2>2, <2>3, <2>4, SeqFacts
  <2>6. r = w
    BY Zenon, <1>0, <2>3, <2>4, <2>5, SeqSame
  <2>7. SeqAdd(SeqAdd(i, w), 1) = SeqAdd(i, w + 1)
    BY SMTT(60), <1>0, <2>3, SeqFacts
  <2>8. PICK g : g = RxFin(f, p.seg)
    OBVIOUS
  <2>9. /\ g.rxfin /\ g.rx_next_seq = SeqAdd(f.rx_next_seq, 1) /\ g.rx_ooo_len = 0
        /\ g.rx_avail = f.rx_avail /\ g.rx_next_pos = f.rx_next_pos
    BY SMTT(60), <1>4, <2>1, <2>8 DEF RxFin, FlowState
  <2>10. GotOf(g, o) = w /\ NextOf(g, o) = w + 1 /\ w <= w + 1 /\ w <= w
    <3>1. GotOf(g, o) = w
      BY Zenon, <1>2, <2>6, <2>9 DEF GotOf
    <3> QED
      BY <1>0, <2>9, <3>1 DEF NextOf, One
  <2>11. Holds(buf, o, w) /\ f.rx_next_pos = w % RxLen
    BY Zenon, <1>1, <1>2, <2>6 DEF RxBytes
  <2>12. RxBytes(g, buf, i, o, w, closed)
    BY Zenon, <2>2, <2>5, <2>7, <2>9, <2>10, <2>11 DEF RxBytes
  <2>13. RxStream(g, buf, i, o, w, closed)
    BY SMTT(60), <2>9, <2>12 DEF RxStream
  <2> QED
    BY Zenon, <1>2, <2>1, <2>6, <2>8, <2>10, <2>13 DEF Progress
<1> QED
  BY <1>3, <1>4

\* the receive side of a flow, its buffer and the stream it receives
RxSide(f, buf, i, o, w, closed) ==
  /\ FlowInv(f) /\ buf \in [0 .. RxLen - 1 -> Nat]
  /\ Ctx(i, o, w, closed) /\ RxStream(f, buf, i, o, w, closed)

\* segment p, from byte x of the stream on, is in the network
Under(p, i, w, closed, x) ==
  p.seg \in Segment /\ x \in Nat /\ SegAt(p, i, w, closed, x)

\* what flow_rx_write does for bytes that are in order
AppendBuf(buf, f, p) ==
  IF f.rxfin THEN buf ELSE flow_rx_write(buf, f.rx_next_pos, Payload(f, p))

\* an in-order segment is appended, and the stream stays intact
LEMMA InOrderStream ==
  ASSUME NEW f, NEW buf, NEW i, NEW o, NEW w, NEW closed,
         RxSide(f, buf, i, o, w, closed),
         NEW p, NEW x, Under(p, i, w, closed, x),
         NEW e \in Nat, Leaves(f, p, i, NextOf(f, o), e), x <= NextOf(f, o),
         e <= x + p.seg.len, e <= NextOf(f, o) + f.rx_avail
  PROVE  /\ Progress(RxInOrder(f, p.seg, Bytes(f, p.seg)), f, AppendBuf(buf, f, p),
                     i, o, w, closed)
         /\ AppendBuf(buf, f, p) \in [0 .. RxLen - 1 -> Nat]
<1>0. /\ FlowInv(f) /\ f \in FlowState /\ buf \in [0 .. RxLen - 1 -> Nat]
      /\ Ctx(i, o, w, closed) /\ RxStream(f, buf, i, o, w, closed)
      /\ RxBytes(f, buf, i, o, w, closed)
      /\ p.seg \in Segment /\ x \in Nat /\ SegAt(p, i, w, closed, x)
  BY Zenon DEF RxSide, RxStream, FlowInv, Under
<1>1. o \in Nat /\ w \in Nat /\ x \in Nat /\ closed \in BOOLEAN
  BY SMTT(60), <1>0 DEF Ctx
<1>2. PICK r \in Nat, b \in Nat, av \in Nat :
        /\ r = GotOf(f, o) /\ b = NextOf(f, o) /\ av = f.rx_avail
        /\ r <= w /\ o <= r /\ r + av = o + RxLen /\ av <= RxLen
        /\ ~ f.rxfin => b = r
        /\ f.rxfin => b = w + 1
  BY SMTT(60), <1>0, RxRanges
<1>3. PICK len \in Nat : len = p.seg.len /\ x + len <= w + 1 /\ (len > 0 => x + len <= w)
  BY SMTT(60), <1>0, <1>1, SegRanges
<1>4. PICK n \in Nat : n = Bytes(f, p.seg) /\ b + n = e
  <2>1. b <= e /\ Bytes(f, p.seg) = e - b
    BY Zenon, <1>2 DEF Leaves
  <2> QED
    BY <1>2, <2>1
<1>5. x <= b /\ e <= x + len /\ e <= b + av /\ BytesAre(Payload(f, p), b, e)
  BY Zenon, <1>2, <1>3 DEF Leaves
<1>6. (n > 0 => e <= w /\ ~ f.rxfin) /\ n <= av
  <2>1. n <= av
    BY SMTT(60), <1>2, <1>4, <1>5
  <2>2. n > 0 => x + len <= w
    BY SMTT(60), <1>1, <1>3, <1>4, <1>5
  <2>3. n > 0 => e <= w
    BY SMTT(60), <1>1, <1>5, <2>2
  <2>4. n > 0 => b < w + 1
    BY SMTT(60), <1>1, <1>4, <2>3
  <2> QED
    BY SMTT(60), <1>1, <1>2, <2>1, <2>3, <2>4
<1>7. PICK seen : seen = [f EXCEPT !.rx_remote_avail = p.seg.wnd]
  BY Zenon
<1>8. /\ RxKeeps(seen, f)
      /\ seen.rx_ooo_start = f.rx_ooo_start /\ seen.rx_ooo_len = f.rx_ooo_len
      /\ seen.tx_avail = f.tx_avail /\ seen.tx_sent = f.tx_sent
  BY <1>0, <1>7 DEF RxKeeps, FlowState
<1>9. FlowInv(seen) /\ seen \in FlowState
  <2>1. p.seg.wnd \in 0 .. WndMax
    BY <1>0 DEF Segment
  <2>2. seen \in FlowState
    BY Zenon, <1>0, <1>7, <2>1, Upd
  <2>3. TxOK(seen)
    BY Zenon, <1>0, <1>8 DEF FlowInv, TxOK
  <2>4. OooOK(seen)
    BY Zenon, <1>0, <1>8 DEF FlowInv, OooOK, OooDist, RxKeeps
  <2> QED
    BY Zenon, <2>2, <2>3, <2>4 DEF FlowInv
<1>10. RxInOrder(f, p.seg, n) =
         IF f.rxfin /\ n > 0 THEN seen
         ELSE RxFin(IF n > 0 THEN RxMergeOoo(RxAdvance(seen, n)) ELSE seen, p.seg)
  BY Zenon, <1>7 DEF RxInOrder
<1>11. GotOf(seen, o) = r /\ NextOf(seen, o) = b /\ seen.rxfin = f.rxfin
  BY Zenon, <1>2, <1>8 DEF GotOf, NextOf, RxKeeps
<1>12. PICK buf2 : buf2 = AppendBuf(buf, f, p)
  BY SMTT(60)
\* the bytes are stored, and the others kept
<1>13. /\ buf2 \in [0 .. RxLen - 1 -> Nat]
       /\ Holds(buf2, o, r + n)
       /\ \A c, d \in Nat : Holds(buf, c, d) /\ r <= c /\ d <= o + RxLen => Holds(buf2, c, d)
  <2>0. Holds(buf, o, r)
    BY Zenon, <1>0, <1>2 DEF RxBytes
  <2>1. CASE f.rxfin
    <3>1. buf2 = buf
      BY Zenon, <1>12, <2>1 DEF AppendBuf
    <3>2. n = 0 /\ r + n = r
      BY <1>2, <1>4, <1>6, <2>1
    <3> QED
      BY Zenon, <1>0, <2>0, <3>1, <3>2
  <2>2. CASE ~ f.rxfin
    <3>1. f.rx_next_pos = r % RxLen /\ b = r
      BY Zenon, <1>0, <1>2, <2>2 DEF RxBytes
    <3>2. buf2 = flow_rx_write(buf, r % RxLen, Payload(f, p))
      BY Zenon, <1>12, <2>2, <3>1 DEF AppendBuf
    <3>3. e <= r + RxLen /\ r + n = e /\ o + RxLen >= e /\ r <= r /\ r <= e
      BY SMTT(60), <1>1, <1>2, <1>4, <1>6, <3>1, FlowAssumption
    <3>4. Stored(buf2, buf, r, e)
      BY Zenon, <1>0, <1>2, <1>5, <3>1, <3>2, <3>3, StoreData
    <3>5. buf2 \in [0 .. RxLen - 1 -> Nat] /\ Holds(buf2, r, e) /\ Holds(buf2, o, r)
      BY Zenon, <1>1, <1>2, <2>0, <3>3, <3>4 DEF Stored
    <3>6. Holds(buf2, o, e)
      BY SMTT(60), <1>1, <1>2, <3>5 DEF Holds
    <3>7. ASSUME NEW c \in Nat, NEW d \in Nat, Holds(buf, c, d), r <= c, d <= o + RxLen
          PROVE  Holds(buf2, c, d)
      <4>1. d <= r + RxLen
        BY <1>1, <1>2, <3>7, FlowAssumption
      <4> QED
        BY Zenon, <3>4, <3>7, <4>1, StoreOver
    <3> QED
      BY Zenon, <3>3, <3>5, <3>6, <3>7
  <2> QED
    BY Zenon, <2>1, <2>2
<1>14. ASSUME f.rx_ooo_len > 0
       PROVE  \E st \in r + 1 .. w : OooAt(f, buf2, i, o, w, st)
  <2>1. PICK st \in r + 1 .. w : OooAt(f, buf, i, o, w, st)
    BY ZenonT(60), <1>0, <1>2, <1>14 DEF RxStream
  <2>2. f.rx_ooo_len \in Nat
    BY SMTT(60), <1>0, FlowAssumption DEF FlowState
  <2>3. st \in Nat /\ st + f.rx_ooo_len \in Nat /\ r <= st
    BY SMTT(60), <1>1, <1>2, <2>1, <2>2
  <2>4. Holds(buf2, st, st + f.rx_ooo_len)
    BY Zenon, <1>13, <2>1, <2>3 DEF OooAt
  <2>5. OooAt(f, buf2, i, o, w, st)
    BY Zenon, <2>1, <2>4 DEF OooAt
  <2> QED
    BY Zenon, <2>5
<1>15. RxBytes(seen, buf2, i, o, w, closed)
  <2>1. Holds(buf2, o, r)
    BY SMTT(60), <1>1, <1>2, <1>13 DEF Holds
  <2>2. RxBytes(f, buf2, i, o, w, closed)
    BY Zenon, <1>0, <1>2, <2>1 DEF RxBytes
  <2> QED
    BY Zenon, <1>8, <2>2, BytesFrame
<1>16. CASE n = 0
  <2>1. RxInOrder(f, p.seg, n) = RxFin(seen, p.seg)
    BY SMTT(60), <1>10, <1>16
  <2>2. ASSUME seen.rx_ooo_len > 0
        PROVE  \E st \in GotOf(seen, o) + 1 .. w : OooAt(seen, buf2, i, o, w, st)
    <3>1. PICK st \in r + 1 .. w : OooAt(f, buf2, i, o, w, st)
      BY Zenon, <1>8, <1>14, <2>2
    <3>2. OooAt(seen, buf2, i, o, w, st)
      BY Zenon, <1>8, <3>1 DEF OooAt
    <3> QED
      BY Zenon, <1>11, <3>1, <3>2
  <2>3. RxStream(seen, buf2, i, o, w, closed)
    BY Zenon, <1>15, <2>2 DEF RxStream
  <2>4. Progress(RxFin(seen, p.seg), seen, buf2, i, o, w, closed)
    BY Zenon, <1>0, <1>9, <2>3, FinStream
  <2> QED
    BY ZenonT(60), <1>2, <1>4, <1>11, <1>12, <1>13, <2>1, <2>4 DEF Progress
<1>17. CASE n > 0
  <2>1. PICK a, m : a = RxAdvance(seen, n) /\ m = RxMergeOoo(a)
    BY SMTT(60)
  <2>2. RxInOrder(f, p.seg, n) = RxFin(m, p.seg)
    BY SMTT(60), <1>6, <1>10, <1>17, <2>1
  <2>3. n \in 0 .. seen.rx_avail /\ n <= seen.rx_avail /\ r + n <= w /\ ~ f.rxfin
    <3>1. seen.rx_avail = av
      BY Zenon, <1>2, <1>8 DEF RxKeeps
    <3> QED
      BY SMTT(60), <1>2, <1>4, <1>6, <1>17, <3>1
  <2>4. m \in FlowState
    BY Zenon, <1>9, <2>1, <2>3, DeliverInv DEF FlowInv
  <2>5. a \in FlowState
    BY Zenon, <1>9, <2>1, <2>3, AdvanceLemma
  <2>6. CanAdvance(seen, buf2, o, w, n)
    BY Zenon, <1>11, <1>13, <2>3 DEF CanAdvance
  <2>7. RxBase(seen, buf2, i, o, w, closed)
    BY Zenon, <1>0, <1>9, <1>15 DEF RxBase
  <2>8. RxBytes(a, buf2, i, o, w, closed) /\ Advanced(a, seen, o, n)
    BY Zenon, <2>1, <2>6, <2>7, AdvanceBytes
  <2>9. /\ GotOf(a, o) = r + n /\ ~ a.rxfin
        /\ a.rx_ooo_start = f.rx_ooo_start /\ a.rx_ooo_len = f.rx_ooo_len
    BY Zenon, <1>8, <1>11, <2>3, <2>8 DEF Advanced
  <2>10. RxBase(a, buf2, i, o, w, closed)
    BY Zenon, <1>0, <2>5, <2>8 DEF RxBase
  <2>11. ASSUME a.rx_ooo_len > 0 PROVE \E st \in Nat : OooAt(a, buf2, i, o, w, st)
    <3>1. PICK st \in r + 1 .. w : OooAt(f, buf2, i, o, w, st)
      BY Zenon, <1>14, <2>9, <2>11
    <3>2. OooAt(a, buf2, i, o, w, st)
      BY ZenonT(60), <2>9, <3>1 DEF OooAt
    <3>3. st \in Nat
      BY SMTT(60), <1>1, <1>2, <3>1
    <3> QED
      BY Zenon, <3>2, <3>3
  <2>12. Delivers(m, a, buf2, i, o, w, closed)
    BY Zenon, <2>1, <2>9, <2>10, <2>11, MergeStream
  <2>13. /\ RxStream(m, buf2, i, o, w, closed) /\ ~ m.rxfin /\ GotOf(m, o) \in Nat
         /\ r + n <= GotOf(m, o)
    BY Zenon, <2>9, <2>12 DEF Delivers
  <2>14. NextOf(m, o) \in Nat /\ b <= NextOf(m, o)
    <3>1. b = r
      BY SMTT(60), <1>2, <2>3
    <3>2. NextOf(m, o) = GotOf(m, o) + 0
      BY Zenon, <2>13 DEF NextOf, One
    <3> QED
      BY SMTT(60), <1>2, <2>13, <3>1, <3>2
  <2>15. Progress(RxFin(m, p.seg), m, buf2, i, o, w, closed)
    BY Zenon, <1>0, <2>4, <2>13, FinStream
  <2>16. /\ RxStream(RxFin(m, p.seg), buf2, i, o, w, closed)
         /\ NextOf(m, o) <= NextOf(RxFin(m, p.seg), o)
    BY Zenon, <2>15 DEF Progress
  <2>17. NextOf(RxFin(m, p.seg), o) \in Int
    <3>1. FlowInv(m)
      BY Zenon, <1>9, <2>1, <2>3, DeliverInv
    <3>2. RxFin(m, p.seg) \in FlowState
      BY Zenon, <3>1, FinInv DEF FlowInv
    <3>3. RxBytes(RxFin(m, p.seg), buf2, i, o, w, closed)
      BY ZenonT(60), <2>16 DEF RxStream
    <3>4. NextOf(RxFin(m, p.seg), o) \in Nat
      BY SMTT(60), <1>0, <3>2, <3>3, RxRanges
    <3> QED
      BY SMTT(60), <3>4
  <2>18. b <= NextOf(RxFin(m, p.seg), o)
    BY SMTT(60), <1>2, <2>14, <2>16, <2>17
  <2> QED
    BY ZenonT(60), <1>2, <1>4, <1>12, <1>13, <2>2, <2>16, <2>18 DEF Progress
<1> QED
  BY SMTT(60), <1>4, <1>16, <1>17

\* an out-of-order segment is stored beyond the gap or refused
LEMMA OutOfOrderStream ==
  ASSUME NEW f, NEW buf, NEW i, NEW o, NEW w, NEW closed,
         RxSide(f, buf, i, o, w, closed),
         NEW p, NEW x, Under(p, i, w, closed, x),
         NEW e \in Nat, Leaves(f, p, i, x, e), NextOf(f, o) < x,
         e <= x + p.seg.len, e <= NextOf(f, o) + f.rx_avail
  PROVE  LET n == Bytes(f, p.seg)
             seq == First(f, p.seg)
             buf2 == IF OooFits(f, seq, n)
                       THEN flow_rx_write(buf, SeqPos(f, seq), Payload(f, p)) ELSE buf
         IN /\ Progress(RxOutOfOrder(f, seq, n), f, buf2, i, o, w, closed)
            /\ buf2 \in [0 .. RxLen - 1 -> Nat]
<1>0. /\ FlowInv(f) /\ f \in FlowState /\ buf \in [0 .. RxLen - 1 -> Nat]
      /\ Ctx(i, o, w, closed) /\ RxStream(f, buf, i, o, w, closed)
      /\ RxBytes(f, buf, i, o, w, closed)
      /\ p.seg \in Segment /\ x \in Nat /\ SegAt(p, i, w, closed, x)
  BY ZenonT(60) DEF RxSide, RxStream, FlowInv, Under
<1>1. /\ i \in SeqNum /\ o \in Nat /\ w \in Nat /\ x \in Nat /\ closed \in BOOLEAN
      /\ w + 1 + RxLen < SeqMod
  BY SMTT(60), <1>0 DEF Ctx
<1>2. PICK len \in Nat : len = p.seg.len /\ x + len <= w + 1 /\ (len > 0 => x + len <= w)
  BY SMTT(60), <1>0, <1>1, SegRanges
<1>3. PICK r \in Nat, av \in Nat :
        /\ r = GotOf(f, o) /\ r = NextOf(f, o) /\ av = f.rx_avail /\ ~ f.rxfin
        /\ r <= w /\ o <= r /\ r + av = o + RxLen /\ av <= RxLen /\ r + av < SeqMod
  <2>1. NextOf(f, o) \in Nat /\ (f.rxfin => NextOf(f, o) = w + 1)
    BY SMTT(60), <1>0, RxRanges
  <2>2. ~ f.rxfin
    BY SMTT(60), <1>1, <1>2, <2>1
  <2> QED
    BY SMTT(60), <1>0, <2>2, RxRanges
<1>4. PICK n \in Nat : n = Bytes(f, p.seg) /\ x + n = e
  <2>1. x <= e /\ Bytes(f, p.seg) = e - x
    BY Zenon DEF Leaves
  <2> QED
    BY SMTT(60), <1>1, <2>1
<1>5. PICK seq : seq = First(f, p.seg) /\ seq = SeqAdd(i, x)
  BY Zenon DEF Leaves
<1>6. r < x /\ e <= x + len /\ e <= r + av /\ BytesAre(Payload(f, p), x, e)
  BY Zenon, <1>2, <1>3 DEF Leaves
<1>7. PICK buf2 : buf2 = IF OooFits(f, seq, n)
                           THEN flow_rx_write(buf, SeqPos(f, seq), Payload(f, p)) ELSE buf
  OBVIOUS
<1>8. SUFFICES /\ Progress(RxOutOfOrder(f, seq, n), f, buf2, i, o, w, closed)
               /\ buf2 \in [0 .. RxLen - 1 -> Nat]
  BY Zenon, <1>4, <1>5, <1>7
<1>9. CASE ~ OooFits(f, seq, n)
  <2>1. RxOutOfOrder(f, seq, n) = f /\ buf2 = buf /\ r <= r
    BY SMTT(60), <1>3, <1>7, <1>9 DEF RxOutOfOrder
  <2> QED
    BY Zenon, <1>0, <1>3, <2>1 DEF Progress
<1>10. CASE OooFits(f, seq, n)
  <2>1. n > 0 /\ \/ f.rx_ooo_len = 0
                 \/ SeqAdd(seq, n) = f.rx_ooo_start
                 \/ SeqAdd(f.rx_ooo_start, f.rx_ooo_len) = seq
    BY ZenonT(60), <1>10 DEF OooFits
  <2>2. /\ e <= w /\ x < SeqMod /\ e < SeqMod /\ e <= x + RxLen
        /\ o + RxLen >= e /\ r <= x /\ x <= r + RxLen
    BY SMTT(60), <1>1, <1>2, <1>3, <1>4, <1>6, <2>1, FlowAssumption, SeqModAssumption
  <2>3. SeqPos(f, seq) = x % RxLen
    <3>1. f.rx_next_seq = SeqAdd(i, r) /\ f.rx_next_pos = r % RxLen
      BY Zenon, <1>0, <1>3 DEF RxBytes
    <3>2. PICK d \in Nat : r + d = x /\ d \in 0 .. RxLen
      <4>1. x - r \in Nat /\ r + (x - r) = x /\ x - r \in 0 .. RxLen
        BY SMTT(60), <1>1, <1>3, <2>2, FlowAssumption
      <4> QED
        BY ZenonT(60), <4>1
    <3>3. SeqSub(SeqAdd(i, x), SeqAdd(i, r)) = d
      <4>1. SeqSub(SeqAdd(i, r + d), SeqAdd(i, r)) = d
        BY Zenon, <1>1, <2>2, <3>2, SeqAddSub
      <4> QED
        BY Zenon, <3>2, <4>1
    <3>4. SeqPos(f, seq) = Wrap((r % RxLen) + d, RxLen)
      BY Zenon, <1>5, <3>1, <3>3 DEF SeqPos
    <3>5. RxLen \in Nat \ {0}
      BY FlowAssumption
    <3>6. (r + d) % RxLen = Wrap((r % RxLen) + d, RxLen)
      BY Zenon, <3>2, <3>5, ModAdd
    <3> QED
      BY Zenon, <3>2, <3>4, <3>6
  <2>4. Stored(buf2, buf, x, e)
    <3>1. buf2 = flow_rx_write(buf, x % RxLen, Payload(f, p))
      BY Zenon, <1>7, <1>10, <2>3
    <3> QED
      BY Zenon, <1>0, <1>6, <2>2, <3>1, StoreData
  <2>5. Holds(buf2, x, e) /\ Holds(buf2, o, r) /\ buf2 \in [0 .. RxLen - 1 -> Nat]
    <3>1. Holds(buf, o, r)
      BY Zenon, <1>0, <1>3 DEF RxBytes
    <3> QED
      BY Zenon, <1>1, <1>3, <2>2, <2>4, <3>1 DEF Stored
  <2>6. PICK g : g = RxOutOfOrder(f, seq, n)
    OBVIOUS
  <2>7. /\ RxKeeps(g, f) /\ g.rx_ooo_len = f.rx_ooo_len + n
        /\ g.rx_ooo_start = IF f.rx_ooo_len = 0 \/ SeqAdd(seq, n) = f.rx_ooo_start
                              THEN seq ELSE f.rx_ooo_start
    BY SMTT(60), <1>0, <1>10, <2>6 DEF RxOutOfOrder, RxKeeps, FlowState
  <2>8. GotOf(g, o) = r /\ NextOf(g, o) = r
    BY Zenon, <1>3, <2>7 DEF GotOf, NextOf, RxKeeps
  <2>9. RxBytes(g, buf2, i, o, w, closed)
    <3>1. RxBytes(f, buf2, i, o, w, closed)
      BY ZenonT(60), <1>0, <1>3, <2>5 DEF RxBytes
    <3> QED
      BY Zenon, <1>3, <2>7, <3>1, BytesFrame
  <2>10. PICK l \in Nat : l = f.rx_ooo_len
    BY SMTT(60), <1>0, FlowAssumption DEF FlowState
  <2>11. SeqAdd(seq, n) = SeqAdd(i, e)
    <3>1. SeqAdd(SeqAdd(i, x), n) = SeqAdd(i, x + n)
      BY ZenonT(60), <1>1, <1>4, <2>2, SeqAddAdd
    <3> QED
      BY Zenon, <1>4, <1>5, <3>1
  <2>12. ASSUME NEW st \in Nat, r < st, st <= w, OooAt(g, buf2, i, o, w, st)
         PROVE  Progress(g, f, buf2, i, o, w, closed)
    <3>1. st \in r + 1 .. w /\ r <= r
      BY SMTT(60), <1>1, <1>3, <2>12
    <3>2. RxStream(g, buf2, i, o, w, closed)
      BY Zenon, <2>8, <2>9, <2>12, <3>1 DEF RxStream
    <3> QED
      BY Zenon, <1>3, <2>8, <3>1, <3>2 DEF Progress
  <2>13. CASE l = 0
    <3>1. g.rx_ooo_start = SeqAdd(i, x) /\ x + g.rx_ooo_len = e
      BY SMTT(60), <1>4, <1>5, <2>7, <2>10, <2>13
    <3>2. e <= o + RxLen /\ x <= w
      BY SMTT(60), <1>1, <1>4, <2>2, FlowAssumption
    <3>3. OooAt(g, buf2, i, o, w, x)
      BY ZenonT(60), <2>2, <2>5, <3>1, <3>2 DEF OooAt
    <3> QED
      BY ZenonT(60), <1>1, <1>6, <2>5, <2>6, <2>12, <3>2, <3>3
  <2>14. CASE l > 0
    <3>1. PICK st \in r + 1 .. w : OooAt(f, buf, i, o, w, st)
      BY ZenonT(60), <1>0, <1>3, <2>10, <2>14 DEF RxStream
    <3>2. st \in Nat /\ r < st /\ st <= w
      BY SMTT(60), <1>1, <1>3, <3>1
    <3>3. /\ f.rx_ooo_start = SeqAdd(i, st) /\ st + l <= o + RxLen /\ st + l <= w
          /\ Holds(buf, st, st + l)
      BY Zenon, <2>10, <3>1 DEF OooAt
    <3>4. st < SeqMod /\ st + l < SeqMod
      BY SMTT(60), <1>1, <3>2, <3>3, FlowAssumption, SeqModAssumption
    <3>5. CASE SeqAdd(seq, n) = f.rx_ooo_start
      <4>1. e = st
        BY ZenonT(60), <1>1, <2>2, <2>11, <3>2, <3>3, <3>4, <3>5, SeqSame
      <4>2. g.rx_ooo_start = SeqAdd(i, x) /\ x + g.rx_ooo_len = st + l
        BY SMTT(60), <1>1, <1>4, <1>5, <2>7, <2>10, <3>5, <4>1
      <4>3. st >= e /\ st + l <= x + RxLen /\ st + l \in Nat
        BY SMTT(60), <1>1, <1>3, <1>6, <3>2, <3>3, <4>1, FlowAssumption
      <4>4. Holds(buf2, st, st + l)
        BY ZenonT(60), <2>4, <3>2, <3>3, <4>3 DEF Stored
      <4>5. Holds(buf2, x, st + l)
        BY SMTT(60), <1>1, <2>5, <3>2, <4>1, <4>4 DEF Holds
      <4>6. OooAt(g, buf2, i, o, w, x)
        BY Zenon, <3>3, <4>2, <4>5 DEF OooAt
      <4>7. x <= w
        BY SMTT(60), <1>1, <1>4, <2>2
      <4> QED
        BY Zenon, <1>1, <1>6, <2>5, <2>6, <2>12, <4>6, <4>7
    <3>6. CASE SeqAdd(seq, n) # f.rx_ooo_start
      <4>1. SeqAdd(f.rx_ooo_start, l) = seq
        BY SMTT(60), <2>1, <2>10, <2>14, <3>6
      <4>2. SeqAdd(SeqAdd(i, st), l) = SeqAdd(i, st + l)
        BY ZenonT(60), <1>1, <3>2, <3>4, SeqAddAdd
      <4>3. st + l \in Nat
        BY <3>2
      <4>4. st + l = x
        BY Zenon, <1>1, <1>5, <2>2, <3>3, <3>4, <4>1, <4>2, <4>3, SeqSame
      <4>5. g.rx_ooo_start = SeqAdd(i, st) /\ st + g.rx_ooo_len = e
        BY SMTT(60), <1>4, <2>7, <2>10, <2>14, <3>2, <3>3, <3>6, <4>4
      <4>6. st + RxLen >= e /\ x <= x
        BY SMTT(60), <1>1, <1>3, <2>2, <3>2, FlowAssumption
      <4>7. Holds(buf2, st, x)
        BY ZenonT(60), <1>1, <2>4, <3>2, <3>3, <4>4, <4>6 DEF Stored
      <4>8. Holds(buf2, st, e)
        BY SMTT(60), <1>1, <2>5, <3>2, <4>7 DEF Holds
      <4>9. e <= o + RxLen
        BY SMTT(60), <1>1, <2>2, FlowAssumption
      <4>10. OooAt(g, buf2, i, o, w, st)
        BY Zenon, <2>2, <4>5, <4>8, <4>9 DEF OooAt
      <4> QED
        BY ZenonT(60), <2>5, <2>6, <2>12, <3>2, <4>10
    <3> QED
      BY SMTT(60), <3>5, <3>6
  <2> QED
    BY SMTT(60), <2>10, <2>13, <2>14
<1> QED
  BY SMTT(60), <1>9, <1>10

\* what the payload half writes to the receive buffer
PayloadBuf(buf, f, p) ==
  IF Outside(f, p.seg) THEN buf
  ELSE IF InOrder(f, p.seg) THEN AppendBuf(buf, f, p)
  ELSE IF OooFits(f, First(f, p.seg), Bytes(f, p.seg))
         THEN flow_rx_write(buf, SeqPos(f, First(f, p.seg)), Payload(f, p))
         ELSE buf

\* the payload half of fast_flows_packet
LEMMA PayloadStream ==
  ASSUME NEW f, NEW buf, NEW i, NEW o, NEW w, NEW closed,
         RxSide(f, buf, i, o, w, closed),
         NEW p, NEW x, Under(p, i, w, closed, x), ~ Overrun(f, p.seg.seq, p.seg.len)
  PROVE  /\ Progress(RxPayload(f, p.seg), f, PayloadBuf(buf, f, p), i, o, w, closed)
         /\ PayloadBuf(buf, f, p) \in [0 .. RxLen - 1 -> Nat]
<1>0. /\ FlowInv(f) /\ f \in FlowState /\ buf \in [0 .. RxLen - 1 -> Nat]
      /\ Ctx(i, o, w, closed) /\ RxStream(f, buf, i, o, w, closed)
      /\ RxBytes(f, buf, i, o, w, closed)
      /\ p.seg \in Segment /\ x \in Nat /\ SegAt(p, i, w, closed, x)
  BY Zenon DEF RxSide, RxStream, FlowInv, Under
<1>1. PICK r \in Nat, av \in Nat, n \in Nat :
        r = NextOf(f, o) /\ av = f.rx_avail /\ n = p.seg.len
  <2>1. NextOf(f, o) \in Nat /\ f.rx_avail \in Nat
    BY SMTT(60), <1>0, RxRanges
  <2>2. p.seg.len \in Nat
    BY Zenon, <1>0, SegFields
  <2> QED
    BY Zenon, <2>1, <2>2
<1>2. Meets(f, i, x, n, r, av) /\ SegIs(p, i, x, n)
  BY Zenon, <1>0, <1>1, TrimAt
<1>3. /\ InOrder(f, p.seg) <=> ~ Outside(f, p.seg) /\ x <= r
      /\ ~ Outside(f, p.seg) => Leaves(f, p, i, From(x, r), To(x, n, r, av))
  BY ZenonT(60), <1>2, TrimSeg
<1>4. PICK e \in Nat : e = To(x, n, r, av) /\ e <= x + n /\ e <= r + av
  BY Zenon, <1>0, <1>1, CutRange
<1>5. e <= x + p.seg.len /\ e <= NextOf(f, o) + f.rx_avail
  BY Zenon, <1>1, <1>4
<1>6. RxPayload(f, p.seg) =
        IF Outside(f, p.seg) THEN f
        ELSE IF InOrder(f, p.seg) THEN RxInOrder(f, p.seg, Bytes(f, p.seg))
        ELSE RxOutOfOrder(f, First(f, p.seg), Bytes(f, p.seg))
  BY DEF RxPayload, InOrder
<1>7. CASE Outside(f, p.seg)
  <2>1. RxPayload(f, p.seg) = f /\ PayloadBuf(buf, f, p) = buf
    BY Zenon, <1>6, <1>7 DEF PayloadBuf
  <2>2. NextOf(f, o) <= NextOf(f, o)
    BY <1>1
  <2> QED
    BY Zenon, <1>0, <2>1, <2>2 DEF Progress
<1>8. CASE ~ Outside(f, p.seg) /\ InOrder(f, p.seg)
  <2>1. From(x, r) = r /\ x <= NextOf(f, o)
    BY Zenon, <1>1, <1>3, <1>8 DEF From
  <2>2. Leaves(f, p, i, NextOf(f, o), e)
    BY Zenon, <1>1, <1>3, <1>4, <1>8, <2>1
  <2>3. /\ Progress(RxInOrder(f, p.seg, Bytes(f, p.seg)), f, AppendBuf(buf, f, p),
                    i, o, w, closed)
        /\ AppendBuf(buf, f, p) \in [0 .. RxLen - 1 -> Nat]
    BY Zenon, <1>5, <2>1, <2>2, InOrderStream
  <2>4. /\ RxPayload(f, p.seg) = RxInOrder(f, p.seg, Bytes(f, p.seg))
        /\ PayloadBuf(buf, f, p) = AppendBuf(buf, f, p)
    BY Zenon, <1>6, <1>8 DEF PayloadBuf
  <2> QED
    BY Zenon, <2>3, <2>4
<1>9. CASE ~ Outside(f, p.seg) /\ ~ InOrder(f, p.seg)
  <2>1. From(x, r) = x
    BY Zenon, <1>3, <1>9 DEF From
  <2>2. Leaves(f, p, i, x, e)
    BY ZenonT(60), <1>3, <1>4, <1>9, <2>1
  <2>3. NextOf(f, o) < x
    <3>1. ~ (x <= r) /\ x \in Nat
      BY Zenon, <1>0, <1>3, <1>9
    <3>2. r < x
      BY <3>1
    <3> QED
      BY Zenon, <1>1, <3>2
  <2>4. PICK buf2 : buf2 = IF OooFits(f, First(f, p.seg), Bytes(f, p.seg))
                             THEN flow_rx_write(buf, SeqPos(f, First(f, p.seg)), Payload(f, p))
                             ELSE buf
    OBVIOUS
  <2>5. /\ Progress(RxOutOfOrder(f, First(f, p.seg), Bytes(f, p.seg)), f, buf2,
                    i, o, w, closed)
        /\ buf2 \in [0 .. RxLen - 1 -> Nat]
    BY Zenon, <1>5, <2>2, <2>3, <2>4, OutOfOrderStream
  <2>6. /\ RxPayload(f, p.seg) = RxOutOfOrder(f, First(f, p.seg), Bytes(f, p.seg))
        /\ PayloadBuf(buf, f, p) = buf2
    BY Zenon, <1>6, <1>9, <2>4 DEF PayloadBuf
  <2> QED
    BY Zenon, <2>5, <2>6
<1> QED
  BY Zenon, <1>7, <1>8, <1>9

\* the receive side of g is that of f
RxAll(g, f) ==
  /\ RxKeeps(g, f)
  /\ g.rx_ooo_start = f.rx_ooo_start /\ g.rx_ooo_len = f.rx_ooo_len

\* the acknowledgement half leaves the receive side alone
LEMMA RxAckAll ==
  ASSUME NEW f \in FlowState, NEW p
  PROVE  RxAll(RxAck(f, p), f)
<1>1. CASE FastRetransmit(f, p)
  BY <1>1 DEF RxAck, flow_reset_retransmit, RxAll, RxKeeps, FlowState
<1>2. CASE ~ FastRetransmit(f, p)
  <2> DEFINE r == AckBytes(f, TxBump(f, p))
  <2>1. RxAll(r, f)
    BY DEF AckBytes, RxAll, RxKeeps, FlowState
  <2> HIDE DEF r
  <2>2. PICK cnt : RxAck(f, p) = [r EXCEPT !.rx_dupack_cnt = cnt]
    BY Zenon, <1>2 DEF RxAck, r
  <2>3. RxAll([r EXCEPT !.rx_dupack_cnt = cnt], r)
    BY DEF RxAll, RxKeeps
  <2> QED
    BY Zenon, <2>1, <2>2, <2>3 DEF RxAll, RxKeeps
<1> QED
  BY SMTT(60), <1>1, <1>2

\* what the receive side of the stream depends on
LEMMA StreamFrame ==
  ASSUME NEW f, NEW g, NEW buf, NEW i, NEW o, NEW w, NEW closed,
         RxStream(f, buf, i, o, w, closed), RxAll(g, f)
  PROVE  RxStream(g, buf, i, o, w, closed)
<1>1. GotOf(g, o) = GotOf(f, o) /\ NextOf(g, o) = NextOf(f, o)
  BY Zenon DEF RxAll, RxKeeps, GotOf, NextOf
<1>2. RxBytes(g, buf, i, o, w, closed)
  BY Zenon, BytesFrame DEF RxStream, RxAll
<1>3. \A st : OooAt(f, buf, i, o, w, st) => OooAt(g, buf, i, o, w, st)
  BY Zenon DEF OooAt, RxAll
<1> QED
  BY Zenon, <1>1, <1>2, <1>3 DEF RxStream, RxAll

\* what the byte expected next depends on
LEMMA NextFrame ==
  ASSUME NEW f, NEW g, NEW o, RxAll(g, f)
  PROVE  NextOf(g, o) = NextOf(f, o)
  BY Zenon DEF RxAll, RxKeeps, GotOf, NextOf

\* what Overrun depends on
LEMMA OverrunFrame ==
  ASSUME NEW f, NEW g, NEW s, NEW n, RxAll(g, f), Overrun(g, s, n)
  PROVE  Overrun(f, s, n)
  BY Zenon DEF Overrun, RxAll, RxKeeps

\* when fast_flows_packet writes to the receive buffer
LEMMA RxStoreIs ==
  ASSUME NEW f, NEW buf, NEW p, ~ ToSlowpath(f, p.seg)
  PROVE  RxStore(buf, f, p) = IF FastRetransmit(f, p.seg) THEN buf
                              ELSE PayloadBuf(buf, f, p)
<1>1. CASE FastRetransmit(f, p.seg)
  BY <1>1 DEF RxStore
<1>2. CASE ~ FastRetransmit(f, p.seg) /\ Outside(f, p.seg)
  BY SMTT(60), <1>2 DEF RxStore, PayloadBuf
<1>3. CASE ~ FastRetransmit(f, p.seg) /\ ~ Outside(f, p.seg) /\ InOrder(f, p.seg)
  BY SMTT(60), <1>3 DEF RxStore, PayloadBuf, AppendBuf
<1>4. CASE ~ FastRetransmit(f, p.seg) /\ ~ Outside(f, p.seg) /\ ~ InOrder(f, p.seg)
  BY <1>4 DEF RxStore, PayloadBuf
<1> QED
  BY <1>1, <1>2, <1>3, <1>4

\* what is written depends only on the receive side
LEMMA PayloadBufFrame ==
  ASSUME NEW f, NEW g, NEW buf, NEW p, RxAll(g, f)
  PROVE  PayloadBuf(buf, g, p) = PayloadBuf(buf, f, p)
<1>1. /\ g.rx_avail = f.rx_avail /\ g.rx_next_seq = f.rx_next_seq
      /\ g.rx_next_pos = f.rx_next_pos /\ g.rxfin = f.rxfin
      /\ g.rx_ooo_start = f.rx_ooo_start /\ g.rx_ooo_len = f.rx_ooo_len
  BY SMTT(60) DEF RxAll, RxKeeps
<1>2. \A s, n : tcp_trim_rxbuf(g, s, n) = tcp_trim_rxbuf(f, s, n)
  <2> TAKE s, n
  <2>1. g.rx_avail = f.rx_avail /\ g.rx_next_seq = f.rx_next_seq
    BY Zenon, <1>1
  <2> QED
    BY Zenon, <2>1 DEF tcp_trim_rxbuf
<1>3. /\ Outside(g, p.seg) = Outside(f, p.seg) /\ First(g, p.seg) = First(f, p.seg)
      /\ Bytes(g, p.seg) = Bytes(f, p.seg) /\ Payload(g, p) = Payload(f, p)
  BY Zenon, <1>2 DEF Outside, First, Bytes, Payload
<1>4. /\ InOrder(g, p.seg) <=> InOrder(f, p.seg)
      /\ AppendBuf(buf, g, p) = AppendBuf(buf, f, p)
      /\ SeqPos(g, First(f, p.seg)) = SeqPos(f, First(f, p.seg))
  BY Zenon, <1>1, <1>3 DEF InOrder, AppendBuf, SeqPos
<1>5. \A s, n : OooFits(g, s, n) <=> OooFits(f, s, n)
  BY Zenon, <1>1 DEF OooFits
<1> QED
  BY Zenon, <1>3, <1>4, <1>5 DEF PayloadBuf

\* fast_flows_packet keeps the received stream intact and loses nothing of it
LEMMA PacketStream ==
  ASSUME NEW f, NEW buf, NEW i, NEW o, NEW w, NEW closed,
         RxSide(f, buf, i, o, w, closed),
         NEW p, NEW x, Under(p, i, w, closed, x), ~ Overrun(f, p.seg.seq, p.seg.len),
         ~ f.slowpath, p.seg.kind = "data"
  PROVE  /\ RxSide(fast_flows_packet(f, p.seg), RxStore(buf, f, p), i, o, w, closed)
         /\ NextOf(f, o) <= NextOf(fast_flows_packet(f, p.seg), o)
<1>0. /\ FlowInv(f) /\ f \in FlowState /\ buf \in [0 .. RxLen - 1 -> Nat]
      /\ Ctx(i, o, w, closed) /\ RxStream(f, buf, i, o, w, closed)
      /\ RxBytes(f, buf, i, o, w, closed) /\ p.seg \in Segment
  BY Zenon DEF RxSide, RxStream, FlowInv, Under
<1>1. FlowInv(fast_flows_packet(f, p.seg))
  BY Zenon, <1>0, PacketInv
<1>2. ~ ToSlowpath(f, p.seg)
  BY Zenon DEF ToSlowpath
<1>3. PICK g : g = RxAck(f, p.seg)
  BY Zenon
<1>4. FlowInv(g) /\ RxAll(g, f)
  BY Zenon, <1>0, <1>3, RxAckInv, RxAckAll
<1>5. RxStream(g, buf, i, o, w, closed) /\ NextOf(g, o) = NextOf(f, o)
  BY Zenon, <1>0, <1>4, StreamFrame, NextFrame
<1>6. RxStore(buf, f, p) = IF FastRetransmit(f, p.seg) THEN buf ELSE PayloadBuf(buf, f, p)
  BY ZenonT(60), <1>2, RxStoreIs
<1>7. NextOf(f, o) \in Nat
  BY SMTT(60), <1>0, RxRanges
<1>8. CASE FastRetransmit(f, p.seg)
  <2>1. fast_flows_packet(f, p.seg) = g /\ RxStore(buf, f, p) = buf
    BY ZenonT(60), <1>2, <1>3, <1>6, <1>8 DEF fast_flows_packet
  <2>2. NextOf(f, o) <= NextOf(f, o)
    BY <1>7
  <2> QED
    BY Zenon, <1>0, <1>4, <1>5, <2>1, <2>2 DEF RxSide
<1>9. CASE ~ FastRetransmit(f, p.seg)
  <2>1. fast_flows_packet(f, p.seg) = RxPayload(g, p.seg)
    BY Zenon, <1>2, <1>3, <1>9 DEF fast_flows_packet
  <2>2. /\ RxStore(buf, f, p) = PayloadBuf(buf, g, p)
        /\ ~ Overrun(g, p.seg.seq, p.seg.len)
    <3>1. PayloadBuf(buf, g, p) = PayloadBuf(buf, f, p)
      BY SMTT(60), <1>4, PayloadBufFrame
    <3>2. ~ Overrun(g, p.seg.seq, p.seg.len)
      BY Zenon, <1>4, OverrunFrame
    <3> QED
      BY ZenonT(60), <1>6, <1>9, <3>1, <3>2
  <2>3. RxSide(g, buf, i, o, w, closed)
    BY Zenon, <1>0, <1>4, <1>5 DEF RxSide
  <2>4. /\ Progress(RxPayload(g, p.seg), g, PayloadBuf(buf, g, p), i, o, w, closed)
        /\ PayloadBuf(buf, g, p) \in [0 .. RxLen - 1 -> Nat]
    BY Zenon, <2>2, <2>3, PayloadStream
  <2> QED
    BY Zenon, <1>0, <1>1, <1>5, <2>1, <2>2, <2>4 DEF RxSide, Progress
<1> QED
  BY Zenon, <1>8, <1>9

-----------------------------------------------------------------------------
\* the send side of a flow, its buffer and the stream it sends
TxSide(f, buf, i, w) ==
  /\ FlowInv(f) /\ buf \in [0 .. TxLen - 1 -> Nat]
  /\ i \in SeqNum /\ w \in Nat /\ w + 1 < SeqMod /\ TxStream(f, buf, i, w)

\* the numbers of a send side: acknowledged, sent, waiting, and the end
TxNums(f, w, a, s, v, e) ==
  /\ a \in Nat /\ s \in Nat /\ v \in Nat /\ e \in Nat /\ w \in Nat
  /\ a = AckedOf(f, w) /\ s = f.tx_sent /\ v = f.tx_avail /\ e = w + One(f.txfin)
  /\ a + s + v = e /\ s + v <= TxLen /\ e < SeqMod /\ w <= e /\ e <= w + 1

\* the send buffer holds what is between acknowledged and written
LEMMA TxRanges ==
  ASSUME NEW f, NEW buf, NEW i, NEW w, TxSide(f, buf, i, w)
  PROVE  \E a, s, v, e \in Nat : TxNums(f, w, a, s, v, e)
<1>1. /\ f.tx_sent \in 0 .. TxLen /\ f.tx_avail \in 0 .. TxLen
      /\ f.tx_avail + f.tx_sent <= TxLen /\ f.txfin \in BOOLEAN
  BY SMTT(60) DEF TxSide, FlowInv, FlowState, TxOK
<1>2. w \in Nat /\ w + 1 < SeqMod /\ AckedOf(f, w) >= 0
  BY DEF TxSide, TxStream
<1>3. AckedOf(f, w) = (w + One(f.txfin)) - (f.tx_avail + f.tx_sent)
  BY DEF AckedOf
<1>4. One(f.txfin) \in Nat /\ One(f.txfin) <= 1
  BY SMTT(60), <1>1 DEF One
<1>5. TxNums(f, w, AckedOf(f, w), f.tx_sent, f.tx_avail, w + One(f.txfin))
  BY SMTT(60), <1>1, <1>2, <1>3, <1>4, FlowAssumption, SeqModAssumption DEF TxNums
<1> QED
  BY Zenon, <1>5 DEF TxNums

\* g has b bytes fewer than f in its send buffer
Fewer(g, f, b) ==
  /\ b \in Int /\ g.txfin = f.txfin
  /\ g.tx_avail + g.tx_sent = (f.tx_avail + f.tx_sent) - b

\* x bytes are acknowledged
AckedIs(g, w, x) == AckedOf(g, w) = x

\* what leaves the send buffer is acknowledged
LEMMA AckedNew ==
  ASSUME NEW f, NEW g, NEW w, NEW a, NEW s, NEW v, NEW e, TxNums(f, w, a, s, v, e),
         NEW b, Fewer(g, f, b)
  PROVE  AckedIs(g, w, a + b)
<1>1. AckedOf(g, w) = e - ((v + s) - b)
  BY Zenon DEF AckedOf, TxNums, Fewer
<1>2. a \in Nat /\ s \in Nat /\ v \in Nat /\ e \in Nat /\ a + s + v = e /\ b \in Int
  BY DEF TxNums, Fewer
<1> QED
  BY <1>1, <1>2 DEF AckedIs

\* the send side, in terms of its numbers
TxAt(f, buf, i, w, a, s) ==
  /\ f.tx_next_seq = SeqAdd(i, a + s) /\ f.tx_next_pos = (a + s) % TxLen
  /\ \A k \in a .. w - 1 : buf[k % TxLen] = k

\* a send side in terms of its numbers
LEMMA TxIs ==
  ASSUME NEW f, NEW buf, NEW i, NEW w, TxSide(f, buf, i, w),
         NEW a, NEW s, NEW v, NEW e, TxNums(f, w, a, s, v, e)
  PROVE  TxAt(f, buf, i, w, a, s)
  BY Zenon DEF TxSide, TxStream, TxNums, TxAt

\* tcp_valid_rxack accepts exactly the acknowledgements of bytes not yet
\* acknowledged, for every position of the wrap
LEMMA AckValid ==
  ASSUME NEW f, NEW i \in SeqNum, NEW a \in Nat, NEW s \in Nat, NEW v \in Nat,
         NEW y \in Nat, a + s + v < SeqMod, y <= a + s + v,
         f.tx_next_seq = SeqAdd(i, a + s), f.tx_sent = s, f.tx_avail = v
  PROVE  /\ fsack_a(f) = SeqAdd(i, a)
         /\ tcp_valid_rxack(f, SeqAdd(i, y)) <=> a <= y
         /\ a <= y => rxack_bump(f, SeqAdd(i, y)) = y - a
<1> USE SeqModAssumption
<1>1. fsack_a(f) = SeqAdd(i, a)
  <2>1. SeqSub(SeqAdd(i, a + s), s) = SeqAdd(i, a)
    BY SMTT(60) DEF SeqNum, SeqAdd, SeqSub
  <2> QED
    BY Zenon, <2>1 DEF fsack_a
<1>2. SeqAdd(f.tx_next_seq, f.tx_avail) = SeqAdd(i, a + s + v)
  <2>1. SeqAdd(SeqAdd(i, a + s), v) = SeqAdd(i, a + s + v)
    BY SMTT(60) DEF SeqNum, SeqAdd, SeqSub
  <2> QED
    BY Zenon, <2>1
<1>3. tcp_valid_rxack(f, SeqAdd(i, y)) <=>
        IF SeqAdd(i, a) <= SeqAdd(i, a + s + v)
          THEN SeqAdd(i, a) <= SeqAdd(i, y) /\ SeqAdd(i, y) <= SeqAdd(i, a + s + v)
          ELSE ~ (SeqAdd(i, a) > SeqAdd(i, y) /\ SeqAdd(i, y) > SeqAdd(i, a + s + v))
  BY SMTT(60), <1>1, <1>2 DEF tcp_valid_rxack
<1>4. PICK e \in Nat : e = a + s + v /\ a <= e /\ y <= e /\ e < SeqMod
  <2>1. a + s + v \in Nat /\ a <= a + s + v
    BY SMTT(60)
  <2> QED
    BY Zenon, <2>1
<1>5. (IF SeqAdd(i, a) <= SeqAdd(i, e)
         THEN SeqAdd(i, a) <= SeqAdd(i, y) /\ SeqAdd(i, y) <= SeqAdd(i, e)
         ELSE ~ (SeqAdd(i, a) > SeqAdd(i, y) /\ SeqAdd(i, y) > SeqAdd(i, e)))
      <=> a <= y
  BY SMTT(60), <1>4 DEF SeqNum, SeqAdd
<1>6. a <= y => rxack_bump(f, SeqAdd(i, y)) = y - a
  <2>1. a <= y => SeqSub(SeqAdd(i, y), SeqAdd(i, a)) = y - a
    BY SMTT(60), <1>4 DEF SeqNum, SeqAdd, SeqSub
  <2> QED
    BY Zenon, <1>1, <2>1 DEF rxack_bump
<1> QED
  BY SMTT(60), <1>1, <1>3, <1>4, <1>5, <1>6

\* the send side of g is that of f, and so is what else a stream needs
TxAll(g, f) ==
  /\ g.tx_next_seq = f.tx_next_seq /\ g.tx_next_pos = f.tx_next_pos
  /\ g.tx_sent = f.tx_sent /\ g.tx_avail = f.tx_avail /\ g.txfin = f.txfin

\* what the send side depends on
LEMMA TxFrame ==
  ASSUME NEW f, NEW g, NEW buf, NEW i, NEW w, TxStream(f, buf, i, w), TxAll(g, f)
  PROVE  TxStream(g, buf, i, w) /\ AckedOf(g, w) = AckedOf(f, w)
<1>1. AckedOf(g, w) = AckedOf(f, w)
  BY Zenon DEF AckedOf, TxAll
<1> QED
  BY Zenon, <1>1 DEF TxStream, TxAll

\* g has taken back what f had sent
LEMMA ResetStream ==
  ASSUME NEW f, NEW buf, NEW i, NEW w, TxSide(f, buf, i, w)
  PROVE  /\ TxStream(flow_reset_retransmit(f), buf, i, w)
         /\ AckedOf(flow_reset_retransmit(f), w) = AckedOf(f, w)
<1>1. PICK a, s, v, e \in Nat : TxNums(f, w, a, s, v, e)
  BY Zenon, TxRanges
<1>2. /\ a = AckedOf(f, w) /\ s = f.tx_sent /\ v = f.tx_avail
      /\ a + s + v = e /\ s + v <= TxLen /\ e < SeqMod
  BY Zenon, <1>1 DEF TxNums
<1>3. f \in FlowState /\ i \in SeqNum
  BY Zenon DEF TxSide, FlowInv
<1>4. /\ f.tx_next_seq = SeqAdd(i, a + s) /\ f.tx_next_pos = (a + s) % TxLen
      /\ \A k \in a .. w - 1 : buf[k % TxLen] = k
  <2>1. TxAt(f, buf, i, w, a, s)
    BY Zenon, <1>1, TxIs
  <2> QED
    BY Zenon, <2>1 DEF TxAt
<1>5. PICK g : g = flow_reset_retransmit(f)
  OBVIOUS
<1>6. /\ g.tx_next_seq = fsack_a(f) /\ g.tx_avail = v + s /\ g.tx_sent = 0
      /\ g.tx_next_pos = IF f.tx_next_pos >= s THEN f.tx_next_pos - s
                         ELSE TxLen - (s - f.tx_next_pos)
      /\ g.txfin = f.txfin
  BY SMTT(60), <1>2, <1>3, <1>5 DEF flow_reset_retransmit, FlowState
<1>7. AckedOf(g, w) = a
  <2>1. g.tx_avail + g.tx_sent = (f.tx_avail + f.tx_sent) - 0 /\ a + 0 = a /\ 0 \in Int
    BY SMTT(60), <1>2, <1>6
  <2>2. Fewer(g, f, 0)
    BY Zenon, <1>6, <2>1 DEF Fewer
  <2>3. AckedIs(g, w, a + 0)
    BY Zenon, <1>1, <2>2, AckedNew
  <2> QED
    BY Zenon, <2>1, <2>3 DEF AckedIs
<1>8. g.tx_next_seq = SeqAdd(i, a + 0)
  <2>1. SeqSub(SeqAdd(i, a + s), s) = SeqAdd(i, a + 0)
    BY SMTT(60), <1>2, <1>3, SeqModAssumption DEF SeqNum, SeqAdd, SeqSub
  <2> QED
    BY ZenonT(60), <1>2, <1>4, <1>6, <2>1 DEF fsack_a
<1>9. g.tx_next_pos = (a + 0) % TxLen
  <2>1. TxLen \in Nat \ {0} /\ s \in 0 .. TxLen /\ a + 0 = a
    BY SMTT(60), <1>2, FlowAssumption
  <2>2. PICK r \in 0 .. TxLen - 1 : r = a % TxLen
    BY SMTT(60), <2>1, ModDef
  <2>3. (a + s) % TxLen = Wrap((a % TxLen) + s, TxLen)
    BY Zenon, <2>1, ModAdd
  <2>4. f.tx_next_pos = Wrap(r + s, TxLen)
    BY Zenon, <1>4, <2>2, <2>3
  <2>5. g.tx_next_pos = r
    BY SMTT(60), <1>6, <2>1, <2>2, <2>4 DEF Wrap
  <2> QED
    BY Zenon, <2>1, <2>2, <2>5
<1>10. a >= 0
  BY SMTT(60)
<1> QED
  BY Zenon, <1>2, <1>4, <1>5, <1>6, <1>7, <1>8, <1>9, <1>10 DEF TxStream

\* flow h has seen an acknowledgement of the bytes before y
AckTo(h, f, buf, i, w, y) ==
  /\ TxStream(h, buf, i, w)
  /\ AckedOf(h, w) = AckedOf(f, w) \/ AckedOf(h, w) = y

\* the acknowledgement of byte y, which the peer has, moves the send side
LEMMA AckStream ==
  ASSUME NEW f, NEW buf, NEW i, NEW w, TxSide(f, buf, i, w),
         NEW p \in Segment, NEW y \in Nat, p.ack = SeqAdd(i, y),
         y <= w + One(f.txfin)
  PROVE  AckTo(RxAck(f, p), f, buf, i, w, y)
<1> SUFFICES /\ TxStream(RxAck(f, p), buf, i, w)
             /\ AckedOf(RxAck(f, p), w) = AckedOf(f, w) \/ AckedOf(RxAck(f, p), w) = y
  BY Zenon DEF AckTo
<1>1. PICK a, s, v, e \in Nat : TxNums(f, w, a, s, v, e)
  BY Zenon, TxRanges
<1>2. /\ a = AckedOf(f, w) /\ s = f.tx_sent /\ v = f.tx_avail /\ y <= e
      /\ a + s + v = e /\ s + v <= TxLen /\ e < SeqMod
  BY Zenon, <1>1 DEF TxNums
<1>3. f \in FlowState /\ i \in SeqNum
  BY Zenon DEF TxSide, FlowInv
<1>4. TxAt(f, buf, i, w, a, s)
  BY ZenonT(60), <1>1, TxIs
<1>5. /\ tcp_valid_rxack(f, p.ack) <=> a <= y
      /\ a <= y => rxack_bump(f, p.ack) = y - a
  <2>1. a + s + v < SeqMod /\ y <= a + s + v /\ f.tx_next_seq = SeqAdd(i, a + s)
    BY Zenon, <1>2, <1>4 DEF TxAt
  <2>2. /\ tcp_valid_rxack(f, SeqAdd(i, y)) <=> a <= y
        /\ a <= y => rxack_bump(f, SeqAdd(i, y)) = y - a
    BY SMTT(60), <1>2, <1>3, <2>1, AckValid
  <2> QED
    BY Zenon, <2>2
<1>6. CASE FastRetransmit(f, p)
  BY Zenon, <1>6, ResetStream DEF RxAck
<1>7. CASE ~ FastRetransmit(f, p)
  <2>1. PICK b \in Nat : b = TxBump(f, p) /\ b = IF a <= y THEN y - a ELSE 0
    <3>1. (IF a <= y THEN y - a ELSE 0) \in Nat
      OBVIOUS
    <3>2. TxBump(f, p) = IF a <= y THEN y - a ELSE 0
      BY Zenon, <1>5 DEF TxBump
    <3> QED
      BY Zenon, <3>1, <3>2
  <2>2. a + b <= e /\ (a + b = y \/ b = 0)
    BY <1>2, <2>1
  <2>3. PICK h : h = AckBytes(f, b)
    OBVIOUS
  <2>4. PICK g : g = RxAck(f, p)
    OBVIOUS
  <2>5. TxAll(g, h)
    <3>1. PICK cnt : g = [h EXCEPT !.rx_dupack_cnt = cnt]
      BY Zenon, <1>7, <2>1, <2>3, <2>4 DEF RxAck
    <3> QED
      BY <3>1 DEF TxAll
  <2>6. CASE b <= s
    <3>1. /\ h.tx_sent = s - b /\ h.tx_avail = v /\ h.txfin = f.txfin
          /\ h.tx_next_seq = f.tx_next_seq /\ h.tx_next_pos = f.tx_next_pos
      BY SMTT(60), <1>2, <1>3, <2>3, <2>6 DEF AckBytes, FlowState
    <3>2. Fewer(h, f, b)
      BY SMTT(60), <1>2, <3>1 DEF Fewer
    <3>3. AckedOf(h, w) = a + b
      <4>1. AckedIs(h, w, a + b)
        BY Zenon, <1>1, <3>2, AckedNew
      <4> QED
        BY Zenon, <4>1 DEF AckedIs
    <3>4. (a + b) + (s - b) = a + s /\ a + b >= 0
      OBVIOUS
    <3>5. \A k \in a + b .. w - 1 : buf[k % TxLen] = k
      <4>1. \A k \in a + b .. w - 1 : k \in a .. w - 1
        OBVIOUS
      <4> QED
        BY Zenon, <1>4, <4>1 DEF TxAt
    <3>6. TxStream(h, buf, i, w)
      BY Zenon, <1>4, <3>1, <3>3, <3>4, <3>5 DEF TxStream, TxAt
    <3>7. TxStream(g, buf, i, w) /\ AckedOf(g, w) = AckedOf(h, w)
      BY Zenon, <2>5, <3>6, TxFrame
    <3>8. a + b = a \/ a + b = y
      BY <2>2
    <3> QED
      BY Zenon, <1>2, <2>4, <3>3, <3>7, <3>8
  <2>7. CASE b > s
    <3>1. PICK fut \in Nat : fut = b - s
      BY <2>7
    <3>2. /\ h.tx_sent = 0 /\ h.tx_avail = v - fut /\ h.txfin = f.txfin
          /\ h.tx_next_seq = SeqAdd(f.tx_next_seq, fut)
          /\ h.tx_next_pos = Wrap(f.tx_next_pos + fut, TxLen)
      <4>1. ~ (b <= f.tx_sent)
        BY SMTT(60), <1>2, <2>7
      <4> QED
        BY SMTT(60), <1>2, <1>3, <2>3, <3>1, <4>1 DEF AckBytes, FlowState
    <3>3. Fewer(h, f, b)
      BY SMTT(60), <1>2, <3>1, <3>2 DEF Fewer
    <3>4. AckedOf(h, w) = a + b
      <4>1. AckedIs(h, w, a + b)
        BY Zenon, <1>1, <3>3, AckedNew
      <4> QED
        BY Zenon, <4>1 DEF AckedIs
    <3>5. (a + s) + fut = a + b /\ a + b >= 0 /\ (a + b) + 0 = a + b
      BY SMTT(60), <3>1
    <3>6. h.tx_next_seq = SeqAdd(i, a + b)
      <4>1. SeqAdd(SeqAdd(i, a + s), fut) = SeqAdd(i, (a + s) + fut)
        <5>1. a + s \in Nat /\ (a + s) + fut < SeqMod
          BY SMTT(60), <1>2, <2>2, <3>5, SeqModAssumption
        <5> QED
          BY Zenon, <1>3, <5>1, SeqAddAdd
      <4> QED
        BY Zenon, <1>4, <3>2, <3>5, <4>1 DEF TxAt
    <3>7. h.tx_next_pos = (a + b) % TxLen
      <4>1. TxLen \in Nat \ {0} /\ fut \in 0 .. TxLen /\ a + s \in Nat
        BY SMTT(60), <1>2, <2>2, <3>1, FlowAssumption
      <4>2. ((a + s) + fut) % TxLen = Wrap(((a + s) % TxLen) + fut, TxLen)
        BY Zenon, <4>1, ModAdd
      <4> QED
        BY Zenon, <1>4, <3>2, <3>5, <4>2 DEF TxAt
    <3>8. \A k \in a + b .. w - 1 : buf[k % TxLen] = k
      <4>1. \A k \in a + b .. w - 1 : k \in a .. w - 1
        OBVIOUS
      <4> QED
        BY Zenon, <1>4, <4>1 DEF TxAt
    <3>9. TxStream(h, buf, i, w)
      BY Zenon, <3>2, <3>4, <3>5, <3>6, <3>7, <3>8 DEF TxStream
    <3>10. TxStream(g, buf, i, w) /\ AckedOf(g, w) = AckedOf(h, w)
      BY Zenon, <2>5, <3>9, TxFrame
    <3>11. a + b = a \/ a + b = y
      BY <2>2
    <3> QED
      BY Zenon, <1>2, <2>4, <3>4, <3>10, <3>11
  <2> QED
    BY <2>6, <2>7
<1> QED
  BY SMTT(60), <1>6, <1>7

\* what the payload half leaves alone
Rest(g, f) == TxAll(g, f) /\ g.slowpath = f.slowpath /\ g.bump_seq = f.bump_seq

\* the payload half leaves the send side alone
LEMMA PayloadRest ==
  ASSUME NEW f, NEW p
  PROVE  Rest(RxPayload(f, p), f)
<1>0. \A q : Rest(q, q)
  BY DEF Rest, TxAll
<1>t. \A q, r, s : Rest(q, r) /\ Rest(r, s) => Rest(q, s)
  BY ZenonT(60) DEF Rest, TxAll
<1>1. \A q, k : Rest(RxAdvance(q, k), q)
  BY DEF RxAdvance, Rest, TxAll
<1>2. \A q, k : Rest([q EXCEPT !.rx_ooo_len = k], q)
  BY DEF Rest, TxAll
<1>3. \A q, k, l : Rest([q EXCEPT !.rx_ooo_start = k, !.rx_ooo_len = l], q)
  BY DEF Rest, TxAll
<1>4. \A q : Rest(RxMergeOoo(q), q)
  <2> TAKE q
  <2> DEFINE t == tcp_trim_rxbuf(q, q.rx_ooo_start, Uint16(q.rx_ooo_len))
             rest == [q EXCEPT !.rx_ooo_start = SeqAdd(@, t.trim_start),
                               !.rx_ooo_len = @ - (t.trim_start + t.trim_end)]
             a == RxAdvance(rest, rest.rx_ooo_len)
  <2>1. RxMergeOoo(q) =
          IF q.rx_ooo_len = 0 THEN q
          ELSE IF t.drop THEN [q EXCEPT !.rx_ooo_len = 0]
          ELSE IF rest.rx_ooo_len > 0 /\ rest.rx_ooo_start = rest.rx_next_seq
            THEN [a EXCEPT !.rx_ooo_len = 0]
          ELSE rest
    BY DEF RxMergeOoo
  <2>2. Rest(rest, q)
    BY DEF Rest, TxAll
  <2>3. Rest(a, rest)
    BY Zenon, <1>1
  <2> HIDE DEF rest, a
  <2>4. Rest([a EXCEPT !.rx_ooo_len = 0], q)
    BY Zenon, <1>2, <1>t, <2>2, <2>3
  <2>5. Rest([q EXCEPT !.rx_ooo_len = 0], q)
    BY Zenon, <1>2
  <2> QED
    BY Zenon, <1>0, <2>1, <2>2, <2>4, <2>5
<1>5. \A q : Rest(RxFin(q, p), q)
  BY DEF RxFin, Rest, TxAll
<1>6. Rest([f EXCEPT !.rx_remote_avail = p.wnd], f)
  BY DEF Rest, TxAll
<1>7. ASSUME NEW n PROVE Rest(RxInOrder(f, p, n), f)
  <2> DEFINE w == [f EXCEPT !.rx_remote_avail = p.wnd]
             m == RxMergeOoo(RxAdvance(w, n))
  <2>1. RxInOrder(f, p, n) =
          IF f.rxfin /\ n > 0 THEN w ELSE RxFin(IF n > 0 THEN m ELSE w, p)
    BY DEF RxInOrder
  <2>2. Rest(m, w)
    BY Zenon, <1>1, <1>4, <1>t
  <2>3. Rest(w, f)
    BY SMTT(60), <1>6
  <2> HIDE DEF w, m
  <2>4. Rest(RxFin(m, p), f) /\ Rest(RxFin(w, p), f)
    BY Zenon, <1>5, <1>t, <2>2, <2>3
  <2> QED
    BY Zenon, <2>1, <2>3, <2>4
<1>8. ASSUME NEW s, NEW n PROVE Rest(RxOutOfOrder(f, s, n), f)
  BY DEF RxOutOfOrder, Rest, TxAll
<1>9. RxPayload(f, p) = IF Outside(f, p) THEN f
                        ELSE IF InOrder(f, p) THEN RxInOrder(f, p, Bytes(f, p))
                        ELSE RxOutOfOrder(f, First(f, p), Bytes(f, p))
  BY DEF RxPayload, InOrder
<1> QED
  BY Zenon, <1>0, <1>7, <1>8, <1>9

-----------------------------------------------------------------------------
\* what an accepted update makes of flow f
Bumped(g, f, rx, tx, done) ==
  /\ g.tx_avail = f.tx_avail + tx /\ g.rx_avail = f.rx_avail + rx
  /\ g.txfin = (f.txfin \/ done)
  /\ g.tx_sent = f.tx_sent /\ g.tx_next_seq = f.tx_next_seq
  /\ g.tx_next_pos = f.tx_next_pos /\ g.rx_next_seq = f.rx_next_seq
  /\ g.rx_next_pos = f.rx_next_pos /\ g.rx_ooo_start = f.rx_ooo_start
  /\ g.rx_ooo_len = f.rx_ooo_len /\ g.rxfin = f.rxfin
  /\ g.slowpath = f.slowpath /\ g.bump_seq = 0

\* the updates the applications make here
CanBump(f, rx, tx, done) ==
  /\ rx \in Nat /\ tx \in Nat /\ done \in BOOLEAN /\ f.bump_seq = 0
  /\ f.txfin => tx = 0 /\ ~ done
  /\ done => tx # 0
  /\ f.tx_avail + tx + f.tx_sent <= TxLen /\ rx + f.rx_avail <= RxLen
  /\ RxLen <= TxLen

\* such an update is accepted, whole
LEMMA BumpIs ==
  ASSUME NEW f, FlowInv(f), NEW rx, NEW tx, NEW done, CanBump(f, rx, tx, done)
  PROVE  /\ Bumped(fast_flows_bump(f, Update(rx, tx, done)), f, rx, tx, done)
         /\ FlowInv(fast_flows_bump(f, Update(rx, tx, done)))
<1>0. /\ f \in FlowState /\ f.tx_avail \in 0 .. TxLen /\ f.tx_sent \in 0 .. TxLen
      /\ f.rx_avail \in 0 .. RxLen /\ f.txfin \in BOOLEAN
  BY DEF FlowInv, FlowState
<1>1. /\ rx \in Nat /\ tx \in Nat /\ done \in BOOLEAN /\ f.bump_seq = 0
      /\ f.txfin => tx = 0 /\ ~ done
      /\ done => tx # 0
      /\ f.tx_avail + tx + f.tx_sent <= TxLen /\ rx + f.rx_avail <= RxLen
      /\ RxLen <= TxLen
  BY Zenon DEF CanBump
<1>2. PICK b : /\ b = Update(rx, tx, done) /\ b.seq = 0 /\ b.rx = rx /\ b.tx = tx
               /\ b.done = done
  <2>1. PICK b : b = Update(rx, tx, done)
    BY SMTT(60)
  <2>2. b.seq = 0 /\ b.rx = rx /\ b.tx = tx /\ b.done = done
    BY <2>1 DEF Update
  <2> QED
    BY Zenon, <2>1, <2>2
<1>3. ~ StaleBump(f, b.seq)
  <2>1. ~ (0 - 0 > BumpMax \div 2) /\ ~ (0 < 0)
    BY SMTT(60), FlowAssumption
  <2> QED
    BY Zenon, <1>1, <1>2, <2>1 DEF StaleBump
<1>4. BumpTx(f, b) = tx
  BY Zenon, <1>1, <1>2 DEF BumpTx
<1>5. BumpValid(f, b)
  <2>1. rx <= RxLen /\ rx + f.rx_avail <= TxLen
    BY SMTT(60), <1>0, <1>1, FlowAssumption
  <2>2. ~ (done /\ ~ f.txfin /\ tx = 0)
    BY SMTT(60), <1>1
  <2> QED
    BY Zenon, <1>1, <1>2, <1>4, <2>1, <2>2 DEF BumpValid
<1>6. PICK g : g = fast_flows_bump(f, b)
  OBVIOUS
<1>7. g = [f EXCEPT !.bump_seq = 0, !.tx_avail = f.tx_avail + tx,
                    !.rx_avail = f.rx_avail + rx, !.txfin = f.txfin \/ done]
  BY Zenon, <1>2, <1>3, <1>4, <1>5, <1>6 DEF fast_flows_bump
<1>8. Bumped(g, f, rx, tx, done)
  BY SMTT(60), <1>0, <1>7 DEF Bumped, FlowState
<1>9. FlowInv(g)
  <2>1. b.seq \in 0 .. BumpMax /\ b.rx \in Nat /\ b.tx \in Nat /\ b.done \in BOOLEAN
        /\ b.rx + f.rx_avail <= RxLen
    BY SMTT(60), <1>1, <1>2, FlowAssumption
  <2> QED
    BY Zenon, <1>6, <2>1, BumpInv
<1> QED
  BY Zenon, <1>2, <1>6, <1>8, <1>9

\* an update leaves the receive side of a flow alone if it takes no bytes
LEMMA BumpedRx ==
  ASSUME NEW f, NEW g, NEW tx, NEW done, FlowInv(f), Bumped(g, f, 0, tx, done)
  PROVE  RxAll(g, f)
<1>1. f.rx_avail \in Int
  BY SMTT(60) DEF FlowInv, FlowState
<1>2. g.rx_avail = f.rx_avail
  BY SMTT(60), <1>1 DEF Bumped
<1> QED
  BY Zenon, <1>2 DEF Bumped, RxAll, RxKeeps

\* an update that only takes bytes leaves the send side alone
LEMMA BumpedTx ==
  ASSUME NEW f, NEW g, NEW rx, FlowInv(f), Bumped(g, f, rx, 0, FALSE)
  PROVE  TxAll(g, f)
<1>1. f.tx_avail \in Int /\ f.txfin \in BOOLEAN
  BY DEF FlowInv, FlowState
<1>2. g.tx_avail = f.tx_avail /\ g.txfin = f.txfin
  <2>1. f.tx_avail + 0 = f.tx_avail
    BY SMTT(60), <1>1
  <2>2. (f.txfin \/ FALSE) = f.txfin
    BY SMTT(60), <1>1
  <2> QED
    BY Zenon, <2>1, <2>2 DEF Bumped
<1> QED
  BY Zenon, <1>2 DEF Bumped, TxAll

\* the transmit buffer after the application has written n bytes
Filled(buf, w, n) ==
  [i \in DOMAIN buf |->
     LET k == ((i + w * TxLen) - w) % TxLen
     IN IF k < n THEN w + k ELSE buf[i]]

\* writing n bytes does not overwrite what is not acknowledged
LEMMA FillHolds ==
  ASSUME NEW buf \in [0 .. TxLen - 1 -> Nat], NEW w \in Nat, NEW n \in Nat,
         NEW a \in Nat, (w + n) - a <= TxLen, a <= w,
         \A k \in a .. w - 1 : buf[k % TxLen] = k
  PROVE  /\ Filled(buf, w, n) \in [0 .. TxLen - 1 -> Nat]
         /\ \A k \in a .. (w + n) - 1 : Filled(buf, w, n)[k % TxLen] = k
<1> DEFINE at(j) == ((j + w * TxLen) - w) % TxLen
<1>0. TxLen \in Nat \ {0}
  BY SMTT(60), FlowAssumption
<1>1. PICK res : res = Filled(buf, w, n)
  BY SMTT(60)
<1>2. res = [j \in 0 .. TxLen - 1 |-> IF at(j) < n THEN w + at(j) ELSE buf[j]]
  BY SMTT(60), <1>1 DEF Filled
<1>3. \A j \in 0 .. TxLen - 1 : at(j) \in 0 .. TxLen - 1
  <2> TAKE j \in 0 .. TxLen - 1
  <2>1. w * TxLen >= w /\ w * TxLen \in Nat
    BY SMTT(60), <1>0
  <2>2. (j + w * TxLen) - w \in Nat
    BY SMTT(60), <2>1
  <2> QED
    BY SMTT(60), <1>0, <2>2, ModDef
<1>4. \A k \in Nat : /\ k - w \in 0 .. TxLen - 1 => at(k % TxLen) = k - w
                     /\ w - k \in 1 .. TxLen => at(k % TxLen) = TxLen - (w - k)
  BY Zenon, <1>0, ModWrite
<1> HIDE DEF at
<1>5. res \in [0 .. TxLen - 1 -> Nat]
  <2>1. ASSUME NEW j \in 0 .. TxLen - 1
        PROVE  (IF at(j) < n THEN w + at(j) ELSE buf[j]) \in Nat
    <3>1. at(j) \in Nat /\ buf[j] \in Nat
      BY SMTT(60), <1>0, <1>3
    <3>2. w + at(j) \in Nat
      BY SMTT(60), <3>1
    <3> QED
      BY Zenon, <3>1, <3>2
  <2> QED
    BY <1>2, <2>1
<1>6. ASSUME NEW k \in a .. (w + n) - 1
      PROVE  res[k % TxLen] = k
  <2>1. k \in Nat /\ k % TxLen \in 0 .. TxLen - 1
    BY SMTT(60), <1>0, ModDef
  <2>2. PICK j \in 0 .. TxLen - 1 : j = k % TxLen
    BY SMTT(60), <2>1
  <2>3. res[j] = IF at(j) < n THEN w + at(j) ELSE buf[j]
    BY SMTT(60), <1>2
  <2>4. CASE k >= w
    <3>1. k - w \in 0 .. TxLen - 1
      BY SMTT(60), <1>0, <2>1, <2>4
    <3>2. at(j) = k - w
      BY SMTT(60), <1>4, <2>1, <2>2, <3>1
    <3> QED
      BY SMTT(60), <2>1, <2>2, <2>3, <2>4, <3>2
  <2>5. CASE k < w
    <3>1. w - k \in 1 .. TxLen /\ k \in a .. w - 1
      BY SMTT(60), <1>0, <2>1, <2>5
    <3>2. at(j) = TxLen - (w - k)
      BY SMTT(60), <1>4, <2>1, <2>2, <3>1
    <3>3. ~ (at(j) < n)
      BY SMTT(60), <1>0, <2>1, <3>1, <3>2
    <3>4. buf[j] = k
      BY SMTT(60), <2>2, <3>1
    <3> QED
      BY SMTT(60), <2>2, <2>3, <3>3, <3>4
  <2> QED
    BY SMTT(60), <2>1, <2>4, <2>5
<1> QED
  BY SMTT(60), <1>1, <1>5, <1>6

\* the send side keeps its place: the stream goes on from buffer buf and w
\* bytes, and as much of it is acknowledged as before
TxGoesOn(g, f, i, buf, w, before) ==
  TxSide(g, buf, i, w) /\ AckedOf(g, w) = AckedOf(f, before)

\* the application writes and fast_flows_bump takes the update
LEMMA WriteStream ==
  ASSUME NEW f, NEW buf, NEW i, NEW w, TxSide(f, buf, i, w), RxLen <= TxLen,
         f.bump_seq = 0, ~ f.txfin, NEW n \in Nat,
         n <= TxLen - (f.tx_avail + f.tx_sent), (w + n) + 1 < SeqMod
  PROVE  /\ TxGoesOn(fast_flows_bump(f, Update(0, n, FALSE)), f, i,
                     Filled(buf, w, n), w + n, w)
         /\ Bumped(fast_flows_bump(f, Update(0, n, FALSE)), f, 0, n, FALSE)
<1>1. PICK a, s, v, e \in Nat : TxNums(f, w, a, s, v, e)
  BY Zenon, TxRanges
<1>2. /\ a = AckedOf(f, w) /\ s = f.tx_sent /\ v = f.tx_avail /\ e = w + One(f.txfin)
      /\ a + s + v = e /\ s + v <= TxLen /\ w \in Nat
  BY Zenon, <1>1 DEF TxNums
<1>3. /\ FlowInv(f) /\ f \in FlowState /\ i \in SeqNum /\ buf \in [0 .. TxLen - 1 -> Nat]
      /\ f.txfin \in BOOLEAN /\ f.rx_avail \in 0 .. RxLen
  BY DEF TxSide, FlowInv, FlowState
<1>4. TxAt(f, buf, i, w, a, s)
  BY Zenon, <1>1, TxIs
<1>5. PICK g : g = fast_flows_bump(f, Update(0, n, FALSE))
  BY Zenon
<1>6. Bumped(g, f, 0, n, FALSE) /\ FlowInv(g)
  <2>1. f.tx_avail + n + f.tx_sent <= TxLen
    BY <1>2, FlowAssumption
  <2>2. 0 \in Nat /\ 0 + f.rx_avail <= RxLen
    BY <1>3, FlowAssumption
  <2>3. CanBump(f, 0, n, FALSE)
    BY Zenon, <2>1, <2>2 DEF CanBump
  <2> QED
    BY Zenon, <1>3, <1>5, <2>3, BumpIs
<1>7. /\ g.tx_sent = s /\ g.tx_avail = v + n /\ ~ g.txfin
      /\ g.tx_next_seq = f.tx_next_seq /\ g.tx_next_pos = f.tx_next_pos
  BY Zenon, <1>2, <1>6 DEF Bumped
<1>8. e = w
  BY <1>2 DEF One
<1>9. AckedOf(g, w + n) = a
  <2>1. AckedOf(g, w + n) = ((w + n) + 0) - ((v + n) + s)
    BY Zenon, <1>7 DEF AckedOf, One
  <2> QED
    BY <1>2, <1>8, <2>1
<1>10. PICK buf2 : buf2 = Filled(buf, w, n)
  OBVIOUS
<1>11. /\ buf2 \in [0 .. TxLen - 1 -> Nat]
       /\ \A k \in a .. (w + n) - 1 : buf2[k % TxLen] = k
  <2>1. (w + n) - a <= TxLen /\ a <= w
    BY <1>2, <1>8, FlowAssumption
  <2>2. \A k \in a .. w - 1 : buf[k % TxLen] = k
    BY Zenon, <1>4 DEF TxAt
  <2> QED
    BY Zenon, <1>2, <1>3, <1>10, <2>1, <2>2, FillHolds
<1>12. TxStream(g, buf2, i, w + n)
  <2>1. a >= 0
    BY SMTT(60)
  <2> QED
    BY Zenon, <1>4, <1>7, <1>9, <1>11, <2>1 DEF TxStream, TxAt
<1>13. w + n \in Nat
  BY <1>2
<1> QED
  BY ZenonT(60), <1>2, <1>3, <1>5, <1>6, <1>9, <1>10, <1>11, <1>12, <1>13 DEF TxSide, TxGoesOn

\* the application closes and fast_flows_bump takes the update
LEMMA CloseStream ==
  ASSUME NEW f, NEW buf, NEW i, NEW w, TxSide(f, buf, i, w), RxLen <= TxLen,
         f.bump_seq = 0, ~ f.txfin, TxLen - (f.tx_avail + f.tx_sent) > 0
  PROVE  /\ TxGoesOn(fast_flows_bump(f, Update(0, 1, TRUE)), f, i, buf, w, w)
         /\ Bumped(fast_flows_bump(f, Update(0, 1, TRUE)), f, 0, 1, TRUE)
<1>1. PICK a, s, v, e \in Nat : TxNums(f, w, a, s, v, e)
  BY Zenon, TxRanges
<1>2. /\ a = AckedOf(f, w) /\ s = f.tx_sent /\ v = f.tx_avail /\ e = w + One(f.txfin)
      /\ a + s + v = e /\ s + v <= TxLen /\ w \in Nat
  BY Zenon, <1>1 DEF TxNums
<1>3. /\ FlowInv(f) /\ f \in FlowState /\ i \in SeqNum /\ buf \in [0 .. TxLen - 1 -> Nat]
      /\ f.txfin \in BOOLEAN /\ f.rx_avail \in 0 .. RxLen /\ w + 1 < SeqMod
  BY DEF TxSide, FlowInv, FlowState
<1>4. TxAt(f, buf, i, w, a, s)
  BY Zenon, <1>1, TxIs
<1>5. PICK g : g = fast_flows_bump(f, Update(0, 1, TRUE))
  BY Zenon
<1>6. Bumped(g, f, 0, 1, TRUE) /\ FlowInv(g)
  <2>1. f.tx_avail + 1 + f.tx_sent <= TxLen
    BY <1>2, FlowAssumption
  <2>2. 0 \in Nat /\ 1 \in Nat /\ 1 # 0 /\ 0 + f.rx_avail <= RxLen
    BY <1>3, FlowAssumption
  <2>3. CanBump(f, 0, 1, TRUE)
    BY Zenon, <2>1, <2>2 DEF CanBump
  <2> QED
    BY Zenon, <1>3, <1>5, <2>3, BumpIs
<1>7. /\ g.tx_sent = s /\ g.tx_avail = v + 1 /\ g.txfin
      /\ g.tx_next_seq = f.tx_next_seq /\ g.tx_next_pos = f.tx_next_pos
  BY Zenon, <1>2, <1>6 DEF Bumped
<1>8. e = w
  BY <1>2 DEF One
<1>9. AckedOf(g, w) = a
  <2>1. AckedOf(g, w) = (w + 1) - ((v + 1) + s)
    BY Zenon, <1>7 DEF AckedOf, One
  <2> QED
    BY <1>2, <1>8, <2>1
<1>12. TxStream(g, buf, i, w)
  <2>1. a >= 0
    OBVIOUS
  <2> QED
    BY Zenon, <1>4, <1>7, <1>9, <2>1 DEF TxStream, TxAt
<1> QED
  BY Zenon, <1>2, <1>3, <1>5, <1>6, <1>9, <1>12 DEF TxSide, TxGoesOn

\* fast_flows_qman sends from the send buffer
LEMMA QmanStream ==
  ASSUME NEW f, NEW buf, NEW i, NEW w, TxSide(f, buf, i, w)
  PROVE  /\ TxGoesOn(fast_flows_qman(f), f, i, buf, w, w)
         /\ RxAll(fast_flows_qman(f), f)
         /\ fast_flows_qman(f).slowpath = f.slowpath
         /\ fast_flows_qman(f).bump_seq = f.bump_seq
         /\ fast_flows_qman(f).txfin = f.txfin
<1>1. PICK a, s, v, e \in Nat : TxNums(f, w, a, s, v, e)
  BY Zenon, TxRanges
<1>2. /\ a = AckedOf(f, w) /\ s = f.tx_sent /\ v = f.tx_avail /\ e = w + One(f.txfin)
      /\ a + s + v = e /\ s + v <= TxLen /\ w \in Nat /\ e < SeqMod
  BY Zenon, <1>1 DEF TxNums
<1>3. /\ FlowInv(f) /\ f \in FlowState /\ i \in SeqNum /\ buf \in [0 .. TxLen - 1 -> Nat]
      /\ w + 1 < SeqMod
  BY ZenonT(60) DEF TxSide, FlowInv
<1>4. TxAt(f, buf, i, w, a, s)
  BY Zenon, <1>1, TxIs
<1>5. PICK n \in Nat : n = SegBytes(f) /\ n <= v
  BY SMTT(60), <1>2, <1>3, AvailLemma, FlowAssumption
<1>6. PICK g : g = fast_flows_qman(f)
  OBVIOUS
<1>7. g = [f EXCEPT !.tx_next_seq = SeqAdd(@, n), !.tx_next_pos = Wrap(@ + n, TxLen),
                    !.tx_sent = @ + n, !.tx_avail = @ - n]
  BY Zenon, <1>5, <1>6 DEF fast_flows_qman
<1>8. /\ g.tx_sent = s + n /\ g.tx_avail = v - n /\ g.txfin = f.txfin
      /\ g.tx_next_seq = SeqAdd(f.tx_next_seq, n)
      /\ g.tx_next_pos = Wrap(f.tx_next_pos + n, TxLen)
      /\ g.slowpath = f.slowpath /\ g.bump_seq = f.bump_seq
  BY <1>2, <1>3, <1>7 DEF FlowState
<1>9. RxAll(g, f)
  BY SMTT(60), <1>3, <1>7 DEF FlowState, RxAll, RxKeeps
<1>10. AckedOf(g, w) = a
  <2>1. g.tx_avail + g.tx_sent = (f.tx_avail + f.tx_sent) - 0 /\ a + 0 = a /\ 0 \in Int
    BY SMTT(60), <1>2, <1>5, <1>8
  <2>2. Fewer(g, f, 0)
    BY Zenon, <1>8, <2>1 DEF Fewer
  <2>3. AckedIs(g, w, a + 0)
    BY Zenon, <1>1, <2>2, AckedNew
  <2> QED
    BY Zenon, <2>1, <2>3 DEF AckedIs
<1>11. (a + s) + n = a + (s + n) /\ a >= 0
  OBVIOUS
<1>12. g.tx_next_seq = SeqAdd(i, a + (s + n))
  <2>1. a + s \in Nat /\ (a + s) + n < SeqMod
    BY SMTT(60), <1>2, <1>5, SeqModAssumption
  <2>2. SeqAdd(SeqAdd(i, a + s), n) = SeqAdd(i, (a + s) + n)
    BY Zenon, <1>3, <2>1, SeqAddAdd
  <2> QED
    BY Zenon, <1>4, <1>8, <1>11, <2>2 DEF TxAt
<1>13. g.tx_next_pos = (a + (s + n)) % TxLen
  <2>1. TxLen \in Nat \ {0} /\ n \in 0 .. TxLen /\ a + s \in Nat
    BY SMTT(60), <1>2, <1>5, FlowAssumption
  <2>2. ((a + s) + n) % TxLen = Wrap(((a + s) % TxLen) + n, TxLen)
    BY Zenon, <2>1, ModAdd
  <2> QED
    BY Zenon, <1>4, <1>8, <1>11, <2>2 DEF TxAt
<1>14. TxStream(g, buf, i, w)
  BY Zenon, <1>4, <1>8, <1>10, <1>11, <1>12, <1>13 DEF TxStream, TxAt
<1>15. FlowInv(g)
  BY Zenon, <1>3, <1>6, QmanInv
<1> QED
  BY ZenonT(60), <1>2, <1>3, <1>6, <1>8, <1>9, <1>10, <1>14, <1>15 DEF TxSide, TxGoesOn

\* the bytes flow_tx_read takes from the transmit buffer
LEMMA ReadBytes ==
  ASSUME NEW buf \in [0 .. TxLen - 1 -> Nat], NEW x \in Nat, NEW n \in Nat,
         n <= TxLen, \A k \in x .. (x + n) - 1 : buf[k % TxLen] = k
  PROVE  /\ Len(flow_tx_read(buf, x % TxLen, n)) = n
         /\ BytesFrom(flow_tx_read(buf, x % TxLen, n), x)
<1>0. TxLen \in Nat \ {0}
  BY SMTT(60), FlowAssumption
<1>1. PICK r \in 0 .. TxLen - 1 : r = x % TxLen
  BY Zenon, <1>0, ModDef
<1>2. PICK d : d = flow_tx_read(buf, r, n)
  OBVIOUS
<1>3. d = [k \in 1 .. n |-> buf[(r + k - 1) % TxLen]]
  BY <1>2 DEF flow_tx_read
<1>4. ASSUME NEW k \in 1 .. n
      PROVE  buf[(r + k - 1) % TxLen] = x + k - 1
  <2>1. PICK j \in Nat : j = k - 1 /\ j \in 0 .. TxLen /\ r \in Nat
    BY <1>0
  <2>2. (x + j) % TxLen = Wrap((x % TxLen) + j, TxLen)
    BY Zenon, <1>0, <2>1, ModAdd
  <2>3. (r + j) % TxLen = Wrap(r + j, TxLen)
    <3>1. (r + j) % TxLen = Wrap((r % TxLen) + j, TxLen)
      BY Zenon, <1>0, <2>1, ModAdd
    <3>2. r % TxLen = r
      BY Zenon, <1>0, ModSmall
    <3> QED
      BY Zenon, <3>1, <3>2
  <2>4. (r + j) % TxLen = (x + j) % TxLen
    BY Zenon, <1>1, <2>2, <2>3
  <2>5. x + j \in x .. (x + n) - 1 /\ r + k - 1 = r + j /\ x + k - 1 = x + j
    BY <2>1
  <2>6. buf[(x + j) % TxLen] = x + j
    BY Zenon, <2>5
  <2> QED
    BY Zenon, <2>4, <2>5, <2>6
<1>5. d \in Seq(Nat) /\ Len(d) = n
  <2>1. d \in [1 .. n -> Nat]
    <3>1. \A k \in 1 .. n : x + k - 1 \in Nat
      OBVIOUS
    <3> QED
      BY Zenon, <1>3, <1>4, <3>1
  <2> QED
    BY <2>1
<1>6. \A k \in 1 .. Len(d) : d[k] = x + k - 1
  BY <1>3, <1>4, <1>5
<1> QED
  BY Zenon, <1>1, <1>2, <1>5, <1>6 DEF BytesFrom

\* segment m may be under way in a stream that starts at i
Sends(m, i, w, closed) ==
  /\ m.seg \in Segment /\ m.seg.kind = "data"
  /\ \E x \in 0 .. w + One(closed) : SegAt(m, i, w, closed, x)

\* the window a segment announces
LEMMA WndType ==
  ASSUME NEW f \in FlowState
  PROVE  Min2(WndMax, f.rx_avail) \in 0 .. WndMax
<1>1. f.rx_avail \in 0 .. RxLen
  BY DEF FlowState
<1> QED
  BY <1>1, FlowAssumption DEF Min2

\* a segment the fast path builds
LEMMA SegType ==
  ASSUME NEW seq \in SeqNum, NEW ack \in SeqNum, NEW wnd \in 0 .. WndMax,
         NEW fin \in BOOLEAN, NEW len \in 0 .. Mss
  PROVE  [kind |-> "data", seq |-> seq, ack |-> ack, wnd |-> wnd, fin |-> fin,
          len |-> len] \in Segment
  BY DEF Segment

\* an acknowledgement carries the number of the next byte to send
LEMMA AckSends ==
  ASSUME NEW f, NEW buf, NEW i, NEW w, TxSide(f, buf, i, w)
  PROVE  Sends([seg |-> flow_tx_ack(f), data |-> <<>>], i, w, f.txfin)
<1>1. PICK a, s, v, e \in Nat : TxNums(f, w, a, s, v, e)
  BY Zenon, TxRanges
<1>2. /\ a + s + v = e /\ e = w + One(f.txfin)
  BY Zenon, <1>1 DEF TxNums
<1>3. f \in FlowState
  BY Zenon DEF TxSide, FlowInv
<1>4. TxAt(f, buf, i, w, a, s)
  BY Zenon, <1>1, TxIs
<1>5. PICK m : m = [seg |-> flow_tx_ack(f), data |-> <<>>]
  BY Zenon
<1>6. m.seg = flow_tx_ack(f) /\ m.data = <<>>
  BY <1>5
<1>7. /\ m.seg.kind = "data" /\ m.seg.seq = f.tx_next_seq /\ m.seg.fin = FALSE
      /\ m.seg.len = 0
  BY <1>6 DEF flow_tx_ack
<1>8. m.seg \in Segment
  <2>1. f.tx_next_seq \in SeqNum /\ f.rx_next_seq \in SeqNum /\ 0 \in 0 .. Mss
    BY <1>3, FlowAssumption DEF FlowState
  <2>2. Min2(WndMax, f.rx_avail) \in 0 .. WndMax
    BY SMTT(60), <1>3, WndType
  <2>3. FALSE \in BOOLEAN
    BY Zenon
  <2>4. flow_tx_ack(f) \in Segment
    BY Zenon, <2>1, <2>2, <2>3, SegType DEF flow_tx_ack
  <2> QED
    BY Zenon, <1>6, <2>4
<1>9. PICK x \in Nat : x = a + s /\ x <= e /\ x \in 0 .. e
  <2>1. a + s \in Nat /\ a + s <= e /\ a + s \in 0 .. e
    BY <1>2
  <2> QED
    BY Zenon, <2>1
<1>10. SegAt(m, i, w, f.txfin, x)
  <2>1. m.seg.seq = SeqAdd(i, x)
    BY Zenon, <1>4, <1>7, <1>9 DEF TxAt
  <2>2. x + m.seg.len + One(m.seg.fin) <= e
    BY SMTT(60), <1>7, <1>9 DEF One
  <2>3. ~ (m.seg.len > 0) /\ ~ m.seg.fin
    BY SMTT(60), <1>7
  <2>4. Len(m.data) = m.seg.len /\ BytesFrom(m.data, x)
    BY SMTT(60), <1>6, <1>7 DEF BytesFrom
  <2> QED
    BY Zenon, <1>2, <2>1, <2>2, <2>3, <2>4 DEF SegAt
<1> QED
  BY ZenonT(60), <1>2, <1>5, <1>7, <1>8, <1>9, <1>10 DEF Sends

\* the segment fast_flows_qman sends
DataSeg(f, buf) ==
  [seg |-> flow_tx_segment(f),
   data |-> flow_tx_read(buf, f.tx_next_pos, flow_tx_segment(f).len)]

\* a data segment carries the bytes its sequence number says
LEMMA SegSends ==
  ASSUME NEW f, NEW buf, NEW i, NEW w, TxSide(f, buf, i, w), Avail(f) > 0
  PROVE  Sends(DataSeg(f, buf), i, w, f.txfin)
<1>1. PICK a, s, v, e \in Nat : TxNums(f, w, a, s, v, e)
  BY Zenon, TxRanges
<1>2. /\ a + s + v = e /\ e = w + One(f.txfin) /\ v = f.tx_avail /\ s + v <= TxLen
      /\ w \in Nat
  BY Zenon, <1>1 DEF TxNums
<1>3. f \in FlowState /\ buf \in [0 .. TxLen - 1 -> Nat] /\ f.txfin \in BOOLEAN
  BY DEF TxSide, FlowInv, FlowState
<1>4. TxAt(f, buf, i, w, a, s)
  BY Zenon, <1>1, TxIs
<1>5. PICK n \in Nat : n = SegBytes(f) /\ n <= v /\ n <= Mss /\ n > 0
  <2>1. SegBytes(f) = Min2(Avail(f), Mss) /\ Avail(f) \in 0 .. TxLen /\ Avail(f) <= v
    BY SMTT(60), <1>2, <1>3, AvailLemma
  <2> QED
    BY SMTT(60), <2>1, FlowAssumption DEF Min2
<1>6. PICK fin \in BOOLEAN : fin = SegFin(f)
  BY Zenon DEF SegFin
<1>b. fin <=> f.txfin /\ v = n
  BY Zenon, <1>2, <1>5, <1>6 DEF SegFin
<1>7. PICK l \in Nat : l = (IF fin THEN n - 1 ELSE n) /\ l + One(fin) = n
  BY SMTT(60), <1>5 DEF One
<1>8. PICK m : m = DataSeg(f, buf)
  BY SMTT(60)
<1>9. m.seg = flow_tx_segment(f) /\ m.data = flow_tx_read(buf, f.tx_next_pos, m.seg.len)
  BY SMTT(60), <1>8 DEF DataSeg
<1>10. /\ m.seg.kind = "data" /\ m.seg.seq = f.tx_next_seq /\ m.seg.fin = fin
       /\ m.seg.len = l
  <2>1. m.seg = [kind |-> "data", seq |-> f.tx_next_seq, ack |-> f.rx_next_seq,
                 wnd |-> Min2(WndMax, f.rx_avail), fin |-> fin, len |-> l]
    BY ZenonT(60), <1>5, <1>6, <1>7, <1>9 DEF flow_tx_segment
  <2> QED
    BY SMTT(60), <2>1
<1>11. m.seg \in Segment
  <2>1. f.tx_next_seq \in SeqNum /\ f.rx_next_seq \in SeqNum
    BY SMTT(60), <1>3 DEF FlowState
  <2>2. l \in 0 .. Mss
    BY SMTT(60), <1>5, <1>7, FlowAssumption
  <2>3. Min2(WndMax, f.rx_avail) \in 0 .. WndMax
    BY SMTT(60), <1>3, WndType
  <2>4. m.seg = [kind |-> "data", seq |-> f.tx_next_seq, ack |-> f.rx_next_seq,
                 wnd |-> Min2(WndMax, f.rx_avail), fin |-> fin, len |-> l]
    BY Zenon, <1>5, <1>6, <1>7, <1>9 DEF flow_tx_segment
  <2> QED
    BY SMTT(60), <2>1, <2>2, <2>3, <2>4, SegType
<1>12. PICK x \in Nat : x = a + s /\ x \in 0 .. e
  <2>1. a + s \in Nat /\ a + s \in 0 .. e
    BY SMTT(60), <1>2
  <2> QED
    BY Zenon, <2>1
<1>13. SegAt(m, i, w, f.txfin, x)
  <2>1. m.seg.seq = SeqAdd(i, x)
    BY Zenon, <1>4, <1>10, <1>12 DEF TxAt
  <2>2. x + m.seg.len + One(m.seg.fin) <= e
    <3>1. One(fin) \in Nat
      BY SMTT(60) DEF One
    <3>2. x + l + One(fin) <= e
      BY SMTT(60), <1>2, <1>5, <1>7, <1>12, <3>1
    <3> QED
      BY Zenon, <1>10, <3>2
  <2>3. /\ l > 0 => x + l <= w
        /\ fin => f.txfin /\ x + l = w
    <3>1. CASE fin
      <4>1. f.txfin /\ v = n
        BY Zenon, <1>b, <3>1
      <4>2. e = w + 1 /\ l = n - 1
        BY Zenon, <1>2, <1>7, <3>1, <4>1 DEF One
      <4>3. x + l = w
        <5>1. a + s + v = e /\ w \in Nat /\ x = a + s
          BY Zenon, <1>2, <1>12
        <5>2. v = n /\ e = w + 1 /\ l = n - 1
          BY Zenon, <4>1, <4>2
        <5> QED
          BY SMTT(60), <5>1, <5>2
      <4>4. x + l <= w
        BY SMTT(60), <1>2, <4>3
      <4> QED
        BY Zenon, <4>1, <4>3, <4>4
    <3>2. CASE ~ fin
      <4>0. l = n /\ (~ f.txfin \/ n # v)
        BY Zenon, <1>b, <1>7, <3>2
      <4>1. l = n /\ (~ f.txfin \/ n < v)
        BY SMTT(60), <1>5, <4>0
      <4>2. e = w \/ (e = w + 1 /\ n < v)
        BY SMTT(60), <1>2, <1>3, <4>1 DEF One
      <4> QED
        BY SMTT(60), <1>2, <1>5, <1>12, <3>2, <4>1, <4>2
    <3> QED
      BY SMTT(60), <3>1, <3>2
  <2>4. Len(m.data) = l /\ BytesFrom(m.data, x)
    <3>1. l <= TxLen
      BY SMTT(60), <1>2, <1>5, <1>7, FlowAssumption
    <3>2. \A k \in x .. (x + l) - 1 : k \in a .. w - 1
      BY SMTT(60), <1>2, <1>12, <2>3
    <3>3. \A k \in x .. (x + l) - 1 : buf[k % TxLen] = k
      BY Zenon, <1>4, <3>2 DEF TxAt
    <3>4. m.data = flow_tx_read(buf, x % TxLen, l)
      BY ZenonT(60), <1>4, <1>9, <1>10, <1>12 DEF TxAt
    <3>5. /\ Len(flow_tx_read(buf, x % TxLen, l)) = l
          /\ BytesFrom(flow_tx_read(buf, x % TxLen, l), x)
      BY Zenon, <1>3, <3>1, <3>3, ReadBytes
    <3> QED
      BY Zenon, <3>4, <3>5
  <2> QED
    BY ZenonT(60), <1>2, <1>10, <2>1, <2>2, <2>3, <2>4 DEF SegAt
<1> QED
  BY ZenonT(60), <1>2, <1>8, <1>10, <1>11, <1>12, <1>13 DEF Sends

-----------------------------------------------------------------------------
\* a stream of w bytes, closed or not, has become one of w2 bytes
Grows(w, c, w2, c2) ==
  /\ w \in Nat /\ w2 \in Nat /\ c \in BOOLEAN /\ c2 \in BOOLEAN
  /\ w <= w2 /\ (c => c2 /\ w2 = w)

\* the receive side stands when the peer writes or closes
LEMMA RxGrow ==
  ASSUME NEW f, NEW buf, NEW i, NEW o, NEW w, NEW c, NEW w2, NEW c2,
         RxSide(f, buf, i, o, w, c), Grows(w, c, w2, c2), w2 + 1 + RxLen < SeqMod
  PROVE  RxSide(f, buf, i, o, w2, c2)
<1>1. /\ w \in Nat /\ w2 \in Nat /\ c \in BOOLEAN /\ c2 \in BOOLEAN
      /\ w <= w2 /\ (c => c2 /\ w2 = w)
  BY Zenon DEF Grows
<1>2. /\ FlowInv(f) /\ f \in FlowState /\ buf \in [0 .. RxLen - 1 -> Nat]
      /\ Ctx(i, o, w, c) /\ RxStream(f, buf, i, o, w, c) /\ RxBytes(f, buf, i, o, w, c)
  BY Zenon DEF RxSide, FlowInv, RxStream
<1>3. PICK g \in Nat : g = GotOf(f, o) /\ g <= w
  BY Zenon, <1>2, RxRanges
<1>4. g <= w2
  BY <1>1, <1>3
<1>5. RxBytes(f, buf, i, o, w2, c2)
  BY Zenon, <1>1, <1>2, <1>3, <1>4 DEF RxBytes
<1>6. ASSUME f.rx_ooo_len > 0
      PROVE  \E st \in GotOf(f, o) + 1 .. w2 : OooAt(f, buf, i, o, w2, st)
  <2>1. PICK st \in g + 1 .. w : OooAt(f, buf, i, o, w, st)
    BY Zenon, <1>2, <1>3, <1>6 DEF RxStream
  <2>2. st \in g + 1 .. w2
    BY SMTT(60), <1>1, <1>3
  <2>3. f.rx_ooo_len \in Nat
    BY SMTT(60), <1>2, FlowAssumption DEF FlowState
  <2>4. st + f.rx_ooo_len <= w
    BY Zenon, <2>1 DEF OooAt
  <2>5. st + f.rx_ooo_len <= w2
    BY SMTT(60), <1>1, <1>3, <2>3, <2>4
  <2>6. OooAt(f, buf, i, o, w2, st)
    BY Zenon, <2>1, <2>5 DEF OooAt
  <2> QED
    BY Zenon, <1>3, <2>2, <2>6
<1>7. RxStream(f, buf, i, o, w2, c2)
  BY Zenon, <1>5, <1>6 DEF RxStream
<1>8. Ctx(i, o, w2, c2)
  BY Zenon, <1>1, <1>2 DEF Ctx
<1> QED
  BY Zenon, <1>2, <1>7, <1>8 DEF RxSide

\* and so do the segments under way
LEMMA SendsGrow ==
  ASSUME NEW p, NEW i, NEW w, NEW c, NEW w2, NEW c2,
         Sends(p, i, w, c), Grows(w, c, w2, c2)
  PROVE  Sends(p, i, w2, c2)
<1>1. /\ w \in Nat /\ w2 \in Nat /\ c \in BOOLEAN /\ c2 \in BOOLEAN
      /\ w <= w2 /\ (c => c2 /\ w2 = w)
  BY Zenon DEF Grows
<1>2. p.seg \in Segment /\ p.seg.kind = "data"
  BY Zenon DEF Sends
<1>3. p.seg.len \in Nat /\ p.seg.fin \in BOOLEAN
  BY Zenon, <1>2, SegFields
<1>4. PICK x \in 0 .. w + One(c) : SegAt(p, i, w, c, x)
  BY Zenon DEF Sends
<1>5. /\ One(c) \in 0 .. 1 /\ One(c2) \in 0 .. 1 /\ One(p.seg.fin) \in 0 .. 1
      /\ w + One(c) <= w2 + One(c2)
  BY SMTT(60), <1>1, <1>3 DEF One
<1>6. /\ x + p.seg.len + One(p.seg.fin) <= w + One(c)
      /\ p.seg.len > 0 => x + p.seg.len <= w
      /\ p.seg.fin => c /\ x + p.seg.len = w
      /\ p.seg.seq = SeqAdd(i, x)
      /\ Len(p.data) = p.seg.len /\ BytesFrom(p.data, x)
  BY ZenonT(60), <1>4 DEF SegAt
<1>7. x + p.seg.len + One(p.seg.fin) <= w2 + One(c2)
  BY SMTT(60), <1>1, <1>3, <1>5, <1>6
<1>8. p.seg.len > 0 => x + p.seg.len <= w2
  BY SMTT(60), <1>1, <1>3, <1>5, <1>6
<1>9. p.seg.fin => c2 /\ x + p.seg.len = w2
  BY Zenon, <1>1, <1>6
<1>10. SegAt(p, i, w2, c2, x)
  BY ZenonT(60), <1>6, <1>7, <1>8, <1>9 DEF SegAt
<1>11. x \in 0 .. w2 + One(c2)
  BY SMTT(60), <1>1, <1>5
<1> QED
  BY Zenon, <1>2, <1>10, <1>11 DEF Sends

\* segment p acknowledges at most the first next bytes of the stream from j
Acks(p, j, next) == \E y \in 0 .. next : p.seg.ack = SeqAdd(j, y)

\* an acknowledgement stays right as more bytes arrive
LEMMA AcksGrow ==
  ASSUME NEW p, NEW j, NEW m \in Nat, NEW n \in Nat, m <= n, Acks(p, j, m)
  PROVE  Acks(p, j, n)
<1>1. PICK y \in 0 .. m : p.seg.ack = SeqAdd(j, y)
  BY Zenon DEF Acks
<1>2. y \in 0 .. n
  BY SMTT(60)
<1> QED
  BY Zenon, <1>1, <1>2 DEF Acks

\* what is expected next is not beyond the end of the peer's stream
LEMMA NextBound ==
  ASSUME NEW f, NEW buf, NEW i, NEW o, NEW w, NEW c, RxSide(f, buf, i, o, w, c)
  PROVE  NextOf(f, o) \in Nat /\ NextOf(f, o) <= w + One(c)
<1>1. f \in FlowState /\ Ctx(i, o, w, c) /\ RxBytes(f, buf, i, o, w, c)
  BY Zenon DEF RxSide, FlowInv, RxStream
<1>2. /\ GotOf(f, o) \in Nat /\ GotOf(f, o) <= w /\ NextOf(f, o) \in Nat
      /\ ~ f.rxfin => NextOf(f, o) = GotOf(f, o)
      /\ f.rxfin => c /\ NextOf(f, o) = w + 1
  BY ZenonT(60), <1>1, RxRanges
<1>3. w \in Nat /\ c \in BOOLEAN
  BY Zenon, <1>1 DEF Ctx
<1>4. One(c) \in 0 .. 1 /\ (c => One(c) = 1)
  BY <1>3 DEF One
<1> QED
  BY SMTT(60), <1>2, <1>3, <1>4

\* a segment that carries rx_next_seq acknowledges what has arrived
LEMMA AcksNext ==
  ASSUME NEW f, NEW buf, NEW i, NEW o, NEW w, NEW c, RxSide(f, buf, i, o, w, c),
         NEW p, p.seg.ack = f.rx_next_seq
  PROVE  Acks(p, i, NextOf(f, o))
<1>1. NextOf(f, o) \in Nat
  BY Zenon, NextBound
<1>2. NextOf(f, o) \in 0 .. NextOf(f, o)
  BY SMTT(60), <1>1
<1>3. f.rx_next_seq = SeqAdd(i, NextOf(f, o))
  BY Zenon DEF RxSide, RxStream, RxBytes
<1> QED
  BY Zenon, <1>2, <1>3 DEF Acks
=============================================================================
