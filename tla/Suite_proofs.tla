---------------------------- MODULE Suite_proofs ----------------------------
(***************************************************************************)
(* The structures side by side, as MC_Structures composes them: a step of  *)
(* the whole is a step of one of them and leaves the others alone, so what *)
(* is proved of each alone holds of all behaviours of the composition.     *)
(***************************************************************************)
EXTENDS MC_Structures, TLAPS

-----------------------------------------------------------------------------

\* the receive buffer and a segment together are smaller than the sequence
\* space, which has 2^32 numbers in the code
TcpFits == MaxBuf \in Nat /\ MaxLen \in Nat /\ MaxBuf + MaxLen < SeqMod

\* a flow and a segment whose sizes are within the bounds
TcpOK == /\ fs \in Flow /\ fs.tx_sent + fs.tx_avail <= MaxBuf
         /\ pkt \in Segment

\* a byte of the packet that lies in the window is not cut off
LEMMA UsableKept ==
  ASSUME NEW s, s.rx_next_seq \in SeqNum, s.rx_avail \in Nat,
         NEW seq \in SeqNum, NEW n \in Nat, s.rx_avail + n < SeqMod,
         NEW i \in 0 .. s.rx_avail - 1, NEW j \in 0 .. n - 1,
         SeqAdd(s.rx_next_seq, i) = SeqAdd(seq, j),
         NEW t, t = tcp_trim_rxbuf(s, seq, n)
  PROVE  ~ t.drop /\ t.trim_start <= j /\ j <= n - t.trim_end - 1
<1>1. SeqMod \in Nat /\ s.rx_next_seq \in Nat /\ s.rx_next_seq < SeqMod
      /\ seq \in Nat /\ seq < SeqMod
  BY SeqModAssumption DEF SeqNum
<1> DEFINE sa == s.rx_next_seq
           sb == SeqAdd(s.rx_next_seq, s.rx_avail)
           pb == SeqAdd(seq, n)
<1>2. CASE ~ (seq > pb) /\ ~ (sa > sb)
  BY <1>1, <1>2, SMTT(60) DEF tcp_trim_rxbuf, SeqAdd, SeqSub
<1>3. CASE seq > pb /\ ~ (sa > sb)
  BY <1>1, <1>3, SMTT(60) DEF tcp_trim_rxbuf, SeqAdd, SeqSub
<1>4. CASE ~ (seq > pb) /\ sa > sb
  BY <1>1, <1>4, SMTT(60) DEF tcp_trim_rxbuf, SeqAdd, SeqSub
<1>5. CASE seq > pb /\ sa > sb
  BY <1>1, <1>5, SMTT(60) DEF tcp_trim_rxbuf, SeqAdd, SeqSub
<1> QED
  BY <1>2, <1>3, <1>4, <1>5

\* what is kept of a packet that begins at the next byte fits the window
LEMMA InOrderFits ==
  ASSUME NEW s, s.rx_next_seq \in SeqNum, s.rx_avail \in Nat,
         NEW seq \in SeqNum, NEW n \in Nat, s.rx_avail + n < SeqMod,
         NEW t, t = tcp_trim_rxbuf(s, seq, n), ~ t.drop,
         SeqAdd(seq, t.trim_start) = s.rx_next_seq
  PROVE  /\ t.trim_start \in Nat /\ t.trim_end \in Nat
         /\ (n - t.trim_end) - t.trim_start <= s.rx_avail
<1>1. PICK a \in Nat : a = s.rx_next_seq /\ a < SeqMod
  BY SeqModAssumption DEF SeqNum
<1>2. PICK v \in Nat : v = s.rx_avail /\ v + n < SeqMod
  OBVIOUS
<1>3. seq \in Nat /\ seq < SeqMod /\ SeqMod \in Nat
  BY SeqModAssumption DEF SeqNum
<1>4. PICK b \in Nat : b = SeqAdd(a, v)
  BY <1>1, <1>2, <1>3 DEF SeqAdd
<1>5. PICK q \in Nat : q = SeqAdd(seq, n)
  BY <1>2, <1>3 DEF SeqAdd
<1>6. /\ t.trim_start = 0 \/ t.trim_start = SeqSub(a, seq)
      /\ t.trim_end = 0 \/ t.trim_end = SeqSub(q, b)
      /\ t.trim_end # SeqSub(q, b) =>
           /\ ((seq > q <=> a > b) => ~ (q > b))
           /\ ~ (seq > q) /\ a > b => ~ (q >= b /\ q < a)
           /\ seq > q /\ ~ (a > b) => ~ (q > b \/ a >= seq)
  BY <1>1, <1>2, <1>4, <1>5 DEF tcp_trim_rxbuf
<1>7. t.trim_start \in Nat /\ t.trim_end \in Nat
      /\ t.trim_start < SeqMod /\ t.trim_end < SeqMod
  BY <1>1, <1>2, <1>3, <1>4, <1>5, <1>6 DEF SeqAdd, SeqSub
<1>8. t.trim_start = SeqSub(a, seq)
  BY <1>1, <1>3, <1>7 DEF SeqAdd, SeqSub
<1>9. t.drop = FALSE => ~ (~ (seq > q) /\ ~ (a > b) /\ (q < a \/ seq > b))
                     /\ ~ ((seq > q <=> ~ (a > b)) /\ seq > b /\ q < a)
  BY <1>1, <1>2, <1>4, <1>5 DEF tcp_trim_rxbuf
<1>10. CASE t.trim_end = SeqSub(q, b)
  BY <1>1, <1>2, <1>3, <1>4, <1>5, <1>8, <1>9, <1>10, SMTT(60) DEF SeqAdd, SeqSub
<1>11. CASE t.trim_end # SeqSub(q, b)
  BY <1>1, <1>2, <1>3, <1>4, <1>5, <1>6, <1>8, <1>9, <1>11, SMTT(60) DEF SeqAdd, SeqSub
<1> QED
  BY <1>2, <1>7, <1>10, <1>11

\* an acknowledgement is valid if and only if it is in the range, and the bump
\* is its place there
LEMMA AckExact ==
  ASSUME NEW s, s.tx_next_seq \in SeqNum, s.tx_sent \in Nat, s.tx_avail \in Nat,
         s.tx_sent + s.tx_avail < SeqMod, NEW ack \in SeqNum
  PROVE  /\ tcp_valid_rxack(s, ack) => /\ rxack_bump(s, ack) \in 0 .. s.tx_sent + s.tx_avail
                                       /\ SeqAdd(fsack_a(s), rxack_bump(s, ack)) = ack
         /\ \A i \in 0 .. s.tx_sent + s.tx_avail :
              SeqAdd(fsack_a(s), i) = ack => tcp_valid_rxack(s, ack)
<1>1. SeqMod \in Nat /\ s.tx_next_seq \in Nat /\ s.tx_next_seq < SeqMod
      /\ ack \in Nat /\ ack < SeqMod
  BY SeqModAssumption DEF SeqNum
<1>2. ASSUME tcp_valid_rxack(s, ack)
      PROVE  /\ rxack_bump(s, ack) \in 0 .. s.tx_sent + s.tx_avail
             /\ SeqAdd(fsack_a(s), rxack_bump(s, ack)) = ack
  BY <1>1, <1>2, SMTT(60) DEF tcp_valid_rxack, rxack_bump, fsack_a, SeqAdd, SeqSub
<1>3. ASSUME NEW i \in 0 .. s.tx_sent + s.tx_avail, SeqAdd(fsack_a(s), i) = ack
      PROVE  tcp_valid_rxack(s, ack)
  BY <1>1, <1>3, SMTT(60) DEF tcp_valid_rxack, fsack_a, SeqAdd, SeqSub
<1> QED
  BY <1>2, <1>3

\* the property holds of every flow and segment
LEMMA TcpExact == TcpFits /\ TcpOK => IntervalsExact
<1> SUFFICES ASSUME TcpFits, TcpOK PROVE IntervalsExact
  OBVIOUS
<1>1. /\ fs.rx_next_seq \in SeqNum /\ fs.rx_avail \in Nat /\ fs.rx_avail <= MaxBuf
      /\ fs.tx_next_seq \in SeqNum /\ fs.tx_sent \in Nat /\ fs.tx_avail \in Nat
  BY SeqModAssumption DEF TcpFits, TcpOK, Flow, Buf, SeqNum
<1>2. /\ pkt.seq \in SeqNum /\ pkt.len \in Nat /\ pkt.len <= MaxLen
      /\ pkt.ack \in SeqNum
  BY SeqModAssumption DEF TcpFits, TcpOK, Segment, SeqNum
<1>3. /\ fs.rx_avail + pkt.len < SeqMod
      /\ fs.tx_sent + fs.tx_avail < SeqMod
  BY <1>1, <1>2, SeqModAssumption DEF TcpFits, TcpOK
<1>4. Usable \subseteq Kept
  <2> SUFFICES ASSUME NEW x, x \in Interval(pkt.seq, pkt.len),
                      x \in Interval(fs.rx_next_seq, fs.rx_avail)
               PROVE  x \in Kept
    BY Zenon DEF Usable, Window
  <2>1. PICK j \in 0 .. pkt.len - 1 : x = SeqAdd(pkt.seq, j)
    BY Zenon DEF Interval
  <2>2. PICK i \in 0 .. fs.rx_avail - 1 : x = SeqAdd(fs.rx_next_seq, i)
    BY Zenon DEF Interval
  <2>3. ~ trim.drop /\ trim.trim_start <= j /\ j <= pkt.len - trim.trim_end - 1
    <3>1. SeqAdd(fs.rx_next_seq, i) = SeqAdd(pkt.seq, j)
      BY Zenon, <2>1, <2>2
    <3> QED
      BY Zenon, <1>1, <1>2, <1>3, <3>1, UsableKept DEF trim
  <2>4. trim.trim_start \in Int /\ trim.trim_end \in Int
    <3>1. /\ SeqSub(fs.rx_next_seq, pkt.seq) \in Int
          /\ SeqSub(SeqAdd(pkt.seq, pkt.len), SeqAdd(fs.rx_next_seq, fs.rx_avail)) \in Int
      BY <1>1, <1>2, SeqModAssumption DEF SeqAdd, SeqSub, SeqNum
    <3> QED
      BY <3>1 DEF trim, tcp_trim_rxbuf
  <2>5. j \in trim.trim_start .. pkt.len - trim.trim_end - 1
    BY <1>2, <2>3, <2>4
  <2> QED
    BY Zenon, <2>1, <2>3, <2>5 DEF Kept
<1>5. ASSUME ~ trim.drop, SeqAdd(pkt.seq, trim.trim_start) = fs.rx_next_seq
      PROVE  Kept \subseteq Usable
  <2>1. /\ trim.trim_start \in Nat /\ trim.trim_end \in Nat
        /\ (pkt.len - trim.trim_end) - trim.trim_start <= fs.rx_avail
    BY Zenon, <1>1, <1>2, <1>3, <1>5, InOrderFits DEF trim
  <2> SUFFICES ASSUME NEW j \in trim.trim_start .. pkt.len - trim.trim_end - 1
               PROVE  SeqAdd(pkt.seq, j) \in Usable
    BY Zenon, <1>5 DEF Kept
  <2>2. j \in 0 .. pkt.len - 1 /\ j - trim.trim_start \in 0 .. fs.rx_avail - 1
    BY <1>1, <1>2, <2>1
  <2>3. SeqAdd(pkt.seq, j) = SeqAdd(fs.rx_next_seq, j - trim.trim_start)
    <3>1. PICK k \in Nat : k = j - trim.trim_start /\ j = trim.trim_start + k
      BY <2>1, <2>2
    <3>2. PICK a \in Nat : a = pkt.seq /\ a < SeqMod
      BY <1>2, SeqModAssumption DEF SeqNum
    <3>3. PICK u \in Nat : u = trim.trim_start /\ u + k < SeqMod
      BY <1>1, <1>2, <1>3, <2>1, <2>2, <3>1, SeqModAssumption
    <3>4. SeqAdd(a, u + k) = SeqAdd(SeqAdd(a, u), k)
      BY <3>2, <3>3, SeqModAssumption DEF SeqAdd
    <3> QED
      BY Zenon, <1>5, <3>1, <3>2, <3>3, <3>4
  <2> QED
    BY Zenon, <2>2, <2>3 DEF Usable, Window, Interval
<1>6. PICK n \in Nat : n = fs.tx_sent + fs.tx_avail
  BY <1>1
<1>7. /\ tcp_valid_rxack(fs, pkt.ack) => /\ rxack_bump(fs, pkt.ack) \in 0 .. n
                                         /\ SeqAdd(fsack_a(fs), rxack_bump(fs, pkt.ack)) = pkt.ack
      /\ \A i \in 0 .. n : SeqAdd(fsack_a(fs), i) = pkt.ack => tcp_valid_rxack(fs, pkt.ack)
  BY Zenon, <1>1, <1>2, <1>3, <1>6, AckExact
<1>8. (n + 1) - 1 = n
  BY <1>6
<1>9. tcp_valid_rxack(fs, pkt.ack) <=> pkt.ack \in Interval(fsack_a(fs), n + 1)
  BY Zenon, <1>7, <1>8 DEF Interval
<1> QED
  BY Zenon, <1>4, <1>5, <1>6, <1>7, <1>9 DEF IntervalsExact

\* every flow and segment of MC_TcpCommon is one
LEMMA TcpStart == TcpFits /\ Init => TcpOK
<1> SUFFICES ASSUME TcpFits, Init PROVE TcpOK
  OBVIOUS
<1>1. NoSegment \in Segment
  BY SeqModAssumption DEF NoSegment, Segment, SeqNum, TcpFits
<1> QED
  BY Zenon, <1>1 DEF Init, TcpOK

\* also when a segment arrives
LEMMA TcpStep == TcpOK /\ [Next]_vars => TcpOK'
<1> SUFFICES ASSUME TcpOK, [Next]_vars PROVE TcpOK'
  OBVIOUS
<1>1. fs' = fs /\ (pkt' = pkt \/ pkt' \in Segment)
  BY Zenon DEF Next, Arrives, vars
<1> QED
  BY Zenon, <1>1 DEF TcpOK

(***************************************************************************)
(* tcp_trim_rxbuf and tcp_valid_rxack for every size of the sequence       *)
(* space, every buffer and every segment that fit in it: no byte that fits *)
(* the receive buffer is thrown away, an in-order segment keeps exactly    *)
(* what fits, and an acknowledgement is valid, with the right bump, if and *)
(* only if it lies between the oldest unacknowledged byte and the last one *)
(* in the send buffer.                                                     *)
(***************************************************************************)
THEOREM TrimAndAck ==
  ASSUME TcpFits
  PROVE  Spec => []IntervalsExact
<1>1. Init => TcpOK
  BY Zenon, TcpStart
<1>2. TcpOK /\ [Next]_vars => TcpOK'
  BY Zenon, TcpStep
<1>3. TcpOK => IntervalsExact
  BY Zenon, TcpExact
<1> QED
  BY <1>1, <1>2, <1>3, PTL DEF Spec

(***************************************************************************)
(* The steps of the composition, seen from each structure.                 *)
(***************************************************************************)

\* A step is one of the allocator, or one that leaves it alone.
LEMMA MemSteps == [SuiteNext]_suite => PM!Next \/ UNCHANGED memVars
<1>1. OnTcp \/ OnTime \/ OnTable \/ OnSched \/ OnLaw \/ OnRx => UNCHANGED memVars
  BY DEF OnTcp, OnTime, OnTable, OnSched, OnLaw, OnRx
<1>2. UNCHANGED suite => UNCHANGED memVars
  BY DEF suite
<1> QED
  BY Zenon, <1>1, <1>2 DEF SuiteNext, PM!Next, OnMem

\* A step is one of the timeouts, or one that leaves it alone.
LEMMA TimeSteps == [SuiteNext]_suite => TO!Next \/ UNCHANGED timeVars
<1>1. OnTcp \/ OnMem \/ OnTable \/ OnSched \/ OnLaw \/ OnRx => UNCHANGED timeVars
  BY DEF OnTcp, OnMem, OnTable, OnSched, OnLaw, OnRx
<1>2. UNCHANGED suite => UNCHANGED timeVars
  BY DEF suite
<1> QED
  BY Zenon, <1>1, <1>2 DEF SuiteNext, TO!Next, OnTime

\* A step is one of the flow table, or one that leaves it alone.
LEMMA TableSteps == [SuiteNext]_suite => FT!Next \/ UNCHANGED tableVars
<1>1. OnTcp \/ OnMem \/ OnTime \/ OnSched \/ OnLaw \/ OnRx => UNCHANGED tableVars
  BY DEF OnTcp, OnMem, OnTime, OnSched, OnLaw, OnRx
<1>2. UNCHANGED suite => UNCHANGED tableVars
  BY DEF suite
<1> QED
  BY Zenon, <1>1, <1>2 DEF SuiteNext, FT!Next, OnTable

\* A step is one of a receive buffer, or one that leaves it alone.
LEMMA RxSteps == [SuiteNext]_suite => RP!Next \/ UNCHANGED rxVars
<1>1. OnTcp \/ OnMem \/ OnTime \/ OnTable \/ OnSched \/ OnLaw => UNCHANGED rxVars
  BY DEF OnTcp, OnMem, OnTime, OnTable, OnSched, OnLaw
<1>2. UNCHANGED suite => UNCHANGED rxVars
  BY DEF suite
<1> QED
  BY Zenon, <1>1, <1>2 DEF SuiteNext, RP!Next, OnRx

(***************************************************************************)
(* tcp_common.h in the composition: what is cut off a segment, and which   *)
(* acknowledgements are valid, is exact.                                   *)
(***************************************************************************)
THEOREM SegmentsExact ==
  ASSUME TcpFits
  PROVE  SuiteSpec => []IntervalsExact
<1>1. SuiteInit => TcpOK
  <2> SUFFICES ASSUME SuiteInit PROVE TcpOK
    OBVIOUS
  <2>1. CASE part = "tcp"
    <3>1. Init
      BY Zenon, <2>1 DEF SuiteInit
    <3> QED
      BY Zenon, <3>1, TcpStart
  <2>2. CASE part # "tcp"
    <3>1. fs = (CHOOSE g \in Flow : g.tx_sent + g.tx_avail = 0) /\ pkt = NoSegment
      BY Zenon, <2>2 DEF SuiteInit
    <3>2. 0 \in SeqNum /\ 0 \in 0 .. MaxBuf /\ 0 \in 0 .. MaxLen
      BY SeqModAssumption DEF TcpFits, SeqNum
    <3>3. \E g \in Flow : g.tx_sent + g.tx_avail = 0
      <4> DEFINE g == [rx_next_seq |-> 0, rx_avail |-> 0, rx_remote_avail |-> 0,
                       tx_next_seq |-> 0, tx_sent |-> 0, tx_avail |-> 0]
      <4>1. g \in Flow /\ g.tx_sent + g.tx_avail = 0
        BY <3>2 DEF Flow, Buf
      <4> QED
        BY <4>1
    <3>4. fs \in Flow /\ fs.tx_sent + fs.tx_avail = 0
      BY Zenon, <3>1, <3>3
    <3>5. NoSegment \in Segment
      BY <3>2 DEF NoSegment, Segment
    <3> QED
      <4>1. fs.tx_sent + fs.tx_avail <= MaxBuf
        BY <3>4 DEF TcpFits
      <4> QED
        BY Zenon, <3>1, <3>4, <3>5, <4>1 DEF TcpOK
  <2> QED
    BY <2>1, <2>2
<1>2. TcpOK /\ [SuiteNext]_suite => TcpOK'
  <2>1. OnMem \/ OnTime \/ OnTable \/ OnSched \/ OnLaw \/ OnRx => UNCHANGED vars
    BY DEF OnMem, OnTime, OnTable, OnSched, OnLaw, OnRx, tcpVars, vars
  <2>2. UNCHANGED suite => UNCHANGED vars
    BY DEF suite, tcpVars, vars
  <2>3. [SuiteNext]_suite => [Next]_vars
    BY Zenon, <2>1, <2>2 DEF SuiteNext, Next
  <2> QED
    BY Zenon, <2>3, TcpStep
<1>3. TcpOK => IntervalsExact
  BY Zenon, TcpExact
<1> QED
  BY <1>1, <1>2, <1>3, PTL DEF SuiteSpec

-----------------------------------------------------------------------------
\* the theorems about the structures, over the variables of the composition
FP == INSTANCE Structures_proofs WITH RxLen <- RxbLen
LP == INSTANCE Lists_proofs

(***************************************************************************)
(* packetmem.c in the composition: however ranges are allocated and freed, *)
(* the held ranges and those on the free list tile the memory.             *)
(***************************************************************************)
THEOREM MemoryTiles ==
  ASSUME LP!MemFits
  PROVE  SuiteSpec => []HandlesTile
<1>1. SuiteInit => LP!PM!packetmem_init
  BY Zenon DEF SuiteInit,
       PM!packetmem_init, LP!PM!packetmem_init
<1>2. PM!Next => LP!PM!Next
  BY Zenon DEF
       PM!Next, PM!packetmem_alloc, PM!packetmem_free, PM!merge_items,
       PM!MergeNext, PM!FreePos, PM!End, PM!Unlink, PM!Link, LP!PM!Next,
       LP!PM!packetmem_alloc, LP!PM!packetmem_free, LP!PM!merge_items,
       LP!PM!MergeNext, LP!PM!FreePos, LP!PM!End, LP!PM!Unlink, LP!PM!Link
<1>3. [SuiteNext]_suite => [LP!PM!Next]_(LP!PM!vars)
  <2>1. UNCHANGED memVars => UNCHANGED LP!PM!vars
    BY DEF memVars, LP!PM!vars
  <2> QED
    BY Zenon, <1>2, <2>1, MemSteps
<1>4. LP!PM!HandlesTile => HandlesTile
  BY Zenon DEF HandlesTile,
       PM!HandlesTile, PM!FreeBytes, PM!HeldBytes, PM!Bytes, PM!End,
       PM!IsInjective, LP!PM!HandlesTile, LP!PM!FreeBytes, LP!PM!HeldBytes,
       LP!PM!Bytes, LP!PM!End, LP!PM!IsInjective
<1>5. LP!PM!Spec => []LP!PM!HandlesTile
  BY LP!NoByteLost, PTL
<1> QED
  BY <1>1, <1>3, <1>4, <1>5, PTL DEF SuiteSpec, LP!PM!Spec

(***************************************************************************)
(* timeout.c in the composition: only timeouts whose time is over are due, *)
(* and util_timeout_next is the time until the earliest deadline.          *)
(***************************************************************************)
THEOREM TimersTellTime ==
  ASSUME LP!ClockFits
  PROVE  SuiteSpec => []TimersExact
<1>1. SuiteInit => LP!TO!util_timeout_init
  BY Zenon DEF SuiteInit,
       TO!util_timeout_init, TO!Range2, LP!TO!util_timeout_init, LP!TO!Range2
<1>2. TO!Next => LP!TO!Next
  BY Zenon DEF
       TO!Next, TO!util_timeout_arm, TO!util_timeout_disarm, TO!PollBegin,
       TO!PollOne, TO!Tick, TO!Unlinked, TO!ArmPos, TO!WithDue, TO!NotDue,
       TO!NumDue, TO!timeout_due, TO!rel_time, TO!Range2, TO!Armed, TO!Linked,
       TO!Range, LP!TO!Next, LP!TO!util_timeout_arm,
       LP!TO!util_timeout_disarm, LP!TO!PollBegin, LP!TO!PollOne, LP!TO!Tick,
       LP!TO!Unlinked, LP!TO!ArmPos, LP!TO!WithDue, LP!TO!NotDue,
       LP!TO!NumDue, LP!TO!timeout_due, LP!TO!rel_time, LP!TO!Range2,
       LP!TO!Armed, LP!TO!Linked, LP!TO!Range
<1>3. [SuiteNext]_suite => [LP!TO!Next]_(LP!TO!vars)
  <2>1. UNCHANGED timeVars => UNCHANGED LP!TO!vars
    BY DEF timeVars, LP!TO!vars
  <2> QED
    BY Zenon, <1>2, <2>1, TimeSteps
<1>4. (LP!TO!DueIsOver /\ LP!TO!NextExact) => TimersExact
  BY Zenon DEF TimersExact,
       TO!DueIsOver, TO!NextExact, TO!Armed, TO!Range, TO!util_timeout_next,
       TO!rel_time, TO!Range2, LP!TO!DueIsOver, LP!TO!NextExact, LP!TO!Armed,
       LP!TO!Range, LP!TO!util_timeout_next, LP!TO!rel_time, LP!TO!Range2
<1>5. LP!TO!Spec => [](LP!TO!DueIsOver /\ LP!TO!NextExact)
  BY LP!ClockExact, PTL
<1> QED
  BY <1>1, <1>3, <1>4, <1>5, PTL DEF SuiteSpec, LP!TO!Spec

(***************************************************************************)
(* nicif.c and fast_flows.c in the composition: a lookup finds its         *)
(* connection unless a move took the entry out of its neighbourhood, and   *)
(* flow_slot_alloc overwrites no valid entry.                              *)
(***************************************************************************)
THEOREM LookupsFind ==
  ASSUME FP!Sizes
  PROVE  SuiteSpec => []LookupFinds
<1>1. SuiteInit => FP!Init
  BY Zenon DEF SuiteInit,
       FT!Init, FT!Slot, FT!NoSlot, FT!Idle, FP!Init, FP!Slot, FP!NoSlot,
       FP!Idle
<1>2. FT!Next => FP!Next
  BY Zenon DEF
       FT!NoSlot, FT!Slot, FT!At, FT!Idle, FT!FirstFree, FT!InRange,
       FT!IsEntry, FT!Cleared, FT!SlotSearch, FT!Movable, FT!PickMove,
       FT!MoveUp, FT!MoveId, FT!MoveClear, FT!InsertHash, FT!InsertId,
       FT!flow_slot_clear, FT!LookupStart, FT!h_rd, FT!LookupId,
       FT!LookupHash, FT!LookupEnd, FT!Next, FP!NoSlot, FP!Slot, FP!At,
       FP!Idle, FP!FirstFree, FP!InRange, FP!IsEntry, FP!Cleared,
       FP!SlotSearch, FP!Movable, FP!PickMove, FP!MoveUp, FP!MoveId,
       FP!MoveClear, FP!InsertHash, FP!InsertId, FP!flow_slot_clear,
       FP!LookupStart, FP!h_rd, FP!LookupId, FP!LookupHash, FP!LookupEnd,
       FP!Next
<1>3. [SuiteNext]_suite => [FP!Next]_(FP!vars)
  <2>1. UNCHANGED tableVars => UNCHANGED FP!vars
    BY DEF tableVars, FP!vars
  <2> QED
    BY Zenon, <1>2, <2>1, TableSteps
<1>4. (FP!LookupFinds /\ FP!SlotIsFree) => LookupFinds
  BY Zenon DEF LookupFinds,
       FT!LookupFinds, FT!SlotIsFree, FT!Reachable, FT!IsEntry, FT!At,
       FT!NoSlot, FT!InRange, FP!LookupFinds, FP!SlotIsFree, FP!Reachable,
       FP!IsEntry, FP!At, FP!NoSlot, FP!InRange
<1>5. FP!Spec => [](FP!LookupFinds /\ FP!SlotIsFree)
  BY FP!LookupFindsHolds, PTL
<1> QED
  BY <1>1, <1>3, <1>4, <1>5, PTL DEF SuiteSpec, FP!Spec

(***************************************************************************)
(* lib/sockets in the composition: applications read the stream in order   *)
(* and without gaps.                                                       *)
(***************************************************************************)
THEOREM StreamsRead ==
  ASSUME FP!RxFits
  PROVE  SuiteSpec => []ReadsInOrder
<1>1. SuiteInit => FP!RP!Init
  BY Zenon DEF SuiteInit,
       RP!Init, RP!NULL, FP!RP!Init, FP!RP!NULL
<1>2. RP!Next => FP!RP!Next
  <2>1. \A n : RP!Received(n) <=> FP!RP!Received(n)
    BY Zenon DEF
           RP!Received, RP!NewParts, RP!Wrap, FP!RP!Received, FP!RP!NewParts,
           FP!RP!Wrap
  <2>2. RP!ev_conn_received <=> FP!RP!ev_conn_received
    BY Zenon DEF
           RP!ev_conn_received, RP!Piece, FP!RP!ev_conn_received, FP!RP!Piece
  <2>3. \A s, iov : RP!Take(s, iov) = FP!RP!Take(s, iov)
    BY DEF
           RP!Take, RP!Wrap, RP!NULL, FP!RP!Take, FP!RP!Wrap, FP!RP!NULL
  <2>4. \A s : RP!Apply(s) <=> FP!RP!Apply(s)
    BY Zenon DEF
           RP!Apply, FP!RP!Apply
  <2>5. \A iov : RP!recv_simple(iov) <=> FP!RP!recv_simple(iov)
    BY Zenon, <2>3, <2>4 DEF
           RP!recv_simple, RP!Unread, FP!RP!recv_simple, FP!RP!Unread
  <2>6. \A iov1, iov2 : RP!tas_recvmsg(iov1, iov2) <=> FP!RP!tas_recvmsg(iov1, iov2)
    BY Zenon, <2>3, <2>4 DEF
           RP!tas_recvmsg, RP!Unread, FP!RP!tas_recvmsg, FP!RP!Unread
  <2> QED
    BY Zenon, <2>1, <2>2, <2>5, <2>6 DEF RP!Next, FP!RP!Next
<1>3. [SuiteNext]_suite => [FP!RP!Next]_(FP!RP!rxVars)
  <2>1. UNCHANGED rxVars => UNCHANGED FP!RP!rxVars
    BY DEF rxVars, FP!RP!rxVars
  <2> QED
    BY Zenon, <1>2, <2>1, RxSteps
<1>4. FP!RP!ReadsInOrder => ReadsInOrder
  BY Zenon DEF ReadsInOrder,
       RP!ReadsInOrder, FP!RP!ReadsInOrder
<1>5. FP!RxSpec => []FP!RP!ReadsInOrder
  BY FP!StreamReadInOrder, PTL
<1> QED
  BY <1>1, <1>3, <1>4, <1>5, PTL DEF SuiteSpec, FP!RxSpec

=============================================================================
