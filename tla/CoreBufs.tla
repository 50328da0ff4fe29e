------------------------------ MODULE CoreBufs ------------------------------
(***************************************************************************)
(* Who owns a packet buffer of a fast-path core (tas/fast/fastemu.c): the  *)
(* pool, the core's cache of buffers, its list of packets to transmit, or  *)
(* the NIC.  Every poll reserves buffers in the cache, writes packets in   *)
(* some, and takes those out; a received packet's buffer is freed, unless  *)
(* the answer is sent in it.  The variables follow one core around         *)
(* dataplane_loop.                                                         *)
(***************************************************************************)
EXTENDS Integers, Sequences, FiniteSets, SequencesExt

CONSTANTS Handles,      \* packet buffers
          BufcacheSize, \* BUFCACHE_SIZE, a power of two
          TxbufSize,    \* TXBUF_SIZE
          BufBatch      \* BATCH_SIZE

VARIABLES pool,         \* buffers that are free, or wait in the NIC for a packet
          bc,           \* bufcache_handles, bufcache_head, bufcache_num; 0: not in use
          tx,           \* tx_handles up to tx_num
          nic,          \* buffers of packets the NIC is sending
          stage,        \* the next step of dataplane_loop
          full          \* tx_send found no room and aborted

bufVars == <<pool, bc, tx, nic, stage, full>>

Stages == <<"rx", "rx_flush", "qman", "queues", "kernel", "flush">>
NextStage == LET i == CHOOSE i \in 1 .. 6 : Stages[i] = stage IN Stages[IF i = 6 THEN 1 ELSE i + 1]
Least(a, b) == IF a < b THEN a ELSE b
At(b, i) == (b.head + i) % BufcacheSize

Init ==
  /\ pool = Handles /\ nic = {} /\ tx = <<>>
  /\ bc = [h |-> [i \in 0 .. BufcacheSize - 1 |-> 0], head |-> 0, num |-> 0]
  /\ stage = "rx" /\ full = FALSE
-----------------------------------------------------------------------------
(* The cache.                                                              *)

\* The buffers network_buf_alloc gives: as many as asked for, or all there are.
Allocated(n) ==
  IF Cardinality(pool) <= n THEN pool
  ELSE CHOOSE s \in SUBSET pool : Cardinality(s) = n

\* The refill of bufcache_prealloc, in one piece or around the end of the array.
Refilled(num) ==
  IF bc.num >= num THEN bc
  ELSE LET new == SetToSeq(Allocated(BufcacheSize - bc.num))
       IN  [bc EXCEPT !.num = @ + Len(new),
                      !.h = [i \in DOMAIN @ |->
                               LET k == 1 + ((i + BufcacheSize - At(bc, bc.num)) % BufcacheSize)
                               IN  IF k <= Len(new) THEN new[k] ELSE @[i]]]

\* Mutation of Usable: all that are in the cache, also around the end of the array.
usable_wraps(b, num) == Least(num, b.num)

\* The buffers in a row from the head on: what bufcache_prealloc returns.
Usable(b, num) ==
  Least(num, IF b.head + b.num <= BufcacheSize THEN b.num ELSE BufcacheSize - b.head)

\* handles[k] of a poll: an element of bufcache_handles, or what lies behind it.
Reserved(b, k) == IF b.head + k < BufcacheSize THEN b.h[b.head + k] ELSE 0

\* bufcache_alloc
bufcache_alloc(b, n) ==
  [b EXCEPT !.head = At(b, n), !.num = @ - n,
            !.h = [i \in DOMAIN @ |->
                     IF (i + BufcacheSize - b.head) % BufcacheSize < n THEN 0 ELSE @[i]]]

\* bufcache_free of several buffers; those that do not fit go back to the pool.
RoomFor(hs) == Least(Len(hs), BufcacheSize - bc.num)
bufcache_free(hs) ==
  [bc EXCEPT !.num = @ + RoomFor(hs),
             !.h = [i \in DOMAIN @ |->
                      LET k == 1 + ((i + BufcacheSize - At(bc, bc.num)) % BufcacheSize)
                      IN  IF k <= RoomFor(hs) THEN hs[k] ELSE @[i]]]
-----------------------------------------------------------------------------
(* The steps of dataplane_loop.                                            *)

TxRoom == TxbufSize - Len(tx)

\* tx_send of packets in the buffers hs.
tx_send(hs) ==
  IF Len(hs) > TxRoom THEN full' = TRUE /\ UNCHANGED tx
  ELSE tx' = tx \o hs /\ UNCHANGED full

RxMax == Least(BufBatch, TxRoom)

\* poll_rx: kinds of the packets are "own" of a flow with budget, "oob" of one without,
\* "none" of no flow.  With an "own" packet in the batch the "oob" ones are dropped.
poll_rx ==
  /\ stage = "rx"
  /\ \E n \in 0 .. Least(RxMax, Cardinality(pool)) :
     \E kind \in [1 .. n -> {"own", "oob", "none"}], acked \in SUBSET (1 .. n) :
       LET bhs == SetToSeq(CHOOSE s \in SUBSET pool : Cardinality(s) = n)
           ran == {i \in 1 .. n : kind[i] = "own"
                                  \/ (kind[i] = "oob" /\ \A j \in 1 .. n : kind[j] # "own")}
           sent == SelectSeq(bhs, LAMBDA h : \E i \in acked : bhs[i] = h)
           freed == SelectSeq(bhs, LAMBDA h : \A i \in acked : bhs[i] # h)
       IN  /\ acked \subseteq ran
           /\ tx_send(sent)
           /\ bc' = bufcache_free(freed)
           /\ pool' = (pool \ Range(bhs))
                        \cup {freed[i] : i \in RoomFor(freed) + 1 .. Len(freed)}
  /\ stage' = NextStage /\ UNCHANGED nic

\* poll_qman, poll_active_queues and poll_all_queues, poll_kernel: of the buffers reserved
\* for max packets the first are used, in the order in which there is something to send.
UseReserved ==
  LET max == Least(BufBatch, TxRoom)
      b == Refilled(max)
  IN  /\ pool' = pool \ {b.h[i] : i \in DOMAIN b.h}
      /\ \E used \in 0 .. Usable(b, max) :
           /\ tx_send([k \in 1 .. used |-> Reserved(b, k - 1)])
           /\ bc' = bufcache_alloc(b, used)
      /\ stage' = NextStage /\ UNCHANGED nic

poll_qman == stage = "qman" /\ UseReserved
poll_queues == stage = "queues" /\ UseReserved
poll_kernel == stage = "kernel" /\ UseReserved

Unsent(ret) == SubSeq(tx, ret + 1, Len(tx))

\* tx_flush: the NIC takes some of the packets.
tx_flush ==
  /\ stage \in {"rx_flush", "flush"}
  /\ \E ret \in 0 .. Len(tx) :
       /\ nic' = nic \cup {tx[i] : i \in 1 .. ret}
       /\ tx' = Unsent(ret)
  /\ stage' = NextStage /\ UNCHANGED <<pool, bc, full>>

\* The NIC has sent a packet.
NicSent ==
  \E h \in nic : nic' = nic \ {h} /\ pool' = pool \cup {h} /\ UNCHANGED <<bc, tx, stage, full>>

Next == poll_rx \/ poll_qman \/ poll_queues \/ poll_kernel \/ tx_flush \/ NicSent

Spec == Init /\ [][Next]_bufVars
-----------------------------------------------------------------------------
\* The buffers in the cache, in order.
Cached == [i \in 1 .. bc.num |-> bc.h[At(bc, i - 1)]]

(* Every buffer has exactly one owner: none is lost, none is handed out or *)
(* transmitted twice, through reservations that are only partly used, the  *)
(* wrap of the cache, overflow to the pool and partial sends               *)
(* (bufcache_prealloc, bufcache_alloc, bufcache_free, tx_flush).           *)
OneOwner ==
  \A h \in Handles :
    (IF h \in pool THEN 1 ELSE 0) + (IF h \in nic THEN 1 ELSE 0)
      + Cardinality({i \in DOMAIN tx : tx[i] = h})
      + Cardinality({i \in DOMAIN Cached : Cached[i] = h}) = 1

(* tx_send never finds the transmit list full, where it would abort: every *)
(* poll limits itself to the room left before it knows what it will send.  *)
TxFits == ~full
=============================================================================
