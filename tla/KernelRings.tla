----------------------------- MODULE KernelRings ----------------------------
(***************************************************************************)
(* The rings between the slow path and every fast-path core: krx carries   *)
(* packets the core cannot handle to the slow path (fast_kernel_packet,    *)
(* rxq_poll), ktx the slow path's packets and retransmissions to the core  *)
(* (ktx_try_alloc and its users in nicif.c, fast_kernel_poll).  A slot     *)
(* with type 0 is free, and every slot has its packet buffer for good, so  *)
(* a buffer is in use while its slot is.  Both consumers work on the slot  *)
(* before they clear it, and the other side goes on meanwhile.             *)
(*                                                                         *)
(* Entries are numbered modulo twice the ring.                             *)
(***************************************************************************)
EXTENDS Integers

CONSTANTS KCores,       \* fast-path cores: 0 .. n - 1
          NicRxLen,     \* config.nic_rx_len
          NicTxLen,     \* config.nic_tx_len, not below NicRxLen here
          KLoads        \* the traffic of a behaviour: sets of <<"krx" or "ktx", core>>

VARIABLES kload,        \* the rings that get entries
          krx,          \* per core: slots, rx_head of the core, rxq_tail of the slow path
          ktx,          \* per core: slots, txq_tail of the slow path, tx_head of the core
          rxq_next,     \* the core whose krx is polled next
          busy          \* the krx entry the slow path is processing: <<core, slot, entry>>

kringVars == <<kload, krx, ktx, rxq_next, busy>>

Entry(n) == n + 1
KrxMod == 2 * NicRxLen
KtxMod == 2 * NicTxLen
NKCores == CHOOSE n \in 1 .. 64 : n \notin KCores /\ n - 1 \in KCores

\* adminq_init, adminq_init_core
Init ==
  /\ kload \in KLoads
  /\ krx = [c \in KCores |-> [slot |-> [p \in 0 .. NicRxLen - 1 |-> 0], rx_head |-> 0,
                              rxq_tail |-> 0, sent |-> 0, taken |-> 0]]
  /\ ktx = [c \in KCores |-> [slot |-> [p \in 0 .. NicTxLen - 1 |-> 0], txq_tail |-> 0,
                              tx_head |-> 0, reading |-> 0, sent |-> 0, taken |-> 0]]
  /\ rxq_next = 0 /\ busy = <<>>
-----------------------------------------------------------------------------
\* fast_kernel_packet; a packet for a full queue is dropped.
fast_kernel_packet(c) ==
  /\ <<"krx", c>> \in kload /\ krx[c].slot[krx[c].rx_head] = 0
  /\ krx' = [krx EXCEPT ![c].slot[krx[c].rx_head] = Entry(krx[c].sent),
                        ![c].rx_head = (@ + 1) % NicRxLen, ![c].sent = (@ + 1) % KrxMod]
  /\ UNCHANGED <<kload, ktx, rxq_next, busy>>

\* Mutation of NextCore: the cores are not polled in turn while one has packets.
same_core(c) == IF krx[c].slot[krx[c].rxq_tail] # 0 THEN c ELSE (c + 1) % NKCores

NextCore(c) == (c + 1) % NKCores

\* rxq_poll up to the packet's processing, which may send packets.
rxq_poll ==
  LET c == rxq_next
      e == krx[c].slot[krx[c].rxq_tail]
  IN  /\ busy = <<>>
      /\ rxq_next' = NextCore(c)
      /\ busy' = IF e # 0 THEN <<c, krx[c].rxq_tail, e>> ELSE <<>>
      /\ UNCHANGED <<kload, krx, ktx>>

\* The end of rxq_poll.
rxq_poll_done ==
  /\ busy # <<>>
  /\ krx' = [krx EXCEPT ![busy[1]].slot[busy[2]] = 0, ![busy[1]].taken = (@ + 1) % KrxMod,
                        ![busy[1]].rxq_tail = IF @ + 1 = NicRxLen THEN 0 ELSE @ + 1]
  /\ busy' = <<>>
  /\ UNCHANGED <<kload, ktx, rxq_next>>
-----------------------------------------------------------------------------
\* ktx_try_alloc, the entry, and its publication.  The tail wraps at rxq_len.
ktx_try_alloc(c) ==
  /\ <<"ktx", c>> \in kload /\ ktx[c].slot[ktx[c].txq_tail] = 0
  /\ ktx' = [ktx EXCEPT ![c].slot[ktx[c].txq_tail] = Entry(ktx[c].sent),
                        ![c].txq_tail = IF @ + 1 = NicRxLen THEN 0 ELSE @ + 1,
                        ![c].sent = (@ + 1) % KtxMod]

\* nicif_tx_alloc and nicif_tx_send: packets go through core 0.
nicif_tx == ktx_try_alloc(0) /\ UNCHANGED <<kload, krx, rxq_next, busy>>

\* nicif_connection_retransmit and nicif_connection_winretransmit, to the flow's core;
\* not while a packet is processed.
nicif_connection_retransmit(c) ==
  busy = <<>> /\ ktx_try_alloc(c) /\ UNCHANGED <<kload, krx, rxq_next, busy>>

\* fast_kernel_poll up to MEM_BARRIER.
fast_kernel_poll(c) ==
  /\ ktx[c].reading = 0 /\ ktx[c].slot[ktx[c].tx_head] # 0
  /\ ktx' = [ktx EXCEPT ![c].reading = ktx[c].slot[ktx[c].tx_head]]
  /\ UNCHANGED <<kload, krx, rxq_next, busy>>

fast_kernel_poll_done(c) ==
  /\ ktx[c].reading # 0
  /\ ktx' = [ktx EXCEPT ![c].slot[ktx[c].tx_head] = 0, ![c].reading = 0,
                        ![c].tx_head = (@ + 1) % NicTxLen, ![c].taken = (@ + 1) % KtxMod]
  /\ UNCHANGED <<kload, krx, rxq_next, busy>>

Next ==
  \/ \E c \in KCores : fast_kernel_packet(c)
  \/ rxq_poll
  \/ rxq_poll_done
  \/ nicif_tx
  \/ \E c \in KCores : nicif_connection_retransmit(c)
  \/ \E c \in KCores : fast_kernel_poll(c)
  \/ \E c \in KCores : fast_kernel_poll_done(c)

\* The slow path polls all the time it does not sleep.
Fairness == WF_kringVars(rxq_poll \/ rxq_poll_done)

Spec == Init /\ [][Next]_kringVars
-----------------------------------------------------------------------------
Unread(sent, taken, mod) == (sent + mod - taken) % mod

(* krx holds exactly the packets the slow path has not finished, in order, *)
(* and the packet it is processing is still the one it started with: no    *)
(* packet is overwritten in its buffer, lost after it was queued, or       *)
(* processed twice (fast_kernel_packet, rxq_poll).                         *)
KrxIntact ==
  /\ \A c \in KCores :
       LET r == krx[c] IN
       \A k \in 0 .. NicRxLen - 1 :
         r.slot[(r.rxq_tail + k) % NicRxLen] =
           IF k < Unread(r.sent, r.taken, KrxMod) THEN Entry((r.taken + k) % KrxMod) ELSE 0
  /\ busy # <<>> => krx[busy[1]].slot[busy[2]] = busy[3]

(* ktx holds from the core's head on exactly the entries the slow path     *)
(* sent and the core has not finished, in order, so the core finds the     *)
(* next entry where it looks (ktx_try_alloc, nicif_tx_send,                *)
(* fast_kernel_poll).                                                      *)
KtxIntact ==
  \A c \in KCores :
    LET r == ktx[c] IN
    \A k \in 0 .. NicTxLen - 1 :
      r.slot[(r.tx_head + k) % NicTxLen] =
        IF k < Unread(r.sent, r.taken, KtxMod) THEN Entry((r.taken + k) % KtxMod) ELSE 0

(* The packets of every core are processed, however many the others send   *)
(* (rxq_next).                                                             *)
KrxServed ==
  \A c \in KCores :
    []<>(krx[c].sent = krx[c].taken) \/ []<><<krx[c].taken' # krx[c].taken>>_kringVars
=============================================================================
