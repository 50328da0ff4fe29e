------------------------------ MODULE FastPath ------------------------------
(***************************************************************************)
(* The fast-path cores working on the same flows.  Each core runs          *)
(* dataplane_loop (tas/fast/fastemu.c): it handles packets, bumps from     *)
(* applications and retransmission requests from the slow path, polls its  *)
(* own queue manager (tas/fast/qman.c) and sends segments.  A flow's state *)
(* is shared and locked; a queue manager belongs to one core.  When flows  *)
(* are steered to another core, the old core finds out only when its queue *)
(* manager fires for the flow, and forwards the flow to the new core.      *)
(*                                                                         *)
(* Queue-manager state is kept per core and flow as the bytes the flow may *)
(* still fire.  One poll fires a batch of chunks; the core then handles    *)
(* the chunks one by one while other cores may change the flows.  A vm's   *)
(* flows are polled in any order: rates and round-robin are not modelled   *)
(* here.                                                                   *)
(***************************************************************************)
EXTENDS FlowOps, Sequences

CONSTANTS Cores,       \* fast-path cores
          Flows,       \* ids of the open flows, below FLEXNIC_PL_FLOWST_NUM
          FlowIdMod,   \* 2^16: flow ids a uint16_t can hold
          Segs,        \* segments the network delivers
          Bumps,       \* updates applications post
          FwdLen,      \* capacity of qman_fwd_ring
          MaxMoves     \* bound: steering changes in a behaviour

Bump == [seq : 0 .. BumpMax, rx : 0 .. RxLen, tx : Nat, done : BOOLEAN]

ASSUME FastPathAssumption ==
  /\ Flows \subseteq Nat /\ FlowIdMod \in Nat \ {0} /\ FwdLen \in Nat
  /\ MaxMoves \in Nat
  /\ Segs \subseteq Segment
  /\ Bumps \subseteq Bump

VARIABLES
  fs,        \* flow states: fp_state->flowst
  qavail,    \* avail of the flow queues of each core's queue manager
  pend,      \* bytes fired by the queue manager, not yet handled by the core
  fwd,       \* qman_fwd_ring of each core
  steering,  \* flow_group_steering, by flow
  moves      \* steering changes so far

vars == <<fs, qavail, pend, fwd, steering, moves>>

\* the core is between two batches
Idle(c) == \A f \in Flows : pend[c][f] = 0

\* the queue that the uint16_t flow_id of fast_flows_packet and of
\* fast_flows_qman_fwd selects; a queue that no open flow owns sends nothing
FlowId16(f) == IF f < FlowIdMod THEN f ELSE f % FlowIdMod

\* tas_qman_set with QMAN_SET_AVAIL
tas_qman_set(c, q, avail) == qavail' = [qavail EXCEPT ![c][q] = avail]

\* Mutation of ArmIfMore: the queue is armed for what became sendable now.
ArmIfMore_grown(c, f, q) ==
  IF Avail(fs'[f]) > Avail(fs[f])
    THEN tas_qman_set(c, q, Avail(fs'[f]) - Avail(fs[f])) ELSE UNCHANGED qavail

\* the calls of tas_qman_set in fast_flows.c: only when more can be sent now
ArmIfMore(c, f, q) ==
  IF Avail(fs'[f]) > Avail(fs[f]) THEN tas_qman_set(c, q, Avail(fs'[f]))
                                  ELSE UNCHANGED qavail
-----------------------------------------------------------------------------
Init ==
  /\ fs \in [Flows -> {nicif_connection_add(0, 0)}]
  /\ qavail = [c \in Cores |-> [f \in Flows |-> 0]]
  /\ pend = [c \in Cores |-> [f \in Flows |-> 0]]
  /\ fwd = [c \in Cores |-> <<>>]
  /\ steering \in [Flows -> Cores]
  /\ moves = 0

\* poll_rx: any core, because steering changes while packets are in its queue
Packet(c, f) ==
  /\ Idle(c)
  /\ \E p \in Segs :
       fs' = [fs EXCEPT ![f] = fast_flows_packet(@, p)]
  /\ ArmIfMore(c, f, FlowId16(f))
  /\ UNCHANGED <<pend, fwd, steering, moves>>

\* poll_queues: the application has no more receive credit to return than
\* what it was given
AppBump(c, f) ==
  /\ Idle(c)
  /\ \E b \in Bumps :
       /\ b.rx + fs[f].rx_avail <= RxLen
       /\ fs' = [fs EXCEPT ![f] = fast_flows_bump(@, b)]
  /\ ArmIfMore(c, f, f)
  /\ UNCHANGED <<pend, fwd, steering, moves>>

\* poll_kernel: the slow path noticed that the flow makes no progress
Retransmit(c, f) ==
  /\ Idle(c)
  /\ fs' = [fs EXCEPT ![f] = fast_flows_retransmit(@)]
  /\ ArmIfMore(c, f, f)
  /\ UNCHANGED <<pend, fwd, steering, moves>>

\* tas_qman_poll fires whole chunks of at most max_chunk = TCP_MSS bytes
Chunks(avail) == {n \in 0 .. avail : n = avail \/ n % Mss = 0}

\* first half of poll_qman; the batch size only limits how much is taken
PollQman(c, f) ==
  /\ Idle(c)
  /\ \E take \in [Flows -> 0 .. TxLen] :
       /\ \A g \in Flows : take[g] \in Chunks(qavail[c][g])
       /\ take[f] > 0
       /\ pend' = [pend EXCEPT ![c] = take]
       /\ qavail' = [qavail EXCEPT
                       ![c] = [g \in Flows |-> qavail[c][g] - take[g]]]
  /\ UNCHANGED <<fs, fwd, steering, moves>>

\* the next chunk of the batch is handled
TakeChunk(c, f) ==
  /\ pend[c][f] > 0
  /\ pend' = [pend EXCEPT ![c][f] = @ - Min2(@, Mss)]

\* fast_flows_qman on the core the flow is steered to: one segment, if
\* anything can be sent
SendSegment(c, f) ==
  /\ TakeChunk(c, f)
  /\ steering[f] = c
  /\ fs' = [fs EXCEPT ![f] = fast_flows_qman(@)]
  /\ UNCHANGED <<qavail, fwd, steering, moves>>

\* fast_flows_qman after the flow has moved; a full ring aborts the process
ForwardFlow(c, f) ==
  /\ TakeChunk(c, f)
  /\ steering[f] # c
  /\ Len(fwd[steering[f]]) < FwdLen
  /\ fwd' = [fwd EXCEPT ![steering[f]] = Append(@, f)]
  /\ tas_qman_set(c, f, 0)
  /\ UNCHANGED <<fs, steering, moves>>

\* Mutation of QmanFwd: the flow is taken from the ring and not armed.
QmanFwd_unarmed(c) ==
  /\ Idle(c)
  /\ fwd[c] # <<>>
  /\ fwd' = [fwd EXCEPT ![c] = Tail(@)]
  /\ UNCHANGED <<fs, qavail, pend, steering, moves>>

\* poll_qman_fwd
QmanFwd(c) ==
  /\ Idle(c)
  /\ fwd[c] # <<>>
  /\ fwd' = [fwd EXCEPT ![c] = Tail(@)]
  /\ tas_qman_set(c, FlowId16(Head(fwd[c])), Avail(fs[Head(fwd[c])]))
  /\ UNCHANGED <<fs, pend, steering, moves>>

\* network_scale_up and network_scale_down rewrite flow_group_steering
Steer(f, c) ==
  /\ steering[f] # c
  /\ moves < MaxMoves
  /\ steering' = [steering EXCEPT ![f] = c]
  /\ moves' = moves + 1
  /\ UNCHANGED <<fs, qavail, pend, fwd>>

Next ==
  \E c \in Cores :
    \/ QmanFwd(c)
    \/ \E f \in Flows :
         \/ Packet(c, f)
         \/ AppBump(c, f)
         \/ Retransmit(c, f)
         \/ PollQman(c, f)
         \/ SendSegment(c, f)
         \/ ForwardFlow(c, f)
         \/ Steer(f, c)

Spec == Init /\ [][Next]_vars
-----------------------------------------------------------------------------
(***************************************************************************)
(* Types: every counter stays within its buffer, in particular no          *)
(* subtraction of fast_flows.c goes below zero.                            *)
(***************************************************************************)
TypeOK ==
  /\ fs \in [Flows -> FlowState]
  /\ qavail \in [Cores -> [Flows -> 0 .. TxLen]]
  /\ pend \in [Cores -> [Flows -> 0 .. TxLen]]
  /\ fwd \in [Cores -> Seq(Flows)]
  /\ steering \in [Flows -> Cores]
  /\ moves \in 0 .. MaxMoves

(***************************************************************************)
(* The bytes sent and the bytes waiting share the transmit buffer:         *)
(* whatever the order of bumps, acknowledgements of retransmitted data and *)
(* resets, together they never exceed it.                                  *)
(***************************************************************************)
TxAccounting == \A f \in Flows : TxOK(fs[f])

\* the flow waits in some core's forwarding ring
Forwarded(f) == \E c \in Cores : \E i \in 1 .. Len(fwd[c]) : fwd[c][i] = f

\* A uint16_t holds the id of the flow, and no other open flow is truncated to
\* it.  flow_id_alloc hands out the lowest ids first, so this holds of all flows
\* until more than 2^16 are open at once; from then on two flows share a queue,
\* and the one that is armed last overwrites what the other one may send.
OwnQueue(f) == f < FlowIdMod /\ \A g \in Flows : FlowId16(g) = f => g = f

\* core c will still send everything the flow may send
Armed(c, f) == qavail[c][f] + pend[c][f] >= Avail(fs[f])

(***************************************************************************)
(* No lost arming: a flow with a queue of its own that may send is armed   *)
(* for all of it in the queue manager of some core, or on its way to one   *)
(* through a forwarding ring.  The fast path arms a queue only when        *)
(* tcp_txavail has grown, so if this failed the data would wait for a      *)
(* retransmission timeout.                                                 *)
(***************************************************************************)
NoStranded ==
  \A f \in Flows :
    OwnQueue(f) /\ Avail(fs[f]) > 0 => Forwarded(f) \/ \E c \in Cores : Armed(c, f)

(***************************************************************************)
(* The out-of-order interval starts inside the receive window, strictly    *)
(* after the next expected byte, and reaches at most one segment beyond    *)
(* the window's end (the last trim may leave that much).                   *)
(***************************************************************************)
OooNearWindow == \A f \in Flows : OooOK(fs[f])

(***************************************************************************)
(* The oldest unacknowledged byte only moves forward, and within the bytes *)
(* the application has written, through every mix of acknowledgements,     *)
(* fast retransmissions and timeouts: a byte that was acknowledged is      *)
(* never sent again, and no byte is skipped.                               *)
(***************************************************************************)
AckMonotonic ==
  [][\A f \in Flows :
       SeqSub(fsack_a(fs'[f]), fsack_a(fs[f]))
         <= fs[f].tx_sent + fs[f].tx_avail]_fs

(***************************************************************************)
(* After a FIN was accepted the receive stream is final: rx_next_seq and   *)
(* rx_next_pos do not change again whatever segments arrive.               *)
(***************************************************************************)
RxFinFinal ==
  [][\A f \in Flows :
       fs[f].rxfin => /\ fs'[f].rxfin
                      /\ fs'[f].rx_next_seq = fs[f].rx_next_seq
                      /\ fs'[f].rx_next_pos = fs[f].rx_next_pos]_fs
-----------------------------------------------------------------------------
(***************************************************************************)
(* Fairness: every core keeps running dataplane_loop, whose queue manager  *)
(* serves its flows in FIFO or deadline order, and drains its forwarding   *)
(* ring.  Nothing is assumed of packets, bumps, or retransmissions.        *)
(***************************************************************************)
Fairness ==
  \A c \in Cores :
    /\ SF_vars(QmanFwd(c))
    /\ \A f \in Flows :
         /\ SF_vars(PollQman(c, f))
         /\ WF_vars(SendSegment(c, f) \/ ForwardFlow(c, f))

FairSpec == Spec /\ Fairness

(***************************************************************************)
(* Data that may be sent is sent: it never happens that a flow with a      *)
(* queue of its own stays able to send from some point on while no core    *)
(* sends a segment of it.                                                  *)
(***************************************************************************)
AvailIsSent ==
  \A f \in Flows :
    OwnQueue(f) =>
      []<>(Avail(fs[f]) = 0) \/ []<><<fs'[f].tx_sent > fs[f].tx_sent>>_vars
=============================================================================
