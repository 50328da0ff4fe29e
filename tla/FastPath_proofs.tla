-------------------------- MODULE FastPath_proofs --------------------------
(***************************************************************************)
(* Theorems about FastPath for any number of cores and flows, any buffer   *)
(* and segment sizes and any set of segments and bumps.                    *)
(***************************************************************************)
EXTENDS FastPath, FlowOps_proofs

\* the inductive invariant for types and buffer accounting
IInv == TypeOK /\ \A f \in Flows : FlowInv(fs[f])

(***************************************************************************)
(* Types and accounting hold initially.                                    *)
(***************************************************************************)
LEMMA InitIInv == Init => IInv
<1> SUFFICES ASSUME Init PROVE IInv
  OBVIOUS
<1>1. \A f \in Flows : fs[f] = nicif_connection_add(0, 0)
  BY DEF Init
<1>2. \A f \in Flows : FlowInv(fs[f])
  <2>1. 0 \in SeqNum
    BY SeqModAssumption DEF SeqNum
  <2> QED
    BY Zenon, <1>1, <2>1, AddInv
<1>3. fs \in [Flows -> FlowState]
  BY <1>2 DEF Init, FlowInv
<1>4. 0 \in 0 .. TxLen /\ 0 \in 0 .. MaxMoves
  BY FlowAssumption, FastPathAssumption
<1> QED
  BY <1>2, <1>3, <1>4 DEF Init, IInv, TypeOK

(***************************************************************************)
(* An operation on one flow that keeps FlowInv, followed by the arming     *)
(* rule, keeps types and accounting.                                       *)
(***************************************************************************)
LEMMA FlowStep ==
  ASSUME IInv, NEW c \in Cores, NEW f \in Flows, NEW q,
         NEW s, FlowInv(s), fs' = [fs EXCEPT ![f] = s],
         ArmIfMore(c, f, q)
  PROVE  /\ fs' \in [Flows -> FlowState]
         /\ \A g \in Flows : FlowInv(fs'[g])
         /\ qavail' \in [Cores -> [Flows -> 0 .. TxLen]]
<1>1. s \in FlowState
  BY DEF FlowInv
<1>2. fs' \in [Flows -> FlowState] /\ \A g \in Flows : FlowInv(fs'[g])
  BY Zenon, <1>1 DEF IInv, TypeOK
<1>3. Avail(fs'[f]) \in 0 .. TxLen
  BY <1>2, AvailLemma
<1>4. qavail' \in [Cores -> [Flows -> 0 .. TxLen]]
  <2>1. \/ qavail' = qavail
        \/ qavail' = [qavail EXCEPT ![c][q] = Avail(fs'[f])]
    BY DEF ArmIfMore, tas_qman_set
  <2>2. qavail \in [Cores -> [Flows -> 0 .. TxLen]]
    BY DEF IInv, TypeOK
  <2> QED
    BY <1>3, <2>1, <2>2
<1> QED
  BY <1>2, <1>4

(***************************************************************************)
(* Every step of every core keeps types and accounting.                    *)
(***************************************************************************)
LEMMA NextIInv == IInv /\ [Next]_vars => IInv'
<1> SUFFICES ASSUME IInv, [Next]_vars PROVE IInv'
  OBVIOUS
<1>1. CASE UNCHANGED vars
  BY <1>1 DEF IInv, TypeOK, vars
<1>2. ASSUME NEW c \in Cores, NEW f \in Flows, Packet(c, f) PROVE IInv'
  <2>1. PICK p \in Segs : fs' = [fs EXCEPT ![f] = fast_flows_packet(@, p)]
    BY Zenon, <1>2 DEF Packet
  <2>2. p \in Segment
    BY FastPathAssumption
  <2>3. FlowInv(fast_flows_packet(fs[f], p))
    BY <2>2, PacketInv DEF IInv
  <2>4. fs' = [fs EXCEPT ![f] = fast_flows_packet(fs[f], p)]
    BY <2>1
  <2>5. /\ fs' \in [Flows -> FlowState]
        /\ \A g \in Flows : FlowInv(fs'[g])
        /\ qavail' \in [Cores -> [Flows -> 0 .. TxLen]]
    BY Zenon, <1>2, <2>3, <2>4, FlowStep DEF Packet
  <2> QED
    BY <1>2, <2>5 DEF Packet, IInv, TypeOK
<1>3. ASSUME NEW c \in Cores, NEW f \in Flows, AppBump(c, f) PROVE IInv'
  <2>1. PICK b \in Bumps : /\ b.rx + fs[f].rx_avail <= RxLen
                           /\ fs' = [fs EXCEPT ![f] = fast_flows_bump(@, b)]
    BY Zenon, <1>3 DEF AppBump
  <2>2. /\ b.seq \in 0 .. BumpMax /\ b.rx \in Nat /\ b.tx \in Nat
        /\ b.done \in BOOLEAN
    BY FastPathAssumption, FlowAssumption DEF Bump
  <2>3. FlowInv(fast_flows_bump(fs[f], b))
    BY <2>1, <2>2, BumpInv DEF IInv
  <2>4. fs' = [fs EXCEPT ![f] = fast_flows_bump(fs[f], b)]
    BY <2>1
  <2>5. /\ fs' \in [Flows -> FlowState]
        /\ \A g \in Flows : FlowInv(fs'[g])
        /\ qavail' \in [Cores -> [Flows -> 0 .. TxLen]]
    BY Zenon, <1>3, <2>3, <2>4, FlowStep DEF AppBump
  <2> QED
    BY <1>3, <2>5 DEF AppBump, IInv, TypeOK
<1>4. ASSUME NEW c \in Cores, NEW f \in Flows, Retransmit(c, f) PROVE IInv'
  <2>1. FlowInv(fast_flows_retransmit(fs[f]))
    BY ResetInv DEF IInv, fast_flows_retransmit
  <2>2. fs' = [fs EXCEPT ![f] = fast_flows_retransmit(fs[f])]
    BY <1>4 DEF Retransmit
  <2>3. /\ fs' \in [Flows -> FlowState]
        /\ \A g \in Flows : FlowInv(fs'[g])
        /\ qavail' \in [Cores -> [Flows -> 0 .. TxLen]]
    BY Zenon, <1>4, <2>1, <2>2, FlowStep DEF Retransmit
  <2> QED
    BY <1>4, <2>3 DEF Retransmit, IInv, TypeOK
<1>5. ASSUME NEW c \in Cores, NEW f \in Flows, PollQman(c, f) PROVE IInv'
  <2>1. PICK take \in [Flows -> 0 .. TxLen] :
          /\ \A g \in Flows : take[g] \in Chunks(qavail[c][g])
          /\ pend' = [pend EXCEPT ![c] = take]
          /\ qavail' = [qavail EXCEPT
                          ![c] = [g \in Flows |-> qavail[c][g] - take[g]]]
    BY Zenon, <1>5 DEF PollQman
  <2>2. \A g \in Flows : qavail[c][g] - take[g] \in 0 .. TxLen
    <3> SUFFICES ASSUME NEW g \in Flows
                 PROVE  qavail[c][g] - take[g] \in 0 .. TxLen
      OBVIOUS
    <3>1. qavail[c][g] \in 0 .. TxLen
      BY DEF IInv, TypeOK
    <3>2. take[g] \in 0 .. qavail[c][g]
      BY <2>1 DEF Chunks
    <3> QED
      BY <3>1, <3>2, FlowAssumption
  <2>3. qavail' \in [Cores -> [Flows -> 0 .. TxLen]]
    BY <2>1, <2>2 DEF IInv, TypeOK
  <2>4. pend' \in [Cores -> [Flows -> 0 .. TxLen]]
    BY <2>1 DEF IInv, TypeOK
  <2> QED
    BY <1>5, <2>3, <2>4 DEF PollQman, IInv, TypeOK
<1>6. ASSUME NEW c \in Cores, NEW f \in Flows, TakeChunk(c, f)
      PROVE  pend' \in [Cores -> [Flows -> 0 .. TxLen]]
  <2>1. pend[c][f] - Min2(pend[c][f], Mss) \in 0 .. TxLen
    BY FlowAssumption DEF Min2, IInv, TypeOK
  <2> QED
    BY <1>6, <2>1 DEF TakeChunk, IInv, TypeOK
<1>7. ASSUME NEW c \in Cores, NEW f \in Flows, SendSegment(c, f) PROVE IInv'
  <2>1. FlowInv(fast_flows_qman(fs[f])) /\ fast_flows_qman(fs[f]) \in FlowState
    BY QmanInv DEF IInv, FlowInv
  <2>2. fs' \in [Flows -> FlowState] /\ \A g \in Flows : FlowInv(fs'[g])
    BY <1>7, <2>1 DEF SendSegment, IInv, TypeOK
  <2> QED
    BY <1>6, <1>7, <2>2 DEF SendSegment, IInv, TypeOK
<1>8. ASSUME NEW c \in Cores, NEW f \in Flows, ForwardFlow(c, f) PROVE IInv'
  <2>1. 0 \in 0 .. TxLen
    BY FlowAssumption
  <2>2. qavail' \in [Cores -> [Flows -> 0 .. TxLen]]
    BY <1>8, <2>1 DEF ForwardFlow, tas_qman_set, IInv, TypeOK
  <2>3. fwd' \in [Cores -> Seq(Flows)]
    BY <1>8 DEF ForwardFlow, IInv, TypeOK
  <2> QED
    BY <1>6, <1>8, <2>2, <2>3 DEF ForwardFlow, IInv, TypeOK
<1>9. ASSUME NEW c \in Cores, QmanFwd(c) PROVE IInv'
  <2>1. Head(fwd[c]) \in Flows /\ Tail(fwd[c]) \in Seq(Flows)
    BY <1>9 DEF QmanFwd, IInv, TypeOK
  <2>3. Avail(fs[Head(fwd[c])]) \in 0 .. TxLen
    BY SMTT(60), <2>1, AvailLemma DEF IInv, TypeOK
  <2>4. qavail' \in [Cores -> [Flows -> 0 .. TxLen]]
    BY <1>9, <2>3 DEF QmanFwd, tas_qman_set, IInv, TypeOK
  <2>5. fwd' \in [Cores -> Seq(Flows)]
    BY <1>9, <2>1 DEF QmanFwd, IInv, TypeOK
  <2> QED
    BY Zenon, <1>9, <2>4, <2>5 DEF QmanFwd, IInv, TypeOK
<1>10. ASSUME NEW c \in Cores, NEW f \in Flows, Steer(f, c) PROVE IInv'
  <2>1. moves' \in 0 .. MaxMoves
    BY <1>10, FastPathAssumption DEF Steer, IInv, TypeOK
  <2>2. steering' \in [Flows -> Cores]
    BY <1>10 DEF Steer, IInv, TypeOK
  <2> QED
    BY <1>10, <2>1, <2>2 DEF Steer, IInv, TypeOK
<1> QED
  BY <1>1, <1>2, <1>3, <1>4, <1>5, <1>7, <1>8, <1>9, <1>10 DEF Next

(***************************************************************************)
(* Type correctness: no counter of a flow or of a queue manager leaves its *)
(* range, whatever packets, bumps and steering changes come in what order. *)
(***************************************************************************)
THEOREM TypeCorrect == Spec => []TypeOK
<1>1. IInv => TypeOK
  BY DEF IInv
<1> QED
  BY <1>1, InitIInv, NextIInv, PTL DEF Spec

(***************************************************************************)
(* Buffer accounting: sent and waiting bytes share the transmit buffer,    *)
(* whatever fast_flows_packet, fast_flows_qman, fast_flows_bump and        *)
(* fast_flows_retransmit move between the two.                             *)
(***************************************************************************)
THEOREM Accounting == Spec => []TxAccounting
<1>1. IInv => TxAccounting
  BY DEF IInv, FlowInv, TxAccounting
<1> QED
  BY <1>1, InitIInv, NextIInv, PTL DEF Spec

(***************************************************************************)
(* The out-of-order interval that fast_flows_packet keeps starts inside    *)
(* the receive window and reaches at most one segment beyond it, whatever  *)
(* segments arrive and in whatever order.                                  *)
(***************************************************************************)
THEOREM IntervalStays == Spec => []OooNearWindow
<1>1. IInv => OooNearWindow
  BY DEF IInv, FlowInv, OooNearWindow
<1> QED
  BY <1>1, InitIInv, NextIInv, PTL DEF Spec
-----------------------------------------------------------------------------
\* NoStranded for one flow
Covered(f) ==
  OwnQueue(f) /\ Avail(fs[f]) > 0 => Forwarded(f) \/ \E c \in Cores : Armed(c, f)

(***************************************************************************)
(* No other open flow arms the queue of a flow that has one of its own.    *)
(***************************************************************************)
LEMMA OwnId ==
  ASSUME NEW f \in Flows, NEW g \in Flows, OwnQueue(g), NEW q \in {f, FlowId16(f)}
  PROVE  (g = q) <=> (g = f)
<1>1. FlowId16(g) = g
  BY DEF OwnQueue, FlowId16
<1> QED
  BY <1>1 DEF OwnQueue

(***************************************************************************)
(* The arming rule of fast_flows.c covers its flow: either less may be     *)
(* sent than before, and what covered the flow still does, or this core's  *)
(* queue manager is told the whole amount.  The queue is the flow's own or *)
(* the one its truncated id selects, and not that of another flow that has *)
(* a queue of its own.                                                     *)
(***************************************************************************)
LEMMA ArmCovers ==
  ASSUME IInv, IInv', \A g \in Flows : Covered(g),
         NEW c \in Cores, NEW f \in Flows,
         \A g \in Flows \ {f} : fs'[g] = fs[g],
         NEW q \in {f, FlowId16(f)},
         ArmIfMore(c, f, q), UNCHANGED <<pend, fwd>>
  PROVE  \A g \in Flows : Covered(g)'
<1>1. /\ qavail \in [Cores -> [Flows -> 0 .. TxLen]]
      /\ pend \in [Cores -> [Flows -> 0 .. TxLen]]
      /\ \A g \in Flows : /\ Avail(fs[g]) \in 0 .. TxLen
                          /\ Avail(fs'[g]) \in 0 .. TxLen
  BY SMTT(60), AvailLemma DEF IInv, TypeOK
<1>2. \A g \in Flows : Forwarded(g)' <=> Forwarded(g)
  BY DEF Forwarded
<1> SUFFICES ASSUME NEW g \in Flows, OwnQueue(g) PROVE Covered(g)'
  BY DEF Covered, OwnQueue
<1>q. (g = q) <=> (g = f)
  BY OwnId
<1>3. CASE g # f
  <2>1. /\ fs'[g] = fs[g]
        /\ \A d \in Cores : qavail'[d][g] = qavail[d][g]
    BY <1>1, <1>3, <1>q DEF ArmIfMore, tas_qman_set
  <2> QED
    BY <1>2, <2>1 DEF Covered, Armed
<1>4. CASE g = f /\ Avail(fs'[f]) > Avail(fs[f])
  <2>1. qavail'[c][f] = Avail(fs'[f])
    BY <1>1, <1>4, <1>q DEF ArmIfMore, tas_qman_set
  <2>2. pend'[c][f] \in Nat
    BY <1>1, FlowAssumption
  <2>3. qavail'[c][f] + pend'[c][f] >= Avail(fs'[f])
    BY <1>1, <2>1, <2>2, FlowAssumption
  <2> QED
    BY <1>4, <2>3 DEF Covered, Armed
<1>5. CASE g = f /\ ~ (Avail(fs'[f]) > Avail(fs[f]))
  <2>1. qavail' = qavail /\ Avail(fs'[f]) <= Avail(fs[f])
    BY <1>1, <1>5, FlowAssumption DEF ArmIfMore
  <2>2. ASSUME NEW d \in Cores, Armed(d, f) PROVE Armed(d, f)'
    <3>1. /\ qavail[d][f] \in Nat /\ pend[d][f] \in Nat
          /\ Avail(fs[f]) \in Nat /\ Avail(fs'[f]) \in Nat
      BY <1>1, FlowAssumption
    <3> QED
      BY <2>1, <2>2, <3>1 DEF Armed
  <2>3. Avail(fs'[f]) > 0 => Avail(fs[f]) > 0
    BY <1>1, <2>1, FlowAssumption
  <2> QED
    BY <1>2, <1>5, <2>2, <2>3 DEF Covered
<1> QED
  BY <1>3, <1>4, <1>5

(***************************************************************************)
(* Every step of every core leaves every flow with a queue of its own      *)
(* covered.                                                                *)
(***************************************************************************)
LEMMA NextCovers ==
  ASSUME IInv, IInv', \A g \in Flows : Covered(g), [Next]_vars
  PROVE  \A g \in Flows : Covered(g)'
<1>1. /\ qavail \in [Cores -> [Flows -> 0 .. TxLen]]
      /\ pend \in [Cores -> [Flows -> 0 .. TxLen]]
      /\ fwd \in [Cores -> Seq(Flows)]
      /\ \A g \in Flows : Avail(fs[g]) \in 0 .. TxLen
  BY AvailLemma DEF IInv, TypeOK
<1>2. \A g \in Flows : OwnQueue(g)' <=> OwnQueue(g)
  BY DEF OwnQueue
<1>3. CASE UNCHANGED vars
  BY <1>3 DEF vars, Covered, Forwarded, Armed
<1>4. ASSUME NEW c \in Cores, NEW f \in Flows,
             Packet(c, f) \/ AppBump(c, f) \/ Retransmit(c, f)
      PROVE  \A g \in Flows : Covered(g)'
  <2>1. /\ \A g \in Flows \ {f} : fs'[g] = fs[g]
        /\ ArmIfMore(c, f, f) \/ ArmIfMore(c, f, FlowId16(f))
        /\ UNCHANGED <<pend, fwd>>
    <3>1. /\ ArmIfMore(c, f, f) \/ ArmIfMore(c, f, FlowId16(f))
          /\ UNCHANGED <<pend, fwd>>
      BY Zenon, <1>4 DEF Packet, AppBump, Retransmit
    <3>2. PICK s : fs' = [fs EXCEPT ![f] = s]
      BY Zenon, <1>4 DEF Packet, AppBump, Retransmit
    <3>3. fs \in [Flows -> FlowState]
      BY DEF IInv, TypeOK
    <3> QED
      BY <3>1, <3>2, <3>3
  <2> QED
    BY <2>1, ArmCovers
<1>5. ASSUME NEW c \in Cores, NEW f \in Flows, PollQman(c, f),
             NEW g \in Flows
      PROVE  Covered(g)'
  <2>1. PICK take \in [Flows -> 0 .. TxLen] :
          /\ \A h \in Flows : take[h] \in Chunks(qavail[c][h])
          /\ pend' = [pend EXCEPT ![c] = take]
          /\ qavail' = [qavail EXCEPT
                          ![c] = [h \in Flows |-> qavail[c][h] - take[h]]]
    BY Zenon, <1>5 DEF PollQman
  <2>2. fs' = fs /\ fwd' = fwd /\ \A h \in Flows : pend[c][h] = 0
    BY <1>5 DEF PollQman, Idle
  <2>3. \A d \in Cores : qavail'[d][g] + pend'[d][g] = qavail[d][g] + pend[d][g]
    <3> SUFFICES ASSUME NEW d \in Cores
                 PROVE  qavail'[d][g] + pend'[d][g] = qavail[d][g] + pend[d][g]
      OBVIOUS
    <3>1. CASE d = c
      <4>1. /\ qavail'[c][g] = qavail[c][g] - take[g] /\ pend'[c][g] = take[g]
            /\ pend[c][g] = 0
            /\ qavail[c][g] \in Int /\ take[g] \in Int
        BY <1>1, <2>1, <2>2
      <4> QED
        BY <3>1, <4>1
    <3>2. CASE d # c
      BY <1>1, <2>1, <3>2
    <3> QED
      BY <3>1, <3>2
  <2> QED
    BY <2>2, <2>3 DEF Covered, Armed, Forwarded
<1>6. ASSUME NEW c \in Cores, NEW f \in Flows, SendSegment(c, f),
             NEW g \in Flows
      PROVE  Covered(g)'
  <2>1. /\ fs' = [fs EXCEPT ![f] = fast_flows_qman(fs[f])]
        /\ pend' = [pend EXCEPT ![c][f] = pend[c][f] - Min2(pend[c][f], Mss)]
        /\ qavail' = qavail /\ fwd' = fwd
    BY <1>6 DEF SendSegment, TakeChunk
  <2>2. CASE g # f
    <3>1. fs'[g] = fs[g] /\ \A d \in Cores : pend'[d][g] = pend[d][g]
      BY <1>1, <2>1, <2>2 DEF IInv, TypeOK
    <3> QED
      BY <2>1, <3>1 DEF Covered, Armed, Forwarded
  <2>3. CASE g = f
    <3>1. /\ Avail(fs'[f]) = Avail(fs[f]) - SegBytes(fs[f])
          /\ SegBytes(fs[f]) = Min2(Avail(fs[f]), Mss)
      BY <2>1, QmanInv, AvailLemma DEF IInv, TypeOK
    <3>2. ASSUME NEW d \in Cores, Armed(d, f), Avail(fs'[f]) > 0
          PROVE  Armed(d, f)'
      <4>1. /\ qavail[d][f] \in Nat /\ pend[d][f] \in Nat
            /\ Avail(fs[f]) \in Nat /\ Mss \in Nat
        BY <1>1, FlowAssumption
      <4>2. Avail(fs'[f]) = Avail(fs[f]) - Mss
        BY <3>1, <3>2, <4>1 DEF Min2
      <4>3. pend'[d][f] \in {pend[d][f], pend[d][f] - Min2(pend[d][f], Mss)}
        BY <1>1, <2>1
      <4>4. pend'[d][f] \in Int /\ pend'[d][f] >= pend[d][f] - Mss
        BY <4>1, <4>3 DEF Min2
      <4>5. qavail[d][f] + pend[d][f] >= Avail(fs[f])
        BY <3>2 DEF Armed
      <4>6. qavail'[d][f] + pend'[d][f] >= Avail(fs'[f])
        BY <2>1, <4>1, <4>2, <4>4, <4>5
      <4> QED
        BY <4>6 DEF Armed
    <3>3. Avail(fs'[f]) > 0 => Avail(fs[f]) > 0
      BY <1>1, <3>1, FlowAssumption DEF Min2
    <3>4. Forwarded(f)' <=> Forwarded(f)
      BY <2>1 DEF Forwarded
    <3> QED
      BY <2>3, <3>2, <3>3, <3>4 DEF Covered
  <2> QED
    BY <2>2, <2>3
<1>7. ASSUME NEW c \in Cores, NEW f \in Flows, ForwardFlow(c, f),
             NEW g \in Flows
      PROVE  Covered(g)'
  <2>1. PICK d \in Cores :
          fs' = fs /\ fwd' = [fwd EXCEPT ![d] = Append(fwd[d], f)]
    BY Zenon, <1>7 DEF ForwardFlow, IInv, TypeOK
  <2>2. CASE g = f
    <3>1. /\ Len(fwd'[d]) = Len(fwd[d]) + 1 /\ fwd'[d][Len(fwd[d]) + 1] = f
          /\ Len(fwd[d]) \in Nat
      BY <1>1, <2>1
    <3>2. Len(fwd[d]) + 1 \in 1 .. Len(fwd'[d])
      BY <3>1
    <3>3. Forwarded(f)'
      BY <2>1, <3>1, <3>2 DEF Forwarded
    <3> QED
      BY <2>2, <3>3 DEF Covered
  <2>3. CASE g # f
    <3>1. \A e \in Cores : /\ qavail'[e][g] = qavail[e][g]
                           /\ pend'[e][g] = pend[e][g]
      BY SMTT(60), <1>1, <1>7, <2>3 DEF ForwardFlow, TakeChunk, tas_qman_set
    <3>2. ASSUME NEW e \in Cores, NEW i \in 1 .. Len(fwd[e]), fwd[e][i] = g
          PROVE  i \in 1 .. Len(fwd'[e]) /\ fwd'[e][i] = g
      <4>1. CASE e = d
        <5>1. fwd[d] \in Seq(Flows) /\ fwd'[d] = Append(fwd[d], f)
          BY <1>1, <2>1
        <5> QED
          BY <3>2, <4>1, <5>1
      <4>2. CASE e # d
        BY <1>1, <2>1, <3>2, <4>2
      <4> QED
        BY <4>1, <4>2
    <3>3. Forwarded(g) => Forwarded(g)'
      BY <3>2 DEF Forwarded
    <3> QED
      BY <2>1, <3>1, <3>3 DEF Covered, Armed
  <2> QED
    BY <2>2, <2>3
<1>8. ASSUME NEW c \in Cores, QmanFwd(c), NEW g \in Flows, OwnQueue(g)
      PROVE  Covered(g)'
  <2>1. PICK f \in Flows : /\ f = Head(fwd[c])
                           /\ fwd[c] \in Seq(Flows) /\ fwd[c] # <<>>
    BY <1>1, <1>8 DEF QmanFwd
  <2>q. (g = FlowId16(f)) <=> (g = f)
    BY <1>8, OwnId
  <2>2. /\ fwd' = [fwd EXCEPT ![c] = Tail(fwd[c])]
        /\ qavail' = [qavail EXCEPT ![c][FlowId16(f)] = Avail(fs[f])]
        /\ fs' = fs /\ pend' = pend
    BY ZenonT(60), <1>8, <2>1 DEF QmanFwd, tas_qman_set
  <2>3. CASE g = f
    <3>1. /\ qavail'[c][f] = Avail(fs[f]) /\ pend[c][f] \in Nat
          /\ Avail(fs[f]) \in Nat
      BY <1>1, <2>1, <2>2, <2>3, <2>q, FlowAssumption
    <3>2. Armed(c, f)'
      BY <2>2, <3>1 DEF Armed
    <3> QED
      BY <2>3, <3>2 DEF Covered
  <2>4. CASE g # f
    <3>1. \A e \in Cores : qavail'[e][g] = qavail[e][g]
      BY <1>1, <2>2, <2>4, <2>q
    <3>2. ASSUME NEW e \in Cores, NEW i \in 1 .. Len(fwd[e]), fwd[e][i] = g
          PROVE  \E j \in 1 .. Len(fwd'[e]) : fwd'[e][j] = g
      <4>1. CASE e = c
        <5>1. i # 1
          BY <2>1, <2>4, <3>2, <4>1
        <5>2. /\ fwd'[c] = Tail(fwd[c]) /\ Len(fwd'[c]) = Len(fwd[c]) - 1
              /\ Len(fwd[c]) \in Nat
          BY <1>1, <2>1, <2>2
        <5>3. i - 1 \in 1 .. Len(fwd'[c])
          BY <4>1, <5>1, <5>2
        <5>4. fwd'[c][i - 1] = g
          BY <2>1, <3>2, <4>1, <5>2, <5>3
        <5> QED
          BY <4>1, <5>3, <5>4
      <4>2. CASE e # c
        BY Zenon, <1>1, <2>2, <3>2, <4>2
      <4> QED
        BY <4>1, <4>2
    <3>3. Forwarded(g) => Forwarded(g)'
      BY <3>2 DEF Forwarded
    <3> QED
      BY <2>2, <3>1, <3>3 DEF Covered, Armed
  <2> QED
    BY <2>3, <2>4
<1>9. ASSUME NEW c \in Cores, NEW f \in Flows, Steer(f, c)
      PROVE  \A g \in Flows : Covered(g)'
  BY <1>9 DEF Steer, Covered, Armed, Forwarded
<1>10. \A g \in Flows : ~ OwnQueue(g) => Covered(g)'
  BY <1>2 DEF Covered
<1> QED
  BY <1>3, <1>4, <1>5, <1>6, <1>7, <1>8, <1>9, <1>10 DEF Next

(***************************************************************************)
(* No lost arming, for any number of cores, any set of open flows and any  *)
(* steering changes: what a flow with a queue of its own may send is       *)
(* always covered by some core's queue manager or by a forwarding ring.    *)
(***************************************************************************)
THEOREM NothingStranded == Spec => []NoStranded
<1> DEFINE Inv == IInv /\ \A g \in Flows : Covered(g)
<1>1. Init => Inv
  <2> SUFFICES ASSUME Init PROVE \A g \in Flows : Covered(g)
    BY InitIInv
  <2>1. \A g \in Flows : Avail(fs[g]) = 0
    <3>1. 0 \in SeqNum
      BY SeqModAssumption DEF SeqNum
    <3>2. \A g \in Flows : fs[g] = nicif_connection_add(0, 0)
      BY DEF Init
    <3> QED
      BY Zenon, <3>1, <3>2, AddInv
  <2> QED
    BY <2>1 DEF Covered
<1>2. Inv /\ [Next]_vars => Inv'
  BY NextIInv, NextCovers
<1>3. Inv => NoStranded
  BY DEF Covered, NoStranded
<1> QED
  BY <1>1, <1>2, <1>3, PTL DEF Spec
-----------------------------------------------------------------------------
\* one step of one flow, as AckMonotonic and RxFinFinal see it
Forward(r, s) == AckForwardStep(r, s) /\ (s.rxfin => SameRx(r, s))

(***************************************************************************)
(* Every step of every core moves the acknowledged bytes of every flow     *)
(* forward, and leaves a finished receive stream alone.                    *)
(***************************************************************************)
LEMMA NextForward ==
  ASSUME IInv, [Next]_vars
  PROVE  \A g \in Flows : Forward(fs'[g], fs[g])
<1>1. \A g \in Flows : /\ FlowInv(fs[g]) /\ fs[g] \in FlowState
                       /\ Forward(fs[g], fs[g])
  BY SameAck DEF IInv, TypeOK, Forward, SameRx
<1>2. ASSUME NEW f \in Flows, NEW r, fs' = [fs EXCEPT ![f] = r], Forward(r, fs[f])
      PROVE  \A g \in Flows : Forward(fs'[g], fs[g])
  BY <1>1, <1>2 DEF IInv, TypeOK
<1>3. CASE fs' = fs
  BY <1>1, <1>3
<1>4. ASSUME NEW c \in Cores, NEW f \in Flows, Packet(c, f)
      PROVE  \A g \in Flows : Forward(fs'[g], fs[g])
  <2>1. PICK p \in Segs : fs' = [fs EXCEPT ![f] = fast_flows_packet(fs[f], p)]
    BY Zenon, <1>4 DEF Packet
  <2>2. p \in Segment
    BY FastPathAssumption
  <2>3. Forward(fast_flows_packet(fs[f], p), fs[f])
    BY <1>1, <2>2, PacketAck, PacketFinal DEF Forward
  <2> QED
    BY Zenon, <1>2, <2>1, <2>3
<1>5. ASSUME NEW c \in Cores, NEW f \in Flows, AppBump(c, f)
      PROVE  \A g \in Flows : Forward(fs'[g], fs[g])
  <2>1. PICK b \in Bumps : fs' = [fs EXCEPT ![f] = fast_flows_bump(fs[f], b)]
    BY Zenon, <1>5 DEF AppBump
  <2>2. /\ SameTx(fast_flows_bump(fs[f], b), fs[f])
        /\ SameRx(fast_flows_bump(fs[f], b), fs[f])
    BY <1>1, BumpSame
  <2>3. AckForwardStep(fast_flows_bump(fs[f], b), fs[f])
    BY <1>1, <2>2, SameAck DEF SameTx, fsack_a
  <2> QED
    BY Zenon, <1>2, <2>1, <2>2, <2>3 DEF Forward
<1>6. ASSUME NEW c \in Cores, NEW f \in Flows, Retransmit(c, f)
      PROVE  \A g \in Flows : Forward(fs'[g], fs[g])
  BY <1>1, <1>2, <1>6, RetransmitSame DEF Retransmit, Forward
<1>7. ASSUME NEW c \in Cores, NEW f \in Flows, SendSegment(c, f)
      PROVE  \A g \in Flows : Forward(fs'[g], fs[g])
  BY <1>1, <1>2, <1>7, QmanAck DEF SendSegment, Forward
<1>8. ASSUME NEW c \in Cores, NEW f \in Flows,
             PollQman(c, f) \/ ForwardFlow(c, f) \/ Steer(f, c) \/ QmanFwd(c)
      PROVE  fs' = fs
  BY <1>8 DEF PollQman, ForwardFlow, Steer, QmanFwd
<1>9. ASSUME NEW c \in Cores, QmanFwd(c) PROVE fs' = fs
  BY <1>9 DEF QmanFwd
<1>10. CASE UNCHANGED vars
  BY <1>3, <1>10 DEF vars
<1> QED
  BY <1>3, <1>4, <1>5, <1>6, <1>7, <1>8, <1>9, <1>10 DEF Next

(***************************************************************************)
(* Acknowledged bytes stay acknowledged: through every mix of packets,     *)
(* future acknowledgements, fast retransmissions and timeouts on any cores *)
(* the oldest unacknowledged byte moves forward only, and within what the  *)
(* application has written.                                                *)
(***************************************************************************)
THEOREM AckForward == Spec => AckMonotonic
<1>1. IInv /\ [Next]_vars =>
        [\A f \in Flows : SeqSub(fsack_a(fs'[f]), fsack_a(fs[f]))
                            <= fs[f].tx_sent + fs[f].tx_avail]_fs
  BY NextForward DEF Forward, AckForwardStep
<1> QED
  BY <1>1, InitIInv, NextIInv, PTL DEF Spec, AckMonotonic

(***************************************************************************)
(* The receive stream ends with the FIN: whatever segments arrive after    *)
(* fast_flows_packet accepted one, rx_next_seq and rx_next_pos stay.       *)
(***************************************************************************)
THEOREM StreamEnds == Spec => RxFinFinal
<1>1. IInv /\ [Next]_vars =>
        [\A f \in Flows :
           fs[f].rxfin => /\ fs'[f].rxfin
                          /\ fs'[f].rx_next_seq = fs[f].rx_next_seq
                          /\ fs'[f].rx_next_pos = fs[f].rx_next_pos]_fs
  BY NextForward DEF Forward, SameRx
<1> QED
  BY <1>1, InitIInv, NextIInv, PTL DEF Spec, RxFinFinal
=============================================================================
