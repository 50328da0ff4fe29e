--------------------------- MODULE MC_Structures ---------------------------
(***************************************************************************)
(* One run for the data structures and algorithms that the slow path and   *)
(* the fast path rest on.  A behaviour is about one of them: part says     *)
(* which, and the variables of the others stay as they were initially.     *)
(***************************************************************************)
EXTENDS MC_TcpCommon

CONSTANTS Parts,
          MemLen, AllocLens,
          Half, Timers, Delays, MAX_TIMEOUTS, MaxLate,
          Entries, NBSZ, Flows, Hashes, MaxAdds,
          Conns, None, Batch,
          U32, I32, I16, Algorithms, MSS, TxLen, Rate0, MinRate, Step, Weight,
          Beta, Alpha, MinPkts, TLow, THigh, MinRtt, RexmitInts, RttInit, LinkBw,
          RxbLen, IovLens

VARIABLES part,
          freelist, held,
          now, timeouts, due, ts, num, left,
          hte, hash, sp, rd, adds, strayed,
          cc_conns, next_conn, next_vm, vm_count, visited,
          alg, cc, rex, marked,
          rxb, evs, buf, len, next, wrong

Vms == <<"vm0", "vm1">>
VmOf == [c \in Conns |-> IF c \in {"c1", "c2", "c3"} THEN "vm0" ELSE "vm1"]

Reading(acks, ackb, ecnb, drops, rtt, act, txp) ==
  [acks |-> acks, ackb |-> ackb, ecnb |-> ecnb, drops |-> drops, rtt |-> rtt,
   act |-> act, txp |-> txp]
Stats == {Reading(0, 0, 0, 0, 0, 0, TRUE),  Reading(1, 1, 0, 0, 1, 6, TRUE),
          Reading(2, 4, 0, 0, 2, 12, TRUE), Reading(2, 4, 3, 0, 4, 12, TRUE),
          Reading(1, 2, 0, 1, 3, 0, FALSE), Reading(0, 0, 0, 0, 2, 6, FALSE)}

PM == INSTANCE PacketMem
TO == INSTANCE Timeout
FT == INSTANCE FlowTable
CS == INSTANCE CcSched
CL == INSTANCE CcLaw
RP == INSTANCE RxPieces WITH RxLen <- RxbLen

tcpVars   == <<fs, pkt>>
memVars   == <<freelist, held>>
timeVars  == <<now, timeouts, due, ts, num, left>>
tableVars == <<hte, hash, sp, rd, adds, strayed>>
schedVars == <<cc_conns, next_conn, next_vm, vm_count, visited>>
lawVars   == <<alg, cc, rex, marked>>
rxVars    == <<rxb, evs, buf, len, next, wrong>>
suite == <<part, tcpVars, memVars, timeVars, tableVars, schedVars, lawVars, rxVars>>

SuiteInit ==
  /\ part \in Parts
  /\ IF part = "tcp" THEN Init
     ELSE /\ fs = CHOOSE g \in Flow : g.tx_sent + g.tx_avail = 0
          /\ pkt = NoSegment
  /\ PM!packetmem_init
  /\ TO!util_timeout_init
  /\ part # "timeout" => now = 0
  /\ FT!Init
  /\ CS!cc_init
  /\ CL!cc_conn_init
  /\ part # "law" => alg = "const"
  /\ RP!Init

OnTcp   == /\ part = "tcp"
           /\ UNCHANGED <<part, memVars, timeVars, tableVars, schedVars, lawVars, rxVars>>
OnMem   == /\ part = "packetmem"
           /\ UNCHANGED <<part, tcpVars, timeVars, tableVars, schedVars, lawVars, rxVars>>
OnTime  == /\ part = "timeout"
           /\ UNCHANGED <<part, tcpVars, memVars, tableVars, schedVars, lawVars, rxVars>>
OnTable == /\ part = "flowtable"
           /\ UNCHANGED <<part, tcpVars, memVars, timeVars, schedVars, lawVars, rxVars>>
OnSched == /\ part = "sched"
           /\ UNCHANGED <<part, tcpVars, memVars, timeVars, tableVars, lawVars, rxVars>>
OnLaw   == /\ part = "law"
           /\ UNCHANGED <<part, tcpVars, memVars, timeVars, tableVars, schedVars, rxVars>>
OnRx    == /\ part = "rx"
           /\ UNCHANGED <<part, tcpVars, memVars, timeVars, tableVars, schedVars, lawVars>>

SuiteNext ==
  \/ OnTcp /\ Arrives
  \/ \E length \in AllocLens : OnMem /\ PM!packetmem_alloc(length)
  \/ \E ph \in held : OnMem /\ PM!packetmem_free(ph)
  \/ \E t \in Timers, us \in Delays : OnTime /\ TO!util_timeout_arm(t, us)
  \/ \E t \in Timers : OnTime /\ TO!util_timeout_disarm(t)
  \/ OnTime /\ TO!PollBegin
  \/ OnTime /\ TO!PollOne
  \/ OnTime /\ TO!Tick
  \/ \E f \in Flows, h \in Hashes : OnTable /\ FT!SlotSearch(f, h)
  \/ OnTable /\ FT!PickMove
  \/ OnTable /\ FT!MoveUp
  \/ OnTable /\ FT!MoveId
  \/ OnTable /\ FT!MoveClear
  \/ OnTable /\ FT!InsertHash
  \/ OnTable /\ FT!InsertId
  \/ \E f \in Flows : OnTable /\ FT!flow_slot_clear(f)
  \/ \E f \in Flows : OnTable /\ FT!LookupStart(f)
  \/ OnTable /\ FT!LookupId
  \/ OnTable /\ FT!LookupHash
  \/ OnTable /\ FT!LookupEnd
  \/ OnSched /\ CS!tas_register_vm
  \/ \E c \in Conns : OnSched /\ CS!cc_conn_init(c)
  \/ \E c \in Conns : OnSched /\ CS!cc_conn_remove(c)
  \/ OnSched /\ CS!cc_poll
  \/ OnLaw /\ CL!Next
  \/ \E n \in 1 .. RxbLen : OnRx /\ RP!Received(n)
  \/ OnRx /\ RP!ev_conn_received
  \/ \E iov \in IovLens : OnRx /\ RP!recv_simple(iov)
  \/ \E iov1, iov2 \in IovLens : OnRx /\ RP!tas_recvmsg(iov1, iov2)

SuiteSpec == SuiteInit /\ [][SuiteNext]_suite

\* the fairness of each component, in the behaviours that are about it
FairSuite ==
  /\ SuiteSpec
  /\ WF_timeVars(part = "timeout" /\ TO!PollBegin)
  /\ WF_timeVars(part = "timeout" /\ TO!PollOne)
  /\ WF_timeVars(part = "timeout" /\ TO!Tick)
  /\ WF_schedVars(part = "sched" /\ CS!cc_poll)
  /\ WF_lawVars(part = "law" /\ CL!Next)
  /\ SF_lawVars(part = "law" /\ CL!Retransmit)
-----------------------------------------------------------------------------
\* packetmem.c: no byte is handed out twice, and none is lost.
HandlesTile == PM!HandlesTile

\* timeout.c: a handler only runs for a timeout whose time is over, and
\* util_timeout_next is the time until the earliest deadline.
TimersExact == TO!DueIsOver /\ TO!NextExact

\* timeout.c: every armed timeout is handled or disarmed in the end.
EveryTimeoutEnds == TO!EveryTimeoutEnds

\* nicif.c and fast_flows.c: a lookup that races with the displacement of
\* entries by flow_slot_alloc finds its connection, unless its entry was moved
\* out of its neighbourhood, an error of flow_slot_alloc: a move copies the
\* position bits instead of adding the distance, so a second move goes too far.
\* flow_slot_alloc overwrites no valid entry.
LookupFinds == FT!LookupFinds /\ FT!SlotIsFree

\* cc.c: the control loop visits every connection again and again, and its
\* cursor never points to a removed one.
EveryConnVisited == []CS!CursorListed /\ CS!EveryConnVisited

\* cc.c: losses and marks never make DCTCP faster, one update takes at most
\* half of the window, and the asserts on the window and the minimum of the
\* rates hold throughout.
ReactsToCongestion ==
  /\ CL!CongestionNeverGrows /\ CL!WindowHalvesAtMost
  /\ [](CL!WindowBounds /\ CL!RateAtLeastMin)

\* cc.c: issue_retransmits retransmits what is not acknowledged.
StalledIsRetransmitted == CL!StalledIsRetransmitted

\* lib/sockets: applications read the stream in order and without gaps.
ReadsInOrder == RP!ReadsInOrder
=============================================================================
