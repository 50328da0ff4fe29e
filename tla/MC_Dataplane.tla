--------------------------- MODULE MC_Dataplane ---------------------------
(***************************************************************************)
(* One run for what a fast-path core does besides the flows themselves:    *)
(* its queue manager, the polling of the applications' contexts, its       *)
(* packet buffers, the budgets it spends, and its rings with the slow path *)
(* and with applications.  A behaviour is about one of them: part says     *)
(* which, and the variables of the others stay as they were initially.     *)
(***************************************************************************)
EXTENDS Integers, Sequences, FiniteSets

CONSTANTS Parts,
          VmIds, FlowIds, Levels, TsHalf, MaxLag, IdleTimes, Batches,
          Movers,
          PollVms, BatchSize, MaxRounds, MaxNull, MaxPend, PollBufs,
          Handles, BufcacheSize, TxbufSize, BufBatch,
          BuVms, BuCores, BuMax, BuTotals, BuCosts, MaxRexmits,
          KCores, NicRxLen, NicTxLen,
          RingCores, RxqLen, TxqLen, EvNum, RingBatch

VARIABLES part,
          flow_vm, qm, qbudget, fired,
          core, cbudget,
          pool, bc, tx, nic, stage, full,
          budget, upd, rexmits,
          kload, krx, ktx, rxq_next, busy,
          load, need, arx, atx, app, oops

\* both flows belong to one VM, or each to one; the first may be unlimited
FlowVms == {[f \in FlowIds |-> "v1"], [f \in FlowIds |-> IF f = "a" THEN "v1" ELSE "v2"]}
MaxAvail == [f \in FlowIds |-> IF f = "a" THEN 2 ELSE 1]
Gaps == [f \in FlowIds |-> IF f = "a" THEN {0, 1} ELSE {1}]
PollCtxs == <<{1, 2}, {1}>>
KLoads == {{<<"krx", 0>>, <<"krx", 1>>, <<"ktx", 0>>}, {<<"ktx", 0>>, <<"ktx", 1>>}}

\* updates of one and of two events, and bumps
RingCases == {[load |-> {"arx"}, need |-> [q \in RingCores |-> q + 1]],
              [load |-> {"atx"}, need |-> [q \in RingCores |-> 1]]}

QM == INSTANCE Qman WITH s <- qm, budget <- qbudget
AP == INSTANCE AppPoll WITH c <- core, budget <- cbudget
CF == INSTANCE CoreBufs
BU == INSTANCE Budget
KR == INSTANCE KernelRings
AR == INSTANCE AppRings

qmVars     == <<flow_vm, qm, qbudget, fired>>
pollVars   == <<core, cbudget>>
bufVars    == <<pool, bc, tx, nic, stage, full>>
budgetVars == <<budget, upd, rexmits>>
kringVars  == <<kload, krx, ktx, rxq_next, busy>>
ringVars   == <<load, need, arx, atx, app, oops>>
suite == <<part, qmVars, pollVars, bufVars, budgetVars, kringVars, ringVars>>

SuiteInit ==
  /\ part \in Parts
  /\ QM!Init
  /\ part # "qman" => flow_vm = [f \in FlowIds |-> "v1"]
  /\ AP!Init
  /\ CF!Init
  /\ BU!Init
  /\ KR!Init
  /\ part # "kernel" => kload = CHOOSE l \in KLoads : TRUE
  /\ AR!Init
  /\ part # "rings" => load = {"atx"}

OnQman   == /\ part = "qman"
            /\ UNCHANGED <<part, pollVars, bufVars, budgetVars, kringVars, ringVars>>
OnPoll   == /\ part = "apppoll"
            /\ UNCHANGED <<part, qmVars, bufVars, budgetVars, kringVars, ringVars>>
OnBufs   == /\ part = "bufs"
            /\ UNCHANGED <<part, qmVars, pollVars, budgetVars, kringVars, ringVars>>
OnBudget == /\ part = "budget"
            /\ UNCHANGED <<part, qmVars, pollVars, bufVars, kringVars, ringVars>>
OnKernel == /\ part = "kernel"
            /\ UNCHANGED <<part, qmVars, pollVars, bufVars, budgetVars, ringVars>>
OnRings  == /\ part = "rings" /\ ~oops
            /\ UNCHANGED <<part, qmVars, pollVars, bufVars, budgetVars, kringVars>>

SuiteNext ==
  \/ OnQman /\ QM!SetSome
  \/ OnQman /\ QM!MoveSome
  \/ OnQman /\ QM!Poll
  \/ OnQman /\ QM!Boost
  \/ OnQman /\ QM!Tick
  \/ OnPoll /\ AP!Poll
  \/ \E v \in PollVms : OnPoll /\ AP!boost_budget(v)
  \/ \E v \in PollVms : OnPoll /\ AP!tas_register_vm(v)
  \/ \E v \in PollVms : \E x \in PollCtxs[v] : OnPoll /\ AP!tas_register_appctx(v, x)
  \/ \E v \in PollVms : \E x \in PollCtxs[v] : OnPoll /\ AP!Send(v, x)
  \/ OnBufs /\ CF!poll_rx
  \/ OnBufs /\ CF!poll_qman
  \/ OnBufs /\ CF!poll_queues
  \/ OnBufs /\ CF!poll_kernel
  \/ OnBufs /\ CF!tx_flush
  \/ OnBufs /\ CF!NicSent
  \/ \E c \in BuCores : OnBudget /\ BU!spend_budget(c)
  \/ \E c \in BuCores, v \in BuVms : OnBudget /\ BU!SpendRexmit(c, v)
  \/ OnBudget /\ BU!budget_update
  \/ OnBudget /\ BU!ReadDelta
  \/ OnBudget /\ BU!BoostRead
  \/ OnBudget /\ BU!BoostAdd
  \/ \E c \in KCores : OnKernel /\ KR!fast_kernel_packet(c)
  \/ OnKernel /\ KR!rxq_poll
  \/ OnKernel /\ KR!rxq_poll_done
  \/ OnKernel /\ KR!nicif_tx
  \/ \E c \in KCores : OnKernel /\ KR!nicif_connection_retransmit(c)
  \/ \E c \in KCores : OnKernel /\ KR!fast_kernel_poll(c)
  \/ \E c \in KCores : OnKernel /\ KR!fast_kernel_poll_done(c)
  \/ \E q \in RingCores, n \in 1 .. RingBatch : OnRings /\ AR!arx_cache_flush(q, n)
  \/ \E q \in RingCores : OnRings /\ AR!WriteArx(q)
  \/ \E q \in RingCores : OnRings /\ AR!fast_actx_rxq_probe(q)
  \/ \E q \in RingCores : OnRings /\ AR!fast_appctx_poll_fetch(q)
  \/ \E q \in RingCores : OnRings /\ AR!fast_appctx_poll_bump(q)
  \/ \E q \in RingCores : OnRings /\ AR!Bump(q)
  \/ OnRings /\ AR!PollBegin
  \/ OnRings /\ AR!Gather
  \/ OnRings /\ AR!Handle
  \/ OnRings /\ AR!PollEnd

SuiteSpec == SuiteInit /\ [][SuiteNext]_suite

\* the fairness of each component, in the behaviours that are about it
FairSuite ==
  /\ SuiteSpec
  /\ []<>(part # "qman") \/ []<><<fired' # {}>>_qmVars
  /\ WF_qmVars(part = "qman" /\ QM!Boost)
  /\ WF_budgetVars(part = "budget" /\ (BU!budget_update \/ BU!ReadDelta \/ BU!BoostRead
                                         \/ BU!BoostAdd))
  /\ WF_kringVars(part = "kernel" /\ (KR!rxq_poll \/ KR!rxq_poll_done))
  /\ WF_ringVars(part = "rings" /\ ~oops /\ (AR!PollBegin \/ AR!Gather \/ AR!Handle
                                              \/ AR!PollEnd))
  /\ \A q \in RingCores :
       /\ WF_ringVars(part = "rings" /\ ~oops /\ AR!WriteArx(q))
       /\ WF_ringVars(part = "rings" /\ ~oops /\ (AR!fast_appctx_poll_fetch(q)
                                                   \/ AR!fast_appctx_poll_bump(q)))
-----------------------------------------------------------------------------
\* qman.c: every flow with data stays where a poll finds it, VMs count what
\* their flows count, skip lists stay sorted, no flow waits longer than its
\* rate asks for, and a poll ends.
QueuesIntact ==
  /\ QM!VmAvailIsSum /\ QM!NothingForgotten /\ QM!SkipListOrdered
  /\ QM!WaitIsReasonable /\ QM!PollEnds

\* qman.c: a poll comes back empty only when nothing may be sent, and every flow
\* with data is sent from in the end.
EveryFlowSent == QM!WorkConserving /\ QM!EveryFlowSent

\* fast_appctx.c: the rings of active contexts and VMs stay rings, a full poll
\* finds what there is, and no context starves; with at most BATCH_SIZE contexts
\* rem_ctxs is large enough.
EveryContextServed ==
  [](AP!RingsIntact /\ AP!RemFits) /\ AP!FullPollFindsWork /\ AP!EveryContextServed

\* fastemu.c: every packet buffer has one owner, and tx_send finds room.
OneOwner == CF!OneOwner /\ CF!TxFits

\* budget.c, tas.c and fastemu.c: budgets and shares keep their bounds though
\* cores spend while the slow path adds, and budget returns to who has none.
BudgetReturns == [](BU!AtMostMax /\ BU!SharesAddUp) /\ BU!BudgetReturns

\* nicif.c and fast_kernel.c: the rings between slow path and cores hold what
\* was sent and not taken yet, in order, and every core's packets are taken.
KernelRingsServed == [](KR!KrxIntact /\ KR!KtxIntact) /\ KR!KrxServed

\* fast_appctx.c and init.c: the rings between a core and a context hold what
\* was put in and not taken yet, in order; entries that the application noted
\* stay valid until it handles them; and every entry is handled, those that
\* need two events and find one left set apart (EntriesHandled says which).
AppRingsServed ==
  /\ [](AR!ArxIntact /\ AR!AtxIntact /\ AR!NotedStaysValid)
  /\ AR!EntriesHandled
=============================================================================
