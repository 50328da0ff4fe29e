------------------------------- MODULE Budget -------------------------------
(***************************************************************************)
(* Budgets of processor cycles per VM and core.  A core subtracts what its *)
(* polls cost from the VMs that caused them (spend_budget); every period   *)
(* the slow path hands out new cycles, to each core by how far the VM's    *)
(* budget there is below the maximum (budget_update, boost_budget).  The   *)
(* slow path reads all cores' budgets, computes, reads each again and      *)
(* adds, while the cores keep spending: only the single operations on a    *)
(* budget are atomic.                                                      *)
(***************************************************************************)
EXTENDS Integers, FiniteSets, FiniteSetsExt

CONSTANTS BuVms,        \* registered VMs: 1 .. n
          BuCores,      \* budget_threads_launched cores: 1 .. n
          BuMax,        \* config.bu_max_budget
          BuTotals,     \* bu_boost times the cycles since the last update
          BuCosts,      \* cycles of a poll
          MaxRexmits    \* bound: retransmissions, which are charged in any case

VARIABLES budget,       \* budgets[vm].budget of every core
          upd,          \* the slow path's update
          rexmits       \* retransmissions so far

budgetVars == <<budget, upd, rexmits>>

NBuCores == Cardinality(BuCores)
None == BuMax + 1
Idle == [vm |-> 0, core |-> 0, total |-> 0, deltas |-> [c \in BuCores |-> 0], sum |-> 0,
         old |-> None]

Init ==
  /\ budget = [v \in BuVms |-> [c \in BuCores |-> BuMax]]
  /\ upd = Idle /\ rexmits = 0
-----------------------------------------------------------------------------
\* spend_budget: what the VMs with counters pay of the cost of a poll, in proportion.
\* Only VMs with budget are counted (poll_rx, poll_qman, poll_queues).
spend_budget(c) ==
  \E cost \in BuCosts, counter \in [BuVms -> 0 .. 1] :
    LET n == Cardinality({v \in BuVms : counter[v] = 1})
    IN  /\ n > 0
        /\ \A v \in BuVms : counter[v] = 1 => budget[v][c] > 0
        /\ budget' = [v \in BuVms |->
                        [budget[v] EXCEPT ![c] = @ - (cost * counter[v]) \div n]]
        /\ UNCHANGED <<upd, rexmits>>

\* The same for a retransmission of fast_flows_retransmit or fast_flows_winretransmit.
SpendRexmit(c, v) ==
  /\ rexmits < MaxRexmits /\ rexmits' = rexmits + 1
  /\ \E cost \in BuCosts : budget' = [budget EXCEPT ![v][c] = @ - cost]
  /\ UNCHANGED upd
-----------------------------------------------------------------------------
\* budget_update when a period is over.
budget_update ==
  /\ upd.vm = 0
  /\ \E total \in BuTotals : upd' = [upd EXCEPT !.vm = 1, !.core = 1, !.total = total]
  /\ UNCHANGED <<budget, rexmits>>

\* incr: the VM's share of the cycles of all cores, with equal weights (init_vm_weights).
Incr == (upd.total \div Cardinality(BuVms)) * NBuCores

\* get_budget_delta of one core after the other.
ReadDelta ==
  /\ upd.vm # 0 /\ upd.core > 0
  /\ upd' = [upd EXCEPT !.deltas[upd.core] = BuMax - budget[upd.vm][upd.core],
                        !.sum = @ + (BuMax - budget[upd.vm][upd.core]),
                        !.core = IF @ = NBuCores THEN -1 ELSE @ + 1]
  /\ UNCHANGED <<budget, rexmits>>

\* weighted_incr of a core
Share(c) ==
  IF upd.sum = 0 THEN Incr \div NBuCores ELSE (Incr * upd.deltas[c]) \div upd.sum

\* boost_budget up to its second access; cores are counted downwards from -1 here.
BoostRead ==
  /\ upd.vm # 0 /\ upd.core < 0 /\ upd.old = None
  /\ upd' = [upd EXCEPT !.old = budget[upd.vm][-upd.core]]
  /\ UNCHANGED <<budget, rexmits>>

\* Mutation of Added: the check of the limit leaves out what is added.
added_checks_old(c) == IF upd.old >= BuMax THEN 0 ELSE Share(c)

Added(c) == IF upd.old + Share(c) > BuMax THEN BuMax - upd.old ELSE Share(c)

BoostAdd ==
  LET c == -upd.core
      lastVm == upd.vm = Cardinality(BuVms)
  IN  /\ upd.vm # 0 /\ upd.core < 0 /\ upd.old # None
      /\ budget' = [budget EXCEPT ![upd.vm][c] = @ + Added(c)]
      /\ upd' = IF c < NBuCores THEN [upd EXCEPT !.core = @ - 1, !.old = None]
                ELSE IF lastVm THEN Idle
                ELSE [Idle EXCEPT !.vm = upd.vm + 1, !.core = 1, !.total = upd.total]
      /\ UNCHANGED rexmits

Next ==
  \/ \E c \in BuCores : spend_budget(c)
  \/ \E c \in BuCores, v \in BuVms : SpendRexmit(c, v)
  \/ budget_update
  \/ ReadDelta
  \/ BoostRead
  \/ BoostAdd

\* slowpath_main calls budget_update all the time.
Fairness == WF_budgetVars(budget_update \/ ReadDelta \/ BoostRead \/ BoostAdd)

Spec == Init /\ [][Next]_budgetVars
-----------------------------------------------------------------------------
(* No budget exceeds the maximum, although boost_budget adds to a value    *)
(* that cores may have changed since it computed what to add.              *)
AtMostMax == \A v \in BuVms, c \in BuCores : budget[v][c] <= BuMax

(* What is computed from budgets that are stale by then never is negative  *)
(* or more than there is to hand out: the assertions of budget_update on   *)
(* weighted_incr and delta_weight, and for all cores together.             *)
SharesAddUp ==
  (upd.vm # 0 /\ upd.core < 0) =>
    /\ \A c \in BuCores : Share(c) >= 0
    /\ MapThenSumSet(LAMBDA c : Share(c), BuCores) <= Incr

(* A VM without budget on a core has budget there again after some         *)
(* updates, whatever the other cores and VMs do: cycles go where most are  *)
(* missing.                                                                *)
BudgetReturns ==
  \A v \in BuVms, c \in BuCores : []<>(budget[v][c] > 0)
=============================================================================
