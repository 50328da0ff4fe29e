-------------------------------- MODULE Qman --------------------------------
(***************************************************************************)
(* The queue manager of one fast-path core (tas/fast/qman.c): VMs with     *)
(* data to send wait in a list, and each VM has its flows, those without a *)
(* rate limit in a second list and those with one in a skip list ordered   *)
(* by a virtual time stamp that wraps around.  A poll serves the VMs with  *)
(* budget and, only if none of them had a packet, the others.              *)
(*                                                                         *)
(* Time stamps only matter relative to each other, so the model keeps      *)
(* differences: wait is rel_time(ts_virtual, next_ts) for a flow, and lag  *)
(* is timestamp() - ts_real for a VM, both with the width of the code.     *)
(***************************************************************************)
EXTENDS Integers, FiniteSets, Sequences, FiniteSetsExt

CONSTANTS VmIds, FlowIds,
          FlowVms,    \* ways in which the flows may belong to the VMs
          Gaps,       \* virtual time one byte takes at the rates that a flow
                      \* may have; 0: no rate limit
          Levels,     \* QMAN_SKIPLIST_LEVELS
          TsHalf,     \* half of the range of the time stamps, 2^31
          MaxAvail,   \* bound: bytes available of each flow
          MaxLag,     \* bound: time between two polls of a core
          IdleTimes,  \* for how long a VM may have had nothing to send, modulo the clock
          Batches,    \* packets one poll may return
          Movers      \* flows whose group may be steered to another core

VARIABLES flow_vm,    \* the VM of each flow
          s,          \* the queue manager
          budget,     \* whether the budget of each VM is positive
          fired       \* what the poll which has just ended returned, or {}

vars == <<flow_vm, s, budget, fired>>

Chunk == 1            \* max_chunk, in bytes
TsRange == 2 * TsHalf
FlowsOf(v) == {f \in FlowIds : flow_vm[f] = v}
Elems(q) == {q[i] : i \in DOMAIN q}
FirstN(q, n) == SubSeq(q, 1, n)
AfterN(q, n) == SubSeq(q, n + 1, Len(q))

Queue == [avail |-> 0, gap |-> 0, wait |-> 0, in |-> "none"]
VmQueue == [avail |-> 0, listed |-> FALSE, lag |-> 0, late |-> FALSE,
            nolimit_first |-> FALSE]

\* tas_qman_thread_init, vmcont_init and flowcont_init
Init ==
  /\ flow_vm \in FlowVms
  /\ s = [vm |-> [v \in VmIds |-> VmQueue], fl |-> [f \in FlowIds |-> Queue],
          list |-> <<>>, nolimit |-> [v \in VmIds |-> <<>>],
          skip |-> [v \in VmIds |-> [l \in 0 .. Levels - 1 |-> <<>>]],
          out |-> <<>>, sum |-> 0, rate_limited |-> FALSE, spins |-> FALSE]
  /\ budget = [v \in VmIds |-> TRUE]
  /\ fired = {}
-----------------------------------------------------------------------------
\* The signed distance that rel_time makes of a difference of time stamps.
rel_time(d) == ((d + TsHalf) % TsRange) - TsHalf

\* The virtual time of v moves by d, and so do the waits of its flows.
Advance(t, v, d) ==
  [t EXCEPT !.fl = [f \in FlowIds |->
     [t.fl[f] EXCEPT !.wait = IF flow_vm[f] = v THEN rel_time(@ - d) ELSE @]]]

flow_queue_new_ts(t, f, bytes) == rel_time(bytes * t.fl[f].gap)

flow_queue_activate_nolimit(t, f) ==
  [t EXCEPT !.fl[f].in = "nolimit", !.nolimit[flow_vm[f]] = Append(@, f)]

\* The wait with which f enters the skip list: not in the past, and not more
\* than if it had just sent max_chunk.
Reasonable(t, f) ==
  LET max == flow_queue_new_ts(t, f, Chunk)
      wait == t.fl[f].wait
  IN IF wait <= 0 THEN 0 ELSE IF wait <= max THEN wait ELSE max

\* How many flows of level l come before a flow with this wait.  The search of
\* a level starts at the predecessor that the level above has found.
RECURSIVE Preds(_, _, _, _)
Preds(t, v, l, wait) ==
  LET q == t.skip[v][l]
      above == IF l = Levels - 1 THEN 0 ELSE Preds(t, v, l + 1, wait)
      from == IF above = 0 THEN 1
              ELSE CHOOSE i \in DOMAIN q : q[i] = t.skip[v][l + 1][above]
  IN from - 1 + Cardinality({i \in from .. Len(q) :
                               \A j \in from .. i : t.fl[q[j]].wait <= wait})

\* f goes behind its predecessor in the levels l to top.
RECURSIVE LinkFrom(_, _, _, _)
LinkFrom(t, f, l, top) ==
  LET v == flow_vm[f]
      p == Preds(t, v, l, t.fl[f].wait)
  IN IF l > top THEN t
     ELSE LinkFrom([t EXCEPT !.skip[v][l] = FirstN(@, p) \o <<f>> \o AfterN(@, p)],
                   f, l + 1, top)

flow_queue_activate_skiplist(t, f, lev) ==
  LinkFrom([t EXCEPT !.fl[f].wait = Reasonable(t, f), !.fl[f].in = "skip"],
           f, 0, lev[f])

flow_queue_activate(t, f, lev) ==
  IF t.fl[f].gap = 0 THEN flow_queue_activate_nolimit(t, f)
  ELSE flow_queue_activate_skiplist(t, f, lev)

flow_queue_fire(t, f, lev) ==
  LET bytes == IF t.fl[f].avail <= Chunk THEN t.fl[f].avail ELSE Chunk
      sent == [t EXCEPT !.fl[f].avail = @ - bytes,
                        !.fl[f].wait = IF t.fl[f].gap > 0
                          THEN flow_queue_new_ts(t, f, bytes) ELSE @,
                        !.sum = @ + bytes,
                        !.out = Append(@, f)]
  IN IF sent.fl[f].avail > 0 THEN flow_queue_activate(sent, f, lev) ELSE sent

\* The head of each list leaves it; a flow without data is not returned.
RECURSIVE flow_poll_nolimit(_, _, _, _)
flow_poll_nolimit(t, v, num, lev) ==
  IF Len(t.out) >= num \/ t.nolimit[v] = <<>> THEN t
  ELSE LET f == Head(t.nolimit[v])
           u == [t EXCEPT !.nolimit[v] = Tail(@), !.fl[f].in = "none"]
       IN flow_poll_nolimit(IF u.fl[f].avail > 0
                              THEN flow_queue_fire(u, f, lev) ELSE u,
                            v, num, lev)

\* f leaves the levels whose head it is, from the lowest up to the first one
\* that begins with another flow.
RECURSIVE UnlinkFrom(_, _, _)
UnlinkFrom(t, f, l) ==
  LET q == t.skip[flow_vm[f]][l]
  IN IF l = Levels THEN t
     ELSE IF q = <<>> THEN t
     ELSE IF Head(q) # f THEN t
     ELSE UnlinkFrom([t EXCEPT !.skip[flow_vm[f]][l] = Tail(@)], f, l + 1)

\* max is how far the virtual time may still advance.
RECURSIVE SkipLoop(_, _, _, _, _)
SkipLoop(t, v, num, max, lev) ==
  IF Len(t.out) >= num THEN [t |-> t, max |-> max]
  ELSE IF t.skip[v][0] = <<>> THEN [t |-> Advance(t, v, max), max |-> 0]
  ELSE LET f == Head(t.skip[v][0])
           d == t.fl[f].wait
           u == Advance([UnlinkFrom(t, f, 0) EXCEPT !.fl[f].in = "none"], v, d)
       IN IF d > max
          THEN [t |-> [Advance(t, v, max) EXCEPT !.rate_limited = TRUE],
                max |-> 0]
          ELSE SkipLoop(IF u.fl[f].avail > 0 THEN flow_queue_fire(u, f, lev)
                        ELSE u, v, num, rel_time(max - d), lev)

\* After a full batch the virtual time moves on, but not past the next flow.
CatchUp(t, max, v, full) ==
  LET head == t.fl[Head(t.skip[v][0])].wait
      more == IF ~ full THEN 0
              ELSE IF t.skip[v][0] # <<>> /\ head <= max THEN head ELSE max
  IN [Advance(t, v, more) EXCEPT !.vm[v].lag = 0]

SkipDone(r, v, before, orig) ==
  CatchUp(r.t, r.max, v, Len(r.t.out) - before \in orig)

\* History: t came of a poll of the skip list of v for which half of the clock or more
\* had passed, and flows of that time are still in it.
NoteLate(t, v, negative) ==
  [t EXCEPT !.vm[v].late = (@ \/ negative) /\ t.skip[v][0] # <<>>]

\* The poll of a skip list.  orig: the counts that are equal to orig_num.
flow_poll_skiplist(t, v, num, lev, orig) ==
  NoteLate(SkipDone(SkipLoop(t, v, num, rel_time(t.vm[v].lag), lev), v, Len(t.out), orig),
           v, rel_time(t.vm[v].lag) < 0)

flow_qman_poll(t, v, num, lev, orig) ==
  LET u == IF t.vm[v].nolimit_first
           THEN flow_poll_skiplist(flow_poll_nolimit(t, v, num, lev),
                                   v, num, lev, orig)
           ELSE flow_poll_nolimit(flow_poll_skiplist(t, v, num, lev, orig),
                                  v, num, lev)
  IN [u EXCEPT !.vm[v].nolimit_first = ~ @]
-----------------------------------------------------------------------------
vm_queue_activate(t, v) ==
  [t EXCEPT !.vm[v].listed = TRUE, !.list = Append(@, v)]

\* Mutation of vm_queue_fire: the VM goes back to the list only if it had more
\* to send than this poll took.
fire_compares_sum(t, v) ==
  LET u == [t EXCEPT !.vm[v].avail = @ - t.sum]
  IN IF u.vm[v].avail > t.sum THEN vm_queue_activate(u, v) ELSE u

vm_queue_fire(t, v) ==
  LET u == [t EXCEPT !.vm[v].avail = @ - t.sum]
  IN IF u.vm[v].avail > 0 THEN vm_queue_activate(u, v) ELSE u

FireIfAny(t, v) == IF t.vm[v].avail > 0 THEN vm_queue_fire(t, v) ELSE t

\* One VM whose turn it is: its flows are polled.
ServeVm(t, v, num, lev, orig) ==
  FireIfAny(flow_qman_poll([t EXCEPT !.sum = 0, !.rate_limited = FALSE],
                           v, num, lev, orig), v)

\* The first VM that was rate limited ends the round (rvq).
NextRvq(rvq, v, limited) == IF limited /\ rvq = {} THEN {v} ELSE rvq

\* The VMs with budget, in the order of the list, until the batch is full, the
\* list is empty, or the VM in rvq comes round again.
\* Those without budget are set aside.  After visits of every VM that neither
\* returned a packet nor took a VM off the list (wasted), nothing changes any
\* more: the loop does not end.
RECURSIVE InBudget(_, _, _, _, _, _)
RECURSIVE Served(_, _, _, _, _, _, _, _)
InBudget(t, rvq, oob, wasted, num, lev) ==
  IF Len(t.out) >= num \/ t.list = <<>> THEN [t |-> t, oob |-> oob]
  ELSE IF wasted > Cardinality(VmIds)
  THEN [t |-> [t EXCEPT !.spins = TRUE], oob |-> oob]
  ELSE LET v == Head(t.list)
           u == [t EXCEPT !.list = Tail(@), !.vm[v].listed = FALSE]
       IN IF v \in rvq THEN [t |-> t, oob |-> oob]
          ELSE IF budget[v]
          THEN Served(t, ServeVm(u, v, num, lev, {num}), v, rvq, oob, wasted, num, lev)
          ELSE InBudget(u, rvq, IF u.vm[v].avail > 0 THEN Append(oob, v)
                                ELSE oob, 0, num, lev)

\* The rest of the round, when v has been served and t has become w.
Served(t, w, v, rvq, oob, wasted, num, lev) ==
  InBudget(w, NextRvq(rvq, v, t.vm[v].avail > 0 /\ w.rate_limited), oob,
           IF w.out = t.out /\ Len(w.list) = Len(t.list) THEN wasted + 1 ELSE 0,
           num, lev)

\* Mutation of OutOfBudget: a VM without budget is never served.
RECURSIVE oob_waits(_, _, _, _, _, _)
oob_waits(t, oob, none, num, lev, orig) ==
  IF oob = <<>> THEN t
  ELSE oob_waits(vm_queue_activate(t, Head(oob)), Tail(oob), none, num, lev,
                 orig)

\* The VMs set aside: served only if there is nothing in the batch.
RECURSIVE OutOfBudget(_, _, _, _, _, _)
OutOfBudget(t, oob, none, num, lev, orig) ==
  IF oob = <<>> THEN t
  ELSE OutOfBudget(IF Len(t.out) < num /\ none
                     THEN ServeVm(t, Head(oob), num, lev, orig)
                     ELSE vm_queue_activate(t, Head(oob)),
                   Tail(oob), none, num, lev, orig)

\* skpl_state->orig_num is set when a VM with budget is polled; otherwise its
\* value is undefined, and any answer of the comparison is possible.
OobRound(r, num, lev, undefined) ==
  LET set == \E v \in Elems(s.list) : budget[v] /\ v \notin Elems(r.oob)
  IN OutOfBudget(r.t, r.oob, Len(r.t.out) = 0, num, lev,
                 IF set THEN {num} ELSE IF undefined THEN 1 .. num ELSE {})

vm_qman_poll(num, lev, undefined) ==
  OobRound(InBudget([s EXCEPT !.out = <<>>, !.sum = 0, !.rate_limited = FALSE],
                    {}, <<>>, 0, num, lev),
           num, lev, undefined)
-----------------------------------------------------------------------------
vm_set_impl(t, f, avail) ==
  LET v == flow_vm[f]
      u == [t EXCEPT !.vm[v].avail = @ - t.fl[f].avail + avail]
  IN IF u.vm[v].avail > 0 /\ ~ u.vm[v].listed THEN vm_queue_activate(u, v) ELSE u

flow_set_impl(t, f, gap, avail, lev) ==
  LET u == [t EXCEPT !.fl[f].gap = gap, !.fl[f].avail = avail]
  IN IF avail > 0 /\ u.fl[f].in = "none" THEN flow_queue_activate(u, f, lev)
     ELSE u

\* the levels flow_queue_activate_skiplist may draw for the flows of F
LevelChoices(F) ==
  {[f \in FlowIds |-> IF f \in F THEN lev[f] ELSE 0] : lev \in [F -> 0 .. Levels - 1]}

\* ts_real of a VM that is not listed stays behind for as long as it has nothing to send,
\* and the difference wraps: what it is counts only once the VM is listed again, and it
\* may then be anything.
Idle(t, f) ==
  LET v == flow_vm[f]
  IN { [t EXCEPT !.vm[v].lag = lag] :
         lag \in IF t.vm[v].listed THEN {t.vm[v].lag} ELSE IdleTimes }

\* vm_qman_set; the callers set rate, avail and chunk together
tas_qman_set(f, gap, avail, lev) ==
  \E t \in Idle(s, f) : s' = flow_set_impl(vm_set_impl(t, f, avail), f, gap, avail, lev)

\* A flow gets more to send, and perhaps another rate.
Set(f, gap, avail, lev) ==
  /\ avail > s.fl[f].avail
  /\ tas_qman_set(f, gap, avail, lev)
  /\ fired' = {}
  /\ UNCHANGED <<flow_vm, budget>>

\* fast_flows_qman: a flow that the poll returned belongs to another core
\* now, and its queue is cleared here.
Moved(f) ==
  /\ f \in Movers
  /\ f \in fired
  /\ tas_qman_set(f, 0, 0, [g \in FlowIds |-> 0])
  /\ fired' = fired \ {f}
  /\ UNCHANGED <<flow_vm, budget>>

\* One unit of time.  For a VM that is not listed, see Idle.
Passed(t) ==
  [t EXCEPT !.vm = [v \in VmIds |->
     [t.vm[v] EXCEPT !.lag = IF t.vm[v].listed THEN (@ + 1) % TsRange ELSE @]]]

\* The slow path adds to the budgets far more often than the clock wraps.
Boosted == \A v \in Elems(s.list) : budget[v] \/ s.vm[v].lag <= MaxLag

\* The poll has returned t.out; time has passed, and the budgets of the VMs that
\* sent may be spent.
Returned(t) ==
  /\ s' = Passed([t EXCEPT !.out = <<>>, !.sum = 0, !.rate_limited = FALSE])
  /\ fired' = IF t.out = <<>> THEN {"nothing"} ELSE Elems(t.out)
  /\ \E broke \in SUBSET {flow_vm[f] : f \in Elems(t.out)} :
       budget' = [v \in VmIds |-> budget[v] /\ v \notin broke]
  /\ UNCHANGED flow_vm

tas_qman_poll(num, lev, undefined) ==
  Boosted /\ Returned(vm_qman_poll(num, lev, undefined))

\* budget_update of the slow path
boost_budget(v) ==
  /\ ~ budget[v]
  /\ budget' = [budget EXCEPT ![v] = TRUE]
  /\ fired' = {}
  /\ UNCHANGED <<flow_vm, s>>

\* The core does something else for a while.
Tick ==
  /\ \A v \in Elems(s.list) : s.vm[v].lag < MaxLag
  /\ s' = Passed(s)
  /\ fired' = {}
  /\ UNCHANGED <<flow_vm, budget>>

SetSome == \E f \in FlowIds :
             \E avail \in 1 .. MaxAvail[f], gap \in Gaps[f], lev \in LevelChoices({f}) :
               Set(f, gap, avail, lev)

MoveSome == \E f \in FlowIds : Moved(f)

Limited == {f \in FlowIds : s.fl[f].avail > 0 /\ s.fl[f].gap > 0}

Poll == \E num \in Batches, lev \in LevelChoices(Limited),
           undefined \in (IF \E v \in Elems(s.list) : budget[v] THEN {FALSE}
                          ELSE BOOLEAN) :
          tas_qman_poll(num, lev, undefined)

Boost == \E v \in VmIds : boost_budget(v)

Next == SetSome \/ MoveSome \/ Poll \/ Boost \/ Tick

Spec == Init /\ [][Next]_vars
-----------------------------------------------------------------------------
Listed(f) == IF s.fl[f].in = "nolimit" THEN f \in Elems(s.nolimit[flow_vm[f]])
             ELSE f \in Elems(s.skip[flow_vm[f]][0])

(***************************************************************************)
(* What a VM has to send is what its flows have to send: vm_queue_fire     *)
(* takes a VM off the list when its own count is used up, so a count that  *)
(* is too low stops flows that still have data.                            *)
(***************************************************************************)
VmAvailIsSum ==
  \A v \in VmIds :
    s.vm[v].avail = MapThenSumSet(LAMBDA f : s.fl[f].avail, FlowsOf(v))

(***************************************************************************)
(* Between two calls a flow with data is in the list its flag names, and   *)
(* its VM is in the list of VMs, each once: nothing with data is forgotten *)
(* by a poll that ran out of batch, budget or time.                        *)
(***************************************************************************)
NothingForgotten ==
  /\ \A f \in FlowIds : s.fl[f].avail > 0 => s.fl[f].in # "none" /\ Listed(f)
  /\ \A v \in VmIds :
       /\ s.vm[v].avail > 0 => s.vm[v].listed
       /\ s.vm[v].listed <=> v \in Elems(s.list)
       /\ Cardinality(Elems(s.list)) = Len(s.list)

(***************************************************************************)
(* Each level of a skip list is in the order of the time stamps, and holds *)
(* only flows of the level below, in the same order: the poll removes a    *)
(* flow from a level only if it is the head of that level.  Of the order   *)
(* nothing is said while a VM is late (see WaitIsReasonable).              *)
(***************************************************************************)
SkipListOrdered ==
  \A v \in VmIds, l \in 0 .. Levels - 1 :
    LET q == s.skip[v][l]
    IN /\ \A i, j \in DOMAIN q : i < j /\ ~ s.vm[v].late =>
            s.fl[q[i]].wait <= s.fl[q[j]].wait
       /\ l > 0 => q = SelectSeq(s.skip[v][l - 1], LAMBDA f : f \in Elems(q))

(***************************************************************************)
(* A poll ends: the loop over the VMs stops although VMs whose flows are   *)
(* not due yet go back to the list at once.                                *)
(***************************************************************************)
PollEnds == ~ s.spins

(***************************************************************************)
(* A flow in a skip list waits at most as long as it takes to send         *)
(* max_chunk at its rate: "make sure queue has a reasonable next_ts".      *)
(* Rates only change by SET_RATE, so the largest gap bounds all of them.   *)
(* The exception, an error of the code: ts_real is not updated while a VM  *)
(* has nothing to send, so when a VM was idle for 2^31 ticks or more the   *)
(* time that has passed is negative to timestamp_lessthaneq, ts_virtual is *)
(* set back, and the flows then in the list wait for up to half the clock. *)
(***************************************************************************)
WaitIsReasonable ==
  \A f \in FlowIds : s.fl[f].in = "skip" /\ ~ s.vm[flow_vm[f]].late =>
    s.fl[f].wait <= Chunk * Max(Gaps[f])

(***************************************************************************)
(* A poll returns nothing only if no flow could send: no flow without rate *)
(* limit has data, in whatever VM, and whether or not that VM has budget.  *)
(***************************************************************************)
WorkConserving ==
  [][fired' = {"nothing"} =>
       \A f \in FlowIds : s.fl[f].avail > 0 => s.fl[f].in = "skip"]_vars

(***************************************************************************)
(* A flow with data is sent from in the end, or its data is withdrawn,     *)
(* although a poll returns a few packets only, rates change, and budgets   *)
(* run out.                                                                *)
(***************************************************************************)
EveryFlowSent ==
  \A f \in FlowIds :
    []<>(s.fl[f].avail = 0 \/ f \in fired)

\* The core polls in every round of its loop, and the slow path adds to every
\* budget in every period.  A poll changes the time, and it is the only step
\* that sets fired.
Fairness == []<><<fired' # {}>>_vars /\ WF_vars(Boost)
=============================================================================
