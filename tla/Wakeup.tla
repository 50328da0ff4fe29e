------------------------------- MODULE Wakeup -------------------------------
(***************************************************************************)
(* Blocking and notification.  A thread that finds nothing in its queues   *)
(* for a poll cycle sleeps on an eventfd; who puts an entry in one of them *)
(* writes to the eventfd only if its own last entry is more than a poll    *)
(* cycle old, since until then the receiver cannot be asleep.  No lock and *)
(* no flag is shared: the argument is about time alone.                    *)
(*                                                                         *)
(* Senders are notify_core and its callers (tas/blocking.c),               *)
(* flextcp_flexnic_kick and flextcp_kernel_kick (lib/tas).  The receiver   *)
(* is a fast-path core (dataplane_loop), the slow path (slowpath_main), or *)
(* an application (flextcp_context_wait).  Times are kept as their ages,   *)
(* saturating at Old.  Time passes everywhere: while a sender is between   *)
(* its entry and its notification, and in the middle of a round.           *)
(***************************************************************************)
EXTENDS Integers, FiniteSets

CONSTANTS Senders,      \* threads with a queue to the receiver
          CycSenders,   \* those that notify applications with the time of their
                        \* loop's start (fast-path cores)
          Receivers,    \* kinds of receiver: subset of {"core", "slow", "app"}
          Cycle,        \* poll_cycle_tas, poll_cycle_app
          MaxLate       \* bound: the time a sender takes from its entry to its
                        \* notification, and a receiver for one round

VARIABLES snd,          \* per sender: pc, age of last_ts, time since it began; and for the
                        \* properties, whether it put the first entry of its queue when
                        \* the receiver had slept for Margin
          pend,         \* senders with entries in their queue
          ev,           \* the eventfd can be read
          rcv           \* the receiver; slept, for the properties, is how long it has slept

wakeVars == <<snd, pend, ev, rcv>>

Old == Cycle + MaxLate + 1
Older(age) == IF age < Old THEN age + 1 ELSE Old

\* how long a receiver may have slept and a sender still think it awake: the time stamps of
\* the sender and of the receiver may each be MaxLate off
Margin == 2 * MaxLate

\* notify_appctx is given a tsc by arx_cache_flush; all others call util_rdtsc
Cyc(s) == s \in CycSenders /\ rcv.kind = "app"

Init ==
  /\ snd = [s \in Senders |-> [pc |-> "idle", last_ts |-> Old, since |-> 0, late |-> FALSE]]
  /\ pend = {} /\ ev = FALSE
  /\ \E k \in Receivers :
       rcv = [kind |-> k, pc |-> "idle", todo |-> {}, had |-> FALSE, cyc |-> 0, ts |-> Old,
              can_block |-> FALSE, second_bar |-> FALSE, slept |-> 0]
-----------------------------------------------------------------------------
(* Senders.                                                                *)

\* dataplane_loop: cyc, which arx_cache_flush later passes to notify_appctx
SampleFirst(s) ==
  /\ Cyc(s) /\ snd[s].pc = "idle"
  /\ snd' = [snd EXCEPT ![s].pc = "sampled", ![s].since = 0]
  /\ UNCHANGED <<pend, ev, rcv>>

PutEntry(s) ==
  /\ snd[s].pc = IF Cyc(s) THEN "sampled" ELSE "idle"
  /\ pend' = pend \cup {s}
  /\ snd' = [snd EXCEPT ![s].pc = "put", ![s].since = IF Cyc(s) THEN @ ELSE 0,
                      ![s].late = IF s \in pend THEN @ ELSE rcv.slept = Margin]
  /\ UNCHANGED <<ev, rcv>>

\* Mutation of MustNotify: the sender trusts one unit of time too much.
notify_later(s, tsc) == snd[s].last_ts - tsc > Cycle + 1

\* tsc - *last_ts > delta
MustNotify(s, tsc) == snd[s].last_ts - tsc > Cycle

\* notify_core, flextcp_flexnic_kick and flextcp_kernel_kick
notify_core(s) ==
  LET tsc == IF Cyc(s) THEN snd[s].since ELSE 0
  IN  /\ snd[s].pc = "put"
      /\ ev' = (ev \/ MustNotify(s, tsc))
      /\ snd' = [snd EXCEPT ![s].pc = "idle", ![s].last_ts = tsc, ![s].since = 0]
      /\ UNCHANGED <<pend, rcv>>
-----------------------------------------------------------------------------
(* The receiver: rounds of polling all queues, one after the other.        *)

RoundBegin ==
  /\ rcv.pc = "idle"
  /\ rcv' = [rcv EXCEPT !.pc = "round", !.todo = Senders, !.had = FALSE, !.cyc = 0]
  /\ UNCHANGED <<snd, pend, ev>>

PollQueue(s) ==
  /\ rcv.pc = "round" /\ s \in rcv.todo
  /\ rcv' = [rcv EXCEPT !.todo = @ \ {s}, !.had = @ \/ s \in pend]
  /\ pend' = pend \ {s}
  /\ snd' = [snd EXCEPT ![s].late = FALSE]
  /\ UNCHANGED ev

\* notify_canblock: <<whether to block, the new block state>>
notify_canblock(tsc) ==
  LET fresh == [rcv EXCEPT !.can_block = FALSE, !.second_bar = FALSE, !.ts = tsc]
  IN  IF rcv.had THEN <<FALSE, fresh>>
      ELSE IF rcv.second_bar THEN <<TRUE, fresh>>
      ELSE IF rcv.can_block /\ rcv.ts - tsc > Cycle
      THEN <<FALSE, [rcv EXCEPT !.second_bar = TRUE]>>
      ELSE <<FALSE, [rcv EXCEPT !.can_block = TRUE]>>

\* flextcp_context_canwait after a poll: CTX_FLAG_WANTWAIT is can_block, CTX_FLAG_LASTWAIT
\* is second_bar, CTX_FLAG_POLL_EVENTS is had, last_inev_ts is ts; CTX_FLAG_POLL_CALLED is set.
flextcp_context_canwait ==
  IF rcv.had THEN <<FALSE, [rcv EXCEPT !.can_block = FALSE, !.second_bar = FALSE]>>
  ELSE IF rcv.can_block
  THEN <<FALSE, IF rcv.ts > Cycle THEN [rcv EXCEPT !.can_block = FALSE, !.second_bar = TRUE]
                ELSE rcv>>
  ELSE IF rcv.second_bar THEN <<TRUE, rcv>>
  ELSE <<FALSE, [rcv EXCEPT !.can_block = TRUE, !.ts = 0]>>

RoundEnd ==
  LET r == CASE rcv.kind = "core" -> notify_canblock(rcv.cyc)
             [] rcv.kind = "slow" -> notify_canblock(0)
             [] rcv.kind = "app" -> flextcp_context_canwait
  IN  /\ rcv.pc = "round" /\ rcv.todo = {}
      /\ rcv' = [r[2] EXCEPT !.pc = IF r[1] THEN "blocked" ELSE "idle", !.had = FALSE,
                             !.cyc = 0]
      /\ UNCHANGED <<snd, pend, ev>>

\* The end of dataplane_block, slowpath_block and flextcp_context_wait: the eventfd is read
\* (flextcp_context_waitclear) and the block state reset (notify_canblock_reset).
Wake ==
  /\ rcv.pc = "blocked" /\ ev
  /\ ev' = FALSE
  /\ rcv' = [rcv EXCEPT !.pc = "idle", !.can_block = FALSE, !.second_bar = FALSE,
                          !.slept = 0]
  /\ UNCHANGED <<snd, pend>>

\* slowpath_block never waits without a timeout.
WakeTimeout ==
  /\ rcv.pc = "blocked" /\ rcv.kind = "slow" /\ ~ev
  /\ rcv' = [rcv EXCEPT !.pc = "idle", !.can_block = FALSE, !.second_bar = FALSE,
                          !.slept = 0]
  /\ UNCHANGED <<snd, pend, ev>>

Tick ==
  /\ \A s \in Senders : snd[s].pc # "idle" => snd[s].since < MaxLate
  /\ rcv.pc = "round" => rcv.cyc < MaxLate
  /\ snd' = [s \in Senders |->
               [snd[s] EXCEPT !.last_ts = Older(@),
                              !.since = IF snd[s].pc = "idle" THEN 0 ELSE @ + 1]]
  /\ rcv' = [rcv EXCEPT !.ts = Older(@), !.cyc = IF rcv.pc = "round" THEN @ + 1 ELSE 0,
                          !.slept = IF rcv.pc = "blocked" /\ @ < Margin THEN @ + 1 ELSE @]
  /\ UNCHANGED <<pend, ev>>

Next ==
  \/ \E s \in Senders : SampleFirst(s)
  \/ \E s \in Senders : PutEntry(s)
  \/ \E s \in Senders : notify_core(s)
  \/ \E s \in Senders : PollQueue(s)
  \/ RoundBegin \/ RoundEnd \/ Wake \/ WakeTimeout \/ Tick

\* Every thread runs and time passes.
Fairness ==
  /\ WF_wakeVars(RoundBegin \/ RoundEnd \/ Wake \/ \E s \in Senders : PollQueue(s))
  /\ SF_wakeVars(Tick)

Spec == Init /\ [][Next]_wakeVars
-----------------------------------------------------------------------------
(* A thread that sleeps with no timeout is told of the first entry of     *)
(* every queue: its eventfd is readable or the sender is about to notify   *)
(* it, unless the entry was put within Margin of the thread's falling      *)
(* asleep.  The code gives no more than that: the sender's last_ts, the    *)
(* tsc it passes and the receiver's ts are taken before or after the       *)
(* entries they stand for (notify_core, notify_canblock,                   *)
(* flextcp_context_canwait).                                               *)
NoLostWakeup ==
  (rcv.pc = "blocked" /\ rcv.kind # "slow" /\ ~ev)
    => \A s \in pend : snd[s].pc # "idle" \/ ~snd[s].late

(* If nothing is sent any more the receiver goes to sleep, and a slow path *)
(* that wakes for its timeouts goes back to sleep: polling twice over a    *)
(* poll cycle is enough to be allowed to block.                            *)
IdleSleeps ==
  <>[](pend = {} /\ \A s \in Senders : snd[s].pc = "idle") => []<>(rcv.pc = "blocked")
=============================================================================
