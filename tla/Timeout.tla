------------------------------ MODULE Timeout ------------------------------
(***************************************************************************)
(* The timeout manager of lib/utils/timeout.c: an ordered list of armed    *)
(* timeouts, a queue of those that are due, and timestamps of TIMEOUT_BITS *)
(* bits that wrap.  Half is 2^(TIMEOUT_BITS-1).                            *)
(***************************************************************************)
EXTENDS Integers, FiniteSets, Sequences, Functions

CONSTANTS Half,           \* half the range of a timestamp: 2^27
          Timers,         \* the struct timeouts of the program
          Delays,         \* delays the program arms with, all below Half
          MAX_TIMEOUTS,   \* timeouts handled by one poll
          MaxLate         \* how late the main loop may poll: bound on Tick

VARIABLES now,            \* timestamp_us()
          timeouts,       \* mgr->timeouts_first ... timeouts_last
          due,            \* mgr->due_first ... due_last
          ts,             \* the deadline kept in timeout_type; nobody reads
                          \* it in a timeout that is not armed: 0 there
          num,            \* timeouts the current poll has handled
          left            \* history: true time left until the deadline

vars == <<now, timeouts, due, ts, num, left>>

Range2 == 2 * Half

util_timeout_init ==
  /\ now \in {0, Half, Range2 - 1}
  /\ timeouts = <<>>
  /\ due = <<>>
  /\ ts = [t \in Timers |-> 0]
  /\ num = MAX_TIMEOUTS
  /\ left = [t \in Timers |-> 0]

Armed == Range(timeouts) \cup Range(due)
-----------------------------------------------------------------------------
\* Mutation of rel_time: the positive interval is never split.
rel_time_unsplit(cur_ts, to_ts) ==
  LET start == (cur_ts - Half) % Range2
  IN IF cur_ts < Half /\ start <= to_ts THEN to_ts - start - Half
     ELSE to_ts - cur_ts

\* "relative" time ignoring wrap arounds
rel_time(cur_ts, to_ts) ==
  LET start == (cur_ts - Half) % Range2
      end   == ((cur_ts + Half) % Range2) + 1
  IN IF cur_ts < Half /\ start <= to_ts THEN to_ts - start - Half
     ELSE IF cur_ts > Half /\ to_ts < end THEN to_ts + Range2 - cur_ts
     ELSE to_ts - cur_ts

timeout_due(t, cur_ts) == rel_time(cur_ts, ts[t]) <= 0

\* How many timeouts at the front of the list are due.
NumDue(cur_ts) ==
  CHOOSE n \in 0 .. Len(timeouts) :
    /\ \A i \in 1 .. n : timeout_due(timeouts[i], cur_ts)
    /\ n < Len(timeouts) => ~ timeout_due(timeouts[n + 1], cur_ts)

\* move_due_timeouts: what is left of the list, and the longer queue
NotDue(cur_ts) == SubSeq(timeouts, NumDue(cur_ts) + 1, Len(timeouts))

\* Mutation of WithDue: what came due last is handled first.
due_pushed_front(cur_ts) == SubSeq(timeouts, 1, NumDue(cur_ts)) \o due

WithDue(cur_ts) == due \o SubSeq(timeouts, 1, NumDue(cur_ts))
-----------------------------------------------------------------------------
\* The search goes from the last timeout back to one that is not later than
\* the new one.  rel_time is compared as an unsigned number.
ArmPos(list, us) ==
  LET r(i) == rel_time(now, ts[list[i]])
      early == {i \in DOMAIN list : r(i) >= 0 /\ r(i) <= us}
  IN 1 + CHOOSE p \in early \cup {0} : \A i \in early : i <= p

\* list with t at place p
Linked(list, p, t) == SubSeq(list, 1, p - 1) \o <<t>> \o SubSeq(list, p, Len(list))

util_timeout_arm(t, us) ==
  /\ t \notin Armed
  /\ timeouts' = Linked(NotDue(now), ArmPos(NotDue(now), us), t)
  /\ due' = WithDue(now)
  /\ ts' = [ts EXCEPT ![t] = (now + us) % Range2]
  /\ left' = [left EXCEPT ![t] = us]
  /\ UNCHANGED <<now, num>>

\* list without t, wherever it stands there
Unlinked(list, t) ==
  LET i == CHOOSE i \in DOMAIN list : list[i] = t
  IN IF t \in Range(list) THEN SubSeq(list, 1, i - 1) \o SubSeq(list, i + 1, Len(list))
     ELSE list

\* The timeout is unlinked from the list it is in.
util_timeout_disarm(t) ==
  /\ t \in Armed
  /\ timeouts' = Unlinked(timeouts, t)
  /\ due' = Unlinked(due, t)
  /\ left' = [left EXCEPT ![t] = 0]
  /\ ts' = [ts EXCEPT ![t] = 0]
  /\ UNCHANGED <<now, num>>

\* util_timeout_poll_ts: all that is due moves to the queue, once per poll
PollBegin ==
  /\ num = MAX_TIMEOUTS \/ due = <<>>
  /\ num' = 0
  /\ timeouts' = NotDue(now)
  /\ due' = WithDue(now)
  /\ UNCHANGED <<now, ts, left>>

\* ... and the first MAX_TIMEOUTS of the queue are handed to the handler.
\* A handler arms and disarms with the operations above.
PollOne ==
  /\ num < MAX_TIMEOUTS
  /\ due # <<>>
  /\ num' = num + 1
  /\ due' = Tail(due)
  /\ left' = [left EXCEPT ![Head(due)] = 0]
  /\ ts' = [ts EXCEPT ![Head(due)] = 0]
  /\ UNCHANGED <<now, timeouts>>

\* time passes, but no timeout gets later than MaxLate
Tick ==
  /\ \A t \in Armed : left[t] > -MaxLate
  /\ now' = (now + 1) % Range2
  /\ left' = [t \in Timers |-> IF t \in Armed THEN left[t] - 1 ELSE 0]
  /\ UNCHANGED <<timeouts, due, ts, num>>

Next == \/ \E t \in Timers, us \in Delays : util_timeout_arm(t, us)
        \/ \E t \in Timers : util_timeout_disarm(t)
        \/ PollBegin
        \/ PollOne
        \/ Tick

Spec == util_timeout_init /\ [][Next]_vars

\* The main loop polls again and again, and the clock does not stand still.
Fairness == WF_vars(PollBegin) /\ WF_vars(PollOne) /\ WF_vars(Tick)
-----------------------------------------------------------------------------
\* Microseconds until there is something to do, or -1.
util_timeout_next ==
  IF due # <<>> THEN 0
  ELSE IF timeouts = <<>> THEN -1
  ELSE LET next == rel_time(now, ts[Head(timeouts)])
       IN IF next < 0 THEN 0 ELSE next

(***************************************************************************)
(* A handler only runs for a timeout whose time is over: whatever is in    *)
(* the due queue has no time left, although deadlines are compared in a    *)
(* clock that wraps.                                                       *)
(***************************************************************************)
DueIsOver == \A t \in Range(due) : left[t] <= 0

(***************************************************************************)
(* util_timeout_next, which decides how long the slow path may sleep, is   *)
(* exactly the time until the earliest deadline: 0 when one is over, -1    *)
(* when nothing is armed.                                                  *)
(***************************************************************************)
NextExact ==
  LET earliest == CHOOSE t \in Armed : \A u \in Armed : left[t] <= left[u]
  IN util_timeout_next = IF Armed = {} THEN -1
                         ELSE IF left[earliest] <= 0 THEN 0 ELSE left[earliest]

(***************************************************************************)
(* Every armed timeout is handed to its handler or disarmed in the end,    *)
(* however many others come due before it and are armed again at once.     *)
(***************************************************************************)
EveryTimeoutEnds == \A t \in Timers : []<>(t \notin Armed)
=============================================================================
