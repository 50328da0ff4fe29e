------------------------------- MODULE CcLaw -------------------------------
(***************************************************************************)
(* The control laws of tas/slow/cc.c for one connection: DCTCP with a      *)
(* window, DCTCP with a rate, TIMELY, constant rate, and the timer that    *)
(* retransmits when nothing is acknowledged.  U32, I32 and I16 stand for   *)
(* the largest unsigned and signed numbers: fixed-point fractions are      *)
(* scaled by them, 32-bit sums wrap at U32 + 1 and 64-bit ones do not.     *)
(***************************************************************************)
EXTENDS Integers

CONSTANTS U32, I32, I16,
          Algorithms,        \* values of config.cc_algorithm
          MSS, TxLen,        \* CONF_MSS and the length of the send buffer
          Rate0, MinRate,    \* cc_dctcp_init / _min, cc_timely_init / _min_rate
          Step,              \* cc_dctcp_step, cc_timely_step
          Weight, Beta, Alpha,
          MinPkts,           \* cc_dctcp_minpkts
          TLow, THigh, MinRtt,
          RexmitInts,        \* cc_rexmit_ints
          RttInit, LinkBw,   \* tcp_rtt_init, tcp_link_bw
          Stats              \* readings of nicif_connection_stats, as deltas

VARIABLES alg,       \* config.cc_algorithm
          cc,        \* the union c->cc, with cc_rate and cc_rexmits
          rex,       \* cnt_tx_pending, ts_tx_pending; what the last visit did
          marked     \* history: the last reading had losses or marks

vars == <<alg, cc, rex, marked>>

Max2(a, b) == IF a >= b THEN a ELSE b
Min2(a, b) == IF a <= b THEN a ELSE b
Add32(a, b) == (a + b) % (U32 + 1)
\* division of a signed number, towards zero
Quot(a, b) == IF a >= 0 THEN a \div b ELSE -((-a) \div b)

\* At most a window per round trip, and no more than the link carries.
window_to_rate(window, rtt) == Min2(window \div Max2(window \div LinkBw, rtt), U32)

\* dctcp_rate_init, timely_init and const_rate_init, with one value for their
\* configured initial rates; acks to drops are the unproc_ counters.
rate_init ==
  [window |-> 2 * MSS, rate |-> Rate0, ecn_rate |-> 0, slowstart |-> TRUE,
   acks |-> 0, ackb |-> 0, ecnb |-> 0, drops |-> 0,
   act_rate |-> 0, rtt_prev |-> 0, rtt_diff |-> 0, hai_cnt |-> 0, rexmits |-> 0]

dctcp_win_init == [rate_init EXCEPT !.rate = window_to_rate(2 * MSS, RttInit)]

cc_conn_init ==
  /\ alg \in Algorithms
  /\ cc = IF alg = "dctcp_win" THEN dctcp_win_init ELSE rate_init
  /\ rex = [cnt |-> 0, waited |-> 0, stalled |-> FALSE, sent |-> FALSE, odd |-> FALSE]
  /\ marked = FALSE
-----------------------------------------------------------------------------
\* The moving average of the share of marked bytes.
EcnRate(old, ecnb, ackb) ==
  LET now == (Min2(ecnb, ackb) * U32) \div ackb
  IN (now * Weight + old * (U32 - Weight)) \div U32

Reduce(x, ecn_rate) == (x * (U32 - ecn_rate \div 2)) \div U32

\* at least one segment, at most the send buffer
ClampWindow(win) == Min2(Max2(win, MSS), TxLen)

Congested(st) == st.drops > 0 \/ st.ecnb > 0 \/ cc.rexmits > 0
Lost(st) == st.drops > 0 \/ cc.rexmits > 0

\* Mutation of dctcp_win_update: slow start ignores the marks.
win_blind(st) ==
  [cc EXCEPT !.window = ClampWindow(IF cc.slowstart THEN cc.window + st.ackb
                                    ELSE Reduce(cc.window, cc.ecn_rate)),
             !.rexmits = 0]

dctcp_win_update(st) ==
  LET slow == cc.slowstart /\ ~ Congested(st)
      ecn  == IF slow \/ Lost(st) \/ st.ackb = 0 THEN cc.ecn_rate
              ELSE EcnRate(cc.ecn_rate, st.ecnb, st.ackb)
      \* the sums are only taken when they do not wrap
      grown(n) == Max2(cc.window, Add32(cc.window, n))
      win == IF slow THEN grown(st.ackb)
             ELSE IF Lost(st) THEN cc.window \div 2
             ELSE IF st.ecnb > 0 THEN Reduce(cc.window, ecn)
             ELSE grown((st.ackb * MSS) \div cc.window)
      win2 == ClampWindow(win)
  IN [cc EXCEPT !.window = win2, !.slowstart = slow, !.ecn_rate = ecn,
                !.rate = window_to_rate(win2, IF st.rtt = 0 THEN RttInit
                                              ELSE st.rtt),
                !.rexmits = 0]
-----------------------------------------------------------------------------
\* cc->act_rate and the larger of it and the measured rate
ActAvg(st) == (7 * cc.act_rate + st.act) \div 8
ActRate(st) == Max2(st.act, ActAvg(st))
Clamp12(rate, act) == Min2(rate, (act * 12) \div 10)

RateFloor(rate) == Max2(rate, MinRate)

\* Counters are collected until there are MinPkts acknowledgements.  Increase is
\* additive (cc_dctcp_mimd is 0, its default).
dctcp_rate_update(st0) ==
  LET st == [st0 EXCEPT !.acks = Add32(cc.acks, @), !.ackb = Add32(cc.ackb, @),
                        !.ecnb = Add32(cc.ecnb, @), !.drops = Add32(cc.drops, @)]
      slow == cc.slowstart /\ ~ Congested(st)
      ecn  == IF slow \/ Lost(st) \/ st.ackb = 0 THEN cc.ecn_rate
              ELSE EcnRate(cc.ecn_rate, st.ecnb, st.ackb)
      rate == Clamp12(cc.rate, ActRate(st))
      rate2 == IF slow THEN IF 2 * rate <= U32 THEN 2 * rate ELSE U32
               ELSE IF Lost(st) THEN rate \div 2
               ELSE IF st.ecnb > 0 THEN Reduce(rate, ecn)
               ELSE Add32(rate, Step)
  IN IF st.acks < MinPkts
     THEN [cc EXCEPT !.acks = st.acks, !.ackb = st.ackb, !.ecnb = st.ecnb,
                     !.drops = st.drops]
     ELSE [cc EXCEPT !.acks = 0, !.ackb = 0, !.ecnb = 0, !.drops = 0,
                     !.act_rate = ActAvg(st), !.slowstart = slow,
                     !.ecn_rate = ecn, !.rate = RateFloor(rate2), !.rexmits = 0]
-----------------------------------------------------------------------------
\* The gradient of the round-trip time, scaled by I16.
RttDiff(st) ==
  IF cc.rtt_prev = 0 THEN cc.rtt_diff
  ELSE Quot((I32 - Alpha \div 2) * cc.rtt_diff
              + (Alpha \div 2) * (st.rtt - cc.rtt_prev), I32)
Gradient(st) ==
  IF cc.rtt_prev = 0 THEN 0 ELSE Quot(RttDiff(st) * I16, MinRtt)

\* rate *= 1 - beta * (1 - Thigh/rtt)
RateHigh(rate, rtt) ==
  LET a == (Beta * (U32 - (U32 * THigh) \div rtt)) \div U32
  IN (rate * (U32 - a)) \div U32

\* rate *= 1 - beta * gradient
RateGradient(rate, grad) ==
  LET b == ((Beta \div 2) * grad) \div I16
  IN (rate * (IF b <= I32 THEN I32 - b ELSE 0)) \div I32

\* one update never takes more than half of the rate away
AtLeastHalf(rate, orig) == Max2(rate, orig \div 2)

timely_update(st) ==
  LET slow == cc.slowstart /\ st.rtt <= (TLow + THigh) \div 2
      orig == IF slow THEN cc.rate ELSE Clamp12(cc.rate, ActRate(st))
      low  == st.rtt < TLow
      high == st.rtt > THigh
      hai  == ~ slow /\ ~ low /\ ~ high /\ Gradient(st) <= 0
      rate == IF slow THEN (2 * orig) % (U32 + 1)
              ELSE IF low THEN Add32(orig, Step)
              ELSE IF high THEN RateHigh(orig, st.rtt)
              ELSE IF hai THEN Add32(orig, IF cc.hai_cnt + 1 >= 5 THEN 5 * Step
                                           ELSE Step)
              ELSE RateGradient(orig, Gradient(st))
  IN IF st.rtt = 0 THEN [cc EXCEPT !.act_rate = ActAvg(st)]
     ELSE [cc EXCEPT !.act_rate = ActAvg(st), !.slowstart = slow,
                     !.rtt_prev = st.rtt, !.rtt_diff = RttDiff(st),
                     !.hai_cnt = IF hai THEN Min2(@ + 1, 4)
                                 ELSE IF slow THEN @ ELSE 0,
                     !.rate = RateFloor(AtLeastHalf(rate, orig)), !.rexmits = 0]

const_rate_update(st) == [cc EXCEPT !.rexmits = 0]

Updated(st) ==
  CASE alg = "dctcp_win"  -> dctcp_win_update(st)
    [] alg = "dctcp_rate" -> dctcp_rate_update(st)
    [] alg = "timely"     -> timely_update(st)
    [] alg = "const"      -> const_rate_update(st)
-----------------------------------------------------------------------------
\* Mutation of RexmitDue: the counter must be met exactly.
due_exactly == rex.cnt + 1 = RexmitInts /\ rex.waited >= 2

\* RexmitInts control intervals, and two round trips, without progress
RexmitDue == rex.cnt + 1 >= RexmitInts /\ rex.waited >= 2

\* issue_retransmits for a reading st; room says whether the fast path had
\* room for the request.  waited counts round trips since the first interval
\* without progress, up to 2; odd tells one visit from the next.
issue_retransmits(st, room) ==
  LET stuck == st.txp /\ st.ackb = 0
      fire == stuck /\ rex.cnt > 0 /\ RexmitDue
  IN /\ rex' = [stalled |-> stuck, sent |-> fire /\ room, odd |-> ~ rex.odd,
                cnt |-> IF ~ stuck \/ (fire /\ room) THEN 0
                        ELSE Min2(rex.cnt + 1, RexmitInts),
                waited |-> IF ~ stuck \/ rex.cnt = 0 \/ (fire /\ room) THEN 0
                           ELSE Min2(rex.waited + 1, 2)]
     /\ cc' = [Updated(st) EXCEPT !.rexmits =
                 IF fire /\ room THEN Min2(@ + 1, 1) ELSE @]

\* the body of the loop of cc_poll_vm for an open connection
Visit(st, room) ==
  /\ issue_retransmits(st, room)
  /\ marked' = (st.drops + st.ecnb > 0)
  /\ UNCHANGED alg

Next == \E st \in Stats, room \in BOOLEAN : Visit(st, room)

Spec == cc_conn_init /\ [][Next]_vars

\* a visit that retransmits
Retransmit == /\ rex.cnt > 0 /\ RexmitDue
              /\ \E st \in Stats : st.txp /\ st.ackb = 0 /\ Visit(st, TRUE)

\* cc_poll comes back to the connection, and the queue to the fast path is
\* drained, so that the request finds room again and again.
Fairness == WF_vars(Next) /\ SF_vars(Retransmit)
-----------------------------------------------------------------------------
(***************************************************************************)
(* The asserts of dctcp_win_update hold: from update to update the window  *)
(* stays between one segment and the send buffer, through slow start,      *)
(* losses, marks and additive increase, so no division by it can fail.     *)
(***************************************************************************)
WindowBounds == MSS <= cc.window /\ cc.window <= TxLen

(***************************************************************************)
(* A reading with losses or marks never makes DCTCP faster, in slow start  *)
(* or after it, except up to the configured minimum.                       *)
(***************************************************************************)
CongestionNeverGrows ==
  [][marked' => /\ alg = "dctcp_win" => cc'.window <= cc.window
                /\ alg = "dctcp_rate" => cc'.rate <= Max2(cc.rate, MinRate)]_vars

(***************************************************************************)
(* No law but the constant one ever sets a rate below the configured       *)
(* minimum, even when a 32-bit sum wraps.                                  *)
(***************************************************************************)
RateAtLeastMin == alg \in {"dctcp_rate", "timely"} => cc.rate >= MinRate

(***************************************************************************)
(* One reading takes at most half of the window: by the ECN share it is    *)
(* reduced by half of that share, by a loss it is halved.                  *)
(***************************************************************************)
WindowHalvesAtMost ==
  [][alg = "dctcp_win" => cc'.window >= cc.window \div 2]_vars

(***************************************************************************)
(* A connection that has sent bytes for which no acknowledgement comes any *)
(* more is retransmitted again and again.                                  *)
(***************************************************************************)
StalledIsRetransmitted == <>[] rex.stalled => []<> rex.sent
=============================================================================
