------------------------------ MODULE AppPoll -------------------------------
(***************************************************************************)
(* How a fast-path core polls the transmit queues of the applications'     *)
(* contexts (tas/fast/fast_appctx.c, tas/fast/fastemu.c).  Contexts that   *)
(* recently had something are in a ring per VM, VMs with such contexts in  *)
(* a ring of VMs; these rings are polled, and every MAX_POLL_ROUNDS rounds *)
(* all registered contexts are.  VMs without budget are only served if the *)
(* others have nothing.                                                    *)
(*                                                                         *)
(* A poll reads nothing that other threads write but the queues, so it is  *)
(* one step, of a state record c.  Registration (tas/tas.c) is the slow    *)
(* path's and happens between polls or during one, of which only the       *)
(* published count is seen.                                                *)
(***************************************************************************)
EXTENDS Integers, Sequences, FiniteSets, SequencesExt

CONSTANTS PollVms,      \* VMs: 1 .. n
          PollCtxs,     \* for every VM the contexts: 1 .. n
          BatchSize,    \* BATCH_SIZE
          MaxRounds,    \* MAX_POLL_ROUNDS
          MaxNull,      \* MAX_NULL_ROUNDS
          MaxPend,      \* bound: entries in a queue
          PollBufs      \* packet buffers a poll may have: TXBUF_SIZE, cache

VARIABLES c,            \* the core's polling state and the queues' entries
          budget        \* whether the budget of a VM is positive

pollVars == <<c, budget>>

INVAL == 0
Ring(ids) == [head |-> INVAL, tail |-> INVAL, on |-> {},
              next |-> [i \in ids |-> INVAL], prev |-> [i \in ids |-> INVAL]]

\* dataplane_context_init, polled_vm_init, polled_ctx_init
Init ==
  /\ c = [vms |-> Ring(PollVms), ctx |-> [v \in PollVms |-> Ring(PollCtxs[v])],
          nulls |-> [v \in PollVms |-> [x \in PollCtxs[v] |-> 0]],
          nextCtx |-> [v \in PollVms |-> 1], nextVm |-> 1, rounds |-> 0,
          vmIds |-> <<>>, ctxIds |-> [v \in PollVms |-> <<>>], used |-> {},
          pend |-> [v \in PollVms |-> [x \in PollCtxs[v] |-> 0]],
          k |-> 0, max |-> 0, rem |-> <<>>, over |-> FALSE]
  /\ budget = [v \in PollVms |-> TRUE]
-----------------------------------------------------------------------------
(* The rings, of contexts and of VMs alike.                                *)

RingAdd(r, i) ==
  IF r.tail = INVAL
  THEN [r EXCEPT !.head = i, !.tail = i, !.next[i] = i, !.prev[i] = i, !.on = @ \cup {i}]
  ELSE [r EXCEPT !.next = [@ EXCEPT ![r.tail] = i, ![i] = r.head],
                 !.prev = [@ EXCEPT ![r.head] = i, ![i] = r.tail],
                 !.tail = i, !.on = @ \cup {i}]

RingRemove(r, i) ==
  IF r.tail = r.head
  THEN [r EXCEPT !.head = INVAL, !.tail = INVAL, !.next[i] = INVAL, !.prev[i] = INVAL,
                 !.on = @ \ {i}]
  ELSE [r EXCEPT !.tail = IF r.next[i] = r.head THEN r.prev[i] ELSE @,
                 !.head = IF r.next[i] # r.head /\ r.prev[i] = r.tail
                          THEN r.next[i] ELSE @,
                 !.next = [@ EXCEPT ![r.prev[i]] = r.next[i], ![i] = INVAL],
                 !.prev = [@ EXCEPT ![r.next[i]] = r.prev[i], ![i] = INVAL],
                 !.on = @ \ {i}]

Rotate(r) == [r EXCEPT !.head = r.next[@], !.tail = r.next[@]]

enqueue_ctx_to_active(s, v, x) == [s EXCEPT !.ctx[v] = RingAdd(@, x)]
enqueue_vm_to_active(s, v) == [s EXCEPT !.vms = RingAdd(@, v)]
remove_vm_from_active(s, v) == [s EXCEPT !.vms = RingRemove(@, v)]
remove_ctx_from_active(s, v, x) ==
  [s EXCEPT !.ctx[v] = RingRemove(@, x), !.nulls[v][x] = 0]

remove_ctxs_from_active(s) ==
  FoldLeft(LAMBDA u, r :
             LET w == remove_ctx_from_active(u, r[1], r[2])
             IN IF w.ctx[r[1]].head = INVAL THEN remove_vm_from_active(w, r[1]) ELSE w,
           s, s.rem)
-----------------------------------------------------------------------------
(* Fetching.  s.pend is what the queues hold.                              *)

\* One entry, which the same poll hands to the flow and frees (poll_bump).
fast_appctx_poll_fetch(s, v, x, spend) ==
  [s EXCEPT !.pend[v][x] = @ - 1, !.k = @ + 1, !.nulls[v][x] = 0,
            !.used = IF spend THEN @ \cup {v} ELSE @]

\* An entry of rem_ctxs, which has BATCH_SIZE of them; over: it was written past the end.
Removed(s, v, x) == [s EXCEPT !.rem = Append(@, <<v, x>>),
                              !.over = @ \/ Len(s.rem) >= BatchSize]

Null(s, v, x) == [s EXCEPT !.nulls[v][x] = IF @ = MaxNull THEN @ ELSE @ + 1]

RECURSIVE FetchActive(_, _, _, _, _)
FetchActive(s, v, x, spend, i) ==
  IF i = BatchSize \/ s.k = s.max THEN s
  ELSE IF s.pend[v][x] > 0
  THEN FetchActive(fast_appctx_poll_fetch(s, v, x, spend), v, x, spend, i + 1)
  ELSE LET u == Null(s, v, x)
       IN IF u.nulls[v][x] < MaxNull THEN u ELSE Removed(u, v, x)

fast_appctx_poll_fetch_active_ctx(s, v, x, spend) == FetchActive(s, v, x, spend, 0)

RECURSIVE ActiveCtxs(_, _, _, _)
ActiveCtxs(s, v, x, spend) ==
  LET u == fast_appctx_poll_fetch_active_ctx(s, v, x, spend)
      n == u.ctx[v].next[x]
  IN IF n = u.ctx[v].head \/ u.k = u.max THEN u ELSE ActiveCtxs(u, v, n, spend)

fast_appctx_poll_fetch_active_vm(s, v, spend) ==
  LET u == ActiveCtxs(s, v, s.ctx[v].head, spend) IN [u EXCEPT !.ctx[v] = Rotate(@)]

\* The VMs of the ring from v on; oob collects those without budget.
RECURSIVE ActiveVms(_, _, _)
ActiveVms(s, v, oob) ==
  LET u == IF budget[v] THEN fast_appctx_poll_fetch_active_vm(s, v, TRUE) ELSE s
      o == IF budget[v] THEN oob ELSE Append(oob, v)
      n == s.vms.next[v]
  IN IF n = s.vms.head \/ u.k = u.max THEN <<u, o>> ELSE ActiveVms(u, n, o)

fast_appctx_poll_fetch_active(s) ==
  LET r == ActiveVms(s, s.vms.head, <<>>)
  IN IF r[1].k > 0 THEN r[1]
     ELSE FoldLeft(LAMBDA u, v :
                     IF u.k < u.max THEN fast_appctx_poll_fetch_active_vm(u, v, FALSE)
                     ELSE u,
                   r[1], r[2])

\* A context found with entries is made active.
RECURSIVE FetchAll(_, _, _, _, _)
FetchAll(s, v, x, spend, i) ==
  IF i = BatchSize \/ s.k = s.max THEN s
  ELSE IF s.pend[v][x] = 0 THEN Null(s, v, x)
  ELSE LET u == fast_appctx_poll_fetch(s, v, x, spend)
       IN FetchAll(IF x \in u.ctx[v].on THEN u ELSE enqueue_ctx_to_active(u, v, x),
                   v, x, spend, i + 1)

fast_appctx_poll_fetch_all_ctx(s, v, x, spend) == FetchAll(s, v, x, spend, 0)

RECURSIVE AllCtxs(_, _, _, _)
AllCtxs(s, v, spend, i) ==
  LET n == Len(s.ctxIds[v])
      u == fast_appctx_poll_fetch_all_ctx(s, v, s.ctxIds[v][s.nextCtx[v]], spend)
      w == IF v \notin u.vms.on /\ u.k > s.k THEN enqueue_vm_to_active(u, v) ELSE u
  IN IF i = n \/ s.k = s.max THEN s
     ELSE AllCtxs([w EXCEPT !.nextCtx[v] = (@ % n) + 1], v, spend, i + 1)

fast_appctx_poll_fetch_all_vm(s, v, spend) == AllCtxs(s, v, spend, 0)

\* Mutation of Advance: every full poll begins with the same VM.
advance_never(s) == s

Advance(s) == [s EXCEPT !.nextVm = (@ % Len(s.vmIds)) + 1]

RECURSIVE AllVms(_, _, _)
AllVms(s, i, oob) ==
  LET v == s.vmIds[s.nextVm]
  IN IF i = Len(s.vmIds) \/ s.k = s.max THEN <<s, oob>>
     ELSE IF budget[v]
     THEN AllVms(Advance(fast_appctx_poll_fetch_all_vm(s, v, TRUE)), i + 1, oob)
     ELSE AllVms(Advance(s), i + 1, Append(oob, v))

fast_appctx_poll_fetch_all(s) ==
  IF s.vmIds = <<>> THEN s ELSE
  LET r == AllVms(s, 0, <<>>)
  IN IF r[1].k > 0 THEN r[1]
     ELSE FoldLeft(LAMBDA u, v :
                     Advance(IF u.k < u.max THEN fast_appctx_poll_fetch_all_vm(u, v, FALSE)
                             ELSE u),
                   r[1], r[2])
-----------------------------------------------------------------------------
\* The entries that were fetched are handed to their flows in the same poll.
poll_active_queues(s) ==
  LET u == fast_appctx_poll_fetch_active(s)
  IN remove_ctxs_from_active([u EXCEPT !.vms = Rotate(@)])

poll_all_queues(s) == fast_appctx_poll_fetch_all(s)

IsFull(s) == s.rounds = 0 \/ s.vms.head = INVAL

poll_queues(s) ==
  LET u == IF IsFull(s) THEN poll_all_queues(s) ELSE poll_active_queues(s)
  IN [u EXCEPT !.rounds = (@ + 1) % MaxRounds]

\* spend_budget: the VMs of which something was counted pay for the poll, with
\* any number of cycles.
spend_budget(s) ==
  \E broke \in SUBSET s.used :
    budget' = [v \in PollVms |-> budget[v] /\ v \notin broke]

\* What the loop of the core does about the queues in one round.  After a write past the end
\* of rem_ctxs, on the stack, nothing can be said of the core.
Poll ==
  ~c.over /\ \E max \in PollBufs :
    LET s == poll_queues([c EXCEPT !.max = max])
    IN /\ spend_budget(s)
       /\ c' = [s EXCEPT !.max = 0, !.k = 0, !.rem = <<>>, !.used = {}]

\* boost_budget of the slow path
boost_budget(v) ==
  ~ budget[v] /\ budget' = [budget EXCEPT ![v] = TRUE] /\ UNCHANGED c

tas_register_vm(v) ==
  /\ ~ Contains(c.vmIds, v)
  /\ c' = [c EXCEPT !.vmIds = Append(@, v)] /\ UNCHANGED budget

tas_register_appctx(v, x) ==
  /\ Contains(c.vmIds, v) /\ ~ Contains(c.ctxIds[v], x)
  /\ c' = [c EXCEPT !.ctxIds[v] = Append(@, x)] /\ UNCHANGED budget

\* An application puts an entry into the queue of its context.
Send(v, x) ==
  /\ Contains(c.ctxIds[v], x) /\ c.pend[v][x] < MaxPend
  /\ c' = [c EXCEPT !.pend[v][x] = @ + 1] /\ UNCHANGED budget

Next ==
  \/ Poll
  \/ \E v \in PollVms : boost_budget(v)
  \/ \E v \in PollVms : tas_register_vm(v)
  \/ \E v \in PollVms : \E x \in PollCtxs[v] : tas_register_appctx(v, x)
  \/ \E v \in PollVms : \E x \in PollCtxs[v] : Send(v, x)
-----------------------------------------------------------------------------
\* r is a ring: from the head on, next leads once through its members and back,
\* and prev leads the other way.
RECURSIVE Walk(_, _, _)
Walk(r, i, n) == IF n = 0 THEN <<>> ELSE <<i>> \o Walk(r, r.next[i], n - 1)

IsRing(r) ==
  IF r.on = {} THEN r.head = INVAL /\ r.tail = INVAL
  ELSE LET w == Walk(r, r.head, Cardinality(r.on))
       IN /\ Range(w) = r.on /\ r.next[Last(w)] = r.head /\ r.tail = Last(w)
          /\ \A i \in r.on : r.prev[r.next[i]] = i

\* The rings of active contexts and VMs stay rings whatever is added, rotated
\* and removed in one poll, and a VM is active exactly when a context of it is
\* (fast_appctx.c: the loops over the rings end only at the head they began at).
RingsIntact ==
  /\ IsRing(c.vms) /\ \A v \in PollVms : IsRing(c.ctx[v])
  /\ \A v \in PollVms : v \in c.vms.on <=> c.ctx[v].on # {}

\* rem_ctxs is written past its end only where more than BATCH_SIZE contexts are
\* registered: no context is entered twice in one poll (fast_appctx_poll_fetch_active
\* and poll_active_queues check neither).  With more contexts than that the code does
\* write past the end, if enough of them have been idle for MAX_NULL_ROUNDS at once.
RemFits ==
  c.over => Cardinality({ <<v, x>> \in UNION { {v} \X PollCtxs[v] : v \in PollVms } :
                            Contains(c.ctxIds[v], x) }) > BatchSize

\* A poll of all queues comes back with nothing only if they were all empty:
\* without budget a VM is still served when the others have nothing
\* (fast_appctx_poll_fetch_all).
FullPollFindsWork ==
  [][c'.rounds # c.rounds /\ IsFull(c) /\ c'.pend = c.pend =>
       \A v \in Range(c.vmIds) : \A x \in Range(c.ctxIds[v]) : c.pend[v][x] = 0]_pollVars

\* No context starves: if its VM has budget in a full poll again and again, its
\* entries are fetched, although other contexts and VMs may fill every batch.
EveryContextServed ==
  \A v \in PollVms : \A x \in PollCtxs[v] :
    []<><<IsFull(c) /\ budget[v] /\ c'.rounds # c.rounds>>_pollVars =>
      []<><<c.pend[v][x] = 0 \/ c'.pend[v][x] < c.pend[v][x]>>_pollVars
=============================================================================
