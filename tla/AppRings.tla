------------------------------ MODULE AppRings ------------------------------
(***************************************************************************)
(* The two rings between every fast-path core and a context of libtas: arx *)
(* carries connection updates to the application, atx the application's    *)
(* bumps to the core.  A slot is free if its type is 0; nothing else is    *)
(* shared.  Each producer counts the slots it may use in avail and only    *)
(* when half of them are gone probes for slots the consumer cleared.       *)
(*                                                                         *)
(* The core is fast_appctx.c and arx_cache_flush, the application          *)
(* flextcp_context_poll with fastpath_poll_vec, txq_probe and conns_bump   *)
(* (lib/tas/init.c).  The application looks at all rings before it handles *)
(* an entry, and the cores go on in between.  Entries are numbered, modulo *)
(* twice the ring, so that a lost or repeated one shows.                   *)
(***************************************************************************)
EXTENDS Integers, Sequences, FiniteSets

CONSTANTS RingCores,    \* cores, that is queues of the context: 0 .. n - 1
          RxqLen,       \* rxq_len, in entries
          TxqLen,       \* txq_len, in entries
          EvNum,        \* num of flextcp_context_poll
          RingBatch,    \* BATCH_SIZE
          RingCases     \* the cases: the rings that are used, a subset of {"arx",
                        \* "atx"}, and for every core the events an entry needs

VARIABLES load,         \* the rings that are used
          need,         \* for every core the events an entry of it needs
          arx,          \* for every core the arx ring with both sides' positions
          atx,          \* for every core the atx ring with both sides' positions
          app,          \* the application's poll
          oops          \* an assertion or abort() was hit

ringVars == <<load, need, arx, atx, app, oops>>

Entry(n) == n + 1
NCores == Cardinality(RingCores)
ArxMod == 2 * RxqLen
AtxMod == 2 * TxqLen

\* The slots from pos on, at most max, that are free before the first that is not.
FreeRun(slot, pos, max) ==
  LET len == Cardinality(DOMAIN slot)
  IN  CHOOSE n \in 0 .. max :
        /\ \A k \in 0 .. n - 1 : slot[(pos + k) % len] = 0
        /\ n = max \/ slot[(pos + n) % len] # 0

Init ==
  /\ \E x \in RingCases : load = x.load /\ need = x.need
  /\ arx = [q \in RingCores |->
              [slot |-> [p \in 0 .. RxqLen - 1 |-> 0], rx_head |-> 0, rx_avail |-> RxqLen,
               todo |-> 0, rxq_head |-> 0, sent |-> 0, taken |-> 0]]
  /\ atx = [q \in RingCores |->
              [slot |-> [p \in 0 .. TxqLen - 1 |-> 0], txq_tail |-> 0, txq_avail |-> TxqLen,
               tx_head |-> 0, aqes |-> <<>>, sent |-> 0, taken |-> 0]]
  /\ app = [pc |-> "idle", i |-> 0, arxs |-> <<>>, qheads |-> [q \in RingCores |-> 0],
            next_queue |-> 0, k |-> 0, bumps |-> {}]
  /\ oops = FALSE
-----------------------------------------------------------------------------
(* The core: updates for the application.                                  *)

\* fast_actx_rxq_alloc, n times.
fast_actx_rxq_alloc(r, n) ==
  [r EXCEPT !.rx_head = (@ + n) % RxqLen, !.rx_avail = @ - n, !.todo = n]

\* arx_cache_flush with n entries: all slots are allocated before the first is written.
arx_cache_flush(q, n) ==
  /\ "arx" \in load /\ arx[q].todo = 0
  /\ IF arx[q].rx_avail < n
     THEN oops' = TRUE /\ UNCHANGED arx
     ELSE arx' = [arx EXCEPT ![q] = fast_actx_rxq_alloc(@, n)] /\ UNCHANGED oops
  /\ UNCHANGED <<load, need, atx, app>>

\* *parx[i] = ctx->arx_cache[i]
WriteArx(q) ==
  /\ arx[q].todo > 0
  /\ LET r == arx[q]
     IN  arx' = [arx EXCEPT ![q] =
           [r EXCEPT !.slot[(r.rx_head + RxqLen - r.todo) % RxqLen] = Entry(r.sent),
                     !.todo = @ - 1, !.sent = (@ + 1) % ArxMod]]
  /\ UNCHANGED <<load, need, atx, app, oops>>

\* Mutation of ArxGain: the probe starts with slots that are counted already.
probe_from_head(r) ==
  LET left == RxqLen - r.rx_avail
  IN  FreeRun(r.slot, r.rx_head, IF left < 2 * RingBatch THEN left ELSE 2 * RingBatch)

\* The slots fast_actx_rxq_probe adds to rx_avail.
ArxGain(r) ==
  LET left == RxqLen - r.rx_avail
  IN  FreeRun(r.slot, (r.rx_head + r.rx_avail) % RxqLen,
              IF left < 2 * RingBatch THEN left ELSE 2 * RingBatch)

fast_actx_rxq_probe(q) ==
  /\ arx[q].todo = 0 /\ arx[q].rx_avail <= RxqLen \div 2
  /\ arx' = [arx EXCEPT ![q].rx_avail = @ + ArxGain(arx[q])]
  /\ UNCHANGED <<load, need, atx, app, oops>>
-----------------------------------------------------------------------------
(* The core: bumps of the application.                                     *)

\* fast_appctx_poll_fetch until a batch is full or the next slot has no entry.
fast_appctx_poll_fetch(q) ==
  LET r == atx[q]
      n == CHOOSE n \in 0 .. RingBatch :
             /\ \A k \in 0 .. n - 1 : r.slot[(r.tx_head + k) % TxqLen] # 0
             /\ n = RingBatch \/ r.slot[(r.tx_head + n) % TxqLen] = 0
  IN  /\ r.aqes = <<>> /\ n > 0
      /\ atx' = [atx EXCEPT ![q].aqes = [k \in 1 .. n |-> (r.tx_head + k - 1) % TxqLen],
                            ![q].tx_head = (@ + n) % TxqLen]
      /\ UNCHANGED <<load, need, arx, app, oops>>

fast_appctx_poll_bump(q) ==
  /\ atx[q].aqes # <<>>
  /\ atx' = [atx EXCEPT ![q].slot[Head(atx[q].aqes)] = 0,
                        ![q].aqes = Tail(@), ![q].taken = (@ + 1) % AtxMod]
  /\ UNCHANGED <<load, need, arx, app, oops>>
-----------------------------------------------------------------------------
(* The application: flextcp_context_poll.                                  *)

\* A connection of core q gets a bump that is not sent yet.
Bump(q) ==
  /\ "atx" \in load /\ app.pc = "idle" /\ q \notin app.bumps
  /\ app' = [app EXCEPT !.bumps = @ \cup {q}]
  /\ UNCHANGED <<load, need, arx, atx, oops>>

PollBegin ==
  /\ app.pc = "idle"
  /\ app' = [app EXCEPT !.pc = "gather", !.i = 0, !.arxs = <<>>, !.k = 0,
                        !.qheads = [q \in RingCores |-> arx[q].rxq_head]]
  /\ UNCHANGED <<load, need, arx, atx, oops>>

\* The queues in the order of a pass over them, and those whose next entry is valid.
RoundRobin == [k \in 1 .. NCores |-> (app.next_queue + k - 1) % NCores]
Ready == SelectSeq(RoundRobin, LAMBDA q : arx[q].slot[app.qheads[q]] # 0)

\* The entries one pass over all queues adds, while there is room for events.
Pass ==
  LET room == EvNum - app.i - Len(app.arxs)
      n == IF Len(Ready) < room THEN Len(Ready) ELSE room
      taken == {Ready[k] : k \in 1 .. n}
  IN  [app EXCEPT !.arxs = @ \o [k \in 1 .. n |-> <<Ready[k], app.qheads[Ready[k]]>>],
                  !.qheads = [q \in RingCores |-> IF q \in taken THEN (@[q] + 1) % RxqLen
                                                                 ELSE @[q]]]

\* One round of the loop over found_inner: fetch_8ts, fetch_4ts, then the entries.
Gather ==
  /\ app.pc = "gather"
  /\ app' = IF Ready # <<>> /\ app.i + Len(app.arxs) < EvNum THEN Pass
            ELSE [app EXCEPT !.pc = IF app.arxs = <<>> THEN "done" ELSE "handle", !.k = 1]
  /\ UNCHANGED <<load, need, arx, atx, oops>>

After(q) == (q + 1) % NCores

\* One round of the loop over arxs, with event_arx_connupdate.
Handle ==
  LET q == app.arxs[app.k][1]
      s == app.arxs[app.k][2]
      i == app.i + need[q]
  IN  /\ app.pc = "handle"
      /\ UNCHANGED <<load, need, atx>>
      /\ \/ /\ arx[q].slot[s] = 0
            /\ oops' = TRUE /\ UNCHANGED <<arx, app>>
         \/ /\ arx[q].slot[s] # 0 /\ i > EvNum
            /\ app' = [app EXCEPT !.pc = "done", !.next_queue = After(q)]
            /\ UNCHANGED <<arx, oops>>
         \/ /\ arx[q].slot[s] # 0 /\ i <= EvNum
            /\ arx' = [arx EXCEPT ![q].slot[s] = 0, ![q].rxq_head = (@ + 1) % RxqLen,
                                  ![q].taken = (@ + 1) % ArxMod]
            /\ app' = IF i >= EvNum
                      THEN [app EXCEPT !.pc = "done", !.i = i, !.next_queue = After(q)]
                      ELSE IF app.k = Len(app.arxs)
                      THEN [app EXCEPT !.pc = "gather", !.i = i, !.arxs = <<>>]
                      ELSE [app EXCEPT !.i = i, !.k = @ + 1]
            /\ UNCHANGED oops

\* The slots txq_probe adds to txq_avail.
AtxGain(r) ==
  LET left == TxqLen - r.txq_avail
  IN  IF r.txq_avail > TxqLen \div 2 THEN 0
      ELSE FreeRun(r.slot, (r.txq_tail + r.txq_avail) % TxqLen,
                   IF left < 2 * EvNum THEN left ELSE 2 * EvNum)

\* flextcp_context_tx_alloc, the entry of conns_bump, flextcp_context_tx_done
PutAtx(r) ==
  [r EXCEPT !.slot[r.txq_tail] = Entry(r.sent), !.txq_tail = (@ + 1) % TxqLen,
            !.txq_avail = @ - 1, !.sent = (@ + 1) % AtxMod]

\* txq_probe and conns_bump; the list of bumps is in any order and a full queue ends it.
PollEnd ==
  LET probed == [q \in RingCores |-> [atx[q] EXCEPT !.txq_avail = @ + AtxGain(atx[q])]]
  IN  /\ app.pc = "done"
      /\ \E done \in SUBSET app.bumps :
           /\ \A q \in done : probed[q].txq_avail > 0
           /\ done = app.bumps \/ \E q \in app.bumps \ done : probed[q].txq_avail = 0
           /\ atx' = [q \in RingCores |-> IF q \in done THEN PutAtx(probed[q]) ELSE probed[q]]
           /\ app' = [app EXCEPT !.pc = "idle", !.bumps = @ \ done, !.i = 0, !.k = 0,
                                 !.arxs = <<>>, !.qheads = [q \in RingCores |-> 0]]
      /\ UNCHANGED <<load, need, arx, oops>>

Next ==
  /\ ~oops
  /\ \/ \E q \in RingCores, n \in 1 .. RingBatch : arx_cache_flush(q, n)
     \/ \E q \in RingCores : WriteArx(q)
     \/ \E q \in RingCores : fast_actx_rxq_probe(q)
     \/ \E q \in RingCores : fast_appctx_poll_fetch(q)
     \/ \E q \in RingCores : fast_appctx_poll_bump(q)
     \/ \E q \in RingCores : Bump(q)
     \/ PollBegin \/ Gather \/ Handle \/ PollEnd

\* The application keeps polling, as its event loop does, and so does every core.
Fairness ==
  /\ WF_ringVars(~oops /\ (PollBegin \/ Gather \/ Handle \/ PollEnd))
  /\ \A q \in RingCores :
       /\ WF_ringVars(~oops /\ WriteArx(q))
       /\ WF_ringVars(~oops /\ (fast_appctx_poll_fetch(q) \/ fast_appctx_poll_bump(q)))

Spec == Init /\ [][Next]_ringVars
-----------------------------------------------------------------------------
(* An arx ring holds, from the application's head on, exactly the entries  *)
(* the core wrote and the application did not handle, in order, and every  *)
(* slot that rx_avail counts is free: no update is overwritten, lost or    *)
(* handled twice, although the sides share only the slots' types           *)
(* (fast_actx_rxq_alloc, fast_actx_rxq_probe, fastpath_poll_vec).          *)
ArxIntact ==
  \A q \in RingCores :
    LET r == arx[q]
        unread == (r.sent + ArxMod - r.taken) % ArxMod
    IN  /\ unread + r.todo + r.rx_avail <= RxqLen
        /\ \A k \in 0 .. RxqLen - 1 :
             r.slot[(r.rxq_head + k) % RxqLen] =
               IF k < unread THEN Entry((r.taken + k) % ArxMod) ELSE 0
        /\ (r.rxq_head + unread + r.todo) % RxqLen = r.rx_head

(* The same for atx, where the core takes a batch of entries before it     *)
(* clears them: no bump is overwritten, lost or applied twice              *)
(* (flextcp_context_tx_alloc, txq_probe, fast_appctx_poll_fetch,           *)
(* fast_appctx_poll_bump).                                                 *)
AtxIntact ==
  \A q \in RingCores :
    LET r == atx[q]
        unread == (r.sent + AtxMod - r.taken) % AtxMod
        first == (r.tx_head + TxqLen - Len(r.aqes)) % TxqLen
    IN  /\ unread + r.txq_avail <= TxqLen
        /\ \A k \in 0 .. TxqLen - 1 :
             r.slot[(first + k) % TxqLen] =
               IF k < unread THEN Entry((r.taken + k) % AtxMod) ELSE 0
        /\ (first + unread) % TxqLen = r.txq_tail

(* The slots fastpath_poll_vec noted are still valid when it handles them: *)
(* its assert(t != FLEXTCP_PL_ARX_INVALID) holds.                          *)
NotedStaysValid ==
  app.pc = "handle" =>
    \A k \in app.k .. Len(app.arxs) : arx[app.arxs[k][1]].slot[app.arxs[k][2]] # 0

(* Every update a core wrote is handled and every bump reaches its core,   *)
(* whatever the other queues carry, unless the core aborted for lack of    *)
(* room (next_queue, the events left, the probe).  This is of entries that *)
(* need one event or leave room for one of another queue; one that finds   *)
(* no room after another queue's can wait forever, as next_queue then      *)
(* moves on to that other queue each time.                                 *)
EntriesHandled ==
  \A q \in RingCores :
    LET exempt == oops \/ \E p \in RingCores : need[q] # 1 /\ need[p] + need[q] > EvNum
    IN /\ \/ []<>(exempt \/ arx[q].sent = arx[q].taken)
          \/ []<><<arx[q].taken' # arx[q].taken>>_ringVars
       /\ []<>(exempt \/ q \notin app.bumps)
=============================================================================
