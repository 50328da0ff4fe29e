# TAS: a verification project

TLA+ models of TAS, a TCP acceleration service, checked with TLC and, in part,
proved with TLAPS. Paths below are relative to the repository's `src/`.

## The system

* **Fast path** (`tas/fast`): threads pinned to cores. Each runs
  `dataplane_loop`: it receives packets, takes *bumps* (increments of buffer
  positions) from applications, takes retransmission requests from the slow
  path, polls its own queue manager and sends segments. The state of a flow is
  shared by all cores and protected by a spinlock.
* **Slow path** (`tas/slow`): one thread for connection set-up and close, ARP,
  timeouts, congestion control and retransmission decisions, packet memory,
  budgets and the flow table, and a second one for the sockets on which
  applications register.
* **libtas** (`lib/tas`): the application's side of a connection. It shares the
  payload buffers with the fast path and exchanges small messages with each
  core through an `atx` queue (bumps) and an `arx` queue (updates), and with the
  slow path through `kin`/`kout` queues.
* **Sockets** (`lib/sockets`): POSIX sockets, poll and epoll on top of libtas.
* **Proxies** (`proxy`): carry the set-up messages of applications inside
  virtual machines to TAS over shared-memory rings.

`PROJECT.json` lists every part with its status, the lines each definition
models, and the hazards the project works from.

The build modelled is the one without GRE (`VIRTUOSO_GRE` 0), with
`FLEXNIC_PL_OOO_RECV` and `ALLOW_FUTURE_ACKS`, and with assertions.

## Modules

*An established connection*

| Module | Models |
|---|---|
| `TcpCommon` | `tcp_trim_rxbuf`, `tcp_valid_rxack`, `tcp_txavail` over a wrapping sequence space |
| `FlowOps` | every operation of `fast_flows.c` on the state of one flow, as an operator from state to state |
| `FastPath` | several cores, their queue managers and forwarding rings, and steering, on shared flows |
| `TcpStream` | two ends, their buffers and applications, and a network that loses, duplicates and reorders |
| `ByteStream` | what a connection promises: the abstract reliable stream `TcpStream` implements |
| `ConnBump` | a connection of libtas and its flow, with the `atx` and `arx` queues of each core between them |
| `RxPieces` | the unread data of a socket as pieces of the circular buffer |

*A fast-path core*

| Module | Models |
|---|---|
| `Qman` | `qman.c`: virtual machines, unlimited flows, skip list, virtual time, budgets |
| `AppPoll` | the active rings of VMs and contexts, and the polls of all contexts (`fast_appctx.c`, `fastemu.c`) |
| `AppRings` | the `arx` and `atx` rings, slot by slot, with `fastpath_poll_vec` at the other end |
| `CoreBufs` | who owns a packet buffer: pool, cache, transmit list, NIC |
| `Budget` | cycles spent by cores and handed out by the slow path |
| `KernelRings` | the rings between slow path and cores |
| `Wakeup` | who may sleep, and who must wake them (`blocking.c` and its counterparts in libtas) |

*The slow path*

| Module | Models |
|---|---|
| `SlowState`, `SlowTcp`, `SlowPath` | connections, listeners, ports, ARP, timers, requests and events (`tcp.c`, `arp.c`, `routing.c`, `appif_ctx.c`), with libtas and the peers around them |
| `AppReg` | registration of applications and contexts, with the two threads of the slow path (`appif.c`) |
| `FlowTable` | the flow hash table, one store and one load at a time (`nicif.c`, `fast_flows_packet_fss`) |
| `CcLaw`, `CcSched` | the control laws of congestion control with the retransmission timer, and whom the control loop visits (`cc.c`) |
| `PacketMem`, `Timeout` | the allocator and the timeouts |

*Applications and virtual machines*

| Module | Models |
|---|---|
| `SockState`, `SockEvents`, `SockCalls`, `Sockets` | the sockets library: descriptors, epolls, event handlers, calls, and threads that run programs |
| `ShmRing` | one direction of the channel between virtual machine and host, store by store |
| `Proxy` | the guest and the host proxy, their sockets, eventfds and messages |

`FlowOps_proofs`, `FastPath_proofs`, `TcpFlow_proofs`, `TcpStream_proofs`,
`Structures_proofs` (`FlowTable`, `RxPieces`), `Lists_proofs` (`PacketMem`,
`Timeout`), `Shared_proofs` (`Budget`, `KernelRings`, `Wakeup`) and `Suite_proofs`
(`TcpCommon`, and `MC_Structures` as a whole) hold lemmas and theorems. `MC_*` are
instances for TLC; `MC_TcpCommon` also holds reference definitions.

**State.** Records keep the field names of the C structs. A flow is a record
like `struct flextcp_pl_flowst` (the flags in `rx_base_sp` are Booleans). Single-
threaded parts, the slow path and the locked regions of the sockets library, are
one record `k`, and a C function is an operator from the state before to the
state after; a failed assertion or an `abort()` sets a flag that an invariant
excludes. Where the code runs into something undefined (a write past an array, the
use of freed memory) the model records it and stops: fields like `err`, `dead`,
`over`, `late`, `met`, `left` and `strayed` name these errors, and the properties
that an error breaks say so. Addresses, headers, values of timestamps and statistics
are left out.

**Steps.** A call under a lock, or of a thread whose data nobody else writes, is
one step. What is not atomic is split: `FastPath` separates taking a batch from
the queue manager from sending it; `FlowTable` and `ShmRing` make every store
and load a step; `Budget` separates reading from adding; `AppRings` and
`KernelRings` let the other side go on between looking at a slot and clearing
it; `AppReg` follows two threads; `Wakeup` follows time; a call of `Sockets` ends
its step where it waits.

**Inputs.** In `FastPath` segments are arbitrary members of a set, so the proofs
hold for any peer; an application returns no more receive credit than it was
given. `TcpStream` has the peer itself instead. In `SlowPath` peers send what
their side of the protocol allows, each packet with a timestamp option or without,
each SYN with ECN flags or without, and the network loses or repeats it. In
`Sockets` threads run the programs of `MC_Sockets`. Requests of `Sockets` may find
no room, listens and connects may fail, and applications of `Proxy` may exit at
any time.

## Runs

Small components are checked together: a suite (`MC_Structures`, `MC_Dataplane`,
`MC_Interfaces`, `MC_Connection`) declares the variables of all of them, `part`
says which one a behaviour is about, and the others do not move. This is a
disjoint union of their state spaces. Each property below is defined in the
component's module, or in the suite as a conjunction of such, with the names in
brackets.

| Run | Shows |
|---|---|
| `structures` | `IntervalsExact`: trimming and acknowledgements against definitions by sets of sequence numbers; `HandlesTile`: free and allocated memory tile the region; `TimersExact` (`DueIsOver`, `NextExact`), `EveryTimeoutEnds`; `LookupFinds` (with `SlotIsFree`): a flow in the table is found during any move, unless a move took its entry out of its neighbourhood (known errors); `ReadsInOrder`; `EveryConnVisited` (with `CursorListed`); `ReactsToCongestion` (`WindowBounds`, `CongestionNeverGrows`, `RateAtLeastMin`, `WindowHalvesAtMost`); `StalledIsRetransmitted` |
| `fastpath_tx` | two cores, a steering change: send accounting, no stranded data of a flow with a queue of its own (`OwnQueue`), the acknowledged position only moves forward, and sendable data is sent |
| `fastpath_rx` | all segments, one core: the out-of-order interval stays near the window, nothing is received after the FIN |
| `connection` | end to end: the stream is intact, what is acknowledged has arrived, `ByteStream` is implemented, with reordered data and with both ends closing; libtas and flow agree on every byte (`AccountsAgree`) |
| `stream_live` | everything is delivered after finitely many losses |
| `slowpath` | memory, ports, flow ids and `kout` queues run out, SYNs come with and without timestamps; until one of the known errors (`NoErr`): `WellFormed`: no abort; `ResourcesConserved` (`FlowIdsOwned`, `BuffersConserved`); `TablesConsistent` (`NoDangling`, `TupleUnique`, `NoStuckBacklog`); `ViewsAgree` (`AppConnBacked`, `AnswersExpected`); `CallsAnswered` (`SynAckAfterFlow`, `OpenAnswered`, `CloseAnswered`) |
| `sockets` | apart from the aborts and hangs listed below: no assertion fails, `RefcntExact`, `EventsSeen` (`ReadyIsSeen`, `ReadyIsActive`), `CallsComplete` (`CallsReturn`, `CloseFrees`) |
| `dataplane` | `QueuesIntact` (`VmAvailIsSum`, `NothingForgotten`, `SkipListOrdered`, `PollEnds`, `WaitIsReasonable`, `WorkConserving`), `EveryFlowSent`; `OneOwner` (with `TxFits`); `EveryContextServed` (with `RingsIntact`, `RemFits`, `FullPollFindsWork`); `BudgetReturns` (with `AtMostMax`, `SharesAddUp`); `KernelRingsServed` (`KrxIntact`, `KtxIntact`, `KrxServed`); `AppRingsServed` (`ArxIntact`, `AtxIntact`, `NotedStaysValid`, `EntriesHandled`) |
| `interfaces` | `NoLostWakeup` (with `IdleSleeps`); `RingUntilMet` (`IntactUntilMet`, `WriterGetsRoom`); `ProxiesServe` (`AnswersReachOwner`, `ContextsInOwnApp`, `AppsServed`, `PokesArrive`); `ContextsServed` (`ContextIsOwn`, `ReadyIsRegistered`, `RequestsAnswered`) |
| `stream_overrun` | *violation*: a wrapping packet is not trimmed to the window, and overwrites unread data |
| `slowpath_close` | *violation*: the close request for a connection the application opened finds no connection |
| `shmring_race` | *violation*: with the locks disabled a full ring looks empty for a moment |

Every violation is a finding in `PROJECT.json`, with the comment of the code it
contradicts.

`connection` passes and `stream_overrun` refutes the same `StreamIntact`, so the
intact stream is a result about connections that do not meet the trimming error.
The error needs a segment that wraps and starts inside a window it exceeds,
while unread bytes lie where its end goes. The violating instance has a receive
buffer of three bytes, a peer that closes, and the wrap after the fourth byte;
`connection` has a buffer of two bytes and the wrap after the first. `shmring_race`
refutes `RingIntact`, which a comment of the code promises; `RingUntilMet` in
`interfaces` says of the same steps what remains true without the locks: the ring
is intact until a push leaves, or finds, the writer's position equal to the
reader's.

**Known errors that a run reaches.** The model stops there or the property excepts
the case by name; before that, and in all other cases, the properties hold.

* *Lost wake-ups* (`NoLostWakeup`, `Margin`): a sender takes the receiver for awake
  by the age of its own last time stamp. Both sides read the clock some time before
  or after what it stands for (`fastemu.c:917` passes a `tsc` from before the
  poll), so an entry put within twice that time (`MaxLate`) of the receiver's
  falling asleep may come without a notification.
* *Flow table* (`LookupFinds`, `strayed`): the comment at `nicif.c:1369` says "how
  much further this element can be moved", but a move copies the position bits
  (`nicif.c:1390`) instead of adding the distance. Moved again, an entry can leave
  the neighbourhood that lookups read, and the flow is lost to the fast path until
  it is closed.
* *Idle virtual machines* (`SkipListOrdered`, `WaitIsReasonable`, `late`): `ts_real`
  of a VM is updated only while it is polled (`qman.c:868`). After 2^31 ticks
  without data the time passed is negative (`qman.c:813`, `828`), `ts_virtual` is
  set back, and its rate-limited flows then wait for up to half the clock.
* *Many idle contexts* (`RemFits`, `over`): `rem_ctxs` on the stack of
  `poll_active_queues` has `BATCH_SIZE` entries (`fastemu.c:548`) and is filled
  without a check (`fast_appctx.c:167`). It overflows if more contexts than that
  reach `MAX_NULL_ROUNDS` in one poll.
* *Slow path* (`NoErr`). A SYN without timestamp for an open connection frees it
  while it is in the hash table, in the list of congestion control and in use
  (`tcp.c:636`). Without a flow id left the connection is freed after
  `cc_conn_init` and stays in that list, and the one of a listener is entered
  twice (`tcp.c:763`). An open without a local port left aborts, since `conn_free`
  reads a context that is not set; failed opens do not give their port back. An
  answer that finds `kout` full is lost (`appif_ctx.c:72`, "TODO"), with it the
  removal of a closed connection from the application's list.
* *Backlogs* (`NoStuckBacklog`, `dropped`): after a SYN that is dropped (no
  timestamp, no flow id) `listener_accept` does not try the next one of the
  backlog. A repeated SYN with ECN flags is ignored (`tcp.c:630`), so its peer
  gets no second SYN-ACK.
* *Aborts of the sockets library* (`NeverAborts`): a close with a full transmit
  buffer leads to a SENDBUF event for a closed socket (`init.c:795`, assertion at
  `context.c:368`). When a listen finds no room for its request the backlog is freed
  twice (`control.c:482`, `524`); one that fails later leaves a listener whose freed
  backlog `accept` uses (`control.c:575`), and if it is added to an epoll,
  `ev_listen_moved` finds it not open (`context.c:263`).
* *Hangs of the sockets library* (`CallsComplete`). `SelfLocked`: `accept` with an
  address waits for the connection to move while it holds the listener's lock,
  which a handler needs (`control.c:637`). `Deaf`: `accept` sleeps on its own
  context while the request for the next connection was posted by another thread,
  whose context gets the event. A connection whose connect failed is not freed by
  `close`: its transmit buffer has length 0, and the end of the stream waits for
  room in it (`conn.c:371`).
* *Proxies* (`NobodyLeft`): when an application exits with an answer outstanding,
  the guest proxy writes it to a socket without a peer and is ended by SIGPIPE, or
  to the application that was given the descriptor since (`guest/flextcp.c:767`).

**Known errors that the runs avoid.** Each is a hazard with a note in
`PROJECT.json`; the instance that shows it is given here.

* `AllDelivered` fails when the receive buffer is smaller than the stream
  (`TxLen` 2, `RxLen` 1): a lost window update is not repeated (`cc.c:315`).
* `AccountsAgree` fails with two cores and `BumpMax` 7: an overtaken bump is
  dropped with its bytes (`fast_flows.c:1174`); and with a receive buffer longer
  than the transmit buffer (`fast_flows.c:1209`).
* `NoStranded` is about flows with a queue of their own (`OwnQueue`). Flow ids are
  cut to 16 bits (`fast_flows.c:364`) and there are 128*1024 flows; ids are handed
  out from the lowest on, so from the 65537th open flow on an acknowledgement arms
  the queue of another one. For all flows it fails with `Flows` {0, 1} and
  `FlowIdMod` 1.
* `KtxIntact` fails when `NicTxLen` and `NicRxLen` differ: the tail of `ktx`
  wraps at `rxq_len` (`nicif.c:1252`). The default lengths are equal.
* `BudgetReturns` fails when fewer cycles are handed out than there are VMs: all
  shares round to zero (`BuTotals` {1}).
* `EntriesHandled` is restricted to entries that leave room for one of another
  queue; others can wait forever (`init.c`, `next_queue`).
* `CallsComplete` and `NeverAborts` fail for programs in which two threads wait
  on one connection (`transfer.c:169`), or close one while its non-blocking
  connect is under way (`context.c:283`). The programs of `MC_Sockets` do
  neither.

**Bounds.** The sequence space (`SeqMod`), buffers (`TxLen`, `RxLen`), segment
size (`Mss`) and 16-bit limits (`WndMax`, `BumpMax`, `FlowIdMod`) are scaled
down together, keeping their order. Buffers of two or three bytes with segments
of one or two already wrap, fill up, hold one out-of-order interval with a gap
before it and split a segment by trimming. The first sequence number is chosen so
that the wrap happens inside the stream. `Plans` bound the segments under way:
two in the direction a run is about allow reordering, duplication and overtaking.
Rings have two slots, so that they are empty, full and wrapped within a few
steps; their entries are numbered modulo twice the ring, which tells a lost or
repeated one. Two VMs, two cores, two contexts and two flows are enough for one
to starve the other; `Qman` has two levels of the skip list, a clock of six ticks,
and VMs that were idle for one tick or for five, which is one backwards.
`CoreBufs` has five buffers and a cache of two, so that caches overflow to the pool
and refills leave something in it. `Wakeup` lets one tick pass (`MaxLate` 1) in any
send and any round. `PacketMem` has seven bytes for blocks of one to three, so that first
fit splits and merges with free ranges on both sides. `Timeout` has three timers
and time stamps of three bits. `FlowTable` has neighbourhoods of two slots and
three flows that collide at the end of the table, so that entries move and wrap.
`CcLaw` scales 32-bit numbers to four bits. `SlowPath` has memory for two
connections and plans that ask for three, two local ports of its own, one or two
flow ids (as many as a plan leaves), and `kout` queues of three entries.
`MaxDrops`, `MaxMoves`, `MaxAdds`, `MaxRexmits`, `MaxLag`, `MaxAvail` and
`MaxPend` bound counters that would grow. Deadlock is checked in `fastpath_tx` and
`fastpath_rx`; elsewhere streams, programs and plans come to an end.

**What the runs leave out.** `TcpStream` lets data flow from A to B only, and a
side's bump reaches its flow at once; both keep the state space small, and
`ConnBump` covers the delayed bump. `ConnBump` in turn has an in-order peer and
one connection. `stream_live` has a receive buffer that holds the whole stream,
because the window must not close. The programs of `MC_Sockets` have one epoll, and
`fastpath_tx` one flow.

## Fairness

`FastPath`: every core keeps running its loop. The queue manager serves flows in
FIFO or deadline order, so a flow that is armed again and again is polled (strong
fairness of `PollQman` and `QmanFwd`, which are disabled while a batch is
handled); a batch that was taken is finished (weak fairness). Nothing is assumed
of packets, bumps or retransmissions.

`TcpStream`: fast path and applications keep working, the slow path keeps asking
for retransmissions while bytes are in flight (`issue_retransmits` runs
periodically), and the network loses and duplicates finitely often. Fairness of
`Receive` is spelled out with its enabling condition, which TLC evaluates faster.

`SlowPath`: the slow path keeps polling its inputs, armed timers expire, and
applications poll their contexts. Packets may be lost forever: a call is then
answered by its timeout.

`Sockets`: a thread that is not waiting goes on, one that waits polls its
context, and the slow path answers. Peers are fair only where a program needs
their data.

The other parts: every thread that loops in the code (cores, slow path, the
application's event loop, the two proxies) keeps looping, with weak fairness of
its next step; the queue manager's time passes; in `Wakeup` time passes (strong
fairness of `Tick`, which the bounds on a thread's delay disable at times).
Nothing is assumed of packets, requests, bumps, spending, exits or pokes.

## Proofs

All hold for all values of the constants that satisfy the named assumptions of
the modules (`SeqModAssumption`, `FlowAssumption`, `FastPathAssumption`: positive
lengths, buffers smaller than the sequence space, a receive buffer and a segment
together within 16 bits) and the hypotheses given here.

*One flow and the cores* (`FastPath_proofs`), for arbitrary segments and bumps:

* `TypeCorrect`: `TypeOK` is invariant, so no counter underflows;
* `Accounting`: `TxAccounting` is invariant;
* `IntervalStays`: `OooNearWindow` is invariant;
* `NothingStranded`: `NoStranded` is invariant, for any set of flows and any width
  of their ids (it is about the flows whose truncated id is theirs alone);
* `AckForward`: `AckMonotonic`; the oldest unacknowledged byte never moves back,
  nor past what was written;
* `StreamEnds`: `RxFinFinal`; nothing moves the receive stream after its FIN.

*A connection* (`TcpStream_proofs`, on the lemmas of `TcpFlow_proofs`), for both
directions, any loss, duplication and reordering, and any timing:

* `StreamDelivered`: `StreamIntact` is invariant;
* `AcknowledgedArrived`: `AckedArrived` is invariant;
* `ConnectionImplements`: `TcpStream` implements `ByteStream`
  (`ImplementsByteStream`);
* `NeverOverruns`: `NoOverrun`, which the three above take as a hypothesis about
  the run, is invariant for streams that satisfy `IsnSafe`;
* `ShortStreamsSafe`: so for these streams all three hold of every run.

*Structures*, for all sizes:

* `TrimAndAck` (`Suite_proofs`): `IntervalsExact`; if a window and a segment
  together are smaller than the sequence space (`TcpFits`);
* `StreamReadInOrder` (`Structures_proofs`): `ReadsInOrder` of `RxPieces`, for a
  non-empty buffer and any lengths that applications pass (`RxFits`);
* `LookupFindsHolds` (`Structures_proofs`): `LookupFinds` and `SlotIsFree` of
  `FlowTable`, for a table of at least five neighbourhoods (`Sizes`); like the run
  it excepts flows that strayed;
* `NoByteLost` (`Lists_proofs`): `HandlesTile` of `PacketMem`, for a non-empty
  memory and positive lengths (`MemFits`; what is allocated are queues and buffers);
* `ClockExact` (`Lists_proofs`): `DueIsOver` and `NextExact` of `Timeout`, if delays
  and the lateness of the main loop are below half the clock (`ClockFits`);
* `SegmentsExact`, `MemoryTiles`, `TimersTellTime`, `LookupsFind` and `StreamsRead`
  (`Suite_proofs`): the five properties of the run `structures`, of the composition
  that the run checks, under the same hypotheses.

*Shared between threads* (`Shared_proofs`):

* `NobodySleepsOn`: `NoLostWakeup` of `Wakeup` is invariant for any senders, any
  poll cycle and any lateness `MaxLate`;
* `Bounded`: `AtMostMax` is invariant for any number of VMs and cores and any
  natural costs and totals (`Sizes`);
* `KrxOrder` and `KtxOrder`: `KrxIntact` and `KtxIntact` are invariant for 1 to 64
  cores and any ring length; the second if both lengths are equal.

*Hypotheses about a connection.* `StreamsFit` has two parts. The receive buffer is
not longer than the transmit buffer, because `fast_flows_bump` compares the
receive credit with `tx_len`: otherwise it refuses credit that is due
(`fast_flows.c:1209`). The defaults are equal. And a stream with its FIN and a
window is shorter than the sequence space: the network of the model may keep a
segment forever, and nothing in the code (no check of timestamps) tells a segment
of the last round of sequence numbers from one of this round. `NoOverrun` excludes
the trimming error of `stream_overrun`: a segment that starts in the window and
reaches the end of the sequence space while the window ends before it. `TrimExact`
shows that this is the only case in which `tcp_trim_rxbuf` does not cut a segment
to the window. `IsnSafe` says that the sequence numbers do not wrap after the
first byte of a stream. The instance of the run `connection` satisfies
`StreamsFit` and `IsnSafe`; the one of `stream_overrun` does not satisfy
`IsnSafe`.

*Argument.* `TypeOK` is not inductive: an acknowledgement subtracts from
`tx_avail`, and a merged out-of-order interval from `rx_avail`. `FlowInv` in
`FlowOps_proofs` adds that sent and waiting bytes together fit the buffer, and
where the out-of-order interval lies. `TrimLemma` and `RxAckLemma` state what the
arithmetic of `TcpCommon` guarantees; one lemma per operation (`RxAckInv`,
`InOrderInv`, `OutOfOrderInv`, `MergeInv`, `FinInv`, `BumpInv`, `QmanInv`, ...)
shows that it keeps `FlowInv`. `FastPath_proofs` lifts this to the cores
(`IInv`), one step per action. `NothingStranded` adds, for a flow that is the only
one with its truncated id (`OwnId`), that a step that makes more sendable
arms the queue for all of it (`ArmCovers`) and that no other step takes away more
arming than it sends or forwards (`NextCovers`).

The interval may reach one segment beyond the window (`OooOK`) because of the
trimming error; a tighter bound does not hold.

`AckForward` needs `IInv` for what an acknowledgement may be and one lemma per
operation (`PacketAck`, `QmanAck`, `BumpSame`, `RetransmitSame`): a reset of the
sender moves `tx_next_seq` back by exactly `tx_sent`, so the oldest
unacknowledged byte, their difference, stays. `StreamEnds` follows from the
guards on `rxfin` (`PacketFinal`).

`StreamDelivered`: the data of `StreamIntact` is not enough, since a byte may lie
beyond a gap, be sent again and arrive late. `IInv` of `TcpStream_proofs` says for
both ends where everything is. `TxSide`: the send buffer holds the bytes of the
stream from the oldest unacknowledged one on, at the positions that the sequence
numbers give. `RxSide`: the receive buffer holds those that were received and not
read, and the out-of-order interval the bytes that belong there, of which none is
beyond what the peer wrote. Every segment under way, however old, carries bytes of
the stream at their own sequence number and acknowledges no more than its sender
received (`SegAt`). What the receiver expects next lies between what the sender
knows as acknowledged and what it has written. One lemma per branch of
`fast_flows_packet` and per operation shows that `TxSide` and `RxSide` are kept;
`TcpStream_proofs` combines them for the end that moves (`Moves`) and shows that
what the other end relies on only grows. All streams being shorter than the
sequence space, a sequence number names one byte, and the modular comparisons of
the code are comparisons of places in the stream.

`ConnectionImplements`: the mapping takes what was written and read as it is, and
the end of the stream as reported when the FIN is accepted and all was read. A
segment or an acknowledgement that arrives maps to a stutter, unless it is the FIN
and everything was read.

`TrimAndAck`: one case for each way in which window and segment are split by the
wrap. `StreamReadInOrder`: `Ready` says that the first piece starts at the next
byte of the stream, the second at the start of the buffer and only if the first
reaches its end, and that the events not handled yet continue them (`Placed`); so
an event either continues the last piece or starts the second at place 0.
`NoByteLost`: `Tiles` says that blocks are pairwise apart and every byte is in
one; taking a block whole or its front, putting one back and absorbing a neighbour
each keep it (`TakeWhole`, `TakeFront`, `PutBack`, `Absorb`).

`LookupFindsHolds`: `Listed` says that every registered flow that did not stray has
an entry in its neighbourhood, also between the stores of a move, and `Allocating`
what `flow_slot_alloc` knows when it goes on. A lookup under way has the entry of
its flow ahead of it or in the slot it just read (`Reader`); a move copies upwards
before it clears, so no step of the slow path takes it away (`Kept`).

`ClockExact`: `TimersOK` says that list and queue hold each armed timeout once, with
the deadline that its stamp stands for, that the list is in the order of the
deadlines, and that those in the queue are over. All deadlines are within half the
clock, so differences of stamps tell their order.

`NobodySleepsOn`: a sender notifies only if its last time stamp is older than the
poll cycle. While the receiver counts the time it had nothing to do (`Counting`),
the last entry of every sender is still unread, was read in this round, or is at
least as old as that count, up to the lateness of both sides (`Seen`, `ReadNow`,
`Slack`). So when the count exceeds the cycle and the receiver finds a queue empty
in its last round (`Passed`), the next entry there comes with a notification or
comes within `Margin` of falling asleep (`WillNotify`).

`Bounded`: between reading a budget and adding to it only cores act, and they
only spend (`SpendStep`). So the budget is never above the value read
(`ReadAbove`), and what is added was limited against that value (`AddedLemma`).

`KrxOrder`, `KtxOrder`: `RingOK` says that the slots in use are exactly those from
the consumer's to the producer's position and hold consecutive entries. `Put`
and `Take` keep it, `Intact` draws the property from it, and `Processing` adds
that the packet being processed is the first of its ring.

*Only model-checked:*

* liveness, which like `ENABLED` is outside the prover's reach;
* `AccountsAgree` and `QueuesIntact`, which sum over queues and follow linked
  lists: what a fold computes for every length needs induction over data;
* `OneOwner`, which counts the places of a buffer in two circular arrays;
* `RingUntilMet`, `ProxiesServe`, `ContextsServed`, `AppRingsServed`,
  `EveryContextServed`: their invariants are parts of properties that are mostly
  liveness;
* `WellFormed`, `ResourcesConserved`, `TablesConsistent`, `ViewsAgree` of
  `SlowPath` and `NeverAborts`, `RefcntExact`, `EventsSeen` of `Sockets`: their
  operators fold over queues and lists, or are recursive, as the code is.

## Not modelled

* The GRE variants of fast and slow path (`VIRTUOSO_GRE`): the same control with
  other headers and an answer of OVS instead of ARP.
* Scaling the number of cores (`loadmon`, `poll_scale`): a heuristic on load
  measurements. Its effect, changed steering, is `Steer` in `FastPath`.
* The linked list of pending bumps of several connections (`lib/tas/conn.c:170`),
  and the reuse of a flow slot with the old out-of-order state (`nicif.c:277`).
* An application that exits while it has contexts (`appif.c:738` frees what the
  other thread uses), a guest that restarts, limits of tables that the code does
  not check.
* How long a thread sleeps (`kernel.c:247`, `tas_qman_next_ts`).
* DPDK and NIC set-up, vfio, kni, mapping of shared memory, configuration, libc
  interposition, tracing, statistics and tools: I/O without concurrent state.
