---------------------------- MODULE SlowPath ----------------------------
(***************************************************************************)
(* The slow path and the applications' library around it.                  *)
(*                                                                         *)
(* k is the slow path (SlowState, SlowTcp), u the library's connections    *)
(* and listeners (conn.c, init.c of lib/tas).  The slow path is one thread *)
(* that polls its inputs in turn; a poll may find nothing, so its handlers *)
(* are actions in any order.  Applications call the library and poll for   *)
(* events at any time; peers send any packet their side of the protocol    *)
(* allows, and the network may lose or repeat it.                          *)
(***************************************************************************)
EXTENDS SlowTcp

CONSTANTS
  Plans,       \* what applications and peers do: operations they may call (ops), and how
               \* many flow ids others leave to them (flows)
  MaxDrops,    \* bound: SYNs that a listener drops before peers stop to send them
  InitHints    \* where the search for ephemeral ports may start

VARIABLES
  plan,   \* the plan of this behaviour
  k,      \* slow path
  u       \* library: the application's connections and listeners

vars == <<plan, k, u>>

CONN_CLOSED == "closed"

\* struct flextcp_connection, or a listener: connection_init clears it.
connection_init == [st |-> CONN_CLOSED, rem |-> "none", inrem |-> NoIp, lport |-> 0, used |-> TRUE]

LibConn == [st : {CONN_CLOSED, "open_req", "accept_req", "open", "close_req", "listen_req", "listening"},
            rem : Remotes \cup {"none"}, inrem : {NoIp} \cup {IpOf[r] : r \in Remotes},
            lport : 0..MaxPort, used : BOOLEAN]

Init ==
  /\ plan \in Plans
  /\ \E h \in InitHints :
       k = [conn |-> [c \in ConnIds |-> NoConn], ht |-> <<>>, appc |-> <<>>, cc |-> {}, asyncq |-> <<>>,
            ports |-> [p \in 0..MaxPort |-> [t |-> "unused"]], hint |-> h,
            lst |-> [l \in LstIds |-> NoLst],
            arp |-> [a \in Hosts |-> [st |-> "none", w |-> <<>>, tries |-> 0]],
            flows |-> [i \in 1..plan.flows |-> i], nic |-> [f \in 1..NumFlows |-> NoFlow],
            bufs |-> NumBufs, kin |-> [x \in Ctxs |-> <<>>], kout |-> [x \in Ctxs |-> <<>>],
            forked |-> <<Min(Ctxs)>>, net |-> {}, dead |-> FALSE,
            err |-> "none", dropped |-> 0]
  /\ u = [o \in Opaques |-> [connection_init EXCEPT !.used = FALSE]]

(***************************************************************************)
(* The library's requests: refused when the queue has no free entry.       *)
(***************************************************************************)
Request(x, m, o, rec, lop, reuse) ==
  k' = [k EXCEPT !.kin[x] = Append(@, [m |-> m, op |-> o, rem |-> rec.rem, inrem |-> rec.inrem,
                                       lport |-> rec.lport, lop |-> lop, reuse |-> reuse])]

kinFree(x) == Len(k.kin[x]) < KinLen

flextcp_connection_open(x, o, r) ==
  /\ <<"open", x, o, r>> \in plan.ops /\ ~u[o].used /\ kinFree(x)
  /\ LET rec == [connection_init EXCEPT !.st = "open_req", !.rem = r, !.inrem = IpOf[r]] IN
     u' = [u EXCEPT ![o] = rec] /\ Request(x, "CONN_OPEN", o, rec, o, FALSE)
  /\ UNCHANGED plan

flextcp_listen_open(x, o, p, reuse) ==
  /\ <<"listen", x, o, p, reuse>> \in plan.ops /\ ~u[o].used /\ kinFree(x)
  /\ LET rec == [connection_init EXCEPT !.st = "listen_req", !.lport = p] IN
     u' = [u EXCEPT ![o] = rec] /\ Request(x, "LISTEN_OPEN", o, rec, o, reuse)
  /\ UNCHANGED plan

flextcp_listen_accept(x, o, lo) ==
  /\ <<"accept", x, o, lo>> \in plan.ops /\ ~u[o].used /\ u[lo].st = "listening" /\ kinFree(x)
  /\ LET rec == [connection_init EXCEPT !.st = "accept_req", !.lport = u[lo].lport] IN
     u' = [u EXCEPT ![o] = rec] /\ Request(x, "ACCEPT_CONN", o, rec, lo, FALSE)
  /\ UNCHANGED plan

flextcp_connection_close(x, o) ==
  /\ <<"close", x, o>> \in plan.ops /\ u[o].st = "open" /\ kinFree(x)
  /\ u' = [u EXCEPT ![o].st = "close_req"]
  /\ Request(x, "CONN_CLOSE", o, u[o], o, FALSE) /\ UNCHANGED plan

flextcp_connection_move(x, o) ==
  /\ <<"move", x, o>> \in plan.ops /\ u[o].st = "open" /\ kinFree(x)
  /\ ~\E f \in 1..NumFlows : k.nic[f] # NoFlow /\ k.nic[f].op = o /\ k.nic[f].db = x
  /\ Request(x, "CONN_MOVE", o, u[o], o, FALSE) /\ UNCHANGED <<plan, u>>

flextcp_listen_move(x, o) ==
  /\ <<"lmove", x, o>> \in plan.ops /\ u[o].st = "listening" /\ kinFree(x)
  /\ \A l \in FindLst(k, o, u[o].lport) : k.lst[l].ctx # x
  /\ Request(x, "LISTEN_MOVE", o, u[o], o, FALSE) /\ UNCHANGED <<plan, u>>

\* The first thing a forked process does with its context.
flextcp_kernel_fork(x) ==
  /\ <<"fork", x>> \in plan.ops /\ ~Contains(k.forked, x) /\ k.kin[x] = <<>>
  /\ \E o \in Opaques : Request(x, "FORK", o, u[o], o, FALSE)
  /\ UNCHANGED <<plan, u>>

\* One message of the queue to the application (flextcp_context_poll).
Event(q, o) ==
  CASE q.m \in {"CONN_OPENED", "ACCEPTED_CONN"} /\ q.status # 0 -> [u[o] EXCEPT !.st = CONN_CLOSED]
    [] q.m = "CONN_OPENED" /\ q.status = 0 -> [u[o] EXCEPT !.st = "open", !.rem = q.rem, !.lport = q.lport]
    [] q.m = "ACCEPTED_CONN" /\ q.status = 0 -> [u[o] EXCEPT !.st = "open", !.rem = q.rem, !.inrem = NoIp]
    [] q.m = "STATUS_LISTEN_OPEN" -> [u[o] EXCEPT !.st = IF q.status = 0 THEN "listening" ELSE CONN_CLOSED]
    [] q.m = "STATUS_CONN_CLOSE" -> [u[o] EXCEPT !.st = CONN_CLOSED]
    [] OTHER -> u[o]

kernel_poll(x) ==
  /\ k.kout[x] # <<>>
  /\ LET q == Head(k.kout[x]) IN u' = [u EXCEPT ![q.op] = Event(q, q.op)]
  /\ k' = [k EXCEPT !.kout[x] = Tail(@)] /\ UNCHANGED plan

(***************************************************************************)
(* The slow path's polls.                                                  *)
(***************************************************************************)
Running == ~k.dead /\ k.err = "none" /\ UNCHANGED <<plan, u>>

AppifPoll(x) ==
  Running /\ ctx_poll_ready(k, x) /\ \E done \in BOOLEAN : k' = appif_ctx_poll(k, x, done)

TcpPoll == Running /\ k.asyncq # <<>> /\ k' = tcp_poll(k)

\* Packets a peer may send: a SYN to a listening port, again if it likes and with the flags
\* of ECN or without, a SYN-ACK or a reset as the answer to a SYN it got, the FIN of a
\* connection that was open.  ts: the packet has a timestamp option.
PeerSends(flags, rem, p, ts) ==
  CASE flags \in {"SYN", "SYNECN"} -> /\ k.ports[p].t \in {"listen", "lmulti"} /\ <<"peer", rem, ts>> \in plan.ops
                                   /\ k.dropped < MaxDrops
    [] flags = "SYNACK" -> <<"SYN", rem, p>> \in k.net
    [] flags = "RST" -> <<"SYN", rem, p>> \in k.net
    [] flags = "FIN" -> \E f \in 1..NumFlows : k.nic[f] # NoFlow /\ k.nic[f].rem = rem /\ k.nic[f].lport = p

\* Packets of flows the fast path knows come here only with a SYN.
process_packet(flags, rem, p, ts) ==
  /\ Running /\ PeerSends(flags, rem, p, ts)
  /\ flags \in {"FIN", "RST"} =>
       ~\E f \in 1..NumFlows : k.nic[f] # NoFlow /\ k.nic[f].rem = rem /\ k.nic[f].lport = p /\ k.nic[f].vis
  /\ k' = tcp_packet(k, rem, p, flags, ts)

ArpReply(h) == Running /\ <<"ARP", h>> \in k.net /\ k' = arp_packet(k, h)

ArpTimeout(h) == Running /\ k.arp[h].st = "pending" /\ k' = arp_timeout(k, h)

TcpTimeout(c) == Running /\ k.conn[c] # NoConn /\ k.conn[c].to # "off" /\ k' = tcp_timeout(k, c)

Next ==
  \/ \E x \in Ctxs, o \in Opaques, r \in Remotes : flextcp_connection_open(x, o, r)
  \/ \E x \in Ctxs, o \in Opaques, p \in 1..MaxPort, b \in BOOLEAN : flextcp_listen_open(x, o, p, b)
  \/ \E x \in Ctxs, o, lo \in Opaques : flextcp_listen_accept(x, o, lo)
  \/ \E x \in Ctxs, o \in Opaques : flextcp_connection_close(x, o)
  \/ \E x \in Ctxs, o \in Opaques : flextcp_connection_move(x, o)
  \/ \E x \in Ctxs, o \in Opaques : flextcp_listen_move(x, o)
  \/ \E x \in Ctxs : flextcp_kernel_fork(x)
  \/ \E x \in Ctxs : kernel_poll(x)
  \/ \E x \in Ctxs : AppifPoll(x)
  \/ TcpPoll
  \/ \E f \in {"SYN", "SYNECN", "SYNACK", "RST", "FIN"}, r \in Remotes, p \in 1..MaxPort, ts \in BOOLEAN :
       process_packet(f, r, p, ts)
  \/ \E h \in Hosts : ArpReply(h)
  \/ \E h \in Hosts : ArpTimeout(h)
  \/ \E c \in ConnIds : TcpTimeout(c)

Spec == Init /\ [][Next]_vars

\* The slow path's loop never stops polling, timers expire, and the
\* application polls every context; it need not call anything, and peers
\* need not answer.
Fairness ==
  /\ \A x \in Ctxs : WF_vars(kernel_poll(x)) /\ WF_vars(AppifPoll(x))
  /\ WF_vars(TcpPoll)
  /\ \A h \in Hosts : WF_vars(ArpTimeout(h))
  /\ \A c \in ConnIds : WF_vars(TcpTimeout(c))

FairSpec == Spec /\ Fairness

(***************************************************************************)
(* Properties.                                                             *)
(***************************************************************************)

\* The slow path has not run into one of the errors it makes when it is out of local ports,
\* when an answer finds the queue of the application full, and when it gives up a
\* connection that is under congestion control: because no flow id is left, or because
\* its SYN comes again without a timestamp.
NoErr == k.err = "none"

Live == {c \in ConnIds : k.conn[c] # NoConn}

TypeOK ==
  /\ \A c \in ConnIds : k.conn[c] = NoConn \/ k.conn[c] \in Conn
  /\ \A l \in LstIds : k.lst[l] = NoLst \/ k.lst[l] \in Listener
  /\ \A f \in 1..NumFlows : k.nic[f] = NoFlow \/ k.nic[f] \in Flow
  /\ \A p \in 0..MaxPort : k.ports[p] \in PortEntry
  /\ \A x \in Ctxs : /\ k.kin[x] \in Seq(KinMsg) /\ Len(k.kin[x]) <= KinLen
                     /\ k.kout[x] \in Seq(KoutMsg) /\ Len(k.kout[x]) <= KoutLen
  /\ u \in [Opaques -> LibConn]

\* No assertion of the slow path fails and no list operation aborts: timers
\* are armed and disarmed in turn, and a connection is always where the
\* code that removes it expects it (tcp.c, appif_ctx.c, cc.c).  The exception is
\* an open that finds no local port (tcp_open: conn_free reads a context not set).
NeverAborts == k.dead => k.err = "ports"

\* A flow id is on the free list, once, or belongs to exactly one live
\* connection: two connections never share a flow's state, and none is
\* lost (flow_id_alloc, flow_id_free and their callers).  The exception is the
\* connection of which a SYN comes again without a timestamp (see NoErr).
FlowIdsOwned ==
  NoErr =>
  /\ \A f \in 1..plan.flows : LET own == {c \in Live : k.conn[c].flow = f}
                           IN Cardinality(own) = IF Contains(k.flows, f) THEN 0 ELSE 1
  /\ IsInjective(k.flows)

\* Packet memory is held by live connections only: every path that gives up
\* a connection returns both of its buffers, and none returns them twice.
BuffersConserved == k.bufs + 2 * Cardinality(Live) = NumBufs

\* No list of the slow path keeps a connection after its memory was freed:
\* hash table, application's list, congestion control, completions, address
\* resolution and accept queues (but for the errors of NoErr).
NoDangling ==
  NoErr =>
  /\ ToSet(k.ht) \cup ToSet(k.appc) \cup k.cc \cup ToSet(k.asyncq) \subseteq Live
  /\ \A h \in Hosts : ToSet(k.arp[h].w) \subseteq Live
  /\ \A l \in LstIds : k.lst[l] # NoLst => ToSet(k.lst[l].wait) \subseteq Live

\* No two registered connections have the same four-tuple, so a packet is
\* never handled for the wrong one (conn_lookup takes the first match).
TupleUnique ==
  \A i, j \in 1..Len(k.ht) : i # j =>
    \/ k.conn[k.ht[i]].rem # k.conn[k.ht[j]].rem \/ k.conn[k.ht[i]].lport # k.conn[k.ht[j]].lport

\* A SYN in the backlog and an accept that waits never face each other: one
\* of tcp_accept and listener_packet has matched them, as long as every SYN could be
\* used: after one that is dropped (no timestamp, no flow id) the next is not tried.
NoStuckBacklog == k.dropped = 0 => \A l \in LstIds : k.lst[l] # NoLst => k.lst[l].backlog = <<>> \/ k.lst[l].wait = <<>>

\* A SYN-ACK leaves only when the fast path already knows the flow: the
\* peer's first data packet, which may follow at once, finds it.
SynAckAfterFlow ==
  [][\A r \in Remotes, p \in 1..MaxPort :
       <<"SYNACK", r, p>> \in k'.net \ k.net =>
         \E f \in 1..NumFlows : k'.nic[f] # NoFlow /\ k'.nic[f].rem = r /\ k'.nic[f].lport = p /\ k'.nic[f].vis]_vars

\* A connection the application has open is open in the slow path too and
\* its flow carries the application's name for it: its buffers are not given
\* to another connection while the application may still read or write them.
\* The exception is the error of NoErr.
AppConnBacked ==
  \A o \in Opaques : u[o].st = "open" /\ NoErr =>
    \E c \in Live : /\ k.conn[c].op = o /\ k.conn[c].st = "OPEN" /\ k.nic[k.conn[c].flow].op = o
                   /\ k.nic[k.conn[c].flow].vis

\* Every answer the slow path queues finds the application's connection in
\* the state that asked for it, and there is one answer to a request (but for the
\* connection that fails after it was opened, see NoErr).
AnswersExpected ==
  LET Asked(m) == CASE m = "CONN_OPENED" -> "open_req" [] m = "ACCEPTED_CONN" -> "accept_req"
                    [] m = "STATUS_CONN_CLOSE" -> "close_req" [] m = "STATUS_LISTEN_OPEN" -> "listen_req"
                    [] OTHER -> "any"
      Answers == {<<x, i>> \in Ctxs \X (1..KoutLen) : i <= Len(k.kout[x]) /\ Asked(k.kout[x][i].m) # "any"}
      Msg(a) == k.kout[a[1]][a[2]]
  IN NoErr /\ Len(k.forked) = 1 =>
       /\ \A a \in Answers : u[Msg(a).op].st = Asked(Msg(a).m)
       /\ \A a, b \in Answers : Msg(a).op = Msg(b).op => a = b

\* Every request to open a connection is answered: whatever the address
\* resolution and the peer do, retries are bounded (tcp_timeout,
\* arp_timeout), if the slow path does not run into the errors of NoErr.
OpenAnswered == \A o \in Opaques : u[o].st = "open_req" ~> u[o].st # "open_req" \/ ~NoErr

\* Every request to close a connection is answered, likewise.
CloseAnswered == \A o \in Opaques : u[o].st = "close_req" ~> u[o].st # "close_req" \/ ~NoErr

\* Once the application is told that its connection is closed, the slow
\* path has no open connection left for it.
ClosedIsClosed ==
  \A o \in Opaques : u[o].used /\ u[o].st = CONN_CLOSED =>
    ~\E c \in Live : k.conn[c].op = o /\ k.conn[c].st = "OPEN"
=============================================================================
