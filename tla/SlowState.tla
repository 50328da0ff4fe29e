---------------------------- MODULE SlowState ----------------------------
(***************************************************************************)
(* The state of the slow path that outlives one call, as one record k, and *)
(* the helpers of its subsystems that the TCP code calls: packet buffers,  *)
(* flow ids and flow state of the fast path, the congestion control list,  *)
(* the queue of completions, timers, the packets it sends, and what it     *)
(* tells applications.                                                     *)
(*                                                                         *)
(* The slow path is one thread, so a C function is an operator from the    *)
(* state before to the state after.  A failed assert, an abort() or a use  *)
(* of a null pointer sets k.dead.                                          *)
(***************************************************************************)
EXTENDS Integers, Sequences, FiniteSets, SequencesExt

CONSTANTS
  ConnIds,      \* memory for struct connection
  LstIds,       \* memory for struct listener
  Ctxs,         \* application contexts, each with its doorbell
  Opaques,      \* the applications' names of connections and listeners
  Remotes,      \* remote endpoints: address and port
  Hosts,        \* addresses the address resolution is asked for
  Routes,       \* the routing table
  IpOf,         \* the address of a remote endpoint
  RemHash,      \* hash of a remote endpoint, for SO_REUSEPORT
  MaxPort,      \* PORT_MAX
  PortFirstEph, \* PORT_FIRST_EPH
  NumFlows,     \* FLEXNIC_PL_FLOWST_NUM
  NumBufs,      \* payload buffers in packet memory
  KinLen, KoutLen, BacklogLen, ListenMultiMax,
  Retries,      \* config.tcp_handshake_retries
  ArpTries      \* doublings of config.arp_to below config.arp_to_max

NoConn == [st |-> "free"]
NoLst == [port |-> 0]
NoFlow == [op |-> 0]
NoIp == "0"

ConnStatus == {"SYN_WAIT", "ARP_PENDING", "SYN_SENT", "REG_SYNACK", "OPEN", "CLOSED", "FAILED"}

\* struct connection.  The peer is rem; inrem is in_remote_ip, which only
\* the build with tunnels fills in.
Conn == [st : ConnStatus, ctx : Ctxs, op : Opaques, lport : 0..MaxPort,
         rem : Remotes \cup {"none"}, inrem : {NoIp}, flow : 0..NumFlows,
         to : {"off", "handshake", "closed"}, tries : 0..Retries + 1, comp : {0, -1}]

\* struct listener: the backlog holds SYN packets, with a timestamp option or
\* without, wait the connections of accept calls that are still waiting for one.
Listener == [ctx : Ctxs, op : Opaques, port : 1..MaxPort,
             backlog : Seq([rem : Remotes, ts : BOOLEAN]), wait : Seq(ConnIds)]

\* struct flextcp_pl_flowst as far as the slow path sets it up: vis says
\* that the flow table has an entry for it, db is its doorbell.
Flow == [op : Opaques, rem : Remotes, lport : 1..MaxPort, db : Ctxs, vis : BOOLEAN]

\* Entries of ports[]: the type is in the low bits of the pointer.
PortEntry == {[t |-> "unused"]} \cup [t : {"conn"}, c : ConnIds] \cup [t : {"listen"}, l : LstIds]
               \cup [t : {"lmulti"}, ls : Seq(LstIds)]

Die(k) == [k EXCEPT !.dead = TRUE]

\* The code does what it cannot recover from, although nothing stops it there: what follows
\* is undefined, and the model ends.
Err(k, what) == [k EXCEPT !.err = what]

(***************************************************************************)
(* Packets out.  What was sent stays in k.net: the network may lose, delay *)
(* or repeat it, and an allocation that fails in a full queue loses it.    *)
(***************************************************************************)
nicif_tx(k, pkt) == [k EXCEPT !.net = @ \cup {pkt}]

send_control_raw(k, rem, lport, flags) == nicif_tx(k, <<flags, rem, lport>>)

send_control(k, c, flags) == send_control_raw(k, k.conn[c].rem, k.conn[c].lport, flags)

send_reset(k, rem, lport) == send_control_raw(k, rem, lport, "RST")

(***************************************************************************)
(* Connection memory and its two payload buffers.                          *)
(***************************************************************************)
conn_alloc_ok(k) == k.bufs >= 2 /\ \E c \in ConnIds : k.conn[c] = NoConn

conn_alloc_id(k) == CHOOSE c \in ConnIds :
                      k.conn[c] = NoConn /\ \A d \in ConnIds : k.conn[d] = NoConn => c <= d

conn_alloc(k, c, rec) == [k EXCEPT !.conn[c] = rec, !.bufs = @ - 2]

conn_free(k, c) == [k EXCEPT !.conn[c] = NoConn, !.bufs = @ + 2]

(***************************************************************************)
(* Flow ids and flow state.                                                *)
(***************************************************************************)
nicif_connection_add_ok(k) == k.flows # <<>>

nicif_connection_add(k, c) ==
  LET f == Head(k.flows) IN
  [k EXCEPT !.flows = Tail(@), !.conn[c].flow = f,
            !.nic[f] = [op |-> k.conn[c].op, rem |-> k.conn[c].rem, lport |-> k.conn[c].lport,
                        db |-> k.conn[c].ctx, vis |-> TRUE]]

nicif_connection_disable(k, f) == [k EXCEPT !.nic[f].vis = FALSE]

nicif_connection_move(k, f, db) == [k EXCEPT !.nic[f].db = db]

nicif_connection_free(k, f) == [k EXCEPT !.flows = <<f>> \o @, !.nic[f] = NoFlow]

(***************************************************************************)
(* The list of connections under congestion control.  A connection that is *)
(* put in it a second time becomes its own successor.                      *)
(***************************************************************************)
cc_conn_init(k, c) == IF c \in k.cc THEN Err(k, "cc") ELSE [k EXCEPT !.cc = @ \cup {c}]
cc_conn_remove(k, c) == IF c \in k.cc THEN [k EXCEPT !.cc = @ \ {c}] ELSE Die(k)

(***************************************************************************)
(* Completions: nbqueue_enq appends, tcp_poll takes the oldest first.      *)
(***************************************************************************)
nbqueue_enq(k, c) == [k EXCEPT !.asyncq = Append(@, c)]

(***************************************************************************)
(* The timer of a connection.                                              *)
(***************************************************************************)
conn_timeout_arm(k, c, type) ==
  IF k.conn[c].to # "off" THEN Die(k) ELSE [k EXCEPT !.conn[c].to = type]

conn_timeout_disarm(k, c) ==
  IF k.conn[c].to = "off" THEN Die(k) ELSE [k EXCEPT !.conn[c].to = "off"]

(***************************************************************************)
(* The hash table of connections.  Registered connections are looked up by *)
(* their four-tuple; the local address is the same for all of them.        *)
(***************************************************************************)
conn_register(k, c) == [k EXCEPT !.ht = <<c>> \o @]

conn_unregister(k, c) ==
  IF Contains(k.ht, c) THEN [k EXCEPT !.ht = Remove(@, c)] ELSE Die(k)

Matches(k, c, rem, lport) == k.conn[c] # NoConn /\ k.conn[c].rem = rem /\ k.conn[c].lport = lport

conn_lookup(k, rem, lport) == SelectSeq(k.ht, LAMBDA c : Matches(k, c, rem, lport))

\* Local ports are taken in turn from the ephemeral range, starting at the
\* hint; 0 says that none is free.
port_next(p) == IF (p + 1) % (MaxPort + 1) < PortFirstEph THEN PortFirstEph ELSE p + 1

RECURSIVE port_search(_, _, _)
port_search(k, p, start) ==
  IF k.ports[p].t = "unused" THEN p
  ELSE IF port_next(p) = start THEN 0 ELSE port_search(k, port_next(p), start)

port_alloc(k) == port_search(k, k.hint, k.hint)
-----------------------------------------------------------------------------
(***************************************************************************)
(* What the slow path tells an application: one queue (kout) per context,  *)
(* a message at a time.  A function that finds the queue full returns      *)
(* before it does anything else: the answer is lost ("TODO"), and with it  *)
(* what the function would have undone.                                    *)
(***************************************************************************)

\* Messages of the queue to the application (struct kernel_appin).
KoutMsg == [m : {"CONN_OPENED", "ACCEPTED_CONN", "STATUS_CONN_CLOSE", "STATUS_CONN_MOVE",
                 "STATUS_LISTEN_OPEN", "STATUS_LISTEN_MOVE", "LISTEN_NEWCONN"},
            op : Opaques, status : {0, -1}, rem : Remotes \cup {"none"}, lport : 0..MaxPort]

koutFull(k, x) == Len(k.kout[x]) >= KoutLen

Push(k, x, m, op, status) ==
  [k EXCEPT !.kout[x] = Append(@, [m |-> m, op |-> op, status |-> status, rem |-> "none", lport |-> 0])]

PushConn(k, x, m, c) ==
  [k EXCEPT !.kout[x] = Append(@, [m |-> m, op |-> k.conn[c].op, status |-> 0,
                                   rem |-> k.conn[c].rem, lport |-> k.conn[c].lport])]

\* Taking a connection off the application's list aborts when it is not there.
app_conns_remove(k, c) ==
  IF Contains(k.appc, c) THEN [k EXCEPT !.appc = Remove(@, c)] ELSE Die(k)

tcp_destroy(k, c) == IF k.conn[c].st = "FAILED" THEN conn_free(k, c) ELSE Die(k)

\* Mutation of appif_conn_opened: a failed connection is freed but stays on
\* the application's list.
conn_opened_stays(k, c, status) ==
  LET x == k.conn[c].ctx IN
  IF koutFull(k, x) THEN Err(k, "kout")
  ELSE IF status = 0 THEN PushConn(k, x, "CONN_OPENED", c)
  ELSE Push(tcp_destroy(k, c), x, "CONN_OPENED", k.conn[c].op, status)

\* The answer to an open request; a failed connection is destroyed here.
appif_conn_opened(k, c, status) ==
  LET x == k.conn[c].ctx IN
  IF koutFull(k, x) THEN Err(k, "kout")
  ELSE IF status = 0 THEN PushConn(k, x, "CONN_OPENED", c)
  ELSE Push(tcp_destroy(app_conns_remove(k, c), c), x, "CONN_OPENED", k.conn[c].op, status)

\* The answer to a close request, when the connection's state is given up.
appif_conn_closed(k, c, status) ==
  LET x == k.conn[c].ctx IN
  IF koutFull(k, x) THEN Err(k, "kout")
  ELSE app_conns_remove(Push(k, x, "STATUS_CONN_CLOSE", k.conn[c].op, status), c)

appif_listen_newconn(k, l) ==
  IF koutFull(k, k.lst[l].ctx) THEN k ELSE Push(k, k.lst[l].ctx, "LISTEN_NEWCONN", k.lst[l].op, 0)

\* The answer to an accept request goes to every forked context in turn, and
\* the connection joins the application's list once all have it.
appif_accept_conn(k, c) ==
  LET full == {i \in 1..Len(k.forked) : koutFull(k, k.forked[i])}
      told == IF full = {} THEN k.forked ELSE SubSeq(k.forked, 1, Min(full) - 1)
      k1 == FoldLeft(LAMBDA s, x : PushConn(s, x, "ACCEPTED_CONN", c), k, told)
  IN IF full = {} THEN [k1 EXCEPT !.appc = <<c>> \o @] ELSE Err(k1, "kout")
=============================================================================
