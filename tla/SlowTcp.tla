---------------------------- MODULE SlowTcp ----------------------------
(***************************************************************************)
(* Connection setup and teardown in the slow path (tcp.c), with the        *)
(* address resolution (arp.c, routing.c) it waits for, and the requests of *)
(* the applications (appif_ctx.c).                                         *)
(***************************************************************************)
EXTENDS SlowState

(***************************************************************************)
(* Routing and address resolution.                                         *)
(***************************************************************************)

\* The first matching entry; 0 when there is none.
resolve(ip) ==
  LET m == {i \in 1..Len(Routes) : ip \in Routes[i].net} IN IF m = {} THEN 0 ELSE Min(m)

\* Follow next hops until a directly connected address; NoIp: no route.
RECURSIVE routing_resolve(_)
routing_resolve(ip) ==
  IF resolve(ip) = 0 THEN NoIp
  ELSE IF Routes[resolve(ip)].hop = NoIp THEN ip ELSE routing_resolve(Routes[resolve(ip)].hop)

\* Only an address already resolved needs no completion.
arp_known(k, h) == k.arp[h].st = "done"

\* The request joins the entry's waiting list, or creates the entry, sends
\* a request and arms the timer (armed as long as the entry is pending).
arp_request(k, c, h) ==
  IF k.arp[h].st = "pending" THEN [k EXCEPT !.arp[h].w = <<c>> \o @]
  ELSE nicif_tx([k EXCEPT !.arp[h] = [st |-> "pending", w |-> <<c>>, tries |-> 0]], <<"ARP", h>>)

\* Mutation of arp_notify: only the newest waiting connection is told.
arp_notify_first(k, h, status) ==
  IF k.arp[h].w = <<>> THEN k
  ELSE nbqueue_enq([k EXCEPT !.conn[Head(k.arp[h].w)].comp = status], Head(k.arp[h].w))

\* Every waiting connection gets the outcome and is queued for tcp_poll.
arp_notify(k, h, status) ==
  FoldLeft(LAMBDA s, c : nbqueue_enq([s EXCEPT !.conn[c].comp = status], c), k, k.arp[h].w)

\* A reply: the entry is ready and its waiting list is passed on.  Replies
\* nobody asked for find no entry.
arp_packet(k, h) ==
  IF k.arp[h].st = "none" THEN k
  ELSE [arp_notify(k, h, 0) EXCEPT !.arp[h] = [st |-> "done", w |-> <<>>, tries |-> 0]]

\* The timer: ask again with twice the timeout, or give up.
arp_timeout(k, h) ==
  IF k.arp[h].st = "done" THEN Die(k)
  ELSE IF k.arp[h].tries + 1 >= ArpTries
       THEN [arp_notify(k, h, -1) EXCEPT !.arp[h] = [st |-> "none", w |-> <<>>, tries |-> 0]]
       ELSE nicif_tx([k EXCEPT !.arp[h].tries = @ + 1], <<"ARP", h>>)

(***************************************************************************)
(* Opening.                                                                *)
(***************************************************************************)

\* The connection is given up, but not what it has beyond its own memory: one that is under
\* congestion control stays in that list, freed, and a flow id it has is lost.
conn_failed(k, c) ==
  LET k1 == conn_unregister(k, c)
      k2 == IF k.conn[c].to # "off" THEN conn_timeout_disarm(k1, c) ELSE k1
      k3 == appif_conn_opened([k2 EXCEPT !.conn[c].st = "FAILED"], c, -1)
  IN IF c \in k.cc THEN Err(k3, "cc") ELSE k3

conn_arp_done(k, c) ==
  send_control(conn_timeout_arm([k EXCEPT !.conn[c].st = "SYN_SENT", !.conn[c].tries = 0],
                                c, "handshake"), c, "SYN")

NewConn(st, x, op, lport, rem) ==
  [st |-> st, ctx |-> x, op |-> op, lport |-> lport, rem |-> rem, inrem |-> NoIp, flow |-> 0,
   to |-> "off", tries |-> 0, comp |-> 0]

\* Result of a call that can fail: ok is FALSE when it returned an error.
Ok(k) == [ok |-> TRUE, k |-> k]
Failed(k) == [ok |-> FALSE, k |-> k]

\* Running out of ports frees a connection whose context is not yet set.
tcp_open(k, x, op, rem) ==
  IF ~conn_alloc_ok(k) THEN Failed(k) ELSE
  LET c == conn_alloc_id(k)
      p == port_alloc(k)
      k1 == [conn_alloc(k, c, NewConn("ARP_PENDING", x, op, p, rem)) EXCEPT !.hint = port_next(p)]
      h == routing_resolve(IpOf[rem])
      k2 == IF arp_known(k, h) THEN conn_arp_done(conn_register(k1, c), c)
            ELSE conn_register(arp_request(k1, c, h), c)
  IN IF p = 0 THEN Failed(Err(Die(k), "ports"))
     ELSE IF h = NoIp THEN Failed(conn_free(k1, c))
     ELSE Ok([k2 EXCEPT !.ports[p] = [t |-> "conn", c |-> c]])

\* Mutation of conn_syn_sent_packet: the handshake timer keeps running.
syn_sent_timer(k, c, flags, ts) ==
  IF flags # "SYNACK" \/ ~ts THEN conn_failed(conn_timeout_disarm(k, c), c)
  ELSE LET k1 == cc_conn_init(k, c) IN
       IF ~nicif_connection_add_ok(k1) THEN conn_failed(k1, c)
       ELSE appif_conn_opened(send_control([nicif_connection_add(k1, c)
              EXCEPT !.conn[c].st = "OPEN"], c, "ACK"), c, 0)

\* A packet for a connection that sent its SYN: anything but a SYN-ACK with
\* a timestamp fails the connection.
conn_syn_sent_packet(k, c, flags, ts) ==
  LET k0 == conn_timeout_disarm(k, c)
      k1 == cc_conn_init(k0, c)
  IN IF flags # "SYNACK" \/ ~ts THEN conn_failed(k0, c)
     ELSE IF ~nicif_connection_add_ok(k1) THEN conn_failed(k1, c)
     ELSE appif_conn_opened(send_control([nicif_connection_add(k1, c)
            EXCEPT !.conn[c].st = "OPEN"], c, "ACK"), c, 0)

conn_reg_synack(k, c) ==
  appif_accept_conn(send_control([k EXCEPT !.conn[c].st = "OPEN"], c, "SYNACK"), c)

\* One completion, and the loop over all of them.
poll_one(k, c) ==
  CASE k.conn[c].st = "ARP_PENDING" ->
         IF k.conn[c].comp # 0 THEN conn_failed(k, c) ELSE conn_arp_done(k, c)
    [] k.conn[c].st = "REG_SYNACK" ->
         IF k.conn[c].comp # 0 THEN conn_failed(k, c) ELSE conn_reg_synack(k, c)
    [] OTHER -> k

tcp_poll(k) == FoldLeft(poll_one, [k EXCEPT !.asyncq = <<>>], k.asyncq)

(***************************************************************************)
(* Listening and accepting.                                                *)
(***************************************************************************)
tcp_listen(k, x, op, p, reuse) ==
  LET free == {l \in LstIds : k.lst[l] = NoLst}
      l == CHOOSE m \in free : \A n \in free : m <= n
      k1 == [k EXCEPT !.lst[l] = [ctx |-> x, op |-> op, port |-> p, backlog |-> <<>>, wait |-> <<>>]]
      e == k.ports[p]
  IN IF free = {} \/ (~reuse /\ e.t # "unused") \/ (reuse /\ e.t \notin {"unused", "lmulti"})
          \/ (e.t = "lmulti" /\ Len(e.ls) = ListenMultiMax)
     THEN Failed(k)
     ELSE Ok([k1 EXCEPT !.ports[p] = IF ~reuse THEN [t |-> "listen", l |-> l]
                                     ELSE IF e.t = "unused" THEN [t |-> "lmulti", ls |-> <<l>>]
                                     ELSE [e EXCEPT !.ls = Append(@, l)]])

\* The first waiting accept takes the first SYN of the backlog.  A SYN that
\* cannot be used is dropped (k.dropped counts them) and the accept keeps waiting.
listener_accept(k, l) ==
  LET c == Head(k.lst[l].wait)
      syn == Head(k.lst[l].backlog)
      k1 == [k EXCEPT !.lst[l].backlog = Tail(@)]
      k2 == cc_conn_init([k1 EXCEPT !.conn[c].rem = syn.rem, !.conn[c].st = "REG_SYNACK"], c)
      k3 == [nicif_connection_add(k2, c) EXCEPT !.lst[l].wait = Tail(@)]
  IN IF k.lst[l].wait = <<>> \/ k.lst[l].backlog = <<>> THEN Die(k)
     ELSE IF ~syn.ts THEN [k1 EXCEPT !.dropped = @ + 1]
     ELSE IF ~nicif_connection_add_ok(k2) THEN [k2 EXCEPT !.dropped = @ + 1]
     ELSE nbqueue_enq(conn_register(k3, c), c)

tcp_accept(k, x, op, l) ==
  IF ~conn_alloc_ok(k) THEN Failed(k) ELSE
  LET c == conn_alloc_id(k)
      k1 == [conn_alloc(k, c, NewConn("SYN_WAIT", x, op, k.lst[l].port, "none")) EXCEPT
               !.lst[l].wait = Append(@, c)]
  IN Ok(IF k.lst[l].backlog # <<>> THEN listener_accept(k1, l) ELSE k1)

\* Several listeners of one port share it by the hash of the remote end.
listener_lookup(k, rem, p) ==
  CASE k.ports[p].t = "listen" -> {k.ports[p].l}
    [] k.ports[p].t = "lmulti" -> {k.ports[p].ls[(RemHash[rem] % Len(k.ports[p].ls)) + 1]}
    [] OTHER -> {}

\* A SYN, with the flags of ECN or without, joins the backlog unless it is there already
\* or the backlog is full.
listener_packet(k, l, rem, flags, ts) ==
  LET k1 == appif_listen_newconn([k EXCEPT !.lst[l].backlog = Append(@, [rem |-> rem, ts |-> ts])], l)
  IN IF flags \notin {"SYN", "SYNECN"} THEN send_reset(k, rem, k.lst[l].port)
     ELSE IF (\E i \in DOMAIN k.lst[l].backlog : k.lst[l].backlog[i].rem = rem)
             \/ Len(k.lst[l].backlog) >= BacklogLen THEN k
     ELSE IF k.lst[l].wait # <<>> THEN listener_accept(k1, l) ELSE k1

(***************************************************************************)
(* Packets and timers of connections.                                      *)
(***************************************************************************)

\* A SYN that is sent again for an open connection is answered again, but only one without
\* the flags of ECN; and one without a timestamp fails the connection.
conn_packet(k, c, flags, ts) ==
  CASE k.conn[c].st = "SYN_SENT" -> conn_syn_sent_packet(k, c, flags, ts)
    [] k.conn[c].st = "OPEN" /\ flags = "SYN" ->
         IF ~ts THEN conn_failed(k, c) ELSE send_control(k, c, "SYNACK")
    [] k.conn[c].st = "CLOSED" /\ flags = "FIN" -> send_control(k, c, "ACK")
    [] OTHER -> k

tcp_packet(k, rem, p, flags, ts) ==
  LET cs == conn_lookup(k, rem, p)
      ls == listener_lookup(k, rem, p)
  IN IF cs # <<>> THEN conn_packet(k, Head(cs), flags, ts)
     ELSE IF ls # {} THEN listener_packet(k, CHOOSE l \in ls : TRUE, rem, flags, ts)
     ELSE IF flags # "RST" THEN send_reset(k, rem, p) ELSE k

\* done: both directions of the connection were finished.
tcp_close(k, c, done) ==
  IF k.conn[c].st # "OPEN" THEN Failed(k) ELSE
  LET k1 == nicif_connection_disable(k, k.conn[c].flow)
      k2 == IF done THEN k1 ELSE send_control(k1, c, "RST")
  IN Ok(conn_timeout_arm([cc_conn_remove(k2, c) EXCEPT !.conn[c].st = "CLOSED"], c, "closed"))

\* Mutation of conn_close_timeout: the flow id is freed when the connection
\* was, but the buffers are not.
close_leaks(k, c) ==
  LET p == k.conn[c].lport
      k1 == IF k.ports[p].t = "conn" THEN [k EXCEPT !.ports[p] = [t |-> "unused"]] ELSE k
      k2 == nicif_connection_free(conn_unregister(k1, c), k.conn[c].flow)
  IN [appif_conn_closed(k2, c, 0) EXCEPT !.conn[c] = NoConn]

conn_close_timeout(k, c) ==
  LET p == k.conn[c].lport
      k1 == IF k.ports[p].t = "conn" THEN [k EXCEPT !.ports[p] = [t |-> "unused"]] ELSE k
      k2 == nicif_connection_free(conn_unregister(k1, c), k.conn[c].flow)
  IN conn_free(appif_conn_closed(k2, c, 0), c)

\* The timer of a connection expires, which takes it off the timer list.
tcp_timeout(k, c) ==
  LET k1 == [k EXCEPT !.conn[c].to = "off"]
      k2 == [k1 EXCEPT !.conn[c].tries = @ + 1]
  IN IF k.conn[c].to = "closed" THEN conn_close_timeout(k1, c)
     ELSE IF k.conn[c].st # "SYN_SENT" THEN Die(k)
     ELSE IF k2.conn[c].tries > Retries THEN conn_failed(k2, c)
     ELSE send_control(conn_timeout_arm(k2, c, "handshake"), c, "SYN")
-----------------------------------------------------------------------------
(***************************************************************************)
(* Requests of applications to the slow path: one queue (kin) per context, *)
(* of which a poll takes at most one, and only with room for an answer.    *)
(***************************************************************************)

\* Messages of the queue from the application (struct kernel_appout).
KinMsg == [m : {"CONN_OPEN", "CONN_CLOSE", "CONN_MOVE", "LISTEN_OPEN", "LISTEN_MOVE", "ACCEPT_CONN", "FORK"},
           op : Opaques, rem : Remotes \cup {"none"}, inrem : {NoIp} \cup {IpOf[r] : r \in Remotes},
           lport : 0..MaxPort, lop : Opaques, reuse : BOOLEAN]

kin_conn_open(k, x, q) ==
  LET r == tcp_open(k, x, q.op, q.rem) IN
  IF r.ok THEN [r.k EXCEPT !.appc = <<conn_alloc_id(k)>> \o @]
  ELSE Push(r.k, x, "CONN_OPENED", q.op, -1)

\* Mutation of FindConn: the local port decides.
find_by_port(k, q) == SelectSeq(k.appc, LAMBDA c : k.conn[c].lport = q.lport)

\* Requests name a connection by all of its addresses and ports.
FindConn(k, q) ==
  SelectSeq(k.appc, LAMBDA c : /\ k.conn[c].rem = q.rem /\ k.conn[c].inrem = q.inrem
                               /\ k.conn[c].lport = q.lport /\ k.conn[c].op = q.op)

FindLst(k, op, p) == {l \in LstIds : k.lst[l] # NoLst /\ k.lst[l].port = p /\ k.lst[l].op = op}

kin_conn_close(k, x, q, done) ==
  LET cs == FindConn(k, q)
      r == tcp_close(k, Head(cs), done)
  IN IF cs = <<>> \/ ~r.ok THEN Push(k, x, "STATUS_CONN_CLOSE", q.op, -1) ELSE r.k

kin_conn_move(k, x, q) ==
  LET cs == FindConn(k, q) IN
  IF cs = <<>> \/ k.conn[Head(cs)].st # "OPEN" THEN Push(k, x, "STATUS_CONN_MOVE", q.op, -1)
  ELSE Push(nicif_connection_move(k, k.conn[Head(cs)].flow, x), x, "STATUS_CONN_MOVE", q.op, 0)

kin_listen_open(k, x, q) ==
  LET r == tcp_listen(k, x, q.op, q.lport, q.reuse)
  IN Push(r.k, x, "STATUS_LISTEN_OPEN", q.op, IF r.ok THEN 0 ELSE -1)

kin_listen_move(k, x, q) ==
  LET ls == FindLst(k, q.op, q.lport)
      k1 == [k EXCEPT !.lst = [l \in LstIds |-> IF l \in ls THEN [@[l] EXCEPT !.ctx = x] ELSE @[l]]]
  IN Push(k1, x, "STATUS_LISTEN_MOVE", q.op, IF ls = {} THEN -1 ELSE 0)

kin_accept_conn(k, x, q) ==
  LET ls == FindLst(k, q.lop, q.lport)
      r == tcp_accept(k, x, q.op, CHOOSE l \in ls : TRUE)
  IN IF ls = {} THEN Die(k)
     ELSE IF r.ok THEN r.k ELSE Push(r.k, x, "ACCEPTED_CONN", q.op, -1)

kin_fork(k, x) == [k EXCEPT !.forked = <<x>> \o @]

\* One request of context x, or nothing when there is none or no room.
appif_ctx_poll(k, x, done) ==
  LET q == Head(k.kin[x])
      k1 == [k EXCEPT !.kin[x] = Tail(@)]
  IN CASE q.m = "CONN_OPEN" -> kin_conn_open(k1, x, q)
       [] q.m = "CONN_CLOSE" -> kin_conn_close(k1, x, q, done)
       [] q.m = "CONN_MOVE" -> kin_conn_move(k1, x, q)
       [] q.m = "LISTEN_OPEN" -> kin_listen_open(k1, x, q)
       [] q.m = "LISTEN_MOVE" -> kin_listen_move(k1, x, q)
       [] q.m = "ACCEPT_CONN" -> kin_accept_conn(k1, x, q)
       [] q.m = "FORK" -> kin_fork(k1, x)

ctx_poll_ready(k, x) == ~koutFull(k, x) /\ k.kin[x] # <<>>
=============================================================================
