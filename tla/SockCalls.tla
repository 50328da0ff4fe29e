----------------------------- MODULE SockCalls ------------------------------
(***************************************************************************)
(* The calls of the sockets library (lib/sockets: control.c, transfer.c,   *)
(* epoll.c, poll.c, manage_fd.c).  A call runs with the locks it takes     *)
(* until it returns or has to wait; while it waits, its thread holds no    *)
(* lock on the socket and handles the events of its own context.  The      *)
(* frame k.th[t] says in which call thread t is and what it waits for.     *)
(*                                                                         *)
(* x is the record of the choices that the code below the sockets makes:   *)
(* full (no room for a request to the slow path), n (bytes copied) and     *)
(* mark (enough was read for a bump).                                      *)
(***************************************************************************)
EXTENDS SockEvents

Call == [op |-> "none", fd |-> 0, arg |-> 0, mask |-> {}, max |-> 1,
         ctl |-> "none", wait |-> TRUE, addr |-> FALSE]
Idle == [call |-> Call, s |-> None, e |-> None, fd |-> 0, pc |-> "idle",
         evs |-> <<>>, num |-> 0, n |-> 0, again |-> FALSE, held |-> None,
         moving |-> FALSE, lin |-> "none"]

Return(k, t) == [k EXCEPT !.th[t] = Idle]
Returns(k, t, fd) == [k EXCEPT !.th[t] = Idle, !.out = @ \cup {fd}]

\* conns_bump of libtas: every connection in the list of the context is told
\* to the fast path.
conns_bump(k, t) ==
  [Assert(k, \A s \in SockIds : k.c[s].bump = t => k.c[s].st = "open")
     EXCEPT !.c = [s \in SockIds |->
       IF k.c[s].bump = t THEN [k.c[s] EXCEPT !.unbumped = 0, !.bump = None]
       ELSE k.c[s]]]

\* flextcp_sockctx_poll begins: the events there are now will be handled.
PollCtx(k, t, f) ==
  conns_bump(Gather([k EXCEPT !.th[t] = [f EXCEPT !.pc = "poll", !.again = TRUE],
                              !.evq[t] = <<>>], t, k.evq[t]), t)

\* The first time a call polls at once, later it waits before.
PollOrWait(k, t, f) ==
  IF f.again THEN [k EXCEPT !.th[t] = [f EXCEPT !.pc = "wait"]]
  ELSE PollCtx(k, t, f)

IsConnected(k, s) == k.so[s].type = "conn" /\ k.so[s].status = "connected"
-----------------------------------------------------------------------------
tas_shutdown(k, t, s) ==
  IF ~ IsConnected(k, s) \/ "txclosed" \in k.so[s].st \/ k.c[s].eos # "no"
  THEN Return(k, t)
  ELSE Return([flextcp_connection_tx_close(k, t, s)
                 EXCEPT !.so[s].st = @ \cup {"txclosed"}], t)

\* Mutation of Readable: the end of the stream is no reason to return.
readable_data(k, s) == k.so[s].rx > 0

Readable(k, s) == k.so[s].rx > 0 \/ "rxclosed" \in k.so[s].st

\* Mutation of RecvLoop: the event is cleared although data is left.
recv_clears(k, t, f, x) ==
  LET u == flextcp_epoll_clear(k, f.s, {"in"})
  IN IF ~ Readable(k, f.s) THEN PollOrWait(u, t, f)
     ELSE Return([u EXCEPT !.so[f.s].rx = IF @ = 0 THEN 0 ELSE @ - x.n], t)

\* recv_simple and tas_recvmsg from the loop that waits for data
RecvLoop(k, t, f, x) ==
  LET s == f.s
      u == [k EXCEPT !.so[s].rx = @ - x.n]
      v == IF Readable(u, s) THEN u ELSE flextcp_epoll_clear(u, s, {"in"})
  IN IF Readable(k, s)
     THEN IF k.so[s].rx = 0 THEN Return(k, t)
          ELSE Return(IF x.mark THEN conn_mark_bump(v, t, s) ELSE v, t)
     ELSE IF f.again /\ k.so[s].nonblock THEN Return(k, t)
     ELSE PollOrWait(flextcp_epoll_clear(k, s, {"in"}), t, f)

TxAvail(k, s) == TxLen - k.c[s].tx

\* send_simple and tas_sendmsg from the allocation of the transmit buffer.
\* The allocation fails for good once the transmit side is closed.
SendLoop(k, t, f, x) ==
  LET s == f.s
  IN IF k.c[s].eos # "no" THEN Die(Return(k, t))
     ELSE IF TxAvail(k, s) > 0
     THEN Return(conn_mark_bump([k EXCEPT !.c[s].tx = @ + x.n,
                                          !.c[s].unbumped = @ + x.n], t, s), t)
     ELSE IF f.again /\ k.so[s].nonblock THEN Return(k, t)
     ELSE PollOrWait(k, t, f)

\* tas_recvmsg and tas_sendmsg scatter and gather what recv_simple and
\* send_simple copy in one piece.
tas_recvmsg(k, t, f, x) ==
  IF IsConnected(k, f.s) THEN RecvLoop(k, t, f, x) ELSE Return(k, t)
recv_simple(k, t, f, x) ==
  IF IsConnected(k, f.s) THEN RecvLoop(k, t, f, x) ELSE Return(k, t)

CanSend(k, s) == IsConnected(k, s) /\ "txclosed" \notin k.so[s].st
tas_sendmsg(k, t, f, x) ==
  IF CanSend(k, f.s) THEN SendLoop(k, t, f, x) ELSE Return(k, t)
send_simple(k, t, f, x) ==
  IF CanSend(k, f.s) THEN SendLoop(k, t, f, x) ELSE Return(k, t)

tas_fcntl(k, t, f) == Return([k EXCEPT !.so[f.s].nonblock = f.call.wait = FALSE], t)

\* Of the options only the error of a socket needs the events of the context.
tas_getsockopt(k, t, f) ==
  IF k.so[f.s].type = "conn" /\ k.so[f.s].status = "connecting"
  THEN PollCtx(k, t, f) ELSE Return(k, t)

\* Options and addresses are data the model leaves out (the flag SO_REUSEPORT only
\* goes into the request of tas_listen).
tas_setsockopt(k, t) == Return(k, t)
tas_getsockname(k, t) == Return(k, t)

\* In tas_accept4 the lock on the listener is held meanwhile.
tas_getpeername(k, t, f) ==
  IF f.held = None THEN Return(k, t)
  ELSE Returns([Assert(k, IsConnected(k, f.s)) EXCEPT !.so[f.held].lock = None], t, f.fd)

\* The rest of a call that begins with tas_sock_move.
Body(k, t, f, x) ==
  CASE f.call.op = "shutdown" -> tas_shutdown(k, t, f.s)
    [] f.call.op = "fcntl" -> tas_fcntl(k, t, f)
    [] f.call.op = "recv" -> recv_simple(k, t, f, x)
    [] f.call.op = "recvmsg" -> tas_recvmsg(k, t, f, x)
    [] f.call.op = "send" -> send_simple(k, t, f, x)
    [] f.call.op = "sendmsg" -> tas_sendmsg(k, t, f, x)
    [] f.call.op = "getsockopt" -> tas_getsockopt(k, t, f)
    [] f.call.op = "setsockopt" -> tas_setsockopt(k, t)
    [] f.call.op = "getsockname" -> tas_getsockname(k, t)
    [] f.call.op \in {"getpeername", "accept"} -> tas_getpeername(k, t, f)
    [] f.call.op = "ctl" -> Return(k, t)

\* The connection is moved to the context of the thread; the call waits for
\* that, and goes on also if the move is refused.
tas_sock_move(k, t, f, x) ==
  IF ~ IsConnected(k, f.s) \/ k.so[f.s].ctx = t \/ x.full
  THEN Body(k, t, f, x)
  ELSE PollCtx([k EXCEPT !.so[f.s].move = "pending", !.c[f.s].moves = @ \cup {t}], t,
               [f EXCEPT !.moving = TRUE])

\* The loop at the end of tas_sock_move.
MoveLoop(k, t, f, x) ==
  IF k.so[f.s].move = "pending" THEN PollOrWait(k, t, f)
  ELSE Body([k EXCEPT !.so[f.s].ctx = IF k.so[f.s].move = "done" THEN t ELSE @],
            t, [f EXCEPT !.moving = FALSE, !.again = FALSE], x)
-----------------------------------------------------------------------------
tas_connect(k, t, f, x) ==
  LET s == f.s
      u == [k EXCEPT !.so[s].type = "conn", !.so[s].status = "connecting",
                     !.so[s].listener = None, !.so[s].rx = 0, !.so[s].ctx = t,
                     !.c[s] = [Conn EXCEPT !.st = "opening", !.ctx = t, !.home = t]]
  IN IF \/ k.so[s].type = "listener"
        \/ k.so[s].type = "conn" /\ k.so[s].status \in {"connected", "connecting"}
        \/ x.full
     THEN Return(k, t)
     ELSE IF k.so[s].nonblock THEN Return(u, t)
     ELSE PollCtx(u, t, f)

ConnectLoop(k, t, f) ==
  IF k.so[f.s].status = "connecting" THEN PollOrWait(k, t, f) ELSE Return(k, t)

\* Accept requests until the backlog is full.  A request that fails leaks the
\* new socket.
RECURSIVE enqueue_accept(_, _, _, _)
enqueue_accept(k, t, l, full) ==
  LET u == flextcp_fd_salloc(k, t)
      ns == NewSock(k)
      fd == NewFd(k)
      v == [u EXCEPT !.so[ns].type = "conn", !.so[ns].status = "connecting",
                     !.so[ns].listener = l, !.so[ns].ctx = t,
                     !.so[ns].lock = None,
                     !.c[ns] = [Conn EXCEPT !.st = "accepting", !.ctx = t, !.home = t],
                     !.so[l].backlog = Append(@, [s |-> ns, fd |-> fd])]
  IN IF Len(k.so[l].backlog) = BacklogLen \/ ~ salloc_ok(k) THEN k
     ELSE IF full THEN [flextcp_fd_close(u, fd) EXCEPT !.so[ns].type = "lost"]
     ELSE enqueue_accept(v, t, l, full)

\* The socket is bound.  When there is no room for the request the backlog is
\* freed twice.
tas_listen(k, t, f, x) ==
  LET s == f.s
  IN IF k.so[s].type # "socket" THEN Return(k, t)
     ELSE IF x.full THEN Dies(k, "listen")
     ELSE PollCtx([k EXCEPT !.so[s].type = "listener", !.so[s].status = "opening",
                            !.so[s].ctx = t,
                            !.c[s] = [Conn EXCEPT !.st = "listening", !.ctx = t, !.home = t]],
                  t, f)

\* A listen that fails later frees the backlog and leaves the listener with it.
ListenLoop(k, t, f, x) ==
  LET u == IF k.so[f.s].status = "failed" THEN k ELSE enqueue_accept(k, t, f.s, x.full)
  IN IF k.so[f.s].status = "opening" THEN PollOrWait(k, t, f)
     ELSE IF k.so[f.s].status = "failed" \/ u.so[f.s].backlog = <<>>
     THEN Return([u EXCEPT !.so[f.s].st = {"freed"}], t)
     ELSE Return(u, t)

BacklogHead(k, l) == Head(k.so[l].backlog).s
Waiting(k, l) == k.so[l].backlog = <<>> \/ k.so[BacklogHead(k, l)].status = "connecting"

\* The connection at the head of the backlog is handed out.  If its address is
\* wanted it is moved to this context, with the lock on the listener held.
AcceptReady(k, t, f, x) ==
  LET l == f.s
      b == Head(k.so[l].backlog)
      u == enqueue_accept([Assert(k, k.so[b.s].status = "connected")
                             EXCEPT !.so[l].backlog = Tail(@)], t, l, x.full)
      v == IF Waiting(u, l) THEN flextcp_epoll_clear(u, l, {"in"}) ELSE u
  IN IF ~ f.call.addr THEN Returns(v, t, b.fd)
     ELSE tas_sock_move([v EXCEPT !.so[l].lock = t], t,
                        [f EXCEPT !.s = b.s, !.fd = b.fd, !.held = l,
                                  !.again = FALSE], x)

\* tas_accept4, from the beginning of the loop.  The backlog may be one that listen freed.
AcceptLoop(k, t, f, x) ==
  LET u == IF k.so[f.s].backlog = <<>> THEN enqueue_accept(k, t, f.s, x.full) ELSE k
  IN IF k.so[f.s].type = "listener" /\ "freed" \in k.so[f.s].st THEN Dies(k, "listen")
     ELSE IF k.so[f.s].type # "listener" \/ u.so[f.s].backlog = <<>> THEN Return(u, t)
     ELSE IF ~ Waiting(u, f.s) THEN AcceptReady(u, t, f, x)
     ELSE IF k.so[f.s].nonblock THEN Return(u, t)
     ELSE PollOrWait(u, t, f)

tas_socket(k, t, nonblock) ==
  IF ~ salloc_ok(k) THEN Return(k, t)
  ELSE Returns([flextcp_fd_salloc(k, t) EXCEPT !.so[NewSock(k)].lock = None,
                                              !.so[NewSock(k)].nonblock = nonblock],
               t, NewFd(k))

\* tas_close: the descriptor is given up, and with the last one the socket.
CloseAt(k, t, fd, x) ==
  LET o == k.fh[fd]
      u == flextcp_fd_close(k, fd)
  IN IF IsSock(k, fd)
     THEN IF u.so[o].refcnt # 0 THEN u
          ELSE tas_sock_close([u EXCEPT !.so[o].lock = t], t, o, x.full)
     ELSE IF u.ep[o].refcnt # 0 THEN u ELSE flextcp_epoll_destroy(u, o)

\* Mutation of internal_dup3: the new descriptor is not counted.
dup_uncounted(k, t, oldfd, newfd, x) ==
  LET u == IF k.fh[newfd] = None THEN k ELSE CloseAt(k, t, newfd, x)
  IN [u EXCEPT !.fh[newfd] = u.fh[oldfd]]

\* internal_dup3, for tas_dup and tas_dup2.  The lock of an epoll that is
\* duplicated is not released.
internal_dup3(k, t, oldfd, newfd, x) ==
  LET u == IF k.fh[newfd] = None THEN k ELSE CloseAt(k, t, newfd, x)
      o == u.fh[oldfd]
      v == [u EXCEPT !.fh[newfd] = o]
  IN IF IsSock(u, oldfd) THEN [v EXCEPT !.so[o].refcnt = @ + 1]
     ELSE [v EXCEPT !.ep[o].refcnt = @ + 1, !.ep[o].lock = t]
-----------------------------------------------------------------------------
tas_epoll_create1(k, t) ==
  LET free == {e \in EpIds : k.ep[e].refcnt = 0}
  IN IF FreeFds(k) = {} \/ free = {} THEN Return(k, t)
     ELSE Returns(flextcp_fd_ealloc(k, Min(free), NewFd(k)), t, NewFd(k))

\* Descriptors of Linux are only counted.
CtlLinux(k, e, op) ==
  [k EXCEPT !.ep[e].num_linux = IF op = "add" THEN @ + 1 ELSE @ - 1]

CtlTas(k, t, e, s, op, mask) ==
  LET on == e \in k.so[s].eps
      c == [k EXCEPT !.ep[e].num_tas = IF op = "add" THEN @ + 1
                                       ELSE IF op = "del" THEN @ - 1 ELSE @]
      m == [c EXCEPT !.ep[e].mask[s] = mask \cup {"err"}]
      a == es_add_inactive(
             [m EXCEPT !.so[s].eps = @ \cup {e},
                       !.c[s].moves = IF k.so[s].type = "listener"
                                      THEN @ \cup {t} ELSE @],
             e, s)
      activated(u) == IF Matches(u, e, s) THEN es_activate(u, e, s) ELSE u
  IN CASE op = "add" -> IF on THEN c ELSE activated(a)
       [] op = "mod" -> IF on THEN activated(m) ELSE c
       [] op = "del" -> IF on THEN Unbind(c, e, s) ELSE c

\* A round of tas_epoll_wait begins.  The descriptors of Linux are polled first
\* or last, in turn, if there is room for their events; only when Linux has
\* filled all of it the sockets are not polled.
EpRound(k, t, f) ==
  LET lin == IF k.ep[f.e].num_linux = 0 THEN "none"
             ELSE IF k.ep[f.e].linux_next THEN "first" ELSE "last"
      g == [f EXCEPT !.lin = lin, !.n = IF lin = "first" /\ k.linux THEN 1 ELSE 0]
  IN IF g.n = f.call.max THEN [k EXCEPT !.th[t] = [g EXCEPT !.pc = "scanned"]]
     ELSE PollCtx(k, t, g)

\* ep_poll_tas after its poll: the epoll is locked again.
EpScan(k, t, f) ==
  [k EXCEPT !.th[t] = [f EXCEPT !.pc = "pick", !.num = k.ep[f.e].num_active],
            !.ep[f.e].lock = t]

\* One iteration of the loop of ep_poll_tas: pc "pick" takes the first active
\* socket, pc "look" locks it and looks at its events.
EpPick(k, t, f) ==
  IF f.num = 0 \/ f.n = f.call.max \/ k.ep[f.e].active = <<>>
  THEN [k EXCEPT !.th[t].pc = "scanned"]
  ELSE [k EXCEPT !.th[t].s = Head(k.ep[f.e].active), !.th[t].pc = "look"]

EpLook(k, t, f) ==
  LET u == [Assert(k, f.e \in k.so[f.s].eps)
              EXCEPT !.th[t].pc = "pick", !.th[t].num = @ - 1]
  IN IF Matches(k, f.e, f.s)
     THEN [es_active_pushback(u, f.e, f.s) EXCEPT !.th[t].n = @ + 1]
     ELSE es_deactivate(u, f.e, f.s)

\* The end of a round of tas_epoll_wait, and whether the thread may block.
EpDone(k, t, f) ==
  LET lin == IF f.lin = "last" /\ f.n < f.call.max /\ k.linux THEN 1 ELSE 0
      u == [k EXCEPT !.ep[f.e].lock = None,
                     !.ep[f.e].linux_next = IF f.lin = "none" THEN @ ELSE f.lin = "last"]
  IN IF f.n + lin > 0 \/ ~ f.call.wait THEN Return(u, t)
     ELSE [u EXCEPT !.th[t].pc = "wait"]

\* tas_poll and tas_select: a socket fd, if it is one, and with arg = 1 a
\* descriptor of Linux.  With none of sockets Linux is asked directly.
PollRound(k, t, f) ==
  LET fd == f.call.fd
      ready == fd # 0 /\ k.so[k.fh[fd]].evs \cap f.call.mask # {}
  IN IF ready \/ (f.call.arg = 1 /\ k.linux) \/ ~ f.call.wait THEN Return(k, t)
     ELSE [k EXCEPT !.th[t].pc = "wait"]
=============================================================================
