------------------------------ MODULE Sockets -------------------------------
(***************************************************************************)
(* Applications on the sockets library.  Every thread runs a program, a    *)
(* sequence of calls; its context gets the answers of the slow path and    *)
(* what the fast path reports of its connections.  A program names the     *)
(* descriptors it uses, and a call waits until the application has been    *)
(* given its descriptor.  A server that hands connections from thread to   *)
(* thread is two programs.                                                 *)
(***************************************************************************)
EXTENDS SockCalls

CONSTANTS Programs,  \* records of run (thread -> calls), polite (the peers only
                     \* answer), conns (connections that arrive), data (pieces
                     \* of data each peer sends), linux (its descriptor gets ready)
          FullOps    \* calls that may find no room for a request to the slow path

VARIABLE k

vars == <<k>>

Init ==
  \E p \in Programs :
    k = [fh |-> [fd \in FdIds |-> None], so |-> [s \in SockIds |-> Sock],
         c |-> [s \in SockIds |-> Conn], ep |-> [e \in EpIds |-> Epoll],
         evq |-> [t \in Threads |-> <<>>], th |-> [t \in Threads |-> Idle],
         script |-> p.run, p |-> [p EXCEPT !.run = <<>>], out |-> {},
         linux |-> FALSE, dead |-> "no"]

Outcomes(op) == [full : {FALSE} \cup {op \in FullOps}, n : 1 .. 2, mark : BOOLEAN]
-----------------------------------------------------------------------------
\* The descriptors of the call are locked by no one.
Free(fd) == fd \in k.out /\ slookup_ok(k, fd) /\ elookup_ok(k, fd)

\* The choice x fits the state: no more is copied than there is.  A send has
\* one piece of data.
Fits(s, op, x) ==
  IF op \in {"recv", "recvmsg"}
  THEN IF k.so[s].rx = 0 THEN x.n = 1 ELSE x.n <= k.so[s].rx
  ELSE x.n = 1 /\ x.mark

Moving == {"shutdown", "fcntl", "getsockopt", "setsockopt", "getsockname",
           "getpeername", "recv", "recvmsg", "send", "sendmsg"}

\* The state after thread t has entered the call c.
Enter(t, c, x) ==
  LET j == [k EXCEPT !.script[t] = Tail(@)]
      o == k.fh[c.fd]
      f == [Idle EXCEPT !.call = c, !.s = o, !.e = o]
  IN CASE c.op \in Moving -> tas_sock_move(j, t, f, x)
       [] c.op = "connect" -> tas_connect(j, t, f, x)
       [] c.op = "listen" -> tas_listen(j, t, f, x)
       [] c.op = "accept" -> AcceptLoop(j, t, f, x)
       [] c.op = "close" -> [CloseAt(j, t, c.fd, x) EXCEPT !.out = @ \ {c.fd}]
       [] c.op = "dup" -> Returns(internal_dup3(j, t, c.fd, c.arg, x), t, c.arg)
       [] c.op = "ctl" /\ c.arg = 0 -> CtlLinux(j, o, c.ctl)
       [] c.op = "ctl" /\ c.arg # 0 ->
            tas_sock_move(CtlTas(j, t, o, k.fh[c.arg], c.ctl, c.mask), t,
                          [f EXCEPT !.s = k.fh[c.arg]], x)
       [] c.op = "epoll_wait" ->
            IF k.ep[o].num_tas > 0 THEN EpRound(j, t, f)
            ELSE [j EXCEPT !.th[t] = [f EXCEPT !.pc = "linux"]]

\* A program starts its next call on a descriptor.
CallOn(t) ==
  /\ k.th[t].pc = "idle" /\ k.script[t] # <<>>
  /\ LET c == Head(k.script[t])
     IN /\ c.op \notin {"socket", "epoll_create", "poll"}
        /\ Free(c.fd)
        /\ c.op \in {"dup", "ctl"} /\ c.arg \in k.out => Free(c.arg)
        /\ c.op = "ctl" /\ c.arg # 0 => c.arg \in k.out
        /\ \E x \in Outcomes(c.op) :
             Fits(k.fh[c.fd], c.op, x) /\ k' = Enter(t, c, x)

\* A program starts a call that makes a descriptor, or a poll.  The last poll
\* of a program is repeated for ever.
CallFresh(t) ==
  /\ k.th[t].pc = "idle" /\ k.script[t] # <<>>
  /\ LET c == Head(k.script[t])
         j == IF c.op = "poll" /\ Len(k.script[t]) = 1 THEN k
              ELSE [k EXCEPT !.script[t] = Tail(@)]
     IN \/ c.op = "socket" /\ k' = tas_socket(j, t, ~ c.wait)
        \/ c.op = "epoll_create" /\ k' = tas_epoll_create1(j, t)
        \/ /\ c.op = "poll" /\ (c.fd # 0 => Free(c.fd))
           /\ k' = PollCtx(j, t, [Idle EXCEPT !.call = c])

\* One event of the batch of thread t.
Handle(t) ==
  LET f == k.th[t] IN
  /\ f.pc = "poll" /\ f.evs # <<>> /\ EventReady(k, Head(f.evs))
  /\ k' = HandleEvent([k EXCEPT !.th[t].evs = Tail(@)], t, Head(f.evs), FALSE)

\* All events are handled: the call takes its locks again and goes on.
Resume(t) ==
  LET f == k.th[t] IN
  /\ f.pc = "poll" /\ f.evs = <<>>
  /\ f.s \in SockIds => k.so[f.s].lock = None
  /\ f.e \in EpIds => k.ep[f.e].lock = None
  /\ \E x \in Outcomes(f.call.op) :
       /\ Fits(f.s, f.call.op, x)
       /\ k' = CASE f.moving -> MoveLoop(k, t, f, x)
                 [] ~ f.moving /\ f.call.op = "connect" -> ConnectLoop(k, t, f)
                 [] ~ f.moving /\ f.call.op = "listen" -> ListenLoop(k, t, f, x)
                 [] ~ f.moving /\ f.call.op = "accept" -> AcceptLoop(k, t, f, x)
                 [] ~ f.moving /\ f.call.op \in {"recv", "recvmsg"} -> RecvLoop(k, t, f, x)
                 [] ~ f.moving /\ f.call.op \in {"send", "sendmsg"} -> SendLoop(k, t, f, x)
                 [] ~ f.moving /\ f.call.op = "getsockopt" -> Return(k, t)
                 [] ~ f.moving /\ f.call.op = "epoll_wait" -> EpScan(k, t, f)
                 [] ~ f.moving /\ f.call.op = "poll" -> PollRound(k, t, f)

PollAgain(t) ==
  LET f == k.th[t]
  IN k' = IF f.call.op = "epoll_wait" THEN EpRound(k, t, f) ELSE PollCtx(k, t, f)

\* flextcp_context_wait returns, or the wait of tas_epoll_wait or tas_poll on
\* the context and on Linux.
Wake(t) ==
  LET f == k.th[t] IN
  /\ f.pc = "wait"
  /\ \/ k.evq[t] # <<>>
     \/ /\ k.linux
        /\ \/ f.call.op = "epoll_wait" /\ k.ep[f.e].num_linux > 0
           \/ f.call.op = "poll" /\ f.call.arg = 1
  /\ PollAgain(t)

\* The context may not wait yet (flextcp_context_canwait): the call only polls.
Spin(t) == k.th[t].pc = "wait" /\ PollAgain(t)

Scan(t) ==
  LET f == k.th[t] IN
  \/ f.pc = "pick" /\ k' = EpPick(k, t, f)
  \/ f.pc = "look" /\ k.so[f.s].lock = None /\ k' = EpLook(k, t, f)
  \/ f.pc = "scanned" /\ k' = EpDone(k, t, f)

\* The epoll had no sockets: the thread waits in Linux.
LinuxWait(t) ==
  k.th[t].pc = "linux" /\ (k.linux \/ ~ k.th[t].call.wait) /\ k' = Return(k, t)
-----------------------------------------------------------------------------
Tell(j, t, x) == [j EXCEPT !.evq[t] = Append(@, x)]

\* The slow path answers a listen or an open.
Answer(s) ==
  \/ /\ k.c[s].st = "listening"
     /\ \E ok \in BOOLEAN :
          k' = Tell([k EXCEPT !.c[s].st = IF ok THEN "listen" ELSE "failed"],
                    k.c[s].home, Ev("listen_open", s, ok))
  \/ /\ k.c[s].st = "opening"
     /\ \E ok \in BOOLEAN :
          k' = Tell([k EXCEPT !.c[s].st = IF ok THEN "open" ELSE "failed"],
                    k.c[s].home, Ev("conn_open", s, ok))

\* A connection arrives: the oldest accept request of its listener is answered.
Accepted(l) ==
  LET asked == {i \in DOMAIN k.so[l].backlog :
                  k.c[k.so[l].backlog[i].s].st = "accepting"}
      s == k.so[l].backlog[Min(asked)].s
  IN /\ k.c[l].st = "listen" /\ asked # {} /\ k.p.conns > 0
     /\ k' = Tell([k EXCEPT !.c[s].st = "open", !.p.conns = @ - 1], k.c[s].home,
                  Ev("listen_accept", s, TRUE))

\* A move is answered.  Only connections that were accepted can be moved: the
\* slow path does not find the others.
Moved(s) ==
  \E t \in k.c[s].moves :
    LET u == [k EXCEPT !.c[s].moves = @ \ {t}]
        ok == k.so[s].listener # None /\ k.c[s].st = "open"
    IN k' = IF k.so[s].type = "listener"
            THEN Tell(u, t, Ev("listen_moved", s, TRUE))
            ELSE Tell([u EXCEPT !.c[s].ctx = IF ok THEN t ELSE @], t,
                      Ev("conn_moved", s, ok))

Closed(s) ==
  /\ k.c[s].st = "closing"
  /\ k' = Tell([k EXCEPT !.c[s].st = "closed"], k.c[s].home, Ev("conn_closed", s, TRUE))

\* All that the fast path was told of is acknowledged.
Acked(s) ==
  LET n == k.c[s].tx - k.c[s].unbumped - k.c[s].acked
  IN /\ k.c[s].st = "open" /\ n > 0
     /\ k' = Tell([k EXCEPT !.c[s].acked = @ + n, !.c[s].heard = TRUE], k.c[s].ctx,
                  [Ev("acked", s, TRUE) EXCEPT !.n = n])

\* A polite peer answers only.
PeerTurn(s) ==
  /\ k.c[s].st = "open" /\ ~ k.c[s].fin
  /\ k.p.polite => k.c[s].heard /\ k.c[s].tx = k.c[s].acked

Data(s) ==
  /\ PeerTurn(s) /\ k.c[s].data < k.p.data
  /\ k' = Tell([k EXCEPT !.c[s].data = @ + 1], k.c[s].ctx, Ev("conn_received", s, TRUE))

PeerCloses(s) ==
  /\ PeerTurn(s)
  /\ k' = Tell([k EXCEPT !.c[s].fin = TRUE], k.c[s].ctx, Ev("conn_rxclosed", s, TRUE))

LinuxReady == k.p.linux /\ ~ k.linux /\ k' = [k EXCEPT !.linux = TRUE]
-----------------------------------------------------------------------------
\* The process has not ended.
Alive == k.dead = "no"

Next ==
  \/ \E t \in Threads : Alive /\ CallOn(t)
  \/ \E t \in Threads : Alive /\ CallFresh(t)
  \/ \E t \in Threads : Alive /\ Handle(t)
  \/ \E t \in Threads : Alive /\ Resume(t)
  \/ \E t \in Threads : Alive /\ Wake(t)
  \/ \E t \in Threads : Alive /\ Spin(t)
  \/ \E t \in Threads : Alive /\ Scan(t)
  \/ \E t \in Threads : Alive /\ LinuxWait(t)
  \/ \E s \in SockIds : Alive /\ Answer(s)
  \/ \E l \in SockIds : Alive /\ Accepted(l)
  \/ \E s \in SockIds : Alive /\ Moved(s)
  \/ \E s \in SockIds : Alive /\ Closed(s)
  \/ \E s \in SockIds : Alive /\ Acked(s)
  \/ \E s \in SockIds : Alive /\ Data(s)
  \/ \E s \in SockIds : Alive /\ PeerCloses(s)
  \/ Alive /\ LinuxReady

Spec == Init /\ [][Next]_vars

Thread(t) ==
  \/ CallOn(t) \/ CallFresh(t) \/ Handle(t) \/ Resume(t)
  \/ Wake(t) \/ Scan(t) \/ LinuxWait(t)
Stack(s) == Answer(s) \/ Accepted(s) \/ Moved(s) \/ Closed(s) \/ Acked(s)

\* Threads are scheduled (a thread need not spin, it may sleep), TAS answers every
\* request and acknowledges what it is told, and the peer of a connection closes it
\* some time.
Fairness ==
  /\ \A t \in Threads : WF_vars(Alive /\ Thread(t))
  /\ \A s \in SockIds : WF_vars(Alive /\ Stack(s)) /\ WF_vars(Alive /\ PeerCloses(s))
  /\ WF_vars(Alive /\ LinuxReady)

FairSpec == Spec /\ Fairness
-----------------------------------------------------------------------------
\* No assertion of the sockets library or of libtas fails, nothing aborts, and
\* no event reaches a socket that has been freed: the handlers of context.c and
\* the calls of control.c and transfer.c agree on the states of a socket.  There
\* are two exceptions, errors of the code: a close with a full transmit buffer
\* (the socket is closed when ev_conn_sendbuf expects it connected), and a listen
\* that fails (tas_listen frees the backlog, twice if there was no room for the
\* request, tas_accept4 goes on to use it, and ev_listen_moved expects success).
NeverAborts == k.dead # "abort"

\* A thread that accepts with an address holds the lock of the listener while it
\* waits for the connection to move, and handles events meanwhile: one that
\* accepts another connection needs that lock (tas_accept4, ev_listen_accept).
SelfLocked(t) ==
  /\ k.th[t].pc = "poll" /\ k.th[t].evs # <<>> /\ k.th[t].held # None
  /\ Head(k.th[t].evs).ev = "listen_accept"
  /\ k.so[Head(k.th[t].evs).s].listener = k.th[t].held

\* A thread that sleeps in accept on a connection another thread asked for
\* (enqueue_accept of tas_listen or of an earlier accept): the event arrives at
\* the context of that thread, and flextcp_context_wait of this one sleeps on.
\* So it does when the listen it did not wait for fails.
Deaf(t) ==
  LET f == k.th[t] IN
  /\ f.pc = "wait" /\ f.call.op = "accept" /\ ~ f.moving
  /\ k.c[Head(k.so[f.s].backlog).s].ctx # t \/ "freed" \in k.so[f.s].st

\* The known ways in which a process ends or hangs.
Ended == ~ Alive \/ \E t \in Threads : SelfLocked(t)

\* A socket or epoll has as many references as descriptors name it
\* (manage_fd.c: refcnt), so it is closed with the last one.
RefcntExact ==
  /\ \A s \in SockIds : k.so[s].type \notin {"none", "freed", "lost"} =>
       k.so[s].refcnt = Cardinality({fd \in FdIds : k.fh[fd] = s})
  /\ \A e \in EpIds : k.ep[e].refcnt = Cardinality({fd \in FdIds : k.fh[fd] = e})

\* A socket with an event an epoll waits for is on the list of active sockets
\* of that epoll, where tas_epoll_wait looks (epoll.c: flextcp_epoll_set,
\* tas_epoll_ctl and ep_poll_tas keep the lists).
ReadyIsActive ==
  \A e \in EpIds, s \in SockIds :
    /\ (e \in k.so[s].eps) = (s \in Range(k.ep[e].active) \cup Range(k.ep[e].inactive))
    /\ e \in k.so[s].eps /\ Matches(k, e, s) => IsActive(k, e, s)

\* A socket that can be read, and a listener with a connection to accept, has
\* the event EPOLLIN: what recv, accept and the handlers clear and set.
ReadyIsSeen ==
  \A s \in SockIds :
    \/ IsConnected(k, s) /\ Readable(k, s)
    \/ k.so[s].type = "listener" /\ ~ Waiting(k, s)
    => "in" \in k.so[s].evs

\* Every call returns: the waits of control.c, transfer.c, epoll.c and poll.c
\* end, although the thread only wakes up for events of its own context.  The
\* exceptions are those of NeverAborts, SelfLocked and Deaf.
CallsReturn == \A t \in Threads : []<>(k.th[t].pc = "idle" \/ Deaf(t) \/ Ended)

\* A socket that was closed is freed, however its end and that of the peer are
\* ordered, as long as its thread polls (control.c: conn_close; context.c).  One
\* whose connect failed has no transmit buffer: flextcp_conn_pushtxeos waits for
\* room in it, so that socket is never freed.
CloseFrees ==
  \A s \in SockIds :
    k.so[s].status = "closed" ~> k.so[s].type = "freed" \/ k.c[s].st = "failed" \/ Ended
=============================================================================
