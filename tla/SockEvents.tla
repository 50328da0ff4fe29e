----------------------------- MODULE SockEvents -----------------------------
(***************************************************************************)
(* The handlers of the sockets library for the events of a context         *)
(* (lib/sockets/context.c), and the closing of connections (control.c),    *)
(* which is finished by events.                                            *)
(***************************************************************************)
EXTENDS SockState

\* flextcp_connection_close of libtas: the connection must be in the list of
\* bumps of this context, or in none.  full: there is no room for the request,
\* and the connection is leaked.  The answer goes to the context in which the
\* connection was accepted, or to this one if it was not accepted.
flextcp_sockclose_finish(k, t, s, full) ==
  IF k.c[s].bump \notin {None, t} THEN Die(k)
  ELSE [k EXCEPT !.c[s].bump = None, !.c[s].st = IF full THEN "leaked" ELSE "closing",
                 !.c[s].home = IF k.so[s].listener = None THEN t ELSE @]

conn_mark_bump(k, t, s) ==
  [k EXCEPT !.c[s].bump = IF @ = None THEN t ELSE @]

\* The end of the stream takes one byte of the transmit buffer.
flextcp_conn_pushtxeos(k, t, s) ==
  IF k.c[s].st # "open" \/ k.c[s].tx = TxLen THEN k
  ELSE conn_mark_bump([k EXCEPT !.c[s].tx = @ + 1, !.c[s].unbumped = @ + 1,
                                !.c[s].eos = "pushed"], t, s)

flextcp_connection_tx_close(k, t, s) ==
  flextcp_conn_pushtxeos([k EXCEPT !.c[s].eos = "asked"], t, s)

\* The lock on s is held by the caller, and released here.
conn_close(k, t, s, full) ==
  LET u == [k EXCEPT !.so[s].status = "closed", !.so[s].lock = None]
      st == k.so[s].st
  IN IF {"txclosed_ack", "rxclosed"} \subseteq st
     THEN flextcp_sockclose_finish(u, t, s, full)
     ELSE IF "txclosed" \notin st
     THEN [Assert(flextcp_connection_tx_close(u, t, s), k.c[s].eos = "no")
             EXCEPT !.so[s].st = @ \cup {"txclosed"}]
     ELSE u

\* The socket is not referred to by any file descriptor any more.  A listener
\* is leaked with its lock held.
tas_sock_close(k, t, s, full) ==
  LET u == flextcp_epoll_sockclose(Assert(k, k.so[s].refcnt = 0), s)
  IN IF k.so[s].type = "conn" THEN conn_close(u, t, s, full)
     ELSE IF k.so[s].type = "socket" THEN [u EXCEPT !.so[s].type = "freed"]
     ELSE u
-----------------------------------------------------------------------------
ev_listen_open(k, s, ok) ==
  [Assert(k, k.so[s].type = "listener" /\ k.so[s].status = "opening")
     EXCEPT !.so[s].status = IF ok THEN "open" ELSE "failed"]

\* An accept is only answered when it succeeds.
ev_listen_accept(k, s) ==
  LET u == flextcp_epoll_set(Assert(k, k.so[s].status = "connecting"),
                             k.so[s].listener, {"in"})
  IN flextcp_epoll_set([u EXCEPT !.so[s].status = "connected"], s, {"out"})

\* A listener is moved even if its listen failed (epoll.c).
ev_listen_moved(k, s) ==
  IF k.so[s].status = "failed" THEN Dies(k, "listen")
  ELSE [Assert(k, k.so[s].type = "listener" /\ k.so[s].status = "open")
          EXCEPT !.so[s].move = "done"]

ev_conn_open(k, s, ok) ==
  LET u == Assert(k, k.so[s].type = "conn" /\ k.so[s].status = "connecting")
  IN IF ok
     THEN flextcp_epoll_set([u EXCEPT !.so[s].status = "connected"], s, {"out"})
     ELSE flextcp_epoll_set([u EXCEPT !.so[s].status = "failed"], s, {"err"})

\* Mutation of ev_conn_received: data may also arrive after the close.
received_when_connected(k, s) ==
  flextcp_epoll_set([Assert(k, k.so[s].status = "connected")
                       EXCEPT !.so[s].rx = @ + 1], s, {"in"})

ev_conn_received(k, s) ==
  IF k.so[s].status = "closed" THEN k
  ELSE flextcp_epoll_set([Assert(k, k.so[s].status = "connected")
                            EXCEPT !.so[s].rx = @ + 1], s, {"in"})

\* A socket that is being closed gets this event too, if the close found the transmit
\* buffer full; the assertion fails then.
ev_conn_sendbuf(k, s) ==
  IF k.so[s].status = "closed" THEN Dies(k, "sendbuf")
  ELSE flextcp_epoll_set(Assert(k, k.so[s].status = "connected"), s, {"out"})

ev_conn_moved(k, s, ok) ==
  [Assert(k, k.so[s].status = "connected")
     EXCEPT !.so[s].move = IF ok THEN "done" ELSE "refused"]

\* When the socket is being closed and both directions are closed now, the
\* close is finished.
ClosedBothWays(k, s) ==
  /\ k.so[s].status = "closed"
  /\ {"txclosed_ack", "rxclosed"} \subseteq k.so[s].st

ev_conn_rxclosed(k, t, s, full) ==
  LET u == flextcp_epoll_set([Assert(k, k.so[s].status \in {"connected", "closed"})
                                EXCEPT !.so[s].st = @ \cup {"rxclosed"}],
                             s, {"in", "rdhup"})
  IN IF ClosedBothWays(u, s) THEN flextcp_sockclose_finish(u, t, s, full) ELSE u

ev_conn_txclosed(k, t, s, full) ==
  LET u == [Assert(k, k.so[s].status \in {"connected", "closed"})
              EXCEPT !.so[s].st = @ \cup {"txclosed_ack"}]
  IN IF ClosedBothWays(u, s) THEN flextcp_sockclose_finish(u, t, s, full) ELSE u

ev_conn_closed(k, s) ==
  [Assert(k, k.so[s].status = "closed") EXCEPT !.so[s].type = "freed"]

\* flextcp_sockctx_poll: one event x of the context of t.  Its socket must not
\* have been freed.
HandleEvent(k0, t, x, full) ==
  LET k == Assert(k0, k0.so[x.s].type # "freed")
  IN CASE x.ev = "listen_open" -> ev_listen_open(k, x.s, x.ok)
       [] x.ev = "listen_accept" -> ev_listen_accept(k, x.s)
       [] x.ev = "listen_moved" -> ev_listen_moved(k, x.s)
       [] x.ev = "conn_open" -> ev_conn_open(k, x.s, x.ok)
       [] x.ev = "conn_received" -> ev_conn_received(k, x.s)
       [] x.ev = "conn_sendbuf" -> ev_conn_sendbuf(k, x.s)
       [] x.ev = "conn_moved" -> ev_conn_moved(k, x.s, x.ok)
       [] x.ev = "conn_rxclosed" -> ev_conn_rxclosed(k, t, x.s, full)
       [] x.ev = "conn_txclosed" -> ev_conn_txclosed(k, t, x.s, full)
       [] x.ev = "conn_closed" -> ev_conn_closed(k, x.s)

\* The locks that the handler of x takes are free.
EventReady(k, x) ==
  /\ k.so[x.s].lock = None
  /\ x.ev = "listen_accept" => k.so[k.so[x.s].listener].lock = None
-----------------------------------------------------------------------------
Ev(name, s, ok) == [ev |-> name, s |-> s, ok |-> ok, n |-> 0]

\* event_arx_connupdate of libtas: acknowledged bytes leave the transmit buffer.
\* There is an event if the buffer was full, and one when the end of the
\* stream is acknowledged; an end that had no room before is pushed now.
Acknowledge(k, t, x) ==
  LET c == k.c[x.s]
      u == [k EXCEPT !.c[x.s].tx = @ - x.n, !.c[x.s].acked = @ - x.n,
                     !.th[t].evs = IF c.tx = TxLen
                                   THEN Append(@, Ev("conn_sendbuf", x.s, TRUE)) ELSE @]
  IN CASE c.eos = "asked" -> flextcp_conn_pushtxeos(u, t, x.s)
       [] c.eos = "pushed" /\ c.tx = x.n ->
            [u EXCEPT !.c[x.s].eos = "acked",
                      !.th[t].evs = Append(@, Ev("conn_txclosed", x.s, TRUE))]
       [] OTHER -> u

\* What the fast path says of a connection that is being closed is dropped.
Translate(k, t, x) ==
  CASE x.ev \in {"acked", "conn_received", "conn_rxclosed"} /\ k.c[x.s].st # "open" -> k
    [] x.ev = "acked" /\ k.c[x.s].st = "open" -> Acknowledge(k, t, x)
    [] OTHER -> [k EXCEPT !.th[t].evs = Append(@, x)]

\* flextcp_context_poll: the entries of the queues of the context become events.
RECURSIVE Gather(_, _, _)
Gather(k, t, q) == IF q = <<>> THEN k ELSE Gather(Translate(k, t, Head(q)), t, Tail(q))
=============================================================================
