------------------------------ MODULE SockState ------------------------------
(***************************************************************************)
(* The state of the sockets library (lib/sockets) and the operations on    *)
(* file handles (manage_fd.c) and on the lists of the epolls (epoll.c).    *)
(* The state is one record k; an operator f(k, ...) is the state after the *)
(* function f.  An epoll_socket is named by its epoll and its socket, of   *)
(* which there is at most one.  Below the sockets, k.c keeps what libtas   *)
(* knows of a connection.                                                  *)
(***************************************************************************)
EXTENDS Naturals, Sequences, FiniteSets, FiniteSetsExt

CONSTANTS Threads, SockIds, FdIds, EpIds,
          BacklogLen,  \* entries of the backlog of a listener
          TxLen,       \* bytes of a transmit buffer
          None

Sock == [type |-> "none", status |-> "none", st |-> {}, refcnt |-> 0,
         lock |-> None, nonblock |-> FALSE, evs |-> {}, eps |-> {},
         listener |-> None, rx |-> 0, ctx |-> None, move |-> "none",
         backlog |-> <<>>]
Conn == [st |-> "none", ctx |-> None, home |-> None, tx |-> 0, unbumped |-> 0,
         acked |-> 0, eos |-> "no", fin |-> FALSE, data |-> 0, heard |-> FALSE,
         bump |-> None, moves |-> {}]
Epoll == [active |-> <<>>, inactive |-> <<>>, mask |-> [s \in SockIds |-> {}],
          num_tas |-> 0, num_active |-> 0, refcnt |-> 0, lock |-> None,
          num_linux |-> 0, linux_next |-> FALSE]

Without(q, x) == SelectSeq(q, LAMBDA y : y # x)

\* The process ends, or what follows is undefined: why is said for the cases in which the
\* code is known to do so.
Dies(k, why) == [k EXCEPT !.dead = why]
Die(k) == Dies(k, "abort")
Assert(k, cond) == IF cond THEN k ELSE Die(k)
-----------------------------------------------------------------------------
FreeFds(k) == {fd \in FdIds : k.fh[fd] = None}
FreeSocks(k) == {s \in SockIds : k.so[s].type = "none"}
salloc_ok(k) == FreeFds(k) # {} /\ FreeSocks(k) # {}
NewFd(k) == Min(FreeFds(k))
NewSock(k) == Min(FreeSocks(k))

flextcp_fd_salloc(k, t) ==
  LET s == NewSock(k)
  IN [k EXCEPT !.fh[NewFd(k)] = s,
               !.so[s] = [Sock EXCEPT !.type = "socket", !.refcnt = 1, !.lock = t]]

flextcp_fd_ealloc(k, e, fd) ==
  [k EXCEPT !.fh[fd] = e, !.ep[e] = [Epoll EXCEPT !.refcnt = 1]]

\* The lookups lock what they find.
IsSock(k, fd) == k.fh[fd] \in SockIds
IsEpoll(k, fd) == k.fh[fd] \in EpIds
slookup_ok(k, fd) == IsSock(k, fd) => k.so[k.fh[fd]].lock = None
elookup_ok(k, fd) == IsEpoll(k, fd) => k.ep[k.fh[fd]].lock = None

flextcp_fd_close(k, fd) ==
  IF IsSock(k, fd)
  THEN [k EXCEPT !.so[k.fh[fd]].refcnt = @ - 1, !.fh[fd] = None]
  ELSE [k EXCEPT !.ep[k.fh[fd]].refcnt = @ - 1, !.fh[fd] = None]
-----------------------------------------------------------------------------
es_remove_inactive(k, e, s) == [k EXCEPT !.ep[e].inactive = Without(@, s)]
es_add_inactive(k, e, s) == [k EXCEPT !.ep[e].inactive = <<s>> \o @]

es_remove_active(k, e, s) ==
  Assert([k EXCEPT !.ep[e].active = Without(@, s), !.ep[e].num_active = @ - 1],
         k.ep[e].num_active > 0)

es_add_active(k, e, s) ==
  [k EXCEPT !.ep[e].active = Append(@, s), !.ep[e].num_active = @ + 1]

IsActive(k, e, s) == \E i \in DOMAIN k.ep[e].active : k.ep[e].active[i] = s

es_activate(k, e, s) ==
  IF IsActive(k, e, s) THEN k
  ELSE es_add_active(es_remove_inactive(k, e, s), e, s)

es_deactivate(k, e, s) ==
  IF ~ IsActive(k, e, s) THEN k
  ELSE es_add_inactive(es_remove_active(k, e, s), e, s)

es_active_pushback(k, e, s) == es_add_active(es_remove_active(k, e, s), e, s)

es_remove_ep(k, e, s) ==
  IF IsActive(k, e, s) THEN es_remove_active(k, e, s)
  ELSE es_remove_inactive(k, e, s)

es_remove_sock(k, e, s) == [k EXCEPT !.so[s].eps = @ \ {e}]

Unbind(k, e, s) ==
  [es_remove_ep(es_remove_sock(k, e, s), e, s) EXCEPT !.ep[e].mask[s] = {}]

Matches(k, e, s) == k.so[s].evs \cap k.ep[e].mask[s] # {}

flextcp_epoll_set(k, s, evts) ==
  LET new == evts \ k.so[s].evs
      u == [k EXCEPT !.so[s].evs = @ \cup evts]
  IN IF new = {} THEN k
     ELSE FoldSet(LAMBDA e, a : es_activate(a, e, s), u,
                  {e \in k.so[s].eps : new \cap k.ep[e].mask[s] # {}})

flextcp_epoll_clear(k, s, evts) == [k EXCEPT !.so[s].evs = @ \ evts]

flextcp_epoll_sockclose(k, s) ==
  FoldSet(LAMBDA e, a : Unbind(a, e, s), k, k.so[s].eps)

\* The epoll is freed.
flextcp_epoll_destroy(k, e) ==
  LET u == FoldSet(LAMBDA s, a : Unbind(a, e, s), k,
                   {s \in SockIds : e \in k.so[s].eps})
  IN [u EXCEPT !.ep[e] = Epoll]
=============================================================================
