----------------------------- MODULE MC_Sockets -----------------------------
(***************************************************************************)
(* Programs for the sockets library.  The first socket of a thread gets    *)
(* descriptor 1; with a backlog of one, the first connection a listener    *)
(* accepts is descriptor 2.                                                *)
(***************************************************************************)
EXTENDS Sockets

C(op, fd) == [Call EXCEPT !.op = op, !.fd = fd]
Epoll1(ctl, fd, mask) == [C("ctl", 2) EXCEPT !.ctl = ctl, !.arg = fd, !.mask = mask]
NonBlocking(c) == [c EXCEPT !.wait = FALSE]
PollLinux == NonBlocking([C("poll", 0) EXCEPT !.arg = 1])
Only(p) == [t \in Threads |-> IF t = 1 THEN p ELSE <<>>]

Client ==
  <<C("socket", 0), C("connect", 1), C("send", 1), C("sendmsg", 1),
    C("setsockopt", 1), C("send", 1), C("sendmsg", 1), C("recv", 1), C("shutdown", 1),
    C("recvmsg", 1), C("getpeername", 1), PollLinux>>

AsyncClient ==
  <<NonBlocking(C("socket", 0)), C("epoll_create", 0), C("connect", 1),
    Epoll1("add", 1, {"in", "out"}), [C("epoll_wait", 2) EXCEPT !.max = 2],
    C("getsockopt", 1), C("recv", 1), Epoll1("mod", 1, {"in"}),
    [C("epoll_wait", 2) EXCEPT !.max = 2], C("recv", 1), Epoll1("del", 1, {}), PollLinux>>

Server ==
  <<C("socket", 0), C("epoll_create", 0), C("listen", 1), Epoll1("add", 1, {"in"}),
    Epoll1("add", 0, {}), C("epoll_wait", 2), C("epoll_wait", 2), NonBlocking(C("fcntl", 1)),
    C("accept", 1), Epoll1("add", 3, {"in"}), C("epoll_wait", 2), C("recv", 3),
    [C("dup", 3) EXCEPT !.arg = 5], C("close", 3), C("recv", 5), C("close", 5), PollLinux>>

Poller ==
  <<C("socket", 0), C("listen", 1), [C("accept", 1) EXCEPT !.addr = TRUE],
    C("getsockname", 2),
    [C("poll", 2) EXCEPT !.mask = {"in"}, !.arg = 1], C("recv", 2),
    C("epoll_create", 0), NonBlocking(C("epoll_wait", 4)), C("close", 4), C("close", 2), PollLinux>>

\* The one thread accepts, the other one speaks first.
Acceptor == <<C("socket", 0), C("listen", 1), C("accept", 1), PollLinux>>
Worker == <<C("send", 2), C("recv", 2), C("close", 2), PollLinux>>

\* A client that closes with a transmit buffer which may be full.
Sender == <<C("socket", 0), C("connect", 1), C("send", 1), C("send", 1), C("send", 1),
            C("close", 1), PollLinux>>

\* One thread listens, the other one accepts and wants the address.
Listener == <<C("socket", 0), C("listen", 1), PollLinux>>
Addressee == <<[C("accept", 1) EXCEPT !.addr = TRUE], PollLinux>>

Program(run, polite, conns, data, linux) ==
  [run |-> run, polite |-> polite, conns |-> conns, data |-> data, linux |-> linux]

MCPrograms ==
  {Program(Only(Client), TRUE, 0, 2, FALSE),
   Program(Only(AsyncClient), FALSE, 0, 2, FALSE),
   Program(Only(Server), FALSE, 1, 2, TRUE),
   Program(Only(Poller), FALSE, 1, 2, TRUE),
   Program([t \in Threads |-> IF t = 1 THEN Acceptor ELSE Worker], TRUE, 1, 1, FALSE),
   Program(Only(Sender), TRUE, 0, 0, FALSE),
   Program([t \in Threads |-> IF t = 1 THEN Listener ELSE Addressee], TRUE, 2, 0, FALSE)}
-----------------------------------------------------------------------------
\* context.c, epoll.c: a socket that can be read has the event, and an epoll that
\* waits for an event of a socket has it among its active ones.
EventsSeen == ReadyIsSeen /\ ReadyIsActive

\* control.c, transfer.c, epoll.c, poll.c: every call returns, and a socket that
\* was closed is freed.
CallsComplete == CallsReturn /\ CloseFrees
=============================================================================
