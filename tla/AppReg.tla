-------------------------------- MODULE AppReg -------------------------------
(***************************************************************************)
(* How an application gets a context (tas/slow/appif.c, lib/tas/kernel.c,  *)
(* lib/tas/init.c, lib/sockets/context.c): a thread of the application     *)
(* sends a request over the application's one socket; the slow path's      *)
(* socket thread allocates the context and hands it to the slow path's     *)
(* main thread, which registers it with the fast path and hands it back;   *)
(* the socket thread then answers.  The two threads share the application  *)
(* structs and pass them through the queues ux_to_poll and poll_to_ux; an  *)
(* eventfd wakes the socket thread.                                        *)
(*                                                                         *)
(* The limits of doorbells, applications and contexts are not reached      *)
(* here, and an application with contexts does not exit: in both cases     *)
(* uxsocket_error frees contexts the main thread goes on to poll.          *)
(***************************************************************************)
EXTENDS Integers, Sequences, FiniteSets

CONSTANTS RegApps,     \* applications
          RegThreads,  \* threads: pairs of an application and a number
          Quitters     \* applications that may exit before their first request

VARIABLES rapp,        \* the applications' structs and sockets
          thr,         \* the threads: step, the doorbell of the answer
          mutex,       \* context_init_mutex of each application
          uxpc,        \* the socket thread: its step and the application
          listen,      \* connections waiting for accept
          ux_to_poll, poll_to_ux,
          notifyfd,    \* written by the main thread, read by the socket thread
          poll,        \* the main thread: applications, those left in this round
          free_db,     \* the next free doorbell
          nic          \* what nicif_appctx_add registered: doorbell and eventfd

regVars == <<rapp, thr, mutex, uxpc, listen, ux_to_poll, poll_to_ux, notifyfd, poll,
             free_db, nic>>

NoThread == <<"none", 0>>
NoRegApp == "none"

Init ==
  /\ rapp = [a \in RegApps |-> [st |-> "new", in |-> <<>>, out |-> <<>>, epin |-> TRUE,
                                ctxs |-> <<>>, need |-> 0, done |-> 0, gone |-> FALSE]]
  /\ thr = [t \in RegThreads |-> [pc |-> "idle", db |-> 0]]
  /\ mutex = [a \in RegApps |-> NoThread]
  /\ uxpc = [at |-> "wait", app |-> NoRegApp]
  /\ listen = <<>> /\ ux_to_poll = <<>> /\ poll_to_ux = <<>>
  /\ notifyfd = FALSE
  /\ poll = [apps |-> <<>>, left |-> <<>>, tell |-> FALSE]
  /\ free_db = 1
  /\ nic = {}

(***************************************************************************)
(* The application                                                         *)
(***************************************************************************)

flextcp_kernel_connect(a) ==
  /\ rapp[a].st = "new"
  /\ rapp' = [rapp EXCEPT ![a].st = "connecting"]
  /\ listen' = Append(listen, a)
  /\ UNCHANGED <<thr, mutex, uxpc, ux_to_poll, poll_to_ux, notifyfd, poll, free_db, nic>>

LockContextInit(t) == mutex[t[1]] = NoThread /\ mutex' = [mutex EXCEPT ![t[1]] = t]

\* flextcp_sockctx_getfull: the thread's first call makes its context
flextcp_sockctx_getfull(t) ==
  /\ thr[t].pc = "idle" /\ rapp[t[1]].st = "open" /\ ~rapp[t[1]].gone
  /\ LockContextInit(t)
  /\ thr' = [thr EXCEPT ![t].pc = "send"]
  /\ UNCHANGED <<rapp, uxpc, listen, ux_to_poll, poll_to_ux, notifyfd, poll, free_db, nic>>

\* flextcp_kernel_newctx: the request carries the thread's eventfd
NewctxSend(t) ==
  /\ thr[t].pc = "send"
  /\ rapp' = [rapp EXCEPT ![t[1]].in = Append(@, t)]
  /\ thr' = [thr EXCEPT ![t].pc = "read"]
  /\ UNCHANGED <<mutex, uxpc, listen, ux_to_poll, poll_to_ux, notifyfd, poll, free_db, nic>>

NewctxRead(t) ==
  /\ thr[t].pc = "read" /\ rapp[t[1]].out # <<>>
  /\ thr' = [thr EXCEPT ![t] = [pc |-> "done", db |-> Head(rapp[t[1]].out)]]
  /\ rapp' = [rapp EXCEPT ![t[1]].out = Tail(@)]
  /\ mutex' = [mutex EXCEPT ![t[1]] = IF @ = t THEN NoThread ELSE @]
  /\ UNCHANGED <<uxpc, listen, ux_to_poll, poll_to_ux, notifyfd, poll, free_db, nic>>

Exit(a) ==
  /\ a \in Quitters /\ rapp[a].st = "open" /\ ~rapp[a].gone
  /\ \A t \in RegThreads : t[1] = a => thr[t].pc = "idle"
  /\ rapp' = [rapp EXCEPT ![a].gone = TRUE]
  /\ UNCHANGED <<thr, mutex, uxpc, listen, ux_to_poll, poll_to_ux, notifyfd, poll,
                 free_db, nic>>

(***************************************************************************)
(* The socket thread                                                       *)
(***************************************************************************)

\* the descriptors go out, the application is allocated, polled and queued
uxsocket_accept_app ==
  /\ uxpc.at = "wait" /\ listen # <<>>
  /\ rapp' = [rapp EXCEPT ![Head(listen)].st = "open"]
  /\ ux_to_poll' = <<Head(listen)>> \o ux_to_poll
  /\ listen' = Tail(listen)
  /\ UNCHANGED <<thr, mutex, uxpc, poll_to_ux, notifyfd, poll, free_db, nic>>

uxsocket_error(a) ==
  /\ uxpc.at = "wait" /\ rapp[a].gone /\ rapp[a].st = "open"
  /\ rapp' = [rapp EXCEPT ![a].st = "closed"]
  /\ UNCHANGED <<thr, mutex, uxpc, listen, ux_to_poll, poll_to_ux, notifyfd, poll,
                 free_db, nic>>

NewContext(t) == [db |-> free_db, evfd |-> t, ready |-> FALSE]

\* the queues, the doorbell, the response; no further request is read until
\* this one is completed
uxsocket_receive(a) ==
  /\ uxpc.at = "wait" /\ rapp[a].st = "open" /\ ~rapp[a].gone
  /\ rapp[a].epin /\ rapp[a].in # <<>>
  /\ rapp' = [rapp EXCEPT ![a].in = Tail(@), ![a].epin = FALSE,
                          ![a].ctxs = Append(@, NewContext(Head(rapp[a].in))),
                          ![a].done = Len(rapp[a].ctxs) + 1]
  /\ free_db' = free_db + 1
  /\ uxpc' = [at |-> "need", app |-> a]
  /\ UNCHANGED <<thr, mutex, listen, ux_to_poll, poll_to_ux, notifyfd, poll, nic>>

\* the store behind the barrier that shows the context to the main thread
ReceiveNeed ==
  /\ uxpc.at = "need"
  /\ rapp' = [rapp EXCEPT ![uxpc.app].need = rapp[uxpc.app].done]
  /\ uxpc' = [at |-> "wait", app |-> NoRegApp]
  /\ UNCHANGED <<thr, mutex, listen, ux_to_poll, poll_to_ux, notifyfd, poll, free_db, nic>>

\* uxsocket_notify: the eventfd is read first, then the queue is emptied
uxsocket_notify ==
  /\ uxpc.at = "wait" /\ notifyfd
  /\ notifyfd' = FALSE
  /\ uxpc' = [uxpc EXCEPT !.at = "deq"]
  /\ UNCHANGED <<rapp, thr, mutex, listen, ux_to_poll, poll_to_ux, poll, free_db, nic>>

\* Mutation of uxsocket_notify_app: the socket is not polled for the next request again.
notify_keeps_off(a) ==
  rapp' = [rapp EXCEPT ![a].ctxs[rapp[a].done].ready = TRUE,
                       ![a].out = Append(@, rapp[a].ctxs[rapp[a].done].db)]

uxsocket_notify_app(a) ==
  rapp' = [rapp EXCEPT ![a].ctxs[rapp[a].done].ready = TRUE, ![a].epin = TRUE,
                       ![a].out = Append(@, rapp[a].ctxs[rapp[a].done].db)]

NotifyDeq ==
  /\ uxpc.at = "deq"
  /\ IF poll_to_ux = <<>>
     THEN /\ uxpc' = [uxpc EXCEPT !.at = "wait"]
          /\ UNCHANGED <<rapp, poll_to_ux>>
     ELSE /\ uxsocket_notify_app(Head(poll_to_ux))
          /\ poll_to_ux' = Tail(poll_to_ux)
          /\ UNCHANGED uxpc
  /\ UNCHANGED <<thr, mutex, listen, ux_to_poll, notifyfd, poll, free_db, nic>>

(***************************************************************************)
(* The main thread: appif_poll                                             *)
(***************************************************************************)

\* a round begins: new applications go to the front of the list
appif_poll ==
  /\ poll.left = <<>> /\ ~poll.tell
  /\ LET all == ux_to_poll \o poll.apps IN
     /\ all # <<>>
     /\ poll' = [poll EXCEPT !.apps = all, !.left = all]
  /\ ux_to_poll' = <<>>
  /\ UNCHANGED <<rapp, thr, mutex, uxpc, listen, poll_to_ux, notifyfd, free_db, nic>>

\* the next application of the list: nicif_appctx_add for the new context,
\* then the application goes back to the socket thread
PollApp ==
  /\ poll.left # <<>> /\ ~poll.tell
  /\ LET a == Head(poll.left) IN
     IF rapp[a].need # 0
     THEN /\ nic' = nic \union {[db |-> rapp[a].ctxs[rapp[a].need].db,
                                 evfd |-> rapp[a].ctxs[rapp[a].need].evfd]}
          /\ rapp' = [rapp EXCEPT ![a].need = 0]
          /\ poll_to_ux' = Append(poll_to_ux, a)
          /\ poll' = [poll EXCEPT !.left = Tail(@), !.tell = TRUE]
     ELSE /\ poll' = [poll EXCEPT !.left = Tail(@)]
          /\ UNCHANGED <<nic, rapp, poll_to_ux>>
  /\ UNCHANGED <<thr, mutex, uxpc, listen, ux_to_poll, notifyfd, free_db>>

PollNotify ==
  /\ poll.tell
  /\ notifyfd' = TRUE
  /\ poll' = [poll EXCEPT !.tell = FALSE]
  /\ UNCHANGED <<rapp, thr, mutex, uxpc, listen, ux_to_poll, poll_to_ux, free_db, nic>>

SocketThread ==
  \/ uxsocket_accept_app \/ ReceiveNeed \/ uxsocket_notify \/ NotifyDeq
  \/ \E a \in RegApps : uxsocket_error(a) \/ uxsocket_receive(a)

MainThread == appif_poll \/ PollApp \/ PollNotify

Next ==
  \/ \E a \in RegApps : flextcp_kernel_connect(a) \/ Exit(a)
  \/ \E t \in RegThreads : flextcp_sockctx_getfull(t) \/ NewctxSend(t) \/ NewctxRead(t)
  \/ SocketThread \/ MainThread

Spec == Init /\ [][Next]_regVars

\* Both threads of the slow path run, and so do the application's threads.
Fairness ==
  /\ WF_regVars(MainThread) /\ WF_regVars(SocketThread)
  /\ \A t \in RegThreads : WF_regVars(NewctxSend(t) \/ NewctxRead(t))

\* A thread's context is the one the fast path wakes it for: the answer
\* flextcp_kernel_newctx reads from the shared socket describes the context
\* that was registered with the thread's own eventfd.
ContextIsOwn ==
  \A t \in RegThreads : thr[t].pc = "done" => [db |-> thr[t].db, evfd |-> t] \in nic

\* The slow path polls a context, and an application learns of it, only when
\* the fast path knows the context: ready and the answer come after
\* nicif_appctx_add.
ReadyIsRegistered ==
  \A a \in RegApps : \A i \in DOMAIN rapp[a].ctxs :
    rapp[a].ctxs[i].ready => \E r \in nic : r.db = rapp[a].ctxs[i].db

\* Every request for a context is answered, whatever the two threads of the
\* slow path do in between.
RequestsAnswered == \A t \in RegThreads : []<>(thr[t].pc \in {"idle", "done"})
===============================================================================
