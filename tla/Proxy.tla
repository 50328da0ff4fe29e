-------------------------------- MODULE Proxy --------------------------------
(***************************************************************************)
(* The two proxies that connect the applications of a virtual machine with *)
(* TAS: the guest proxy (proxy/guest) plays TAS towards the applications,  *)
(* the host proxy (proxy/host) plays the applications towards TAS, and the *)
(* two exchange messages over the channel in shared memory, whose rings    *)
(* module ShmRing models and which are queues here.  A message is followed *)
(* by a notification: nfd and irq are the semaphore eventfds that wake the *)
(* host and the guest proxy.  Each proxy is a single thread that polls its *)
(* sources in turn and sleeps after a round that found nothing.            *)
(*                                                                         *)
(* Ids count from 1.  The fields who and by name the application behind a  *)
(* socket, request or context; the code never looks at them.               *)
(***************************************************************************)
EXTENDS Integers, Sequences, FiniteSets, FiniteSetsExt

CONSTANTS PApps,       \* the applications of the virtual machine
          PFds,        \* file descriptors the guest proxy's accept returns
          Targets,     \* what an application kicks: the slow path, the cores
          ChanCap,     \* messages a ring of the channel holds
          VmBatch,     \* VM_BATCH_SIZE
          PLoads       \* what may happen in a behaviour besides connections
                       \* and requests: records of the applications that may exit,
                       \* the kicks, the contexts TAS pokes, and how many
                       \* connections of the host proxy to TAS may fail

VARIABLES pload,             \* the member of PLoads of this behaviour
          toHost, toGuest,   \* the channel
          nfd, irq,          \* notifications not yet drained
          lst,               \* applications in the listen queue of the guest
          ap,                \* the applications
          sock,              \* whose socket a descriptor of the guest proxy is
          gp, hp,            \* the proxies
          kick,              \* kernel_notifyfd and core_evfds of the guest proxy
          tas                \* what TAS was kicked for

proxyVars == <<pload, toHost, toGuest, nfd, irq, lst, ap, sock, gp, hp, kick, tas>>

NoApp == "none"
NoMsg == [t |-> "none"]

Init ==
  /\ pload \in PLoads
  /\ toHost = <<>> /\ toGuest = <<>>
  /\ nfd = 0 /\ irq = 0
  /\ lst = <<>>
  /\ ap = [p \in PApps |-> [st |-> "new", req |-> FALSE, woken |-> FALSE, wrong |-> FALSE,
                        left |-> FALSE]]
  /\ sock = [f \in PFds |-> NoApp]
  /\ gp = [pc |-> "off", n |-> FALSE, out |-> NoMsg, ret |-> "ux", evs |-> {},
           info |-> FALSE, apps |-> <<>>, next_app_id |-> 1, reqs |-> <<>>]
  /\ hp = [pc |-> "vms", n |-> FALSE, out |-> NoMsg, ret |-> "drain", evs |-> {},
           left |-> 0, vm |-> FALSE, reg |-> <<>>, fails |-> 0, ctxs |-> <<>>,
           oops |-> FALSE]
  /\ kick = [t \in Targets |-> 0]
  /\ tas = {}

(***************************************************************************)
(* The applications and TAS                                                *)
(***************************************************************************)

AppConnect(p) ==
  /\ gp.pc \notin {"off", "dead"} /\ ap[p].st = "new"
  /\ ap' = [ap EXCEPT ![p].st = "waiting"]
  /\ lst' = Append(lst, p)
  /\ UNCHANGED <<pload, toHost, toGuest, nfd, irq, sock, gp, hp, kick, tas>>

\* the request for a context, with the eventfd that wakes the application
AppAsk(p) ==
  /\ ap[p].st = "ready"
  /\ ap' = [ap EXCEPT ![p].st = "asked", ![p].req = TRUE]
  /\ UNCHANGED <<pload, toHost, toGuest, nfd, irq, lst, sock, gp, hp, kick, tas>>

AppKick(p, t) ==
  /\ ap[p].st = "served" /\ kick[t] = 0 /\ <<p, t>> \in pload.kicks
  /\ kick' = [kick EXCEPT ![t] = 1]
  /\ UNCHANGED <<pload, toHost, toGuest, nfd, irq, lst, ap, sock, gp, hp, tas>>

\* an application exits at any time; left: the guest proxy still owed it an answer
AppExit(p) ==
  /\ p \in pload.exits
  /\ ap[p].st \notin {"new", "gone"}
  /\ ap' = [ap EXCEPT ![p].st = "gone", ![p].left = ap[p].st \in {"waiting", "asked"}]
  /\ UNCHANGED <<pload, toHost, toGuest, nfd, irq, lst, sock, gp, hp, kick, tas>>

\* TAS notifies a context, once
TasPoke(i) ==
  /\ i \in DOMAIN hp.ctxs /\ hp.ctxs[i].ev = 0 /\ i \in pload.pokes
  /\ hp' = [hp EXCEPT !.ctxs[i].ev = 1]
  /\ UNCHANGED <<pload, toHost, toGuest, nfd, irq, lst, ap, sock, gp, kick, tas>>

(***************************************************************************)
(* The guest proxy                                                         *)
(***************************************************************************)

GuestStart ==
  /\ gp.pc = "off" /\ hp.vm
  /\ gp' = [gp EXCEPT !.pc = "chan"]
  /\ UNCHANGED <<pload, toHost, toGuest, nfd, irq, lst, ap, sock, hp, kick, tas>>

\* what the guest proxy's sockets have for epoll_wait
UxEvents ==
  { <<"listen", 0>> : x \in { y \in {1} : lst # <<>> } } \union
  { <<"error", i>> : i \in { j \in DOMAIN gp.apps :
        ~gp.apps[j].closed /\ ap[gp.apps[j].who].st = "gone" } } \union
  { <<"msg", i>> : i \in { j \in DOMAIN gp.apps :
        ~gp.apps[j].closed /\ ap[gp.apps[j].who].req
          /\ ap[gp.apps[j].who].st # "gone" } }

PokeEvents == { <<"kick", t>> : t \in { u \in Targets : gp.info /\ kick[u] = 1 } }

\* the descriptors go out to the application, which is then polled
vflextcp_handle_newapp_res(g, m) ==
  [g EXCEPT !.apps = <<[id |-> g.next_app_id, fd |-> m.fd, closed |-> FALSE,
                        who |-> sock[m.fd]]>> \o @,
            !.next_app_id = @ + 1]

\* the application whose socket the answer to app_id is written to; a closed
\* descriptor fails the write, and so does an unknown application
vflextcp_write_context_res(m) ==
  LET match == { i \in DOMAIN gp.apps : gp.apps[i].id = m.app } IN
  IF match = {} THEN NoApp ELSE sock[gp.apps[Min(match)].fd]

\* an answer is written to the socket of application to
Delivered(to, m) ==
  IF to = NoApp THEN ap
  ELSE [ap EXCEPT ![to].st = IF @ = "asked" /\ m.who = to THEN "served" ELSE @,
                  ![to].wrong = @ \/ m.who # to]

\* the other end of the socket is closed: sendmsg and write raise SIGPIPE, which nobody
\* catches or ignores
PeerGone(p) == p # NoApp /\ ap[p].st = "gone"

\* ivshmem_channel_poll: one message, its handler, the drain of irq_fd
ivshmem_channel_poll ==
  /\ gp.pc = "chan"
  /\ IF toGuest = <<>>
     THEN /\ gp' = [gp EXCEPT !.pc = "ux"]
          /\ UNCHANGED <<toGuest, ap>>
     ELSE LET m == Head(toGuest)
              g == [gp EXCEPT !.n = TRUE, !.pc = "drain"] IN
          /\ toGuest' = Tail(toGuest)
          /\ \/ /\ m.t = "hello"
                /\ gp' = [g EXCEPT !.pc = "write", !.ret = "drain",
                                   !.out = [t |-> "tasinfo_req"]]
                /\ UNCHANGED ap
             \/ /\ m.t = "tasinfo_res"
                /\ gp' = [g EXCEPT !.info = TRUE]
                /\ UNCHANGED ap
             \/ /\ m.t = "newapp_res"
                /\ ap[sock[m.fd]].st # "gone"
                /\ gp' = vflextcp_handle_newapp_res(g, m)
                /\ ap' = [ap EXCEPT ![sock[m.fd]].st = "ready"]
             \/ /\ m.t = "context_res"
                /\ ~PeerGone(vflextcp_write_context_res(m))
                /\ gp' = g
                /\ ap' = Delivered(vflextcp_write_context_res(m), m)
             \/ /\ m.t = "poke_app"
                /\ gp' = [g EXCEPT !.pc = "ux"]     \* irq_fd is not drained
                /\ ap' = [ap EXCEPT ![gp.reqs[m.req]].woken = TRUE]
             \/ /\ \/ m.t = "newapp_res" /\ PeerGone(sock[m.fd])
                   \/ m.t = "context_res" /\ PeerGone(vflextcp_write_context_res(m))
                /\ gp' = [g EXCEPT !.pc = "dead"]
                /\ UNCHANGED ap
  /\ UNCHANGED <<pload, toHost, nfd, irq, lst, sock, hp, kick, tas>>

GuestDrain ==
  /\ gp.pc = "drain"
  /\ irq' = IF irq > 0 THEN irq - 1 ELSE 0
  /\ gp' = [gp EXCEPT !.pc = "ux"]
  /\ UNCHANGED <<pload, toHost, toGuest, nfd, lst, ap, sock, hp, kick, tas>>

\* epoll_wait of vflextcp_uxsocket_poll and of vflextcp_tas_poke_poll
GuestPoll ==
  \/ /\ gp.pc = "ux"
     /\ gp' = [gp EXCEPT !.pc = "uxev", !.evs = UxEvents, !.n = @ \/ UxEvents # {}]
     /\ UNCHANGED <<pload, toHost, toGuest, nfd, irq, lst, ap, sock, hp, kick, tas>>
  \/ /\ gp.pc = "uxev" /\ gp.evs = {} /\ PokeEvents # {}
     /\ gp' = [gp EXCEPT !.pc = "pokeev", !.evs = PokeEvents, !.n = TRUE]
     /\ UNCHANGED <<pload, toHost, toGuest, nfd, irq, lst, ap, sock, hp, kick, tas>>

vflextcp_uxsocket_accept ==
  /\ gp.pc = "uxev" /\ <<"listen", 0>> \in gp.evs
  /\ LET fd == Min({ f \in PFds : sock[f] = NoApp }) IN
     /\ sock' = [sock EXCEPT ![fd] = Head(lst)]
     /\ lst' = Tail(lst)
     /\ gp' = [gp EXCEPT !.evs = @ \ {<<"listen", 0>>}, !.pc = "write", !.ret = "uxev",
                 !.out = [t |-> "newapp_req", fd |-> fd, who |-> Head(lst)]]
  /\ UNCHANGED <<pload, toHost, toGuest, nfd, irq, ap, hp, kick, tas>>

\* the descriptor is closed, the application stays in the list
vflextcp_uxsocket_error(i) ==
  /\ gp' = [gp EXCEPT !.evs = @ \ {<<"error", i>>}, !.apps[i].closed = TRUE]
  /\ sock' = [sock EXCEPT ![gp.apps[i].fd] = NoApp]

\* the request gets a number and goes to the host
vflextcp_uxsocket_handle_msg(i) ==
  LET a == gp.apps[i] IN
  /\ ap' = [ap EXCEPT ![a.who].req = FALSE]
  /\ gp' = [gp EXCEPT !.evs = @ \ {<<"msg", i>>}, !.reqs = Append(@, a.who),
              !.pc = "write", !.ret = "uxev",
              !.out = [t |-> "context_req", app |-> a.id, who |-> a.who,
                       req |-> Len(gp.reqs) + 1]]

GuestUxEvent ==
  /\ gp.pc = "uxev"
  /\ \E i \in DOMAIN gp.apps :
       \/ /\ <<"error", i>> \in gp.evs
          /\ vflextcp_uxsocket_error(i)
          /\ UNCHANGED ap
       \/ /\ <<"msg", i>> \in gp.evs
          /\ vflextcp_uxsocket_handle_msg(i)
          /\ UNCHANGED sock
  /\ UNCHANGED <<pload, toHost, toGuest, nfd, irq, lst, hp, kick, tas>>

\* vflextcp_handle_tas_kernel_poke and vflextcp_handle_tas_core_poke
vflextcp_handle_tas_poke(t) ==
  gp' = [gp EXCEPT !.evs = @ \ {<<"kick", t>>}, !.pc = "write", !.ret = "pokeev",
                   !.out = [t |-> "poke_tas", target |-> t]]

GuestPokeEvent(t) ==
  /\ gp.pc = "pokeev" /\ <<"kick", t>> \in gp.evs
  /\ kick' = [kick EXCEPT ![t] = 2]     \* drained; a target is kicked once
  /\ vflextcp_handle_tas_poke(t)
  /\ UNCHANGED <<pload, toHost, toGuest, nfd, irq, lst, ap, sock, hp, tas>>

\* the end of a round of the guest's main: sleep when it found nothing
GuestRoundEnd ==
  /\ gp.evs = {}
  /\ gp.pc = "pokeev" \/ (gp.pc = "uxev" /\ PokeEvents = {})
  /\ gp' = [gp EXCEPT !.pc = IF gp.n THEN "chan" ELSE "sleep", !.n = FALSE]
  /\ UNCHANGED <<pload, toHost, toGuest, nfd, irq, lst, ap, sock, hp, kick, tas>>

GuestWake ==
  /\ gp.pc = "sleep"
  /\ irq > 0 \/ UxEvents # {} \/ PokeEvents # {}
  /\ gp' = [gp EXCEPT !.pc = "chan"]
  /\ UNCHANGED <<pload, toHost, toGuest, nfd, irq, lst, ap, sock, hp, kick, tas>>

\* channel_write spins until the message fits
GuestWrite ==
  /\ gp.pc = "write" /\ Len(toHost) < ChanCap
  /\ toHost' = Append(toHost, gp.out)
  /\ gp' = [gp EXCEPT !.pc = "notify", !.out = NoMsg]
  /\ UNCHANGED <<pload, toGuest, nfd, irq, lst, ap, sock, hp, kick, tas>>

\* Mutation of ivshmem_notify_host: the host is not told of the message.
notify_nobody ==
  /\ gp.pc = "notify"
  /\ gp' = [gp EXCEPT !.pc = gp.ret]
  /\ UNCHANGED <<pload, toHost, toGuest, nfd, irq, lst, ap, sock, hp, kick, tas>>

ivshmem_notify_host ==
  /\ gp.pc = "notify"
  /\ nfd' = nfd + 1
  /\ gp' = [gp EXCEPT !.pc = gp.ret]
  /\ UNCHANGED <<pload, toHost, toGuest, irq, lst, ap, sock, hp, kick, tas>>

(***************************************************************************)
(* The host proxy                                                          *)
(***************************************************************************)

\* uxsocket_poll: a virtual machine connects, its rings are reset and hold
\* the first message before the guest runs
uxsocket_accept ==
  /\ hp.pc = "vms"
  /\ hp' = [hp EXCEPT !.pc = "chan", !.left = VmBatch, !.vm = TRUE, !.n = TRUE]
  /\ toGuest' = <<[t |-> "hello"]>>
  /\ irq' = irq + 1
  /\ UNCHANGED <<pload, toHost, nfd, lst, ap, sock, gp, kick, tas>>

channel_handle_newapp(h, m) ==
  [h EXCEPT !.reg = Append(@, m.who), !.pc = "write", !.ret = "drain",
            !.out = [t |-> "newapp_res", fd |-> m.fd]]

\* flextcp_proxy_newapp fails: the id is used up and no answer is sent
NewappFails(h) == [h EXCEPT !.reg = Append(@, NoApp), !.fails = @ + 1]

\* the context is made over the connection of application msg.app_id; there
\* is no such connection: the assertion behind sendmsg fails
channel_handle_ctx_req(h, m) ==
  IF m.app \notin DOMAIN h.reg \/ h.reg[m.app] = NoApp
  THEN [h EXCEPT !.oops = TRUE, !.pc = "dead"]
  ELSE [h EXCEPT !.ctxs = Append(@, [req |-> m.req, app |-> m.app, who |-> m.who, ev |-> 0]),
                 !.pc = "write", !.ret = "drain",
                 !.out = [t |-> "context_res", app |-> m.app, req |-> m.req, who |-> m.who]]

channel_poll_vm ==
  /\ hp.pc = "chan" /\ toHost # <<>> /\ hp.left > 0
  /\ toHost' = Tail(toHost)
  /\ LET m == Head(toHost)
         h == [hp EXCEPT !.n = TRUE, !.left = @ - 1, !.pc = "drain"] IN
     \/ /\ m.t = "tasinfo_req"
        /\ hp' = [h EXCEPT !.pc = "write", !.ret = "drain", !.out = [t |-> "tasinfo_res"]]
        /\ UNCHANGED tas
     \/ /\ m.t = "newapp_req"
        /\ \/ hp' = channel_handle_newapp(h, m)
           \/ hp.fails < pload.fails /\ hp' = NewappFails(h)
        /\ UNCHANGED tas
     \/ /\ m.t = "context_req"
        /\ hp' = channel_handle_ctx_req(h, m)
        /\ UNCHANGED tas
     \/ /\ m.t = "poke_tas"
        /\ hp' = h
        /\ tas' = tas \union {m.target}
  /\ UNCHANGED <<pload, toGuest, nfd, irq, lst, ap, sock, gp, kick>>

HostDrain ==
  /\ hp.pc = "drain"
  /\ nfd' = IF nfd > 0 THEN nfd - 1 ELSE 0
  /\ hp' = [hp EXCEPT !.pc = "chan"]
  /\ UNCHANGED <<pload, toHost, toGuest, irq, lst, ap, sock, gp, kick, tas>>

\* the contexts' eventfds that are set
CtxEvents == { i \in DOMAIN hp.ctxs : hp.ctxs[i].ev = 1 }

\* the end of channel_poll and the epoll_wait of app_ctxs_poll
HostPoll ==
  /\ hp.pc = "chan" /\ (toHost = <<>> \/ hp.left = 0)
  /\ CtxEvents # {}
  /\ hp' = [hp EXCEPT !.pc = "ctxs", !.evs = CtxEvents, !.n = TRUE]
  /\ UNCHANGED <<pload, toHost, toGuest, nfd, irq, lst, ap, sock, gp, kick, tas>>

PokeMsg(c) == [t |-> "poke_app", req |-> c.req]

app_ctxs_poll ==
  /\ hp.pc = "ctxs"
  /\ \E i \in hp.evs :
       hp' = [hp EXCEPT !.evs = @ \ {i}, !.ctxs[i].ev = 2, !.pc = "write",
                        !.ret = "ctxs", !.out = PokeMsg(hp.ctxs[i])]
  /\ UNCHANGED <<pload, toHost, toGuest, nfd, irq, lst, ap, sock, gp, kick, tas>>

HostRoundEnd ==
  /\ hp.evs = {}
  /\ \/ hp.pc = "ctxs"
     \/ hp.pc = "chan" /\ (toHost = <<>> \/ hp.left = 0) /\ CtxEvents = {}
  /\ hp' = [hp EXCEPT !.pc = IF hp.n THEN "chan" ELSE "sleep", !.n = FALSE,
                      !.left = VmBatch]
  /\ UNCHANGED <<pload, toHost, toGuest, nfd, irq, lst, ap, sock, gp, kick, tas>>

HostWake ==
  /\ hp.pc = "sleep"
  /\ nfd > 0 \/ CtxEvents # {}
  /\ hp' = [hp EXCEPT !.pc = "chan"]
  /\ UNCHANGED <<pload, toHost, toGuest, nfd, irq, lst, ap, sock, gp, kick, tas>>

HostWrite ==
  /\ hp.pc = "write" /\ Len(toGuest) < ChanCap
  /\ toGuest' = Append(toGuest, hp.out)
  /\ hp' = [hp EXCEPT !.pc = "notify", !.out = NoMsg]
  /\ UNCHANGED <<pload, toHost, nfd, irq, lst, ap, sock, gp, kick, tas>>

notify_guest ==
  /\ hp.pc = "notify"
  /\ irq' = irq + 1
  /\ hp' = [hp EXCEPT !.pc = hp.ret]
  /\ UNCHANGED <<pload, toHost, toGuest, nfd, lst, ap, sock, gp, kick, tas>>

(***************************************************************************)
(* Specification                                                           *)
(***************************************************************************)

GuestNext ==
  \/ GuestStart \/ ivshmem_channel_poll \/ GuestDrain \/ GuestPoll
  \/ vflextcp_uxsocket_accept \/ GuestUxEvent \/ (\E t \in Targets : GuestPokeEvent(t))
  \/ GuestRoundEnd \/ GuestWake \/ GuestWrite \/ ivshmem_notify_host

HostNext ==
  \/ uxsocket_accept \/ channel_poll_vm \/ HostDrain \/ HostPoll \/ app_ctxs_poll
  \/ HostRoundEnd \/ HostWake \/ HostWrite \/ notify_guest

Next ==
  \/ \E p \in PApps : AppConnect(p) \/ AppAsk(p) \/ AppExit(p)
  \/ \E p \in PApps, t \in Targets : AppKick(p, t)
  \/ \E i \in 1..Cardinality(PApps) : TasPoke(i)
  \/ GuestNext \/ HostNext

Spec == Init /\ [][Next]_proxyVars

\* Each proxy is a thread of its own that the operating system runs; its
\* sleep ends when a descriptor of its epoll set is ready.
Fairness == WF_proxyVars(GuestNext) /\ WF_proxyVars(HostNext)

(***************************************************************************)
(* Properties                                                              *)
(***************************************************************************)

\* No application exited while it waited for an answer of the guest proxy.
\* (If one did, the answer is written to a socket without a peer, which ends
\* the guest proxy, or to whoever was given its descriptor since.)
NobodyLeft == \A p \in PApps : ~ap[p].left

\* No answer to a context request is written to another application's
\* socket: the descriptor vflextcp_write_context_res uses still belongs to
\* the application that asked; and the guest proxy lives.
AnswersReachOwner ==
  NobodyLeft => gp.pc # "dead" /\ \A p \in PApps : ~ap[p].wrong

\* The ids the guest proxy and the host proxy count for themselves agree: a
\* context lives in the TAS application of the process that asked for it, and
\* the host never uses a connection it does not have.  (A connection to TAS
\* that fails uses up an id on the host only, and the two drift apart.)
ContextsInOwnApp ==
  hp.fails = 0 =>
  /\ ~hp.oops
  /\ \A i \in DOMAIN hp.ctxs : hp.reg[hp.ctxs[i].app] = hp.ctxs[i].who

\* An application that connects gets its descriptors, and a request for a
\* context is answered, although either proxy may sleep between any two
\* rounds and another application may exit; unless a connection to TAS
\* failed, which nobody is told of, or an application left too early.
AppsServed ==
  \A p \in PApps : /\ []<>(ap[p].st # "waiting" \/ hp.fails > 0 \/ ~NobodyLeft)
                   /\ []<>(ap[p].st # "asked" \/ hp.fails > 0 \/ ~NobodyLeft)

\* A notification of a context by TAS reaches the application that owns the
\* context, and a kick of an application reaches TAS, as long as no
\* application left too early.  (The marks that one was made, ev and kick,
\* stay when it is passed on.)
PokesArrive ==
  /\ \A i \in 1..Cardinality(PApps) :
       []<>((i \in DOMAIN hp.ctxs /\ hp.ctxs[i].ev # 0 /\ NobodyLeft)
              => ap[hp.ctxs[i].who].woken)
  /\ \A t \in Targets : []<>(kick[t] # 0 /\ NobodyLeft => t \in tas)
===============================================================================
