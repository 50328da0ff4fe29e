--------------------------- MODULE MC_Interfaces ---------------------------
(***************************************************************************)
(* One run for how the processes of the system reach each other: blocking  *)
(* and notification, the registration of applications with the slow path,  *)
(* the byte rings between virtual machines, and the proxies on them.  A    *)
(* behaviour is about one of them: part says which, and the variables of   *)
(* the others stay as they were initially.                                 *)
(***************************************************************************)
EXTENDS Integers, Sequences, FiniteSets

CONSTANTS Parts,
          Senders, CycSenders, Receivers, Cycle, MaxLate,
          RingSize, MsgSizes, NumMsgs,
          PApps, PFds, Targets, ChanCap, VmBatch,
          RegApps, Quitters

VARIABLES part,
          snd, pend, ev, rcv,
          hdr, bytes, writer, reader, garbled, met,
          pload, toHost, toGuest, nfd, irq, lst, ap, sock, gp, hp, kick, tas,
          rapp, thr, mutex, uxpc, listen, ux_to_poll, poll_to_ux, notifyfd, poll,
          free_db, nic

\* an application kicks the slow path; TAS wakes the second context; an
\* application exits; a connection to TAS fails
PLoads == {[kicks |-> {<<"p", "slow">>}, pokes |-> {}, exits |-> {}, fails |-> 0],
           [kicks |-> {}, pokes |-> {2}, exits |-> {}, fails |-> 0],
           [kicks |-> {}, pokes |-> {}, exits |-> {"p"}, fails |-> 0],
           [kicks |-> {}, pokes |-> {}, exits |-> {}, fails |-> 1]}

RegThreads == {<<"a", 1>>, <<"a", 2>>, <<"b", 1>>}

WU == INSTANCE Wakeup
SR == INSTANCE ShmRing
PX == INSTANCE Proxy
RG == INSTANCE AppReg

wakeVars  == <<snd, pend, ev, rcv>>
shmVars   == <<hdr, bytes, writer, reader, garbled, met>>
proxyVars == <<pload, toHost, toGuest, nfd, irq, lst, ap, sock, gp, hp, kick, tas>>
regVars   == <<rapp, thr, mutex, uxpc, listen, ux_to_poll, poll_to_ux, notifyfd, poll,
               free_db, nic>>
suite == <<part, wakeVars, shmVars, proxyVars, regVars>>

SuiteInit ==
  /\ part \in Parts
  /\ WU!Init
  /\ part # "wakeup" => rcv.kind = CHOOSE k \in Receivers : TRUE
  /\ SR!Init
  /\ PX!Init
  /\ part # "proxy" => pload = CHOOSE l \in PLoads : TRUE
  /\ RG!Init

OnWakeup == /\ part = "wakeup"
            /\ UNCHANGED <<part, shmVars, proxyVars, regVars>>
OnShm    == /\ part = "shmring" /\ ~garbled
            /\ UNCHANGED <<part, wakeVars, proxyVars, regVars>>
OnProxy  == /\ part = "proxy"
            /\ UNCHANGED <<part, wakeVars, shmVars, regVars>>
OnReg    == /\ part = "appreg"
            /\ UNCHANGED <<part, wakeVars, shmVars, proxyVars>>

SuiteNext ==
  \/ \E s \in Senders : OnWakeup /\ WU!SampleFirst(s)
  \/ \E s \in Senders : OnWakeup /\ WU!PutEntry(s)
  \/ \E s \in Senders : OnWakeup /\ WU!notify_core(s)
  \/ \E s \in Senders : OnWakeup /\ WU!PollQueue(s)
  \/ OnWakeup /\ WU!RoundBegin
  \/ OnWakeup /\ WU!RoundEnd
  \/ OnWakeup /\ WU!Wake
  \/ OnWakeup /\ WU!WakeTimeout
  \/ OnWakeup /\ WU!Tick
  \/ OnShm /\ SR!WriteStart
  \/ OnShm /\ SR!shmring_push
  \/ OnShm /\ SR!WriteAdvance
  \/ OnShm /\ SR!WriteMark
  \/ OnShm /\ SR!WriteFull
  \/ OnShm /\ SR!channel_get_msg_type
  \/ OnShm /\ SR!shmring_pop
  \/ OnShm /\ SR!PopAdvance
  \/ OnShm /\ SR!PopNotFull
  \/ \E p \in PApps : OnProxy /\ PX!AppConnect(p)
  \/ \E p \in PApps : OnProxy /\ PX!AppAsk(p)
  \/ \E p \in PApps : OnProxy /\ PX!AppExit(p)
  \/ \E p \in PApps, t \in Targets : OnProxy /\ PX!AppKick(p, t)
  \/ \E i \in 1 .. Cardinality(PApps) : OnProxy /\ PX!TasPoke(i)
  \/ OnProxy /\ PX!GuestStart
  \/ OnProxy /\ PX!ivshmem_channel_poll
  \/ OnProxy /\ PX!GuestDrain
  \/ OnProxy /\ PX!GuestPoll
  \/ OnProxy /\ PX!vflextcp_uxsocket_accept
  \/ OnProxy /\ PX!GuestUxEvent
  \/ \E t \in Targets : OnProxy /\ PX!GuestPokeEvent(t)
  \/ OnProxy /\ PX!GuestRoundEnd
  \/ OnProxy /\ PX!GuestWake
  \/ OnProxy /\ PX!GuestWrite
  \/ OnProxy /\ PX!ivshmem_notify_host
  \/ OnProxy /\ PX!uxsocket_accept
  \/ OnProxy /\ PX!channel_poll_vm
  \/ OnProxy /\ PX!HostDrain
  \/ OnProxy /\ PX!HostPoll
  \/ OnProxy /\ PX!app_ctxs_poll
  \/ OnProxy /\ PX!HostRoundEnd
  \/ OnProxy /\ PX!HostWake
  \/ OnProxy /\ PX!HostWrite
  \/ OnProxy /\ PX!notify_guest
  \/ \E a \in RegApps : OnReg /\ RG!flextcp_kernel_connect(a)
  \/ \E a \in RegApps : OnReg /\ RG!Exit(a)
  \/ \E a \in RegApps : OnReg /\ RG!uxsocket_error(a)
  \/ \E a \in RegApps : OnReg /\ RG!uxsocket_receive(a)
  \/ \E t \in RegThreads : OnReg /\ RG!flextcp_sockctx_getfull(t)
  \/ \E t \in RegThreads : OnReg /\ RG!NewctxSend(t)
  \/ \E t \in RegThreads : OnReg /\ RG!NewctxRead(t)
  \/ OnReg /\ RG!uxsocket_accept_app
  \/ OnReg /\ RG!ReceiveNeed
  \/ OnReg /\ RG!uxsocket_notify
  \/ OnReg /\ RG!NotifyDeq
  \/ OnReg /\ RG!appif_poll
  \/ OnReg /\ RG!PollApp
  \/ OnReg /\ RG!PollNotify

SuiteSpec == SuiteInit /\ [][SuiteNext]_suite

\* the fairness of each component, in the behaviours that are about it
FairSuite ==
  /\ SuiteSpec
  /\ WF_wakeVars(part = "wakeup" /\ (WU!RoundBegin \/ WU!RoundEnd \/ WU!Wake
                                       \/ \E s \in Senders : WU!PollQueue(s)))
  /\ SF_wakeVars(part = "wakeup" /\ WU!Tick)
  /\ WF_shmVars(part = "shmring" /\ ~garbled /\ SR!Writing)
  /\ WF_shmVars(part = "shmring" /\ ~garbled /\ SR!Reading)
  /\ WF_proxyVars(part = "proxy" /\ PX!GuestNext)
  /\ WF_proxyVars(part = "proxy" /\ PX!HostNext)
  /\ WF_regVars(part = "appreg" /\ RG!MainThread)
  /\ WF_regVars(part = "appreg" /\ RG!SocketThread)
  /\ \A t \in RegThreads :
       WF_regVars(part = "appreg" /\ (RG!NewctxSend(t) \/ RG!NewctxRead(t)))
-----------------------------------------------------------------------------
\* blocking.c, fastemu.c, slow/kernel.c and init.c: nobody sleeps over an entry but
\* one put within Margin of its falling asleep, and who has nothing to do sleeps.
NoLostWakeup ==
  /\ [](part = "wakeup" => WU!NoLostWakeup)
  /\ []<>(part # "wakeup") \/ WU!IdleSleeps

\* shmring.c: until the writer meets the reader, messages come out as they
\* went in and a writer gets its room.
RingUntilMet ==
  /\ [](part = "shmring" => SR!IntactUntilMet)
  /\ SR!WriterGetsRoom

\* guest/flextcp.c and host/ivshmem.c: answers and contexts belong to the
\* application that asked, every application is served and every poke arrives,
\* as long as no application exits while an answer to it is on its way.
ProxiesServe ==
  /\ [](PX!AnswersReachOwner /\ PX!ContextsInOwnApp)
  /\ PX!AppsServed /\ PX!PokesArrive

\* appif.c, kernel.c and context.c: a thread gets its own context, contexts are
\* polled only when registered, and every request is answered.
ContextsServed ==
  /\ [](RG!ContextIsOwn /\ RG!ReadyIsRegistered)
  /\ RG!RequestsAnswered
=============================================================================
