---------------------------- MODULE MC_SlowPath ----------------------------
(***************************************************************************)
(* Instances of SlowPath: two contexts, one host behind a gateway.         *)
(***************************************************************************)
EXTENDS SlowPath

MCRoutes == << [net |-> {"h2"}, hop |-> "h1"], [net |-> {"h1"}, hop |-> NoIp] >>
MCIpOf == [r \in Remotes |-> IF r = "r3" THEN "h3" ELSE "h2"]
MCRemHash == [r \in Remotes |-> IF r = "r1" THEN 3 ELSE 6]

Plan(ops, flows) == [ops |-> ops, flows |-> flows]

\* Three opens compete for memory for two connections, and for two local ports
\* that a failed one does not give back; one may go to a host without a route;
\* one is closed again.
PlanOpen == {<<"open", 1, 1, "r1">>, <<"open", 1, 2, "r2">>, <<"open", 1, 2, "r3">>, <<"open", 1, 3, "r1">>,
             <<"close", 1, 1>>}

\* A listener, two accepts, two peers, and two closes.
PlanAccept == {<<"listen", 1, 3, 1, FALSE>>, <<"accept", 1, 1, 3>>, <<"accept", 1, 2, 3>>,
               <<"close", 1, 1>>, <<"close", 1, 2>>, <<"peer", "r1", TRUE>>, <<"peer", "r2", TRUE>>}

\* A server that is a client as well.
PlanBoth == {<<"listen", 1, 3, 1, FALSE>>, <<"accept", 1, 1, 3>>, <<"open", 1, 2, "r1">>,
             <<"close", 1, 1>>, <<"close", 1, 2>>, <<"peer", "r1", TRUE>>}

\* Two listeners share a port; the accepted connection moves and is closed.
PlanShare == {<<"listen", 1, 3, 1, TRUE>>, <<"listen", 2, 2, 1, TRUE>>, <<"accept", 1, 1, 3>>,
              <<"move", 2, 1>>, <<"lmove", 2, 3>>, <<"close", 2, 1>>, <<"peer", "r2", TRUE>>}

\* A process forks and both get the accepted connection.
PlanFork == {<<"fork", 2>>, <<"listen", 1, 3, 1, FALSE>>, <<"accept", 1, 1, 3>>, <<"peer", "r1", TRUE>>}

\* The SYN of a peer comes with a timestamp, then without, or the other way round.
PlanSyn == {<<"listen", 1, 3, 1, FALSE>>, <<"accept", 1, 1, 3>>, <<"accept", 1, 2, 3>>, <<"close", 1, 1>>,
            <<"peer", "r1", TRUE>>, <<"peer", "r1", FALSE>>}

\* One flow id for two opens, or for two accepts.
PlanFlowOpen == {<<"open", 1, 1, "r1">>, <<"open", 1, 2, "r2">>, <<"close", 1, 1>>}
PlanFlowAccept == {<<"listen", 1, 3, 1, FALSE>>, <<"accept", 1, 1, 3>>, <<"accept", 1, 2, 3>>,
                   <<"peer", "r1", TRUE>>, <<"peer", "r2", TRUE>>}

MCPlans == {Plan(ops, 2) : ops \in {PlanOpen, PlanAccept, PlanBoth, PlanShare, PlanFork, PlanSyn}}
             \cup {Plan(ops, 1) : ops \in {PlanFlowOpen, PlanFlowAccept}}
-----------------------------------------------------------------------------
\* tcp.c, appif_ctx.c, cc.c: every state is well formed, and no assertion fails.
WellFormed == TypeOK /\ NeverAborts

\* tcp.c, nicif.c, packetmem.c: flow ids and packet memory are held by live
\* connections, once, and by nobody else.
ResourcesConserved == FlowIdsOwned /\ BuffersConserved

\* tcp.c, arp.c, cc.c, appif.c: no list keeps a connection that was freed, no two
\* connections have the same four-tuple, and a SYN that waits in a backlog and an
\* accept that waits for one do not miss each other.
TablesConsistent == NoDangling /\ TupleUnique /\ NoStuckBacklog

\* appif_ctx.c and lib/tas: what the application has open is open in the slow
\* path, and every answer finds the state that asked for it.
ViewsAgree == AppConnBacked /\ AnswersExpected

\* tcp.c, arp.c, appif_ctx.c: a SYN-ACK leaves after the flow is installed, and
\* every open and every close is answered.
CallsAnswered == SynAckAfterFlow /\ OpenAnswered /\ CloseAnswered
=============================================================================
