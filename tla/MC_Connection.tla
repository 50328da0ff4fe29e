--------------------------- MODULE MC_Connection ---------------------------
(***************************************************************************)
(* One run for an established connection: from application to application  *)
(* over the network (TcpStream), and between an application and its flow   *)
(* through the queues of a core (ConnBump, with lengths of its own).  A    *)
(* behaviour is about one of them: part says which, and the variables of   *)
(* the other stay as they were initially.                                  *)
(***************************************************************************)
EXTENDS MC_TcpStream

CONSTANTS Parts, Cores, AtxLen, ArxLen, CbSeqMod, CbLen, CbWnd, CbBumps

VARIABLES part, cfs, conn, atx, arx

CB == INSTANCE ConnBump WITH fs <- cfs, SeqMod <- CbSeqMod, TxLen <- CbLen,
                             RxLen <- CbLen, Mss <- 1, WndMax <- CbWnd,
                             BumpMax <- CbBumps

bumpVars == <<cfs, conn, atx, arx>>
suite == <<part, vars, bumpVars>>

SuiteInit ==
  /\ part \in Parts
  /\ Init /\ CB!Init
  /\ part # "stream" => plan = CHOOSE p \in Plans : TRUE

OnStream == part = "stream" /\ UNCHANGED <<part, bumpVars>>
OnBump   == part = "bump" /\ UNCHANGED <<part, vars>>

SuiteNext ==
  \/ OnStream /\ Next
  \/ \E n \in 1 .. CbLen : OnBump /\ CB!flextcp_connection_rx_done(n)
  \/ \E n \in 1 .. CbLen : OnBump /\ CB!flextcp_connection_tx_alloc(n)
  \/ \E n \in 1 .. CbLen : OnBump /\ CB!flextcp_connection_tx_send(n)
  \/ OnBump /\ CB!flextcp_connection_tx_close
  \/ OnBump /\ CB!conns_bump
  \/ OnBump /\ CB!Send
  \/ \E c \in Cores : OnBump /\ CB!event_kappin_conn_opened(c)
  \/ \E c \in Cores : OnBump /\ CB!event_arx_connupdate(c)
  \/ \E c \in Cores : OnBump /\ CB!PollAtx(c)
  \/ \E c \in Cores, n \in 0 .. 1, k \in 0 .. CbLen, fin \in BOOLEAN :
       OnBump /\ CB!Packet(c, n, k, fin)

SuiteSpec == SuiteInit /\ [][SuiteNext]_suite
-----------------------------------------------------------------------------
\* conn.c, init.c and fast_flows_bump: the connection's and the flow's
\* accounts of the two buffers and of the ends of the streams agree.
AccountsAgree == CB!AccountsAgree
=============================================================================
