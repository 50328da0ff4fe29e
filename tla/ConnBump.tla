----------------------------- MODULE ConnBump -----------------------------
(***************************************************************************)
(* How an application's connection (lib/tas/conn.c, lib/tas/init.c) and    *)
(* its flow in the fast path keep each other informed.  Each fast-path     *)
(* core has a queue of bumps from the context (atx) and a queue of updates *)
(* to it (arx).  The connection sends its bumps to the core it last heard  *)
(* from; packets of the flow are handled by any core, because steering     *)
(* changes.  Both sides count buffer bytes, each byte of either buffer     *)
(* being accounted for by exactly one of them or by a message.             *)
(*                                                                         *)
(* The flow exists from the start; the application learns of it when the   *)
(* slow path's confirmation arrives, perhaps after the first updates.  The *)
(* peer's segments arrive in order here and its window is open: TcpStream  *)
(* treats the other cases.                                                 *)
(***************************************************************************)
EXTENDS FlowOps, Sequences, Functions

CONSTANTS Cores,     \* fast-path cores that get packets of the flow
          AtxLen,    \* entries of an atx queue
          ArxLen     \* entries of an arx queue

VARIABLES fs,     \* the flow
          conn,   \* struct flextcp_connection
          atx,    \* bumps on their way to each core
          arx     \* updates on their way to the application, by core

vars == <<fs, conn, atx, arx>>

\* flextcp_connection_open was called and the slow path has added the flow;
\* fn_core is not used before the connection is open
Init ==
  /\ fs = nicif_connection_add(0, 0)
  /\ \E c \in Cores :
       conn = [txb_sent |-> 0, txb_allocated |-> 0, txb_bump |-> 0,
               rxb_used |-> 0, rxb_bump |-> 0, bump_pending |-> FALSE,
               bump_seq |-> 0, fn_core |-> c, rx_closed |-> FALSE,
               open |-> FALSE, txeos |-> FALSE, txeos_alloc |-> FALSE, txeos_ack |-> FALSE]
  /\ atx = [c \in Cores |-> <<>>]
  /\ arx = [c \in Cores |-> <<>>]
-----------------------------------------------------------------------------
(* The application's calls *)

\* the confirmation of the slow path; bytes and the end of stream that came
\* before it are reported with it
event_kappin_conn_opened(k) ==
  /\ ~ conn.open
  /\ conn' = [conn EXCEPT !.open = TRUE, !.fn_core = k]
  /\ UNCHANGED <<fs, atx, arx>>

\* conn_tx_allocbytes
Room(c) == TxLen - (c.txb_sent + c.txb_allocated)

flextcp_connection_rx_done(n) ==
  /\ conn.open /\ n <= conn.rxb_used
  /\ conn' = [conn EXCEPT !.rxb_used = @ - n, !.rxb_bump = @ + n,
                          !.bump_pending = @ \/ conn.rxb_bump + n > RxLen \div 4]
  /\ UNCHANGED <<fs, atx, arx>>

flextcp_connection_tx_alloc(n) ==
  /\ conn.open /\ ~ conn.txeos /\ n <= Room(conn)
  /\ conn' = [conn EXCEPT !.txb_allocated = @ + n]
  /\ UNCHANGED <<fs, atx, arx>>

\* Mutation of flextcp_connection_tx_send: bytes not yet passed on are
\* forgotten.
tx_send_overwrite(n) ==
  /\ n <= conn.txb_allocated
  /\ conn' = [conn EXCEPT !.txb_allocated = @ - n, !.txb_sent = @ + n,
                          !.txb_bump = n, !.bump_pending = TRUE]
  /\ UNCHANGED <<fs, atx, arx>>

flextcp_connection_tx_send(n) ==
  /\ n <= conn.txb_allocated
  /\ conn' = [conn EXCEPT !.txb_allocated = @ - n, !.txb_sent = @ + n,
                          !.txb_bump = @ + n, !.bump_pending = TRUE]
  /\ UNCHANGED <<fs, atx, arx>>

\* one more byte for the FIN, if there is room; else at the next tx bump
flextcp_conn_pushtxeos(c) ==
  IF Room(c) = 0 THEN c
  ELSE [c EXCEPT !.txb_sent = @ + 1, !.txeos_alloc = TRUE,
                 !.txb_bump = @ + 1, !.bump_pending = TRUE]

flextcp_connection_tx_close ==
  /\ conn.open /\ conn.txb_allocated = 0 /\ ~ conn.txeos
  /\ conn' = flextcp_conn_pushtxeos([conn EXCEPT !.txeos = TRUE])
  /\ UNCHANGED <<fs, atx, arx>>

\* conns_bump, at the next poll of the context: one atx entry on the queue of
\* the connection's core, if there is space
conns_bump ==
  /\ conn.bump_pending /\ Len(atx[conn.fn_core]) < AtxLen
  /\ atx' = [atx EXCEPT ![conn.fn_core] =
               Append(@, [seq |-> conn.bump_seq, rx |-> conn.rxb_bump,
                          tx |-> conn.txb_bump, done |-> conn.txeos_alloc])]
  /\ conn' = [conn EXCEPT !.bump_seq = (@ + 1) % (BumpMax + 1),
                          !.rxb_bump = 0, !.txb_bump = 0, !.bump_pending = FALSE]
  /\ UNCHANGED <<fs, arx>>

\* a tx bump: the postponed FIN is queued now, or was the last byte
TxAcked(c, n) ==
  LET d == [c EXCEPT !.txb_sent = @ - n]
  IN IF n = 0 THEN c
     ELSE IF d.txeos /\ ~ d.txeos_alloc THEN flextcp_conn_pushtxeos(d)
     ELSE [d EXCEPT !.txeos_ack = @ \/ (d.txeos_alloc /\ d.txb_sent = 0)]

\* event_arx_connupdate for the oldest update of core k
event_arx_connupdate(k) ==
  /\ arx[k] # <<>>
  /\ LET u == Head(arx[k])
         c == [conn EXCEPT !.fn_core = k, !.rxb_used = @ + u.rx]
     IN conn' = [TxAcked(c, u.tx) EXCEPT !.rx_closed = u.fin \/ (conn.open /\ @)]
  /\ arx' = [arx EXCEPT ![k] = Tail(@)]
  /\ UNCHANGED <<fs, atx>>
-----------------------------------------------------------------------------
(* The fast path *)

\* an in-order segment of n bytes that acknowledges the first k bytes in
\* flight, on core c; arx_cache_add reports what it changed
Packet(c, n, k, fin) ==
  /\ n <= fs.rx_avail /\ k <= fs.tx_sent /\ (n + k > 0 \/ fin)
  /\ fs.rxfin => n = 0 /\ ~ fin
  /\ Len(arx[c]) < ArxLen
  /\ LET p == [kind |-> "data", seq |-> fs.rx_next_seq,
               ack |-> SeqAdd(fsack_a(fs), k), wnd |-> WndMax,
               fin |-> fin, len |-> n]
     IN /\ fs' = fast_flows_packet(fs, p)
        /\ arx' = [arx EXCEPT ![c] = Append(@, [rx |-> n, tx |-> k, fin |-> fin])]
  /\ UNCHANGED <<conn, atx>>

\* fast_flows_bump for the oldest bump of core c
PollAtx(c) ==
  /\ atx[c] # <<>>
  /\ fs' = fast_flows_bump(fs, Head(atx[c]))
  /\ atx' = [atx EXCEPT ![c] = Tail(@)]
  /\ UNCHANGED <<conn, arx>>

\* fast_flows_qman
Send ==
  /\ Avail(fs) > 0
  /\ fs' = fast_flows_qman(fs)
  /\ UNCHANGED <<conn, atx, arx>>

Next ==
  \/ \E n \in 1 .. RxLen : flextcp_connection_rx_done(n)
  \/ \E n \in 1 .. TxLen : \/ flextcp_connection_tx_alloc(n)
                           \/ flextcp_connection_tx_send(n)
  \/ flextcp_connection_tx_close
  \/ conns_bump
  \/ Send
  \/ \E c \in Cores :
       \/ event_kappin_conn_opened(c)
       \/ event_arx_connupdate(c)
       \/ PollAtx(c)
       \/ \E n \in 0 .. Mss, k \in 0 .. TxLen, fin \in BOOLEAN :
            Packet(c, n, k, fin)

Spec == Init /\ [][Next]_vars
-----------------------------------------------------------------------------
\* sum of a field over a set of queues
Sum(q, F(_)) ==
  FoldFunction(LAMBDA s, t : FoldFunction(LAMBDA m, u : F(m) + u, 0, s) + t, 0, q)
Rx(m) == m.rx
Tx(m) == m.tx

(***************************************************************************)
(* The two sides' accounts agree.                                          *)
(*                                                                         *)
(* No receive credit is lost: every byte of the receive buffer is free for *)
(* the flow, announced to the application, unread, read but not returned,  *)
(* or on its way back.  If one were lost the window would shrink for good. *)
(*                                                                         *)
(* No written byte is lost: what the connection counts as occupied in the  *)
(* transmit buffer is not yet passed on, on its way to the flow, waiting   *)
(* or in flight there, or acknowledged and on its way back.                *)
(*                                                                         *)
(* The application is told that its close was acknowledged only when the   *)
(* flow knows of the close and everything up to the FIN is acknowledged,   *)
(* and of the end of the peer's stream after all of its data.              *)
(***************************************************************************)
AccountsAgree ==
  /\ fs.rx_avail + Sum(arx, Rx) + conn.rxb_used + conn.rxb_bump + Sum(atx, Rx)
       = RxLen
  /\ conn.txb_bump + Sum(atx, Tx) + fs.tx_avail + fs.tx_sent + Sum(arx, Tx)
       = conn.txb_sent
  /\ conn.txeos_ack => fs.txfin /\ fs.tx_avail + fs.tx_sent = 0
  /\ conn.rx_closed => Sum(arx, Rx) = 0
=============================================================================
