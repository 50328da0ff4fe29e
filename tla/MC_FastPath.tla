---------------------------- MODULE MC_FastPath ----------------------------
(***************************************************************************)
(* Instances of FastPath.  The send side and the receive side of a flow    *)
(* meet only in the acknowledgement, so two kinds of instance are checked: *)
(* flows that send (empty segments, every acknowledgement number, on       *)
(* several cores) and a flow that receives (every segment, one core).      *)
(***************************************************************************)
EXTENDS FastPath

\* acknowledgements and window updates of any age: some arrive with the
\* expected sequence number, some from before it
AckSegs == [kind : {"data"}, seq : {0, SeqMod - 1}, ack : SeqNum,
            wnd : {0, TxLen - 1}, fin : {FALSE}, len : {0}]

\* the application writes
TxBumps == [seq : {0}, rx : {0}, tx : 1 .. TxLen, done : {FALSE}]

\* data segments of any position and length, with and without FIN, and
\* segments for the slow path
DataSegs == [kind : {"data"}, seq : SeqNum, ack : {0}, wnd : {0},
             fin : BOOLEAN, len : 0 .. Mss]
            \cup [kind : {"syn", "odd"}, seq : {0}, ack : {0}, wnd : {0},
                  fin : {FALSE}, len : {0}]

\* the application returns receive credit, and closes its own side
RxBumps == [seq : 0 .. BumpMax, rx : 0 .. RxLen, tx : {0}, done : {FALSE}]
           \cup [seq : {0}, rx : {0}, tx : {0, 1}, done : {TRUE}]
=============================================================================
