---------------------------- MODULE ByteStream ----------------------------
(***************************************************************************)
(* What a connection promises its two applications, whatever happens       *)
(* below: the bytes one end reads are the bytes the other end has written, *)
(* in order, none missing and none twice, and the end of the stream is     *)
(* reported when, and only when, all of them have been read.               *)
(***************************************************************************)
EXTENDS Naturals, Sequences

Side == {"A", "B"}
Peer(s) == IF s = "A" THEN "B" ELSE "A"

VARIABLES wr,       \* number of bytes written by each end; byte i is i
          closed,   \* ends that write no more
          out,      \* bytes read by each end
          eof       \* ends that have seen the end of the peer's stream

vars == <<wr, closed, out, eof>>

Init ==
  /\ wr = [s \in Side |-> 0]
  /\ closed = {}
  /\ out = [s \in Side |-> <<>>]
  /\ eof = {}

Write(s) ==
  /\ s \notin closed
  /\ wr' \in [Side -> Nat] /\ wr'[s] > wr[s] /\ wr'[Peer(s)] = wr[Peer(s)]
  /\ UNCHANGED <<closed, out, eof>>

Close(s) ==
  /\ closed' = closed \cup {s}
  /\ UNCHANGED <<wr, out, eof>>

\* s reads the next bytes of its peer, and perhaps its end
Read(s) ==
  /\ \E n \in Len(out[s]) .. wr[Peer(s)] :
       out' = [out EXCEPT ![s] = @ \o [k \in 1 .. n - Len(@) |-> Len(@) + k - 1]]
  /\ eof' \in {eof, eof \cup {s}}
  /\ s \in eof' => Peer(s) \in closed /\ Len(out'[s]) = wr[Peer(s)]
  /\ UNCHANGED <<wr, closed>>

Next == \E s \in Side : Write(s) \/ Close(s) \/ Read(s)

Spec == Init /\ [][Next]_vars
=============================================================================
