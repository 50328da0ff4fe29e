---------------------------- MODULE MC_TcpStream ----------------------------
(***************************************************************************)
(* Instances of TcpStream.                                                 *)
(***************************************************************************)
EXTENDS TcpStream

\* A writes n bytes; the given ends close; atA acknowledgements and atB data
\* segments are under way at most
Plan(n, closers, atA, atB) ==
  [total |-> [s \in Side |-> IF s = "A" THEN n ELSE 0], closers |-> closers,
   room |-> [s \in Side |-> IF s = "A" THEN atA ELSE atB]]

\* a stream longer than the buffers, and ends that close at the same time
PlansSafe    == {Plan(3, {"A"}, 1, 2), Plan(1, Side, 1, 1)}
PlansLive    == {Plan(2, {"A"}, 1, 1)}
PlansOverrun == {Plan(5, {"B"}, 1, 1)}

\* both ends count from zero; or A's sequence numbers wrap after one byte
IsnZero == [s \in Side |-> 0]
IsnWrap == [s \in Side |-> IF s = "A" THEN SeqMod - 1 ELSE 0]
\* the fourth byte of A has the last number before the wrap
IsnLate == [s \in Side |-> IF s = "A" THEN SeqMod - 4 ELSE 0]
=============================================================================
