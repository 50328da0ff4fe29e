----------------------------- MODULE FlowTable -----------------------------
(***************************************************************************)
(* The flow hash table of tas/slow/nicif.c, written by the slow path and   *)
(* read without a lock by the cores of the fast path.  An entry lives in   *)
(* one of the NBSZ slots from its hash on.  A connection whose slots are   *)
(* all taken gets one by moving other entries up.  Every store to the      *)
(* table, and every load of a lookup, is a step of its own.                *)
(***************************************************************************)
EXTENDS Integers, FiniteSets

CONSTANTS Entries,    \* FLEXNIC_PL_FLOWHT_ENTRIES
          NBSZ,       \* FLEXNIC_PL_FLOWHT_NBSZ
          Flows,      \* flow ids; a flow id stands for its 5-tuple too
          Hashes,     \* hashes of the 5-tuples
          MaxAdds     \* connections added in all: bound on SlotSearch

VARIABLES hte,        \* the table: flow id, VALID bit, position bits, hash
          hash,       \* flow_hash of each connection the fast path knows
          sp,         \* the slow path inside nicif_connection_add
          rd,         \* a core inside fast_flows_packet_fss
          adds,       \* connections added so far
          strayed     \* history: connections whose entry was moved to a slot
                      \* that a lookup does not read

vars == <<hte, hash, sp, rd, adds, strayed>>

NoSlot == -1
Slot == 0 .. Entries - 1
At(n) == n % Entries

Idle == [at |-> "idle", flow |-> NoSlot, h |-> 0, i |-> 0, k |-> 0]

Init == /\ hte = [s \in Slot |-> [flow |-> NoSlot, valid |-> FALSE,
                                  d |-> 0, h |-> 0]]
        /\ hash = [f \in Flows |-> NoSlot]
        /\ sp = Idle
        /\ rd = [at |-> "idle", flow |-> NoSlot, j |-> 0, ffid |-> NoSlot,
                 gone |-> FALSE]
        /\ adds = 0
        /\ strayed = {}

\* the first free slot of the n slots from s on, or NoSlot
FirstFree(s, n) ==
  LET free == {m \in 0 .. n - 1 : ~ hte[At(s + m)].valid}
  IN IF free = {} THEN NoSlot
     ELSE At(s + CHOOSE m \in free : \A o \in free : m <= o)

InRange(i, j) == At(i - j) < NBSZ

\* e is an entry of connection f, as a lookup sees it
IsEntry(e, f) == e.valid /\ e.h = hash[f] /\ e.flow = f

\* An entry without VALID: nobody reads its id and position any more, but a
\* lookup between its two loads still reads the hash.
Cleared(e) == [e EXCEPT !.valid = FALSE, !.flow = NoSlot, !.d = 0]
-----------------------------------------------------------------------------
\* nicif_connection_add, up to the free slot that flow_slot_alloc finds: in
\* the neighbourhood of the hash, or in the 4 * NBSZ slots behind it
SlotSearch(f, h) ==
  LET i == FirstFree(h, 5 * NBSZ)
  IN /\ sp.at = "idle"
     /\ hash[f] = NoSlot
     /\ i # NoSlot
     /\ adds < MaxAdds
     /\ adds' = adds + 1
     /\ sp' = [at |-> "alloc", flow |-> f, h |-> h, i |-> i, k |-> i]
     /\ UNCHANGED <<hte, hash, rd, strayed>>

\* "how much further this element can be moved", from the position bits
Movable(i, k) == At(k - i) <= NBSZ - 1 - hte[i].d

\* Mutation of MoveUp: the old entry is emptied before the copy is valid.
move_clears_first ==
  /\ sp.at = "move"
  /\ hte' = [hte EXCEPT ![sp.i].valid = FALSE]
  /\ sp' = [sp EXCEPT !.at = "move_id"]
  /\ UNCHANGED <<hash, rd, adds, strayed>>

\* The free slot is out of range: the first of the NBSZ entries below that
\* can be moved is picked.  When none can, the connection fails, and entries
\* moved so far stay where they are.
PickMove ==
  LET k == sp.i
      can == {m \in 1 .. NBSZ : Movable(At(k - m), k)}
  IN /\ sp.at = "alloc"
     /\ ~ InRange(k, sp.h)
     /\ sp' = IF can = {} THEN Idle
              ELSE [sp EXCEPT !.at = "move", !.k = k,
                      !.i = At(k - CHOOSE m \in can : \A o \in can : m >= o)]
     /\ UNCHANGED <<hte, hash, rd, adds, strayed>>

\* the three stores of a move: hash and then id of the copy, then the old id
MoveUp ==
  /\ sp.at = "move"
  /\ hte' = [hte EXCEPT ![sp.k].h = hte[sp.i].h]
  /\ sp' = [sp EXCEPT !.at = "move_id"]
  /\ UNCHANGED <<hash, rd, adds, strayed>>

MoveId ==
  /\ sp.at = "move_id"
  /\ hte' = [hte EXCEPT ![sp.k] = [@ EXCEPT !.valid = TRUE,
                                     !.flow = hte[sp.i].flow,
                                     !.d = hte[sp.i].d]]
  /\ sp' = [sp EXCEPT !.at = "move_clear"]
  /\ UNCHANGED <<hash, rd, adds, strayed>>

MoveClear ==
  /\ sp.at = "move_clear"
  /\ hte' = [hte EXCEPT ![sp.i] = Cleared(@)]
  /\ sp' = [sp EXCEPT !.at = "alloc"]
  /\ strayed' = strayed \cup
                  {f \in Flows : /\ IsEntry(hte[sp.i], f) /\ InRange(sp.i, hash[f])
                                 /\ ~ InRange(sp.k, hash[f])}
  /\ UNCHANGED <<hash, rd, adds>>

\* the end of nicif_connection_add: the flow state is complete, and the entry
\* gets its hash and then its id
InsertHash ==
  /\ sp.at = "alloc"
  /\ InRange(sp.i, sp.h)
  /\ hte' = [hte EXCEPT ![sp.i].h = sp.h]
  /\ sp' = [sp EXCEPT !.at = "insert"]
  /\ UNCHANGED <<hash, rd, adds, strayed>>

InsertId ==
  /\ sp.at = "insert"
  /\ hte' = [hte EXCEPT ![sp.i] = [@ EXCEPT !.valid = TRUE, !.flow = sp.flow,
                                     !.d = At(sp.i - sp.h)]]
  /\ hash' = [hash EXCEPT ![sp.flow] = sp.h]
  /\ sp' = Idle
  /\ strayed' = strayed \ {sp.flow}
  /\ UNCHANGED <<rd, adds>>

\* nicif_connection_disable: flow_slot_clear takes the VALID bit from the
\* first entry in the neighbourhood that has the flow's hash and id
flow_slot_clear(f) ==
  LET h == hash[f]
      is == {j \in 0 .. NBSZ - 1 : IsEntry(hte[At(h + j)], f)}
  IN /\ sp.at = "idle"
     /\ h # NoSlot
     /\ hte' = IF is = {} THEN hte
               ELSE LET j == CHOOSE j \in is : \A o \in is : j <= o
                    IN [hte EXCEPT ![At(h + j)] = Cleared(@)]
     /\ hash' = [hash EXCEPT ![f] = NoSlot]
     /\ rd' = [rd EXCEPT !.gone = @ \/ rd.flow = f]
     /\ UNCHANGED <<sp, adds, strayed>>
-----------------------------------------------------------------------------
\* fast_flows_packet_fss for a packet of flow f: the id of each slot, then
\* its hash, then the 5-tuple in the flow state
LookupStart(f) ==
  /\ rd.at = "idle"
  /\ hash[f] # NoSlot
  /\ rd' = [at |-> "id", flow |-> f, j |-> 0, ffid |-> NoSlot, gone |-> FALSE]
  /\ UNCHANGED <<hte, hash, sp, adds, strayed>>

h_rd == IF hash[rd.flow] = NoSlot THEN 0 ELSE hash[rd.flow]

LookupId ==
  /\ rd.at = "id"
  /\ ~ rd.gone
  /\ LET e == hte[At(h_rd + rd.j)]
     IN rd' = [rd EXCEPT !.at = "hash",
                         !.ffid = IF e.valid THEN e.flow ELSE NoSlot]
  /\ UNCHANGED <<hte, hash, sp, adds, strayed>>

LookupHash ==
  /\ rd.at = "hash"
  /\ ~ rd.gone
  /\ rd' = IF rd.ffid = rd.flow /\ hte[At(h_rd + rd.j)].h = h_rd
             THEN [rd EXCEPT !.at = "idle", !.flow = NoSlot, !.ffid = NoSlot, !.j = 0]
           ELSE IF rd.j + 1 < NBSZ
             THEN [rd EXCEPT !.at = "id", !.ffid = NoSlot, !.j = @ + 1]
             ELSE [rd EXCEPT !.at = "missed", !.ffid = NoSlot, !.j = 0]
  /\ UNCHANGED <<hte, hash, sp, adds, strayed>>

\* the packet is done with; one of a connection that went away meanwhile is
\* handed to the slow path whatever the rest of the lookup says
LookupEnd ==
  /\ rd.at = "missed" \/ rd.gone
  /\ rd' = [at |-> "idle", flow |-> NoSlot, j |-> 0, ffid |-> NoSlot,
            gone |-> FALSE]
  /\ UNCHANGED <<hte, hash, sp, adds, strayed>>

Next == \/ \E f \in Flows, h \in Hashes : SlotSearch(f, h)
        \/ PickMove \/ MoveUp \/ MoveId \/ MoveClear
        \/ InsertHash \/ InsertId
        \/ \E f \in Flows : flow_slot_clear(f)
        \/ \E f \in Flows : LookupStart(f)
        \/ LookupId \/ LookupHash \/ LookupEnd

Spec == Init /\ [][Next]_vars
-----------------------------------------------------------------------------
\* a valid entry of f in the slots that a lookup of f reads
Reachable(f) == \E j \in 0 .. NBSZ - 1 : IsEntry(hte[At(hash[f] + j)], f)

(***************************************************************************)
(* A core that looks up a connection while the slow path moves its entry   *)
(* finds it: the copy is valid before the old entry is emptied, and moves  *)
(* go the way the lookup reads.  Only a connection whose entry was moved   *)
(* out of its neighbourhood is missed, an error of the code: a move copies *)
(* the position bits, which are to say "how much further this element can  *)
(* be moved", instead of adding the distance.  The entries of all other    *)
(* connections stay where a lookup reads.                                  *)
(***************************************************************************)
LookupFinds ==
  /\ rd.at = "missed" /\ ~ rd.gone => rd.flow \in strayed
  /\ \A f \in Flows : hash[f] # NoSlot /\ f \notin strayed => Reachable(f)

(***************************************************************************)
(* flow_slot_alloc only takes what is free: the slot it moves an entry to, *)
(* and the slot it hands out, hold no valid entry, while the slots it may  *)
(* move an entry from all do (the two assertions of the code).             *)
(***************************************************************************)
SlotIsFree ==
  /\ sp.at \in {"alloc", "insert"} => ~ hte[sp.i].valid
  /\ sp.at = "alloc" /\ ~ InRange(sp.i, sp.h) =>
       \A m \in 1 .. NBSZ : hte[At(sp.i - m)].valid
  /\ sp.at = "move" => ~ hte[sp.k].valid /\ hte[sp.i].valid
=============================================================================
