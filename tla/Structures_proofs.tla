-------------------------- MODULE Structures_proofs --------------------------
(***************************************************************************)
(* Proofs about two structures that one side reads while the other writes: *)
(* a lookup in the flow table finds its connection while flow_slot_alloc   *)
(* moves entries (FlowTable), for any size of the table and of the         *)
(* neighbourhoods, and a receive buffer is read in order (RxPieces), for   *)
(* any size of the buffer and of what is received and read.                *)
(***************************************************************************)
EXTENDS FlowTable, Sequences, WellFoundedInduction, TLAPS

\* The table is larger than what flow_slot_alloc searches, which
\* FLEXNIC_PL_FLOWHT_ENTRIES is by far.
Sizes ==
  /\ Entries \in Nat /\ NBSZ \in Nat \ {0} /\ 5 * NBSZ <= Entries
  /\ Hashes \subseteq Slot

\* how far slot s is from slot h on
Off(s, h) == IF s >= h THEN s - h ELSE s - h + Entries

(***************************************************************************)
(* The remainders that the code computes, without %.                       *)
(***************************************************************************)
LEMMA ModLemma ==
  \A m \in Nat \ {0} : \A x \in -m .. 2 * m - 1 :
    x % m = IF x < 0 THEN x + m ELSE IF x < m THEN x ELSE x - m
<1>1. \A m \in Nat \ {0} : \A x \in 0 .. m - 1 : x % m = x
  OBVIOUS
<1>2. \A m \in Nat \ {0} : \A x \in m .. 2 * m - 1 : x % m = x - m
  OBVIOUS
<1>3. \A m \in Nat \ {0} : \A x \in -m .. -1 : x % m = x + m
  OBVIOUS
<1> TAKE m \in Nat \ {0}
<1> TAKE x \in -m .. 2 * m - 1
<1>4. CASE x < 0
  BY <1>3, <1>4
<1>5. CASE x \in 0 .. m - 1
  BY <1>1, <1>5
<1>6. CASE x >= m
  BY <1>2, <1>6
<1> QED
  BY <1>4, <1>5, <1>6

\* A set of naturals has a least element, with which the searches of the code
\* are followed: the first slot that qualifies.
LEMMA LeastOf ==
  ASSUME NEW T, T \subseteq Nat, T # {}
  PROVE  \E x \in T : \A y \in T : x <= y
<1>1. PICK x \in T : \A y \in T : ~ (<<y, x>> \in OpToRel(<, Nat))
  BY Zenon, WFMin, NatLessThanWellFounded
<1>2. \A y \in T : ~ (y < x)
  BY <1>1 DEF OpToRel
<1> QED
  BY <1>2

\* Offsets and slots convert into each other as the code computes them.
LEMMA SlotLemma ==
  ASSUME Sizes, NEW s \in Slot, NEW h \in Slot
  PROVE  /\ At(s - h) = Off(s, h) /\ Off(s, h) \in Slot
         /\ At(h + Off(s, h)) = s
         /\ \A m \in Slot : At(h + m) \in Slot /\ Off(At(h + m), h) = m
         /\ \A m \in Slot : At(h - m) = Off(h, m) /\ Off(h, Off(h, m)) = m
<1>1. Entries \in Nat \ {0} /\ s \in 0 .. Entries - 1 /\ h \in 0 .. Entries - 1
  BY DEF Sizes, Slot
<1>2. \A x \in -Entries .. 2 * Entries - 1 :
        At(x) = IF x < 0 THEN x + Entries ELSE IF x < Entries THEN x ELSE x - Entries
  BY <1>1, ModLemma DEF At
<1> QED
  BY <1>1, <1>2 DEF Slot, Off

-----------------------------------------------------------------------------
\* what a slot may hold
Entry == [flow : Flows \cup {NoSlot}, valid : BOOLEAN, d : 0 .. NBSZ - 1, h : Slot]

\* the types of the table, of flow_slot_alloc, of a lookup and of the history
TypeOK ==
  /\ hte \in [Slot -> Entry] /\ hash \in [Flows -> Slot \cup {NoSlot}]
  /\ sp \in [at : {"idle", "alloc", "insert", "move", "move_id", "move_clear"},
             flow : Flows \cup {NoSlot}, h : Slot, i : Slot, k : Slot]
  /\ rd \in [at : {"idle", "id", "hash", "missed"}, flow : Flows \cup {NoSlot},
             j : 0 .. NBSZ - 1, ffid : Flows \cup {NoSlot}, gone : BOOLEAN]
  /\ strayed \subseteq Flows

\* entry e with the id and the VALID bit of connection f
Store(e, f, d) == [e EXCEPT !.valid = TRUE, !.flow = f, !.d = d]

\* every slot from h up to s is taken
Filled(h, s) == \A t \in Slot : Off(t, h) < Off(s, h) => hte[t].valid

\* flow_slot_alloc is moving the entry of slot i to slot k
Moving == sp.at \in {"move", "move_id", "move_clear"}

\* what flow_slot_alloc knows when it goes on
Allocating ==
  /\ sp.at # "idle" => sp.flow \in Flows /\ hash[sp.flow] = NoSlot
  /\ sp.at \in {"alloc", "insert"} => ~ hte[sp.i].valid
  /\ sp.at = "alloc" => Filled(sp.h, sp.i)
  /\ sp.at = "insert" => Off(sp.i, sp.h) < NBSZ /\ hte[sp.i].h = sp.h
  /\ Moving => /\ Filled(sp.h, sp.k) /\ Off(sp.k, sp.h) >= NBSZ
               /\ Off(sp.k, sp.i) \in 1 .. NBSZ - 1
  /\ sp.at \in {"move", "move_id"} => ~ hte[sp.k].valid
  /\ sp.at = "move_id" => hte[sp.k].h = hte[sp.i].h
  /\ sp.at = "move_clear" => /\ hte[sp.k].valid /\ hte[sp.k].h = hte[sp.i].h
                             /\ hte[sp.k].flow = hte[sp.i].flow

\* an entry of f is in the slots that a lookup of f reads from offset j on
Ahead(f, j) ==
  \E s \in Slot : IsEntry(hte[s], f) /\ j <= Off(s, hash[f]) /\ Off(s, hash[f]) < NBSZ

\* f is a connection that the slow path has registered
Registered(f) == f \in Flows /\ hash[f] # NoSlot

\* Every registered connection has an entry where lookups read it, unless an
\* entry of it strayed when its move was overtaken.
Listed == \A f \in Flows : hash[f] # NoSlot /\ f \notin strayed => Ahead(f, 0)

\* A lookup has its entry ahead of it, or in the slot whose id it just read.
Reader ==
  rd.at # "idle" /\ ~ rd.gone =>
    /\ Registered(rd.flow)
    /\ \/ rd.flow \in strayed
       \/ rd.at = "id" /\ Ahead(rd.flow, rd.j)
       \/ rd.at = "hash" /\ rd.ffid = rd.flow /\ Ahead(rd.flow, rd.j)
       \/ rd.at = "hash" /\ Ahead(rd.flow, rd.j + 1)

\* a step of the slow path does not take the entry of f from a lookup
Kept(f) ==
  hash[f] # NoSlot /\ hash'[f] # NoSlot /\ f \notin strayed' =>
    /\ f \notin strayed /\ hash'[f] = hash[f]
    /\ \A j \in Nat : Ahead(f, j) => Ahead(f, j)'

\* the inductive invariant
IInv == TypeOK /\ Allocating /\ Listed /\ Reader

(***************************************************************************)
(* FirstFree of flow_slot_alloc: a free slot, and everything up to it is   *)
(* taken.                                                                  *)
(***************************************************************************)
LEMMA FirstFreeLemma ==
  ASSUME Sizes, TypeOK, NEW h \in Slot, NEW s, s = FirstFree(h, 5 * NBSZ), s # NoSlot
  PROVE  s \in Slot /\ ~ hte[s].valid /\ Filled(h, s)
<1> DEFINE free == {m \in 0 .. 5 * NBSZ - 1 : ~ hte[At(h + m)].valid}
           first(m) == m \in free /\ \A o \in free : m <= o
<1>1. free # {} /\ s = At(h + CHOOSE m \in free : \A o \in free : m <= o)
  BY Zenon DEF FirstFree
<1>2. \E m \in free : \A o \in free : m <= o
  <2>1. free \subseteq Nat
    BY DEF Sizes
  <2> HIDE DEF free
  <2> QED
    BY <1>1, <2>1, LeastOf
<1>3. PICK m \in free : (\A o \in free : m <= o) /\ s = At(h + m)
  <2> HIDE DEF free
  <2> QED
    BY <1>1, <1>2, Zenon
<1>4. m \in Slot /\ ~ hte[At(h + m)].valid
  BY DEF Sizes, Slot
<1>5. s \in Slot /\ Off(s, h) = m
  BY <1>3, <1>4, SlotLemma
<1>6. ASSUME NEW t \in Slot, Off(t, h) < Off(s, h)
      PROVE  hte[t].valid
  <2>1. Off(t, h) \in Slot /\ At(h + Off(t, h)) = t
    BY SlotLemma
  <2>2. Off(t, h) \notin free
    BY <1>3, <1>5, <1>6, <2>1 DEF Slot, Sizes
  <2>3. Off(t, h) \in 0 .. 5 * NBSZ - 1
    BY <1>3, <1>5, <1>6, <2>1 DEF Slot, Sizes
  <2> QED
    BY <2>1, <2>2, <2>3, Zenon
<1> QED
  BY <1>3, <1>4, <1>5, <1>6 DEF Filled

(***************************************************************************)
(* What PickMove picks: an entry at most NBSZ - 1 slots below the free one.*)
(***************************************************************************)
LEMMA PickLemma ==
  ASSUME Sizes, TypeOK, PickMove, NEW can,
         can = {m \in 1 .. NBSZ : Movable(At(sp.i - m), sp.i)}, can # {}
  PROVE  \E m \in 1 .. NBSZ - 1 : /\ sp' = [sp EXCEPT !.at = "move", !.k = sp.i,
                                                      !.i = Off(sp.i, m)]
                                  /\ m \in Slot
<1>1. \E m \in can : \A o \in can : m >= o
  <2>1. {NBSZ - m : m \in can} \subseteq Nat /\ {NBSZ - m : m \in can} # {}
    BY DEF Sizes
  <2>2. PICK x \in {NBSZ - m : m \in can} : \A y \in {NBSZ - m : m \in can} : x <= y
    BY <2>1, LeastOf
  <2>3. PICK m \in can : x = NBSZ - m
    BY <2>2
  <2>4. \A o \in can : NBSZ - o \in {NBSZ - n : n \in can}
    OBVIOUS
  <2>5. \A o \in can : o \in Int
    OBVIOUS
  <2>6. ASSUME NEW o \in can
        PROVE  m >= o
    <3>1. x <= NBSZ - o
      BY <2>2, <2>4
    <3> QED
      BY <2>3, <2>5, <3>1 DEF Sizes
  <2> QED
    BY <2>6
<1>2. PICK m \in can : sp' = [sp EXCEPT !.at = "move", !.k = sp.i, !.i = At(sp.i - m)]
  BY <1>1, Zenon DEF PickMove
<1>3. m \in Slot /\ sp.i \in Slot /\ m \in 1 .. NBSZ
  BY DEF Sizes, Slot, TypeOK
<1>4. At(sp.i - m) = Off(sp.i, m) /\ Off(sp.i, Off(sp.i, m)) = m /\ Off(sp.i, m) \in Slot
  BY <1>3, SlotLemma
<1>5. Movable(Off(sp.i, m), sp.i)
  BY <1>4
<1>6. At(sp.i - Off(sp.i, m)) = m
  <2>1. \A s, h \in Slot : At(s - h) = Off(s, h)
    BY SlotLemma
  <2> QED
    BY <1>3, <1>4, <2>1
<1>7. hte[Off(sp.i, m)].d \in 0 .. NBSZ - 1
  BY <1>4 DEF TypeOK, Entry
<1>8. m <= NBSZ - 1
  BY <1>3, <1>5, <1>6, <1>7 DEF Movable, Sizes
<1>9. sp' = [sp EXCEPT !.at = "move", !.k = sp.i, !.i = Off(sp.i, m)]
  BY <1>2, <1>4
<1>10. m \in 1 .. NBSZ - 1
  BY <1>3, <1>8 DEF Sizes
<1> QED
  BY <1>3, <1>9, <1>10, Zenon

(***************************************************************************)
(* Stores to the fields of an entry, and of the state of a lookup.         *)
(***************************************************************************)
LEMMA Stored ==
  ASSUME NEW e \in Entry, NEW f \in Flows \cup {NoSlot}, NEW d \in 0 .. NBSZ - 1
  PROVE  /\ Store(e, f, d) \in Entry /\ Store(e, f, d).valid
         /\ Store(e, f, d).flow = f /\ Store(e, f, d).h = e.h
<1> DEFINE x == Store(e, f, d)
<1>1. x.valid = TRUE /\ x.flow = f /\ x.h = e.h
  BY DEF Entry, Store
<1>2. x \in Entry
  BY DEF Entry, Store
<1> QED
  BY <1>1, <1>2

\* Invalidating an entry leaves its hash.
LEMMA ClearedType ==
  ASSUME NEW e \in Entry, Sizes
  PROVE  Cleared(e) \in Entry /\ ~ Cleared(e).valid /\ Cleared(e).h = e.h
<1> DEFINE x == Cleared(e)
<1>1. x.valid = FALSE /\ x.h = e.h
  BY DEF Entry, Cleared
<1>2. 0 \in 0 .. NBSZ - 1
  BY DEF Sizes
<1>3. x \in Entry
  BY <1>2 DEF Entry, Cleared
<1> QED
  BY <1>1, <1>3

(***************************************************************************)
(* The three ends of LookupHash: found, the next slot, missed.             *)
(***************************************************************************)
LEMMA LookupHashIs ==
  ASSUME TypeOK, LookupHash, Sizes
  PROVE  \E a \in {"idle", "id", "hash", "missed"}, f \in Flows \cup {NoSlot},
            j \in 0 .. NBSZ - 1 :
           rd' = [rd EXCEPT !.at = a, !.flow = f, !.ffid = NoSlot, !.j = j]
<1> DEFINE A == {"idle", "id", "hash", "missed"}
           F == Flows \cup {NoSlot}
           J == 0 .. NBSZ - 1
           found == rd.ffid = rd.flow /\ hte[At(h_rd + rd.j)].h = h_rd
<1>1. /\ rd \in [at : A, flow : F, j : J, ffid : F, gone : BOOLEAN]
      /\ 0 \in J /\ NoSlot \in F /\ rd.flow \in F /\ rd.j \in Nat
  BY DEF TypeOK, Sizes
<1>2. "idle" \in A /\ "id" \in A /\ "missed" \in A
  OBVIOUS
<1>3. CASE found
  <2>1. rd' = [rd EXCEPT !.at = "idle", !.flow = NoSlot, !.ffid = NoSlot, !.j = 0]
    BY <1>3 DEF LookupHash
  <2> HIDE DEF A, F, J, found
  <2> QED
    BY <1>1, <1>2, <2>1, Zenon DEF A, F, J
<1>4. CASE ~ found /\ rd.j + 1 < NBSZ
  <2>1. rd.j + 1 \in J
    BY <1>1, <1>4 DEF Sizes
  <2>2. rd' = [rd EXCEPT !.at = "id", !.ffid = NoSlot, !.j = rd.j + 1]
    BY <1>4 DEF LookupHash
  <2>3. rd' = [rd EXCEPT !.at = "id", !.flow = rd.flow, !.ffid = NoSlot, !.j = rd.j + 1]
    BY <1>1, <2>2
  <2> HIDE DEF A, F, J, found
  <2> QED
    BY <1>1, <1>2, <2>1, <2>3, Zenon DEF A, F, J
<1>5. CASE ~ found /\ ~ (rd.j + 1 < NBSZ)
  <2>2. rd' = [rd EXCEPT !.at = "missed", !.ffid = NoSlot, !.j = 0]
    BY <1>5 DEF LookupHash
  <2>3. rd' = [rd EXCEPT !.at = "missed", !.flow = rd.flow, !.ffid = NoSlot, !.j = 0]
    BY <1>1, <2>2
  <2> HIDE DEF A, F, J, found
  <2> QED
    BY <1>1, <1>2, <2>3, Zenon DEF A, F, J
<1> QED
  BY <1>3, <1>4, <1>5

(***************************************************************************)
(* Every step keeps the types.                                             *)
(***************************************************************************)
LEMMA TypeStep == Sizes /\ IInv /\ [Next]_vars => TypeOK'
<1> SUFFICES ASSUME Sizes, IInv, [Next]_vars
             PROVE  TypeOK'
  OBVIOUS
<1> USE DEF TypeOK
<1>0. TypeOK /\ 0 \in Slot /\ Hashes \subseteq Slot /\ Idle.i \in Slot /\ NBSZ \in Nat \ {0}
  BY DEF IInv, Slot, Sizes, Idle
<1>1. ASSUME NEW f \in Flows, NEW h \in Hashes, SlotSearch(f, h)
      PROVE  TypeOK'
  BY <1>0, <1>1, FirstFreeLemma DEF SlotSearch
<1>2. CASE PickMove
  <2> DEFINE can == {m \in 1 .. NBSZ : Movable(At(sp.i - m), sp.i)}
  <2>1. CASE can = {}
    BY <1>0, <1>2, <2>1 DEF PickMove, Idle
  <2>2. CASE can # {}
    <3>1. PICK m \in 1 .. NBSZ - 1 :
            m \in Slot /\ sp' = [sp EXCEPT !.at = "move", !.k = sp.i, !.i = Off(sp.i, m)]
      BY <1>0, <1>2, <2>2, PickLemma
    <3>2. Off(sp.i, m) \in Slot
      BY <1>0, <3>1, SlotLemma
    <3> QED
      BY <1>0, <1>2, <3>1, <3>2 DEF PickMove
  <2> QED
    BY <2>1, <2>2
<1>3. CASE MoveUp
  BY <1>0, <1>3 DEF MoveUp, Entry
<1>4. CASE MoveId
  <2>1. hte' = [hte EXCEPT ![sp.k] = Store(hte[sp.k], hte[sp.i].flow, hte[sp.i].d)]
    BY <1>4 DEF MoveId, Store
  <2>2. /\ hte[sp.k] \in Entry /\ hte[sp.i].flow \in Flows \cup {NoSlot}
        /\ hte[sp.i].d \in 0 .. NBSZ - 1
    BY <1>0 DEF Entry
  <2>3. Store(hte[sp.k], hte[sp.i].flow, hte[sp.i].d) \in Entry
    BY <2>2, Stored
  <2>4. hte' \in [Slot -> Entry]
    BY <1>0, <2>1, <2>3
  <2> QED
    BY <1>0, <1>4, <2>4 DEF MoveId
<1>5. CASE MoveClear
  <2>1. hte' \in [Slot -> Entry]
    BY <1>0, <1>5, ClearedType DEF MoveClear
  <2>2. strayed' \subseteq Flows
    BY <1>0, <1>5 DEF MoveClear
  <2> QED
    BY <1>0, <1>5, <2>1, <2>2 DEF MoveClear
<1>6. CASE InsertHash
  BY <1>0, <1>6 DEF InsertHash, Entry
<1>7. CASE InsertId
  <2>1. At(sp.i - sp.h) \in 0 .. NBSZ - 1
    <3>1. sp.i \in Slot /\ sp.h \in Slot /\ Off(sp.i, sp.h) < NBSZ
      BY <1>0, <1>7 DEF InsertId, IInv, Allocating
    <3>2. At(sp.i - sp.h) = Off(sp.i, sp.h) /\ Off(sp.i, sp.h) \in Slot
      BY <3>1, SlotLemma
    <3> QED
      BY <3>1, <3>2 DEF Slot, Sizes
  <2>2. sp.flow \in Flows
    BY <1>7 DEF InsertId, IInv, Allocating
  <2>3. hte' = [hte EXCEPT ![sp.i] = Store(hte[sp.i], sp.flow, At(sp.i - sp.h))]
    BY <1>7 DEF InsertId, Store
  <2>4. hte' \in [Slot -> Entry]
    BY <1>0, <2>1, <2>2, <2>3, Stored
  <2>5. hash' \in [Flows -> Slot \cup {NoSlot}] /\ strayed' \subseteq Flows
    BY <1>0, <1>7, <2>2 DEF InsertId
  <2> QED
    BY <1>0, <1>7, <2>4, <2>5 DEF InsertId, Idle
<1>8. ASSUME NEW f \in Flows, flow_slot_clear(f)
      PROVE  TypeOK'
  <2>1. hte' = hte \/ \E s : hte' = [hte EXCEPT ![s] = Cleared(@)]
    BY <1>8 DEF flow_slot_clear
  <2>2. hte' \in [Slot -> Entry]
    BY <1>0, <2>1, ClearedType
  <2> QED
    BY <1>0, <1>8, <2>2 DEF flow_slot_clear
<1>9. ASSUME NEW f \in Flows, LookupStart(f)
      PROVE  TypeOK'
  BY <1>0, <1>9 DEF LookupStart
<1>10. CASE LookupId
  <2>1. At(h_rd + rd.j) \in Slot
    <3>1. rd.j \in Slot /\ h_rd \in Slot
      BY <1>0, <1>10 DEF LookupId, IInv, Reader, Registered, Slot, Sizes, h_rd
    <3> QED
      BY <3>1, SlotLemma
  <2> QED
    BY <1>0, <1>10, <2>1 DEF LookupId, Entry
<1>11. CASE LookupHash
  <2>1. PICK a \in {"idle", "id", "hash", "missed"}, f \in Flows \cup {NoSlot},
             j \in 0 .. NBSZ - 1 :
          rd' = [rd EXCEPT !.at = a, !.flow = f, !.ffid = NoSlot, !.j = j]
    BY <1>0, <1>11, LookupHashIs
  <2> QED
    BY <1>0, <1>11, <2>1 DEF LookupHash
<1>12. CASE LookupEnd
  BY <1>0, <1>12 DEF LookupEnd
<1>13. CASE UNCHANGED vars
  BY <1>0, <1>13 DEF vars
<1> QED
  BY <1>1, <1>2, <1>3, <1>4, <1>5, <1>6, <1>7, <1>8, <1>9, <1>10, <1>11, <1>12, <1>13
     DEF Next

(***************************************************************************)
(* What each store does to the table.                                      *)
(***************************************************************************)
LEMMA MoveUpStores ==
  ASSUME TypeOK, MoveUp, Allocating
  PROVE  /\ \A s \in Slot : s # sp.k => hte'[s] = hte[s]
         /\ ~ hte'[sp.k].valid /\ hte'[sp.k].h = hte[sp.i].h
BY DEF TypeOK, MoveUp, Entry, Allocating

\* The second step of a move makes slot k a copy of the entry of slot i.
LEMMA MoveIdStores ==
  ASSUME TypeOK, MoveId, Allocating
  PROVE  /\ \A s \in Slot : s # sp.k => hte'[s] = hte[s]
         /\ hte'[sp.k].valid /\ hte'[sp.k].h = hte[sp.i].h
         /\ hte'[sp.k].flow = hte[sp.i].flow
<1>1. /\ sp.k \in Slot /\ hte[sp.k] \in Entry /\ hte[sp.i].flow \in Flows \cup {NoSlot}
      /\ hte[sp.i].d \in 0 .. NBSZ - 1 /\ hte[sp.k].h = hte[sp.i].h
  BY DEF TypeOK, Entry, MoveId, Allocating
<1>2. hte' = [hte EXCEPT ![sp.k] = Store(hte[sp.k], hte[sp.i].flow, hte[sp.i].d)]
  BY DEF MoveId, Store
<1>3. hte'[sp.k] = Store(hte[sp.k], hte[sp.i].flow, hte[sp.i].d)
  BY <1>1, <1>2 DEF TypeOK
<1>4. \A s \in Slot : s # sp.k => hte'[s] = hte[s]
  BY <1>2 DEF TypeOK
<1> QED
  BY <1>1, <1>3, <1>4, Stored

\* The last step of a move invalidates slot i alone.
LEMMA MoveClearStores ==
  ASSUME TypeOK, MoveClear, Sizes
  PROVE  (\A s \in Slot : s # sp.i => hte'[s] = hte[s]) /\ ~ hte'[sp.i].valid
<1>1. sp.i \in Slot /\ hte[sp.i] \in Entry
  BY DEF TypeOK
<1>2. hte'[sp.i] = Cleared(hte[sp.i])
  BY <1>1 DEF TypeOK, MoveClear
<1>3. \A s \in Slot : s # sp.i => hte'[s] = hte[s]
  BY DEF TypeOK, MoveClear
<1> QED
  BY <1>1, <1>2, <1>3, ClearedType

\* The first step of an insertion writes the hash of a slot that no lookup uses.
LEMMA InsertHashStores ==
  ASSUME TypeOK, InsertHash, Allocating
  PROVE  /\ \A s \in Slot : s # sp.i => hte'[s] = hte[s]
         /\ ~ hte'[sp.i].valid /\ hte'[sp.i].h = sp.h
BY DEF TypeOK, InsertHash, Entry, Allocating

\* The last step of an insertion makes the slot an entry of the connection.
LEMMA InsertIdStores ==
  ASSUME TypeOK, InsertId, Allocating, Sizes
  PROVE  /\ \A s \in Slot : s # sp.i => hte'[s] = hte[s]
         /\ hte'[sp.i].valid /\ hte'[sp.i].h = sp.h /\ hte'[sp.i].flow = sp.flow
<1>1. /\ sp.i \in Slot /\ hte[sp.i] \in Entry /\ sp.flow \in Flows \cup {NoSlot}
      /\ sp.h \in Slot /\ hte[sp.i].h = sp.h /\ Off(sp.i, sp.h) < NBSZ
  BY DEF TypeOK, Entry, InsertId, Allocating
<1>2. At(sp.i - sp.h) \in 0 .. NBSZ - 1
  <2>1. At(sp.i - sp.h) = Off(sp.i, sp.h) /\ Off(sp.i, sp.h) \in Slot
    BY <1>1, SlotLemma
  <2> QED
    BY <1>1, <2>1 DEF Slot, Sizes
<1>3. hte'[sp.i] = Store(hte[sp.i], sp.flow, At(sp.i - sp.h))
  BY <1>1 DEF InsertId, Store, TypeOK
<1>4. \A s \in Slot : s # sp.i => hte'[s] = hte[s]
  BY DEF InsertId, TypeOK
<1> QED
  BY <1>1, <1>2, <1>3, <1>4, Stored

\* flow_slot_clear takes the VALID bit from an entry of f, or from none
LEMMA ClearStores ==
  ASSUME TypeOK, NEW f \in Flows, flow_slot_clear(f), Sizes
  PROVE  \A s \in Slot : hte'[s] = hte[s] \/ (hte[s].valid /\ hte[s].flow = f)
<1> DEFINE is == {j \in 0 .. NBSZ - 1 : IsEntry(hte[At(hash[f] + j)], f)}
<1>1. CASE is = {}
  BY <1>1 DEF flow_slot_clear
<1>2. CASE is # {}
  <2>1. is \subseteq Nat
    BY DEF Sizes
  <2>2. \E j \in is : \A o \in is : j <= o
    <3> HIDE DEF is
    <3> QED
      BY <1>2, <2>1, LeastOf
  <2>3. PICK j \in is : hte' = [hte EXCEPT ![At(hash[f] + j)] = Cleared(@)]
    BY <1>2, <2>2, Zenon DEF flow_slot_clear
  <2>4. IsEntry(hte[At(hash[f] + j)], f)
    OBVIOUS
  <2>5. hte[At(hash[f] + j)].valid /\ hte[At(hash[f] + j)].flow = f
    BY <2>4 DEF IsEntry
  <2> QED
    BY <2>3, <2>5 DEF TypeOK
<1> QED
  BY <1>1, <1>2

(***************************************************************************)
(* Every step keeps what flow_slot_alloc knows.                            *)
(***************************************************************************)
LEMMA AllocatingStep == Sizes /\ IInv /\ [Next]_vars => Allocating'
<1> SUFFICES ASSUME Sizes, IInv, [Next]_vars
             PROVE  Allocating'
  OBVIOUS
<1>0. /\ TypeOK /\ Allocating /\ sp.i \in Slot /\ sp.k \in Slot /\ sp.h \in Slot
      /\ Hashes \subseteq Slot /\ NBSZ \in Nat \ {0} /\ 5 * NBSZ <= Entries
      /\ Entries \in Nat
  BY DEF IInv, TypeOK, Sizes
<1>a. \A s, h \in Slot : At(s - h) = Off(s, h) /\ Off(s, h) \in 0 .. Entries - 1
  BY <1>0, SlotLemma DEF Slot
<1>1. ASSUME NEW f \in Flows, NEW h \in Hashes, SlotSearch(f, h)
      PROVE  Allocating'
  <2>1. PICK i \in Slot : /\ ~ hte[i].valid /\ Filled(h, i)
                          /\ sp' = [at |-> "alloc", flow |-> f, h |-> h, i |-> i, k |-> i]
    BY <1>0, <1>1, FirstFreeLemma DEF SlotSearch
  <2> QED
    BY <1>0, <1>1, <2>1 DEF SlotSearch, Allocating, Filled, Moving
<1>2. CASE PickMove
  <2> DEFINE can == {m \in 1 .. NBSZ : Movable(At(sp.i - m), sp.i)}
  <2>1. CASE can = {}
    BY <1>0, <1>2, <2>1 DEF PickMove, Idle, Allocating, Moving
  <2>2. CASE can # {}
    <3>1. PICK m \in 1 .. NBSZ - 1 :
            m \in Slot /\ sp' = [sp EXCEPT !.at = "move", !.k = sp.i, !.i = Off(sp.i, m)]
      BY <1>0, <1>2, <2>2, PickLemma
    <3>2. Off(sp.i, m) \in Slot /\ Off(sp.i, Off(sp.i, m)) = m
      BY <1>0, <3>1, SlotLemma
    <3>3. Off(sp.i, sp.h) >= NBSZ
      BY <1>0, <1>2, <1>a DEF PickMove, InRange
    <3>4. /\ sp'.at = "move" /\ sp'.k = sp.i /\ sp'.i = Off(sp.i, m) /\ sp'.h = sp.h
          /\ sp'.flow = sp.flow
      BY <1>0, <3>1 DEF TypeOK
    <3> QED
      BY <1>0, <1>2, <3>1, <3>2, <3>3, <3>4 DEF PickMove, Allocating, Filled, Moving
  <2> QED
    BY <2>1, <2>2
<1>b. Moving => sp.i # sp.k /\ Off(sp.i, sp.h) < Off(sp.k, sp.h)
  <2> HAVE Moving
  <2>1. Off(sp.k, sp.i) \in 1 .. NBSZ - 1 /\ Off(sp.k, sp.h) >= NBSZ
    BY <1>0 DEF Allocating
  <2> QED
    BY <1>0, <2>1 DEF Off, Slot
<1>c. MoveUp \/ MoveId \/ MoveClear => Moving
  BY DEF MoveUp, MoveId, MoveClear, Moving
<1>3. CASE MoveUp
  <2>1. /\ sp'.at = "move_id" /\ sp'.k = sp.k /\ sp'.i = sp.i /\ sp'.h = sp.h
        /\ sp'.flow = sp.flow /\ hash' = hash
    BY <1>0, <1>3 DEF TypeOK, MoveUp
  <2>2. \A s \in Slot : hte[s].valid => hte'[s].valid
    BY <1>0, <1>3, MoveUpStores DEF Allocating, MoveUp
  <2>3. ~ hte'[sp.k].valid /\ hte'[sp.k].h = hte'[sp.i].h
    BY <1>0, <1>b, <1>c, <1>3, MoveUpStores
  <2> QED
    BY <1>0, <1>3, <1>c, <2>1, <2>2, <2>3 DEF Allocating, Filled, Moving
<1>4. CASE MoveId
  <2>1. /\ sp'.at = "move_clear" /\ sp'.k = sp.k /\ sp'.i = sp.i /\ sp'.h = sp.h
        /\ sp'.flow = sp.flow /\ hash' = hash
    BY <1>0, <1>4 DEF TypeOK, MoveId
  <2>2. \A s \in Slot : hte[s].valid => hte'[s].valid
    BY <1>0, <1>4, MoveIdStores
  <2>3. /\ hte'[sp.k].valid /\ hte'[sp.k].h = hte'[sp.i].h
        /\ hte'[sp.k].flow = hte'[sp.i].flow
    BY <1>0, <1>b, <1>c, <1>4, MoveIdStores
  <2> QED
    BY <1>0, <1>4, <1>c, <2>1, <2>2, <2>3 DEF Allocating, Filled, Moving
<1>5. CASE MoveClear
  <2>1. /\ sp'.at = "alloc" /\ sp'.i = sp.i /\ sp'.h = sp.h
        /\ sp'.flow = sp.flow /\ hash' = hash
    BY <1>0, <1>5 DEF TypeOK, MoveClear
  <2>2. ASSUME NEW t \in Slot, Off(t, sp.h) < Off(sp.i, sp.h)
        PROVE  hte'[t].valid
    <3>1. t # sp.i
      BY <1>0, <1>a, <2>2
    <3>2. Off(t, sp.h) < Off(sp.k, sp.h)
      BY <1>0, <1>5, <1>a, <1>b, <1>c, <2>2
    <3> QED
      BY <1>0, <1>b, <1>c, <1>5, <3>1, <3>2, MoveClearStores DEF Allocating, Filled
  <2>3. ~ hte'[sp.i].valid
    BY <1>0, <1>5, MoveClearStores
  <2> QED
    BY <1>0, <1>5, <1>c, <2>1, <2>2, <2>3 DEF Allocating, Filled, Moving
<1>6. CASE InsertHash
  <2>1. /\ sp'.at = "insert" /\ sp'.i = sp.i /\ sp'.h = sp.h /\ sp'.flow = sp.flow
        /\ hash' = hash
    BY <1>0, <1>6 DEF TypeOK, InsertHash
  <2>2. Off(sp.i, sp.h) < NBSZ
    BY <1>0, <1>6, <1>a DEF InsertHash, InRange
  <2>3. ~ hte'[sp.i].valid /\ hte'[sp.i].h = sp.h
    BY <1>0, <1>6, InsertHashStores
  <2>4. sp.flow \in Flows /\ hash[sp.flow] = NoSlot
    BY <1>0, <1>6 DEF Allocating, InsertHash
  <2> QED
    BY <2>1, <2>2, <2>3, <2>4 DEF Allocating, Moving
<1>7. CASE InsertId
  BY <1>7 DEF InsertId, Idle, Allocating, Moving
<1>8. ASSUME NEW f \in Flows, flow_slot_clear(f)
      PROVE  Allocating'
  BY <1>8 DEF flow_slot_clear, Allocating, Moving
<1>9. ASSUME UNCHANGED <<hte, hash, sp>>
      PROVE  Allocating'
  BY <1>0, <1>9 DEF Allocating, Moving, Filled
<1>10. ASSUME (\E f \in Flows : LookupStart(f)) \/ LookupId \/ LookupHash \/ LookupEnd
              \/ UNCHANGED vars
       PROVE  UNCHANGED <<hte, hash, sp>>
  BY <1>10 DEF LookupStart, LookupId, LookupHash, LookupEnd, vars
<1> QED
  BY <1>1, <1>2, <1>3, <1>4, <1>5, <1>6, <1>7, <1>8, <1>9, <1>10 DEF Next

(***************************************************************************)
(* A connection that stays registered and does not stray keeps an entry    *)
(* where a lookup still gets to.                                           *)
(***************************************************************************)
LEMMA AheadStep == Sizes /\ IInv /\ [Next]_vars => \A f \in Flows : Kept(f)
<1> SUFFICES ASSUME Sizes, IInv, [Next]_vars, NEW f \in Flows,
                    hash[f] # NoSlot, hash'[f] # NoSlot, f \notin strayed'
             PROVE  /\ f \notin strayed /\ hash'[f] = hash[f]
                    /\ \A j \in Nat : Ahead(f, j) => Ahead(f, j)'
  BY Zenon DEF Kept
<1>0. /\ TypeOK /\ Allocating /\ sp.i \in Slot /\ sp.k \in Slot /\ sp.h \in Slot
      /\ hash[f] \in Slot /\ NBSZ \in Nat \ {0} /\ 5 * NBSZ <= Entries /\ Entries \in Nat
  BY DEF IInv, TypeOK, Sizes
<1>a. ASSUME hash'[f] = hash[f], strayed' = strayed \/ f \notin strayed,
             \A s \in Slot : IsEntry(hte[s], f) => hte'[s] = hte[s]
      PROVE  /\ f \notin strayed /\ hash'[f] = hash[f]
             /\ \A j \in Nat : Ahead(f, j) => Ahead(f, j)'
  BY <1>a DEF Ahead, IsEntry
<1>1. CASE UNCHANGED <<hte, hash, strayed>>
  BY <1>1, <1>a
<1>2. CASE MoveUp
  BY <1>0, <1>2, <1>a, MoveUpStores DEF MoveUp, Allocating, IsEntry
<1>3. CASE MoveId
  BY <1>0, <1>3, <1>a, MoveIdStores DEF MoveId, Allocating, IsEntry
<1>4. CASE MoveClear
  <2>1. f \notin strayed /\ hash' = hash
    BY <1>4 DEF MoveClear
  <2>2. /\ \A s \in Slot : s # sp.i => hte'[s] = hte[s]
        /\ hte[sp.k].valid /\ hte[sp.k].h = hte[sp.i].h /\ hte[sp.k].flow = hte[sp.i].flow
        /\ Off(sp.k, sp.i) \in 1 .. NBSZ - 1 /\ sp.k # sp.i
    <3>1. Off(sp.k, sp.i) \in 1 .. NBSZ - 1
      BY <1>0, <1>4 DEF MoveClear, Allocating, Moving
    <3>2. sp.k # sp.i
      BY <1>0, <3>1 DEF Off, Slot
    <3> QED
      BY <1>0, <1>4, <3>1, <3>2, MoveClearStores DEF MoveClear, Allocating
  <2>3. ASSUME NEW j \in Nat, NEW s \in Slot, IsEntry(hte[s], f),
               j <= Off(s, hash[f]), Off(s, hash[f]) < NBSZ
        PROVE  \E t \in Slot : /\ IsEntry(hte'[t], f) /\ j <= Off(t, hash[f])
                               /\ Off(t, hash[f]) < NBSZ
    <3>1. CASE s # sp.i
      BY <2>2, <2>3, <3>1
    <3>2. CASE s = sp.i
      <4>1. IsEntry(hte'[sp.k], f)
        BY <1>0, <2>2, <2>3, <3>2 DEF IsEntry
      <4>2. At(sp.i - hash[f]) = Off(sp.i, hash[f]) /\ At(sp.k - hash[f]) = Off(sp.k, hash[f])
        BY <1>0, SlotLemma
      <4>3. InRange(sp.i, hash[f])
        BY <2>3, <3>2, <4>2 DEF InRange
      <4>4. InRange(sp.k, hash[f])
        BY <1>4, <2>3, <3>2, <4>3 DEF MoveClear
      <4>5. Off(sp.k, hash[f]) < NBSZ
        BY <4>2, <4>4 DEF InRange
      <4>6. Off(sp.k, hash[f]) = Off(sp.i, hash[f]) + Off(sp.k, sp.i)
        BY <1>0, <2>2, <2>3, <3>2 DEF Off, Slot
      <4>7. j <= Off(sp.k, hash[f])
        BY <1>0, <2>2, <2>3, <3>2, <4>6 DEF Off, Slot
      <4> QED
        BY <1>0, <4>1, <4>5, <4>7
    <3> QED
      BY <3>1, <3>2
  <2>4. ASSUME NEW j \in Nat, Ahead(f, j)
        PROVE  Ahead(f, j)'
    <3>1. PICK s \in Slot : /\ IsEntry(hte[s], f) /\ j <= Off(s, hash[f])
                            /\ Off(s, hash[f]) < NBSZ
      BY <2>4 DEF Ahead
    <3>2. PICK t \in Slot : /\ IsEntry(hte'[t], f) /\ j <= Off(t, hash[f])
                            /\ Off(t, hash[f]) < NBSZ
      BY <2>3, <3>1
    <3> QED
      BY <2>1, <3>2 DEF Ahead, IsEntry
  <2> QED
    BY <2>1, <2>4
<1>5. CASE InsertHash
  BY <1>0, <1>5, <1>a, InsertHashStores DEF InsertHash, Allocating, IsEntry
<1>6. CASE InsertId
  <2>1. sp.flow # f
    BY <1>0, <1>6 DEF Allocating, InsertId
  <2>2. hash'[f] = hash[f] /\ f \notin strayed
    BY <1>0, <1>6, <2>1 DEF InsertId, TypeOK
  <2> QED
    BY <1>0, <1>6, <1>a, <2>2, InsertIdStores DEF InsertId, Allocating, IsEntry
<1>7. ASSUME NEW g \in Flows, flow_slot_clear(g)
      PROVE  /\ f \notin strayed /\ hash'[f] = hash[f]
             /\ \A j \in Nat : Ahead(f, j) => Ahead(f, j)'
  <2>1. f # g /\ hash'[f] = hash[f] /\ strayed' = strayed
    BY <1>0, <1>7 DEF flow_slot_clear, TypeOK
  <2>2. \A s \in Slot : hte'[s] = hte[s] \/ (hte[s].valid /\ hte[s].flow = g)
    BY <1>0, <1>7, ClearStores
  <2> QED
    BY <1>a, <2>1, <2>2 DEF IsEntry
<1>8. ASSUME \/ \E g \in Flows, h \in Hashes : SlotSearch(g, h)
             \/ PickMove \/ (\E g \in Flows : LookupStart(g)) \/ LookupId \/ LookupHash
             \/ LookupEnd \/ UNCHANGED vars
      PROVE  UNCHANGED <<hte, hash, strayed>>
  BY <1>8 DEF SlotSearch, PickMove, LookupStart, LookupId, LookupHash, LookupEnd, vars
<1> QED
  BY <1>1, <1>2, <1>3, <1>4, <1>5, <1>6, <1>7, <1>8 DEF Next

(***************************************************************************)
(* Every step keeps the entries of connections where a lookup reads.       *)
(***************************************************************************)
LEMMA ListedStep == Sizes /\ IInv /\ [Next]_vars => Listed'
<1> SUFFICES ASSUME Sizes, IInv, [Next]_vars, NEW f \in Flows,
                    hash'[f] # NoSlot, f \notin strayed'
             PROVE  Ahead(f, 0)'
  BY DEF Listed
<1>1. CASE hash[f] # NoSlot
  BY <1>1, AheadStep DEF Kept, IInv, Listed
<1>2. CASE hash[f] = NoSlot
  <2>1. hash' # hash
    BY <1>2
  <2>2. InsertId /\ f = sp.flow
    <3>1. \/ InsertId
          \/ \E g \in Flows : flow_slot_clear(g)
      BY <2>1 DEF Next, SlotSearch, PickMove, MoveUp, MoveId, MoveClear, InsertHash,
                  LookupStart, LookupId, LookupHash, LookupEnd, vars
    <3>2. ASSUME NEW g \in Flows, flow_slot_clear(g)
          PROVE  FALSE
      BY <1>2, <3>2 DEF flow_slot_clear, IInv, TypeOK
    <3> QED
      BY <1>2, <3>1, <3>2 DEF InsertId, IInv, TypeOK
  <2>3. /\ sp.i \in Slot /\ sp.h \in Slot /\ Off(sp.i, sp.h) < NBSZ
        /\ hte'[sp.i].valid /\ hte'[sp.i].h = sp.h /\ hte'[sp.i].flow = f
        /\ hash'[f] = sp.h
    BY <2>2, InsertIdStores DEF InsertId, IInv, Allocating, TypeOK
  <2>4. 0 <= Off(sp.i, sp.h)
    BY <2>3 DEF Off, Slot, Sizes
  <2> QED
    BY <2>3, <2>4 DEF Ahead, IsEntry
<1> QED
  BY <1>1, <1>2

(***************************************************************************)
(* Every step keeps the entry of a lookup ahead of it.                     *)
(***************************************************************************)
LEMMA ReaderStep == Sizes /\ IInv /\ [Next]_vars => Reader'
<1> SUFFICES ASSUME Sizes, IInv, [Next]_vars
             PROVE  Reader'
  OBVIOUS
<1> PICK f : f = rd.flow
  OBVIOUS
<1>0. /\ TypeOK /\ Allocating /\ Listed /\ Reader
      /\ NBSZ \in Nat \ {0} /\ 5 * NBSZ <= Entries /\ Entries \in Nat
  BY DEF IInv, Sizes
<1>1. ASSUME NEW g \in Flows, LookupStart(g)
      PROVE  Reader'
  <2>1. /\ rd'.at = "id" /\ rd'.flow = g /\ rd'.j = 0 /\ hash[g] # NoSlot
        /\ UNCHANGED <<hte, hash, strayed>>
    BY <1>1 DEF LookupStart
  <2>2. g \in strayed \/ Ahead(g, 0)
    BY <1>0, <2>1 DEF Listed
  <2> QED
    BY <2>1, <2>2 DEF Reader, Registered, Ahead, IsEntry
<1>2. CASE LookupId
  <2>1. /\ ~ rd.gone /\ rd.at = "id" /\ UNCHANGED <<hte, hash, strayed>>
        /\ rd'.at = "hash" /\ rd'.flow = f /\ rd'.j = rd.j
        /\ rd'.ffid = (IF hte[At(h_rd + rd.j)].valid THEN hte[At(h_rd + rd.j)].flow
                      ELSE NoSlot)
    BY <1>0, <1>2 DEF LookupId, TypeOK
  <2>2. Registered(f) /\ (f \in strayed \/ Ahead(f, rd.j))
    BY <1>0, <2>1 DEF Reader
  <2>3. CASE f \in strayed
    BY <2>1, <2>2, <2>3 DEF Reader, Registered
  <2>4. CASE Ahead(f, rd.j)
    <3>1. PICK s \in Slot : /\ IsEntry(hte[s], f) /\ rd.j <= Off(s, hash[f])
                            /\ Off(s, hash[f]) < NBSZ
      BY <2>4 DEF Ahead
    <3>2. h_rd = hash[f] /\ hash[f] \in Slot /\ rd.j \in Nat /\ Off(s, hash[f]) \in Int
      BY <1>0, <2>2, <3>1, SlotLemma DEF h_rd, Registered, TypeOK, Slot, Sizes
    <3>3. CASE Off(s, hash[f]) = rd.j
      <4>1. At(h_rd + rd.j) = s
        BY <3>2, <3>3, SlotLemma
      <4>2. rd'.ffid = f
        BY <2>1, <3>1, <4>1 DEF IsEntry
      <4> QED
        BY <2>1, <2>2, <2>4, <4>2 DEF Reader, Registered, Ahead, IsEntry
    <3>4. CASE Off(s, hash[f]) # rd.j
      <4>1. rd.j + 1 <= Off(s, hash[f])
        BY <3>1, <3>2, <3>4
      <4>2. Ahead(f, rd.j + 1)
        BY <3>1, <4>1 DEF Ahead
      <4> QED
        BY <2>1, <2>2, <4>2 DEF Reader, Registered, Ahead, IsEntry
    <3> QED
      BY <3>3, <3>4
  <2> QED
    BY <2>2, <2>3, <2>4
<1>3. CASE LookupHash
  <2> DEFINE found == rd.ffid = f /\ hte[At(h_rd + rd.j)].h = h_rd
  <2>1. ~ rd.gone /\ rd.at = "hash" /\ UNCHANGED <<hte, hash, strayed>>
    BY <1>3 DEF LookupHash
  <2>2. /\ Registered(f)
        /\ f \in strayed \/ (rd.ffid = f /\ Ahead(f, rd.j)) \/ Ahead(f, rd.j + 1)
    BY <1>0, <2>1 DEF Reader
  <2>3. CASE found
    <3>1. rd'.at = "idle"
      BY <1>0, <1>3, <2>3 DEF LookupHash, TypeOK
    <3> QED
      BY <3>1 DEF Reader
  <2>4. CASE ~ found
    <3>1. rd'.flow = f /\ (\/ rd'.at = "id" /\ rd'.j = rd.j + 1
                           \/ rd'.at = "missed" /\ ~ (rd.j + 1 < NBSZ))
      BY <1>0, <1>3, <2>4 DEF LookupHash, TypeOK
    <3>2. h_rd = hash[f] /\ hash[f] \in Slot /\ rd.j \in Nat /\ rd.j < NBSZ
      BY <1>0, <2>2 DEF h_rd, Registered, TypeOK
    <3>3. f \in strayed \/ Ahead(f, rd.j + 1)
      <4> SUFFICES ASSUME rd.ffid = f, Ahead(f, rd.j)
                   PROVE  Ahead(f, rd.j + 1)
        BY <2>2
      <4>1. PICK s \in Slot : /\ IsEntry(hte[s], f) /\ rd.j <= Off(s, hash[f])
                              /\ Off(s, hash[f]) < NBSZ
        BY DEF Ahead
      <4>2. Off(s, hash[f]) # rd.j
        <5> SUFFICES ASSUME Off(s, hash[f]) = rd.j
                     PROVE  FALSE
          OBVIOUS
        <5>1. At(h_rd + rd.j) = s
          BY <3>2, SlotLemma
        <5> QED
          BY <2>4, <3>2, <4>1, <5>1 DEF IsEntry
      <4>3. rd.j + 1 <= Off(s, hash[f])
        <5>1. Off(s, hash[f]) \in Int
          BY <1>0, <3>2 DEF Off, Slot
        <5> QED
          BY <3>2, <4>1, <4>2, <5>1
      <4> QED
        BY <4>1, <4>3 DEF Ahead
    <3>4. CASE f \in strayed
      BY <2>1, <2>2, <3>1, <3>4 DEF Reader, Registered
    <3>5. CASE Ahead(f, rd.j + 1)
      <4>1. rd.j + 1 < NBSZ
        BY <1>0, <3>2, <3>5 DEF Ahead, Off, Slot
      <4> QED
        BY <2>1, <2>2, <3>1, <3>5, <4>1 DEF Reader, Registered, Ahead, IsEntry
    <3> QED
      BY <3>3, <3>4, <3>5
  <2> QED
    BY <2>3, <2>4
<1>4. CASE LookupEnd
  BY <1>4 DEF LookupEnd, Reader
<1>5. ASSUME rd' = rd \/ \E g \in Flows : flow_slot_clear(g)
      PROVE  Reader'
  <2> SUFFICES ASSUME rd'.at # "idle", ~ rd'.gone
               PROVE  (/\ Registered(rd.flow)
                       /\ \/ rd.flow \in strayed
                          \/ rd.at = "id" /\ Ahead(rd.flow, rd.j)
                          \/ rd.at = "hash" /\ rd.ffid = rd.flow /\ Ahead(rd.flow, rd.j)
                          \/ rd.at = "hash" /\ Ahead(rd.flow, rd.j + 1))'
    BY DEF Reader
  <2>1. /\ rd'.at = rd.at /\ rd'.flow = f /\ rd'.j = rd.j /\ rd'.ffid = rd.ffid
        /\ ~ rd.gone /\ (\A g \in Flows : flow_slot_clear(g) => f # g)
    <3>1. CASE rd' = rd
      <4>1. ASSUME NEW g \in Flows, flow_slot_clear(g), f = g
            PROVE  FALSE
        BY <1>0, <3>1, <4>1 DEF flow_slot_clear, TypeOK
      <4> QED
        BY <3>1, <4>1
    <3>2. ASSUME NEW g \in Flows, flow_slot_clear(g)
          PROVE  /\ rd'.at = rd.at /\ rd'.flow = f /\ rd'.j = rd.j /\ rd'.ffid = rd.ffid
                 /\ ~ rd.gone /\ f # g
      BY <1>0, <3>2 DEF flow_slot_clear, TypeOK
    <3> QED
      BY <1>5, <3>1, <3>2
  <2>2. /\ f \in Flows /\ hash[f] # NoSlot /\ rd.j \in Nat
        /\ \/ f \in strayed
           \/ rd.at = "id" /\ Ahead(f, rd.j)
           \/ rd.at = "hash" /\ rd.ffid = f /\ Ahead(f, rd.j)
           \/ rd.at = "hash" /\ Ahead(f, rd.j + 1)
    BY <1>0, <2>1 DEF Reader, Registered, TypeOK
  <2>3. hash'[f] # NoSlot
    <3>1. CASE hash' = hash
      BY <2>2, <3>1
    <3>2. CASE InsertId
      BY <1>0, <2>2, <3>2 DEF InsertId, TypeOK, Slot, NoSlot
    <3>3. ASSUME NEW g \in Flows, flow_slot_clear(g)
          PROVE  hash'[f] # NoSlot
      BY <1>0, <2>1, <2>2, <3>3 DEF flow_slot_clear, TypeOK
    <3> QED
      BY <3>1, <3>2, <3>3 DEF Next, SlotSearch, PickMove, MoveUp, MoveId, MoveClear,
           InsertHash, LookupStart, LookupId, LookupHash, LookupEnd, vars
  <2>4. f \in strayed' \/ \A j \in Nat : Ahead(f, j) => Ahead(f, j)'
    BY <2>2, <2>3, AheadStep DEF Kept
  <2>5. f \in strayed => f \in strayed'
    BY <2>2, <2>3, AheadStep DEF Kept
  <2>6. rd.j + 1 \in Nat
    BY <2>2
  <2> QED
    BY <2>1, <2>2, <2>3, <2>4, <2>5, <2>6 DEF Registered, Ahead, IsEntry
<1>6. ASSUME \/ \E g \in Flows, h \in Hashes : SlotSearch(g, h)
             \/ PickMove \/ MoveUp \/ MoveId \/ MoveClear \/ InsertHash \/ InsertId
             \/ UNCHANGED vars
      PROVE  rd' = rd
  BY <1>6 DEF SlotSearch, PickMove, MoveUp, MoveId, MoveClear, InsertHash, InsertId, vars
<1> QED
  BY <1>1, <1>2, <1>3, <1>4, <1>5, <1>6 DEF Next

(***************************************************************************)
(* The table starts empty, and nobody looks anything up.                   *)
(***************************************************************************)
LEMMA TableStart == Sizes /\ Init => IInv
<1> SUFFICES ASSUME Sizes, Init
             PROVE  IInv
  OBVIOUS
<1>1. 0 \in Slot /\ 0 \in 0 .. NBSZ - 1
  BY DEF Sizes, Slot
<1>2. TypeOK
  BY <1>1 DEF Init, TypeOK, Entry, Idle
<1>3. Allocating /\ Listed /\ Reader
  BY DEF Init, Allocating, Listed, Reader, Idle, Moving
<1> QED
  BY <1>2, <1>3 DEF IInv

\* Every step of the slow path or of a lookup keeps the invariant.
LEMMA TableStep == Sizes /\ IInv /\ [Next]_vars => IInv'
BY TypeStep, AllocatingStep, ListedStep, ReaderStep DEF IInv

(***************************************************************************)
(* What the invariant says of lookups and of flow_slot_alloc.              *)
(***************************************************************************)
LEMMA TableSafe == Sizes /\ IInv => LookupFinds /\ SlotIsFree
<1> SUFFICES ASSUME Sizes, IInv
             PROVE  LookupFinds /\ SlotIsFree
  OBVIOUS
<1>0. /\ TypeOK /\ Allocating /\ Listed /\ Reader /\ sp.i \in Slot /\ sp.k \in Slot
      /\ sp.h \in Slot /\ NBSZ \in Nat \ {0} /\ 5 * NBSZ <= Entries /\ Entries \in Nat
  BY DEF IInv, TypeOK, Sizes
<1>1. ASSUME NEW f \in Flows, hash[f] # NoSlot, f \notin strayed
      PROVE  Reachable(f)
  <2>1. hash[f] \in Slot
    BY <1>0, <1>1 DEF TypeOK
  <2>2. PICK s \in Slot : /\ IsEntry(hte[s], f) /\ 0 <= Off(s, hash[f])
                          /\ Off(s, hash[f]) < NBSZ
    BY <1>0, <1>1 DEF Listed, Ahead
  <2>3. Off(s, hash[f]) \in 0 .. NBSZ - 1 /\ At(hash[f] + Off(s, hash[f])) = s
    <3>1. Off(s, hash[f]) \in Int
      BY <1>0, <2>1 DEF Off, Slot
    <3>2. At(hash[f] + Off(s, hash[f])) = s
      BY <2>1, SlotLemma
    <3> QED
      BY <1>0, <2>2, <3>1, <3>2
  <2> QED
    BY <2>2, <2>3 DEF Reachable
<1>2. LookupFinds
  BY <1>0, <1>1 DEF LookupFinds, Reader
<1>3. ASSUME sp.at = "alloc", ~ InRange(sp.i, sp.h), NEW m \in 1 .. NBSZ
      PROVE  hte[At(sp.i - m)].valid
  <2>1. m \in Slot
    BY <1>0 DEF Slot
  <2>2. At(sp.i - m) = Off(sp.i, m) /\ Off(sp.i, m) \in Slot /\ Off(sp.i, sp.h) >= NBSZ
    <3>1. \A s, h \in Slot : At(s - h) = Off(s, h) /\ Off(s, h) \in Slot
      BY SlotLemma
    <3>2. At(sp.i - m) = Off(sp.i, m) /\ Off(sp.i, m) \in Slot
      BY <1>0, <2>1, <3>1
    <3>3. Off(sp.i, sp.h) >= NBSZ
      <4>1. At(sp.i - sp.h) = Off(sp.i, sp.h)
        BY <1>0, <3>1
      <4>2. Off(sp.i, sp.h) \in Int
        BY <1>0 DEF Off, Slot
      <4> QED
        BY <1>0, <1>3, <4>1, <4>2 DEF InRange
    <3> QED
      BY <3>2, <3>3
  <2>3. Off(Off(sp.i, m), sp.h) < Off(sp.i, sp.h)
    BY <1>0, <2>1, <2>2 DEF Off, Slot
  <2> QED
    BY <1>0, <1>3, <2>2, <2>3 DEF Allocating, Filled
<1>4. sp.at = "move" => hte[sp.i].valid
  <2> HAVE sp.at = "move"
  <2>1. Off(sp.k, sp.i) \in 1 .. NBSZ - 1 /\ Off(sp.k, sp.h) >= NBSZ /\ Filled(sp.h, sp.k)
    BY <1>0 DEF Allocating, Moving
  <2>2. Off(sp.i, sp.h) < Off(sp.k, sp.h)
    BY <1>0, <2>1 DEF Off, Slot
  <2> QED
    BY <1>0, <2>1, <2>2 DEF Filled
<1>5. SlotIsFree
  BY <1>0, <1>3, <1>4 DEF SlotIsFree, Allocating
<1> QED
  BY <1>2, <1>5

(***************************************************************************)
(* A lookup only misses a connection whose entry was moved away from its   *)
(* neighbourhood, and flow_slot_alloc overwrites nothing.                  *)
(***************************************************************************)
THEOREM LookupFindsHolds ==
  ASSUME Sizes
  PROVE  Spec => [](LookupFinds /\ SlotIsFree)
<1>1. Init => IInv
  BY TableStart
<1>2. IInv /\ [Next]_vars => IInv'
  BY TableStep
<1>3. IInv => LookupFinds /\ SlotIsFree
  BY TableSafe
<1> QED
  BY <1>1, <1>2, <1>3, PTL DEF Spec
-----------------------------------------------------------------------------
(***************************************************************************)
(* RxPieces.  Three numbers describe every reachable state: the first      *)
(* piece holds the next l1 bytes of the stream, the second the l2 bytes    *)
(* from the start of the buffer on, and the events that are not handled    *)
(* yet the rest of the u bytes that were received and not read.            *)
(***************************************************************************)
CONSTANTS RxLen, IovLens
VARIABLES rxb, evs, buf, len, next, wrong
\* the component, over the names above
RP == INSTANCE RxPieces

\* there is a buffer; what applications pass may be empty
RxFits == RxLen \in Nat \ {0} /\ IovLens \subseteq Nat

\* the first and the second piece, of l1 and l2 bytes at b1 and b2, hold the
\* bytes of the buffer from place nx on
Pieces(b1, b2, l1, l2, nx) ==
  /\ b1 \in Int /\ b2 \in Int /\ l1 \in Nat /\ l2 \in Nat /\ nx \in 0 .. RxLen - 1
  /\ l1 = 0 => l2 = 0
  /\ l1 > 0 => b1 = nx /\ nx + l1 <= RxLen
  /\ l2 > 0 => b2 = 0 /\ nx + l1 = RxLen

\* the places and the lengths of the two pieces are pairs
Pair(a, b) == <<a, b>>

\* the elements of a pair
LEMMA PairAt == \A a, b : Pair(a, b)[1] = a /\ Pair(a, b)[2] = b
  BY DEF Pair

\* EXCEPT on a pair
LEMMA PairExcept ==
  ASSUME NEW a, NEW b, NEW x
  PROVE  /\ [Pair(a, b) EXCEPT ![1] = x] = Pair(x, b)
         /\ [Pair(a, b) EXCEPT ![2] = x] = Pair(a, x)
  BY DEF Pair

\* the same where the old element is used
LEMMA PairAdd ==
  \A a, b, n : /\ [Pair(a, b) EXCEPT ![1] = @ + n] = Pair(a + n, b)
               /\ [Pair(a, b) EXCEPT ![1] = @ - n] = Pair(a - n, b)
               /\ [Pair(a, b) EXCEPT ![2] = @ + n] = Pair(a, b + n)
  BY DEF Pair

\* the pieces as Take has them
Held(b1, b2, l1, l2, nx, rt) ==
  [buf |-> Pair(b1, b2), len |-> Pair(l1, l2), next |-> nx, ret |-> rt, wrong |-> FALSE]

\* its fields
Fields(s, b1, b2, l1, l2, nx, rt) ==
  /\ s.buf = Pair(b1, b2) /\ s.len = Pair(l1, l2) /\ s.next = nx /\ s.ret = rt
  /\ ~ s.wrong
  /\ s.len[1] = l1 /\ s.len[2] = l2 /\ s.buf[1] = b1 /\ s.buf[2] = b2

\* they are the ones it was made of
LEMMA HeldIs ==
  ASSUME NEW b1, NEW b2, NEW l1, NEW l2, NEW nx, NEW rt,
         NEW s, s = Held(b1, b2, l1, l2, nx, rt)
  PROVE  Fields(s, b1, b2, l1, l2, nx, rt)
<1>1. s.buf = Pair(b1, b2) /\ s.len = Pair(l1, l2) /\ s.next = nx /\ s.ret = rt
  BY DEF Held
<1>2. ~ s.wrong
  BY DEF Held
<1>3. s.len[1] = l1 /\ s.len[2] = l2 /\ s.buf[1] = b1 /\ s.buf[2] = b2
  <2>1. /\ Pair(l1, l2)[1] = l1 /\ Pair(l1, l2)[2] = l2
        /\ Pair(b1, b2)[1] = b1 /\ Pair(b1, b2)[2] = b2
    BY Zenon, PairAt
  <2> QED
    BY Zenon, <1>1, <2>1
<1> QED
  BY Zenon, <1>1, <1>2, <1>3 DEF Fields

\* the second piece becomes the first
LEMMA HeldShift ==
  ASSUME NEW b1, NEW b2, NEW l1, NEW l2, NEW nx, NEW rt,
         NEW s, s = Held(b1, b2, l1, l2, nx, rt), NEW x, NEW y
  PROVE  /\ [s EXCEPT !.buf = x, !.len = y].buf = x
         /\ [s EXCEPT !.buf = x, !.len = y].len = y
  BY DEF Held

\* a buffer that holds the first piece takes n bytes of the second too
LEMMA TakeAll ==
  ASSUME NEW b1, NEW b2, NEW l1, NEW l2, NEW nx, NEW rt, NEW iov, NEW n,
         NEW s, s = Held(b1, b2, l1, l2, nx, rt), l1 <= iov,
         n = IF l2 <= iov - l1 THEN l2 ELSE iov - l1,
         ~ (n > 0 /\ b2 # RP!Wrap(nx + l1)), ~ (l1 > 0 /\ b1 # nx)
  PROVE  RP!Take(s, iov) = Held(b2 + n, RP!NULL, l2 - n, 0,
                                RP!Wrap(RP!Wrap(nx + l1) + n), rt + l1 + n)
<1>0. Fields(s, b1, b2, l1, l2, nx, rt)
  BY Zenon, HeldIs
<1>1. /\ s.buf = Pair(b1, b2) /\ s.len = Pair(l1, l2) /\ s.next = nx /\ s.ret = rt
      /\ ~ s.wrong
      /\ s.len[1] = l1 /\ s.len[2] = l2 /\ s.buf[1] = b1 /\ s.buf[2] = b2
  BY Zenon, <1>0 DEF Fields
<1>2. PICK x, y : x = <<s.buf[2], RP!NULL>> /\ y = <<s.len[2], 0>>
  OBVIOUS
<1>3. x = Pair(b2, RP!NULL) /\ y = Pair(l2, 0) /\ x[1] = b2 /\ y[1] = l2
  <2>1. x = Pair(b2, RP!NULL) /\ y = Pair(l2, 0)
    BY <1>1, <1>2 DEF Pair
  <2> QED
    BY Zenon, <2>1, PairAt
<1>4. PICK t : t = [s EXCEPT !.buf = <<s.buf[2], RP!NULL>>, !.len = <<s.len[2], 0>>]
  BY Zenon
<1>5. t.buf = x /\ t.len = y /\ t.len[1] = l2
  BY <1>2, <1>3, <1>4, HeldShift
<1>6. RP!Take(s, iov)
      = [buf |-> [t.buf EXCEPT ![1] = @ + n], len |-> [t.len EXCEPT ![1] = @ - n],
         next |-> RP!Wrap(RP!Wrap(s.next + l1) + n), ret |-> s.ret + l1 + n,
         wrong |-> s.wrong \/ (l1 > 0 /\ s.buf[1] # s.next)
                           \/ (n > 0 /\ t.buf[1] # RP!Wrap(s.next + l1))]
  BY Zenon, <1>1, <1>4, <1>5 DEF RP!Take
<1>7. (s.wrong \/ (l1 > 0 /\ s.buf[1] # s.next)
               \/ (n > 0 /\ t.buf[1] # RP!Wrap(s.next + l1))) = FALSE
  BY <1>1, <1>3, <1>5
<1>8. [t.buf EXCEPT ![1] = @ + n] = Pair(b2 + n, RP!NULL)
  <2>1. t.buf = Pair(b2, RP!NULL)
    BY Zenon, <1>3, <1>5
  <2>2. [Pair(b2, RP!NULL) EXCEPT ![1] = @ + n] = Pair(b2 + n, RP!NULL)
    BY DEF Pair
  <2> QED
    BY Zenon, <2>1, <2>2
<1>9. [t.len EXCEPT ![1] = @ - n] = Pair(l2 - n, 0)
  <2>1. t.len = Pair(l2, 0)
    BY Zenon, <1>3, <1>5
  <2>2. [Pair(l2, 0) EXCEPT ![1] = @ - n] = Pair(l2 - n, 0)
    BY DEF Pair
  <2> QED
    BY Zenon, <2>1, <2>2
<1> QED
  BY Zenon, <1>1, <1>6, <1>7, <1>8, <1>9 DEF Held

\* a smaller one takes what it can of the first piece
LEMMA TakePart ==
  ASSUME NEW b1, NEW b2, NEW l1, NEW l2, NEW nx, NEW rt, NEW iov,
         NEW s, s = Held(b1, b2, l1, l2, nx, rt), ~ (l1 <= iov),
         iov - 0 = iov, ~ (0 > 0),
         ~ (iov > 0 /\ b1 # RP!Wrap(nx + 0))
  PROVE  RP!Take(s, iov) = Held(b1 + iov, b2, l1 - iov, l2,
                                RP!Wrap(RP!Wrap(nx + 0) + iov), rt + 0 + iov)
<1>0. Fields(s, b1, b2, l1, l2, nx, rt)
  BY Zenon, HeldIs
<1>1. /\ s.buf = Pair(b1, b2) /\ s.len = Pair(l1, l2) /\ s.next = nx /\ s.ret = rt
      /\ ~ s.wrong
      /\ s.len[1] = l1 /\ s.len[2] = l2 /\ s.buf[1] = b1 /\ s.buf[2] = b2
  BY Zenon, <1>0 DEF Fields
<1>6. RP!Take(s, iov)
      = [buf |-> [s.buf EXCEPT ![1] = @ + iov], len |-> [s.len EXCEPT ![1] = @ - iov],
         next |-> RP!Wrap(RP!Wrap(s.next + 0) + iov), ret |-> s.ret + 0 + iov,
         wrong |-> s.wrong \/ (0 > 0 /\ s.buf[1] # s.next)
                           \/ (iov > 0 /\ s.buf[1] # RP!Wrap(s.next + 0))]
  BY Zenon, <1>1 DEF RP!Take
<1>7. (s.wrong \/ (0 > 0 /\ s.buf[1] # s.next)
               \/ (iov > 0 /\ s.buf[1] # RP!Wrap(s.next + 0))) = FALSE
  BY <1>1
<1>8. [s.buf EXCEPT ![1] = @ + iov] = Pair(b1 + iov, b2)
  <2>1. s.buf = Pair(b1, b2)
    BY Zenon, <1>1
  <2>2. [Pair(b1, b2) EXCEPT ![1] = @ + iov] = Pair(b1 + iov, b2)
    BY DEF Pair
  <2> QED
    BY Zenon, <2>1, <2>2
<1>9. [s.len EXCEPT ![1] = @ - iov] = Pair(l1 - iov, l2)
  <2>1. s.len = Pair(l1, l2)
    BY Zenon, <1>1
  <2>2. [Pair(l1, l2) EXCEPT ![1] = @ - iov] = Pair(l1 - iov, l2)
    BY DEF Pair
  <2> QED
    BY Zenon, <2>1, <2>2
<1> QED
  BY Zenon, <1>1, <1>6, <1>7, <1>8, <1>9 DEF Held

\* of the pieces that hold a bytes from nx on, k were taken
Took(t, k, a, nx, rt) ==
  \E c1, c2, m1, m2, ny :
    /\ Pieces(c1, c2, m1, m2, ny) /\ m1 + m2 = a - k
    /\ ny = RP!Wrap(nx + k) /\ t = Held(c1, c2, m1, m2, ny, rt + k)

\* what one buffer takes of the pieces: k bytes, in order
LEMMA TakeIs ==
  ASSUME RxFits, NEW b1, NEW b2, NEW l1, NEW l2, NEW nx,
         Pieces(b1, b2, l1, l2, nx), l1 + l2 <= RxLen, NEW rt \in Nat, NEW iov \in Nat
  PROVE  \E k \in 0 .. l1 + l2 :
           Took(RP!Take(Held(b1, b2, l1, l2, nx, rt), iov), k, l1 + l2, nx, rt)
<1>1. /\ RxLen \in Nat /\ nx \in Nat /\ nx < RxLen
      /\ b1 \in Int /\ b2 \in Int /\ l1 \in Nat /\ l2 \in Nat
      /\ l1 = 0 => l2 = 0
      /\ l1 > 0 => b1 = nx /\ nx + l1 <= RxLen
      /\ l2 > 0 => b2 = 0 /\ nx + l1 = RxLen
  BY DEF RxFits, Pieces
<1>3. CASE l1 <= iov
  <2> DEFINE n == IF l2 <= iov - l1 THEN l2 ELSE iov - l1
             ny == RP!Wrap(RP!Wrap(nx + l1) + n)
  <2>1. n \in Nat /\ n <= l2
    BY <1>1, <1>3
  <2>2. ~ (n > 0 /\ b2 # RP!Wrap(nx + l1)) /\ ~ (l1 > 0 /\ b1 # nx)
    BY <1>1, <2>1 DEF RP!Wrap
  <2>3. RP!Take(Held(b1, b2, l1, l2, nx, rt), iov)
        = Held(b2 + n, RP!NULL, l2 - n, 0, ny, rt + l1 + n)
    BY <1>3, <2>2, TakeAll
  <2> HIDE DEF n
  <2>4. ny = RP!Wrap(nx + (l1 + n)) /\ ny \in 0 .. RxLen - 1
    BY <1>1, <2>1 DEF RP!Wrap
  <2>5. l2 - n > 0 => b2 + n = ny /\ ny + (l2 - n) <= RxLen
    BY <1>1, <2>1 DEF RP!Wrap
  <2> HIDE DEF ny
  <2>6. Pieces(b2 + n, RP!NULL, l2 - n, 0, ny)
    BY <1>1, <2>1, <2>4, <2>5 DEF Pieces, RP!NULL
  <2>7. (l2 - n) + 0 = (l1 + l2) - (l1 + n) /\ l1 + n \in 0 .. l1 + l2
        /\ rt + l1 + n = rt + (l1 + n)
    BY <1>1, <2>1
  <2>8. Took(RP!Take(Held(b1, b2, l1, l2, nx, rt), iov), l1 + n, l1 + l2, nx, rt)
    BY Zenon, <2>3, <2>4, <2>6, <2>7 DEF Took
  <2> QED
    BY Zenon, <2>7, <2>8
<1>4. CASE ~ (l1 <= iov)
  <2> DEFINE ny == RP!Wrap(RP!Wrap(nx + 0) + iov)
  <2>1. ~ (iov > 0 /\ b1 # RP!Wrap(nx + 0)) /\ iov - 0 = iov /\ ~ (0 > 0)
    BY <1>1, <1>4 DEF RP!Wrap
  <2>2. RP!Take(Held(b1, b2, l1, l2, nx, rt), iov)
        = Held(b1 + iov, b2, l1 - iov, l2, ny, rt + 0 + iov)
    BY <1>4, <2>1, TakePart
  <2>3. ny = RP!Wrap(nx + iov) /\ ny = nx + iov
    BY <1>1, <1>4 DEF RP!Wrap
  <2> HIDE DEF ny
  <2>4. Pieces(b1 + iov, b2, l1 - iov, l2, ny)
    BY <1>1, <1>4, <2>3 DEF Pieces
  <2>5. (l1 - iov) + l2 = (l1 + l2) - iov /\ iov \in 0 .. l1 + l2
        /\ rt + 0 + iov = rt + iov
    BY <1>1, <1>4
  <2>6. Took(RP!Take(Held(b1, b2, l1, l2, nx, rt), iov), iov, l1 + l2, nx, rt)
    BY Zenon, <2>2, <2>3, <2>4, <2>5 DEF Took
  <2> QED
    BY Zenon, <2>5, <2>6
<1> QED
  BY Zenon, <1>3, <1>4

\* a part of the receive buffer that an event reports
Part == [buf : 0 .. RxLen - 1, len : 1 .. RxLen]

\* d gives the distance of each event's part from place nx: the parts follow
\* each other from distance a to distance u, and none crosses the end
Follow(d, es, nx, a, u) ==
  /\ d \in [1 .. Len(es) + 1 -> Nat]
  /\ d[1] = a /\ d[Len(es) + 1] = u
  /\ \A i, j \in 1 .. Len(es) + 1 : i <= j => d[i] <= d[j]
  /\ \A k \in 1 .. Len(es) :
       /\ d[k + 1] = d[k] + es[k].len /\ es[k].buf = RP!Wrap(nx + d[k])
       /\ es[k].buf + es[k].len <= RxLen

\* the events report the bytes from distance a to distance u from place nx
Placed(es, nx, a, u) ==
  /\ es \in Seq(Part) /\ a \in Nat /\ u \in Nat /\ a <= u /\ u <= RxLen
  /\ nx \in 0 .. RxLen - 1 /\ \E d : Follow(d, es, nx, a, u)

\* k bytes are read
LEMMA PlacedRead ==
  ASSUME RxFits, NEW es, NEW nx, NEW a, NEW u, Placed(es, nx, a, u), NEW k \in 0 .. a,
         NEW ny, ny = RP!Wrap(nx + k)
  PROVE  Placed(es, ny, a - k, u - k)
<1>1. /\ es \in Seq(Part) /\ a \in Nat /\ u \in Nat /\ a <= u /\ u <= RxLen
      /\ nx \in Nat /\ nx < RxLen /\ RxLen \in Nat /\ Len(es) \in Nat
  BY DEF Placed, RxFits
<1>2. PICK d : Follow(d, es, nx, a, u)
  BY Zenon DEF Placed
<1>3. PICK n \in Nat : n = Len(es)
  BY Zenon, <1>1
<1>4. /\ d \in [1 .. n + 1 -> Nat] /\ d[1] = a /\ d[n + 1] = u
      /\ \A i, j \in 1 .. n + 1 : i <= j => d[i] <= d[j]
      /\ \A m \in 1 .. n :
           /\ d[m + 1] = d[m] + es[m].len /\ es[m].buf = RP!Wrap(nx + d[m])
           /\ es[m].buf + es[m].len <= RxLen
  BY Zenon, <1>2, <1>3 DEF Follow
<1>5. \A i \in 1 .. n + 1 : d[i] \in Nat /\ a <= d[i] /\ d[i] <= u
  BY <1>3, <1>4
<1> DEFINE c == [i \in 1 .. n + 1 |-> d[i] - k]
<1>6. c \in [1 .. n + 1 -> Nat] /\ c[1] = a - k /\ c[n + 1] = u - k
  BY <1>1, <1>3, <1>4, <1>5
<1>7. \A i, j \in 1 .. n + 1 : i <= j => c[i] <= c[j]
  BY <1>1, <1>4, <1>5
<1>8. ny \in 0 .. RxLen - 1
  BY <1>1 DEF RP!Wrap
<1>9. ASSUME NEW m \in 1 .. n
      PROVE  /\ c[m + 1] = c[m] + es[m].len /\ es[m].buf = RP!Wrap(ny + c[m])
  <2>1. m \in 1 .. n + 1 /\ m + 1 \in 1 .. n + 1
    BY <1>3
  <2>2. PICK x \in Nat : x = d[m] /\ a <= x /\ x <= u /\ c[m] = x - k
    BY Zenon, <1>5, <2>1
  <2>c. c[m + 1] = d[m + 1] - k
    BY Zenon, <2>1
  <2> HIDE DEF c
  <2>3. RP!Wrap(ny + (x - k)) = RP!Wrap(nx + x)
    <3>1. k \in Nat /\ k <= x /\ x <= RxLen
      BY <1>1, <2>2
    <3>2. ny = IF nx + k >= RxLen THEN (nx + k) - RxLen ELSE nx + k
      BY Zenon DEF RP!Wrap
    <3> QED
      BY <1>1, <3>1, <3>2 DEF RP!Wrap
  <2>4. es[m] \in Part
    BY <1>1, <1>3
  <2>5. es[m].len \in Nat
    BY <1>1, <2>4 DEF Part
  <2>6. PICK y \in Nat : y = d[m + 1] /\ c[m + 1] = y - k /\ y = x + es[m].len
    BY Zenon, <1>4, <1>5, <2>1, <2>2, <2>c
  <2>7. c[m + 1] = c[m] + es[m].len
    <3>1. PICK l \in Nat : l = es[m].len
      BY Zenon, <2>5
    <3>2. (x + l) - k = (x - k) + l
      OBVIOUS
    <3> QED
      BY Zenon, <2>2, <2>6, <3>1, <3>2
  <2> QED
    BY Zenon, <1>4, <2>2, <2>3, <2>7
<1>10. Follow(c, es, ny, a - k, u - k)
  <2> HIDE DEF c
  <2> QED
    BY Zenon, <1>3, <1>4, <1>6, <1>7, <1>9 DEF Follow
<1>11. a - k \in Nat /\ u - k \in Nat /\ a - k <= u - k /\ u - k <= RxLen
  BY <1>1
<1> HIDE DEF c
<1> QED
  BY Zenon, <1>1, <1>8, <1>10, <1>11 DEF Placed

\* what the first event reports, and the others
LEMMA PlacedTail ==
  ASSUME RxFits, NEW es, NEW nx, NEW a, NEW u, Placed(es, nx, a, u), es # <<>>,
         NEW x, x = Head(es)
  PROVE  /\ x.buf = RP!Wrap(nx + a) /\ x.len \in Nat \ {0} /\ x.buf + x.len <= RxLen
         /\ a + x.len <= u /\ Placed(Tail(es), nx, a + x.len, u)
<1>1. /\ es \in Seq(Part) /\ a \in Nat /\ u \in Nat /\ a <= u /\ u <= RxLen
      /\ nx \in 0 .. RxLen - 1 /\ RxLen \in Nat /\ Len(es) \in Nat
  BY DEF Placed, RxFits
<1>2. PICK d : Follow(d, es, nx, a, u)
  BY Zenon DEF Placed
<1>3. PICK n \in Nat : n + 1 = Len(es)
  <2>1. Len(es) - 1 \in Nat /\ (Len(es) - 1) + 1 = Len(es)
    BY <1>1
  <2> QED
    BY Zenon, <2>1
<1>4. /\ d \in [1 .. (n + 1) + 1 -> Nat] /\ d[1] = a /\ d[(n + 1) + 1] = u
      /\ \A i, j \in 1 .. (n + 1) + 1 : i <= j => d[i] <= d[j]
      /\ \A m \in 1 .. n + 1 :
           /\ d[m + 1] = d[m] + es[m].len /\ es[m].buf = RP!Wrap(nx + d[m])
           /\ es[m].buf + es[m].len <= RxLen
  BY Zenon, <1>2, <1>3 DEF Follow
<1>5. x = es[1] /\ 1 \in 1 .. n + 1 /\ 2 \in 1 .. (n + 1) + 1 /\ 1 + 1 = 2
  BY <1>1, <1>3
<1>6. x \in Part
  BY <1>1, <1>3, <1>5
<1>7. x.len \in Nat \ {0}
  BY <1>1, <1>6 DEF Part
<1>8. x.buf = RP!Wrap(nx + a) /\ x.buf + x.len <= RxLen /\ d[2] = a + x.len
  BY Zenon, <1>4, <1>5
<1>9. d[2] <= u
  <2>1. (n + 1) + 1 \in 1 .. (n + 1) + 1 /\ 2 <= (n + 1) + 1
    BY <1>3
  <2> QED
    BY Zenon, <1>4, <1>5, <2>1
<1>10. PICK more \in Seq(Part) : more = Tail(es) /\ Len(more) = n
                             /\ \A m \in 1 .. n : more[m] = es[m + 1]
  <2>1. Tail(es) \in Seq(Part) /\ Len(Tail(es)) = n
    BY <1>1, <1>3
  <2>2. \A m \in 1 .. n : Tail(es)[m] = es[m + 1]
    BY <1>1, <1>3
  <2> QED
    BY Zenon, <2>1, <2>2
<1> DEFINE c == [i \in 1 .. n + 1 |-> d[i + 1]]
<1>11. /\ c \in [1 .. n + 1 -> Nat] /\ c[1] = a + x.len /\ c[n + 1] = u
  BY <1>3, <1>4, <1>5, <1>8
<1>12. \A i, j \in 1 .. n + 1 : i <= j => c[i] <= c[j]
  BY <1>3, <1>4
<1>13. ASSUME NEW m \in 1 .. n
       PROVE  /\ c[m + 1] = c[m] + more[m].len /\ more[m].buf = RP!Wrap(nx + c[m])
              /\ more[m].buf + more[m].len <= RxLen
  <2>1. m \in 1 .. n + 1 /\ m + 1 \in 1 .. n + 1
    BY <1>3
  <2>2. c[m] = d[m + 1] /\ c[m + 1] = d[(m + 1) + 1] /\ more[m] = es[m + 1]
    BY Zenon, <1>10, <2>1
  <2> QED
    BY Zenon, <1>4, <2>1, <2>2
<1> HIDE DEF c
<1>14. Follow(c, more, nx, a + x.len, u)
  BY Zenon, <1>10, <1>11, <1>12, <1>13 DEF Follow
<1>15. a + x.len \in Nat /\ a + x.len <= u
  BY <1>1, <1>7, <1>8, <1>9
<1>16. Placed(Tail(es), nx, a + x.len, u)
  BY Zenon, <1>1, <1>10, <1>14, <1>15 DEF Placed
<1> QED
  BY Zenon, <1>7, <1>8, <1>15, <1>16

\* one more event
LEMMA PlacedAdd ==
  ASSUME RxFits, NEW es, NEW nx, NEW a, NEW u, Placed(es, nx, a, u), NEW x \in Part,
         x.buf = RP!Wrap(nx + u), x.buf + x.len <= RxLen, u + x.len <= RxLen
  PROVE  Placed(Append(es, x), nx, a, u + x.len)
<1>1. /\ es \in Seq(Part) /\ a \in Nat /\ u \in Nat /\ a <= u /\ u <= RxLen
      /\ nx \in 0 .. RxLen - 1 /\ RxLen \in Nat /\ Len(es) \in Nat
  BY DEF Placed, RxFits
<1>2. PICK d : Follow(d, es, nx, a, u)
  BY Zenon DEF Placed
<1>3. PICK n \in Nat : n = Len(es)
  BY Zenon, <1>1
<1>4. /\ d \in [1 .. n + 1 -> Nat] /\ d[1] = a /\ d[n + 1] = u
      /\ \A i, j \in 1 .. n + 1 : i <= j => d[i] <= d[j]
      /\ \A m \in 1 .. n :
           /\ d[m + 1] = d[m] + es[m].len /\ es[m].buf = RP!Wrap(nx + d[m])
           /\ es[m].buf + es[m].len <= RxLen
  BY Zenon, <1>2, <1>3 DEF Follow
<1>5. x.len \in Nat
  BY <1>1 DEF Part
<1>6. PICK v \in Nat : v = u + x.len /\ u <= v
  BY <1>1, <1>5
<1>7. PICK more \in Seq(Part) : more = Append(es, x) /\ Len(more) = n + 1 /\ more[n + 1] = x
                             /\ \A m \in 1 .. n : more[m] = es[m]
  <2>1. Append(es, x) \in Seq(Part) /\ Len(Append(es, x)) = n + 1
    BY <1>1, <1>3
  <2>2. \A m \in 1 .. n : Append(es, x)[m] = es[m]
    BY <1>1, <1>3
  <2>3. Append(es, x)[n + 1] = x
    BY <1>1, <1>3
  <2> QED
    BY Zenon, <2>1, <2>2, <2>3
<1> DEFINE c == [i \in 1 .. (n + 1) + 1 |-> IF i <= n + 1 THEN d[i] ELSE v]
<1>8. /\ c \in [1 .. (n + 1) + 1 -> Nat] /\ c[1] = a /\ c[(n + 1) + 1] = v
      /\ c[n + 1] = u
  BY <1>3, <1>4, <1>6
<1>9. \A i \in 1 .. n + 1 : c[i] = d[i] /\ d[i] \in Nat /\ d[i] <= u
  BY <1>3, <1>4
<1>10. ASSUME NEW i \in 1 .. (n + 1) + 1, NEW j \in 1 .. (n + 1) + 1, i <= j
       PROVE  c[i] <= c[j]
  <2>1. CASE j <= n + 1
    <3>1. i \in 1 .. n + 1 /\ j \in 1 .. n + 1
      BY <1>3, <1>10, <2>1
    <3> QED
      BY Zenon, <1>4, <1>9, <1>10, <3>1
  <2>2. CASE ~ (j <= n + 1)
    <3>1. c[j] = v
      BY <1>3, <2>2
    <3>2. CASE i <= n + 1
      <4>1. i \in 1 .. n + 1
        BY <1>3, <3>2
      <4>2. c[i] \in Nat /\ c[i] <= u
        BY Zenon, <1>9, <4>1
      <4> HIDE DEF c
      <4> QED
        BY <1>1, <1>6, <3>1, <4>2
    <3>3. CASE ~ (i <= n + 1)
      <4>1. c[i] = v
        BY <1>3, <3>3
      <4> HIDE DEF c
      <4> QED
        BY <1>6, <3>1, <4>1
    <3> QED
      BY Zenon, <3>2, <3>3
  <2> QED
    BY Zenon, <2>1, <2>2
<1> HIDE DEF c
<1>11. ASSUME NEW m \in 1 .. n + 1
       PROVE  /\ c[m + 1] = c[m] + more[m].len /\ more[m].buf = RP!Wrap(nx + c[m])
              /\ more[m].buf + more[m].len <= RxLen
  <2>1. CASE m = n + 1
    BY Zenon, <1>6, <1>7, <1>8, <2>1
  <2>2. CASE m # n + 1
    <3>1. m \in 1 .. n /\ m \in 1 .. n + 1 /\ m + 1 \in 1 .. n + 1
      BY <1>3, <2>2
    <3>2. c[m] = d[m] /\ c[m + 1] = d[m + 1] /\ more[m] = es[m]
      BY Zenon, <1>7, <1>9, <3>1
    <3> QED
      BY Zenon, <1>4, <3>1, <3>2
  <2> QED
    BY Zenon, <2>1, <2>2
<1>12. Follow(c, more, nx, a, v)
  BY Zenon, <1>7, <1>8, <1>10, <1>11 DEF Follow
<1>13. v \in Nat /\ a <= v /\ v <= RxLen
  BY <1>1, <1>6
<1> QED
  BY Zenon, <1>1, <1>6, <1>7, <1>12, <1>13 DEF Placed

\* the pieces and the events hold the bytes that were received and not read, in
\* order: l1 and l2 bytes in the pieces, u in all
Ready(b1, b2, l1, l2, u) ==
  /\ Pieces(b1, b2, l1, l2, next) /\ buf = Pair(b1, b2) /\ len = Pair(l1, l2)
  /\ wrong = FALSE
  /\ rxb = [head |-> RP!Wrap(next + u), used |-> u]
  /\ Placed(evs, next, l1 + l2, u)

\* the inductive invariant
RxOK == \E b1, b2, l1, l2, u : Ready(b1, b2, l1, l2, u)

\* nothing was received yet
LEMMA RxStart == RxFits /\ RP!Init => RxOK
<1> SUFFICES ASSUME RxFits, RP!Init PROVE RxOK
  BY Zenon
<1>1. /\ rxb = [head |-> 0, used |-> 0] /\ evs = <<>>
      /\ buf = <<RP!NULL, RP!NULL>> /\ len = <<0, 0>> /\ next = 0 /\ wrong = FALSE
  BY Zenon DEF RP!Init
<1>2. RxLen \in Nat /\ RxLen > 0 /\ RP!NULL \in Int
  BY DEF RxFits, RP!NULL
<1>3. Pieces(RP!NULL, RP!NULL, 0, 0, next)
  BY <1>1, <1>2 DEF Pieces
<1>4. buf = Pair(RP!NULL, RP!NULL) /\ len = Pair(0, 0)
  BY Zenon, <1>1 DEF Pair
<1>5. rxb = [head |-> RP!Wrap(next + 0), used |-> 0]
  <2>1. RP!Wrap(next + 0) = 0
    BY <1>1, <1>2 DEF RP!Wrap
  <2> QED
    BY Zenon, <1>1, <2>1
<1>6. Placed(evs, next, 0 + 0, 0)
  <2>1. evs \in Seq(Part) /\ Len(evs) = 0
    BY <1>1
  <2>2. \E d : Follow(d, evs, next, 0, 0)
    <3> DEFINE d == [i \in 1 .. 1 |-> 0]
    <3>1. Follow(d, evs, next, 0, 0)
      BY <2>1 DEF Follow
    <3> QED
      BY Zenon, <3>1
  <2>3. 0 + 0 = 0 /\ 0 \in Nat /\ 0 <= 0 /\ 0 <= RxLen /\ next \in 0 .. RxLen - 1
    BY <1>1, <1>2
  <2> QED
    BY Zenon, <2>1, <2>2, <2>3 DEF Placed
<1> QED
  BY Zenon, <1>1, <1>3, <1>4, <1>5, <1>6 DEF RxOK, Ready

\* the amounts of a state that is ready
LEMMA ReadyNums ==
  ASSUME RxFits, NEW b1, NEW b2, NEW l1, NEW l2, NEW u, Ready(b1, b2, l1, l2, u)
  PROVE  /\ l1 \in Nat /\ l2 \in Nat /\ u \in Nat /\ l1 + l2 <= u /\ u <= RxLen
         /\ next \in Nat /\ next < RxLen /\ RxLen \in Nat
<1>1. Pieces(b1, b2, l1, l2, next) /\ Placed(evs, next, l1 + l2, u)
  BY Zenon DEF Ready
<1>2. l1 \in Nat /\ l2 \in Nat /\ next \in 0 .. RxLen - 1
  BY Zenon, <1>1 DEF Pieces
<1>3. u \in Nat /\ l1 + l2 <= u /\ u <= RxLen
  BY Zenon, <1>1 DEF Placed
<1> QED
  BY <1>2, <1>3 DEF RxFits

\* k bytes were read
LEMMA ReadStep ==
  ASSUME RxFits, NEW b1, NEW b2, NEW l1, NEW l2, NEW u, Ready(b1, b2, l1, l2, u),
         NEW k \in 0 .. l1 + l2, NEW t, Took(t, k, l1 + l2, next, 0), RP!Apply(t)
  PROVE  RxOK'
<1>1. /\ l1 \in Nat /\ l2 \in Nat /\ u \in Nat /\ l1 + l2 <= u /\ u <= RxLen
      /\ next \in Nat /\ next < RxLen /\ RxLen \in Nat
  BY Zenon, ReadyNums
<1>2. PICK c1, c2, m1, m2, ny :
        /\ Pieces(c1, c2, m1, m2, ny) /\ m1 + m2 = (l1 + l2) - k
        /\ ny = RP!Wrap(next + k) /\ t = Held(c1, c2, m1, m2, ny, 0 + k)
  BY Zenon DEF Took
<1>3. t.buf = Pair(c1, c2) /\ t.len = Pair(m1, m2) /\ t.next = ny /\ t.ret = 0 + k
  <2>1. Fields(t, c1, c2, m1, m2, ny, 0 + k)
    BY Zenon, <1>2, HeldIs
  <2> QED
    BY Zenon, <2>1 DEF Fields
<1>4. t.wrong = FALSE
  BY <1>2 DEF Held
<1>5. /\ buf' = Pair(c1, c2) /\ len' = Pair(m1, m2) /\ next' = ny /\ evs' = evs
  BY Zenon, <1>3 DEF RP!Apply
<1>6. wrong' = FALSE
  BY <1>4 DEF RP!Apply
<1>7. 0 + k = k /\ k \in Nat /\ k <= u
  BY <1>1
<1>8. rxb' = [rxb EXCEPT !.used = @ - k]
  BY Zenon, <1>3, <1>7 DEF RP!Apply
<1>9. PICK h : h = RP!Wrap(next + u) /\ rxb = [head |-> h, used |-> u]
  BY Zenon DEF Ready
<1>10. rxb' = [head |-> h, used |-> u - k]
  BY <1>8, <1>9
<1>11. h = RP!Wrap(next' + (u - k))
  BY <1>1, <1>2, <1>5, <1>7, <1>9 DEF RP!Wrap
<1>12. Placed(evs, ny, (l1 + l2) - k, u - k)
  BY Zenon, <1>2, PlacedRead DEF Ready
<1>13. Ready(c1, c2, m1, m2, u - k)'
  BY Zenon, <1>2, <1>5, <1>6, <1>10, <1>11, <1>12 DEF Ready
<1> QED
  BY Zenon, <1>13 DEF RxOK

\* recv_simple: one buffer
LEMMA SimpleStep ==
  ASSUME RxFits, RxOK, NEW iov \in Nat, RP!recv_simple(iov)
  PROVE  RxOK'
<1>1. PICK b1, b2, l1, l2, u : Ready(b1, b2, l1, l2, u)
  BY Zenon DEF RxOK
<1>2. RP!Unread = Held(b1, b2, l1, l2, next, 0)
  BY Zenon, <1>1 DEF RP!Unread, Held, Ready
<1>3. Pieces(b1, b2, l1, l2, next)
  BY Zenon, <1>1 DEF Ready
<1>4. l1 + l2 <= RxLen /\ 0 \in Nat
  <2>1. /\ l1 \in Nat /\ l2 \in Nat /\ u \in Nat /\ l1 + l2 <= u /\ u <= RxLen
        /\ RxLen \in Nat
    BY Zenon, <1>1, ReadyNums
  <2> QED
    BY <2>1
<1>5. PICK k \in 0 .. l1 + l2 : Took(RP!Take(RP!Unread, iov), k, l1 + l2, next, 0)
  BY Zenon, <1>2, <1>3, <1>4, TakeIs
<1> QED
  BY Zenon, <1>1, <1>5, ReadStep DEF RP!recv_simple

\* two reads one after the other
LEMMA TookTwice ==
  ASSUME RxFits, NEW a \in Nat, a <= RxLen, NEW nx \in 0 .. RxLen - 1, NEW k \in 0 .. a,
         NEW m1, NEW m2, m1 + m2 = a - k, NEW ny, ny = RP!Wrap(nx + k),
         NEW j \in 0 .. m1 + m2, NEW t, Took(t, j, m1 + m2, ny, 0 + k)
  PROVE  k + j \in 0 .. a /\ Took(t, k + j, a, nx, 0)
<1>1. PICK c1, c2, n1, n2, nz :
        /\ Pieces(c1, c2, n1, n2, nz) /\ n1 + n2 = (m1 + m2) - j
        /\ nz = RP!Wrap(ny + j) /\ t = Held(c1, c2, n1, n2, nz, (0 + k) + j)
  BY Zenon DEF Took
<1>2. /\ k \in Nat /\ k <= a /\ j \in 0 .. a - k /\ RxLen \in Nat /\ nx \in Nat
      /\ nx < RxLen
  BY DEF RxFits
<1>3. k + j \in 0 .. a /\ (0 + k) + j = 0 + (k + j)
  BY <1>2
<1>4. n1 + n2 = a - (k + j)
  BY <1>1, <1>2
<1>5. nz = RP!Wrap(nx + (k + j))
  BY <1>1, <1>2 DEF RP!Wrap
<1>6. t = Held(c1, c2, n1, n2, nz, 0 + (k + j))
  BY Zenon, <1>1, <1>3
<1> QED
  BY Zenon, <1>1, <1>3, <1>4, <1>5, <1>6 DEF Took

\* tas_recvmsg: the second buffer is used when bytes are left
LEMMA RecvmsgStep ==
  ASSUME RxFits, RxOK, NEW iov1 \in Nat, NEW iov2 \in Nat, RP!tas_recvmsg(iov1, iov2)
  PROVE  RxOK'
<1>1. PICK b1, b2, l1, l2, u : Ready(b1, b2, l1, l2, u)
  BY Zenon DEF RxOK
<1>2. RP!Unread = Held(b1, b2, l1, l2, next, 0)
  BY Zenon, <1>1 DEF RP!Unread, Held, Ready
<1>3. Pieces(b1, b2, l1, l2, next)
  BY Zenon, <1>1 DEF Ready
<1>4. PICK a \in Nat : a = l1 + l2 /\ a <= RxLen /\ 0 \in Nat
  <2>1. /\ l1 \in Nat /\ l2 \in Nat /\ u \in Nat /\ l1 + l2 <= u /\ u <= RxLen
        /\ RxLen \in Nat
    BY Zenon, <1>1, ReadyNums
  <2> QED
    BY <2>1
<1>5. PICK s : s = RP!Take(RP!Unread, iov1)
  BY Zenon
<1>6. PICK k \in 0 .. a : Took(s, k, a, next, 0)
  BY Zenon, <1>2, <1>3, <1>4, <1>5, TakeIs
<1>7. CASE s.len[1] > 0
  <2>1. RP!Apply(RP!Take(s, iov2))
    BY Zenon, <1>5, <1>7 DEF RP!tas_recvmsg
  <2>2. PICK c1, c2, m1, m2, ny :
          /\ Pieces(c1, c2, m1, m2, ny) /\ m1 + m2 = a - k
          /\ ny = RP!Wrap(next + k) /\ s = Held(c1, c2, m1, m2, ny, 0 + k)
    BY Zenon, <1>6 DEF Took
  <2>3. m1 + m2 <= RxLen /\ 0 + k \in Nat /\ next \in 0 .. RxLen - 1
    BY <1>3, <1>4, <2>2 DEF RxFits, Pieces
  <2>4. PICK j \in 0 .. m1 + m2 : Took(RP!Take(s, iov2), j, m1 + m2, ny, 0 + k)
    BY Zenon, <2>2, <2>3, TakeIs
  <2>5. k + j \in 0 .. a /\ Took(RP!Take(s, iov2), k + j, a, next, 0)
    BY Zenon, <1>4, <2>2, <2>3, <2>4, TookTwice
  <2> QED
    BY Zenon, <1>1, <1>4, <2>1, <2>5, ReadStep
<1>8. CASE ~ (s.len[1] > 0)
  <2>1. RP!Apply(s)
    BY Zenon, <1>5, <1>8 DEF RP!tas_recvmsg
  <2> QED
    BY Zenon, <1>1, <1>4, <1>6, <2>1, ReadStep
<1> QED
  BY Zenon, <1>7, <1>8

\* fast path and libtas: n bytes more, as one event or two
LEMMA ReceivedStep ==
  ASSUME RxFits, RxOK, NEW n \in 1 .. RxLen, RP!Received(n)
  PROVE  RxOK'
<1>1. PICK b1, b2, l1, l2, u : Ready(b1, b2, l1, l2, u)
  BY Zenon DEF RxOK
<1>2. /\ l1 \in Nat /\ l2 \in Nat /\ u \in Nat /\ l1 + l2 <= u /\ u <= RxLen
      /\ next \in Nat /\ next < RxLen /\ RxLen \in Nat
  BY Zenon, <1>1, ReadyNums
<1>3. PICK h : h = RP!Wrap(next + u) /\ rxb = [head |-> h, used |-> u]
  BY Zenon, <1>1 DEF Ready
<1>4. rxb.head = h /\ rxb.used = u
  BY <1>3
<1>5. /\ n <= RxLen - u /\ evs' = evs \o RP!NewParts(n)
      /\ rxb' = [head |-> RP!Wrap(h + n), used |-> u + n]
      /\ buf' = buf /\ len' = len /\ next' = next /\ wrong' = wrong
  BY Zenon, <1>4 DEF RP!Received
<1>6. /\ Pieces(b1, b2, l1, l2, next) /\ buf = Pair(b1, b2) /\ len = Pair(l1, l2)
      /\ wrong = FALSE /\ Placed(evs, next, l1 + l2, u)
  BY Zenon, <1>1 DEF Ready
<1>7. evs \in Seq(Part)
  BY Zenon, <1>6 DEF Placed
<1>8. n \in Nat /\ n > 0 /\ h \in Nat /\ h < RxLen
  BY <1>2, <1>3, <1>5 DEF RP!Wrap
<1>9. RP!Wrap(h + n) = RP!Wrap(next + (u + n))
  BY <1>2, <1>3, <1>5, <1>8 DEF RP!Wrap
<1>10. Placed(evs', next, l1 + l2, u + n)
  <2>1. CASE h + n > RxLen
    <3>1. PICK f \in Nat \ {0} : f = RxLen - h /\ f < n
      BY <1>2, <1>8, <2>1
    <3>2. PICK p : p = [buf |-> h, len |-> f]
      BY Zenon
    <3>3. PICK q : q = [buf |-> 0, len |-> n - f]
      BY Zenon
    <3>4. RP!NewParts(n) = <<p, q>>
      BY Zenon, <1>4, <2>1, <3>1, <3>2, <3>3 DEF RP!NewParts
    <3>5. p \in Part /\ q \in Part
      BY <1>2, <1>8, <3>1, <3>2, <3>3 DEF Part
    <3>6. p.buf = h /\ p.len = f /\ q.buf = 0 /\ q.len = n - f
      BY <3>2, <3>3
    <3>7. evs \o <<p, q>> = Append(Append(evs, p), q)
      BY <1>7, <3>5
    <3>8. /\ p.buf = RP!Wrap(next + u) /\ p.buf + p.len <= RxLen /\ u + p.len <= RxLen
      BY <1>2, <1>3, <1>5, <1>8, <3>1, <3>6
    <3>9. Placed(Append(evs, p), next, l1 + l2, u + p.len)
      BY Zenon, <1>6, <3>5, <3>8, PlacedAdd
    <3>10. /\ q.buf = RP!Wrap(next + (u + p.len)) /\ q.buf + q.len <= RxLen
           /\ (u + p.len) + q.len <= RxLen /\ (u + p.len) + q.len = u + n
      <4>1. next + (u + f) = RxLen
        BY <1>2, <1>3, <1>5, <1>8, <2>1, <3>1 DEF RP!Wrap
      <4>2. RP!Wrap(next + (u + f)) = 0
        BY <1>2, <4>1 DEF RP!Wrap
      <4> QED
        BY <1>2, <1>5, <1>8, <3>1, <3>6, <4>2
    <3>11. Placed(Append(Append(evs, p), q), next, l1 + l2, (u + p.len) + q.len)
      BY Zenon, <3>5, <3>9, <3>10, PlacedAdd
    <3> QED
      BY Zenon, <1>5, <3>4, <3>7, <3>10, <3>11
  <2>2. CASE ~ (h + n > RxLen)
    <3>1. PICK p : p = [buf |-> h, len |-> n]
      BY Zenon
    <3>2. RP!NewParts(n) = <<p>>
      BY Zenon, <1>4, <2>2, <3>1 DEF RP!NewParts
    <3>3. p \in Part
      BY <1>2, <1>8, <3>1 DEF Part
    <3>4. p.buf = h /\ p.len = n
      BY <3>1
    <3>5. evs \o <<p>> = Append(evs, p)
      BY <1>7, <3>3
    <3>6. /\ p.buf = RP!Wrap(next + u) /\ p.buf + p.len <= RxLen /\ u + p.len <= RxLen
      BY <1>2, <1>3, <1>5, <1>8, <2>2, <3>4
    <3> QED
      BY Zenon, <1>5, <1>6, <3>2, <3>3, <3>4, <3>5, <3>6, PlacedAdd
  <2> QED
    BY Zenon, <2>1, <2>2
<1>11. rxb' = [head |-> RP!Wrap(next' + (u + n)), used |-> u + n]
  BY Zenon, <1>5, <1>9
<1>12. Ready(b1, b2, l1, l2, u + n)'
  BY Zenon, <1>5, <1>6, <1>10, <1>11 DEF Ready
<1> QED
  BY Zenon, <1>12 DEF RxOK

\* ev_conn_received: the part continues the last piece, or is the second one
LEMMA EventStep ==
  ASSUME RxFits, RxOK, RP!ev_conn_received
  PROVE  RxOK'
<1>1. PICK b1, b2, l1, l2, u : Ready(b1, b2, l1, l2, u)
  BY Zenon DEF RxOK
<1>2. /\ l1 \in Nat /\ l2 \in Nat /\ u \in Nat /\ l1 + l2 <= u /\ u <= RxLen
      /\ next \in Nat /\ next < RxLen /\ RxLen \in Nat
  BY Zenon, <1>1, ReadyNums
<1>3. /\ Pieces(b1, b2, l1, l2, next) /\ buf = Pair(b1, b2) /\ len = Pair(l1, l2)
      /\ wrong = FALSE /\ Placed(evs, next, l1 + l2, u)
      /\ rxb = [head |-> RP!Wrap(next + u), used |-> u]
  BY Zenon, <1>1 DEF Ready
<1>4. PICK x : x = Head(evs)
  BY Zenon
<1>5. PICK at, n : at = x.buf /\ n = x.len
  BY Zenon
<1>6. evs # <<>> /\ evs' = Tail(evs) /\ rxb' = rxb /\ next' = next
  BY Zenon DEF RP!ev_conn_received
<1>7. /\ at = RP!Wrap(next + (l1 + l2)) /\ n \in Nat \ {0} /\ at + n <= RxLen
      /\ (l1 + l2) + n <= u /\ Placed(evs', next, (l1 + l2) + n, u)
  <2>1. /\ x.buf = RP!Wrap(next + (l1 + l2)) /\ x.len \in Nat \ {0}
        /\ x.buf + x.len <= RxLen /\ (l1 + l2) + x.len <= u
        /\ Placed(Tail(evs), next, (l1 + l2) + x.len, u)
    BY <1>3, <1>4, <1>6, PlacedTail
  <2> QED
    BY Zenon, <1>5, <1>6, <2>1
<1>8. PICK p : p = RP!Piece(x)
  BY Zenon
<1>9. /\ buf' = CASE p = "first" -> [buf EXCEPT ![1] = at]
                  [] p = "second" -> [buf EXCEPT ![2] = at]
                  [] OTHER -> buf
      /\ len' = CASE p = "first" -> <<n, 0>>
                  [] p = "append1" -> [len EXCEPT ![1] = @ + n]
                  [] p = "append2" -> [len EXCEPT ![2] = @ + n]
                  [] p = "second" -> [len EXCEPT ![2] = n]
      /\ wrong' = (wrong \/ (p = "second" /\ len[2] # 0))
  BY Zenon, <1>4, <1>5, <1>8 DEF RP!ev_conn_received
<1>10. len[1] = l1 /\ len[2] = l2 /\ buf[1] = b1 /\ buf[2] = b2
  BY Zenon, <1>3, PairAt
<1>11. p = IF l1 = 0 THEN "first"
           ELSE IF l2 = 0 /\ at = b1 + l1 THEN "append1"
           ELSE IF at = b2 + l2 THEN "append2" ELSE "second"
  BY Zenon, <1>5, <1>8, <1>10 DEF RP!Piece
<1>12. /\ b1 \in Int /\ b2 \in Int /\ (l1 = 0 => l2 = 0)
       /\ (l1 > 0 => b1 = next /\ next + l1 <= RxLen)
       /\ (l2 > 0 => b2 = 0 /\ next + l1 = RxLen)
  BY Zenon, <1>3 DEF Pieces
<1>13. at \in Int /\ n \in Nat /\ 0 \in Nat /\ next \in 0 .. RxLen - 1
  BY <1>2, <1>7 DEF RP!Wrap
<1> DEFINE Becomes(c1, c2, m1, m2) ==
             /\ buf' = Pair(c1, c2) /\ len' = Pair(m1, m2) /\ wrong' = FALSE
             /\ Pieces(c1, c2, m1, m2, next) /\ m1 + m2 = (l1 + l2) + n
<1>14. \E c1, c2, m1, m2 : Becomes(c1, c2, m1, m2)
  <2>1. CASE l1 = 0
    <3>1. p = "first" /\ l2 = 0 /\ at = next
      BY <1>2, <1>7, <1>11, <1>12, <2>1 DEF RP!Wrap
    <3>2. buf' = [buf EXCEPT ![1] = at] /\ len' = Pair(n, 0)
      BY <1>9, <3>1 DEF Pair
    <3>3. wrong' = FALSE
      BY <1>3, <1>9, <3>1
    <3>4. buf' = Pair(at, b2)
      BY <1>3, <3>2 DEF Pair
    <3>5. Pieces(at, b2, n, 0, next)
      BY <1>7, <1>12, <1>13, <3>1 DEF Pieces
    <3>6. n + 0 = (l1 + l2) + n
      BY <1>2, <1>13, <2>1, <3>1
    <3>7. Becomes(at, b2, n, 0)
      BY Zenon, <3>2, <3>3, <3>4, <3>5, <3>6
    <3> HIDE DEF Becomes
    <3> QED
      BY Zenon, <3>7
  <2>2. CASE l1 # 0 /\ l2 = 0 /\ at = b1 + l1
    <3>1. p = "append1"
      BY <1>11, <2>2
    <3>2. buf' = buf /\ len' = [len EXCEPT ![1] = @ + n]
      BY <1>9, <3>1
    <3>3. wrong' = FALSE
      BY <1>3, <1>9, <3>1
    <3>4. len' = Pair(l1 + n, l2)
      BY <1>3, <3>2 DEF Pair
    <3>5. Pieces(b1, b2, l1 + n, l2, next)
      BY <1>2, <1>7, <1>12, <1>13, <2>2 DEF Pieces
    <3>6. (l1 + n) + l2 = (l1 + l2) + n
      BY <1>2, <1>13
    <3>7. Becomes(b1, b2, l1 + n, l2)
      BY Zenon, <1>3, <3>2, <3>3, <3>4, <3>5, <3>6
    <3> HIDE DEF Becomes
    <3> QED
      BY Zenon, <3>7
  <2>3. CASE l1 # 0 /\ ~ (l2 = 0 /\ at = b1 + l1) /\ at = b2 + l2
    <3>1. p = "append2"
      BY <1>11, <2>3
    <3>2. buf' = buf /\ len' = [len EXCEPT ![2] = @ + n]
      BY <1>9, <3>1
    <3>3. wrong' = FALSE
      BY <1>3, <1>9, <3>1
    <3>4. len' = Pair(l1, l2 + n)
      BY <1>3, <3>2 DEF Pair
    <3>5. b2 = 0 /\ next + l1 = RxLen
      BY <1>2, <1>7, <1>12, <1>13, <2>3 DEF RP!Wrap
    <3>6. Pieces(b1, b2, l1, l2 + n, next)
      BY <1>2, <1>7, <1>12, <1>13, <2>3, <3>5 DEF Pieces
    <3>7. l1 + (l2 + n) = (l1 + l2) + n
      BY <1>2, <1>13
    <3>8. Becomes(b1, b2, l1, l2 + n)
      BY Zenon, <1>3, <3>2, <3>3, <3>4, <3>6, <3>7
    <3> HIDE DEF Becomes
    <3> QED
      BY Zenon, <3>8
  <2>4. CASE l1 # 0 /\ ~ (l2 = 0 /\ at = b1 + l1) /\ at # b2 + l2
    <3>1. p = "second"
      BY <1>11, <2>4
    <3>2. l2 = 0 /\ at = 0 /\ next + l1 = RxLen
      BY <1>2, <1>7, <1>12, <1>13, <2>4 DEF RP!Wrap
    <3>3. buf' = [buf EXCEPT ![2] = at] /\ len' = [len EXCEPT ![2] = n]
      BY <1>9, <3>1
    <3>4. wrong' = FALSE
      BY <1>3, <1>9, <1>10, <3>2
    <3>5. buf' = Pair(b1, at) /\ len' = Pair(l1, n)
      BY <1>3, <3>3 DEF Pair
    <3>6. Pieces(b1, at, l1, n, next)
      BY <1>2, <1>7, <1>12, <1>13, <2>4, <3>2 DEF Pieces
    <3>7. l1 + n = (l1 + l2) + n
      BY <1>2, <1>13, <3>2
    <3>8. Becomes(b1, at, l1, n)
      BY Zenon, <3>4, <3>5, <3>6, <3>7
    <3> HIDE DEF Becomes
    <3> QED
      BY Zenon, <3>8
  <2> QED
    BY Zenon, <2>1, <2>2, <2>3, <2>4
<1>15. PICK c1, c2, m1, m2 : Becomes(c1, c2, m1, m2)
  BY Zenon, <1>14
<1>16. Ready(c1, c2, m1, m2, u)'
  BY Zenon, <1>3, <1>6, <1>7, <1>15 DEF Ready
<1> QED
  BY Zenon, <1>16 DEF RxOK

\* a step of any kind
LEMMA RxStep == RxFits /\ RxOK /\ [RP!Next]_(RP!rxVars) => RxOK'
<1> SUFFICES ASSUME RxFits, RxOK, [RP!Next]_(RP!rxVars) PROVE RxOK'
  BY Zenon
<1>1. CASE RP!Next
  <2>1. IovLens \subseteq Nat
    BY Zenon DEF RxFits
  <2>2. \A iov \in IovLens : iov \in Nat
    BY Zenon, <2>1
  <2> QED
    BY Zenon, <1>1, <2>2, ReceivedStep, EventStep, SimpleStep, RecvmsgStep DEF RP!Next
<1>2. CASE UNCHANGED RP!rxVars
  BY Zenon, <1>2 DEF RP!rxVars, RxOK, Ready
<1> QED
  BY Zenon, <1>1, <1>2

\* a part of the receive path that starts empty and takes any of its steps
RxSpec == RP!Init /\ [][RP!Next]_(RP!rxVars)

(***************************************************************************)
(* Whatever the length of the receive buffer, however the data arrives and *)
(* whatever buffers the application passes, recv_simple and tas_recvmsg    *)
(* (lib/sockets/transfer.c) copy the bytes of the stream in order and      *)
(* without a gap, and ev_conn_received never meets a third piece, the case *)
(* in which it aborts.                                                     *)
(***************************************************************************)
THEOREM StreamReadInOrder == ASSUME RxFits PROVE RxSpec => []RP!ReadsInOrder
<1>1. RP!Init => RxOK
  BY RxStart
<1>2. RxOK /\ [RP!Next]_(RP!rxVars) => RxOK'
  BY RxStep
<1>3. RxOK => RP!ReadsInOrder
  BY Zenon DEF RxOK, Ready, RP!ReadsInOrder
<1> QED
  BY <1>1, <1>2, <1>3, PTL DEF RxSpec
=============================================================================
