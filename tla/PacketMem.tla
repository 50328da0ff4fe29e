----------------------------- MODULE PacketMem -----------------------------
(***************************************************************************)
(* The allocator of the shared buffer memory, tas/slow/packetmem.c: a      *)
(* first-fit list of free ranges.  The same list serves the receive and    *)
(* transmit buffers of connections and the queues of application contexts. *)
(* One VM is modelled: every VM has a list of its own.                     *)
(***************************************************************************)
EXTENDS Integers, FiniteSets, Sequences, Functions

CONSTANTS MemLen,     \* bytes of memory behind config.data_mem_off
          AllocLens   \* lengths that are asked for

VARIABLES freelist,   \* the list of free handles, in list order
          held        \* handles that packetmem_alloc gave out

vars == <<freelist, held>>

Handle == [base : 0 .. MemLen, len : 1 .. MemLen]
End(ph) == ph.base + ph.len

\* list without the handle at i, and with ph at i
Unlink(list, i) == SubSeq(list, 1, i - 1) \o SubSeq(list, i + 1, Len(list))
Link(list, i, ph) == SubSeq(list, 1, i - 1) \o <<ph>> \o SubSeq(list, i, Len(list))

packetmem_init ==
  /\ freelist = <<[base |-> 0, len |-> MemLen]>>
  /\ held = {}
-----------------------------------------------------------------------------
\* The first handle that is long enough is taken off the list when it fits
\* exactly, and otherwise loses its front.
packetmem_alloc(length) ==
  LET fits == {i \in DOMAIN freelist : freelist[i].len >= length}
      i    == CHOOSE k \in fits : \A j \in fits : k <= j
      ph   == freelist[i]
  IN /\ fits # {}
     /\ held' = held \cup {[base |-> ph.base, len |-> length]}
     /\ freelist' = IF ph.len = length THEN Unlink(freelist, i)
                    ELSE [freelist EXCEPT ![i] = [base |-> ph.base + length,
                                                  len |-> ph.len - length]]

\* no handle fits: the caller gets -1
alloc_fails(length) == \A i \in DOMAIN freelist : freelist[i].len < length
-----------------------------------------------------------------------------
\* Mutation of MergeNext: the ranges need not touch.
merge_gap(list, i) ==
  IF i >= 1 /\ i < Len(list) /\ End(list[i]) <= list[i + 1].base
    THEN Unlink([list EXCEPT ![i].len = @ + list[i + 1].len], i + 1)
    ELSE list

\* Handle i absorbs its successor when the successor begins where i ends.
MergeNext(list, i) ==
  IF i >= 1 /\ i < Len(list) /\ End(list[i]) = list[i + 1].base
    THEN Unlink([list EXCEPT ![i].len = @ + list[i + 1].len], i + 1)
    ELSE list

\* merge_items: the handle at p with its predecessor, then what is there with
\* its successor.
merge_items(list, p) ==
  LET merged == MergeNext(list, p - 1)
  IN MergeNext(merged, IF merged = list THEN p ELSE p - 1)

\* The loop of packetmem_free steps over handle ph while the one AFTER ph
\* lies below the freed one, so it stops one handle early and the list need
\* not stay sorted.
FreePos(ph) ==
  LET goes(n) == n + 2 <= Len(freelist) /\ freelist[n + 2].base < ph.base
  IN 1 + CHOOSE n \in 0 .. Len(freelist) :
           ~ goes(n) /\ \A m \in 0 .. n - 1 : goes(m)

packetmem_free(ph) ==
  /\ ph \in held
  /\ held' = held \ {ph}
  /\ freelist' = merge_items(Link(freelist, FreePos(ph), ph), FreePos(ph))
-----------------------------------------------------------------------------
Next == \/ \E length \in AllocLens : packetmem_alloc(length)
        \/ \E ph \in held : packetmem_free(ph)

Spec == packetmem_init /\ [][Next]_vars
-----------------------------------------------------------------------------
Bytes(ph) == ph.base .. End(ph) - 1
FreeBytes == UNION {Bytes(freelist[i]) : i \in DOMAIN freelist}
HeldBytes == UNION {Bytes(ph) : ph \in held}

(***************************************************************************)
(* packetmem_alloc and packetmem_free, with the splitting and merging they *)
(* do, never hand out a byte twice and never lose one: the handles that    *)
(* are held and those on the free list together tile the memory, even      *)
(* though the free list is not kept in address order.                      *)
(***************************************************************************)
HandlesTile ==
  LET all == {freelist[i] : i \in DOMAIN freelist} \cup held
  IN /\ \A a, b \in all : a # b => Bytes(a) \cap Bytes(b) = {}
     /\ freelist # <<>> => IsInjective(freelist)
     /\ {freelist[i] : i \in DOMAIN freelist} \cap held = {}
     /\ FreeBytes \cup HeldBytes = 0 .. MemLen - 1

=============================================================================
