------------------------------ MODULE CcSched ------------------------------
(***************************************************************************)
(* Which connections the control loop of tas/slow/cc.c visits: one list of *)
(* connections and one cursor per VM, a cursor over the registered VMs,    *)
(* and a batch shared by all of them.                                      *)
(***************************************************************************)
EXTENDS Integers, FiniteSets, Sequences, Functions

CONSTANTS Conns, None,
          VmOf,       \* the VM of each connection: conn->ctx->app->vm_id
          Vms,        \* tas_registered_vm_ids, in the order of registration
          Batch       \* connections visited by one poll: 128

VARIABLES cc_conns,   \* the list of each VM
          next_conn,  \* the cursor of each VM
          next_vm,    \* the VM to begin with, an index from 0
          vm_count,   \* VMs registered so far
          visited     \* history: connections the last poll visited

vars == <<cc_conns, next_conn, next_vm, vm_count, visited>>

cc_init ==
  /\ cc_conns = [v \in Range(Vms) |-> <<>>]
  /\ next_conn = [v \in Range(Vms) |-> None]
  /\ next_vm = 0
  /\ vm_count = 0
  /\ visited = {}

Listed(c) == c \in Range(cc_conns[VmOf[c]])

tas_register_vm ==
  /\ vm_count < Len(Vms)
  /\ vm_count' = vm_count + 1
  /\ UNCHANGED <<cc_conns, next_conn, next_vm, visited>>

\* Connections of a VM appear only after the VM is registered.
cc_conn_init(c) ==
  /\ ~ Listed(c)
  /\ VmOf[c] \in {Vms[i] : i \in 1 .. vm_count}
  /\ cc_conns' = [cc_conns EXCEPT ![VmOf[c]] = <<c>> \o @]
  /\ visited' = visited \ {c}
  /\ UNCHANGED <<next_conn, next_vm, vm_count>>

cc_conn_remove(c) ==
  LET l == cc_conns[VmOf[c]]
      i == CHOOSE i \in DOMAIN l : l[i] = c
  IN /\ Listed(c)
     /\ cc_conns' = [cc_conns EXCEPT ![VmOf[c]] =
                        SubSeq(l, 1, i - 1) \o SubSeq(l, i + 1, Len(l))]
     /\ next_conn' = [next_conn EXCEPT ![VmOf[c]] =
                        IF @ # c THEN @
                        ELSE IF i < Len(l) THEN l[i + 1] ELSE None]
     /\ visited' = visited \ {c}
     /\ UNCHANGED <<next_vm, vm_count>>
-----------------------------------------------------------------------------
\* The n-th VM, from 0, that a poll comes to.
StartVm == IF next_vm >= vm_count THEN 0 ELSE next_vm
VmAt(n) == Vms[1 + ((StartVm + n) % vm_count)]

\* Connections that cc_poll_vm visits for VM v when room is left for r.
Count(v, r) == IF r <= Len(cc_conns[v]) THEN r ELSE Len(cc_conns[v])

\* The m-th connection from the cursor of v on, around the end of the list.
FromCursor(v, m) ==
  LET l == cc_conns[v]
      s == IF next_conn[v] = None THEN 1
           ELSE CHOOSE i \in DOMAIN l : l[i] = next_conn[v]
  IN l[1 + ((s - 1 + m) % Len(l))]

\* Mutation of next_vm_after: every poll begins with the same VM.
same_vm(done) == 0

\* the VM after the last one this poll came to
next_vm_after(done) == (StartVm + done) % vm_count

\* cc_poll: before[n] connections are visited before the n-th VM
cc_poll ==
  LET before[n \in 0 .. vm_count] ==
        IF n = 0 THEN 0
        ELSE before[n - 1] + Count(VmAt(n - 1), Batch - before[n - 1])
      done == Cardinality({n \in 0 .. vm_count - 1 : before[n] < Batch})
      took(n) == Count(VmAt(n), Batch - before[n])
  IN IF vm_count = 0
     THEN /\ next_vm' = 0
          /\ UNCHANGED <<cc_conns, next_conn, vm_count, visited>>
     ELSE /\ visited' = UNION {{FromCursor(VmAt(n), m) : m \in 0 .. took(n) - 1}
                                 : n \in 0 .. done - 1}
          /\ next_conn' = [v \in DOMAIN next_conn |->
               IF \E n \in 0 .. done - 1 : VmAt(n) = v /\ cc_conns[v] # <<>>
                 THEN FromCursor(v, took(CHOOSE n \in 0 .. done - 1 :
                                           VmAt(n) = v))
                 ELSE next_conn[v]]
          /\ next_vm' = next_vm_after(done)
          /\ UNCHANGED <<cc_conns, vm_count>>

Next == \/ tas_register_vm
        \/ \E c \in Conns : cc_conn_init(c) \/ cc_conn_remove(c)
        \/ cc_poll

Spec == cc_init /\ [][Next]_vars

\* The main loop of the slow path calls cc_poll in every round.
Fairness == WF_vars(cc_poll)
-----------------------------------------------------------------------------
(***************************************************************************)
(* The cursor of a VM never points to a connection that was removed:       *)
(* cc_poll_vm begins at the cursor, and a removed connection is freed.     *)
(***************************************************************************)
CursorListed ==
  \A v \in Range(Vms) : next_conn[v] # None => next_conn[v] \in Range(cc_conns[v])

(***************************************************************************)
(* Every connection is visited by the control loop, which is what sets its *)
(* rate and retransmits for it, although a poll stops after Batch visits,  *)
(* connections come and go, and several VMs share the batch.               *)
(***************************************************************************)
EveryConnVisited ==
  \A c \in Conns : []<>(c \in visited \/ ~ Listed(c))
=============================================================================
