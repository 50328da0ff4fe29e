---------------------------- MODULE Shared_proofs ----------------------------
(***************************************************************************)
(* Proofs about what the slow path, the fast-path cores and the            *)
(* applications share, for any number of them: the budgets that cores      *)
(* spend while the slow path adds (Budget), the rings between the slow     *)
(* path and the cores (KernelRings), and blocking and notification         *)
(* (Wakeup).                                                               *)
(***************************************************************************)
EXTENDS Budget, FiniteSetTheorems, TLAPS
-----------------------------------------------------------------------------
(***************************************************************************)
(* Budget: why a budget never exceeds its maximum, whatever costs and      *)
(* cycles to hand out there are.                                           *)
(***************************************************************************)

\* what is assumed of the constants
Sizes ==
  /\ \E n \in Nat \ {0} : BuVms = 1 .. n
  /\ \E n \in Nat \ {0} : BuCores = 1 .. n
  /\ BuMax \in Nat /\ BuTotals \subseteq Nat /\ BuCosts \subseteq Nat

\* what the slow path keeps during an update
Update == [vm : Nat, core : Int, total : Nat, deltas : [BuCores -> Nat], sum : Nat,
           old : Int]

\* the types; the loop variables of an update stay in their ranges
TypeOK ==
  /\ budget \in [BuVms -> [BuCores -> Int]] /\ upd \in Update
  /\ upd.vm # 0 => upd.vm \in BuVms
  /\ upd.core > 0 => upd.core \in BuCores
  /\ upd.core < 0 => -upd.core \in BuCores

\* The budget that boost_budget read can only have been spent from since.
ReadAbove == upd.old # None => budget[upd.vm][-upd.core] <= upd.old

\* what boost_budget has read belongs to the update that is going on
Reading == upd.old # None => upd.vm # 0 /\ upd.core < 0

\* the inductive invariant
IInv == TypeOK /\ AtMostMax /\ Reading /\ ReadAbove

(***************************************************************************)
(* The sizes that the loops of budget_update count to.                     *)
(***************************************************************************)
LEMMA SizeLemma ==
  ASSUME Sizes
  PROVE  /\ Cardinality(BuVms) \in Nat \ {0} /\ BuVms = 1 .. Cardinality(BuVms)
         /\ NBuCores \in Nat \ {0} /\ BuCores = 1 .. NBuCores
         /\ BuMax \in Nat /\ None \in Int /\ None > BuMax
<1>1. \A n \in Nat \ {0} : Cardinality(1 .. n) = n
  <2> TAKE n \in Nat \ {0}
  <2>1. 1 \in Int /\ n \in Int /\ 1 <= n
    OBVIOUS
  <2> QED
    BY <2>1, FS_Interval
<1> QED
  BY <1>1 DEF Sizes, NBuCores, None

(***************************************************************************)
(* Assigning fields of the update values of their types.                   *)
(***************************************************************************)
LEMMA Upd ==
  ASSUME NEW u \in Update
  PROVE  /\ \A v \in Nat : [u EXCEPT !.vm = v] \in Update
         /\ \A v \in Int : [u EXCEPT !.core = v] \in Update
         /\ \A v \in Nat : [u EXCEPT !.total = v] \in Update
         /\ \A v \in [BuCores -> Nat] : [u EXCEPT !.deltas = v] \in Update
         /\ \A v \in Nat : [u EXCEPT !.sum = v] \in Update
  BY DEF Update

(***************************************************************************)
(* Quotients of what the budgets are computed from are integers, and not   *)
(* negative.                                                               *)
(***************************************************************************)
LEMMA DivLemma == \A a \in Nat, n \in Nat \ {0} : a \div n \in Nat
  OBVIOUS

(***************************************************************************)
(* What boost_budget adds is at most what was missing when it read.        *)
(***************************************************************************)
LEMMA AddedLemma ==
  ASSUME Sizes, TypeOK, NEW c \in BuCores
  PROVE  Added(c) \in Int /\ Added(c) <= BuMax - upd.old
<1>1. /\ upd.total \in Nat /\ upd.sum \in Nat /\ upd.deltas[c] \in Nat /\ upd.old \in Int
  BY DEF TypeOK, Update
<1>2. upd.total \div Cardinality(BuVms) \in Nat
  BY <1>1, SizeLemma, DivLemma
<1>3. Incr \in Nat
  BY <1>2, SizeLemma DEF Incr
<1>4. Incr \div NBuCores \in Nat
  BY <1>3, SizeLemma, DivLemma
<1>5. Incr * upd.deltas[c] \in Nat
  BY <1>1, <1>3
<1>6. upd.sum # 0 => (Incr * upd.deltas[c]) \div upd.sum \in Nat
  BY <1>1, <1>5, DivLemma
<1>7. Share(c) \in Nat
  BY <1>4, <1>6 DEF Share
<1> QED
  BY SMTT(60), <1>1, <1>7, SizeLemma DEF Added

(***************************************************************************)
(* Spending on any core keeps the invariant: it only takes away.           *)
(***************************************************************************)
LEMMA SpendStep ==
  ASSUME Sizes, IInv, UNCHANGED upd, budget' \in [BuVms -> [BuCores -> Int]],
         \A v \in BuVms, c \in BuCores : budget'[v][c] <= budget[v][c]
  PROVE  IInv'
<1>1. TypeOK'
  BY DEF IInv, TypeOK
<1>2. \A v \in BuVms, c \in BuCores : budget[v][c] \in Int /\ budget'[v][c] \in Int
  BY DEF IInv, TypeOK
<1>3. AtMostMax'
  BY <1>2, SizeLemma DEF IInv, AtMostMax
<1>4. Reading'
  BY DEF IInv, Reading, None
<1>5. ReadAbove'
  <2> SUFFICES ASSUME upd.old # None PROVE budget'[upd.vm][-upd.core] <= upd.old
    BY DEF ReadAbove, None
  <2>1. upd.vm \in BuVms /\ -upd.core \in BuCores /\ upd.old \in Int
    BY DEF IInv, Reading, TypeOK, Update
  <2>2. budget[upd.vm][-upd.core] <= upd.old
    BY DEF IInv, ReadAbove
  <2> QED
    BY <1>2, <2>1, <2>2
<1> QED
  BY <1>1, <1>3, <1>4, <1>5 DEF IInv

(***************************************************************************)
(* Every step of a core or of the slow path keeps the invariant.           *)
(***************************************************************************)
LEMMA NextIInv ==
  ASSUME Sizes, IInv, [Next]_budgetVars
  PROVE  IInv'
<1>1. /\ \A v \in BuVms, c \in BuCores : budget[v][c] \in Int /\ budget[v][c] <= BuMax
      /\ BuMax \in Nat /\ upd \in Update
  BY SMTT(60), SizeLemma DEF IInv, TypeOK, AtMostMax
<1>2. CASE UNCHANGED budgetVars
  BY <1>2 DEF budgetVars, IInv, TypeOK, AtMostMax, Reading, ReadAbove
<1>3. ASSUME NEW c \in BuCores, spend_budget(c) PROVE IInv'
  <2>1. PICK cost \in BuCosts, counter \in [BuVms -> 0 .. 1] :
          /\ Cardinality({v \in BuVms : counter[v] = 1}) > 0
          /\ budget' = [v \in BuVms |->
               [budget[v] EXCEPT ![c] = budget[v][c] - (cost * counter[v])
                  \div Cardinality({w \in BuVms : counter[w] = 1})]]
          /\ upd' = upd
    BY Zenon, <1>3 DEF spend_budget
  <2> DEFINE n == Cardinality({v \in BuVms : counter[v] = 1})
  <2>2. n \in Nat \ {0}
    <3>1. IsFiniteSet(BuVms)
      BY FS_Interval DEF Sizes
    <3>2. IsFiniteSet({v \in BuVms : counter[v] = 1})
      BY <3>1, FS_Subset
    <3> QED
      BY <2>1, <3>2, FS_CardinalityType
  <2>3. \A v \in BuVms : (cost * counter[v]) \div n \in Nat
    <3> TAKE v \in BuVms
    <3>1. cost * counter[v] \in Nat
      BY DEF Sizes
    <3> HIDE DEF n
    <3> QED
      BY <2>2, <3>1, DivLemma
  <2>4. /\ budget' = [v \in BuVms |->
                        [budget[v] EXCEPT ![c] = budget[v][c] - (cost * counter[v]) \div n]]
        /\ upd' = upd
    BY <2>1
  <2> DEFINE pay(v) == (cost * counter[v]) \div n
  <2>5. budget' = [v \in BuVms |-> [budget[v] EXCEPT ![c] = budget[v][c] - pay(v)]]
    BY <2>4
  <2>6. \A v \in BuVms : pay(v) \in Nat
    BY <2>3
  <2> HIDE DEF n, pay
  <2>7. /\ budget' \in [BuVms -> [BuCores -> Int]]
        /\ \A v \in BuVms, d \in BuCores : budget'[v][d] <= budget[v][d]
    BY <1>1, <2>5, <2>6 DEF IInv, TypeOK
  <2> QED
    BY <2>4, <2>7, SpendStep
<1>4. ASSUME NEW c \in BuCores, NEW v \in BuVms, SpendRexmit(c, v) PROVE IInv'
  <2>1. PICK cost \in Nat : budget' = [budget EXCEPT ![v][c] = budget[v][c] - cost]
    BY Zenon, <1>4 DEF SpendRexmit, Sizes
  <2>2. /\ budget' \in [BuVms -> [BuCores -> Int]]
        /\ \A w \in BuVms, d \in BuCores : budget'[w][d] <= budget[w][d]
    BY <1>1, <2>1 DEF IInv, TypeOK
  <2> QED
    BY <1>4, <2>2, SpendStep DEF SpendRexmit
<1>5. CASE budget_update
  <2>1. PICK total \in Nat : /\ upd' = [upd EXCEPT !.vm = 1, !.core = 1, !.total = total]
                             /\ budget' = budget /\ upd.vm = 0
    BY Zenon, <1>5 DEF budget_update, Sizes
  <2>2. /\ upd' \in Update /\ upd'.vm = 1 /\ upd'.core = 1 /\ upd'.old = upd.old
    <3>1. 1 \in Nat /\ 1 \in Int
      OBVIOUS
    <3>2. upd' \in Update
      BY Zenon, <1>1, <2>1, <3>1, Upd
    <3> QED
      BY <1>1, <2>1, <3>2 DEF Update
  <2>3. 1 \in BuVms /\ 1 \in BuCores
    BY SizeLemma
  <2>4. upd.old = None
    BY <2>1 DEF IInv, Reading
  <2> QED
    BY <2>1, <2>2, <2>3, <2>4
       DEF IInv, TypeOK, AtMostMax, Reading, ReadAbove, None
<1>6. CASE ReadDelta
  <2> DEFINE d == BuMax - budget[upd.vm][upd.core]
             next == IF upd.core = NBuCores THEN -1 ELSE upd.core + 1
  <2>1. /\ upd.vm # 0 /\ upd.core > 0 /\ budget' = budget
        /\ upd' = [upd EXCEPT !.deltas[upd.core] = d, !.sum = upd.sum + d, !.core = next]
    BY <1>6 DEF ReadDelta
  <2>2. upd.vm \in BuVms /\ upd.core \in BuCores /\ upd.core \in Int
    BY <1>1, <2>1 DEF IInv, TypeOK, Update
  <2>3. d \in Nat
    BY <1>1, <2>2
  <2>4. next \in Int /\ (next > 0 => next \in BuCores) /\ (next < 0 => -next \in BuCores)
    BY SMTT(60), <2>2, SizeLemma
  <2>5. upd.old = None
    BY <1>1, <2>1, <2>2 DEF IInv, Reading
  <2> HIDE DEF d, next
  <2>6. /\ upd' \in Update /\ upd'.vm = upd.vm /\ upd'.core = next /\ upd'.old = upd.old
    <3> DEFINE ds == [upd.deltas EXCEPT ![upd.core] = d]
    <3>1. ds \in [BuCores -> Nat] /\ upd.sum + d \in Nat
      <4>1. upd.deltas \in [BuCores -> Nat] /\ upd.sum \in Nat
        BY <1>1 DEF Update
      <4>2. \A g \in [BuCores -> Nat], i \in BuCores, v \in Nat :
              [g EXCEPT ![i] = v] \in [BuCores -> Nat]
        OBVIOUS
      <4>3. ds \in [BuCores -> Nat]
        BY Zenon, <2>2, <2>3, <4>1, <4>2
      <4>4. upd.sum + d \in Nat
        BY <2>3, <4>1
      <4> QED
        BY <4>3, <4>4
    <3>2. upd' = [upd EXCEPT !.deltas = ds, !.sum = upd.sum + d, !.core = next]
      BY <2>1
    <3> HIDE DEF ds
    <3>3. upd' \in Update
      BY Zenon, <1>1, <2>4, <3>1, <3>2, Upd
    <3> QED
      BY <1>1, <3>2, <3>3 DEF Update
  <2> QED
    BY <2>1, <2>2, <2>4, <2>5, <2>6
       DEF IInv, TypeOK, AtMostMax, Reading, ReadAbove, None
<1>7. CASE BoostRead
  <2>1. /\ upd.vm # 0 /\ upd.core < 0 /\ budget' = budget
        /\ upd' = [upd EXCEPT !.old = budget[upd.vm][-upd.core]]
    BY <1>7 DEF BoostRead
  <2>2. upd.vm \in BuVms /\ -upd.core \in BuCores
    BY <2>1 DEF IInv, TypeOK
  <2>3. budget[upd.vm][-upd.core] \in Int
    BY <1>1, <2>2
  <2>4. /\ upd' \in Update /\ upd'.vm = upd.vm /\ upd'.core = upd.core
        /\ upd'.old = budget[upd.vm][-upd.core]
    BY <1>1, <2>1, <2>3 DEF Update
  <2> QED
    BY <2>1, <2>2, <2>3, <2>4
       DEF IInv, TypeOK, AtMostMax, Reading, ReadAbove, None
<1>8. CASE BoostAdd
  <2> DEFINE c == -upd.core
             more == Added(c)
  <2>1. /\ upd.vm # 0 /\ upd.core < 0 /\ upd.old # None
        /\ budget' = [budget EXCEPT ![upd.vm][c] = budget[upd.vm][c] + more]
    BY <1>8 DEF BoostAdd
  <2>2. upd.vm \in BuVms /\ c \in BuCores /\ upd.core \in Int /\ upd.old \in Int
    BY <1>1, <2>1 DEF IInv, TypeOK, Update
  <2>3. more \in Int /\ more <= BuMax - upd.old
    BY <2>2, AddedLemma DEF IInv
  <2>4. budget[upd.vm][c] <= upd.old
    BY <2>1 DEF IInv, ReadAbove
  <2>5. /\ upd' \in Update /\ upd'.old = None
        /\ upd'.vm # 0 => upd'.vm \in BuVms
        /\ upd'.core > 0 => upd'.core \in BuCores
        /\ upd'.core < 0 => -upd'.core \in BuCores
    <3>1. /\ upd.vm \in Nat /\ upd.total \in Nat /\ c \in Nat
          /\ Idle \in Update /\ None \in Int
      BY SMTT(60), <1>1, <2>2, SizeLemma DEF Idle, Update
    <3>2. CASE c < NBuCores
      <4>1. upd' = [upd EXCEPT !.core = upd.core - 1, !.old = None]
        BY <1>8, <3>2 DEF BoostAdd
      <4>2. -(upd.core - 1) \in BuCores /\ upd.core - 1 \in Int /\ upd.core - 1 < 0
        BY <2>2, <3>1, <3>2, SizeLemma
      <4>3. /\ upd' \in Update /\ upd'.old = None /\ upd'.vm = upd.vm
            /\ upd'.core = upd.core - 1
        BY Zenon, <1>1, <3>1, <4>1, <4>2 DEF Update
      <4> QED
        BY <2>2, <4>2, <4>3
    <3>3. CASE ~(c < NBuCores) /\ upd.vm = Cardinality(BuVms)
      <4>1. upd' = Idle
        BY <1>8, <3>3 DEF BoostAdd
      <4> QED
        BY <3>1, <4>1 DEF Idle
    <3>4. CASE ~(c < NBuCores) /\ upd.vm # Cardinality(BuVms)
      <4>1. upd' = [Idle EXCEPT !.vm = upd.vm + 1, !.core = 1, !.total = upd.total]
        BY <1>8, <3>4 DEF BoostAdd
      <4>2. upd.vm + 1 \in BuVms /\ 1 \in BuCores
        BY <2>2, <3>4, SizeLemma
      <4>3. /\ upd' \in Update /\ upd'.old = None /\ upd'.vm = upd.vm + 1
            /\ upd'.core = 1
        <5>1. 1 \in Int /\ upd.vm + 1 \in Nat
          BY <3>1
        <5>2. upd' \in Update
          BY Zenon, <3>1, <4>1, <5>1, Upd
        <5> QED
          BY <4>1, <5>2 DEF Idle
      <4> QED
        BY <4>2, <4>3
    <3> QED
      BY <3>2, <3>3, <3>4
  <2> HIDE DEF c, more
  <2>6. /\ budget' \in [BuVms -> [BuCores -> Int]]
        /\ \A v \in BuVms, e \in BuCores : budget'[v][e] <= BuMax
    <3>1. budget[upd.vm][c] + more \in Int /\ budget[upd.vm][c] + more <= BuMax
      BY <1>1, <2>2, <2>3, <2>4
    <3> QED
      BY <1>1, <2>1, <2>2, <3>1 DEF IInv, TypeOK
  <2>7. TypeOK' /\ AtMostMax'
    BY <2>5, <2>6 DEF TypeOK, AtMostMax
  <2> QED
    BY <2>5, <2>7 DEF IInv, Reading, ReadAbove, None
<1> QED
  BY <1>2, <1>3, <1>4, <1>5, <1>6, <1>7, <1>8 DEF Next

(***************************************************************************)
(* Budgets are bounded: whatever the cores spend while budget_update       *)
(* reads, computes and adds, and however stale what it computes from, no   *)
(* VM has more than bu_max_budget on any core.                             *)
(***************************************************************************)
THEOREM Bounded ==
  ASSUME Sizes
  PROVE  Spec => []AtMostMax
<1>1. Init => IInv
  <2> SUFFICES ASSUME Init PROVE IInv
    OBVIOUS
  <2>1. Idle \in Update /\ upd = Idle
    BY SizeLemma DEF Init, Idle, Update
  <2> QED
    BY <2>1, SizeLemma DEF Init, IInv, TypeOK, AtMostMax, Reading, ReadAbove, Idle
<1>2. IInv /\ [Next]_budgetVars => IInv'
  BY NextIInv
<1>3. IInv => AtMostMax
  BY DEF IInv
<1> QED
  BY <1>1, <1>2, <1>3, PTL DEF Spec

-----------------------------------------------------------------------------
(***************************************************************************)
(* KernelRings: why the rings lose and overwrite nothing.                  *)
(***************************************************************************)
CONSTANTS KCores, NicRxLen, NicTxLen, KLoads
VARIABLES kload, krx, ktx, rxq_next, busy
\* the component, over the names above
KR == INSTANCE KernelRings

\* x modulo m for what positions and numbers add up to
Wrap(x, m) == IF x < m THEN x ELSE x - m

(***************************************************************************)
(* The remainder of a sum of two numbers below m.                          *)
(***************************************************************************)
LEMMA ModLemma == \A m \in Nat \ {0} : \A x \in 0 .. 2 * m - 1 : x % m = Wrap(x, m)
<1>1. \A m \in Nat \ {0} : \A x \in 0 .. m - 1 : x % m = x
  OBVIOUS
<1>2. \A m \in Nat \ {0} : \A x \in 0 .. 2 * m - 1 : x >= m => x % m = x - m
  OBVIOUS
<1> SUFFICES ASSUME NEW m \in Nat \ {0}, NEW x \in 0 .. 2 * m - 1
             PROVE  x % m = Wrap(x, m)
  OBVIOUS
<1>3. CASE x < m
  BY <1>1, <1>3 DEF Wrap
<1>4. CASE x >= m
  BY <1>2, <1>4 DEF Wrap
<1> QED
  BY <1>3, <1>4

(***************************************************************************)
(* The two ways in which the code takes a step in a ring are the same.     *)
(***************************************************************************)
LEMMA StepLemma ==
  \A m \in Nat \ {0} : \A x \in 0 .. m - 1 :
    /\ (x + 1) % m = Wrap(x + 1, m)
    /\ Wrap(x + 1, m) = IF x + 1 = m THEN 0 ELSE x + 1
<1> SUFFICES ASSUME NEW m \in Nat \ {0}, NEW x \in 0 .. m - 1
             PROVE  /\ (x + 1) % m = Wrap(x + 1, m)
                    /\ Wrap(x + 1, m) = IF x + 1 = m THEN 0 ELSE x + 1
  OBVIOUS
<1>1. x + 1 \in 0 .. 2 * m - 1
  OBVIOUS
<1>2. (x + 1) % m = Wrap(x + 1, m)
  BY <1>1, ModLemma
<1>3. Wrap(x + 1, m) = IF x + 1 = m THEN 0 ELSE x + 1
  BY DEF Wrap
<1> QED
  BY <1>2, <1>3

(***************************************************************************)
(* A ring of L slots whose consumer is at first and whose producer is at   *)
(* last holds the entries taken .. sent - 1, in order, and nothing else.   *)
(***************************************************************************)
RingOK(L, slot, first, last, sent, taken) ==
  /\ slot \in [0 .. L - 1 -> Nat] /\ first \in 0 .. L - 1 /\ last \in 0 .. L - 1
  /\ sent \in 0 .. 2 * L - 1 /\ taken \in 0 .. 2 * L - 1
  /\ \E u \in 0 .. L :
       /\ sent = Wrap(taken + u, 2 * L) /\ last = Wrap(first + u, L)
       /\ \A k \in 0 .. L - 1 :
            slot[Wrap(first + k, L)] =
              IF k < u THEN KR!Entry(Wrap(taken + k, 2 * L)) ELSE 0

(***************************************************************************)
(* A producer that writes only into a free slot puts the next entry behind *)
(* the others: if the slot at its position is free the ring is not full.   *)
(***************************************************************************)
LEMMA Put ==
  ASSUME NEW L \in Nat \ {0}, NEW slot, NEW first, NEW last, NEW sent, NEW taken,
         RingOK(L, slot, first, last, sent, taken), slot[last] = 0
  PROVE  RingOK(L, [slot EXCEPT ![last] = KR!Entry(sent)], first, Wrap(last + 1, L),
                Wrap(sent + 1, 2 * L), taken)
<1>1. /\ slot \in [0 .. L - 1 -> Nat] /\ first \in 0 .. L - 1 /\ last \in 0 .. L - 1
      /\ sent \in 0 .. 2 * L - 1 /\ taken \in 0 .. 2 * L - 1
  BY DEF RingOK
<1>2. PICK u \in 0 .. L :
        /\ sent = Wrap(taken + u, 2 * L) /\ last = Wrap(first + u, L)
        /\ \A k \in 0 .. L - 1 :
             slot[Wrap(first + k, L)] =
               IF k < u THEN KR!Entry(Wrap(taken + k, 2 * L)) ELSE 0
  BY SMTT(60) DEF RingOK
<1>3. u < L
  <2>1. SUFFICES ASSUME u = L PROVE FALSE
    OBVIOUS
  <2>2. Wrap(first + L, L) = first /\ Wrap(first + 0, L) = first /\ 0 < L
    BY <1>1 DEF Wrap
  <2>3. slot[first] = KR!Entry(Wrap(taken + 0, 2 * L))
    BY <1>2, <2>1, <2>2
  <2>4. KR!Entry(Wrap(taken + 0, 2 * L)) # 0
    BY <1>1 DEF KR!Entry, Wrap
  <2> QED
    BY <1>2, <2>1, <2>2, <2>3, <2>4
<1> DEFINE new == [slot EXCEPT ![last] = KR!Entry(sent)]
<1>4. /\ new \in [0 .. L - 1 -> Nat] /\ Wrap(last + 1, L) \in 0 .. L - 1
      /\ Wrap(sent + 1, 2 * L) \in 0 .. 2 * L - 1
  BY <1>1 DEF KR!Entry, Wrap
<1>5. /\ u + 1 \in 0 .. L /\ Wrap(sent + 1, 2 * L) = Wrap(taken + (u + 1), 2 * L)
      /\ Wrap(last + 1, L) = Wrap(first + (u + 1), L)
  BY <1>1, <1>2, <1>3 DEF Wrap
<1>6. ASSUME NEW k \in 0 .. L - 1
      PROVE  new[Wrap(first + k, L)] =
               IF k < u + 1 THEN KR!Entry(Wrap(taken + k, 2 * L)) ELSE 0
  <2>1. Wrap(first + k, L) \in 0 .. L - 1 /\ (Wrap(first + k, L) = last <=> k = u)
    BY SMTT(60), <1>1, <1>2, <1>3 DEF Wrap
  <2>2. CASE k = u
    BY <1>1, <1>2, <2>1, <2>2
  <2>3. CASE k # u
    <3>1. new[Wrap(first + k, L)] = slot[Wrap(first + k, L)]
      BY <1>1, <2>1, <2>3
    <3>2. k < u + 1 <=> k < u
      BY <2>3
    <3> QED
      BY <1>2, <3>1, <3>2
  <2> QED
    BY <2>2, <2>3
<1> HIDE DEF new
<1>7. \E v \in 0 .. L :
        /\ Wrap(sent + 1, 2 * L) = Wrap(taken + v, 2 * L)
        /\ Wrap(last + 1, L) = Wrap(first + v, L)
        /\ \A k \in 0 .. L - 1 :
             new[Wrap(first + k, L)] =
               IF k < v THEN KR!Entry(Wrap(taken + k, 2 * L)) ELSE 0
  BY <1>5, <1>6
<1>8. RingOK(L, new, first, Wrap(last + 1, L), Wrap(sent + 1, 2 * L), taken)
  BY Zenon, <1>1, <1>4, <1>7 DEF RingOK
<1> QED
  BY <1>8 DEF new

(***************************************************************************)
(* A consumer that clears an entry leaves the entries behind it.           *)
(***************************************************************************)
LEMMA Take ==
  ASSUME NEW L \in Nat \ {0}, NEW slot, NEW first, NEW last, NEW sent, NEW taken,
         RingOK(L, slot, first, last, sent, taken), slot[first] # 0
  PROVE  RingOK(L, [slot EXCEPT ![first] = 0], Wrap(first + 1, L), last, sent,
                Wrap(taken + 1, 2 * L))
<1>1. /\ slot \in [0 .. L - 1 -> Nat] /\ first \in 0 .. L - 1 /\ last \in 0 .. L - 1
      /\ sent \in 0 .. 2 * L - 1 /\ taken \in 0 .. 2 * L - 1
  BY DEF RingOK
<1>2. PICK u \in 0 .. L :
        /\ sent = Wrap(taken + u, 2 * L) /\ last = Wrap(first + u, L)
        /\ \A k \in 0 .. L - 1 :
             slot[Wrap(first + k, L)] =
               IF k < u THEN KR!Entry(Wrap(taken + k, 2 * L)) ELSE 0
  BY Zenon DEF RingOK
<1>3. u > 0
  <2>1. Wrap(first + 0, L) = first /\ 0 \in 0 .. L - 1
    BY <1>1 DEF Wrap
  <2> QED
    BY <1>2, <2>1
<1> DEFINE new == [slot EXCEPT ![first] = 0]
           f == Wrap(first + 1, L)
           t == Wrap(taken + 1, 2 * L)
<1>4. /\ new \in [0 .. L - 1 -> Nat] /\ f \in 0 .. L - 1 /\ t \in 0 .. 2 * L - 1
  BY <1>1 DEF Wrap
<1>5. u - 1 \in 0 .. L /\ sent = Wrap(t + (u - 1), 2 * L) /\ last = Wrap(f + (u - 1), L)
  BY <1>1, <1>2, <1>3 DEF Wrap
<1>6. ASSUME NEW k \in 0 .. L - 1
      PROVE  new[Wrap(f + k, L)] = IF k < u - 1 THEN KR!Entry(Wrap(t + k, 2 * L)) ELSE 0
  <2>1. CASE k = L - 1
    <3>1. Wrap(f + k, L) = first /\ ~(k < u - 1)
      BY <1>1, <2>1 DEF Wrap
    <3> QED
      BY SMTT(60), <1>1, <3>1
  <2>2. CASE k < L - 1
    <3>1. /\ k + 1 \in 0 .. L - 1 /\ Wrap(f + k, L) = Wrap(first + (k + 1), L)
          /\ Wrap(f + k, L) # first /\ Wrap(f + k, L) \in 0 .. L - 1
          /\ Wrap(t + k, 2 * L) = Wrap(taken + (k + 1), 2 * L)
          /\ k < u - 1 <=> k + 1 < u
      BY <1>1, <1>3, <2>2 DEF Wrap
    <3>2. new[Wrap(f + k, L)] = slot[Wrap(first + (k + 1), L)]
      BY <1>1, <3>1
    <3> HIDE DEF new, f, t
    <3> QED
      BY <1>2, <3>1, <3>2
  <2> QED
    BY <2>1, <2>2
<1> HIDE DEF new, f, t
<1>7. \E v \in 0 .. L :
        /\ sent = Wrap(t + v, 2 * L) /\ last = Wrap(f + v, L)
        /\ \A k \in 0 .. L - 1 :
             new[Wrap(f + k, L)] = IF k < v THEN KR!Entry(Wrap(t + k, 2 * L)) ELSE 0
  BY <1>5, <1>6
<1>8. RingOK(L, new, f, last, sent, t)
  BY Zenon, <1>1, <1>4, <1>7 DEF RingOK
<1> QED
  BY <1>8 DEF new, f, t

(***************************************************************************)
(* RingOK gives what KrxIntact and KtxIntact say of the slots of one ring. *)
(***************************************************************************)
LEMMA Intact ==
  ASSUME NEW L \in Nat \ {0}, NEW slot, NEW first, NEW last, NEW sent, NEW taken,
         RingOK(L, slot, first, last, sent, taken), NEW k \in 0 .. L - 1
  PROVE  slot[(first + k) % L] =
           IF k < KR!Unread(sent, taken, 2 * L) THEN KR!Entry((taken + k) % (2 * L)) ELSE 0
<1>1. /\ first \in 0 .. L - 1 /\ sent \in 0 .. 2 * L - 1 /\ taken \in 0 .. 2 * L - 1
  BY DEF RingOK
<1>2. PICK u \in 0 .. L :
        /\ sent = Wrap(taken + u, 2 * L)
        /\ \A j \in 0 .. L - 1 :
             slot[Wrap(first + j, L)] =
               IF j < u THEN KR!Entry(Wrap(taken + j, 2 * L)) ELSE 0
  BY Zenon DEF RingOK
<1>3. 2 * L \in Nat \ {0}
  OBVIOUS
<1>4. (first + k) % L = Wrap(first + k, L)
  <2>1. first + k \in 0 .. 2 * L - 1
    BY <1>1
  <2> QED
    BY <2>1, ModLemma
<1>5. (taken + k) % (2 * L) = Wrap(taken + k, 2 * L)
  <2>1. taken + k \in 0 .. 2 * (2 * L) - 1
    BY <1>1
  <2> QED
    BY <1>3, <2>1, ModLemma
<1>6. KR!Unread(sent, taken, 2 * L) = u
  <2>1. sent + 2 * L - taken \in 0 .. 2 * (2 * L) - 1
    BY <1>1
  <2>2. (sent + 2 * L - taken) % (2 * L) = Wrap(sent + 2 * L - taken, 2 * L)
    BY <1>3, <2>1, ModLemma
  <2>3. Wrap(sent + 2 * L - taken, 2 * L) = u
    BY <1>1, <1>2 DEF Wrap
  <2> QED
    BY <2>2, <2>3 DEF KR!Unread
<1> QED
  BY <1>2, <1>4, <1>5, <1>6
-----------------------------------------------------------------------------
\* what is assumed of the cores
SomeCores == \E n \in 1 .. 64 : KCores = 0 .. n - 1

\* a ring from a core to the slow path
KrxRing ==
  [slot : [0 .. NicRxLen - 1 -> Nat], rx_head : 0 .. NicRxLen - 1,
   rxq_tail : 0 .. NicRxLen - 1, sent : 0 .. KR!KrxMod - 1, taken : 0 .. KR!KrxMod - 1]

\* such a ring holds the entries that were sent and not taken
KrxOK(r) == /\ r \in KrxRing
            /\ RingOK(NicRxLen, r.slot, r.rxq_tail, r.rx_head, r.sent, r.taken)

\* the packet that rxq_poll is processing is the first of its ring
Processing(c) == /\ busy = <<c, krx[c].rxq_tail, krx[c].slot[krx[c].rxq_tail]>>
                 /\ krx[c].slot[krx[c].rxq_tail] # 0

\* the inductive invariant of these rings
KrxInv ==
  /\ krx \in [KCores -> KrxRing] /\ rxq_next \in KCores
  /\ \A c \in KCores : KrxOK(krx[c])
  /\ busy # <<>> => \E c \in KCores : Processing(c)

(***************************************************************************)
(* The cores are polled in turn: after a core comes a core.                *)
(***************************************************************************)
LEMMA CoreLemma ==
  ASSUME SomeCores
  PROVE  0 \in KCores /\ \A c \in KCores : KR!NextCore(c) \in KCores
<1>1. PICK n \in 1 .. 64 : KCores = 0 .. n - 1
  BY Zenon DEF SomeCores
<1>2. KR!NKCores = n
  BY <1>1 DEF KR!NKCores
<1>3. \A c \in KCores : (c + 1) % n \in 0 .. n - 1
  BY <1>1
<1> QED
  BY <1>1, <1>2, <1>3 DEF KR!NextCore

(***************************************************************************)
(* A packet from a core, and the end of its processing.                    *)
(***************************************************************************)
LEMMA KrxStep ==
  ASSUME SomeCores, NicRxLen \in Nat \ {0}, KrxInv, [KR!Next]_KR!kringVars
  PROVE  KrxInv'
<1> DEFINE L == NicRxLen
<1>1. /\ L \in Nat \ {0} /\ 2 * L \in Nat \ {0} /\ KR!KrxMod = 2 * L
      /\ \A c \in KCores :
           /\ krx[c] \in KrxRing /\ krx[c].slot \in [0 .. L - 1 -> Nat]
           /\ krx[c].rx_head \in 0 .. L - 1 /\ krx[c].rxq_tail \in 0 .. L - 1
           /\ krx[c].sent \in 0 .. 2 * L - 1 /\ krx[c].taken \in 0 .. 2 * L - 1
  <2>1. 2 * L \in Nat \ {0} /\ KR!KrxMod = 2 * L
    BY DEF KR!KrxMod
  <2>2. \A c \in KCores : krx[c] \in KrxRing
    BY DEF KrxInv
  <2> QED
    BY <2>1, <2>2 DEF KrxRing
<1>2. \A x \in 0 .. L - 1 : /\ (x + 1) % L = Wrap(x + 1, L)
                            /\ Wrap(x + 1, L) = IF x + 1 = L THEN 0 ELSE x + 1
  BY <1>1, StepLemma
<1>3. \A x \in 0 .. 2 * L - 1 : (x + 1) % (2 * L) = Wrap(x + 1, 2 * L)
  BY <1>1, StepLemma
<1>4. CASE UNCHANGED <<krx, rxq_next, busy>>
  BY <1>4 DEF KrxInv, KrxOK, Processing
<1>5. ASSUME NEW c \in KCores, KR!fast_kernel_packet(c) PROVE KrxInv'
  <2> DEFINE r == krx[c]
             new == [r EXCEPT !.slot = [r.slot EXCEPT ![r.rx_head] = KR!Entry(r.sent)],
                              !.rx_head = Wrap(r.rx_head + 1, L),
                              !.sent = Wrap(r.sent + 1, 2 * L)]
  <2>1. /\ r.slot[r.rx_head] = 0 /\ rxq_next' = rxq_next /\ busy' = busy
        /\ krx' = [krx EXCEPT ![c] = new]
    BY ZenonT(60), <1>1, <1>2, <1>3, <1>5 DEF KR!fast_kernel_packet, KrxInv
  <2>2. RingOK(L, [r.slot EXCEPT ![r.rx_head] = KR!Entry(r.sent)], r.rxq_tail,
               Wrap(r.rx_head + 1, L), Wrap(r.sent + 1, 2 * L), r.taken)
    BY <1>1, <2>1, Put DEF KrxInv, KrxOK
  <2>3. /\ new.slot = [r.slot EXCEPT ![r.rx_head] = KR!Entry(r.sent)]
        /\ new.rx_head = Wrap(r.rx_head + 1, L) /\ new.rxq_tail = r.rxq_tail
        /\ new.sent = Wrap(r.sent + 1, 2 * L) /\ new.taken = r.taken
    BY <1>1 DEF KrxRing
  <2>4. new \in KrxRing
    <3>1. /\ [r.slot EXCEPT ![r.rx_head] = KR!Entry(r.sent)] \in [0 .. L - 1 -> Nat]
          /\ Wrap(r.rx_head + 1, L) \in 0 .. L - 1
          /\ Wrap(r.sent + 1, 2 * L) \in 0 .. KR!KrxMod - 1
      BY SMTT(60), <1>1, <2>2 DEF RingOK
    <3> QED
      BY Zenon, <1>1, <3>1 DEF KrxRing
  <2> HIDE DEF new
  <2>5. KrxOK(new)
    BY <2>2, <2>3, <2>4 DEF KrxOK
  <2>6. krx' \in [KCores -> KrxRing] /\ \A d \in KCores : KrxOK(krx'[d])
    BY <2>1, <2>4, <2>5 DEF KrxInv
  <2>7. ASSUME NEW d \in KCores, Processing(d) PROVE Processing(d)'
    <3>1. CASE d # c
      BY <2>1, <2>7, <3>1 DEF KrxInv, Processing
    <3>2. CASE d = c
      <4>1. krx'[c] = new /\ r.slot[r.rxq_tail] # 0
        BY <2>1, <2>7, <3>2 DEF KrxInv, Processing
      <4>2. new.slot[new.rxq_tail] = r.slot[r.rxq_tail]
        BY SMTT(60), <1>1, <2>1, <2>3, <4>1
      <4> QED
        BY ZenonT(60), <2>1, <2>3, <2>7, <3>2, <4>1, <4>2 DEF Processing
    <3> QED
      BY <3>1, <3>2
  <2> QED
    BY <2>1, <2>6, <2>7 DEF KrxInv
<1>6. CASE KR!rxq_poll
  <2>1. PICK c \in KCores :
          /\ krx' = krx /\ rxq_next' = KR!NextCore(c)
          /\ busy' = IF krx[c].slot[krx[c].rxq_tail] # 0
                     THEN <<c, krx[c].rxq_tail, krx[c].slot[krx[c].rxq_tail]>> ELSE <<>>
    BY <1>6 DEF KR!rxq_poll, KrxInv
  <2>2. rxq_next' \in KCores
    BY <2>1, CoreLemma
  <2>3. busy' # <<>> => Processing(c)'
    BY <2>1 DEF Processing
  <2> QED
    BY <2>1, <2>2, <2>3 DEF KrxInv, Processing
<1>7. CASE KR!rxq_poll_done
  <2>1. PICK c \in KCores : Processing(c)
    BY <1>7 DEF KR!rxq_poll_done, KrxInv
  <2> DEFINE r == krx[c]
             new == [r EXCEPT !.slot = [r.slot EXCEPT ![r.rxq_tail] = 0],
                              !.taken = Wrap(r.taken + 1, 2 * L),
                              !.rxq_tail = Wrap(r.rxq_tail + 1, L)]
  <2>2. busy[1] = c /\ busy[2] = r.rxq_tail /\ r.slot[r.rxq_tail] # 0
    BY <2>1 DEF Processing
  <2>3. rxq_next' = rxq_next /\ busy' = <<>> /\ krx' = [krx EXCEPT ![c] = new]
    BY Zenon, <1>1, <1>2, <1>3, <1>7, <2>2 DEF KR!rxq_poll_done, KrxInv
  <2>4. RingOK(L, [r.slot EXCEPT ![r.rxq_tail] = 0], Wrap(r.rxq_tail + 1, L),
               r.rx_head, r.sent, Wrap(r.taken + 1, 2 * L))
    BY Zenon, <1>1, <2>2, Take DEF KrxInv, KrxOK
  <2>5. /\ new.slot = [r.slot EXCEPT ![r.rxq_tail] = 0]
        /\ new.rx_head = r.rx_head /\ new.rxq_tail = Wrap(r.rxq_tail + 1, L)
        /\ new.sent = r.sent /\ new.taken = Wrap(r.taken + 1, 2 * L)
    BY <1>1 DEF KrxRing
  <2>6. new \in KrxRing
    <3>1. /\ [r.slot EXCEPT ![r.rxq_tail] = 0] \in [0 .. L - 1 -> Nat]
          /\ Wrap(r.rxq_tail + 1, L) \in 0 .. L - 1
          /\ Wrap(r.taken + 1, 2 * L) \in 0 .. KR!KrxMod - 1
      BY SMTT(60), <1>1, <2>4 DEF RingOK
    <3> QED
      BY Zenon, <1>1, <3>1 DEF KrxRing
  <2> HIDE DEF new
  <2>7. KrxOK(new)
    BY <2>4, <2>5, <2>6 DEF KrxOK
  <2> QED
    BY <2>3, <2>6, <2>7 DEF KrxInv
<1>8. ASSUME \/ KR!nicif_tx
             \/ \E c \in KCores : \/ KR!nicif_connection_retransmit(c)
                                  \/ KR!fast_kernel_poll(c) \/ KR!fast_kernel_poll_done(c)
      PROVE  UNCHANGED <<krx, rxq_next, busy>>
  BY Zenon, <1>8 DEF KR!nicif_tx, KR!nicif_connection_retransmit, KR!fast_kernel_poll,
              KR!fast_kernel_poll_done
<1>9. UNCHANGED KR!kringVars => UNCHANGED <<krx, rxq_next, busy>>
  BY DEF KR!kringVars
<1> QED
  BY <1>4, <1>5, <1>6, <1>7, <1>8, <1>9 DEF KR!Next

(***************************************************************************)
(* The packets for the slow path, for any cores and any ring length: none  *)
(* is overwritten, lost after it was queued, or processed twice, and the   *)
(* one being processed stays in its buffer, although fast_kernel_packet    *)
(* and rxq_poll share nothing but the types of the slots.                  *)
(***************************************************************************)
THEOREM KrxOrder ==
  ASSUME SomeCores, NicRxLen \in Nat \ {0}
  PROVE  KR!Spec => []KR!KrxIntact
<1>1. KR!Init => KrxInv
  <2> SUFFICES ASSUME KR!Init PROVE KrxInv
    OBVIOUS
  <2> DEFINE z == [slot |-> [p \in 0 .. NicRxLen - 1 |-> 0], rx_head |-> 0,
                   rxq_tail |-> 0, sent |-> 0, taken |-> 0]
  <2>1. krx = [c \in KCores |-> z] /\ rxq_next = 0 /\ busy = <<>>
    BY DEF KR!Init
  <2>2. z \in KrxRing
    BY DEF KrxRing, KR!KrxMod
  <2>3. RingOK(NicRxLen, z.slot, z.rxq_tail, z.rx_head, z.sent, z.taken)
    <3>1. 0 \in 0 .. NicRxLen /\ Wrap(0 + 0, 2 * NicRxLen) = 0 /\ Wrap(0 + 0, NicRxLen) = 0
      BY DEF Wrap
    <3>2. \A k \in 0 .. NicRxLen - 1 : z.slot[Wrap(0 + k, NicRxLen)] = 0 /\ ~(k < 0)
      BY DEF Wrap
    <3> QED
      BY <2>2, <3>1, <3>2 DEF RingOK, KrxRing, KR!KrxMod
  <2> HIDE DEF z
  <2> QED
    BY <2>1, <2>2, <2>3, CoreLemma DEF KrxInv, KrxOK
<1>2. KrxInv /\ [KR!Next]_KR!kringVars => KrxInv'
  BY KrxStep
<1>3. KrxInv => KR!KrxIntact
  <2> SUFFICES ASSUME KrxInv PROVE KR!KrxIntact
    OBVIOUS
  <2>1. ASSUME NEW c \in KCores, NEW k \in 0 .. NicRxLen - 1
        PROVE  krx[c].slot[(krx[c].rxq_tail + k) % NicRxLen] =
                 IF k < KR!Unread(krx[c].sent, krx[c].taken, KR!KrxMod)
                 THEN KR!Entry((krx[c].taken + k) % KR!KrxMod) ELSE 0
    BY Intact DEF KrxInv, KrxOK, KR!KrxMod
  <2>2. busy # <<>> => krx[busy[1]].slot[busy[2]] = busy[3]
    BY DEF KrxInv, Processing
  <2> QED
    BY <2>1, <2>2 DEF KR!KrxIntact
<1> QED
  BY <1>1, <1>2, <1>3, PTL DEF KR!Spec
-----------------------------------------------------------------------------
\* a ring from the slow path to a core
KtxRing ==
  [slot : [0 .. NicTxLen - 1 -> Nat], txq_tail : 0 .. NicTxLen - 1,
   tx_head : 0 .. NicTxLen - 1, reading : Nat, sent : 0 .. KR!KtxMod - 1,
   taken : 0 .. KR!KtxMod - 1]

\* such a ring holds the entries that were sent and not taken; the one the core
\* is reading is still there
KtxOK(r) == /\ r \in KtxRing
            /\ RingOK(NicTxLen, r.slot, r.tx_head, r.txq_tail, r.sent, r.taken)
            /\ r.reading # 0 => r.slot[r.tx_head] # 0

\* the inductive invariant of these rings
KtxInv == ktx \in [KCores -> KtxRing] /\ \A c \in KCores : KtxOK(ktx[c])

(***************************************************************************)
(* An entry from the slow path, and a core's two steps.                    *)
(***************************************************************************)
LEMMA KtxStep ==
  ASSUME SomeCores, NicTxLen \in Nat \ {0}, NicRxLen = NicTxLen, KtxInv,
         [KR!Next]_KR!kringVars
  PROVE  KtxInv'
<1> DEFINE L == NicTxLen
<1>1. /\ L \in Nat \ {0} /\ 2 * L \in Nat \ {0} /\ KR!KtxMod = 2 * L
      /\ \A c \in KCores :
           /\ ktx[c] \in KtxRing /\ ktx[c].slot \in [0 .. L - 1 -> Nat]
           /\ ktx[c].tx_head \in 0 .. L - 1 /\ ktx[c].txq_tail \in 0 .. L - 1
           /\ ktx[c].sent \in 0 .. 2 * L - 1 /\ ktx[c].taken \in 0 .. 2 * L - 1
  <2>1. 2 * L \in Nat \ {0} /\ KR!KtxMod = 2 * L
    BY DEF KR!KtxMod
  <2>2. \A c \in KCores : ktx[c] \in KtxRing
    BY DEF KtxInv
  <2> QED
    BY SMTT(60), <2>1, <2>2 DEF KtxRing
<1>2. \A x \in 0 .. L - 1 : /\ (x + 1) % L = Wrap(x + 1, L)
                            /\ Wrap(x + 1, L) = IF x + 1 = L THEN 0 ELSE x + 1
  BY <1>1, StepLemma
<1>3. \A x \in 0 .. 2 * L - 1 : (x + 1) % (2 * L) = Wrap(x + 1, 2 * L)
  BY <1>1, StepLemma
<1>4. ASSUME ktx' = ktx PROVE KtxInv'
  BY <1>4 DEF KtxInv, KtxOK
<1>5. ASSUME NEW c \in KCores, NEW new, KtxOK(new), ktx' = [ktx EXCEPT ![c] = new]
      PROVE  KtxInv'
  BY <1>5 DEF KtxInv, KtxOK
<1>6. ASSUME NEW c \in KCores, KR!ktx_try_alloc(c) PROVE KtxInv'
  <2> DEFINE r == ktx[c]
             new == [r EXCEPT !.slot = [r.slot EXCEPT ![r.txq_tail] = KR!Entry(r.sent)],
                              !.txq_tail = Wrap(r.txq_tail + 1, L),
                              !.sent = Wrap(r.sent + 1, 2 * L)]
  <2>1. r.slot[r.txq_tail] = 0 /\ ktx' = [ktx EXCEPT ![c] = new]
    BY ZenonT(60), <1>1, <1>2, <1>3, <1>6 DEF KR!ktx_try_alloc, KtxInv
  <2>2. RingOK(L, [r.slot EXCEPT ![r.txq_tail] = KR!Entry(r.sent)], r.tx_head,
               Wrap(r.txq_tail + 1, L), Wrap(r.sent + 1, 2 * L), r.taken)
    BY SMTT(60), <1>1, <2>1, Put DEF KtxInv, KtxOK
  <2>3. /\ new.slot = [r.slot EXCEPT ![r.txq_tail] = KR!Entry(r.sent)]
        /\ new.txq_tail = Wrap(r.txq_tail + 1, L) /\ new.tx_head = r.tx_head
        /\ new.sent = Wrap(r.sent + 1, 2 * L) /\ new.taken = r.taken
        /\ new.reading = r.reading
    BY <1>1 DEF KtxRing
  <2>4. new \in KtxRing
    <3>1. /\ [r.slot EXCEPT ![r.txq_tail] = KR!Entry(r.sent)] \in [0 .. L - 1 -> Nat]
          /\ Wrap(r.txq_tail + 1, L) \in 0 .. L - 1
          /\ Wrap(r.sent + 1, 2 * L) \in 0 .. KR!KtxMod - 1
      BY <1>1, <2>2 DEF RingOK
    <3> QED
      BY Zenon, <1>1, <3>1 DEF KtxRing
  <2>5. r.reading # 0 => r.slot[r.tx_head] # 0
    BY DEF KtxInv, KtxOK
  <2> HIDE DEF new
  <2>6. new.reading # 0 => new.slot[new.tx_head] # 0
    BY <1>1, <2>1, <2>3, <2>5
  <2>7. KtxOK(new)
    BY <2>2, <2>3, <2>4, <2>6 DEF KtxOK
  <2> QED
    BY Zenon, <1>5, <2>1, <2>7
<1>7. ASSUME NEW c \in KCores, KR!fast_kernel_poll(c) PROVE KtxInv'
  <2> DEFINE r == ktx[c]
             new == [r EXCEPT !.reading = r.slot[r.tx_head]]
  <2>1. r.slot[r.tx_head] # 0 /\ ktx' = [ktx EXCEPT ![c] = new]
    BY <1>7 DEF KR!fast_kernel_poll
  <2>2. r.slot[r.tx_head] \in Nat
    BY <1>1
  <2>3. /\ new \in KtxRing /\ new.slot = r.slot /\ new.tx_head = r.tx_head
        /\ new.txq_tail = r.txq_tail /\ new.sent = r.sent /\ new.taken = r.taken
    BY Zenon, <1>1, <2>2 DEF KtxRing
  <2> HIDE DEF new
  <2>4. KtxOK(new)
    BY <2>1, <2>3 DEF KtxInv, KtxOK
  <2> QED
    BY Zenon, <1>5, <2>1, <2>4
<1>8. ASSUME NEW c \in KCores, KR!fast_kernel_poll_done(c) PROVE KtxInv'
  <2> DEFINE r == ktx[c]
             new == [r EXCEPT !.slot = [r.slot EXCEPT ![r.tx_head] = 0], !.reading = 0,
                              !.tx_head = Wrap(r.tx_head + 1, L),
                              !.taken = Wrap(r.taken + 1, 2 * L)]
  <2>1. r.slot[r.tx_head] # 0
    BY <1>8 DEF KR!fast_kernel_poll_done, KtxInv, KtxOK
  <2>2. ktx' = [ktx EXCEPT ![c] = new]
    BY Zenon, <1>1, <1>2, <1>3, <1>8 DEF KR!fast_kernel_poll_done, KtxInv
  <2>3. RingOK(L, [r.slot EXCEPT ![r.tx_head] = 0], Wrap(r.tx_head + 1, L),
               r.txq_tail, r.sent, Wrap(r.taken + 1, 2 * L))
    BY Zenon, <1>1, <2>1, Take DEF KtxInv, KtxOK
  <2>4. /\ new.slot = [r.slot EXCEPT ![r.tx_head] = 0] /\ new.reading = 0
        /\ new.txq_tail = r.txq_tail /\ new.tx_head = Wrap(r.tx_head + 1, L)
        /\ new.sent = r.sent /\ new.taken = Wrap(r.taken + 1, 2 * L)
    BY <1>1 DEF KtxRing
  <2>5. new \in KtxRing
    <3>1. /\ [r.slot EXCEPT ![r.tx_head] = 0] \in [0 .. L - 1 -> Nat]
          /\ Wrap(r.tx_head + 1, L) \in 0 .. L - 1
          /\ Wrap(r.taken + 1, 2 * L) \in 0 .. KR!KtxMod - 1
      BY SMTT(60), <1>1, <2>3 DEF RingOK
    <3> QED
      BY ZenonT(60), <1>1, <3>1 DEF KtxRing
  <2> HIDE DEF new
  <2>6. KtxOK(new)
    BY <2>3, <2>4, <2>5 DEF KtxOK
  <2> QED
    BY Zenon, <1>5, <2>2, <2>6
<1>9. ASSUME \/ KR!rxq_poll \/ KR!rxq_poll_done \/ UNCHANGED KR!kringVars
             \/ \E c \in KCores : KR!fast_kernel_packet(c)
      PROVE  ktx' = ktx
  BY Zenon, <1>9 DEF KR!rxq_poll, KR!rxq_poll_done, KR!fast_kernel_packet, KR!kringVars
<1>10. ASSUME KR!nicif_tx \/ \E c \in KCores : KR!nicif_connection_retransmit(c)
       PROVE  \E c \in KCores : KR!ktx_try_alloc(c)
  BY <1>10, CoreLemma DEF KR!nicif_tx, KR!nicif_connection_retransmit
<1> QED
  BY <1>4, <1>6, <1>7, <1>8, <1>9, <1>10 DEF KR!Next

(***************************************************************************)
(* The entries for the cores, if both queues have the same length as       *)
(* ktx_try_alloc takes for granted: a core finds every packet and every    *)
(* retransmission, in order and once, in the slot it looks at next.        *)
(***************************************************************************)
THEOREM KtxOrder ==
  ASSUME SomeCores, NicTxLen \in Nat \ {0}, NicRxLen = NicTxLen
  PROVE  KR!Spec => []KR!KtxIntact
<1>1. KR!Init => KtxInv
  <2> SUFFICES ASSUME KR!Init PROVE KtxInv
    OBVIOUS
  <2> DEFINE z == [slot |-> [p \in 0 .. NicTxLen - 1 |-> 0], txq_tail |-> 0,
                   tx_head |-> 0, reading |-> 0, sent |-> 0, taken |-> 0]
  <2>1. ktx = [c \in KCores |-> z]
    BY DEF KR!Init
  <2>2. z \in KtxRing /\ z.reading = 0
    BY DEF KtxRing, KR!KtxMod
  <2>3. RingOK(NicTxLen, z.slot, z.tx_head, z.txq_tail, z.sent, z.taken)
    <3>1. 0 \in 0 .. NicTxLen /\ Wrap(0 + 0, 2 * NicTxLen) = 0 /\ Wrap(0 + 0, NicTxLen) = 0
      BY DEF Wrap
    <3>2. \A k \in 0 .. NicTxLen - 1 : z.slot[Wrap(0 + k, NicTxLen)] = 0 /\ ~(k < 0)
      BY DEF Wrap
    <3> QED
      BY <2>2, <3>1, <3>2 DEF RingOK, KtxRing, KR!KtxMod
  <2> HIDE DEF z
  <2> QED
    BY <2>1, <2>2, <2>3 DEF KtxInv, KtxOK
<1>2. KtxInv /\ [KR!Next]_KR!kringVars => KtxInv'
  BY KtxStep
<1>3. KtxInv => KR!KtxIntact
  <2> SUFFICES ASSUME KtxInv, NEW c \in KCores, NEW k \in 0 .. NicTxLen - 1
               PROVE  ktx[c].slot[(ktx[c].tx_head + k) % NicTxLen] =
                        IF k < KR!Unread(ktx[c].sent, ktx[c].taken, KR!KtxMod)
                        THEN KR!Entry((ktx[c].taken + k) % KR!KtxMod) ELSE 0
    BY DEF KR!KtxIntact
  <2> QED
    BY Intact DEF KtxInv, KtxOK, KR!KtxMod
<1> QED
  BY <1>1, <1>2, <1>3, PTL DEF KR!Spec

-----------------------------------------------------------------------------
(***************************************************************************)
(* Wakeup: why nobody sleeps through an entry, except for one put when it  *)
(* had just gone to sleep.  The two sides compare time stamps that are off *)
(* by at most MaxLate each, so what the sender still takes for an awake    *)
(* receiver has been asleep for less than the sum.                         *)
(***************************************************************************)
CONSTANTS Senders, CycSenders, Receivers, Cycle, MaxLate
VARIABLES snd, pend, ev, rcv
\* the component, over the names above
WU == INSTANCE Wakeup

\* a sender, and the receiver
Sender == [pc : {"idle", "sampled", "put"}, last_ts : 0 .. WU!Old, since : 0 .. MaxLate,
           late : BOOLEAN]
Receiver == [kind : {"core", "slow", "app"}, pc : {"idle", "round", "blocked"},
             todo : SUBSET Senders, had : BOOLEAN, cyc : 0 .. MaxLate, ts : 0 .. WU!Old,
             can_block : BOOLEAN, second_bar : BOOLEAN, slept : 0 .. WU!Margin]

\* the types
WakeTypeOK ==
  /\ snd \in [Senders -> Sender] /\ pend \in SUBSET Senders
  /\ ev \in BOOLEAN /\ rcv \in Receiver

\* how far the last_ts of s may be behind the poll that took its entry from the
\* start of that poll's round: a sender that samples the clock first is at most as
\* late as the round is long
Slack(s) == IF WU!Cyc(s) THEN MaxLate ELSE 2 * MaxLate

\* the age of the time stamp that s passes to notify_core
Tsc(s) == IF WU!Cyc(s) THEN snd[s].since ELSE 0

\* rcv.ts says how long the receiver has had nothing to do
Counting == rcv.kind # "app" \/ rcv.can_block \/ rcv.second_bar

\* The last entry of s is unread, was read in this round, or is about as old as ts.
Seen(s) == s \in pend \/ rcv.had \/ rcv.ts <= snd[s].last_ts + Slack(s)

\* An entry that was read before its notification was read not long ago.
ReadNow(s) ==
  (snd[s].pc = "put" /\ s \notin pend) => (rcv.had \/ rcv.ts <= snd[s].since + MaxLate)

\* The first entry of s was put too early to be told of, or s will tell of it.
WillNotify(s) ==
  \/ s \in pend /\ ~snd[s].late
  \/ /\ s \in pend => (snd[s].pc = "put" /\ rcv.slept = WU!Margin)
     /\ snd[s].last_ts + Slack(s) >= Cycle + 1 + rcv.slept
     /\ (snd[s].pc = "put" /\ s \notin pend)
          => snd[s].since + MaxLate >= Cycle + 1 + rcv.slept

\* the queues of these senders were empty in the last round before sleeping
Passed == IF rcv.pc = "blocked" THEN Senders
          ELSE IF rcv.pc = "round" /\ rcv.second_bar /\ ~rcv.had THEN Senders \ rcv.todo
          ELSE {}

\* the inductive invariant
WakeInv ==
  /\ WakeTypeOK
  /\ rcv.pc # "round" => ~rcv.had
  /\ rcv.pc # "blocked" => rcv.slept = 0
  /\ Counting => \A s \in Senders : Seen(s) /\ ReadNow(s)
  /\ (rcv.second_bar /\ rcv.pc # "blocked") => rcv.ts > Cycle
  /\ ~ev => \A s \in Passed : WillNotify(s)

(***************************************************************************)
(* The constants are the naturals they are bounds of.                      *)
(***************************************************************************)
LEMMA WakeSizes ==
  ASSUME Cycle \in Nat, MaxLate \in Nat
  PROVE  /\ WU!Old \in Nat /\ WU!Old = Cycle + MaxLate + 1
         /\ WU!Margin \in Nat /\ WU!Margin = 2 * MaxLate
         /\ \A s \in Senders : Slack(s) \in Nat /\ Slack(s) >= MaxLate
  BY DEF WU!Old, WU!Margin, Slack, WU!Cyc

(***************************************************************************)
(* The fields of senders and of the receiver have their types.             *)
(***************************************************************************)
LEMMA WakeFields ==
  ASSUME WakeTypeOK
  PROVE  /\ \A s \in Senders : /\ snd[s] \in Sender /\ snd[s].late \in BOOLEAN
                               /\ snd[s].pc \in {"idle", "sampled", "put"}
                               /\ snd[s].last_ts \in 0 .. WU!Old
                               /\ snd[s].since \in 0 .. MaxLate
         /\ rcv.pc \in {"idle", "round", "blocked"} /\ rcv.had \in BOOLEAN
         /\ rcv.cyc \in 0 .. MaxLate /\ rcv.ts \in 0 .. WU!Old
         /\ rcv.slept \in 0 .. WU!Margin /\ rcv.todo \in SUBSET Senders
  BY DEF WakeTypeOK, Sender, Receiver

(***************************************************************************)
(* Assigning fields of a sender values of their types.                     *)
(***************************************************************************)
LEMMA UpdSnd ==
  ASSUME NEW r \in Sender
  PROVE  /\ \A v \in {"idle", "sampled", "put"} :
              /\ [r EXCEPT !.pc = v] \in Sender /\ [r EXCEPT !.pc = v].pc = v
              /\ [r EXCEPT !.pc = v].last_ts = r.last_ts
              /\ [r EXCEPT !.pc = v].since = r.since /\ [r EXCEPT !.pc = v].late = r.late
         /\ \A v \in 0 .. WU!Old :
              /\ [r EXCEPT !.last_ts = v] \in Sender /\ [r EXCEPT !.last_ts = v].last_ts = v
              /\ [r EXCEPT !.last_ts = v].pc = r.pc
              /\ [r EXCEPT !.last_ts = v].since = r.since
              /\ [r EXCEPT !.last_ts = v].late = r.late
         /\ \A v \in 0 .. MaxLate :
              /\ [r EXCEPT !.since = v] \in Sender /\ [r EXCEPT !.since = v].since = v
              /\ [r EXCEPT !.since = v].pc = r.pc
              /\ [r EXCEPT !.since = v].last_ts = r.last_ts
              /\ [r EXCEPT !.since = v].late = r.late
         /\ \A v \in BOOLEAN :
              /\ [r EXCEPT !.late = v] \in Sender /\ [r EXCEPT !.late = v].late = v
              /\ [r EXCEPT !.late = v].pc = r.pc /\ [r EXCEPT !.late = v].since = r.since
              /\ [r EXCEPT !.late = v].last_ts = r.last_ts
  BY DEF Sender

(***************************************************************************)
(* The invariant holds before anything is sent.                            *)
(***************************************************************************)
LEMMA WakeStart ==
  ASSUME Cycle \in Nat, MaxLate \in Nat, Receivers \subseteq {"core", "slow", "app"}, WU!Init
  PROVE  WakeInv
<1>1. /\ WU!Old \in Nat /\ WU!Margin \in Nat
      /\ \A s \in Senders : Slack(s) \in Nat
  BY WakeSizes
<1>2. snd \in [Senders -> Sender]
  BY <1>1 DEF WU!Init, Sender
<1>3. PICK k \in Receivers :
        rcv = [kind |-> k, pc |-> "idle", todo |-> {}, had |-> FALSE, cyc |-> 0, ts |-> WU!Old,
               can_block |-> FALSE, second_bar |-> FALSE, slept |-> 0]
  BY Zenon DEF WU!Init
<1>4. rcv \in Receiver
  <2>1. /\ WU!Old \in 0 .. WU!Old /\ k \in {"core", "slow", "app"}
        /\ 0 \in 0 .. MaxLate /\ 0 \in 0 .. WU!Margin
    BY <1>1
  <2> QED
    BY Zenon, <1>3, <2>1 DEF Receiver
<1>5. WakeTypeOK
  BY Zenon, <1>2, <1>4 DEF WU!Init, WakeTypeOK
<1>6. \A s \in Senders : snd[s].last_ts = WU!Old /\ snd[s].pc = "idle"
  BY DEF WU!Init
<1> QED
  BY <1>1, <1>3, <1>5, <1>6 DEF WakeInv, Seen, ReadNow, WillNotify, Passed, Counting

(***************************************************************************)
(* A sender's steps: what it puts in a queue is covered by the             *)
(* notification that follows, or was put when the receiver had just gone   *)
(* to sleep.                                                               *)
(***************************************************************************)
LEMMA SenderStep ==
  ASSUME Cycle \in Nat, MaxLate \in Nat, WakeInv, NEW s \in Senders,
         WU!SampleFirst(s) \/ WU!PutEntry(s) \/ WU!notify_core(s)
  PROVE  WakeInv'
<1>1. /\ WU!Old \in Nat /\ WU!Old = Cycle + MaxLate + 1
      /\ WU!Margin \in Nat /\ WU!Margin = 2 * MaxLate
      /\ Slack(s) \in Nat /\ Slack(s) >= MaxLate
  BY WakeSizes
<1>2. rcv' = rcv
  BY DEF WU!SampleFirst, WU!PutEntry, WU!notify_core
<1>3. \A r \in Senders \ {s} : snd'[r] = snd[r] /\ (r \in pend' <=> r \in pend)
  BY DEF WU!SampleFirst, WU!PutEntry, WU!notify_core, WakeInv, WakeTypeOK
<1>4. /\ WakeTypeOK /\ snd[s] \in Sender /\ snd[s].late \in BOOLEAN
      /\ snd[s].last_ts \in 0 .. WU!Old /\ snd[s].since \in 0 .. MaxLate
      /\ rcv.ts \in 0 .. WU!Old /\ rcv.slept \in 0 .. WU!Margin
  BY WakeFields DEF WakeInv
<1>6. ASSUME WakeTypeOK', ~ev' => ~ev, Counting => Seen(s)' /\ ReadNow(s)',
             ~ev' /\ s \in Passed => WillNotify(s)'
      PROVE  WakeInv'
  <2>1. \A r \in Senders \ {s} : /\ Seen(r) => Seen(r)'
                                 /\ ReadNow(r) => ReadNow(r)'
                                 /\ WillNotify(r) => WillNotify(r)'
    BY Zenon, <1>2, <1>3 DEF Seen, ReadNow, WillNotify, Slack, WU!Cyc, WU!Margin
  <2>3. (Counting' <=> Counting) /\ Passed' = Passed
    BY Zenon, <1>2 DEF Counting, Passed
  <2>2. Passed \subseteq Senders
    BY Zenon DEF Passed
  <2> QED
    BY Zenon, <1>2, <1>6, <2>1, <2>2, <2>3 DEF WakeInv
<1>7. CASE WU!SampleFirst(s)
  <2>1. /\ snd'[s] = [snd[s] EXCEPT !.pc = "sampled", !.since = 0] /\ snd[s].pc = "idle"
        /\ pend' = pend /\ ev' = ev /\ snd' = [snd EXCEPT ![s] = snd'[s]]
    BY <1>4, <1>7 DEF WU!SampleFirst, WakeTypeOK
  <2>2. /\ snd'[s].last_ts = snd[s].last_ts /\ snd'[s].pc = "sampled"
        /\ snd'[s].late = snd[s].late /\ snd'[s] \in Sender
    <3>1. 0 \in 0 .. MaxLate
      OBVIOUS
    <3> QED
      BY Zenon, <1>4, <2>1, <3>1 DEF Sender
  <2>3. WakeTypeOK'
    BY Zenon, <1>2, <1>4, <2>1, <2>2 DEF WakeTypeOK
  <2>4. Counting => Seen(s)' /\ ReadNow(s)'
    BY Zenon, <1>2, <2>1, <2>2 DEF WakeInv, Seen, ReadNow, Slack, WU!Cyc
  <2>5. ~ev' /\ s \in Passed => WillNotify(s)'
    BY <1>2, <2>1, <2>2 DEF WakeInv, WillNotify, Slack, WU!Cyc
  <2> QED
    BY Zenon, <1>6, <2>1, <2>3, <2>4, <2>5
<1>8. CASE WU!PutEntry(s)
  <2>1. /\ pend' = pend \cup {s} /\ ev' = ev /\ snd' = [snd EXCEPT ![s] = snd'[s]]
        /\ snd'[s] = [snd[s] EXCEPT !.pc = "put",
                                    !.since = IF WU!Cyc(s) THEN @ ELSE 0,
                                    !.late = IF s \in pend THEN @ ELSE rcv.slept = WU!Margin]
        /\ snd[s].pc # "put"
    BY <1>4, <1>8 DEF WU!PutEntry, WakeTypeOK
  <2>2. /\ snd'[s].last_ts = snd[s].last_ts /\ snd'[s].pc = "put" /\ snd'[s] \in Sender
        /\ snd'[s].late = IF s \in pend THEN snd[s].late ELSE rcv.slept = WU!Margin
    <3>1. PICK u \in 0 .. MaxLate, l \in BOOLEAN :
            /\ snd'[s] = [snd[s] EXCEPT !.pc = "put", !.since = u, !.late = l]
            /\ l = IF s \in pend THEN snd[s].late ELSE rcv.slept = WU!Margin
      <4>1. /\ (IF WU!Cyc(s) THEN snd[s].since ELSE 0) \in 0 .. MaxLate
        BY <1>4
      <4>2. (IF s \in pend THEN snd[s].late ELSE rcv.slept = WU!Margin) \in BOOLEAN
        BY Zenon, <1>4
      <4> QED
        BY Zenon, <2>1, <4>1, <4>2
    <3> QED
      BY Zenon, <1>4, <3>1 DEF Sender
  <2>3. WakeTypeOK'
    BY Zenon, <1>2, <1>4, <2>1, <2>2 DEF WakeTypeOK
  <2>4. Counting => Seen(s)' /\ ReadNow(s)'
    BY Zenon, <2>1 DEF Seen, ReadNow
  <2>5. ASSUME ~ev', s \in Passed PROVE WillNotify(s)'
    <3>1. WillNotify(s)
      BY Zenon, <2>1, <2>5 DEF WakeInv
    <3>2. CASE s \in pend
      BY Zenon, <2>1, <2>2, <3>1, <3>2 DEF WillNotify
    <3>3. CASE s \notin pend /\ rcv.slept = WU!Margin
      BY Zenon, <1>2, <2>1, <2>2, <3>1, <3>3 DEF WillNotify, Slack, WU!Cyc, WU!Margin
    <3>4. CASE s \notin pend /\ rcv.slept # WU!Margin
      BY Zenon, <2>1, <2>2, <3>4 DEF WillNotify
    <3> QED
      BY Zenon, <3>2, <3>3, <3>4
  <2> QED
    BY Zenon, <1>6, <2>1, <2>3, <2>4, <2>5
<1>9. CASE WU!notify_core(s)
  <2>1. /\ Tsc(s) \in 0 .. MaxLate /\ snd[s].pc = "put" /\ pend' = pend
        /\ ev' = (ev \/ snd[s].last_ts - Tsc(s) > Cycle)
        /\ snd'[s] = [snd[s] EXCEPT !.pc = "idle", !.last_ts = Tsc(s), !.since = 0]
        /\ snd' = [snd EXCEPT ![s] = snd'[s]]
    <3>1. /\ snd[s].pc = "put" /\ pend' = pend
          /\ ev' = (ev \/ WU!MustNotify(s, Tsc(s)))
          /\ snd' = [snd EXCEPT ![s].pc = "idle", ![s].last_ts = Tsc(s), ![s].since = 0]
      BY Zenon, <1>9 DEF WU!notify_core, Tsc
    <3>2. Tsc(s) \in 0 .. MaxLate
      BY <1>4 DEF Tsc
    <3>3. /\ snd'[s] = [snd[s] EXCEPT !.pc = "idle", !.last_ts = Tsc(s), !.since = 0]
          /\ snd' = [snd EXCEPT ![s] = snd'[s]]
      BY <1>4, <3>1 DEF WakeTypeOK
    <3> QED
      BY Zenon, <3>1, <3>2, <3>3 DEF WU!MustNotify
  <2>2. /\ snd'[s].last_ts = Tsc(s) /\ snd'[s].pc = "idle" /\ snd'[s] \in Sender
        /\ snd'[s].late = snd[s].late
    <3>1. Tsc(s) \in 0 .. WU!Old /\ 0 \in 0 .. MaxLate
      BY <1>1, <2>1
    <3> QED
      BY ZenonT(60), <1>4, <2>1, <3>1 DEF Sender
  <2>3. WakeTypeOK'
    BY Zenon, <1>2, <1>4, <2>1, <2>2 DEF WakeTypeOK
  <2>4. snd[s].since + MaxLate <= Tsc(s) + Slack(s)
    BY <1>4 DEF Tsc, Slack, WU!Cyc
  <2>5. Counting => Seen(s)' /\ ReadNow(s)'
    <3> SUFFICES ASSUME Counting, s \notin pend, ~rcv.had PROVE rcv.ts <= Tsc(s) + Slack(s)
      BY Zenon, <1>2, <2>1, <2>2 DEF Seen, ReadNow, Slack, WU!Cyc
    <3>1. rcv.ts <= snd[s].since + MaxLate
      BY Zenon, <2>1 DEF WakeInv, ReadNow
    <3> QED
      BY <1>1, <1>4, <2>1, <2>4, <3>1
  <2>6. ASSUME ~ev', s \in Passed PROVE WillNotify(s)'
    <3>0. ~ev /\ ~(snd[s].last_ts - Tsc(s) > Cycle)
      BY Zenon, <2>1, <2>6
    <3>1. WillNotify(s) /\ snd[s].last_ts - Tsc(s) <= Cycle
      <4>1. WillNotify(s)
        BY Zenon, <2>6, <3>0 DEF WakeInv
      <4>2. snd[s].last_ts - Tsc(s) <= Cycle
        BY <1>1, <1>4, <2>1, <3>0
      <4> QED
        BY <4>1, <4>2
    <3>2. CASE s \in pend
      <4>1. ASSUME snd[s].last_ts + Slack(s) >= Cycle + 1 + rcv.slept, rcv.slept = WU!Margin
            PROVE  FALSE
        BY <1>1, <1>4, <2>1, <3>1, <4>1 DEF Tsc, Slack, WU!Cyc
      <4> QED
        BY Zenon, <2>1, <2>2, <3>1, <3>2, <4>1 DEF WillNotify
    <3>3. CASE s \notin pend
      <4>1. snd[s].since + MaxLate >= Cycle + 1 + rcv.slept
        BY Zenon, <2>1, <3>1, <3>3 DEF WillNotify
      <4>2. Tsc(s) + Slack(s) >= Cycle + 1 + rcv.slept
        BY <1>1, <1>4, <2>1, <2>4, <4>1
      <4> QED
        BY Zenon, <1>2, <2>1, <2>2, <3>3, <4>2 DEF WillNotify, Slack, WU!Cyc
    <3> QED
      BY <3>2, <3>3
  <2>7. ~ev' => ~ev
    BY <2>1
  <2> QED
    BY Zenon, <1>6, <2>3, <2>5, <2>6, <2>7
<1> QED
  BY <1>7, <1>8, <1>9

(***************************************************************************)
(* The receiver's polls: an empty queue of the last round before sleeping  *)
(* belongs to a sender that will notify.                                   *)
(***************************************************************************)
LEMMA PollStep ==
  ASSUME Cycle \in Nat, MaxLate \in Nat, WakeInv,
         WU!RoundBegin \/ \E s \in Senders : WU!PollQueue(s)
  PROVE  WakeInv'
<1>1. /\ WU!Old \in Nat /\ WU!Margin \in Nat
      /\ \A s \in Senders : Slack(s) \in Nat
  BY WakeSizes
<1>2. WakeTypeOK /\ rcv \in Receiver /\ 0 \in 0 .. MaxLate
  BY DEF WakeInv, WakeTypeOK
<1>3. CASE WU!RoundBegin
  <2>1. /\ snd' = snd /\ ev' = ev /\ pend' = pend /\ rcv.pc = "idle"
        /\ rcv' = [rcv EXCEPT !.pc = "round", !.todo = Senders, !.had = FALSE, !.cyc = 0]
    BY <1>3 DEF WU!RoundBegin
  <2>2. WakeTypeOK'
    BY Zenon, <1>2, <2>1 DEF WakeTypeOK, Receiver
  <2>3. /\ rcv'.pc = "round" /\ rcv'.todo = Senders /\ ~rcv'.had /\ ~rcv.had
        /\ rcv'.ts = rcv.ts /\ rcv'.kind = rcv.kind /\ rcv'.slept = rcv.slept
        /\ rcv'.can_block = rcv.can_block /\ rcv'.second_bar = rcv.second_bar
    BY <1>2, <2>1 DEF WakeInv, Receiver
  <2>4. Passed' = {}
    BY <2>3 DEF Passed
  <2> QED
    BY Zenon, <2>1, <2>2, <2>3, <2>4 DEF WakeInv, Seen, ReadNow, Slack, WU!Cyc, Counting
<1>4. ASSUME NEW s \in Senders, WU!PollQueue(s) PROVE WakeInv'
  <2>1. /\ rcv.pc = "round" /\ s \in rcv.todo /\ pend' = pend \ {s} /\ ev' = ev
        /\ rcv' = [rcv EXCEPT !.todo = rcv.todo \ {s}, !.had = rcv.had \/ s \in pend]
        /\ snd' = [snd EXCEPT ![s].late = FALSE]
    BY Zenon, <1>4 DEF WU!PollQueue
  <2>2. \A r \in Senders : /\ snd'[r] \in Sender /\ snd'[r].pc = snd[r].pc
                           /\ snd'[r].last_ts = snd[r].last_ts /\ snd'[r].since = snd[r].since
                           /\ r # s => snd'[r].late = snd[r].late
    <3>1. \A r \in Senders : snd'[r] = IF r = s THEN [snd[s] EXCEPT !.late = FALSE] ELSE snd[r]
      BY <1>2, <2>1 DEF WakeTypeOK
    <3>2. \A r \in Senders : snd[r] \in Sender
      BY <1>2 DEF WakeTypeOK
    <3>3. LET u == [snd[s] EXCEPT !.late = FALSE]
          IN  u \in Sender /\ u.pc = snd[s].pc /\ u.last_ts = snd[s].last_ts
              /\ u.since = snd[s].since
      BY <3>2, UpdSnd
    <3> QED
      BY Zenon, <3>1, <3>2, <3>3
  <2>3. WakeTypeOK'
    <3>1. rcv' \in Receiver /\ pend' \in SUBSET Senders /\ ev' \in BOOLEAN
      BY Zenon, <1>2, <2>1 DEF WakeTypeOK, Receiver
    <3>2. snd' \in [Senders -> Sender]
      BY Zenon, <1>2, <2>1, <2>2 DEF WakeTypeOK
    <3> QED
      BY Zenon, <3>1, <3>2 DEF WakeTypeOK
  <2>4. /\ rcv'.pc = "round" /\ rcv'.todo = rcv.todo \ {s}
        /\ rcv'.had = (rcv.had \/ s \in pend)
        /\ rcv'.ts = rcv.ts /\ rcv'.kind = rcv.kind /\ rcv'.slept = rcv.slept
        /\ rcv'.can_block = rcv.can_block /\ rcv'.second_bar = rcv.second_bar
    BY <1>2, <2>1 DEF Receiver
  <2>5. Counting' => \A r \in Senders : Seen(r)' /\ ReadNow(r)'
    BY Zenon, <2>1, <2>2, <2>4 DEF WakeInv, Seen, ReadNow, Slack, WU!Cyc, Counting
  <2>6. ASSUME ~rcv'.had, rcv.second_bar PROVE WillNotify(s)'
    <3>1. s \notin pend /\ ~rcv.had
      BY Zenon, <2>4, <2>6
    <3>2. /\ rcv.ts <= snd[s].last_ts + Slack(s) /\ rcv.ts > Cycle /\ rcv.slept = 0
          /\ snd[s].pc = "put" => rcv.ts <= snd[s].since + MaxLate
      BY <2>1, <2>6, <3>1 DEF WakeInv, Counting, Seen, ReadNow
    <3>3. rcv.ts \in Int /\ snd[s].last_ts \in Int /\ snd[s].since \in Int
      BY <1>1, <1>2, WakeFields
    <3>4. /\ snd[s].last_ts + Slack(s) >= Cycle + 1 + rcv.slept
          /\ snd[s].pc = "put" => snd[s].since + MaxLate >= Cycle + 1 + rcv.slept
      BY <1>1, <3>2, <3>3
    <3> QED
      BY Zenon, <2>1, <2>2, <2>4, <3>1, <3>4 DEF WillNotify, Slack, WU!Cyc
  <2>7. ~ev' => \A r \in Passed' : WillNotify(r)'
    <3> SUFFICES ASSUME ~ev', NEW r \in Passed' PROVE WillNotify(r)'
      OBVIOUS
    <3>1. ~rcv'.had /\ rcv.second_bar /\ r \in Senders \ rcv'.todo
      BY <2>4 DEF Passed
    <3>2. CASE r = s
      BY <2>6, <3>1, <3>2
    <3>3. CASE r # s
      <4>1. r \in Passed /\ ~ev
        BY Zenon, <2>1, <2>4, <3>1, <3>3 DEF Passed
      <4>2. WillNotify(r) /\ (r \in pend' <=> r \in pend)
        BY Zenon, <2>1, <3>3, <4>1 DEF WakeInv
      <4> QED
        BY Zenon, <2>2, <2>4, <3>1, <3>3, <4>2 DEF WillNotify, Slack, WU!Cyc, WU!Margin
    <3> QED
      BY <3>2, <3>3
  <2> QED
    BY Zenon, <2>1, <2>3, <2>4, <2>5, <2>7 DEF WakeInv
<1> QED
  BY <1>3, <1>4

(***************************************************************************)
(* The end of a round: notify_canblock and flextcp_context_canwait let the *)
(* receiver sleep only after a round that found all queues empty.          *)
(***************************************************************************)
LEMMA EndStep ==
  ASSUME Cycle \in Nat, MaxLate \in Nat, WakeInv, WU!RoundEnd
  PROVE  WakeInv'
<1>1. /\ WU!Old \in Nat /\ WU!Old > Cycle /\ WU!Old >= MaxLate
      /\ \A s \in Senders : Slack(s) \in Nat /\ Slack(s) >= MaxLate
  BY WakeSizes
<1>2. snd' = snd /\ ev' = ev /\ pend' = pend /\ rcv.pc = "round" /\ rcv.todo = {}
  BY DEF WU!RoundEnd
<1>3. /\ rcv \in Receiver /\ rcv.cyc \in 0 .. MaxLate /\ rcv.ts \in 0 .. WU!Old
      /\ rcv.slept = 0 /\ 0 \in 0 .. MaxLate /\ 0 \in 0 .. WU!Old
      /\ \A s \in Senders : snd[s].last_ts \in 0 .. WU!Old /\ snd[s].since \in 0 .. MaxLate
  BY <1>1, <1>2, WakeFields DEF WakeInv, WakeTypeOK
<1>4. CASE rcv.kind # "app"
  <2>1. /\ rcv' \in Receiver /\ ~rcv'.had /\ rcv'.kind = rcv.kind /\ rcv'.slept = 0
        /\ \/ rcv.had /\ rcv'.ts \in 0 .. MaxLate /\ ~rcv'.second_bar /\ rcv'.pc = "idle"
           \/ /\ ~rcv.had /\ rcv.second_bar
              /\ rcv'.ts \in 0 .. MaxLate /\ ~rcv'.second_bar /\ rcv'.pc = "blocked"
           \/ /\ ~rcv.had /\ rcv'.ts = rcv.ts /\ rcv'.pc = "idle"
              /\ rcv'.second_bar => rcv.ts > Cycle
    <3>1. PICK tsc, r :
            /\ tsc \in 0 .. MaxLate /\ r = WU!notify_canblock(tsc)
            /\ rcv' = [r[2] EXCEPT !.pc = IF r[1] THEN "blocked" ELSE "idle",
                                   !.had = FALSE, !.cyc = 0]
      <4>1. rcv.kind = "core" \/ rcv.kind = "slow"
        BY Zenon, <1>3, <1>4 DEF Receiver
      <4>2. CASE rcv.kind = "core"
        <5>1. rcv' = [WU!notify_canblock(rcv.cyc)[2] EXCEPT
                        !.pc = IF WU!notify_canblock(rcv.cyc)[1] THEN "blocked" ELSE "idle",
                        !.had = FALSE, !.cyc = 0]
          BY Zenon, <4>2 DEF WU!RoundEnd
        <5> QED
          BY Zenon, <1>3, <5>1
      <4>3. CASE rcv.kind = "slow"
        <5>1. rcv' = [WU!notify_canblock(0)[2] EXCEPT
                        !.pc = IF WU!notify_canblock(0)[1] THEN "blocked" ELSE "idle",
                        !.had = FALSE, !.cyc = 0]
          BY Zenon, <4>3 DEF WU!RoundEnd
        <5> QED
          BY Zenon, <1>3, <5>1
      <4> QED
        BY <4>1, <4>2, <4>3
    <3>0. tsc \in 0 .. MaxLate /\ tsc \in 0 .. WU!Old
      BY <1>1, <3>1
    <3>2. CASE rcv.had
      <4>1. rcv' = [rcv EXCEPT !.can_block = FALSE, !.second_bar = FALSE, !.ts = tsc,
                               !.pc = "idle", !.had = FALSE, !.cyc = 0]
        BY <1>3, <3>1, <3>2 DEF WU!notify_canblock, Receiver
      <4> QED
        BY Zenon, <1>3, <3>0, <3>2, <4>1 DEF Receiver
    <3>3. CASE ~rcv.had /\ rcv.second_bar
      <4>1. rcv' = [rcv EXCEPT !.can_block = FALSE, !.second_bar = FALSE, !.ts = tsc,
                               !.pc = "blocked", !.had = FALSE, !.cyc = 0]
        BY <1>3, <3>1, <3>3 DEF WU!notify_canblock, Receiver
      <4> QED
        BY Zenon, <1>3, <3>0, <3>3, <4>1 DEF Receiver
    <3>4. CASE ~rcv.had /\ ~rcv.second_bar
      <4>1. \/ /\ rcv.ts > Cycle
               /\ rcv' = [rcv EXCEPT !.second_bar = TRUE,
                                     !.pc = "idle", !.had = FALSE, !.cyc = 0]
            \/ rcv' = [rcv EXCEPT !.can_block = TRUE,
                                  !.pc = "idle", !.had = FALSE, !.cyc = 0]
        <5>1. r = IF rcv.can_block /\ rcv.ts - tsc > Cycle
                  THEN <<FALSE, [rcv EXCEPT !.second_bar = TRUE]>>
                  ELSE <<FALSE, [rcv EXCEPT !.can_block = TRUE]>>
          BY <3>1, <3>4 DEF WU!notify_canblock
        <5>2. CASE rcv.can_block /\ rcv.ts - tsc > Cycle
          <6>1. r[1] = FALSE /\ r[2] = [rcv EXCEPT !.second_bar = TRUE]
            BY <5>1, <5>2
          <6>2. rcv' = [[rcv EXCEPT !.second_bar = TRUE] EXCEPT
                          !.pc = "idle", !.had = FALSE, !.cyc = 0]
            BY Zenon, <3>1, <6>1
          <6>3. rcv.ts > Cycle
            BY <1>1, <1>3, <3>0, <5>2
          <6> QED
            BY Zenon, <6>2, <6>3
        <5>3. CASE ~(rcv.can_block /\ rcv.ts - tsc > Cycle)
          <6>1. r[1] = FALSE /\ r[2] = [rcv EXCEPT !.can_block = TRUE]
            BY <5>1, <5>3
          <6>2. rcv' = [[rcv EXCEPT !.can_block = TRUE] EXCEPT
                          !.pc = "idle", !.had = FALSE, !.cyc = 0]
            BY Zenon, <3>1, <6>1
          <6> QED
            BY Zenon, <6>2
        <5> QED
          BY <5>2, <5>3
      <4> QED
        BY Zenon, <1>1, <1>3, <3>4, <4>1 DEF Receiver
    <3> QED
      BY <3>2, <3>3, <3>4
  <2>2. WakeTypeOK' /\ Counting /\ (rcv'.second_bar => rcv'.ts > Cycle)
    BY <1>2, <1>4, <2>1 DEF WakeInv, WakeTypeOK, Counting
  <2>3. ASSUME NEW s \in Senders PROVE Seen(s)' /\ ReadNow(s)'
    <3>1. CASE rcv'.ts \in 0 .. MaxLate
      <4>1. rcv'.ts <= snd[s].last_ts + Slack(s) /\ rcv'.ts <= snd[s].since + MaxLate
        BY <1>1, <1>3, <3>1
      <4> QED
        BY Zenon, <1>2, <2>1, <4>1 DEF Seen, ReadNow, Slack, WU!Cyc
    <3>2. CASE rcv'.ts = rcv.ts /\ ~rcv.had
      BY Zenon, <1>2, <2>1, <2>2, <3>2 DEF WakeInv, Seen, ReadNow, Slack, WU!Cyc
    <3> QED
      BY Zenon, <2>1, <3>1, <3>2
  <2>4. ~ev' => \A s \in Passed' : WillNotify(s)'
    <3>1. CASE rcv'.pc = "idle"
      BY <3>1 DEF Passed
    <3>2. CASE rcv'.pc = "blocked"
      <4>1. Passed = Senders /\ Passed' = Senders
        BY <1>2, <2>1, <3>2 DEF Passed
      <4> QED
        BY Zenon, <1>2, <1>3, <2>1, <4>1 DEF WakeInv, WillNotify, Slack, WU!Cyc, WU!Margin
    <3> QED
      BY <2>1, <3>1, <3>2
  <2> QED
    BY <2>1, <2>2, <2>3, <2>4 DEF WakeInv
<1>5. CASE rcv.kind = "app"
  <2>1. /\ rcv' \in Receiver /\ ~rcv'.had /\ rcv'.kind = "app" /\ rcv'.slept = 0
        /\ \/ rcv.had /\ ~rcv'.can_block /\ ~rcv'.second_bar /\ rcv'.pc = "idle"
           \/ /\ ~rcv.had /\ rcv.can_block /\ rcv'.ts = rcv.ts /\ rcv'.pc = "idle"
              /\ rcv'.second_bar => rcv.second_bar \/ rcv.ts > Cycle
           \/ /\ ~rcv.had /\ rcv.second_bar /\ rcv'.ts = rcv.ts /\ rcv'.pc = "blocked"
           \/ /\ ~rcv.had /\ ~rcv'.second_bar /\ rcv'.ts = 0 /\ rcv'.pc = "idle"
    <3>1. PICK r : /\ r = WU!flextcp_context_canwait
                   /\ rcv' = [r[2] EXCEPT !.pc = IF r[1] THEN "blocked" ELSE "idle",
                                          !.had = FALSE, !.cyc = 0]
      BY Zenon, <1>3, <1>5 DEF WU!RoundEnd, Receiver
    <3>2. CASE rcv.had
      <4>1. rcv' = [rcv EXCEPT !.can_block = FALSE, !.second_bar = FALSE,
                               !.pc = "idle", !.had = FALSE, !.cyc = 0]
        BY <1>3, <3>1, <3>2 DEF WU!flextcp_context_canwait, Receiver
      <4> QED
        BY Zenon, <1>1, <1>3, <1>5, <3>2, <4>1 DEF Receiver
    <3>3. CASE ~rcv.had /\ rcv.can_block
      <4>1. \/ /\ rcv.ts > Cycle
               /\ rcv' = [rcv EXCEPT !.can_block = FALSE, !.second_bar = TRUE,
                                     !.pc = "idle", !.had = FALSE, !.cyc = 0]
            \/ rcv' = [rcv EXCEPT !.pc = "idle", !.had = FALSE, !.cyc = 0]
        BY Zenon, <1>3, <3>1, <3>3 DEF WU!flextcp_context_canwait, Receiver
      <4> QED
        BY Zenon, <1>1, <1>3, <1>5, <3>3, <4>1 DEF Receiver
    <3>4. CASE ~rcv.had /\ ~rcv.can_block /\ rcv.second_bar
      <4>1. rcv' = [rcv EXCEPT !.pc = "blocked", !.had = FALSE, !.cyc = 0]
        BY <1>3, <3>1, <3>4 DEF WU!flextcp_context_canwait, Receiver
      <4> QED
        BY Zenon, <1>1, <1>3, <1>5, <3>4, <4>1 DEF Receiver
    <3>5. CASE ~rcv.had /\ ~rcv.can_block /\ ~rcv.second_bar
      <4>1. rcv' = [rcv EXCEPT !.can_block = TRUE, !.ts = 0,
                               !.pc = "idle", !.had = FALSE, !.cyc = 0]
        BY <1>3, <3>1, <3>5 DEF WU!flextcp_context_canwait, Receiver
      <4> QED
        BY Zenon, <1>3, <1>5, <3>5, <4>1 DEF Receiver
    <3> QED
      BY <3>2, <3>3, <3>4, <3>5
  <2>2. WakeTypeOK' /\ (rcv'.second_bar /\ rcv'.pc # "blocked" => rcv'.ts > Cycle)
    BY <1>2, <2>1 DEF WakeInv, WakeTypeOK
  <2>3. ASSUME Counting', NEW s \in Senders PROVE Seen(s)' /\ ReadNow(s)'
    <3>1. CASE rcv'.ts = 0
      <4>1. 0 <= snd[s].last_ts + Slack(s) /\ 0 <= snd[s].since + MaxLate
        BY <1>1, <1>3
      <4> QED
        BY Zenon, <1>2, <1>5, <2>1, <3>1, <4>1 DEF Seen, ReadNow, Slack, WU!Cyc
    <3>2. CASE rcv'.ts = rcv.ts /\ ~rcv.had /\ Counting
      BY Zenon, <1>2, <1>5, <2>1, <3>2 DEF WakeInv, Seen, ReadNow, Slack, WU!Cyc
    <3> QED
      BY Zenon, <2>1, <2>3, <3>1, <3>2 DEF Counting
  <2>4. ~ev' => \A s \in Passed' : WillNotify(s)'
    <3>1. CASE rcv'.pc = "idle"
      BY <3>1 DEF Passed
    <3>2. CASE rcv'.pc = "blocked"
      <4>1. Passed = Senders /\ Passed' = Senders
        BY <1>2, <2>1, <3>2 DEF Passed
      <4> QED
        BY Zenon, <1>2, <1>3, <1>5, <2>1, <4>1 DEF WakeInv, WillNotify, Slack, WU!Cyc, WU!Margin
    <3> QED
      BY <2>1, <3>1, <3>2
  <2> QED
    BY <2>1, <2>2, <2>3, <2>4 DEF WakeInv
<1> QED
  BY <1>4, <1>5

(***************************************************************************)
(* Waking starts over, and time makes the entries of both sides older      *)
(* alike.                                                                  *)
(***************************************************************************)
LEMMA OtherStep ==
  ASSUME Cycle \in Nat, MaxLate \in Nat, WakeInv, WU!Wake \/ WU!WakeTimeout \/ WU!Tick
  PROVE  WakeInv'
<1>1. /\ WU!Old \in Nat /\ WU!Old = Cycle + MaxLate + 1
      /\ WU!Margin \in Nat /\ WU!Margin = 2 * MaxLate
      /\ \A s \in Senders : Slack(s) \in Nat /\ Slack(s) >= MaxLate
  BY WakeSizes
<1>2. CASE WU!Wake \/ WU!WakeTimeout
  <2>1. /\ snd' = snd /\ pend' = pend /\ ev' \in BOOLEAN /\ rcv.pc = "blocked"
        /\ rcv' = [rcv EXCEPT !.pc = "idle", !.can_block = FALSE, !.second_bar = FALSE,
                              !.slept = 0]
    BY Zenon, <1>2 DEF WU!Wake, WU!WakeTimeout, WakeInv, WakeTypeOK
  <2>2. /\ rcv' \in Receiver /\ rcv'.pc = "idle" /\ rcv'.had = rcv.had
        /\ rcv'.ts = rcv.ts /\ rcv'.kind = rcv.kind /\ rcv'.slept = 0
        /\ ~rcv'.can_block /\ ~rcv'.second_bar
    <3>1. 0 \in 0 .. WU!Margin
      BY <1>1
    <3> QED
      BY Zenon, <2>1, <3>1 DEF WakeInv, WakeTypeOK, Receiver
  <2>3. (Counting' => Counting) /\ Passed' = {}
    BY <2>2 DEF Counting, Passed
  <2> QED
    BY Zenon, <2>1, <2>2, <2>3 DEF WakeInv, WakeTypeOK, Seen, ReadNow, Slack, WU!Cyc
<1>3. CASE WU!Tick
  <2>1. /\ WakeTypeOK /\ rcv \in Receiver /\ rcv.cyc \in 0 .. MaxLate /\ rcv.ts \in 0 .. WU!Old
        /\ rcv.slept \in 0 .. WU!Margin /\ pend' = pend /\ ev' = ev
        /\ \A s \in Senders : /\ snd[s] \in Sender /\ snd[s].since \in 0 .. MaxLate
                              /\ snd[s].last_ts \in 0 .. WU!Old
    BY <1>3, WakeFields DEF WU!Tick, WakeInv, WakeTypeOK
  <2>2. ASSUME NEW s \in Senders
        PROVE  /\ snd'[s] \in Sender /\ snd'[s].pc = snd[s].pc /\ snd'[s].late = snd[s].late
               /\ snd'[s].last_ts = WU!Older(snd[s].last_ts)
               /\ snd[s].pc = "put" => snd'[s].since = snd[s].since + 1
    <3>1. PICK u \in 0 .. MaxLate :
            /\ snd'[s] = [snd[s] EXCEPT !.last_ts = WU!Older(snd[s].last_ts), !.since = u]
            /\ snd[s].pc = "put" => u = snd[s].since + 1
      <4>1. snd'[s] = [snd[s] EXCEPT !.last_ts = WU!Older(snd[s].last_ts),
                                     !.since = IF snd[s].pc = "idle" THEN 0
                                               ELSE snd[s].since + 1]
        BY Zenon, <1>3 DEF WU!Tick
      <4>2. snd[s].pc # "idle" => snd[s].since < MaxLate
        BY Zenon, <1>3 DEF WU!Tick
      <4>3. (IF snd[s].pc = "idle" THEN 0 ELSE snd[s].since + 1) \in 0 .. MaxLate
        BY <2>1, <4>2
      <4> QED
        BY <4>1, <4>3
    <3>2. WU!Older(snd[s].last_ts) \in 0 .. WU!Old
      BY <1>1, <2>1 DEF WU!Older
    <3> QED
      BY Zenon, <2>1, <3>1, <3>2 DEF Sender
  <2>3. /\ rcv' \in Receiver /\ rcv'.pc = rcv.pc /\ rcv'.had = rcv.had
        /\ rcv'.ts = WU!Older(rcv.ts) /\ rcv'.kind = rcv.kind
        /\ rcv'.can_block = rcv.can_block /\ rcv'.second_bar = rcv.second_bar
        /\ rcv'.todo = rcv.todo
        /\ rcv'.slept = IF rcv.pc = "blocked" /\ rcv.slept < WU!Margin
                        THEN rcv.slept + 1 ELSE rcv.slept
    <3>1. PICK u \in 0 .. MaxLate, z \in 0 .. WU!Margin :
            /\ rcv' = [rcv EXCEPT !.ts = WU!Older(rcv.ts), !.cyc = u, !.slept = z]
            /\ z = IF rcv.pc = "blocked" /\ rcv.slept < WU!Margin
                   THEN rcv.slept + 1 ELSE rcv.slept
      <4>1. /\ rcv' = [rcv EXCEPT !.ts = WU!Older(rcv.ts),
                                  !.cyc = IF rcv.pc = "round" THEN rcv.cyc + 1 ELSE 0,
                                  !.slept = IF rcv.pc = "blocked" /\ rcv.slept < WU!Margin
                                            THEN rcv.slept + 1 ELSE rcv.slept]
            /\ rcv.pc = "round" => rcv.cyc < MaxLate
        BY Zenon, <1>3 DEF WU!Tick
      <4>2. /\ (IF rcv.pc = "round" THEN rcv.cyc + 1 ELSE 0) \in 0 .. MaxLate
            /\ (IF rcv.pc = "blocked" /\ rcv.slept < WU!Margin
                THEN rcv.slept + 1 ELSE rcv.slept) \in 0 .. WU!Margin
        BY <1>1, <2>1, <4>1
      <4> QED
        BY Zenon, <4>1, <4>2
    <3>2. WU!Older(rcv.ts) \in 0 .. WU!Old
      BY <1>1, <2>1 DEF WU!Older
    <3> QED
      BY ZenonT(60), <2>1, <3>1, <3>2 DEF Receiver
  <2>4. WakeTypeOK'
    <3>1. snd' \in [Senders -> Sender]
      BY Zenon, <1>3, <2>2 DEF WU!Tick
    <3> QED
      BY Zenon, <2>1, <2>3, <3>1 DEF WakeTypeOK
  <2>5. ASSUME Counting, NEW s \in Senders PROVE Seen(s)' /\ ReadNow(s)'
    <3>1. Seen(s) /\ ReadNow(s)
      BY <2>5 DEF WakeInv
    <3>2. /\ rcv.ts <= snd[s].last_ts + Slack(s)
             => WU!Older(rcv.ts) <= WU!Older(snd[s].last_ts) + Slack(s)
          /\ rcv.ts <= snd[s].since + MaxLate => WU!Older(rcv.ts) <= snd[s].since + 1 + MaxLate
      BY <1>1, <2>1 DEF WU!Older
    <3> QED
      BY Zenon, <2>1, <2>2, <2>3, <3>1, <3>2 DEF Seen, ReadNow, Slack, WU!Cyc
  <2>6. ASSUME NEW s \in Senders, WillNotify(s) PROVE WillNotify(s)'
    <3>1. /\ rcv.slept = WU!Margin => rcv'.slept = WU!Margin
          /\ snd[s].last_ts + Slack(s) >= Cycle + 1 + rcv.slept
             => WU!Older(snd[s].last_ts) + Slack(s) >= Cycle + 1 + rcv'.slept
          /\ snd[s].since + MaxLate >= Cycle + 1 + rcv.slept
             => snd[s].since + 1 + MaxLate >= Cycle + 1 + rcv'.slept
      BY <1>1, <2>1, <2>3 DEF WU!Older
    <3> QED
      BY ZenonT(60), <2>1, <2>2, <2>3, <2>6, <3>1 DEF WillNotify, Slack, WU!Cyc, WU!Margin
  <2>7. rcv.ts > Cycle => WU!Older(rcv.ts) > Cycle
    BY <1>1, <2>1 DEF WU!Older
  <2>8. (Counting' <=> Counting) /\ Passed' = Passed /\ Passed \subseteq Senders
    BY Zenon, <2>3 DEF Counting, Passed
  <2>9. rcv'.pc # "blocked" => rcv'.slept = 0
    BY Zenon, <2>3 DEF WakeInv
  <2> QED
    BY Zenon, <2>1, <2>3, <2>4, <2>5, <2>6, <2>7, <2>8, <2>9 DEF WakeInv
<1> QED
  BY <1>2, <1>3

(***************************************************************************)
(* No lost wakeup: for any number of threads, any poll cycle and any bound *)
(* on how late a thread's time stamps are, a thread that sleeps without a  *)
(* timeout has no entry that nobody will tell it of, but for entries put   *)
(* when it had slept less than twice that bound (notify_core,              *)
(* notify_canblock, flextcp_context_canwait).                              *)
(***************************************************************************)
THEOREM NobodySleepsOn ==
  ASSUME Cycle \in Nat, MaxLate \in Nat, Receivers \subseteq {"core", "slow", "app"}
  PROVE  WU!Spec => []WU!NoLostWakeup
<1>1. WU!Init => WakeInv
  BY WakeStart
<1>2. WakeInv /\ [WU!Next]_WU!wakeVars => WakeInv'
  <2> SUFFICES ASSUME WakeInv, [WU!Next]_WU!wakeVars PROVE WakeInv'
    OBVIOUS
  <2>1. CASE UNCHANGED WU!wakeVars
    BY <2>1 DEF WU!wakeVars, WakeInv, WakeTypeOK, Seen, ReadNow, WillNotify, Passed, Counting,
                Slack, WU!Cyc, WU!Margin
  <2>2. CASE WU!Next
    BY <2>2, SenderStep, PollStep, EndStep, OtherStep DEF WU!Next
  <2> QED
    BY <2>1, <2>2
<1>3. WakeInv => WU!NoLostWakeup
  BY Zenon DEF WakeInv, WU!NoLostWakeup, Passed, WillNotify, WakeTypeOK
<1> QED
  BY <1>1, <1>2, <1>3, PTL DEF WU!Spec
=============================================================================
