---------------------------- MODULE Lists_proofs ----------------------------
(***************************************************************************)
(* Proofs about the two linked lists of the slow path, for any length and  *)
(* any use of them: the free list of PacketMem (tas/slow/packetmem.c) and  *)
(* the list of armed timeouts with its queue of Timeout                    *)
(* (lib/utils/timeout.c).  First what holds of sequences, blocks and       *)
(* deadlines, then the steps of the two components.                        *)
(***************************************************************************)
EXTENDS Integers, Sequences, WellFoundedInduction, TLAPS
-----------------------------------------------------------------------------
(***************************************************************************)
(* PacketMem.  The free blocks and the ones that were handed out tile the  *)
(* memory: they are pairwise apart, and every byte is in one of them.      *)
(***************************************************************************)
CONSTANTS MemLen, AllocLens

VARIABLES freelist, held

\* there is memory, and what is asked for is not empty
MemFits == MemLen \in Nat \ {0} /\ AllocLens \subseteq Nat \ {0}

\* ranges of memory
Block == [base : Nat, len : Nat \ {0}]

\* two ranges do not overlap
Apart(a, b) == a.base + a.len <= b.base \/ b.base + b.len <= a.base

\* byte x is in range a
In(x, a) == a.base <= x /\ x < a.base + a.len

\* byte x is in some range of the list or of the set
Somewhere(x, list, hs) ==
  (\E i \in DOMAIN list : In(x, list[i])) \/ (\E h \in hs : In(x, h))

\* the ranges of the list and of the set do not overlap
Disjoint(list, hs) ==
  /\ \A i, j \in DOMAIN list : i # j => Apart(list[i], list[j])
  /\ \A i \in DOMAIN list : \A h \in hs : Apart(list[i], h)
  /\ \A h, k \in hs : h # k => Apart(h, k)

\* the free list and the handles that were given out share the memory
Tiles(list, hs) ==
  /\ list \in Seq(Block) /\ hs \subseteq Block
  /\ Disjoint(list, hs)
  /\ \A x \in Int : (0 <= x /\ x < MemLen) <=> Somewhere(x, list, hs)

\* a set of numbers has a least element
LEMMA LeastOf ==
  ASSUME NEW T, T \subseteq Nat, T # {}
  PROVE  \E x \in T : \A y \in T : x <= y
<1>1. PICK x \in T : \A y \in T : ~ (<<y, x>> \in OpToRel(<, Nat))
  BY Zenon, WFMin, NatLessThanWellFounded
<1>2. \A y \in T : ~ (y < x)
  BY <1>1 DEF OpToRel
<1> QED
  BY <1>2

\* sequence r is a followed by b
Joins(r, a, b, S) ==
  /\ r \in Seq(S) /\ DOMAIN r = 1 .. Len(a) + Len(b)
  /\ \A k \in 1 .. Len(a) : r[k] = a[k]
  /\ \A k \in 1 .. Len(b) : r[Len(a) + k] = b[k]

\* the elements of a concatenation
LEMMA ConcatIs ==
  ASSUME NEW S, NEW a \in Seq(S), NEW b \in Seq(S), NEW r, r = a \o b
  PROVE  Joins(r, a, b, S)
<1>1. r \in Seq(S) /\ Len(r) = Len(a) + Len(b)
  OBVIOUS
<1>2. DOMAIN r = 1 .. Len(r)
  BY <1>1
<1> QED
  BY <1>1, <1>2 DEF Joins

\* the list without the element at i, and with e at p
CutAt(list, i) == SubSeq(list, 1, i - 1) \o SubSeq(list, i + 1, Len(list))
PutAt(list, p, e) == SubSeq(list, 1, p - 1) \o <<e>> \o SubSeq(list, p, Len(list))

\* r is the list, of n elements, without its element i
LacksAt(r, list, n, i, S) ==
  /\ r \in Seq(S) /\ DOMAIN r = 1 .. n - 1
  /\ \A k \in DOMAIN r : r[k] = list[IF k < i THEN k ELSE k + 1]

\* r is the list, of n elements, with e before its element p
HasAt(r, list, n, p, e, S) ==
  /\ r \in Seq(S) /\ DOMAIN r = 1 .. n + 1
  /\ \A k \in DOMAIN r : r[k] = IF k < p THEN list[k]
                                ELSE IF k = p THEN e ELSE list[k - 1]

\* the list without its element i
LEMMA RemoveIs ==
  ASSUME NEW S, NEW list \in Seq(S), NEW i \in DOMAIN list,
         NEW r, r = CutAt(list, i)
  PROVE  LacksAt(r, list, Len(list), i, S)
<1>1. Len(list) \in Nat /\ i \in 1 .. Len(list) /\ DOMAIN list = 1 .. Len(list)
  OBVIOUS
<1>2. PICK a : a = SubSeq(list, 1, i - 1)
  OBVIOUS
<1>3. a \in Seq(S) /\ Len(a) = i - 1 /\ \A k \in 1 .. i - 1 : a[k] = list[k]
  BY <1>1, <1>2
<1>4. PICK b : b = SubSeq(list, i + 1, Len(list))
  OBVIOUS
<1>5. /\ b \in Seq(S) /\ Len(b) = Len(list) - i
      /\ \A k \in 1 .. Len(list) - i : b[k] = list[i + k]
  BY <1>1, <1>4
<1>6. r = a \o b
  BY Zenon, <1>2, <1>4 DEF CutAt
<1>j. Joins(r, a, b, S)
  BY Zenon, <1>3, <1>5, <1>6, ConcatIs
<1>0. /\ r \in Seq(S) /\ DOMAIN r = 1 .. Len(a) + Len(b)
      /\ \A k \in 1 .. Len(a) : r[k] = a[k]
      /\ \A k \in 1 .. Len(b) : r[Len(a) + k] = b[k]
  BY Zenon, <1>j DEF Joins
<1>7. r \in Seq(S) /\ DOMAIN r = 1 .. Len(list) - 1
  <2>1. Len(a) + Len(b) = Len(list) - 1
    BY <1>1, <1>3, <1>5
  <2> QED
    BY Zenon, <1>0, <2>1
<1>8. ASSUME NEW k \in 1 .. Len(list) - 1
      PROVE  r[k] = list[IF k < i THEN k ELSE k + 1]
  <2>1. CASE k < i
    <3>1. r[k] = a[k]
      BY <1>0, <1>1, <1>3, <2>1
    <3>2. a[k] = list[k]
      BY <1>1, <1>3, <2>1
    <3> QED
      BY Zenon, <2>1, <3>1, <3>2
  <2>2. CASE ~ (k < i)
    <3>1. PICK m \in 1 .. Len(list) - i : k = (i - 1) + m /\ i + m = k + 1
      <4>1. k - (i - 1) \in 1 .. Len(list) - i
        BY <1>1, <2>2
      <4>2. k = (i - 1) + (k - (i - 1)) /\ i + (k - (i - 1)) = k + 1
        BY <1>1, <2>2
      <4> QED
        BY Zenon, <4>1, <4>2
    <3>2. r[k] = b[m]
      BY Zenon, <1>0, <1>3, <1>5, <3>1
    <3> QED
      BY Zenon, <1>5, <2>2, <3>1, <3>2
  <2> QED
    BY Zenon, <2>1, <2>2
<1> QED
  BY Zenon, <1>7, <1>8 DEF LacksAt

\* the list with e before its element p
LEMMA InsertIs ==
  ASSUME NEW S, NEW list \in Seq(S), NEW p \in 1 .. Len(list) + 1, NEW e \in S,
         NEW r, r = PutAt(list, p, e)
  PROVE  HasAt(r, list, Len(list), p, e, S)
<1>1. Len(list) \in Nat /\ DOMAIN list = 1 .. Len(list)
  OBVIOUS
<1>2. PICK a : a = SubSeq(list, 1, p - 1)
  OBVIOUS
<1>3. a \in Seq(S) /\ Len(a) = p - 1 /\ \A k \in 1 .. p - 1 : a[k] = list[k]
  BY <1>1, <1>2
<1>4. PICK b : b = SubSeq(list, p, Len(list))
  OBVIOUS
<1>5. /\ b \in Seq(S) /\ Len(b) = (Len(list) - p) + 1
      /\ \A k \in 1 .. (Len(list) - p) + 1 : b[k] = list[(p + k) - 1]
  BY <1>1, <1>4
<1>6. r = (a \o <<e>>) \o b
  BY Zenon, <1>2, <1>4 DEF PutAt
<1>7. PICK c : c = a \o <<e>>
  OBVIOUS
<1>8. /\ c \in Seq(S) /\ Len(c) = p /\ c[p] = e
      /\ \A k \in 1 .. p - 1 : c[k] = list[k]
  BY <1>1, <1>3, <1>7
<1>9. r = c \o b
  BY Zenon, <1>6, <1>7
<1>j. Joins(r, c, b, S)
  BY Zenon, <1>5, <1>8, <1>9, ConcatIs
<1>0. /\ r \in Seq(S) /\ DOMAIN r = 1 .. Len(c) + Len(b)
      /\ \A k \in 1 .. Len(c) : r[k] = c[k]
      /\ \A k \in 1 .. Len(b) : r[Len(c) + k] = b[k]
  BY Zenon, <1>j DEF Joins
<1>10. r \in Seq(S) /\ DOMAIN r = 1 .. Len(list) + 1
  <2>1. Len(c) + Len(b) = Len(list) + 1
    BY <1>1, <1>5, <1>8
  <2> QED
    BY Zenon, <1>0, <2>1
<1>11. ASSUME NEW k \in 1 .. Len(list) + 1
       PROVE  r[k] = IF k < p THEN list[k] ELSE IF k = p THEN e ELSE list[k - 1]
  <2>1. CASE k <= p
    <3>1. r[k] = c[k]
      BY <1>0, <1>1, <1>8, <2>1
    <3>2. c[k] = IF k < p THEN list[k] ELSE e
      BY <1>1, <1>8, <2>1
    <3>3. k < p \/ k = p
      BY <1>1, <2>1
    <3> QED
      BY Zenon, <3>1, <3>2, <3>3
  <2>2. CASE ~ (k <= p)
    <3>1. PICK m \in 1 .. (Len(list) - p) + 1 : k = p + m /\ (p + m) - 1 = k - 1
      <4>1. k - p \in 1 .. (Len(list) - p) + 1
        BY <1>1, <2>2
      <4>2. k = p + (k - p) /\ (p + (k - p)) - 1 = k - 1
        BY <1>1, <2>2
      <4> QED
        BY Zenon, <4>1, <4>2
    <3>2. r[k] = b[m]
      BY Zenon, <1>0, <1>5, <1>8, <3>1
    <3>3. ~ (k < p) /\ k # p
      BY <1>1, <2>2
    <3> QED
      BY Zenon, <1>5, <3>1, <3>2, <3>3
  <2> QED
    BY Zenon, <2>1, <2>2
<1> QED
  BY Zenon, <1>10, <1>11 DEF HasAt

\* the elements of r are those of list, except the one at i
Removed(r, list, i) ==
  /\ \A k \in DOMAIN r : \E m \in DOMAIN list : m # i /\ r[k] = list[m]
  /\ \A m \in DOMAIN list : m # i => \E k \in DOMAIN r : r[k] = list[m]
  /\ \A k, l \in DOMAIN r : k # l =>
       \E m, n \in DOMAIN list :
         m # n /\ m # i /\ n # i /\ r[k] = list[m] /\ r[l] = list[n]

\* the elements of r are those of list, and e
Inserted(r, list, e) ==
  /\ \A k \in DOMAIN r : r[k] = e \/ \E m \in DOMAIN list : r[k] = list[m]
  /\ \E k \in DOMAIN r : r[k] = e
  /\ \A m \in DOMAIN list : \E k \in DOMAIN r : r[k] = list[m]
  /\ \A k, l \in DOMAIN r : k # l =>
       \/ \E m, n \in DOMAIN list : m # n /\ r[k] = list[m] /\ r[l] = list[n]
       \/ \E m \in DOMAIN list : r[k] = e /\ r[l] = list[m]
       \/ \E m \in DOMAIN list : r[k] = list[m] /\ r[l] = e

\* CutAt removes one element
LEMMA RemoveElems ==
  ASSUME NEW S, NEW list \in Seq(S), NEW i \in DOMAIN list,
         NEW r, r = CutAt(list, i)
  PROVE  r \in Seq(S) /\ Removed(r, list, i)
<1>1. PICK n \in Nat : n = Len(list) /\ DOMAIN list = 1 .. n
  OBVIOUS
<1>2. /\ r \in Seq(S) /\ DOMAIN r = 1 .. n - 1
      /\ \A k \in DOMAIN r : r[k] = list[IF k < i THEN k ELSE k + 1]
  <2>1. LacksAt(r, list, n, i, S)
    BY Zenon, <1>1, RemoveIs
  <2> QED
    BY Zenon, <2>1 DEF LacksAt
<1> DEFINE at(k) == IF k < i THEN k ELSE k + 1
<1>3. \A k \in 1 .. n - 1 : at(k) \in 1 .. n /\ at(k) # i
  BY <1>1
<1>4. \A k, l \in 1 .. n - 1 : k # l => at(k) # at(l)
  BY <1>1
<1>5. ASSUME NEW m \in 1 .. n, m # i
      PROVE  \E k \in 1 .. n - 1 : at(k) = m
  <2>1. CASE m < i
    <3>1. m \in 1 .. n - 1 /\ at(m) = m
      BY <1>1, <2>1
    <3> QED
      BY Zenon, <3>1
  <2>2. CASE ~ (m < i)
    <3>1. m - 1 \in 1 .. n - 1 /\ at(m - 1) = m
      BY <1>1, <1>5, <2>2
    <3> QED
      BY Zenon, <3>1
  <2> QED
    BY Zenon, <2>1, <2>2
<1>6. \A k \in DOMAIN r : r[k] = list[at(k)]
  BY Zenon, <1>2
<1> HIDE DEF at
<1>7. \A k \in DOMAIN r : \E m \in DOMAIN list : m # i /\ r[k] = list[m]
  BY Zenon, <1>1, <1>2, <1>3, <1>6
<1>8. \A m \in DOMAIN list : m # i => \E k \in DOMAIN r : r[k] = list[m]
  <2> SUFFICES ASSUME NEW m \in DOMAIN list, m # i
               PROVE  \E k \in DOMAIN r : r[k] = list[m]
    BY Zenon
  <2>1. PICK k \in 1 .. n - 1 : at(k) = m
    BY Zenon, <1>1, <1>5
  <2>2. k \in DOMAIN r /\ r[k] = list[m]
    BY Zenon, <1>2, <1>6, <2>1
  <2> QED
    BY Zenon, <2>2
<1>9. ASSUME NEW k \in DOMAIN r, NEW l \in DOMAIN r, k # l
      PROVE  \E m, n2 \in DOMAIN list :
               m # n2 /\ m # i /\ n2 # i /\ r[k] = list[m] /\ r[l] = list[n2]
  <2>1. /\ at(k) \in DOMAIN list /\ at(l) \in DOMAIN list /\ at(k) # at(l)
        /\ at(k) # i /\ at(l) # i /\ r[k] = list[at(k)] /\ r[l] = list[at(l)]
    BY Zenon, <1>1, <1>2, <1>3, <1>4, <1>6, <1>9
  <2> QED
    BY Zenon, <2>1
<1> QED
  BY Zenon, <1>2, <1>7, <1>8, <1>9 DEF Removed

\* PutAt inserts one element
LEMMA InsertElems ==
  ASSUME NEW S, NEW list \in Seq(S), NEW p \in 1 .. Len(list) + 1, NEW e \in S,
         NEW r, r = PutAt(list, p, e)
  PROVE  r \in Seq(S) /\ Inserted(r, list, e)
<1>1. PICK n \in Nat : n = Len(list) /\ DOMAIN list = 1 .. n
  OBVIOUS
<1>2. /\ r \in Seq(S) /\ DOMAIN r = 1 .. n + 1
      /\ \A k \in DOMAIN r : r[k] = IF k < p THEN list[k]
                                    ELSE IF k = p THEN e ELSE list[k - 1]
  <2>1. HasAt(r, list, n, p, e, S)
    BY Zenon, <1>1, InsertIs
  <2> QED
    BY Zenon, <2>1 DEF HasAt
<1> DEFINE at(k) == IF k < p THEN k ELSE k - 1
<1>3. \A k \in 1 .. n + 1 : k # p => at(k) \in 1 .. n /\ r[k] = list[at(k)]
  BY <1>1, <1>2
<1>4. \A k, l \in 1 .. n + 1 : k # l /\ k # p /\ l # p => at(k) # at(l)
  BY <1>1
<1>5. ASSUME NEW m \in 1 .. n
      PROVE  \E k \in 1 .. n + 1 : k # p /\ at(k) = m
  <2>1. CASE m < p
    <3>1. m \in 1 .. n + 1 /\ at(m) = m /\ m # p
      BY <1>1, <2>1
    <3> QED
      BY Zenon, <3>1
  <2>2. CASE ~ (m < p)
    <3>1. m + 1 \in 1 .. n + 1 /\ at(m + 1) = m /\ m + 1 # p
      BY <1>1, <1>5, <2>2
    <3> QED
      BY Zenon, <3>1
  <2> QED
    BY Zenon, <2>1, <2>2
<1>6. p \in 1 .. n + 1 /\ r[p] = e
  BY <1>1, <1>2
<1> HIDE DEF at
<1>7. \A k \in DOMAIN r : r[k] = e \/ \E m \in DOMAIN list : r[k] = list[m]
  BY Zenon, <1>1, <1>2, <1>3, <1>6
<1>8. \A m \in DOMAIN list : \E k \in DOMAIN r : r[k] = list[m]
  <2> SUFFICES ASSUME NEW m \in DOMAIN list
               PROVE  \E k \in DOMAIN r : r[k] = list[m]
    BY Zenon
  <2>1. PICK k \in 1 .. n + 1 : k # p /\ at(k) = m
    BY Zenon, <1>1, <1>5
  <2>2. k \in DOMAIN r /\ r[k] = list[m]
    BY Zenon, <1>2, <1>3, <2>1
  <2> QED
    BY Zenon, <2>2
<1>9. ASSUME NEW k \in DOMAIN r, NEW l \in DOMAIN r, k # l
      PROVE  \/ \E m, n2 \in DOMAIN list : m # n2 /\ r[k] = list[m] /\ r[l] = list[n2]
             \/ \E m \in DOMAIN list : r[k] = e /\ r[l] = list[m]
             \/ \E m \in DOMAIN list : r[k] = list[m] /\ r[l] = e
  <2>1. CASE k = p
    BY Zenon, <1>1, <1>2, <1>3, <1>6, <1>9, <2>1
  <2>2. CASE l = p
    BY Zenon, <1>1, <1>2, <1>3, <1>6, <1>9, <2>2
  <2>3. CASE k # p /\ l # p
    <3>1. /\ at(k) \in DOMAIN list /\ at(l) \in DOMAIN list /\ at(k) # at(l)
          /\ r[k] = list[at(k)] /\ r[l] = list[at(l)]
      BY Zenon, <1>1, <1>2, <1>3, <1>4, <1>9, <2>3
    <3> QED
      BY Zenon, <3>1
  <2> QED
    BY Zenon, <2>1, <2>2, <2>3
<1> QED
  BY Zenon, <1>2, <1>6, <1>7, <1>8, <1>9 DEF Inserted

\* the order of two ranges does not matter
LEMMA ApartSym == \A a, b : Apart(a, b) => Apart(b, a)
  BY Zenon DEF Apart

\* the ranges of a list other than the one at i do not overlap
ApartBut(u, i) ==
  \A m, n \in DOMAIN u : m # n /\ m # i /\ n # i => Apart(u[m], u[n])

\* ranges of a list stay apart when one is removed
LEMMA RemovedApart ==
  ASSUME NEW u, NEW r, NEW i, Removed(r, u, i), ApartBut(u, i)
  PROVE  \A k, l \in DOMAIN r : k # l => Apart(r[k], r[l])
<1> SUFFICES ASSUME NEW k \in DOMAIN r, NEW l \in DOMAIN r, k # l
             PROVE  Apart(r[k], r[l])
  BY Zenon
<1>1. PICK m \in DOMAIN u, n \in DOMAIN u :
        m # n /\ m # i /\ n # i /\ r[k] = u[m] /\ r[l] = u[n]
  BY Zenon DEF Removed
<1>2. Apart(u[m], u[n])
  BY Zenon, <1>1 DEF ApartBut
<1> QED
  BY Zenon, <1>1, <1>2

\* a handle that fits exactly is taken off the list
LEMMA TakeWhole ==
  ASSUME NEW list, NEW hs, Tiles(list, hs), NEW i \in DOMAIN list,
         NEW r, r = CutAt(list, i)
  PROVE  Tiles(r, hs \cup {list[i]})
<1>1. list \in Seq(Block) /\ hs \subseteq Block /\ Disjoint(list, hs)
  BY Zenon DEF Tiles
<1>2. r \in Seq(Block) /\ Removed(r, list, i)
  BY Zenon, <1>1, RemoveElems
<1>3. list[i] \in Block
  BY <1>1
<1>4. \A k, l \in DOMAIN r : k # l => Apart(r[k], r[l])
  <2>1. ApartBut(list, i)
    BY Zenon, <1>1 DEF Disjoint, ApartBut
  <2> QED
    BY Zenon, <1>2, <2>1, RemovedApart
<1>5. ASSUME NEW k \in DOMAIN r, NEW h \in hs \cup {list[i]}
      PROVE  Apart(r[k], h)
  <2>1. PICK m \in DOMAIN list : m # i /\ r[k] = list[m]
    BY Zenon, <1>2 DEF Removed
  <2>2. Apart(list[m], h)
    BY Zenon, <1>1, <2>1 DEF Disjoint
  <2> QED
    BY Zenon, <2>1, <2>2
<1>6. ASSUME NEW h \in hs \cup {list[i]}, NEW k \in hs \cup {list[i]}, h # k
      PROVE  Apart(h, k)
  <2>1. CASE h \in hs /\ k \in hs
    BY Zenon, <1>1, <1>6, <2>1 DEF Disjoint
  <2>2. CASE h = list[i]
    BY Zenon, <1>1, <1>6, <2>2 DEF Disjoint
  <2>3. CASE k = list[i]
    BY Zenon, <1>1, <1>6, <2>3, ApartSym DEF Disjoint
  <2> QED
    BY Zenon, <2>1, <2>2, <2>3
<1>7. Disjoint(r, hs \cup {list[i]})
  BY Zenon, <1>4, <1>5, <1>6 DEF Disjoint
<1>8. ASSUME NEW x
      PROVE  Somewhere(x, r, hs \cup {list[i]}) <=> Somewhere(x, list, hs)
  <2>1. ASSUME NEW m \in DOMAIN list, In(x, list[m])
        PROVE  Somewhere(x, r, hs \cup {list[i]})
    <3>1. CASE m = i
      BY Zenon, <2>1, <3>1 DEF Somewhere
    <3>2. CASE m # i
      <4>1. PICK k \in DOMAIN r : r[k] = list[m]
        BY Zenon, <1>2, <3>2 DEF Removed
      <4> QED
        BY Zenon, <2>1, <4>1 DEF Somewhere
    <3> QED
      BY Zenon, <3>1, <3>2
  <2>2. ASSUME NEW k \in DOMAIN r, In(x, r[k])
        PROVE  Somewhere(x, list, hs)
    <3>1. PICK m \in DOMAIN list : r[k] = list[m]
      BY Zenon, <1>2 DEF Removed
    <3> QED
      BY Zenon, <2>2, <3>1 DEF Somewhere
  <2> QED
    BY Zenon, <2>1, <2>2 DEF Somewhere
<1>9. hs \cup {list[i]} \subseteq Block
  BY Zenon, <1>1, <1>3
<1> QED
  BY Zenon, <1>2, <1>7, <1>8, <1>9 DEF Tiles

\* a freed handle is put into the list
LEMMA PutBack ==
  ASSUME NEW list, NEW hs, Tiles(list, hs), NEW h \in hs,
         NEW p \in 1 .. Len(list) + 1, NEW r, r = PutAt(list, p, h)
  PROVE  Tiles(r, hs \ {h})
<1>1. list \in Seq(Block) /\ hs \subseteq Block /\ Disjoint(list, hs) /\ h \in Block
  BY Zenon DEF Tiles
<1>2. r \in Seq(Block) /\ Inserted(r, list, h)
  BY Zenon, <1>1, InsertElems
<1>3. ASSUME NEW k \in DOMAIN r, NEW l \in DOMAIN r, k # l
      PROVE  Apart(r[k], r[l])
  <2>1. \/ \E m, n \in DOMAIN list : m # n /\ r[k] = list[m] /\ r[l] = list[n]
        \/ \E m \in DOMAIN list : r[k] = h /\ r[l] = list[m]
        \/ \E m \in DOMAIN list : r[k] = list[m] /\ r[l] = h
    BY Zenon, <1>2, <1>3 DEF Inserted
  <2>2. ASSUME NEW m \in DOMAIN list, NEW n \in DOMAIN list,
               m # n, r[k] = list[m], r[l] = list[n]
        PROVE  Apart(r[k], r[l])
    <3>1. Apart(list[m], list[n])
      BY Zenon, <1>1, <2>2 DEF Disjoint
    <3> QED
      BY Zenon, <2>2, <3>1
  <2>3. ASSUME NEW m \in DOMAIN list
        PROVE  Apart(list[m], h) /\ Apart(h, list[m])
    BY Zenon, <1>1, ApartSym DEF Disjoint
  <2>4. CASE \E m \in DOMAIN list : r[k] = h /\ r[l] = list[m]
    <3>1. PICK m \in DOMAIN list : r[k] = h /\ r[l] = list[m]
      BY Zenon, <2>4
    <3>2. Apart(h, list[m])
      BY Zenon, <2>3
    <3> QED
      BY Zenon, <3>1, <3>2
  <2>5. CASE \E m \in DOMAIN list : r[k] = list[m] /\ r[l] = h
    <3>1. PICK m \in DOMAIN list : r[k] = list[m] /\ r[l] = h
      BY Zenon, <2>5
    <3>2. Apart(list[m], h)
      BY Zenon, <2>3
    <3> QED
      BY Zenon, <3>1, <3>2
  <2> QED
    BY Zenon, <2>1, <2>2, <2>4, <2>5
<1>4. ASSUME NEW k \in DOMAIN r, NEW g \in hs \ {h}
      PROVE  Apart(r[k], g)
  <2>1. CASE r[k] = h
    <3>1. Apart(h, g)
      BY Zenon, <1>1 DEF Disjoint
    <3> QED
      BY Zenon, <2>1, <3>1
  <2>2. CASE r[k] # h
    <3>1. PICK m \in DOMAIN list : r[k] = list[m]
      BY Zenon, <1>2, <2>2 DEF Inserted
    <3>2. Apart(list[m], g)
      BY Zenon, <1>1 DEF Disjoint
    <3> QED
      BY Zenon, <3>1, <3>2
  <2> QED
    BY Zenon, <2>1, <2>2
<1>5. Disjoint(r, hs \ {h})
  BY Zenon, <1>1, <1>3, <1>4 DEF Disjoint
<1>6. ASSUME NEW x
      PROVE  Somewhere(x, r, hs \ {h}) <=> Somewhere(x, list, hs)
  <2>1. ASSUME NEW m \in DOMAIN list, In(x, list[m])
        PROVE  Somewhere(x, r, hs \ {h})
    <3>1. PICK k \in DOMAIN r : r[k] = list[m]
      BY Zenon, <1>2 DEF Inserted
    <3> QED
      BY Zenon, <2>1, <3>1 DEF Somewhere
  <2>2. ASSUME In(x, h) PROVE Somewhere(x, r, hs \ {h})
    <3>1. PICK k \in DOMAIN r : r[k] = h
      BY Zenon, <1>2 DEF Inserted
    <3> QED
      BY Zenon, <2>2, <3>1 DEF Somewhere
  <2>3. ASSUME NEW k \in DOMAIN r, In(x, r[k])
        PROVE  Somewhere(x, list, hs)
    <3>1. r[k] = h \/ \E m \in DOMAIN list : r[k] = list[m]
      BY Zenon, <1>2 DEF Inserted
    <3> QED
      BY Zenon, <2>3, <3>1 DEF Somewhere
  <2> QED
    BY Zenon, <2>1, <2>2, <2>3 DEF Somewhere
<1> QED
  BY Zenon, <1>1, <1>2, <1>5, <1>6 DEF Tiles

\* a handle that is too long loses its front
LEMMA TakeFront ==
  ASSUME NEW list, NEW hs, Tiles(list, hs), NEW i \in DOMAIN list,
         NEW n \in Nat \ {0}, n < list[i].len,
         NEW a, a = [base |-> list[i].base, len |-> n],
         NEW b, b = [base |-> list[i].base + n, len |-> list[i].len - n],
         NEW r, r = [list EXCEPT ![i] = b]
  PROVE  Tiles(r, hs \cup {a})
<1>1. list \in Seq(Block) /\ hs \subseteq Block /\ Disjoint(list, hs)
  BY Zenon DEF Tiles
<1>2. list[i] \in Block
  BY <1>1
<1>3. /\ list[i].base \in Nat /\ list[i].len \in Nat
      /\ a \in Block /\ b \in Block
      /\ a.base = list[i].base /\ a.len = n
      /\ b.base = list[i].base + n /\ b.len = list[i].len - n
  BY <1>2 DEF Block
<1>4. /\ r \in Seq(Block) /\ DOMAIN r = DOMAIN list /\ r[i] = b
      /\ \A k \in DOMAIN list : k # i => r[k] = list[k]
  BY <1>1, <1>3
<1>5. Apart(a, b) /\ Apart(b, a)
  BY <1>3 DEF Apart
<1>6. ASSUME NEW z \in Block, Apart(list[i], z)
      PROVE  /\ Apart(a, z) /\ Apart(b, z) /\ Apart(z, a) /\ Apart(z, b)
  <2>1. z.base \in Nat /\ z.len \in Nat
    BY DEF Block
  <2> QED
    BY <1>3, <1>6, <2>1 DEF Apart
<1>7. ASSUME NEW x \in Int
      PROVE  In(x, list[i]) <=> In(x, a) \/ In(x, b)
  BY <1>3 DEF In
<1>8. \A k \in DOMAIN list : list[k] \in Block
  BY <1>1
<1>9. ASSUME NEW k \in DOMAIN r, NEW l \in DOMAIN r, k # l
      PROVE  Apart(r[k], r[l])
  <2>1. CASE k = i
    <3>1. r[k] = b /\ r[l] = list[l] /\ Apart(list[i], list[l]) /\ list[l] \in Block
      BY Zenon, <1>1, <1>4, <1>8, <1>9, <2>1 DEF Disjoint
    <3> QED
      BY Zenon, <1>6, <3>1
  <2>2. CASE l = i
    <3>1. r[l] = b /\ r[k] = list[k] /\ Apart(list[i], list[k]) /\ list[k] \in Block
      BY Zenon, <1>1, <1>4, <1>8, <1>9, <2>2 DEF Disjoint
    <3> QED
      BY Zenon, <1>6, <3>1
  <2>3. CASE k # i /\ l # i
    <3>1. r[l] = list[l] /\ r[k] = list[k] /\ Apart(list[k], list[l])
      BY Zenon, <1>1, <1>4, <1>9, <2>3 DEF Disjoint
    <3> QED
      BY Zenon, <3>1
  <2> QED
    BY Zenon, <2>1, <2>2, <2>3
<1>10. ASSUME NEW k \in DOMAIN r, NEW h \in hs
       PROVE  Apart(r[k], h)
  <2>1. CASE k = i
    BY Zenon, <1>1, <1>4, <1>6, <2>1 DEF Disjoint
  <2>2. CASE k # i
    <3>1. r[k] = list[k] /\ Apart(list[k], h)
      BY Zenon, <1>1, <1>4, <2>2 DEF Disjoint
    <3> QED
      BY Zenon, <3>1
  <2> QED
    BY Zenon, <2>1, <2>2
<1>11. ASSUME NEW k \in DOMAIN r
       PROVE  Apart(r[k], a)
  <2>1. CASE k = i
    BY Zenon, <1>4, <1>5, <2>1
  <2>2. CASE k # i
    <3>1. r[k] = list[k] /\ Apart(list[i], list[k]) /\ list[k] \in Block
      BY Zenon, <1>1, <1>4, <1>8, <2>2 DEF Disjoint
    <3> QED
      BY Zenon, <1>6, <3>1
  <2> QED
    BY Zenon, <2>1, <2>2
<1>12. ASSUME NEW h \in hs
       PROVE  Apart(a, h) /\ Apart(h, a)
  <2>1. Apart(list[i], h) /\ h \in Block
    BY Zenon, <1>1 DEF Disjoint
  <2> QED
    BY Zenon, <1>6, <2>1
<1>13. ASSUME NEW h \in hs \cup {a}, NEW k \in hs \cup {a}, h # k
       PROVE  Apart(h, k)
  <2>1. CASE h \in hs /\ k \in hs
    BY Zenon, <1>1, <1>13, <2>1 DEF Disjoint
  <2>2. CASE ~ (h \in hs /\ k \in hs)
    BY Zenon, <1>12, <1>13, <2>2
  <2> QED
    BY Zenon, <2>1, <2>2
<1>14. Disjoint(r, hs \cup {a})
  BY Zenon, <1>9, <1>10, <1>11, <1>13 DEF Disjoint
<1>15. ASSUME NEW x \in Int
       PROVE  Somewhere(x, r, hs \cup {a}) <=> Somewhere(x, list, hs)
  <2>1. ASSUME NEW k \in DOMAIN list, In(x, list[k])
        PROVE  Somewhere(x, r, hs \cup {a})
    <3>1. CASE k = i
      BY Zenon, <1>4, <1>7, <2>1, <3>1 DEF Somewhere
    <3>2. CASE k # i
      <4>1. k \in DOMAIN r /\ r[k] = list[k]
        BY Zenon, <1>4, <3>2
      <4> QED
        BY Zenon, <2>1, <4>1 DEF Somewhere
    <3> QED
      BY Zenon, <3>1, <3>2
  <2>2. ASSUME NEW k \in DOMAIN r, In(x, r[k])
        PROVE  Somewhere(x, list, hs)
    <3>1. CASE k = i
      BY Zenon, <1>4, <1>7, <2>2, <3>1 DEF Somewhere
    <3>2. CASE k # i
      <4>1. k \in DOMAIN list /\ r[k] = list[k]
        BY Zenon, <1>4, <3>2
      <4> QED
        BY Zenon, <2>2, <4>1 DEF Somewhere
    <3> QED
      BY Zenon, <3>1, <3>2
  <2>3. In(x, a) => Somewhere(x, list, hs)
    BY Zenon, <1>7 DEF Somewhere
  <2> QED
    BY Zenon, <2>1, <2>2, <2>3 DEF Somewhere
<1>16. hs \cup {a} \subseteq Block
  BY Zenon, <1>1, <1>3
<1> QED
  BY Zenon, <1>4, <1>14, <1>15, <1>16 DEF Tiles

\* handle i absorbs the one after it, where it ends
LEMMA Absorb ==
  ASSUME NEW list, NEW hs, Tiles(list, hs), NEW i \in DOMAIN list,
         i + 1 \in DOMAIN list, list[i].base + list[i].len = list[i + 1].base,
         NEW u, u = [list EXCEPT ![i].len = @ + list[i + 1].len],
         NEW r, r = CutAt(u, i + 1)
  PROVE  Tiles(r, hs)
<1>1. list \in Seq(Block) /\ hs \subseteq Block /\ Disjoint(list, hs)
  BY Zenon DEF Tiles
<1>2. i \in Nat /\ i # i + 1 /\ list[i] \in Block /\ list[i + 1] \in Block
  BY <1>1
<1>3. PICK a \in Block, b \in Block :
        a = list[i] /\ b = list[i + 1] /\ a.base + a.len = b.base
  BY Zenon, <1>2
<1>4. PICK j \in Block : j.base = a.base /\ j.len = a.len + b.len
                         /\ j = [list[i] EXCEPT !.len = @ + list[i + 1].len]
  BY <1>3 DEF Block
<1>5. /\ u \in Seq(Block) /\ DOMAIN u = DOMAIN list /\ u[i] = j
      /\ \A k \in DOMAIN list : k # i => u[k] = list[k]
  BY <1>1, <1>4
<1>6. r \in Seq(Block) /\ Removed(r, u, i + 1)
  BY Zenon, <1>5, RemoveElems
<1>7. /\ a.base \in Nat /\ a.len \in Nat /\ b.base \in Nat /\ b.len \in Nat
  BY <1>3 DEF Block
<1>8. ASSUME NEW z \in Block, Apart(a, z), Apart(b, z)
      PROVE  Apart(j, z) /\ Apart(z, j)
  <2>1. z.base \in Nat /\ z.len \in Nat \ {0}
    BY DEF Block
  <2> QED
    BY <1>3, <1>4, <1>7, <1>8, <2>1 DEF Apart
<1>9. ASSUME NEW x \in Int
      PROVE  In(x, j) <=> In(x, a) \/ In(x, b)
  BY <1>3, <1>4, <1>7 DEF In
<1>10. \A k \in DOMAIN list : list[k] \in Block
  BY <1>1
<1>11. ASSUME NEW k \in DOMAIN list, k # i, k # i + 1
       PROVE  Apart(j, list[k]) /\ Apart(list[k], j)
  <2>1. Apart(a, list[k]) /\ Apart(b, list[k]) /\ list[k] \in Block
    BY Zenon, <1>1, <1>3, <1>10, <1>11 DEF Disjoint
  <2> QED
    BY Zenon, <1>8, <2>1
<1>12. ASSUME NEW m \in DOMAIN u, NEW n \in DOMAIN u, m # n, m # i + 1, n # i + 1
       PROVE  Apart(u[m], u[n])
  <2>1. CASE m = i
    <3>1. u[m] = j /\ u[n] = list[n] /\ n # i
      BY Zenon, <1>5, <1>12, <2>1
    <3> QED
      BY Zenon, <1>5, <1>11, <1>12, <3>1
  <2>2. CASE n = i
    <3>1. u[n] = j /\ u[m] = list[m] /\ m # i
      BY Zenon, <1>5, <1>12, <2>2
    <3> QED
      BY Zenon, <1>5, <1>11, <1>12, <3>1
  <2>3. CASE m # i /\ n # i
    <3>1. u[n] = list[n] /\ u[m] = list[m] /\ Apart(list[m], list[n])
      BY Zenon, <1>1, <1>5, <1>12, <2>3 DEF Disjoint
    <3> QED
      BY Zenon, <3>1
  <2> QED
    BY Zenon, <2>1, <2>2, <2>3
<1>13. \A k, l \in DOMAIN r : k # l => Apart(r[k], r[l])
  <2>1. ApartBut(u, i + 1)
    BY Zenon, <1>12 DEF ApartBut
  <2> QED
    BY Zenon, <1>6, <2>1, RemovedApart
<1>14. ASSUME NEW k \in DOMAIN r, NEW h \in hs
       PROVE  Apart(r[k], h)
  <2>1. PICK m \in DOMAIN u : m # i + 1 /\ r[k] = u[m]
    BY Zenon, <1>6 DEF Removed
  <2>2. CASE m = i
    <3>1. Apart(a, h) /\ Apart(b, h) /\ h \in Block
      BY Zenon, <1>1, <1>3 DEF Disjoint
    <3>2. Apart(j, h)
      BY Zenon, <1>8, <3>1
    <3> QED
      BY Zenon, <1>5, <2>1, <2>2, <3>2
  <2>3. CASE m # i
    <3>1. u[m] = list[m] /\ Apart(list[m], h)
      BY Zenon, <1>1, <1>5, <2>3 DEF Disjoint
    <3> QED
      BY Zenon, <2>1, <3>1
  <2> QED
    BY Zenon, <2>2, <2>3
<1>15. Disjoint(r, hs)
  BY Zenon, <1>1, <1>13, <1>14 DEF Disjoint
<1>16. ASSUME NEW x \in Int
       PROVE  Somewhere(x, r, hs) <=> Somewhere(x, list, hs)
  <2>0. PICK k \in DOMAIN r : r[k] = j
    <3>1. \E k \in DOMAIN r : r[k] = u[i]
      BY Zenon, <1>2, <1>5, <1>6 DEF Removed
    <3> QED
      BY Zenon, <1>5, <3>1
  <2>1. ASSUME NEW m \in DOMAIN list, In(x, list[m])
        PROVE  Somewhere(x, r, hs)
    <3>1. CASE m = i \/ m = i + 1
      <4>1. In(x, j)
        BY Zenon, <1>3, <1>9, <2>1, <3>1
      <4> QED
        BY Zenon, <2>0, <4>1 DEF Somewhere
    <3>2. CASE m # i /\ m # i + 1
      <4>1. m \in DOMAIN u /\ u[m] = list[m]
        BY Zenon, <1>5, <3>2
      <4>2. PICK l \in DOMAIN r : r[l] = u[m]
        BY Zenon, <1>6, <3>2, <4>1 DEF Removed
      <4>3. In(x, r[l])
        BY Zenon, <2>1, <4>1, <4>2
      <4> QED
        BY Zenon, <4>3 DEF Somewhere
    <3> QED
      BY Zenon, <3>1, <3>2
  <2>2. ASSUME NEW l \in DOMAIN r, In(x, r[l])
        PROVE  Somewhere(x, list, hs)
    <3>1. PICK m \in DOMAIN u : m # i + 1 /\ r[l] = u[m]
      BY Zenon, <1>6 DEF Removed
    <3>2. CASE m = i
      <4>1. In(x, j)
        BY Zenon, <1>5, <2>2, <3>1, <3>2
      <4>2. In(x, list[i]) \/ In(x, list[i + 1])
        BY Zenon, <1>3, <1>9, <4>1
      <4> QED
        BY Zenon, <4>2 DEF Somewhere
    <3>3. CASE m # i
      <4>1. m \in DOMAIN list /\ u[m] = list[m]
        BY Zenon, <1>5, <3>3
      <4>2. In(x, list[m])
        BY Zenon, <2>2, <3>1, <4>1
      <4> QED
        BY Zenon, <4>1, <4>2 DEF Somewhere
    <3> QED
      BY Zenon, <3>2, <3>3
  <2> QED
    BY Zenon, <2>1, <2>2 DEF Somewhere
<1> QED
  BY Zenon, <1>1, <1>6, <1>15, <1>16 DEF Tiles

\* the two parts of Tiles that HandlesTile states in sets of bytes
LEMMA ApartBytes ==
  ASSUME NEW a \in Block, NEW b \in Block, Apart(a, b)
  PROVE  (a.base .. (a.base + a.len) - 1) \cap (b.base .. (b.base + b.len) - 1) = {}
<1>1. a.base \in Nat /\ a.len \in Nat /\ b.base \in Nat /\ b.len \in Nat
  BY DEF Block
<1> QED
  BY <1>1 DEF Apart

\* a range has bytes, so it is not apart from itself
LEMMA NotApart == \A a \in Block : ~ Apart(a, a)
  BY DEF Block, Apart

\* a byte of a range
LEMMA InBytes ==
  ASSUME NEW a \in Block, NEW x
  PROVE  x \in a.base .. (a.base + a.len) - 1 <=> x \in Int /\ In(x, a)
<1>1. a.base \in Nat /\ a.len \in Nat
  BY DEF Block
<1> QED
  BY <1>1 DEF In
-----------------------------------------------------------------------------
(***************************************************************************)
(* Timeout.  The deadlines of the armed timeouts differ from the clock by  *)
(* less than half its range, the list is in the order of the deadlines and *)
(* no timeout is linked twice.                                             *)
(***************************************************************************)
CONSTANTS Half, Timers, Delays, MAX_TIMEOUTS, MaxLate

VARIABLES now, timeouts, due, ts, num, left

\* delays and delays of the main loop are below half the range of the clock
ClockFits ==
  /\ Half \in Nat \ {0} /\ Delays \subseteq 0 .. Half - 1 /\ MaxLate \in 0 .. Half - 1

\* no timeout is in s twice, or in both lists
Once(s) == \A i, j \in DOMAIN s : s[i] = s[j] => i = j
Parted(s, r) == \A i \in DOMAIN s : \A j \in DOMAIN r : s[i] # r[j]

\* timeout t is in s
Within(s, t) == \E i \in DOMAIN s : s[i] = t

\* stamp is the deadline in lft microseconds
Dated(cur, stamp, lft) ==
  lft \in 1 - Half .. Half - 1 /\ stamp = (cur + lft) % (2 * Half)

\* the deadlines of s are what ts says
AllDated(cur, s, t, lf) == \A i \in DOMAIN s : Dated(cur, t[s[i]], lf[s[i]])

\* s is in the order of the deadlines; the ones of s are over
Rising(s, lf) == \A i, j \in DOMAIN s : i <= j => lf[s[i]] <= lf[s[j]]
Over(s, lf) == \A i \in DOMAIN s : lf[s[i]] <= 0

\* list is the part of old from index from + 1 up to index to
Slice(list, old, from, to) ==
  /\ list \in Seq(Timers) /\ DOMAIN list = 1 .. to - from
  /\ \A i \in DOMAIN list : list[i] = old[from + i]

\* list and queue hold each timeout once, with its deadline; list is in their
\* order, and those of queue are over
TimersOK(cur, list, queue, t, lf) ==
  /\ cur \in 0 .. 2 * Half - 1 /\ t \in [Timers -> Int] /\ lf \in [Timers -> Int]
  /\ list \in Seq(Timers) /\ queue \in Seq(Timers)
  /\ Once(list) /\ Once(queue) /\ Parted(list, queue)
  /\ AllDated(cur, list, t, lf) /\ AllDated(cur, queue, t, lf)
  /\ Rising(list, lf) /\ Over(queue, lf)

(***************************************************************************)
(* rel_time is the time left although the clock wraps.                     *)
(***************************************************************************)
LEMMA ModRange ==
  \A m \in Nat \ {0} : \A x \in -m .. 2 * m - 1 :
    x % m = IF x < 0 THEN x + m ELSE IF x < m THEN x ELSE x - m
<1>1. \A m \in Nat \ {0} : \A x \in 0 .. m - 1 : x % m = x
  OBVIOUS
<1>2. \A m \in Nat \ {0} : \A x \in m .. 2 * m - 1 : x % m = x - m
  OBVIOUS
<1>3. \A m \in Nat \ {0} : \A x \in -m .. -1 : x % m = x + m
  OBVIOUS
<1> TAKE m \in Nat \ {0}
<1> TAKE x \in -m .. 2 * m - 1
<1>4. CASE x < 0
  BY <1>3, <1>4
<1>5. CASE x \in 0 .. m - 1
  BY <1>1, <1>5
<1>6. CASE x >= m
  BY <1>2, <1>6
<1> QED
  BY <1>4, <1>5, <1>6

\* The three cases of rel_time are one subtraction modulo the clock.
LEMMA RelExact ==
  ASSUME Half \in Nat \ {0}, NEW cur \in 0 .. 2 * Half - 1, NEW stamp, NEW lft,
         Dated(cur, stamp, lft), NEW start, start = (cur - Half) % (2 * Half),
         NEW end, end = ((cur + Half) % (2 * Half)) + 1
  PROVE  lft = IF cur < Half /\ start <= stamp THEN stamp - start - Half
               ELSE IF cur > Half /\ stamp < end THEN stamp + 2 * Half - cur
               ELSE stamp - cur
<1>1. lft \in Int /\ -Half < lft /\ lft < Half /\ stamp = (cur + lft) % (2 * Half)
  BY DEF Dated
<1>2. PICK m \in Nat \ {0} : m = 2 * Half
  OBVIOUS
<1>3. \A x \in -m .. 2 * m - 1 :
        x % m = IF x < 0 THEN x + m ELSE IF x < m THEN x ELSE x - m
  BY ModRange
<1>4. cur - Half \in -m .. 2 * m - 1 /\ cur + Half \in -m .. 2 * m - 1
      /\ cur + lft \in -m .. 2 * m - 1
  BY <1>1, <1>2
<1>5. stamp = IF cur + lft < 0 THEN cur + lft + m
              ELSE IF cur + lft < m THEN cur + lft ELSE cur + lft - m
  <2>1. PICK x \in -m .. 2 * m - 1 : x = cur + lft
    BY <1>4
  <2>2. stamp = x % m
    BY <1>1, <1>2, <2>1
  <2>3. stamp = IF x < 0 THEN x + m ELSE IF x < m THEN x ELSE x - m
    BY <1>3, <2>2
  <2> QED
    BY <1>1, <2>1, <2>3
<1>6. start = IF cur < Half THEN cur - Half + m ELSE cur - Half
  <2>1. start = IF cur - Half < 0 THEN cur - Half + m
                ELSE IF cur - Half < m THEN cur - Half ELSE (cur - Half) - m
    BY <1>2, <1>3, <1>4
  <2> QED
    BY <1>2, <2>1
<1>7. end = (IF cur + Half < m THEN cur + Half ELSE (cur + Half) - m) + 1
  <2>1. (cur + Half) % m = IF cur + Half < 0 THEN (cur + Half) + m
              ELSE IF cur + Half < m THEN cur + Half ELSE (cur + Half) - m
    BY <1>2, <1>3, <1>4
  <2> QED
    BY <1>2, <2>1
<1> QED
  BY <1>1, <1>2, <1>5, <1>6, <1>7

\* what rel_time computes
RelOf(cur, stamp) ==
  LET start == (cur - Half) % (2 * Half)
      end   == ((cur + Half) % (2 * Half)) + 1
  IN IF cur < Half /\ start <= stamp THEN stamp - start - Half
     ELSE IF cur > Half /\ stamp < end THEN stamp + 2 * Half - cur
     ELSE stamp - cur

\* The same of the expression that rel_time computes.
LEMMA RelOfIs ==
  ASSUME Half \in Nat \ {0}, NEW cur \in 0 .. 2 * Half - 1, NEW stamp, NEW lft,
         Dated(cur, stamp, lft)
  PROVE  RelOf(cur, stamp) = lft
<1>1. PICK start, end : /\ start = (cur - Half) % (2 * Half)
                        /\ end = ((cur + Half) % (2 * Half)) + 1
  OBVIOUS
<1>2. lft = IF cur < Half /\ start <= stamp THEN stamp - start - Half
            ELSE IF cur > Half /\ stamp < end THEN stamp + 2 * Half - cur
            ELSE stamp - cur
  BY <1>1, RelExact
<1> QED
  BY Zenon, <1>1, <1>2 DEF RelOf

\* time passes
LEMMA DatedLater ==
  ASSUME Half \in Nat \ {0}, NEW cur \in 0 .. 2 * Half - 1, NEW stamp, NEW lft,
         Dated(cur, stamp, lft), lft - 1 > -Half
  PROVE  Dated((cur + 1) % (2 * Half), stamp, lft - 1)
<1>1. lft \in Int /\ -Half < lft /\ lft < Half /\ stamp = (cur + lft) % (2 * Half)
  BY DEF Dated
<1>2. PICK m \in Nat \ {0} : m = 2 * Half
  OBVIOUS
<1>3. \A x \in -m .. 2 * m - 1 :
        x % m = IF x < 0 THEN x + m ELSE IF x < m THEN x ELSE x - m
  BY ModRange
<1>4. PICK c : c = (cur + 1) % m
  OBVIOUS
<1>5. c = IF cur + 1 < m THEN cur + 1 ELSE cur + 1 - m
  <2>1. PICK x \in -m .. 2 * m - 1 : x = cur + 1
    BY <1>2
  <2>2. c = IF x < 0 THEN x + m ELSE IF x < m THEN x ELSE x - m
    BY <1>3, <1>4, <2>1
  <2> QED
    BY <2>1, <2>2
<1>6. stamp = IF cur + lft < 0 THEN cur + lft + m
              ELSE IF cur + lft < m THEN cur + lft ELSE cur + lft - m
  <2>1. PICK x \in -m .. 2 * m - 1 : x = cur + lft
    BY <1>1, <1>2
  <2>2. stamp = x % m
    BY <1>1, <1>2, <2>1
  <2>3. stamp = IF x < 0 THEN x + m ELSE IF x < m THEN x ELSE x - m
    BY <1>3, <2>2
  <2> QED
    BY <1>1, <2>1, <2>3
<1>7. PICK y \in -m .. 2 * m - 1 : y = c + (lft - 1)
  BY <1>1, <1>2, <1>5
<1>9. y % m = IF y < 0 THEN y + m ELSE IF y < m THEN y ELSE y - m
  BY <1>3
<1>8. stamp = y % m
  BY <1>1, <1>2, <1>5, <1>6, <1>7, <1>9
<1>10. stamp = (c + (lft - 1)) % m
  BY <1>7, <1>8
<1>11. lft - 1 \in 1 - Half .. Half - 1
  BY <1>1
<1> QED
  BY <1>2, <1>4, <1>10, <1>11 DEF Dated

\* SubSeq, element by element
LEMMA SliceIs ==
  ASSUME NEW list \in Seq(Timers), NEW a \in Nat, NEW b \in Nat, a <= b, b <= Len(list),
         NEW r, r = SubSeq(list, a + 1, b)
  PROVE  Slice(r, list, a, b)
<1>1. r \in Seq(Timers) /\ Len(r) = b - a
  OBVIOUS
<1>2. \A i \in 1 .. b - a : r[i] = list[a + i]
  OBVIOUS
<1> QED
  BY <1>1, <1>2 DEF Slice

\* the n first timeouts of list, and no others, have no time left
FrontDue(list, lf, n) ==
  /\ n \in 0 .. Len(list)
  /\ \A i \in 1 .. n : lf[list[i]] <= 0
  /\ n < Len(list) => lf[list[n + 1]] > 0

\* list and queue after they have moved
Rest(list, n) == SubSeq(list, n + 1, Len(list))
Longer(list, queue, n) == queue \o SubSeq(list, 1, n)

\* rest and longer hold what list and queue held, and rest has time left
Sorted(cur, rest, longer, list, queue, t, lf) ==
  /\ TimersOK(cur, rest, longer, t, lf)
  /\ \A i \in DOMAIN rest : lf[rest[i]] > 0
  /\ \A x : Within(rest, x) \/ Within(longer, x) <=> Within(list, x) \/ Within(queue, x)

(***************************************************************************)
(* move_due_timeouts: the n timeouts at the front of the list go to the    *)
(* end of the queue, and the others have time left.                        *)
(***************************************************************************)
LEMMA MoveFront ==
  ASSUME NEW cur, NEW list, NEW queue, NEW t, NEW lf, TimersOK(cur, list, queue, t, lf),
         NEW n, FrontDue(list, lf, n), Half \in Nat \ {0}
  PROVE  Sorted(cur, Rest(list, n), Longer(list, queue, n), list, queue, t, lf)
<1>a. PICK rest, longer : /\ rest = SubSeq(list, n + 1, Len(list))
                          /\ longer = queue \o SubSeq(list, 1, n)
  OBVIOUS
<1>b. /\ n \in 0 .. Len(list)
      /\ \A i \in 1 .. n : lf[list[i]] <= 0
      /\ n < Len(list) => lf[list[n + 1]] > 0
  BY Zenon DEF FrontDue
<1> USE <1>a, <1>b
<1>1. /\ cur \in 0 .. 2 * Half - 1 /\ t \in [Timers -> Int] /\ lf \in [Timers -> Int]
      /\ list \in Seq(Timers) /\ queue \in Seq(Timers)
      /\ Once(list) /\ Once(queue) /\ Parted(list, queue)
      /\ AllDated(cur, list, t, lf) /\ AllDated(cur, queue, t, lf)
      /\ Rising(list, lf) /\ Over(queue, lf)
  BY Zenon DEF TimersOK
<1>2. PICK N \in Nat : N = Len(list) /\ DOMAIN list = 1 .. N /\ n \in 0 .. N
  BY <1>1
<1>3. PICK front : front = SubSeq(list, 1, n)
  OBVIOUS
<1>4. /\ rest \in Seq(Timers) /\ DOMAIN rest = 1 .. N - n
      /\ \A i \in DOMAIN rest : rest[i] = list[n + i]
  <2>1. n \in Nat /\ N \in Nat /\ n <= N /\ N <= Len(list) /\ rest = SubSeq(list, n + 1, N)
    BY <1>2
  <2>2. Slice(rest, list, n, N)
    BY <1>1, <2>1, SliceIs, Zenon
  <2> QED
    BY <2>2, Zenon DEF Slice
<1>5. /\ front \in Seq(Timers) /\ Len(front) = n /\ DOMAIN front = 1 .. n
      /\ \A i \in DOMAIN front : front[i] = list[i]
  <2>1. Slice(front, list, 0, n)
    <3>1. 0 \in Nat /\ n \in Nat /\ 0 <= n /\ n <= Len(list) /\ front = SubSeq(list, 0 + 1, n)
      BY <1>2, <1>3
    <3> QED
      BY <1>1, <3>1, SliceIs, Zenon
  <2>2. n \in Nat /\ n - 0 = n /\ \A i \in 1 .. n : 0 + i = i
    BY <1>2
  <2>3. front \in Seq(Timers) /\ DOMAIN front = 1 .. n
    BY Zenon, <2>1, <2>2 DEF Slice
  <2>4. \A i \in DOMAIN front : front[i] = list[i]
    BY <2>1, <2>2, <2>3 DEF Slice
  <2>5. Len(front) = n
    BY <2>2, <2>3
  <2> QED
    BY Zenon, <2>3, <2>4, <2>5
<1>6. PICK q \in Nat : q = Len(queue) /\ DOMAIN queue = 1 .. q
  BY <1>1
<1>7. /\ longer \in Seq(Timers) /\ DOMAIN longer = 1 .. q + n
      /\ \A i \in 1 .. q : longer[i] = queue[i]
      /\ \A i \in 1 .. n : longer[q + i] = front[i]
  <2>1. Joins(longer, queue, front, Timers)
    BY Zenon, <1>1, <1>3, <1>5, ConcatIs
  <2> QED
    BY <1>5, <1>6, <2>1, Zenon DEF Joins
<1> HIDE <1>a, <1>b
<1>8. \A i \in DOMAIN rest : n + i \in DOMAIN list /\ i \in Int /\ i >= 1
  BY <1>2, <1>4
<1>9. \A i \in DOMAIN longer : \/ i \in DOMAIN queue /\ longer[i] = queue[i]
                               \/ /\ i - q \in DOMAIN list /\ i - q \in 1 .. n
                                  /\ i \notin DOMAIN queue /\ longer[i] = list[i - q]
  <2> TAKE i \in DOMAIN longer
  <2>1. CASE i \in 1 .. q
    BY <1>6, <1>7, <2>1
  <2>2. CASE i \notin 1 .. q
    <3>0. i - q \in 1 .. n /\ i = q + (i - q)
      BY <1>2, <1>6, <1>7, <2>2
    <3>1. PICK k \in 1 .. n : k = i - q /\ i = q + k
      BY <3>0
    <3>2. longer[i] = front[k] /\ front[k] = list[k] /\ k \in DOMAIN list
      <4>1. longer[q + k] = front[k]
        BY <1>7
      <4>2. k \in DOMAIN list
        BY <1>2
      <4> QED
        BY <1>5, <3>1, <4>1, <4>2
    <3> QED
      BY <1>6, <2>2, <3>1, <3>2
  <2> QED
    BY <2>1, <2>2
<1>10. Once(rest)
  <2> SUFFICES ASSUME NEW i \in DOMAIN rest, NEW j \in DOMAIN rest, rest[i] = rest[j]
               PROVE  i = j
    BY DEF Once
  <2>1. n + i = n + j
    BY <1>1, <1>4, <1>8 DEF Once
  <2> QED
    BY <1>2, <1>8, <2>1
<1>11. Once(longer)
  <2> SUFFICES ASSUME NEW i \in DOMAIN longer, NEW j \in DOMAIN longer, longer[i] = longer[j]
               PROVE  i = j
    BY DEF Once
  <2>1. i \in Int /\ j \in Int
    BY <1>7
  <2>2. i - q = j - q => i = j
    BY <1>6, <2>1
  <2>3. CASE i \in DOMAIN queue /\ longer[i] = queue[i]
    <3>1. CASE j \in DOMAIN queue /\ longer[j] = queue[j]
      BY <1>1, <2>3, <3>1 DEF Once
    <3>2. CASE j - q \in DOMAIN list /\ longer[j] = list[j - q]
      BY <1>1, <2>3, <3>2 DEF Parted
    <3> QED
      BY <1>9, <3>1, <3>2
  <2>4. CASE i - q \in DOMAIN list /\ i \notin DOMAIN queue /\ longer[i] = list[i - q]
    <3>1. CASE j \in DOMAIN queue /\ longer[j] = queue[j]
      BY <1>1, <2>4, <3>1 DEF Parted
    <3>2. CASE j - q \in DOMAIN list /\ longer[j] = list[j - q]
      BY <1>1, <2>2, <2>4, <3>2 DEF Once
    <3> QED
      BY <1>9, <3>1, <3>2
  <2> QED
    BY <1>9, <2>3, <2>4
<1>12. Parted(rest, longer)
  <2> SUFFICES ASSUME NEW i \in DOMAIN rest, NEW j \in DOMAIN longer, rest[i] = longer[j]
               PROVE  FALSE
    BY DEF Parted
  <2>1. n + i \in DOMAIN list /\ rest[i] = list[n + i]
    BY <1>4, <1>8
  <2>2. CASE j \in DOMAIN queue /\ longer[j] = queue[j]
    BY <1>1, <2>1, <2>2 DEF Parted
  <2>3. CASE j - q \in DOMAIN list /\ j - q \in 1 .. n /\ longer[j] = list[j - q]
    <3>1. j - q = n + i
      BY <1>1, <2>1, <2>3 DEF Once
    <3> QED
      BY <1>2, <1>8, <2>3, <3>1
  <2> QED
    BY <1>9, <2>2, <2>3
<1>13. AllDated(cur, rest, t, lf) /\ AllDated(cur, longer, t, lf)
  BY <1>1, <1>4, <1>8, <1>9 DEF AllDated
<1>14. Rising(rest, lf)
  <2> SUFFICES ASSUME NEW i \in DOMAIN rest, NEW j \in DOMAIN rest, i <= j
               PROVE  lf[rest[i]] <= lf[rest[j]]
    BY DEF Rising
  <2>1. n + i <= n + j
    BY <1>2, <1>8
  <2> QED
    BY <1>1, <1>4, <1>8, <2>1 DEF Rising
<1>15. Over(longer, lf)
  BY <1>1, <1>9, <1>b DEF Over
<1>16. ASSUME NEW i \in DOMAIN rest
       PROVE  lf[rest[i]] > 0
  <2>1. n + 1 \in DOMAIN list /\ n < N /\ n + 1 <= n + i
    BY <1>2, <1>4, <1>8
  <2>2. lf[list[n + 1]] <= lf[list[n + i]]
    BY <1>1, <1>8, <2>1 DEF Rising
  <2>3. lf[list[n + 1]] \in Int /\ lf[list[n + i]] \in Int
    BY <1>1, <1>8, <2>1
  <2> QED
    <3>1. lf[list[n + 1]] > 0 /\ rest[i] = list[n + i]
      BY <1>2, <1>4, <1>b, <2>1
    <3> QED
      BY <2>2, <2>3, <3>1
<1>17. ASSUME NEW x
       PROVE  Within(rest, x) \/ Within(longer, x) <=> Within(list, x) \/ Within(queue, x)
  <2>1. ASSUME Within(rest, x) \/ Within(longer, x)
        PROVE  Within(list, x) \/ Within(queue, x)
    BY <1>4, <1>8, <1>9, <2>1 DEF Within
  <2>2. ASSUME NEW i \in DOMAIN queue, queue[i] = x
        PROVE  Within(longer, x)
    BY <1>2, <1>6, <1>7, <2>2 DEF Within
  <2>3. ASSUME NEW i \in DOMAIN list, list[i] = x
        PROVE  Within(rest, x) \/ Within(longer, x)
    <3>1. CASE i <= n
      <4>1. i \in 1 .. n /\ q + i \in DOMAIN longer
        BY <1>2, <1>7, <3>1
      <4> QED
        BY <1>5, <1>7, <2>3, <4>1 DEF Within
    <3>2. CASE ~ (i <= n)
      <4>1. PICK k \in DOMAIN rest : n + k = i
        <5>1. i - n \in DOMAIN rest /\ n + (i - n) = i
          BY <1>2, <1>4, <3>2
        <5> QED
          BY <5>1
      <4> QED
        BY <1>4, <2>3, <4>1 DEF Within
    <3> QED
      BY <3>1, <3>2
  <2> QED
    BY <2>1, <2>2, <2>3 DEF Within
<1> QED
  <2>1. TimersOK(cur, rest, longer, t, lf)
    BY <1>1, <1>4, <1>7, <1>10, <1>11, <1>12, <1>13, <1>14, <1>15, Zenon DEF TimersOK
  <2> QED
    BY Zenon, <1>a, <1>16, <1>17, <2>1 DEF Sorted, Rest, Longer

\* function f with v for x
Put(f, x, v) == [f EXCEPT ![x] = v]

\* place p of the list is the one for a deadline in us microseconds
Place(p, list, lf, us) ==
  /\ p \in 1 .. Len(list) + 1
  /\ \A i \in DOMAIN list : i < p => lf[list[i]] <= us
  /\ \A i \in DOMAIN list : i >= p => lf[list[i]] >= us

(***************************************************************************)
(* util_timeout_arm: a timeout that was not armed goes where the deadlines *)
(* before it are not later, and those behind it are.                       *)
(***************************************************************************)
LEMMA ArmOne ==
  ASSUME NEW cur, NEW list, NEW queue, NEW t, NEW lf, TimersOK(cur, list, queue, t, lf),
         ClockFits, NEW x \in Timers, ~ Within(list, x), ~ Within(queue, x),
         NEW us \in Delays, NEW p, Place(p, list, lf, us)
  PROVE  TimersOK(cur, PutAt(list, p, x), queue, Put(t, x, (cur + us) % (2 * Half)),
                  Put(lf, x, us))
<1>a. PICK more, t2, lf2 : /\ more = PutAt(list, p, x)
                           /\ t2 = [t EXCEPT ![x] = (cur + us) % (2 * Half)]
                           /\ lf2 = [lf EXCEPT ![x] = us]
  OBVIOUS
<1>b. /\ p \in 1 .. Len(list) + 1
      /\ \A i \in DOMAIN list : i < p => lf[list[i]] <= us
      /\ \A i \in DOMAIN list : i >= p => lf[list[i]] >= us
  BY Zenon DEF Place
<1>1. /\ cur \in 0 .. 2 * Half - 1 /\ t \in [Timers -> Int] /\ lf \in [Timers -> Int]
      /\ list \in Seq(Timers) /\ queue \in Seq(Timers)
      /\ Once(list) /\ Once(queue) /\ Parted(list, queue)
      /\ AllDated(cur, list, t, lf) /\ AllDated(cur, queue, t, lf)
      /\ Rising(list, lf) /\ Over(queue, lf)
  BY Zenon DEF TimersOK
<1>2. PICK N \in Nat : N = Len(list) /\ DOMAIN list = 1 .. N /\ p \in 1 .. N + 1
  BY <1>1, <1>b
<1>3. /\ more \in Seq(Timers) /\ DOMAIN more = 1 .. N + 1
      /\ \A k \in DOMAIN more : more[k] = IF k < p THEN list[k]
                                          ELSE IF k = p THEN x ELSE list[k - 1]
  <2>1. HasAt(more, list, Len(list), p, x, Timers)
    BY Zenon, <1>1, <1>a, <1>b, InsertIs
  <2> QED
    BY Zenon, <1>2, <2>1 DEF HasAt
<1>4. PICK from \in [DOMAIN more -> Int] :
        /\ \A k \in DOMAIN more : k # p => from[k] \in DOMAIN list /\ more[k] = list[from[k]]
        /\ \A k, m \in DOMAIN more : k < m /\ k # p /\ m # p => from[k] < from[m]
        /\ \A k \in DOMAIN more : k < p => from[k] < p
        /\ \A k \in DOMAIN more : k > p => from[k] >= p
  <2>1. PICK from : from = [k \in DOMAIN more |-> IF k < p THEN k ELSE k - 1]
    OBVIOUS
  <2>2. from \in [DOMAIN more -> Int]
    BY <1>3, <2>1
  <2>3. \A k \in DOMAIN more : k # p => from[k] \in DOMAIN list /\ more[k] = list[from[k]]
    <3> SUFFICES ASSUME NEW k \in DOMAIN more, k # p
                 PROVE  from[k] \in DOMAIN list /\ more[k] = list[from[k]]
      OBVIOUS
    <3>1. CASE k < p
      BY <1>2, <1>3, <2>1, <3>1
    <3>2. CASE ~ (k < p)
      <4>1. k - 1 \in DOMAIN list
        BY <1>2, <1>3, <3>2
      <4> QED
        BY <1>3, <2>1, <3>2, <4>1
    <3> QED
      BY <3>1, <3>2
  <2>4. /\ \A k, m \in DOMAIN more : k < m /\ k # p /\ m # p => from[k] < from[m]
        /\ \A k \in DOMAIN more : k < p => from[k] < p
        /\ \A k \in DOMAIN more : k > p => from[k] >= p
    BY <1>2, <1>3, <2>1
  <2> QED
    BY <2>2, <2>3, <2>4
<1>5. p \in DOMAIN more /\ more[p] = x /\ p \in Int /\ \A k \in DOMAIN more : k \in Int
  BY <1>2, <1>3
<1>6. /\ us \in 0 .. Half - 1 /\ Half \in Nat \ {0}
      /\ lf2[x] = us /\ t2[x] = (cur + us) % (2 * Half)
      /\ t2 \in [Timers -> Int] /\ lf2 \in [Timers -> Int]
  BY <1>1, <1>a DEF ClockFits
<1>7. /\ \A i \in DOMAIN list : /\ list[i] # x /\ list[i] \in Timers
                                /\ lf2[list[i]] = lf[list[i]] /\ t2[list[i]] = t[list[i]]
      /\ \A i \in DOMAIN queue : /\ queue[i] # x /\ queue[i] \in Timers
                                 /\ lf2[queue[i]] = lf[queue[i]] /\ t2[queue[i]] = t[queue[i]]
  BY <1>1, <1>a DEF Within
<1>8. Once(more)
  <2> SUFFICES ASSUME NEW i \in DOMAIN more, NEW j \in DOMAIN more, more[i] = more[j], i # j
               PROVE  FALSE
    BY DEF Once
  <2>1. CASE i # p /\ j # p
    <3>1. from[i] = from[j]
      BY <1>1, <1>4, <2>1 DEF Once
    <3>2. from[i] \in Int /\ from[j] \in Int /\ i \in Int /\ j \in Int /\ (i < j \/ j < i)
      BY <1>4, <1>5
    <3> QED
      BY <1>4, <2>1, <3>1, <3>2
  <2>2. CASE i = p
    <3>1. from[j] \in DOMAIN list /\ more[j] = list[from[j]]
      BY <1>4, <2>2
    <3> QED
      BY <1>5, <1>7, <2>2, <3>1
  <2>3. CASE j = p
    <3>1. from[i] \in DOMAIN list /\ more[i] = list[from[i]]
      BY <1>4, <2>3
    <3> QED
      BY <1>5, <1>7, <2>3, <3>1
  <2> QED
    BY <2>1, <2>2, <2>3
<1>9. Parted(more, queue)
  <2> SUFFICES ASSUME NEW i \in DOMAIN more, NEW j \in DOMAIN queue
               PROVE  more[i] # queue[j]
    BY DEF Parted
  <2>1. CASE i = p
    BY <1>5, <1>7, <2>1
  <2>2. CASE i # p
    BY <1>1, <1>4, <2>2 DEF Parted
  <2> QED
    BY <2>1, <2>2
<1>10. AllDated(cur, more, t2, lf2)
  <2> SUFFICES ASSUME NEW i \in DOMAIN more
               PROVE  Dated(cur, t2[more[i]], lf2[more[i]])
    BY DEF AllDated
  <2>1. CASE i = p
    <3>1. us \in 1 - Half .. Half - 1
      BY <1>6
    <3> QED
      BY <1>5, <1>6, <2>1, <3>1 DEF Dated
  <2>2. CASE i # p
    <3>1. from[i] \in DOMAIN list /\ more[i] = list[from[i]]
      BY <1>4, <2>2
    <3> QED
      BY <1>1, <1>7, <3>1 DEF AllDated
  <2> QED
    BY <2>1, <2>2
<1>11. AllDated(cur, queue, t2, lf2) /\ Over(queue, lf2)
  BY <1>1, <1>7 DEF AllDated, Over
<1>12. Rising(more, lf2)
  <2> SUFFICES ASSUME NEW i \in DOMAIN more, NEW j \in DOMAIN more, i <= j
               PROVE  lf2[more[i]] <= lf2[more[j]]
    BY DEF Rising
  <2>0. i \in Int /\ j \in Int
    BY <1>5
  <2>1. CASE i = j
    <3>1. more[i] \in Timers
      BY <1>3
    <3> QED
      BY <1>6, <2>1, <3>1
  <2>2. CASE i # j /\ i # p /\ j # p
    <3>1. from[i] \in DOMAIN list /\ from[j] \in DOMAIN list /\ from[i] <= from[j]
          /\ more[i] = list[from[i]] /\ more[j] = list[from[j]]
      <4>1. i < j
        BY <2>0, <2>2
      <4>2. from[i] \in Int /\ from[j] \in Int /\ from[i] < from[j]
        BY <1>4, <2>2, <4>1
      <4> QED
        BY <1>4, <2>2, <4>2
    <3> QED
      BY <1>1, <1>7, <3>1 DEF Rising
  <2>3. CASE i # j /\ i = p
    <3>1. from[j] \in DOMAIN list /\ from[j] >= p /\ more[j] = list[from[j]]
      BY <1>4, <1>5, <2>0, <2>3
    <3> QED
      BY <1>5, <1>6, <1>7, <1>b, <2>3, <3>1
  <2>4. CASE i # j /\ j = p
    <3>1. from[i] \in DOMAIN list /\ from[i] < p /\ more[i] = list[from[i]]
      BY <1>4, <1>5, <2>0, <2>4
    <3> QED
      BY <1>5, <1>6, <1>7, <1>b, <2>4, <3>1
  <2> QED
    BY <2>1, <2>2, <2>3, <2>4
<1> QED
  <2>1. TimersOK(cur, more, queue, t2, lf2)
    BY <1>1, <1>3, <1>6, <1>8, <1>9, <1>10, <1>11, <1>12, Zenon DEF TimersOK
  <2>2. t2 = Put(t, x, (cur + us) % (2 * Half)) /\ lf2 = Put(lf, x, us)
    BY <1>a DEF Put
  <2> QED
    BY Zenon, <1>a, <2>1, <2>2

(***************************************************************************)
(* A timeout that is unlinked leaves the others as they are.               *)
(***************************************************************************)
\* r has the elements of list in their order, but x
Without(r, list, x) ==
  /\ r \in Seq(Timers)
  /\ \E from \in [DOMAIN r -> Int] :
       /\ \A k \in DOMAIN r : from[k] \in DOMAIN list /\ r[k] = list[from[k]] /\ r[k] # x
       /\ \A k, m \in DOMAIN r : k <= m => from[k] <= from[m]
       /\ \A k, m \in DOMAIN r : from[k] = from[m] => k = m

\* What SubSeq leaves without element i lacks just that element.
LEMMA CutOne ==
  ASSUME NEW list \in Seq(Timers), Once(list), NEW i \in DOMAIN list,
         NEW r, r = CutAt(list, i)
  PROVE  Without(r, list, list[i])
<1>1. PICK N \in Nat : N = Len(list) /\ DOMAIN list = 1 .. N /\ i \in 1 .. N
  OBVIOUS
<1>2. /\ r \in Seq(Timers) /\ DOMAIN r = 1 .. N - 1
      /\ \A k \in DOMAIN r : r[k] = list[IF k < i THEN k ELSE k + 1]
  <2>1. LacksAt(r, list, Len(list), i, Timers)
    BY Zenon, RemoveIs
  <2> QED
    BY Zenon, <1>1, <2>1 DEF LacksAt
<1>3. PICK from : from = [k \in DOMAIN r |-> IF k < i THEN k ELSE k + 1]
  OBVIOUS
<1>4. from \in [DOMAIN r -> Int] /\ \A k \in DOMAIN r : from[k] \in DOMAIN list /\ from[k] # i
  BY <1>1, <1>2, <1>3
<1>5. /\ \A k, m \in DOMAIN r : k <= m => from[k] <= from[m]
      /\ \A k, m \in DOMAIN r : from[k] = from[m] => k = m
  BY <1>1, <1>2, <1>3
<1>6. ASSUME NEW k \in DOMAIN r
      PROVE  r[k] = list[from[k]] /\ r[k] # list[i]
  <2>1. r[k] = list[from[k]]
    BY <1>2, <1>3
  <2> QED
    BY <1>4, <2>1 DEF Once
<1> QED
  BY <1>2, <1>4, <1>5, <1>6 DEF Without

\* A list lacks what does not stand in it.
LEMMA SkipOne ==
  ASSUME NEW list \in Seq(Timers), NEW x, ~ Within(list, x)
  PROVE  Without(list, list, x)
<1>1. PICK N \in Nat : N = Len(list) /\ DOMAIN list = 1 .. N
  OBVIOUS
<1>2. PICK from : from = [k \in DOMAIN list |-> k]
  OBVIOUS
<1>3. from \in [DOMAIN list -> Int]
  BY <1>1, <1>2
<1>4. /\ \A k \in DOMAIN list : from[k] \in DOMAIN list /\ list[k] = list[from[k]] /\ list[k] # x
      /\ \A k, m \in DOMAIN list : k <= m => from[k] <= from[m]
      /\ \A k, m \in DOMAIN list : from[k] = from[m] => k = m
  BY <1>2 DEF Within
<1> QED
  BY <1>3, <1>4 DEF Without

\* The lists stay in order when a timeout is taken out of them.
LEMMA UnlinkOne ==
  ASSUME NEW cur, NEW list, NEW queue, NEW t, NEW lf, TimersOK(cur, list, queue, t, lf),
         NEW x \in Timers, NEW list2, Without(list2, list, x),
         NEW queue2, Without(queue2, queue, x)
  PROVE  TimersOK(cur, list2, queue2, Put(t, x, 0), Put(lf, x, 0))
<1>a. PICK t2, lf2 : t2 = [t EXCEPT ![x] = 0] /\ lf2 = [lf EXCEPT ![x] = 0]
  OBVIOUS
<1>1. /\ cur \in 0 .. 2 * Half - 1 /\ t \in [Timers -> Int] /\ lf \in [Timers -> Int]
      /\ list \in Seq(Timers) /\ queue \in Seq(Timers)
      /\ Once(list) /\ Once(queue) /\ Parted(list, queue)
      /\ AllDated(cur, list, t, lf) /\ AllDated(cur, queue, t, lf)
      /\ Rising(list, lf) /\ Over(queue, lf)
  BY Zenon DEF TimersOK
<1>2. t2 \in [Timers -> Int] /\ lf2 \in [Timers -> Int]
  BY <1>1, <1>a
<1>3. \A y \in Timers : y # x => t2[y] = t[y] /\ lf2[y] = lf[y]
  BY <1>1, <1>a
<1>4. list2 \in Seq(Timers) /\ queue2 \in Seq(Timers)
  BY Zenon DEF Without
<1>5. /\ \A k \in DOMAIN list2 : list2[k] \in Timers
      /\ \A k \in DOMAIN queue2 : queue2[k] \in Timers
  BY <1>4
<1>6. PICK from \in [DOMAIN list2 -> Int] :
       /\ \A k \in DOMAIN list2 : /\ from[k] \in DOMAIN list /\ list2[k] = list[from[k]]
                                  /\ list2[k] # x
       /\ \A k, m \in DOMAIN list2 : k <= m => from[k] <= from[m]
       /\ \A k, m \in DOMAIN list2 : from[k] = from[m] => k = m
  BY Zenon DEF Without
<1>7. PICK back \in [DOMAIN queue2 -> Int] :
       /\ \A k \in DOMAIN queue2 : /\ back[k] \in DOMAIN queue /\ queue2[k] = queue[back[k]]
                                   /\ queue2[k] # x
       /\ \A k, m \in DOMAIN queue2 : back[k] = back[m] => k = m
  BY Zenon DEF Without
<1>8. Once(list2) /\ Once(queue2) /\ Parted(list2, queue2)
  <2>1. Once(list2)
    BY <1>1, <1>6 DEF Once
  <2>2. Once(queue2)
    BY <1>1, <1>7 DEF Once
  <2>3. Parted(list2, queue2)
    BY <1>1, <1>6, <1>7 DEF Parted
  <2> QED
    BY <2>1, <2>2, <2>3
<1>9. AllDated(cur, list2, t2, lf2) /\ AllDated(cur, queue2, t2, lf2)
  <2>1. ASSUME NEW i \in DOMAIN list2
        PROVE  Dated(cur, t2[list2[i]], lf2[list2[i]])
    <3>1. t2[list2[i]] = t[list[from[i]]] /\ lf2[list2[i]] = lf[list[from[i]]]
      BY <1>3, <1>5, <1>6
    <3>2. Dated(cur, t[list[from[i]]], lf[list[from[i]]])
      BY Zenon, <1>1, <1>6 DEF AllDated
    <3> QED
      BY Zenon, <3>1, <3>2
  <2>2. ASSUME NEW i \in DOMAIN queue2
        PROVE  Dated(cur, t2[queue2[i]], lf2[queue2[i]])
    <3>1. t2[queue2[i]] = t[queue[back[i]]] /\ lf2[queue2[i]] = lf[queue[back[i]]]
      BY <1>3, <1>5, <1>7
    <3>2. Dated(cur, t[queue[back[i]]], lf[queue[back[i]]])
      BY Zenon, <1>1, <1>7 DEF AllDated
    <3> QED
      BY Zenon, <3>1, <3>2
  <2> QED
    BY Zenon, <2>1, <2>2 DEF AllDated
<1>10. Rising(list2, lf2) /\ Over(queue2, lf2)
  <2>1. ASSUME NEW i \in DOMAIN list2, NEW j \in DOMAIN list2, i <= j
        PROVE  lf2[list2[i]] <= lf2[list2[j]]
    <3>1. /\ lf2[list2[i]] = lf[list[from[i]]] /\ lf2[list2[j]] = lf[list[from[j]]]
          /\ from[i] \in DOMAIN list /\ from[j] \in DOMAIN list /\ from[i] <= from[j]
      BY <1>3, <1>5, <1>6, <2>1
    <3> QED
      BY Zenon, <1>1, <3>1 DEF Rising
  <2>2. Over(queue2, lf2)
    <3>1. ASSUME NEW i \in DOMAIN queue2
          PROVE  lf2[queue2[i]] <= 0
      <4>1. lf2[queue2[i]] = lf[queue[back[i]]] /\ back[i] \in DOMAIN queue
        BY <1>3, <1>5, <1>7
      <4> QED
        BY Zenon, <1>1, <4>1 DEF Over
    <3> QED
      BY Zenon, <3>1 DEF Over
  <2> QED
    BY <2>1, <2>2 DEF Rising
<1> QED
  <2>1. TimersOK(cur, list2, queue2, t2, lf2)
    BY Zenon, <1>1, <1>2, <1>4, <1>8, <1>9, <1>10 DEF TimersOK
  <2>2. t2 = Put(t, x, 0) /\ lf2 = Put(lf, x, 0)
    BY <1>a DEF Put
  <2> QED
    BY Zenon, <2>1, <2>2

\* the first of the queue is handled
LEMMA TailOne ==
  ASSUME NEW queue \in Seq(Timers), queue # <<>>, Once(queue)
  PROVE  Without(Tail(queue), queue, Head(queue)) /\ Head(queue) \in Timers
<1>1. PICK N \in Nat : N = Len(queue) /\ DOMAIN queue = 1 .. N /\ N >= 1
  OBVIOUS
<1>2. PICK r : r = Tail(queue)
  OBVIOUS
<1>3. r \in Seq(Timers) /\ DOMAIN r = 1 .. N - 1 /\ \A k \in DOMAIN r : r[k] = queue[k + 1]
  BY <1>1, <1>2
<1>4. Head(queue) = queue[1] /\ 1 \in DOMAIN queue
  BY <1>1
<1>5. PICK from : from = [k \in DOMAIN r |-> k + 1]
  OBVIOUS
<1>6. /\ from \in [DOMAIN r -> Int]
      /\ \A k \in DOMAIN r : from[k] \in DOMAIN queue /\ from[k] # 1 /\ r[k] = queue[from[k]]
      /\ \A k, m \in DOMAIN r : k <= m => from[k] <= from[m]
      /\ \A k, m \in DOMAIN r : from[k] = from[m] => k = m
  BY <1>1, <1>3, <1>5
<1>7. \A k \in DOMAIN r : r[k] # Head(queue)
  BY <1>4, <1>6 DEF Once
<1>8. Without(r, queue, Head(queue))
  BY Zenon, <1>3, <1>6, <1>7 DEF Without
<1> QED
  BY <1>2, <1>4, <1>8

(***************************************************************************)
(* A microsecond passes.                                                   *)
(***************************************************************************)
LEMMA TickAll ==
  ASSUME NEW cur, NEW list, NEW queue, NEW t, NEW lf, TimersOK(cur, list, queue, t, lf),
         ClockFits, NEW A,
         \A i \in DOMAIN list : list[i] \in A, \A i \in DOMAIN queue : queue[i] \in A,
         \A x \in A : lf[x] > -MaxLate,
         NEW lf2, lf2 = [x \in Timers |-> IF x \in A THEN lf[x] - 1 ELSE 0]
  PROVE  TimersOK((cur + 1) % (2 * Half), list, queue, t, lf2)
<1>1. /\ cur \in 0 .. 2 * Half - 1 /\ t \in [Timers -> Int] /\ lf \in [Timers -> Int]
      /\ list \in Seq(Timers) /\ queue \in Seq(Timers)
      /\ Once(list) /\ Once(queue) /\ Parted(list, queue)
      /\ AllDated(cur, list, t, lf) /\ AllDated(cur, queue, t, lf)
      /\ Rising(list, lf) /\ Over(queue, lf) /\ Half \in Nat \ {0} /\ MaxLate \in 0 .. Half - 1
  BY Zenon DEF TimersOK, ClockFits
<1>2. (cur + 1) % (2 * Half) \in 0 .. 2 * Half - 1
  <2>1. PICK m \in Nat \ {0}, c \in Int : m = 2 * Half /\ c = cur + 1
    BY <1>1
  <2>2. c % m \in 0 .. m - 1
    OBVIOUS
  <2> QED
    BY <2>1, <2>2
<1>3. lf2 \in [Timers -> Int]
  BY <1>1
<1>4. \A x \in A \cap Timers : lf2[x] = lf[x] - 1 /\ lf[x] \in Int /\ lf[x] - 1 > -Half
  BY <1>1
<1>5. /\ \A i \in DOMAIN list : list[i] \in A \cap Timers
      /\ \A i \in DOMAIN queue : queue[i] \in A \cap Timers
  BY <1>1
<1>6. ASSUME NEW x \in A \cap Timers, Dated(cur, t[x], lf[x])
      PROVE  Dated((cur + 1) % (2 * Half), t[x], lf2[x])
  BY Zenon, <1>1, <1>4, <1>6, DatedLater
<1>7. /\ AllDated((cur + 1) % (2 * Half), list, t, lf2)
      /\ AllDated((cur + 1) % (2 * Half), queue, t, lf2)
  BY Zenon, <1>1, <1>5, <1>6 DEF AllDated
<1>8. Rising(list, lf2)
  BY <1>1, <1>4, <1>5 DEF Rising
<1>9. Over(queue, lf2)
  BY <1>1, <1>4, <1>5 DEF Over
<1> QED
  BY Zenon, <1>1, <1>2, <1>3, <1>7, <1>8, <1>9 DEF TimersOK

\* what util_timeout_next returns, and what it stands for
NextOf(list, queue, lf) ==
  IF queue # <<>> THEN 0 ELSE IF list = <<>> THEN -1
  ELSE IF lf[list[1]] < 0 THEN 0 ELSE lf[list[1]]
Earliest(A, lf) == CHOOSE t \in A : \A u \in A : lf[t] <= lf[u]
Soonest(A, lf) == IF A = {} THEN -1 ELSE IF lf[Earliest(A, lf)] <= 0 THEN 0
                  ELSE lf[Earliest(A, lf)]
Exact(list, queue, lf, A) == NextOf(list, queue, lf) = Soonest(A, lf)

\* A holds what is in the list or in the queue
Listing(A, list, queue) == \A x : x \in A <=> Within(list, x) \/ Within(queue, x)

\* The first of the list, or a non-empty queue, tells the time to the earliest
\* deadline of all.
LEMMA NextIs ==
  ASSUME NEW cur, NEW list, NEW queue, NEW t, NEW lf, TimersOK(cur, list, queue, t, lf),
         Half \in Nat \ {0}, NEW A, Listing(A, list, queue)
  PROVE  Exact(list, queue, lf, A)
<1> USE DEF Soonest, Exact
<1>0. \A x : x \in A <=> Within(list, x) \/ Within(queue, x)
  BY Zenon DEF Listing
<1> USE <1>0
<1>1. /\ list \in Seq(Timers) /\ queue \in Seq(Timers) /\ lf \in [Timers -> Int]
      /\ AllDated(cur, list, t, lf) /\ AllDated(cur, queue, t, lf)
      /\ Rising(list, lf) /\ Over(queue, lf)
  BY Zenon DEF TimersOK
<1>2. /\ queue # <<>> => 1 \in DOMAIN queue
      /\ list # <<>> => 1 \in DOMAIN list
      /\ queue = <<>> => DOMAIN queue = {}
      /\ list = <<>> => DOMAIN list = {}
      /\ \A i \in DOMAIN list : list[i] \in Timers /\ 1 <= i
      /\ \A i \in DOMAIN queue : queue[i] \in Timers
  BY <1>1
<1>3. \A u \in A : lf[u] \in Int /\ lf[u] + Half \in Nat
  <2> TAKE u \in A
  <2>1. \E s : Dated(cur, s, lf[u])
    BY <1>1 DEF Within, AllDated
  <2> QED
    BY <2>1 DEF Dated
<1>4. A # {} => \E e \in A : \A u \in A : lf[e] <= lf[u]
  <2> HAVE A # {}
  <2> DEFINE S == {lf[u] + Half : u \in A}
  <2>1. S \subseteq Nat /\ S # {}
    BY <1>3
  <2>2. PICK m \in S : \A k \in S : m <= k
    <3> HIDE DEF S
    <3> QED
      BY Zenon, <2>1, LeastOf
  <2>3. PICK e \in A : m = lf[e] + Half
    OBVIOUS
  <2>4. ASSUME NEW u \in A
        PROVE  lf[e] <= lf[u]
    <3>1. m <= lf[u] + Half
      BY <2>2
    <3> QED
      BY <1>3, <2>3, <3>1
  <2> QED
    BY <2>4
<1>5. PICK e : e = Earliest(A, lf)
  OBVIOUS
<1>6. A # {} => e \in A /\ \A u \in A : lf[e] <= lf[u]
  BY Zenon, <1>4, <1>5 DEF Earliest
<1>7. CASE queue # <<>>
  <2>1. queue[1] \in A /\ lf[queue[1]] <= 0
    BY <1>1, <1>2, <1>7 DEF Within, Over
  <2>2. lf[e] <= 0
    BY <1>3, <1>6, <2>1
  <2> QED
    BY <1>5, <1>7, <2>1, <2>2 DEF NextOf
<1>8. CASE queue = <<>> /\ list = <<>>
  <2>1. A = {}
    BY <1>2, <1>8 DEF Within
  <2> QED
    BY Zenon, <1>8, <2>1 DEF NextOf
<1>9. CASE queue = <<>> /\ list # <<>>
  <2>1. list[1] \in A
    BY <1>2, <1>9 DEF Within
  <2>2. PICK i \in DOMAIN list : e = list[i]
    BY <1>2, <1>6, <1>9, <2>1 DEF Within
  <2>3. lf[list[1]] <= lf[list[i]]
    BY <1>1, <1>2, <1>9 DEF Rising
  <2>4. lf[e] = lf[list[1]] /\ lf[e] \in Int
    BY <1>3, <1>6, <2>1, <2>2, <2>3
  <2>5. NextOf(list, queue, lf) = IF lf[list[1]] < 0 THEN 0 ELSE lf[list[1]]
    BY Zenon, <1>9 DEF NextOf
  <2> QED
    BY <1>5, <2>1, <2>4, <2>5
<1> QED
  BY Zenon, <1>7, <1>8, <1>9

\* Unlinking a timeout from a list, whether or not it stands there.
Cut(list, x) ==
  IF Within(list, x) THEN CutAt(list, CHOOSE i \in DOMAIN list : list[i] = x) ELSE list

\* Unlinking takes out just the timeout.
LEMMA CutIs ==
  ASSUME NEW list \in Seq(Timers), Once(list), NEW x
  PROVE  Without(Cut(list, x), list, x)
<1>1. CASE Within(list, x)
  <2>1. PICK i : i \in DOMAIN list /\ list[i] = x /\ i = CHOOSE j \in DOMAIN list : list[j] = x
    BY Zenon, <1>1 DEF Within
  <2>2. Cut(list, x) = CutAt(list, i)
    BY Zenon, <1>1, <2>1 DEF Cut
  <2> QED
    BY Zenon, <2>1, <2>2, CutOne
<1>2. CASE ~ Within(list, x)
  <2>1. Cut(list, x) = list
    BY Zenon, <1>2 DEF Cut
  <2> QED
    BY Zenon, <1>2, <2>1, SkipOne
<1> QED
  BY Zenon, <1>1, <1>2

\* util_timeout_disarm
LEMMA DisarmOne ==
  ASSUME NEW cur, NEW list, NEW queue, NEW t, NEW lf, TimersOK(cur, list, queue, t, lf),
         NEW x \in Timers
  PROVE  TimersOK(cur, Cut(list, x), Cut(queue, x), Put(t, x, 0), Put(lf, x, 0))
<1>1. /\ list \in Seq(Timers) /\ queue \in Seq(Timers)
      /\ Once(list) /\ Once(queue)
  BY Zenon DEF TimersOK
<1>2. Without(Cut(list, x), list, x) /\ Without(Cut(queue, x), queue, x)
  BY Zenon, <1>1, CutIs
<1> QED
  BY Zenon, <1>2, UnlinkOne

\* One timeout of the queue is handed to its handler.
LEMMA HandleOne ==
  ASSUME NEW cur, NEW list, NEW queue, NEW t, NEW lf, TimersOK(cur, list, queue, t, lf),
         queue # <<>>
  PROVE  TimersOK(cur, list, Tail(queue), Put(t, Head(queue), 0), Put(lf, Head(queue), 0))
<1>1. /\ list \in Seq(Timers) /\ queue \in Seq(Timers)
      /\ Once(list) /\ Once(queue) /\ Parted(list, queue)
  BY Zenon DEF TimersOK
<1>2. Without(Tail(queue), queue, Head(queue)) /\ Head(queue) \in Timers
  BY Zenon, <1>1, TailOne
<1>3. 1 \in DOMAIN queue /\ Head(queue) = queue[1]
  BY <1>1
<1>4. ~ Within(list, Head(queue))
  BY Zenon, <1>1, <1>3 DEF Within, Parted
<1>5. Without(list, list, Head(queue))
  BY Zenon, <1>1, <1>4, SkipOne
<1> QED
  BY Zenon, <1>2, <1>5, UnlinkOne

\* The true time left one microsecond later.
Passed(A, lf) == [t \in Timers |-> IF t \in A THEN lf[t] - 1 ELSE 0]

\* The lists stay in order when a microsecond passes.
LEMMA TickOne ==
  ASSUME NEW cur, NEW list, NEW queue, NEW t, NEW lf, TimersOK(cur, list, queue, t, lf),
         ClockFits, NEW A, \A x : x \in A <=> Within(list, x) \/ Within(queue, x),
         \A x \in A : lf[x] > -MaxLate
  PROVE  TimersOK((cur + 1) % (2 * Half), list, queue, t, Passed(A, lf))
<1>1. /\ \A i \in DOMAIN list : list[i] \in A
      /\ \A i \in DOMAIN queue : queue[i] \in A
  BY Zenon DEF Within
<1>2. PICK lf2 : lf2 = Passed(A, lf)
  OBVIOUS
<1>3. lf2 = [x \in Timers |-> IF x \in A THEN lf[x] - 1 ELSE 0]
  BY <1>2 DEF Passed
<1>4. TimersOK((cur + 1) % (2 * Half), list, queue, t, lf2)
  BY <1>1, <1>3, TickAll, Zenon
<1> QED
  BY Zenon, <1>2, <1>4

\* Nothing is armed at the start.
LEMMA NoneArmed ==
  ASSUME ClockFits, NEW cur \in 0 .. 2 * Half - 1
  PROVE  TimersOK(cur, <<>>, <<>>, [t \in Timers |-> 0], [t \in Timers |-> 0])
BY DEF TimersOK, Once, Parted, AllDated, Rising, Over
-----------------------------------------------------------------------------
\* the component, over the names above
PM == INSTANCE PacketMem

\* the property in terms of the ranges
LEMMA TilesExact == MemFits /\ Tiles(freelist, held) => PM!HandlesTile
<1> SUFFICES ASSUME MemFits, Tiles(freelist, held) PROVE PM!HandlesTile
  BY Zenon
<1>1. freelist \in Seq(Block) /\ held \subseteq Block /\ Disjoint(freelist, held)
  BY Zenon DEF Tiles
<1>2. \A i \in DOMAIN freelist : freelist[i] \in Block
  BY <1>1
<1> DEFINE free == {freelist[i] : i \in DOMAIN freelist}
<1>3. ASSUME NEW a \in free \cup held, NEW b \in free \cup held, a # b
      PROVE  PM!Bytes(a) \cap PM!Bytes(b) = {}
  <2>1. a \in Block /\ b \in Block
    BY Zenon, <1>1, <1>2
  <2>2. Apart(a, b)
    <3>1. CASE a \in free /\ b \in free
      <4>1. PICK i \in DOMAIN freelist, j \in DOMAIN freelist :
              a = freelist[i] /\ b = freelist[j]
        BY Zenon, <3>1
      <4> QED
        BY Zenon, <1>1, <1>3, <4>1 DEF Disjoint
    <3>2. CASE a \in free /\ b \in held
      BY Zenon, <1>1, <3>2 DEF Disjoint
    <3>3. CASE a \in held /\ b \in free
      BY Zenon, <1>1, <3>3, ApartSym DEF Disjoint
    <3>4. CASE a \in held /\ b \in held
      BY Zenon, <1>1, <1>3, <3>4 DEF Disjoint
    <3> QED
      BY Zenon, <3>1, <3>2, <3>3, <3>4
  <2> QED
    BY Zenon, <2>1, <2>2, ApartBytes DEF PM!Bytes, PM!End
<1>4. PM!IsInjective(freelist)
  BY Zenon, <1>1, <1>2, NotApart DEF PM!IsInjective, Disjoint
<1>5. free \cap held = {}
  <2> SUFFICES ASSUME NEW i \in DOMAIN freelist, freelist[i] \in held PROVE FALSE
    BY Zenon
  <2>1. Apart(freelist[i], freelist[i])
    BY Zenon, <1>1 DEF Disjoint
  <2> QED
    BY Zenon, <1>2, <2>1, NotApart
<1>6. ASSUME NEW x
      PROVE  x \in PM!FreeBytes \cup PM!HeldBytes <=> x \in Int /\ Somewhere(x, freelist, held)
  <2>1. \A a \in Block : x \in PM!Bytes(a) <=> x \in Int /\ In(x, a)
    BY Zenon, InBytes DEF PM!Bytes, PM!End
  <2>2. x \in PM!FreeBytes <=> \E i \in DOMAIN freelist : x \in PM!Bytes(freelist[i])
    BY Zenon DEF PM!FreeBytes
  <2>3. x \in PM!HeldBytes <=> \E h \in held : x \in PM!Bytes(h)
    BY Zenon DEF PM!HeldBytes
  <2> QED
    BY Zenon, <1>1, <1>2, <2>1, <2>2, <2>3 DEF Somewhere
<1>7. ASSUME NEW x
      PROVE  x \in 0 .. MemLen - 1 <=> x \in Int /\ Somewhere(x, freelist, held)
  <2>1. x \in 0 .. MemLen - 1 <=> x \in Int /\ 0 <= x /\ x < MemLen
    BY DEF MemFits
  <2> QED
    BY Zenon, <2>1 DEF Tiles
<1>8. PM!FreeBytes \cup PM!HeldBytes = 0 .. MemLen - 1
  BY Zenon, <1>6, <1>7
<1> QED
  BY Zenon, <1>3, <1>4, <1>5, <1>8 DEF PM!HandlesTile

\* all of the memory is one free range at first
LEMMA TilesStart == MemFits /\ PM!packetmem_init => Tiles(freelist, held)
<1> SUFFICES ASSUME MemFits, PM!packetmem_init PROVE Tiles(freelist, held)
  BY Zenon
<1>1. freelist = <<[base |-> 0, len |-> MemLen]>> /\ held = {}
  BY Zenon DEF PM!packetmem_init
<1>2. PICK a \in Block : a.base = 0 /\ a.len = MemLen /\ a = [base |-> 0, len |-> MemLen]
  BY DEF Block, MemFits
<1>3. freelist \in Seq(Block) /\ DOMAIN freelist = {1} /\ freelist[1] = a
  BY <1>1, <1>2
<1>4. Disjoint(freelist, held)
  BY Zenon, <1>1, <1>3 DEF Disjoint
<1>5. ASSUME NEW x \in Int
      PROVE  (0 <= x /\ x < MemLen) <=> Somewhere(x, freelist, held)
  <2>1. In(x, a) <=> 0 <= x /\ x < MemLen
    BY <1>2 DEF In, MemFits
  <2> QED
    BY Zenon, <1>1, <1>3, <2>1 DEF Somewhere
<1> QED
  BY Zenon, <1>1, <1>3, <1>4, <1>5 DEF Tiles

\* a handle is taken off the list or loses its front
LEMMA AllocStep ==
  ASSUME Tiles(freelist, held), NEW n \in Nat \ {0}, PM!packetmem_alloc(n)
  PROVE  Tiles(freelist, held)'
<1>1. freelist \in Seq(Block)
  BY Zenon DEF Tiles
<1> DEFINE fits == {i \in DOMAIN freelist : freelist[i].len >= n}
           c == CHOOSE k \in fits : \A j \in fits : k <= j
<1>2. fits # {}
  BY Zenon DEF PM!packetmem_alloc
<1>3. fits \subseteq Nat
  BY <1>1
<1>4. \E k \in fits : \A j \in fits : k <= j
  BY Zenon, <1>2, <1>3, LeastOf
<1>5. c \in fits
  BY Zenon, <1>4
<1>6. PICK i \in DOMAIN freelist : i = c /\ freelist[i].len >= n
  BY Zenon, <1>5
<1>7. /\ held' = held \cup {[base |-> freelist[i].base, len |-> n]}
      /\ freelist' = IF freelist[i].len = n THEN PM!Unlink(freelist, i)
                     ELSE [freelist EXCEPT ![i] = [base |-> freelist[i].base + n,
                                                   len |-> freelist[i].len - n]]
  <2>1. /\ held' = held \cup {[base |-> freelist[c].base, len |-> n]}
        /\ freelist' = IF freelist[c].len = n THEN PM!Unlink(freelist, c)
                       ELSE [freelist EXCEPT ![c] = [base |-> freelist[c].base + n,
                                                     len |-> freelist[c].len - n]]
    BY Zenon DEF PM!packetmem_alloc
  <2> HIDE DEF c
  <2> QED
    BY Zenon, <1>6, <2>1
<1>8. freelist[i] \in Block
  BY <1>1
<1>9. CASE freelist[i].len = n
  <2>1. freelist[i] = [base |-> freelist[i].base, len |-> n]
    BY <1>8, <1>9 DEF Block
  <2>2. freelist' = CutAt(freelist, i)
    BY Zenon, <1>7, <1>9 DEF CutAt, PM!Unlink
  <2>3. held' = held \cup {freelist[i]}
    BY Zenon, <1>7, <2>1
  <2> QED
    BY Zenon, <2>2, <2>3, TakeWhole
<1>10. CASE freelist[i].len # n
  <2>1. n < freelist[i].len
    BY <1>6, <1>8, <1>10 DEF Block
  <2> QED
    BY Zenon, <1>7, <1>10, <2>1, TakeFront
<1> QED
  BY Zenon, <1>9, <1>10

\* merging with the next handle changes no byte
LEMMA MergeStep ==
  ASSUME NEW list, NEW hs, Tiles(list, hs), NEW i \in Int
  PROVE  Tiles(PM!MergeNext(list, i), hs)
<1>1. list \in Seq(Block)
  BY Zenon DEF Tiles
<1>2. CASE i >= 1 /\ i < Len(list) /\ PM!End(list[i]) = list[i + 1].base
  <2>1. i \in DOMAIN list /\ i + 1 \in DOMAIN list
    BY <1>1, <1>2
  <2>2. list[i].base + list[i].len = list[i + 1].base
    BY Zenon, <1>2 DEF PM!End
  <2>3. PM!MergeNext(list, i) = CutAt([list EXCEPT ![i].len = @ + list[i + 1].len], i + 1)
    BY Zenon, <1>2 DEF PM!MergeNext, PM!Unlink, CutAt
  <2> QED
    BY Zenon, <2>1, <2>2, <2>3, Absorb
<1>3. CASE ~ (i >= 1 /\ i < Len(list) /\ PM!End(list[i]) = list[i + 1].base)
  <2>1. PM!MergeNext(list, i) = list
    BY Zenon, <1>3 DEF PM!MergeNext
  <2> QED
    BY Zenon, <2>1
<1> QED
  BY Zenon, <1>2, <1>3

\* the place where packetmem_free inserts is one of the list
LEMMA FreePosIn ==
  ASSUME NEW S, freelist \in Seq(S), NEW h
  PROVE  PM!FreePos(h) \in 1 .. Len(freelist) + 1
<1>1. PICK n \in Nat : n = Len(freelist)
  OBVIOUS
<1> DEFINE goes(k) == k + 2 <= Len(freelist) /\ freelist[k + 2].base < h.base
           stops == {k \in 0 .. n : ~ goes(k)}
<1>2. n \in stops
  BY <1>1
<1>3. stops \subseteq Nat
  BY <1>1
<1>4. PICK k \in stops : \A m \in stops : k <= m
  BY Zenon, <1>2, <1>3, LeastOf
<1>5. k \in 0 .. n /\ ~ goes(k)
  BY Zenon, <1>4
<1>6. ASSUME NEW m \in 0 .. k - 1 PROVE goes(m)
  <2>1. m \in 0 .. n /\ ~ (k <= m)
    BY <1>1, <1>5
  <2> QED
    BY Zenon, <1>4, <2>1
<1> DEFINE c == CHOOSE x \in 0 .. Len(freelist) : ~ goes(x) /\ \A m \in 0 .. x - 1 : goes(m)
<1>7. c \in 0 .. n
  BY Zenon, <1>1, <1>5, <1>6
<1>8. PM!FreePos(h) = 1 + c
  BY Zenon DEF PM!FreePos
<1> HIDE DEF c
<1> QED
  BY <1>1, <1>7, <1>8

\* a handle goes back to the list, and merges with its neighbours
LEMMA FreeStep ==
  ASSUME Tiles(freelist, held), NEW h \in held, PM!packetmem_free(h)
  PROVE  Tiles(freelist, held)'
<1>1. freelist \in Seq(Block)
  BY Zenon DEF Tiles
<1>2. PICK p \in 1 .. Len(freelist) + 1 : p = PM!FreePos(h)
  BY Zenon, <1>1, FreePosIn
<1>3. PICK list : list = PutAt(freelist, p, h)
  BY Zenon
<1>4. /\ held' = held \ {h}
      /\ freelist' = PM!merge_items(list, p)
  BY Zenon, <1>2, <1>3 DEF PM!packetmem_free, PM!Link, PutAt
<1>5. Tiles(list, held')
  BY Zenon, <1>2, <1>3, <1>4, PutBack
<1>6. p \in Int /\ p - 1 \in Int
  BY <1>1, <1>2
<1>7. PICK merged : merged = PM!MergeNext(list, p - 1)
  BY Zenon
<1>8. Tiles(merged, held')
  BY Zenon, <1>5, <1>6, <1>7, MergeStep
<1>9. PICK q \in Int : q = IF merged = list THEN p ELSE p - 1
  BY Zenon, <1>6
<1>10. freelist' = PM!MergeNext(merged, q)
  BY Zenon, <1>4, <1>7, <1>9 DEF PM!merge_items
<1> QED
  BY Zenon, <1>8, <1>10, MergeStep

(***************************************************************************)
(* packetmem_alloc and packetmem_free, for every size of the memory and    *)
(* every sequence of allocations and frees: no byte is handed out twice    *)
(* and none is lost, although packetmem_free does not keep the list in     *)
(* address order.                                                          *)
(***************************************************************************)
THEOREM NoByteLost ==
  ASSUME MemFits
  PROVE  PM!Spec => []PM!HandlesTile
<1>1. PM!packetmem_init => Tiles(freelist, held)
  BY Zenon, TilesStart
<1>2. Tiles(freelist, held) /\ [PM!Next]_(PM!vars) => Tiles(freelist, held)'
  <2> SUFFICES ASSUME Tiles(freelist, held), [PM!Next]_(PM!vars)
               PROVE  Tiles(freelist, held)'
    BY Zenon
  <2>1. CASE UNCHANGED PM!vars
    BY Zenon, <2>1 DEF PM!vars
  <2>2. ASSUME NEW n \in AllocLens, PM!packetmem_alloc(n)
        PROVE  Tiles(freelist, held)'
    BY Zenon, <2>2, AllocStep DEF MemFits
  <2>3. ASSUME NEW h \in held, PM!packetmem_free(h)
        PROVE  Tiles(freelist, held)'
    BY Zenon, <2>3, FreeStep
  <2> QED
    BY Zenon, <2>1, <2>2, <2>3 DEF PM!Next
<1>3. Tiles(freelist, held) => PM!HandlesTile
  BY Zenon, TilesExact
<1> QED
  BY <1>1, <1>2, <1>3, PTL DEF PM!Spec
-----------------------------------------------------------------------------
\* the component, over the names above
TO == INSTANCE Timeout

\* the timeouts of the manager are in order
ClockOK == TimersOK(now, timeouts, due, ts, left)

\* rel_time of what is armed is the time left
LEMMA RelLeft ==
  ASSUME ClockFits, NEW cur \in 0 .. 2 * Half - 1, NEW stamp, NEW lft, Dated(cur, stamp, lft)
  PROVE  TO!rel_time(cur, stamp) = lft
<1>1. Half \in Nat \ {0}
  BY Zenon DEF ClockFits
<1>2. RelOf(cur, stamp) = lft
  BY Zenon, <1>1, RelOfIs
<1> QED
  BY Zenon, <1>2 DEF TO!rel_time, TO!Range2, RelOf

\* the members of a list
LEMMA SetIs == ASSUME NEW s, NEW x PROVE x \in TO!Range(s) <=> Within(s, x)
BY Zenon DEF TO!Range, Within

\* NumDue counts the timeouts at the front without time left.
LEMMA DueCount ==
  ASSUME ClockFits, ClockOK
  PROVE  FrontDue(timeouts, left, TO!NumDue(now))
<1>1. /\ timeouts \in Seq(Timers) /\ AllDated(now, timeouts, ts, left)
      /\ now \in 0 .. 2 * Half - 1 /\ left \in [Timers -> Int]
  BY Zenon DEF ClockOK, TimersOK
<1>2. PICK N \in Nat : N = Len(timeouts) /\ DOMAIN timeouts = 1 .. N
  BY <1>1
<1>3. \A i \in 1 .. N : /\ TO!timeout_due(timeouts[i], now) <=> left[timeouts[i]] <= 0
                        /\ left[timeouts[i]] \in Int
  <2> TAKE i \in 1 .. N
  <2>1. Dated(now, ts[timeouts[i]], left[timeouts[i]])
    BY Zenon, <1>1, <1>2 DEF AllDated
  <2>2. TO!rel_time(now, ts[timeouts[i]]) = left[timeouts[i]]
    BY Zenon, <1>1, <2>1, RelLeft
  <2>3. timeouts[i] \in Timers
    BY <1>1, <1>2
  <2> QED
    BY Zenon, <1>1, <2>2, <2>3 DEF TO!timeout_due
<1> DEFINE front(n) == /\ \A i \in 1 .. n : TO!timeout_due(timeouts[i], now)
                       /\ n < N => ~ TO!timeout_due(timeouts[n + 1], now)
           stops == {n \in 0 .. N : n < N => ~ TO!timeout_due(timeouts[n + 1], now)}
<1>4. N \in stops /\ stops \subseteq Nat
  OBVIOUS
<1>5. PICK n \in stops : \A m \in stops : n <= m
  <2> HIDE DEF stops
  <2> QED
    BY Zenon, <1>4, LeastOf
<1>6. ASSUME NEW i \in 1 .. n
      PROVE  TO!timeout_due(timeouts[i], now)
  <2>1. i - 1 \in 0 .. N /\ ~ (n <= i - 1) /\ (i - 1) + 1 = i
    BY <1>2
  <2> QED
    BY Zenon, <1>5, <2>1
<1>7. n \in 0 .. N /\ front(n)
  BY Zenon, <1>6
<1>8. PICK c : c = TO!NumDue(now) /\ c \in 0 .. N /\ front(c)
  <2>1. TO!NumDue(now) = CHOOSE m \in 0 .. N : front(m)
    BY Zenon, <1>2 DEF TO!NumDue
  <2> HIDE DEF front
  <2> QED
    BY Zenon, <1>7, <2>1
<1>9. /\ \A i \in 1 .. c : i \in 1 .. N
      /\ c < N => c + 1 \in 1 .. N
  BY <1>8
<1>10. \A i \in 1 .. c : left[timeouts[i]] <= 0
  BY Zenon, <1>3, <1>8, <1>9
<1>11. ASSUME c < N
       PROVE  left[timeouts[c + 1]] > 0
  <2>1. left[timeouts[c + 1]] \in Int /\ ~ (left[timeouts[c + 1]] <= 0)
    BY Zenon, <1>3, <1>8, <1>9, <1>11
  <2> QED
    BY <2>1
<1> QED
  BY Zenon, <1>2, <1>8, <1>10, <1>11 DEF FrontDue

\* move_due_timeouts
LEMMA DueMoved ==
  ASSUME ClockFits, ClockOK
  PROVE  Sorted(now, TO!NotDue(now), TO!WithDue(now), timeouts, due, ts, left)
<1>1. PICK n : n = TO!NumDue(now)
  BY Zenon
<1>2. FrontDue(timeouts, left, n)
  BY Zenon, <1>1, DueCount
<1>3. Rest(timeouts, n) = TO!NotDue(now) /\ Longer(timeouts, due, n) = TO!WithDue(now)
  BY Zenon, <1>1 DEF TO!NotDue, TO!WithDue, Rest, Longer
<1>4. Half \in Nat \ {0} /\ TimersOK(now, timeouts, due, ts, left)
  BY Zenon DEF ClockFits, ClockOK
<1> QED
  BY Zenon, <1>2, <1>3, <1>4, MoveFront

(***************************************************************************)
(* ArmPos: the deadlines before that place are not later than the new one, *)
(* and those from it on are later.                                         *)
(***************************************************************************)
LEMMA ArmPlace ==
  ASSUME ClockFits, NEW list, NEW queue, TimersOK(now, list, queue, ts, left),
         \A i \in DOMAIN list : left[list[i]] > 0, NEW us \in Delays
  PROVE  Place(TO!ArmPos(list, us), list, left, us)
<1>1. /\ list \in Seq(Timers) /\ AllDated(now, list, ts, left)
      /\ now \in 0 .. 2 * Half - 1 /\ left \in [Timers -> Int] /\ Rising(list, left)
  BY Zenon DEF TimersOK
<1>2. PICK N \in Nat : N = Len(list) /\ DOMAIN list = 1 .. N
  BY <1>1
<1>3. us \in Int
  BY DEF ClockFits
<1>4. \A i \in DOMAIN list : /\ TO!rel_time(now, ts[list[i]]) = left[list[i]]
                             /\ left[list[i]] \in Int
  <2> TAKE i \in DOMAIN list
  <2>1. Dated(now, ts[list[i]], left[list[i]])
    BY Zenon, <1>1 DEF AllDated
  <2>2. list[i] \in Timers
    BY <1>1
  <2> QED
    BY Zenon, <1>1, <2>1, <2>2, RelLeft
<1> DEFINE early == {i \in DOMAIN list : /\ TO!rel_time(now, ts[list[i]]) >= 0
                                         /\ TO!rel_time(now, ts[list[i]]) <= us}
           c == CHOOSE p \in early \cup {0} : \A i \in early : i <= p
<1>5. \A i \in DOMAIN list : i \in early <=> left[list[i]] <= us
  <2> TAKE i \in DOMAIN list
  <2>1. left[list[i]] >= 0
    BY <1>4
  <2> QED
    BY Zenon, <1>4, <2>1
<1>6. TO!ArmPos(list, us) = 1 + c
  BY Zenon DEF TO!ArmPos
<1>7. \E p \in early \cup {0} : \A i \in early : i <= p
  <2>1. early \subseteq 1 .. N
    BY <1>2
  <2> HIDE DEF early
  <2> DEFINE gaps == {N - i : i \in early \cup {0}}
  <2>2. gaps \subseteq Nat /\ gaps # {}
    BY <2>1
  <2>3. PICK g \in gaps : \A h \in gaps : g <= h
    <3> HIDE DEF gaps
    <3> QED
      BY Zenon, <2>2, LeastOf
  <2>4. PICK p \in early \cup {0} : g = N - p
    OBVIOUS
  <2>5. ASSUME NEW i \in early
        PROVE  i <= p
    <3>1. g <= N - i
      BY <2>3
    <3> QED
      BY <2>1, <2>4, <3>1
  <2> QED
    BY <2>5
<1>8. PICK p : p = c /\ p \in early \cup {0} /\ \A i \in early : i <= p
  <2> HIDE DEF early
  <2> QED
    BY Zenon, <1>7
<1>9. p \in 0 .. N
  <2>1. early \subseteq 1 .. N
    BY <1>2
  <2> HIDE DEF early, c
  <2> QED
    BY <1>8, <2>1
<1>10. ASSUME NEW i \in DOMAIN list, i < 1 + p
       PROVE  left[list[i]] <= us
  <2>1. p \in DOMAIN list /\ i <= p /\ p # 0
    BY <1>2, <1>9, <1>10
  <2>2. p \in early
    BY Zenon, <1>8, <2>1
  <2>3. left[list[p]] <= us /\ left[list[i]] <= left[list[p]]
    BY Zenon, <1>1, <1>5, <2>1, <2>2 DEF Rising
  <2>4. left[list[p]] \in Int /\ left[list[i]] \in Int
    BY Zenon, <1>4, <2>1
  <2> HIDE DEF early
  <2> QED
    BY <1>3, <2>3, <2>4
<1>11. ASSUME NEW i \in DOMAIN list, i >= 1 + p
       PROVE  left[list[i]] >= us
  <2>1. ~ (i <= p)
    BY <1>2, <1>9, <1>11
  <2>2. ~ (left[list[i]] <= us) /\ left[list[i]] \in Int
    BY Zenon, <1>4, <1>5, <1>8, <2>1
  <2> HIDE DEF early
  <2> QED
    BY <1>3, <2>2
<1>12. 1 + p \in 1 .. N + 1
  BY <1>9
<1> QED
  <2>1. Place(1 + p, list, left, us)
    BY Zenon, <1>2, <1>10, <1>11, <1>12 DEF Place
  <2> HIDE DEF early
  <2> QED
    BY Zenon, <1>6, <1>8, <2>1

\* Armed: the members of the list and of the queue
LEMMA ArmedIs ==
  ASSUME NEW x PROVE x \in TO!Armed <=> Within(timeouts, x) \/ Within(due, x)
BY Zenon, SetIs DEF TO!Armed

\* An insertion as the model writes it.
LEMMA InsertedAt ==
  ASSUME NEW s, NEW p, NEW x PROVE TO!Linked(s, p, x) = PutAt(s, p, x)
BY Zenon DEF TO!Linked, PutAt

\* ... and a removal
LEMMA UnlinkedIs ==
  ASSUME NEW s, NEW x PROVE TO!Unlinked(s, x) = Cut(s, x)
<1>1. x \in TO!Range(s) <=> Within(s, x)
  BY Zenon, SetIs
<1> QED
  BY <1>1 DEF TO!Unlinked, Cut, CutAt

\* Each step of the manager keeps its list and its queue in order.
LEMMA TimerStep ==
  ASSUME ClockFits, ClockOK, [TO!Next]_TO!vars
  PROVE  ClockOK'
<1> SUFFICES TimersOK(now', timeouts', due', ts', left')
  BY Zenon DEF ClockOK
<1>a. TimersOK(now, timeouts, due, ts, left)
  BY Zenon DEF ClockOK
<1>b. Sorted(now, TO!NotDue(now), TO!WithDue(now), timeouts, due, ts, left)
  BY Zenon, DueMoved
<1>c. /\ TimersOK(now, TO!NotDue(now), TO!WithDue(now), ts, left)
      /\ \A i \in DOMAIN TO!NotDue(now) : left[TO!NotDue(now)[i]] > 0
      /\ \A x : Within(TO!NotDue(now), x) \/ Within(TO!WithDue(now), x)
                <=> Within(timeouts, x) \/ Within(due, x)
  BY Zenon, <1>b DEF Sorted
<1>1. ASSUME NEW t \in Timers, NEW us \in Delays, TO!util_timeout_arm(t, us)
      PROVE  TimersOK(now', timeouts', due', ts', left')
  <2>1. PICK list, queue : list = TO!NotDue(now) /\ queue = TO!WithDue(now)
    BY Zenon
  <2>2. /\ timeouts' = PutAt(list, TO!ArmPos(list, us), t) /\ due' = queue /\ now' = now
        /\ ts' = Put(ts, t, (now + us) % (2 * Half)) /\ left' = Put(left, t, us)
    BY Zenon, <1>1, <2>1, InsertedAt DEF TO!util_timeout_arm, TO!Range2, Put
  <2>3. ~ Within(list, t) /\ ~ Within(queue, t)
    BY Zenon, <1>1, <1>c, <2>1, ArmedIs DEF TO!util_timeout_arm
  <2>4. Place(TO!ArmPos(list, us), list, left, us)
    BY Zenon, <1>c, <2>1, ArmPlace
  <2>5. TimersOK(now, list, queue, ts, left)
    BY Zenon, <1>c, <2>1
  <2>6. TimersOK(now, PutAt(list, TO!ArmPos(list, us), t), queue,
                 Put(ts, t, (now + us) % (2 * Half)), Put(left, t, us))
    BY Zenon, <2>3, <2>4, <2>5, ArmOne
  <2> QED
    BY Zenon, <2>2, <2>6
<1>2. ASSUME NEW t \in Timers, TO!util_timeout_disarm(t)
      PROVE  TimersOK(now', timeouts', due', ts', left')
  <2>1. /\ timeouts' = Cut(timeouts, t) /\ due' = Cut(due, t) /\ now' = now
        /\ ts' = Put(ts, t, 0) /\ left' = Put(left, t, 0)
    BY Zenon, <1>2, UnlinkedIs DEF TO!util_timeout_disarm, Put
  <2>2. TimersOK(now, Cut(timeouts, t), Cut(due, t), Put(ts, t, 0), Put(left, t, 0))
    BY Zenon, <1>a, DisarmOne
  <2> QED
    BY Zenon, <2>1, <2>2
<1>3. ASSUME TO!PollBegin
      PROVE  TimersOK(now', timeouts', due', ts', left')
  <2>1. /\ timeouts' = TO!NotDue(now) /\ due' = TO!WithDue(now)
        /\ now' = now /\ ts' = ts /\ left' = left
    BY Zenon, <1>3 DEF TO!PollBegin
  <2> QED
    BY Zenon, <1>c, <2>1
<1>4. ASSUME TO!PollOne
      PROVE  TimersOK(now', timeouts', due', ts', left')
  <2>1. /\ timeouts' = timeouts /\ due' = Tail(due) /\ due # <<>> /\ now' = now
        /\ ts' = Put(ts, Head(due), 0) /\ left' = Put(left, Head(due), 0)
    BY Zenon, <1>4 DEF TO!PollOne, Put
  <2>2. TimersOK(now, timeouts, Tail(due), Put(ts, Head(due), 0), Put(left, Head(due), 0))
    BY Zenon, <1>a, <2>1, HandleOne
  <2> QED
    BY Zenon, <2>1, <2>2
<1>5. ASSUME TO!Tick
      PROVE  TimersOK(now', timeouts', due', ts', left')
  <2>1. PICK A : A = TO!Armed
    BY Zenon
  <2>2. /\ timeouts' = timeouts /\ due' = due /\ ts' = ts /\ now' = (now + 1) % (2 * Half)
        /\ left' = Passed(A, left) /\ \A x \in A : left[x] > -MaxLate
    BY Zenon, <1>5, <2>1 DEF TO!Tick, TO!Range2, Passed
  <2>3. \A x : x \in A <=> Within(timeouts, x) \/ Within(due, x)
    BY Zenon, <2>1, ArmedIs
  <2>4. TimersOK((now + 1) % (2 * Half), timeouts, due, ts, Passed(A, left))
    BY Zenon, <1>a, <2>2, <2>3, TickOne
  <2> QED
    BY Zenon, <2>2, <2>4
<1>6. ASSUME UNCHANGED TO!vars
      PROVE  TimersOK(now', timeouts', due', ts', left')
  <2>1. /\ now' = now /\ timeouts' = timeouts /\ due' = due /\ ts' = ts /\ left' = left
    BY <1>6 DEF TO!vars
  <2> QED
    BY Zenon, <1>a, <2>1
<1> QED
  BY Zenon, <1>1, <1>2, <1>3, <1>4, <1>5, <1>6 DEF TO!Next

\* What is in the queue has no time left, and util_timeout_next is exact.
LEMMA TimersTell ==
  ASSUME ClockFits, ClockOK
  PROVE  TO!DueIsOver /\ TO!NextExact
<1>1. TimersOK(now, timeouts, due, ts, left)
  BY Zenon DEF ClockOK
<1>2. Half \in Nat \ {0}
  BY Zenon DEF ClockFits
<1>3. TO!DueIsOver
  <2>1. Over(due, left)
    BY Zenon, <1>1 DEF TimersOK
  <2> QED
    BY Zenon, <2>1, SetIs DEF TO!DueIsOver, Within, Over
<1>4. TO!util_timeout_next = NextOf(timeouts, due, left)
  <2>1. CASE timeouts # <<>>
    <3>1. timeouts \in Seq(Timers) /\ AllDated(now, timeouts, ts, left) /\ now \in 0 .. 2 * Half - 1
      BY Zenon, <1>1 DEF TimersOK
    <3>2. 1 \in DOMAIN timeouts /\ Head(timeouts) = timeouts[1]
      BY <2>1, <3>1
    <3>3. Dated(now, ts[timeouts[1]], left[timeouts[1]])
      BY Zenon, <3>1, <3>2 DEF AllDated
    <3>4. TO!rel_time(now, ts[Head(timeouts)]) = left[timeouts[1]]
      BY Zenon, <3>1, <3>2, <3>3, RelLeft
    <3> QED
      BY Zenon, <2>1, <3>4 DEF TO!util_timeout_next, NextOf
  <2>2. CASE timeouts = <<>>
    BY Zenon, <2>2 DEF TO!util_timeout_next, NextOf
  <2> QED
    BY Zenon, <2>1, <2>2
<1>5. PICK A : A = TO!Armed
  BY Zenon
<1>6. Listing(A, timeouts, due)
  BY Zenon, <1>5, ArmedIs DEF Listing
<1>7. Exact(timeouts, due, left, A)
  BY Zenon, <1>1, <1>2, <1>6, NextIs
<1>8. TO!NextExact
  BY Zenon, <1>4, <1>5, <1>7 DEF TO!NextExact, Exact, Soonest, Earliest
<1> QED
  BY Zenon, <1>3, <1>8

\* A manager starts in order.
LEMMA TimerStart == ASSUME ClockFits, TO!util_timeout_init PROVE ClockOK
<1>1. now \in 0 .. 2 * Half - 1
  BY DEF TO!util_timeout_init, TO!Range2, ClockFits
<1>2. /\ timeouts = <<>> /\ due = <<>>
      /\ ts = [t \in Timers |-> 0] /\ left = [t \in Timers |-> 0]
  BY Zenon DEF TO!util_timeout_init
<1> QED
  BY Zenon, <1>1, <1>2, NoneArmed DEF ClockOK

(***************************************************************************)
(* Whatever the width of the clock, the number of timeouts, the delays     *)
(* they are armed with and the moments they are armed, disarmed and polled *)
(* at, move_due_timeouts queues only timeouts whose time is over, and      *)
(* util_timeout_next is exactly the time until the earliest deadline.      *)
(***************************************************************************)
THEOREM ClockExact ==
  ASSUME ClockFits PROVE TO!Spec => [](TO!DueIsOver /\ TO!NextExact)
<1>1. TO!util_timeout_init => ClockOK
  BY Zenon, TimerStart
<1>2. ClockOK /\ [TO!Next]_TO!vars => ClockOK'
  BY Zenon, TimerStep
<1>3. ClockOK => TO!DueIsOver /\ TO!NextExact
  BY Zenon, TimersTell
<1> QED
  BY <1>1, <1>2, <1>3, PTL DEF TO!Spec
=============================================================================
