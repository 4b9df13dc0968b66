--------------------------- MODULE LruCacheProofs ---------------------------
(***************************************************************************)
(* The cache for any set of keys and any capacity: its list and its map    *)
(* always agree, and it implements the least-recently-used cache.          *)
(***************************************************************************)
EXTENDS LruCache, TLAPS, FiniteSetTheorems, SequenceTheorems

\* A put is never at a loss for an address, and the cache is never too large.
Fits == Len(entries) <= Capacity

\* The list is in the order of the last uses, and none is in the future.
InOrder ==
  /\ \A k \in Keys : lastUse[k] <= clock
  /\ \A i, j \in DOMAIN entries :
       i < j => lastUse[entries[j].key] < lastUse[entries[i].key]

\* The inductive invariant.
Inv ==
  /\ TypeOK
  /\ IteratorsValid
  /\ Fits
  /\ InOrder

-----------------------------------------------------------------------------
(* The list. *)

\* What erasing position i leaves of a list.
LEMMA WithoutAtProperties ==
  ASSUME NEW S, NEW s \in Seq(S), NEW i \in 1..Len(s)
  PROVE  /\ WithoutAt(s, i) \in Seq(S)
         /\ Len(WithoutAt(s, i)) = Len(s) - 1
         /\ \A j \in 1..(Len(s) - 1) :
              WithoutAt(s, i)[j] = IF j < i THEN s[j] ELSE s[j + 1]
<1> DEFINE a == SubSeq(s, 1, i - 1)
           b == SubSeq(s, i + 1, Len(s))
<1>0. Len(s) \in Nat /\ \A j \in 1..Len(s) : s[j] \in S
  BY LenProperties, ElementOfSeq
<1>1. /\ a \in Seq(S)
      /\ Len(a) = i - 1
      /\ \A j \in 1..(i - 1) : a[j] = s[j]
  <2>1. \A j \in 1..(i - 1) : s[j] \in S
    BY <1>0
  <2>2. a \in Seq(S) /\ Len(a) = (IF 1 <= i - 1 THEN (i - 1) - 1 + 1 ELSE 0)
        /\ \A j \in 1..((i - 1) - 1 + 1) : a[j] = s[1 + j - 1]
    BY <2>1, SubSeqProperties
  <2> QED
    BY <2>2
<1>2. /\ b \in Seq(S)
      /\ Len(b) = Len(s) - i
      /\ \A j \in 1..(Len(s) - i) : b[j] = s[i + j]
  <2>1. \A j \in (i + 1)..Len(s) : s[j] \in S
    BY <1>0
  <2>2. /\ b \in Seq(S)
        /\ Len(b) = (IF i + 1 <= Len(s) THEN Len(s) - (i + 1) + 1 ELSE 0)
        /\ \A j \in 1..(Len(s) - (i + 1) + 1) : b[j] = s[(i + 1) + j - 1]
    BY <2>1, <1>0, SubSeqProperties
  <2> QED
    BY <2>2, <1>0
<1>3. /\ a \o b \in Seq(S)
      /\ Len(a \o b) = Len(a) + Len(b)
      /\ \A j \in 1..(Len(a) + Len(b)) :
           (a \o b)[j] = IF j <= Len(a) THEN a[j] ELSE b[j - Len(a)]
  BY <1>1, <1>2, ConcatProperties
<1> DEFINE c == a \o b
<1>4. /\ c \in Seq(S)
      /\ Len(c) = Len(a) + Len(b)
      /\ \A j \in 1..(Len(a) + Len(b)) :
           c[j] = IF j <= Len(a) THEN a[j] ELSE b[j - Len(a)]
  BY <1>3
<1> HIDE DEF a, b, c
<1>5. Len(a) + Len(b) = Len(s) - 1
  BY <1>0, <1>1, <1>2
<1>6. ASSUME NEW j \in 1..(Len(s) - 1)
      PROVE  c[j] = IF j < i THEN s[j] ELSE s[j + 1]
  <2>1. CASE j < i
    <3>1. j \in 1..(i - 1) /\ j <= Len(a)
      BY <2>1, <1>0, <1>1
    <3> QED
      BY <3>1, <2>1, <1>1, <1>4, <1>5
  <2>2. CASE ~(j < i)
    <3>1. j - Len(a) \in 1..(Len(s) - i) /\ i + (j - Len(a)) = j + 1 /\ ~(j <= Len(a))
      BY <2>2, <1>0, <1>1
    <3> QED
      BY <3>1, <2>2, <1>2, <1>4, <1>5
  <2> QED
    BY <2>1, <2>2
<1> QED
  BY <1>4, <1>5, <1>6 DEF WithoutAt, a, b, c

\* What adding an element in front makes of a list.
LEMMA PushProperties ==
  ASSUME NEW S, NEW s \in Seq(S), NEW e \in S
  PROVE  /\ <<e>> \o s \in Seq(S)
         /\ Len(<<e>> \o s) = Len(s) + 1
         /\ \A j \in 1..(Len(s) + 1) :
              (<<e>> \o s)[j] = IF j = 1 THEN e ELSE s[j - 1]
<1>1. <<e>> \in Seq(S) /\ Len(<<e>>) = 1 /\ <<e>>[1] = e
  OBVIOUS
<1>2. Len(s) \in Nat
  BY LenProperties
<1>3. /\ <<e>> \o s \in Seq(S)
      /\ Len(<<e>> \o s) = Len(<<e>>) + Len(s)
      /\ \A j \in 1..(Len(<<e>>) + Len(s)) :
           (<<e>> \o s)[j] = IF j <= Len(<<e>>) THEN <<e>>[j] ELSE s[j - Len(<<e>>)]
  BY <1>1, ConcatProperties
<1> QED
  BY <1>1, <1>2, <1>3

\* An iterator in the map leads to the only node at its address.
LEMMA AtProperties ==
  ASSUME TypeOK, IteratorsValid
  PROVE  /\ \A i \in DOMAIN entries : At(entries[i].addr) = i
         /\ \A k \in Keys : index[k] # None =>
              /\ At(index[k]) \in DOMAIN entries
              /\ entries[At(index[k])].addr = index[k]
              /\ entries[At(index[k])].key = k
<1>1. \A i, j \in DOMAIN entries : entries[i].addr = entries[j].addr => i = j
  BY DEF IteratorsValid
<1>2. \A k \in Keys : index[k] # None =>
        \E i \in DOMAIN entries : entries[i].addr = index[k] /\ entries[i].key = k
  BY DEF IteratorsValid
<1>3. ASSUME NEW i \in DOMAIN entries PROVE At(entries[i].addr) = i
  BY <1>1 DEF At
<1>4. ASSUME NEW k \in Keys, index[k] # None
      PROVE  /\ At(index[k]) \in DOMAIN entries
             /\ entries[At(index[k])].addr = index[k]
             /\ entries[At(index[k])].key = k
  <2>1. PICK i \in DOMAIN entries : entries[i].addr = index[k] /\ entries[i].key = k
    BY <1>2, <1>4
  <2> QED
    BY <2>1, <1>3
<1> QED
  BY <1>3, <1>4

\* The nodes of the list are fewer than the addresses: one is free.
LEMMA FreeAddressProperties ==
  ASSUME TypeOK, Fits
  PROVE  /\ FreeAddress \in Addresses
         /\ \A i \in DOMAIN entries : entries[i].addr # FreeAddress
<1>0. /\ Len(entries) \in Nat
      /\ DOMAIN entries = 1..Len(entries)
      /\ \A i \in DOMAIN entries : entries[i] \in Node
  BY LenProperties, ElementOfSeq DEF TypeOK
<1>1. Capacity \in Nat /\ Len(entries) <= Capacity
  BY LruCacheAssumption DEF Fits
<1>2. \E a \in Addresses : \A i \in DOMAIN entries : entries[i].addr # a
  <2> SUFFICES ASSUME \A a \in Addresses : \E i \in DOMAIN entries : entries[i].addr = a
               PROVE  FALSE
    OBVIOUS
  <2> DEFINE f == [i \in 1..Len(entries) |-> entries[i].addr]
  <2>1. f \in [1..Len(entries) -> Addresses]
    BY <1>0 DEF Node
  <2>2. f \in Surjection(1..Len(entries), Addresses)
    BY <2>1, <1>0 DEF Surjection
  <2>3. ExistsSurjection(1..Len(entries), Addresses)
    BY <2>2 DEF ExistsSurjection
  <2>4. Cardinality(Addresses) <= Len(entries)
    BY <2>3, <1>0, FS_SurjCardinalityBound
  <2>5. Cardinality(Addresses) = Capacity + 1
    BY <1>1, FS_Interval DEF Addresses
  <2> QED
    BY <2>4, <2>5, <1>0, <1>1
<1> QED
  BY <1>2 DEF FreeAddress

\* What moving the node at position p to the front makes of the list.
LEMMA ToFrontProperties ==
  ASSUME TypeOK, NEW p \in DOMAIN entries, NEW v \in Values
  PROVE  /\ ToFront(p, v) \in Seq(Node)
         /\ Len(ToFront(p, v)) = Len(entries)
         /\ ToFront(p, v)[1] = [addr |-> entries[p].addr, key |-> entries[p].key, value |-> v]
         /\ \A j \in 2..Len(entries) :
              ToFront(p, v)[j] = IF j <= p THEN entries[j - 1] ELSE entries[j]
<1> DEFINE e == [entries[p] EXCEPT !.value = v]
           w == WithoutAt(entries, p)
           r == <<e>> \o w
<1>0. Len(entries) \in Nat /\ DOMAIN entries = 1..Len(entries) /\ entries[p] \in Node
  BY LenProperties, ElementOfSeq DEF TypeOK
<1>1. e \in Node /\ e = [addr |-> entries[p].addr, key |-> entries[p].key, value |-> v]
  BY <1>0 DEF Node
<1>2. /\ w \in Seq(Node)
      /\ Len(w) = Len(entries) - 1
      /\ \A j \in 1..(Len(entries) - 1) :
           w[j] = IF j < p THEN entries[j] ELSE entries[j + 1]
  BY <1>0, WithoutAtProperties DEF TypeOK
<1> HIDE DEF e, w
<1>3. /\ r \in Seq(Node)
      /\ Len(r) = Len(w) + 1
      /\ \A j \in 1..(Len(w) + 1) : r[j] = IF j = 1 THEN e ELSE w[j - 1]
  BY <1>1, <1>2, PushProperties
<1> HIDE DEF r
<1>4. Len(r) = Len(entries) /\ r[1] = e
  BY <1>0, <1>2, <1>3
<1>5. ASSUME NEW j \in 2..Len(entries)
      PROVE  r[j] = IF j <= p THEN entries[j - 1] ELSE entries[j]
  <2>1. r[j] = w[j - 1] /\ j - 1 \in 1..(Len(entries) - 1)
    BY <1>0, <1>2, <1>3
  <2>2. w[j - 1] = IF j - 1 < p THEN entries[j - 1] ELSE entries[(j - 1) + 1]
    BY <2>1, <1>2
  <2> QED
    BY <2>1, <2>2, <1>0
<1> QED
  BY <1>1, <1>3, <1>4, <1>5 DEF ToFront, e, w, r

-----------------------------------------------------------------------------
(* The inductive invariant. *)

\* An empty cache is consistent.
LEMMA InitInv == Init => Inv
<1> SUFFICES ASSUME Init PROVE Inv
  OBVIOUS
<1> USE DEF Init
<1>0. Capacity \in Nat
  BY LruCacheAssumption
<1>1. entries \in Seq(Node) /\ Len(entries) = 0 /\ DOMAIN entries = {}
  OBVIOUS
<1>2. TypeOK
  BY <1>1 DEF TypeOK
<1>3. IteratorsValid
  BY <1>1 DEF IteratorsValid
<1>4. Fits /\ InOrder
  BY <1>0, <1>1 DEF Fits, InOrder
<1> QED
  BY <1>2, <1>3, <1>4 DEF Inv

\* A get that finds its key, and a put of a cached key, move a node to the front.
LEMMA MoveInv ==
  ASSUME Inv, NEW k \in Keys, NEW v \in Values, index[k] # None,
         entries' = ToFront(At(index[k]), v), index' = index, Used(k)
  PROVE  entries' \in Seq(Node) /\ IteratorsValid' /\ Fits' /\ InOrder'
<1> DEFINE p == At(index[k])
<1>0. TypeOK /\ IteratorsValid /\ Fits /\ InOrder
  BY DEF Inv
<1>1. /\ Len(entries) \in Nat
      /\ DOMAIN entries = 1..Len(entries)
      /\ \A i \in DOMAIN entries : entries[i] \in Node
  BY <1>0, LenProperties, ElementOfSeq DEF TypeOK
<1>2. p \in 1..Len(entries) /\ entries[p].addr = index[k] /\ entries[p].key = k
  BY <1>0, <1>1, AtProperties
<1> HIDE DEF p
<1>3. /\ entries' \in Seq(Node)
      /\ Len(entries') = Len(entries)
      /\ entries'[1] = [addr |-> entries[p].addr, key |-> entries[p].key, value |-> v]
      /\ \A j \in 2..Len(entries) :
           entries'[j] = IF j <= p THEN entries[j - 1] ELSE entries[j]
  BY <1>0, <1>1, <1>2, ToFrontProperties DEF p
<1>4. DOMAIN entries' = 1..Len(entries)
  BY <1>3, LenProperties
<1> DEFINE from(j) == IF j = 1 THEN p ELSE IF j <= p THEN j - 1 ELSE j
<1>5. \A j \in 1..Len(entries) :
        /\ from(j) \in 1..Len(entries)
        /\ entries'[j].addr = entries[from(j)].addr
        /\ entries'[j].key = entries[from(j)].key
  BY <1>1, <1>2, <1>3
<1>6. \A i, j \in 1..Len(entries) :
        /\ from(i) = from(j) => i = j
        /\ from(j) = p <=> j = 1
        /\ i < j /\ i # 1 => from(i) < from(j)
  BY <1>1, <1>2
<1>7. \A i \in 1..Len(entries) : \E j \in 1..Len(entries) : from(j) = i
  <2> TAKE i \in 1..Len(entries)
  <2>1. CASE i = p
    BY <2>1, <1>1, <1>2
  <2>2. CASE i < p
    <3>1. i + 1 \in 1..Len(entries) /\ from(i + 1) = i
      BY <2>2, <1>1, <1>2
    <3> QED
      BY <3>1
  <2>3. CASE i > p
    BY <2>3, <1>1, <1>2
  <2> QED
    BY <2>1, <2>2, <2>3, <1>1, <1>2
<1> HIDE DEF from
<1>8. IteratorsValid'
  <2>1. ASSUME NEW x \in Keys, index'[x] # None
        PROVE  \E i \in DOMAIN entries' : entries'[i].addr = index'[x] /\ entries'[i].key = x
    <3>1. PICK i \in 1..Len(entries) : entries[i].addr = index[x] /\ entries[i].key = x
      BY <2>1, <1>0, <1>1 DEF IteratorsValid
    <3>2. PICK j \in 1..Len(entries) : from(j) = i
      BY <1>7
    <3> QED
      BY <3>1, <3>2, <1>4, <1>5
  <2>2. \A i \in DOMAIN entries' : index'[entries'[i].key] = entries'[i].addr
    BY <1>0, <1>1, <1>4, <1>5 DEF IteratorsValid
  <2>3. ASSUME NEW i \in DOMAIN entries', NEW j \in DOMAIN entries',
               entries'[i].addr = entries'[j].addr
        PROVE  i = j
    <3>1. entries[from(i)].addr = entries[from(j)].addr
      BY <2>3, <1>4, <1>5
    <3>2. from(i) \in DOMAIN entries /\ from(j) \in DOMAIN entries
      BY <1>1, <1>4, <1>5
    <3>3. from(i) = from(j)
      BY <3>1, <3>2, <1>0 DEF IteratorsValid
    <3> QED
      BY <3>3, <1>4, <1>6
  <2> QED
    BY <2>1, <2>2, <2>3 DEF IteratorsValid
<1>9. InOrder'
  <2>0. clock \in Nat /\ lastUse \in [Keys -> Nat]
        /\ clock' = clock + 1 /\ lastUse' = [lastUse EXCEPT ![k] = clock + 1]
    BY <1>0 DEF TypeOK, Used
  <2>1. \A x \in Keys : lastUse'[x] <= clock'
    BY <2>0, <1>0 DEF InOrder
  <2>2. ASSUME NEW i \in 1..Len(entries), NEW j \in 1..Len(entries), i < j
        PROVE  lastUse'[entries'[j].key] < lastUse'[entries'[i].key]
    <3>1. /\ from(j) # p /\ from(j) \in 1..Len(entries) /\ from(i) \in 1..Len(entries)
          /\ entries'[i].key = entries[from(i)].key
          /\ entries'[j].key = entries[from(j)].key
      BY <2>2, <1>1, <1>5, <1>6
    <3>2. \A m \in 1..Len(entries) : entries[m].key \in Keys /\ (entries[m].key = k <=> m = p)
      BY <1>0, <1>1, <1>2 DEF IteratorsValid, Node
    <3>3. lastUse'[entries'[j].key] = lastUse[entries[from(j)].key]
      BY <3>1, <3>2, <2>0
    <3>4. CASE i = 1
      <4>1. entries'[i].key = k
        BY <3>4, <1>3, <1>2
      <4>2. lastUse'[entries'[i].key] = clock + 1
        BY <4>1, <2>0
      <4> QED
        BY <4>2, <3>1, <3>2, <3>3, <2>0, <1>0 DEF InOrder
    <3>5. CASE i # 1
      <4>1. lastUse'[entries'[i].key] = lastUse[entries[from(i)].key]
        BY <3>5, <3>1, <3>2, <2>0, <1>6
      <4>2. from(i) < from(j)
        BY <3>5, <2>2, <1>6
      <4> QED
        BY <4>1, <4>2, <3>1, <3>3, <1>0, <1>1 DEF InOrder
    <3> QED
      BY <3>4, <3>5
  <2> QED
    BY <2>1, <2>2, <1>4 DEF InOrder
<1> QED
  BY <1>0, <1>3, <1>8, <1>9 DEF Fits

\* What a put of a new key does, to the list and to the map: the node is in front,
\* and of the old ones the last is missing when there are too many.
LEMMA PutNewEffect ==
  ASSUME Inv, NEW k \in Keys, NEW v \in Values, PutNew(k, v)
  PROVE  LET n == Len(entries)
             new == [addr |-> FreeAddress, key |-> k, value |-> v]
             full == n = Capacity
             kept == IF full THEN n - 1 ELSE n
         IN /\ Capacity > 0 /\ n \in Nat /\ n <= Capacity
            /\ new \in Node
            /\ entries' \in Seq(Node)
            /\ Len(entries') = kept + 1
            /\ entries'[1] = new
            /\ \A j \in 2..(kept + 1) : entries'[j] = entries[j - 1]
            /\ index' \in [Keys -> Addresses \cup {None}]
            /\ \A x \in Keys : index'[x] =
                 IF x = k THEN new.addr
                 ELSE IF full /\ x = entries[n].key THEN None ELSE index[x]
            /\ full => n \in 1..n /\ entries[n].key # k /\ entries[n].key \in Keys
<1> DEFINE n == Len(entries)
           new == [addr |-> FreeAddress, key |-> k, value |-> v]
           all == <<new>> \o entries
           added == [index EXCEPT ![k] = new.addr]
<1>0. TypeOK /\ IteratorsValid /\ Fits /\ index[k] = None
  BY DEF Inv, PutNew
<1>1. Capacity \in Nat /\ Capacity > 0 /\ n \in Nat /\ n <= Capacity
  <2>1. Capacity \in Nat /\ Capacity # 0
    BY LruCacheAssumption DEF PutNew
  <2>2. n \in Nat /\ n <= Capacity
    BY <1>0, LenProperties DEF TypeOK, Fits
  <2> QED
    BY <2>1, <2>2
<1>2. FreeAddress \in Addresses
  BY <1>0, FreeAddressProperties
<1>3. new \in Node /\ new.addr = FreeAddress
  BY <1>2 DEF Node
<1>4. entries \in Seq(Node)
  BY <1>0 DEF TypeOK
<1> HIDE DEF new
<1>5. /\ all \in Seq(Node)
      /\ Len(all) = n + 1
      /\ \A j \in 1..(n + 1) : all[j] = IF j = 1 THEN new ELSE entries[j - 1]
  BY <1>3, <1>4, PushProperties
<1>6. added \in [Keys -> Addresses \cup {None}]
      /\ \A x \in Keys : added[x] = IF x = k THEN new.addr ELSE index[x]
  <2>1. index \in [Keys -> Addresses \cup {None}]
    BY <1>0 DEF TypeOK
  <2> QED
    BY <2>1, <1>2, <1>3
<1>7. IF Len(all) > Capacity
      THEN /\ index' = [added EXCEPT ![all[Len(all)].key] = None]
           /\ entries' = WithoutAt(all, Len(all))
      ELSE /\ index' = added
           /\ entries' = all
  BY DEF PutNew, new
<1> HIDE DEF all, added
<1>8. CASE n = Capacity
  <2>1. Len(all) > Capacity /\ n \in 1..n /\ Len(all) \in 1..Len(all) /\ Len(all) = n + 1
    BY <1>8, <1>1, <1>5
  <2>2. all[Len(all)] = entries[n]
    BY <2>1, <1>1, <1>5
  <2>3. entries[n] \in Node /\ n \in DOMAIN entries
    BY <2>1, <1>4, LenProperties, ElementOfSeq
  <2>4. entries[n].key # k /\ entries[n].key \in Keys
    <3>1. index[entries[n].key] = entries[n].addr /\ entries[n].addr # None
      BY <2>3, <1>0, NoneIsNoIterator DEF IteratorsValid, Node
    <3> QED
      BY <3>1, <2>3, <1>0 DEF Node
  <2>5. /\ entries' \in Seq(Node)
        /\ Len(entries') = Len(all) - 1
        /\ \A j \in 1..(Len(all) - 1) :
             entries'[j] = IF j < Len(all) THEN all[j] ELSE all[j + 1]
    <3>1. entries' = WithoutAt(all, Len(all))
      BY <2>1, <1>7
    <3> QED
      BY <3>1, <2>1, <1>5, WithoutAtProperties
  <2>6. Len(entries') = n /\ \A j \in 1..n : entries'[j] = all[j]
    BY <2>1, <2>5, <1>1
  <2>7. entries'[1] = new /\ \A j \in 2..n : entries'[j] = entries[j - 1]
    BY <2>1, <2>6, <1>1, <1>5
  <2>8. index' = [added EXCEPT ![entries[n].key] = None]
    BY <2>1, <2>2, <1>7
  <2>9. index' \in [Keys -> Addresses \cup {None}]
        /\ \A x \in Keys : index'[x] =
             IF x = k THEN new.addr ELSE IF x = entries[n].key THEN None ELSE index[x]
    BY <2>4, <2>8, <1>6
  <2> QED
    BY <2>1, <2>4, <2>5, <2>6, <2>7, <2>9, <1>1, <1>3, <1>8 DEF new
<1>9. CASE n # Capacity
  <2>1. entries' = all /\ index' = added
    BY <1>9, <1>1, <1>5, <1>7
  <2>2. entries'[1] = new /\ \A j \in 2..(n + 1) : entries'[j] = entries[j - 1]
    BY <2>1, <1>1, <1>5
  <2> QED
    BY <2>1, <2>2, <1>1, <1>3, <1>5, <1>6, <1>9 DEF new
<1> QED
  BY <1>8, <1>9

\* A put of a new key, with or without an eviction.
LEMMA PutNewInv ==
  ASSUME Inv, NEW k \in Keys, NEW v \in Values, PutNew(k, v)
  PROVE  Inv'
<1> DEFINE n == Len(entries)
           new == [addr |-> FreeAddress, key |-> k, value |-> v]
           full == n = Capacity
           kept == IF full THEN n - 1 ELSE n
<1>0. TypeOK /\ IteratorsValid /\ Fits /\ InOrder /\ index[k] = None
  BY DEF Inv, PutNew
<1>1. /\ Capacity > 0 /\ n \in Nat /\ n <= Capacity
      /\ new \in Node
      /\ entries' \in Seq(Node)
      /\ Len(entries') = kept + 1
      /\ entries'[1] = new
      /\ \A j \in 2..(kept + 1) : entries'[j] = entries[j - 1]
      /\ index' \in [Keys -> Addresses \cup {None}]
      /\ \A x \in Keys : index'[x] =
           IF x = k THEN new.addr
           ELSE IF full /\ x = entries[n].key THEN None ELSE index[x]
      /\ full => n \in 1..n /\ entries[n].key # k /\ entries[n].key \in Keys
  BY PutNewEffect
<1>2. /\ \A i \in 1..n : entries[i] \in Node /\ entries[i].addr # new.addr
      /\ DOMAIN entries = 1..n
      /\ DOMAIN entries' = 1..(kept + 1)
  <2>1. entries \in Seq(Node)
    BY <1>0 DEF TypeOK
  <2> QED
    BY <2>1, <1>0, <1>1, FreeAddressProperties, LenProperties, ElementOfSeq
<1>3. /\ new.addr \in Addresses /\ new.addr # None /\ new.key = k /\ new.addr = FreeAddress
  BY <1>1, NoneIsNoIterator DEF Node
<1> HIDE DEF new
<1>4. kept \in 0..n /\ kept \in Nat /\ kept + 1 <= Capacity /\ Capacity \in Nat
  BY <1>1, LruCacheAssumption
<1>5. \A i, j \in 1..n : entries[i].key = entries[j].key => i = j
  BY <1>0, <1>2 DEF IteratorsValid
<1>6. \A i \in 1..n : entries[i].key # k /\ entries[i].key \in Keys
  <2> TAKE i \in 1..n
  <2>1. index[entries[i].key] = entries[i].addr /\ entries[i].addr # None
    BY <1>0, <1>2, NoneIsNoIterator DEF IteratorsValid, Node
  <2> QED
    BY <2>1, <1>0, <1>2 DEF Node
<1>7. ASSUME NEW j \in 1..kept
      PROVE  /\ j \in 1..n /\ entries'[j + 1] = entries[j]
             /\ index'[entries[j].key] = entries[j].addr
  <2>1. j \in 1..n /\ j + 1 \in 2..(kept + 1) /\ (full => j # n)
    BY <1>1, <1>4
  <2>2. full => entries[j].key # entries[n].key
    BY <2>1, <1>1, <1>5
  <2>3. index'[entries[j].key] = index[entries[j].key]
    BY <2>1, <2>2, <1>1, <1>6
  <2>4. index[entries[j].key] = entries[j].addr
    BY <2>1, <1>0, <1>2 DEF IteratorsValid
  <2>5. entries'[j + 1] = entries[(j + 1) - 1] /\ (j + 1) - 1 = j
    BY <2>1, <1>1
  <2> QED
    BY <2>1, <2>3, <2>4, <2>5
<1>8. \A i \in 1..(kept + 1) : i = 1 \/ \E j \in 1..kept : i = j + 1
  <2> TAKE i \in 1..(kept + 1)
  <2>1. CASE i # 1
    <3>1. i - 1 \in 1..kept /\ i = (i - 1) + 1
      BY <2>1, <1>4
    <3> QED
      BY <3>1
  <2> QED
    BY <2>1
<1> HIDE DEF kept, n, full
<1>9. IteratorsValid'
  <2>1. ASSUME NEW x \in Keys, index'[x] # None
        PROVE  \E i \in DOMAIN entries' : entries'[i].addr = index'[x] /\ entries'[i].key = x
    <3>1. CASE x = k
      BY <3>1, <1>1, <1>2, <1>3, <1>4
    <3>2. CASE x # k
      <4>1. index'[x] = index[x] /\ ~(full /\ x = entries[n].key)
        BY <3>2, <2>1, <1>1
      <4>2. PICK i \in 1..n : entries[i].addr = index[x] /\ entries[i].key = x
        BY <4>1, <2>1, <1>0, <1>2 DEF IteratorsValid
      <4>3. i \in 1..kept
        BY <4>1, <4>2, <1>1 DEF kept, full
      <4>4. i + 1 \in 1..(kept + 1)
        BY <4>3, <1>4
      <4> QED
        BY <4>1, <4>2, <4>3, <4>4, <1>2, <1>7
    <3> QED
      BY <3>1, <3>2
  <2>2. \A i \in DOMAIN entries' : index'[entries'[i].key] = entries'[i].addr
    BY <1>1, <1>2, <1>3, <1>7, <1>8
  <2>3. \A i, j \in DOMAIN entries' : entries'[i].addr = entries'[j].addr => i = j
    <3>1. entries'[1].addr = new.addr
      BY <1>1
    <3>2. \A i \in 1..kept : entries'[i + 1].addr # new.addr
      BY <1>2, <1>7
    <3>3. \A i, j \in 1..kept : entries'[i + 1].addr = entries'[j + 1].addr => i = j
      BY <1>0, <1>2, <1>7 DEF IteratorsValid
    <3> QED
      BY <3>1, <3>2, <3>3, <1>2, <1>8
  <2> QED
    BY <2>1, <2>2, <2>3 DEF IteratorsValid
<1>10. TypeOK' /\ clock' = clock + 1 /\ lastUse' = [lastUse EXCEPT ![k] = clock + 1]
  <2>1. /\ hits' \in Nat /\ misses' \in Nat /\ evictions' \in Nat
        /\ clock' = clock + 1 /\ lastUse' = [lastUse EXCEPT ![k] = clock + 1]
    BY <1>0 DEF PutNew, Used, TypeOK
  <2>2. lastUse' \in [Keys -> Nat] /\ clock' \in Nat
    BY <2>1, <1>0 DEF TypeOK
  <2> QED
    BY <2>1, <2>2, <1>1 DEF TypeOK
<1>11. Fits'
  BY <1>1, <1>4 DEF Fits
<1>12. InOrder'
  <2>0. clock \in Nat /\ lastUse \in [Keys -> Nat] /\ \A x \in Keys : lastUse[x] <= clock
    BY <1>0 DEF TypeOK, InOrder
  <2>1. \A x \in Keys : lastUse'[x] <= clock'
    BY <2>0, <1>10
  <2>2. ASSUME NEW i \in 1..(kept + 1), NEW j \in 1..(kept + 1), i < j
        PROVE  lastUse'[entries'[j].key] < lastUse'[entries'[i].key]
    <3>1. PICK m \in 1..kept : j = m + 1
      BY <2>2, <1>4, <1>8
    <3>2. lastUse'[entries'[j].key] = lastUse[entries[m].key] /\ entries[m].key \in Keys
      BY <3>1, <2>0, <1>6, <1>7, <1>10
    <3>3. CASE i = 1
      <4>1. lastUse'[entries'[i].key] = clock + 1
        BY <3>3, <2>0, <1>1, <1>3, <1>10
      <4> QED
        BY <4>1, <3>2, <2>0
    <3>4. CASE i # 1
      <4>1. PICK l \in 1..kept : i = l + 1
        BY <3>4, <1>8
      <4>2. lastUse'[entries'[i].key] = lastUse[entries[l].key]
        BY <4>1, <2>0, <1>6, <1>7, <1>10
      <4>3. l < m /\ l \in 1..n /\ m \in 1..n
        BY <4>1, <3>1, <2>2, <1>7
      <4> QED
        BY <4>2, <4>3, <3>2, <1>0, <1>2 DEF InOrder
    <3> QED
      BY <3>3, <3>4
  <2> QED
    BY <2>1, <2>2, <1>2 DEF InOrder
<1> QED
  BY <1>9, <1>10, <1>11, <1>12 DEF Inv

\* An erase takes the node and the iterator of the same key.
LEMMA EraseInv ==
  ASSUME Inv, NEW k \in Keys, Erase(k)
  PROVE  Inv'
<1> DEFINE p == At(index[k])
           n == Len(entries)
<1>0. TypeOK /\ IteratorsValid /\ Fits /\ InOrder /\ index[k] # None
  BY DEF Inv, Erase
<1>1. /\ n \in Nat
      /\ DOMAIN entries = 1..n
      /\ \A i \in 1..n : entries[i] \in Node
      /\ entries \in Seq(Node)
  BY <1>0, LenProperties, ElementOfSeq DEF TypeOK
<1>2. p \in 1..n /\ entries[p].addr = index[k] /\ entries[p].key = k
  BY <1>0, <1>1, AtProperties
<1>3. /\ entries' \in Seq(Node)
      /\ Len(entries') = n - 1
      /\ \A j \in 1..(n - 1) : entries'[j] = IF j < p THEN entries[j] ELSE entries[j + 1]
  <2>1. entries' = WithoutAt(entries, p)
    BY DEF Erase
  <2> QED
    BY <2>1, <1>1, <1>2, WithoutAtProperties
<1>4. DOMAIN entries' = 1..(n - 1)
  BY <1>3, LenProperties
<1> HIDE DEF p, n
<1> DEFINE from(j) == IF j < p THEN j ELSE j + 1
<1>5. \A j \in 1..(n - 1) :
        from(j) \in 1..n /\ from(j) # p /\ entries'[j] = entries[from(j)]
  BY <1>1, <1>2, <1>3
<1>6. \A i, j \in 1..(n - 1) :
        (from(i) = from(j) => i = j) /\ (i < j => from(i) < from(j))
  BY <1>1, <1>2
<1>7. \A i \in 1..n : i # p => \E j \in 1..(n - 1) : from(j) = i
  <2> TAKE i \in 1..n
  <2>1. CASE i < p
    BY <2>1, <1>1, <1>2
  <2>2. CASE i > p
    <3>1. i - 1 \in 1..(n - 1) /\ from(i - 1) = i
      BY <2>2, <1>1, <1>2
    <3> QED
      BY <3>1
  <2> QED
    BY <2>1, <2>2, <1>1, <1>2
<1> HIDE DEF from
<1>8. index' \in [Keys -> Addresses \cup {None}]
      /\ \A x \in Keys : index'[x] = IF x = k THEN None ELSE index[x]
  BY <1>0 DEF TypeOK, Erase
<1>9. \A i \in 1..n : entries[i].key \in Keys /\ (entries[i].key = k => i = p)
  BY <1>0, <1>1, <1>2 DEF IteratorsValid, Node
<1>10. IteratorsValid'
  <2>1. ASSUME NEW x \in Keys, index'[x] # None
        PROVE  \E i \in DOMAIN entries' : entries'[i].addr = index'[x] /\ entries'[i].key = x
    <3>1. x # k /\ index'[x] = index[x]
      BY <2>1, <1>8
    <3>2. PICK i \in 1..n : entries[i].addr = index[x] /\ entries[i].key = x
      BY <3>1, <2>1, <1>0, <1>1 DEF IteratorsValid
    <3>3. PICK j \in 1..(n - 1) : from(j) = i
      BY <3>1, <3>2, <1>2, <1>7
    <3> QED
      BY <3>1, <3>2, <3>3, <1>4, <1>5
  <2>2. \A i \in DOMAIN entries' : index'[entries'[i].key] = entries'[i].addr
    BY <1>0, <1>1, <1>4, <1>5, <1>8, <1>9 DEF IteratorsValid
  <2>3. ASSUME NEW i \in DOMAIN entries', NEW j \in DOMAIN entries',
               entries'[i].addr = entries'[j].addr
        PROVE  i = j
    <3>1. entries[from(i)].addr = entries[from(j)].addr
      BY <2>3, <1>4, <1>5
    <3>2. from(i) \in DOMAIN entries /\ from(j) \in DOMAIN entries
      BY <1>1, <1>4, <1>5
    <3>3. from(i) = from(j)
      BY <3>1, <3>2, <1>0 DEF IteratorsValid
    <3> QED
      BY <3>3, <1>4, <1>6
  <2> QED
    BY <2>1, <2>2, <2>3 DEF IteratorsValid
<1>11. InOrder'
  <2>1. lastUse' = lastUse /\ clock' = clock
    BY DEF Erase, history
  <2> QED
    BY <2>1, <1>0, <1>1, <1>4, <1>5, <1>6 DEF InOrder
<1>12. Fits'
  BY <1>0, <1>1, <1>3, LruCacheAssumption DEF Fits, n
<1>13. TypeOK'
  BY <1>0, <1>3, <1>8 DEF TypeOK, Erase, history
<1> QED
  BY <1>10, <1>11, <1>12, <1>13 DEF Inv

\* Every step keeps the list, the map and the order of uses together.
LEMMA NextInv == Inv /\ [Next]_vars => Inv'
<1> SUFFICES ASSUME Inv, [Next]_vars PROVE Inv'
  OBVIOUS
<1>0. TypeOK /\ IteratorsValid /\ Fits /\ InOrder
  BY DEF Inv
<1>1. CASE UNCHANGED vars
  BY <1>1 DEF vars, Inv, TypeOK, IteratorsValid, Fits, InOrder
<1>2. ASSUME NEW k \in Keys, GetHit(k) PROVE Inv'
  <2> DEFINE v == entries[At(index[k])].value
  <2>1. index[k] # None /\ entries' = ToFront(At(index[k]), v) /\ index' = index /\ Used(k)
    BY <1>2 DEF GetHit
  <2>2. v \in Values
    <3>1. At(index[k]) \in DOMAIN entries
      BY <2>1, <1>0, AtProperties
    <3>2. entries[At(index[k])] \in Node
      BY <3>1, <1>0, LenProperties, ElementOfSeq DEF TypeOK
    <3> QED
      BY <3>2 DEF Node
  <2> HIDE DEF v
  <2>3. entries' \in Seq(Node) /\ IteratorsValid' /\ Fits' /\ InOrder'
    BY <2>1, <2>2, MoveInv
  <2>4. TypeOK'
    BY <2>1, <2>3, <1>0, <1>2 DEF TypeOK, GetHit, Used
  <2> QED
    BY <2>3, <2>4 DEF Inv
<1>3. ASSUME NEW k \in Keys, GetMiss(k) PROVE Inv'
  BY <1>3, <1>0 DEF GetMiss, history, Inv, TypeOK, IteratorsValid, Fits, InOrder
<1>4. ASSUME NEW k \in Keys, Erase(k) PROVE Inv'
  BY <1>4, EraseInv
<1>5. ASSUME NEW k \in Keys, NEW v \in Values, PutExisting(k, v) PROVE Inv'
  <2>1. index[k] # None /\ entries' = ToFront(At(index[k]), v) /\ index' = index /\ Used(k)
    BY <1>5 DEF PutExisting
  <2>2. entries' \in Seq(Node) /\ IteratorsValid' /\ Fits' /\ InOrder'
    BY <2>1, MoveInv
  <2>3. TypeOK'
    BY <2>1, <2>2, <1>0, <1>5 DEF TypeOK, PutExisting, Used
  <2> QED
    BY <2>2, <2>3 DEF Inv
<1>6. ASSUME NEW k \in Keys, NEW v \in Values, PutNew(k, v) PROVE Inv'
  BY <1>6, PutNewInv
<1>7. CASE Clear
  <2>1. entries' \in Seq(Node) /\ Len(entries') = 0 /\ DOMAIN entries' = {}
    BY <1>7 DEF Clear
  <2>2. TypeOK'
    BY <2>1, <1>0, <1>7 DEF TypeOK, Clear, history
  <2>3. IteratorsValid' /\ InOrder'
    BY <2>1, <1>0, <1>7 DEF IteratorsValid, InOrder, Clear, history
  <2>4. Fits'
    BY <2>1, LruCacheAssumption DEF Fits
  <2> QED
    BY <2>2, <2>3, <2>4 DEF Inv
<1> QED
  BY <1>1, <1>2, <1>3, <1>4, <1>5, <1>6, <1>7 DEF Next

\* The invariant holds in every reachable state.
THEOREM Invariance == Spec => []Inv
  BY InitInv, NextInv, PTL DEF Spec

\* The list holds nodes, and the map iterators, of the types the header gives them.
THEOREM TypeCorrect == Spec => []TypeOK
<1>1. Inv => TypeOK
  BY DEF Inv
<1> QED
  BY <1>1, Invariance, PTL

\* Whatever the calls of get, put, erase and clear, no iterator in the map designates
\* a node that was erased, or another key's, and none is missing.
THEOREM IteratorsStayValid == Spec => []IteratorsValid
<1>1. Inv => IteratorsValid
  BY DEF Inv
<1> QED
  BY <1>1, Invariance, PTL

-----------------------------------------------------------------------------
(* The refinement. *)

\* What the cache holds, read off the list: the keys of its nodes are the cached
\* keys, and each has the value of its node.
ListHoldsContents ==
  /\ Contents \in [Keys -> Values \cup {None}]
  /\ \A i \in DOMAIN entries :
       /\ Contents[entries[i].key] = entries[i].value
       /\ entries[i].key \in Keys /\ entries[i].value \in Values
  /\ \A k \in Keys : Contents[k] = None <=> index[k] = None
  /\ \A k \in Keys : Contents[k] # None => \E i \in DOMAIN entries : entries[i].key = k

\* The list holds what get finds.
LEMMA ContentsProperties == Inv => ListHoldsContents
<1> SUFFICES ASSUME Inv PROVE ListHoldsContents
  OBVIOUS
<1>0. TypeOK /\ IteratorsValid
  BY DEF Inv
<1>1. \A i \in DOMAIN entries : entries[i] \in Node
  BY <1>0, LenProperties, ElementOfSeq DEF TypeOK
<1>2. \A i \in DOMAIN entries :
        /\ entries[i].key \in Keys /\ entries[i].value \in Values
        /\ entries[i].addr # None
  BY <1>1, NoneIsNoIterator DEF Node
<1>3. ASSUME NEW k \in Keys, index[k] # None
      PROVE  Contents[k] = entries[At(index[k])].value /\ Contents[k] \in Values
  <2>1. At(index[k]) \in DOMAIN entries
    BY <1>3, <1>0, AtProperties
  <2> QED
    BY <2>1, <1>2, <1>3 DEF Contents
<1>4. ASSUME NEW k \in Keys, index[k] = None PROVE Contents[k] = None
  BY <1>4 DEF Contents
<1>5. ASSUME NEW i \in DOMAIN entries PROVE Contents[entries[i].key] = entries[i].value
  <2>1. At(entries[i].addr) = i
    BY <1>0, AtProperties
  <2>2. index[entries[i].key] = entries[i].addr
    BY <1>0 DEF IteratorsValid
  <2> QED
    BY <2>1, <2>2, <1>2, <1>3
<1>6. Contents \in [Keys -> Values \cup {None}]
  <2>1. \A k \in Keys : Contents[k] \in Values \cup {None}
    BY <1>3, <1>4
  <2>2. Contents = [k \in Keys |-> Contents[k]]
    BY DEF Contents
  <2> QED
    BY <2>1, <2>2
<1>7. \A k \in Keys : index[k] # None => \E i \in DOMAIN entries : entries[i].key = k
  BY <1>0 DEF IteratorsValid
<1> QED
  BY <1>2, <1>3, <1>4, <1>5, <1>6, <1>7, LruCacheAssumption DEF ListHoldsContents

\* The abstract cache holds as many keys as the list has nodes.
LEMMA CachedCount ==
  ASSUME Inv
  PROVE  Recency!Cardinality(Recency!Cached) = Len(entries)
<1> DEFINE f == [i \in 1..Len(entries) |-> entries[i].key]
<1>0. TypeOK /\ IteratorsValid /\ ListHoldsContents
  BY ContentsProperties DEF Inv
<1>1. Len(entries) \in Nat /\ DOMAIN entries = 1..Len(entries)
  BY <1>0, LenProperties DEF TypeOK
<1>2. \A i \in 1..Len(entries) : entries[i].key \in Recency!Cached
  BY <1>0, <1>1, LruCacheAssumption DEF ListHoldsContents, Recency!Cached
<1>3. \A i, j \in 1..Len(entries) : entries[i].key = entries[j].key => i = j
  BY <1>0, <1>1 DEF IteratorsValid
<1>4. \A k \in Recency!Cached : \E i \in 1..Len(entries) : entries[i].key = k
  BY <1>0, <1>1 DEF ListHoldsContents, Recency!Cached
<1>5. f \in Bijection(1..Len(entries), Recency!Cached)
  BY <1>2, <1>3, <1>4 DEF Bijection, Injection, Surjection, IsInjective
<1>6. ExistsBijection(1..Len(entries), Recency!Cached)
  BY <1>5 DEF ExistsBijection
<1>7. \A n \in Nat : IsFiniteSet(1..n) /\ Cardinality(1..n) = n
  <2> TAKE n \in Nat
  <2>1. IsFiniteSet(1..n) /\ Cardinality(1..n) = (IF 1 > n THEN 0 ELSE n - 1 + 1)
    BY FS_Interval
  <2> QED
    BY <2>1
<1>8. Cardinality(Recency!Cached) = Len(entries)
  BY <1>1, <1>6, <1>7, FS_Bijection
<1>9. Recency!Cardinality(Recency!Cached) = Cardinality(Recency!Cached)
  BY DEF Cardinality, Recency!Cardinality
<1> QED
  BY <1>8, <1>9

\* Moving a node to the front changes no value but the one it is given.
LEMMA MoveContents ==
  ASSUME Inv, Inv', NEW k \in Keys, NEW v \in Values, index[k] # None,
         entries' = ToFront(At(index[k]), v), index' = index
  PROVE  Contents' = [Contents EXCEPT ![k] = v]
<1> DEFINE p == At(index[k])
           n == Len(entries)
<1>0. TypeOK /\ IteratorsValid /\ ListHoldsContents /\ ListHoldsContents'
  BY ContentsProperties, PTL DEF Inv
<1>1. n \in Nat /\ DOMAIN entries = 1..n
  BY <1>0, LenProperties DEF TypeOK
<1>2. p \in 1..n /\ entries[p].key = k
  BY <1>0, <1>1, AtProperties
<1> HIDE DEF p
<1>3. /\ entries' \in Seq(Node)
      /\ Len(entries') = n
      /\ entries'[1] = [addr |-> entries[p].addr, key |-> entries[p].key, value |-> v]
      /\ \A j \in 2..n : entries'[j] = IF j <= p THEN entries[j - 1] ELSE entries[j]
  BY <1>0, <1>1, <1>2, ToFrontProperties DEF p
<1>4. DOMAIN entries' = 1..n
  BY <1>3, LenProperties
<1> HIDE DEF n
<1>5. Contents'[k] = v
  <2>1. 1 \in DOMAIN entries' /\ entries'[1].key = k /\ entries'[1].value = v
    BY <1>1, <1>2, <1>3, <1>4
  <2> QED
    BY <2>1, <1>0 DEF ListHoldsContents
<1>6. ASSUME NEW x \in Keys, x # k PROVE Contents'[x] = Contents[x]
  <2>1. CASE index[x] = None
    BY <2>1, <1>0 DEF ListHoldsContents
  <2>2. CASE index[x] # None
    <3>1. PICK i \in 1..n : entries[i].key = x
      BY <2>2, <1>0, <1>1 DEF ListHoldsContents
    <3>2. \E j \in 1..n : entries'[j] = entries[i]
      <4>1. CASE i < p
        <5>1. i + 1 \in 2..n /\ i + 1 <= p /\ (i + 1) - 1 = i
          BY <4>1, <1>1, <1>2
        <5>2. entries'[i + 1] = entries[i]
          BY <5>1, <1>3
        <5> QED
          BY <5>1, <5>2
      <4>2. CASE i > p
        BY <4>2, <1>1, <1>2, <1>3
      <4> QED
        BY <4>1, <4>2, <3>1, <1>1, <1>2, <1>6
    <3> QED
      BY <3>1, <3>2, <1>0, <1>1, <1>4 DEF ListHoldsContents
  <2> QED
    BY <2>1, <2>2
<1>7. Contents \in [Keys -> Values \cup {None}] /\ Contents' \in [Keys -> Values \cup {None}]
  BY <1>0 DEF ListHoldsContents
<1> QED
  BY <1>5, <1>6, <1>7

\* What a put of a new key makes of the contents.
LEMMA PutNewContents ==
  ASSUME Inv, Inv', NEW k \in Keys, NEW v \in Values, PutNew(k, v)
  PROVE  LET n == Len(entries) IN
         IF n = Capacity
         THEN Contents' = [Contents EXCEPT ![k] = v, ![entries[n].key] = None]
         ELSE Contents' = [Contents EXCEPT ![k] = v]
<1> DEFINE n == Len(entries)
           new == [addr |-> FreeAddress, key |-> k, value |-> v]
           full == n = Capacity
           kept == IF full THEN n - 1 ELSE n
<1>0. TypeOK /\ IteratorsValid /\ ListHoldsContents /\ ListHoldsContents'
  BY ContentsProperties, PTL DEF Inv
<1>1. /\ Capacity > 0 /\ n \in Nat /\ n <= Capacity
      /\ entries' \in Seq(Node)
      /\ Len(entries') = kept + 1
      /\ entries'[1] = new
      /\ \A j \in 2..(kept + 1) : entries'[j] = entries[j - 1]
      /\ \A x \in Keys : index'[x] =
           IF x = k THEN new.addr
           ELSE IF full /\ x = entries[n].key THEN None ELSE index[x]
      /\ full => n \in 1..n /\ entries[n].key # k /\ entries[n].key \in Keys
  BY PutNewEffect
<1>2. DOMAIN entries = 1..n /\ DOMAIN entries' = 1..(kept + 1)
  BY <1>0, <1>1, LenProperties DEF TypeOK
<1>3. kept \in Nat /\ new.key = k /\ new.value = v
  BY <1>1
<1> HIDE DEF n, new
<1>4. Contents'[k] = v
  <2>1. 1 \in DOMAIN entries'
    BY <1>2, <1>3
  <2> QED
    BY <2>1, <1>0, <1>1, <1>3 DEF ListHoldsContents
<1>5. ASSUME NEW x \in Keys, x # k
      PROVE  Contents'[x] = IF full /\ x = entries[n].key THEN None ELSE Contents[x]
  <2>1. CASE full /\ x = entries[n].key
    BY <2>1, <1>0, <1>1, <1>5 DEF ListHoldsContents
  <2>2. CASE ~(full /\ x = entries[n].key)
    <3>1. index'[x] = index[x]
      BY <2>2, <1>1, <1>5
    <3>2. CASE index[x] = None
      BY <3>1, <3>2, <2>2, <1>0 DEF ListHoldsContents
    <3>3. CASE index[x] # None
      <4>1. PICK i \in 1..n : entries[i].key = x
        BY <3>3, <1>0, <1>2 DEF ListHoldsContents
      <4>2. i \in 1..kept
        BY <4>1, <2>2, <1>1
      <4>3. i + 1 \in 2..(kept + 1) /\ (i + 1) - 1 = i /\ i + 1 \in 1..(kept + 1)
        BY <4>2, <1>3
      <4>4. entries'[i + 1] = entries[i]
        BY <4>3, <1>1
      <4> QED
        BY <4>1, <4>3, <4>4, <2>2, <1>0, <1>2 DEF ListHoldsContents
    <3> QED
      BY <3>2, <3>3
  <2> QED
    BY <2>1, <2>2
<1>6. Contents \in [Keys -> Values \cup {None}] /\ Contents' \in [Keys -> Values \cup {None}]
  BY <1>0 DEF ListHoldsContents
<1>7. CASE full
  <2>1. Contents' = [Contents EXCEPT ![k] = v, ![entries[n].key] = None]
    BY <1>1, <1>4, <1>5, <1>6, <1>7
  <2> QED
    BY <2>1, <1>7 DEF n
<1>8. CASE ~full
  <2>1. Contents' = [Contents EXCEPT ![k] = v]
    BY <1>4, <1>5, <1>6, <1>8
  <2> QED
    BY <2>1, <1>8 DEF n
<1> QED
  BY <1>7, <1>8

\* Every step of the list and the map is a step of the abstract cache, or none.
LEMMA NextRefines == Inv /\ Inv' /\ [Next]_vars => [Recency!Next]_(Recency!vars)
<1> SUFFICES ASSUME Inv, Inv', [Next]_vars
             PROVE  [Recency!Next]_(Recency!vars)
  OBVIOUS
<1>0. TypeOK /\ IteratorsValid /\ InOrder /\ Fits /\ ListHoldsContents /\ ListHoldsContents'
  BY ContentsProperties, PTL DEF Inv
<1>1. Contents \in [Keys -> Values \cup {None}] /\ Contents' \in [Keys -> Values \cup {None}]
  BY <1>0 DEF ListHoldsContents
<1>2. CASE UNCHANGED <<entries, index, lastUse, clock>>
  <2>1. Contents' = Contents
    BY <1>2 DEF Contents, At
  <2> QED
    BY <2>1, <1>2 DEF Recency!vars
<1>3. ASSUME NEW k \in Keys, GetHit(k) PROVE Recency!Next
  <2> DEFINE v == entries[At(index[k])].value
  <2>1. index[k] # None /\ entries' = ToFront(At(index[k]), v) /\ index' = index /\ Used(k)
    BY <1>3 DEF GetHit
  <2>2. At(index[k]) \in DOMAIN entries /\ entries[At(index[k])].key = k
    BY <2>1, <1>0, AtProperties
  <2>3. Contents[k] = v /\ v \in Values
    BY <2>2, <1>0 DEF ListHoldsContents
  <2> HIDE DEF v
  <2>4. Contents' = [Contents EXCEPT ![k] = v]
    BY <2>1, <2>3, MoveContents
  <2>5. Contents' = Contents
    BY <2>3, <2>4, <1>1
  <2>6. Contents[k] # None
    BY <2>3, LruCacheAssumption
  <2>7. Recency!Get(k)
    BY <2>1, <2>5, <2>6 DEF Recency!Get, Recency!Cached, Recency!Use, Used
  <2> QED
    BY <2>7 DEF Recency!Next
<1>4. ASSUME NEW k \in Keys, Erase(k) PROVE Recency!Next
  <2>1. ASSUME NEW x \in Keys
        PROVE  Contents'[x] = IF x \in {k} THEN None ELSE Contents[x]
    <3>1. index'[x] = IF x = k THEN None ELSE index[x]
      BY <1>0, <1>4 DEF Erase, TypeOK
    <3>2. CASE x = k \/ index[x] = None
      BY <3>1, <3>2, <1>0 DEF ListHoldsContents
    <3>3. CASE x # k /\ index[x] # None
      <4> DEFINE p == At(index[k])
                 n == Len(entries)
      <4>1. n \in Nat /\ DOMAIN entries = 1..n /\ entries \in Seq(Node)
        BY <1>0, LenProperties DEF TypeOK
      <4>2. p \in 1..n /\ entries[p].key = k /\ entries' = WithoutAt(entries, p)
        BY <1>0, <1>4, <4>1, AtProperties DEF Erase
      <4> HIDE DEF p
      <4>3. /\ entries' \in Seq(Node)
            /\ Len(entries') = n - 1
            /\ \A j \in 1..(n - 1) :
                 entries'[j] = IF j < p THEN entries[j] ELSE entries[j + 1]
        BY <4>1, <4>2, WithoutAtProperties
      <4>4. DOMAIN entries' = 1..(n - 1)
        BY <4>3, LenProperties
      <4> HIDE DEF n
      <4>5. PICK i \in 1..n : entries[i].key = x
        BY <3>3, <1>0, <4>1 DEF ListHoldsContents
      <4>6. \E j \in 1..(n - 1) : entries'[j] = entries[i]
        <5>1. CASE i < p
          BY <5>1, <4>1, <4>2, <4>3
        <5>2. CASE i > p
          <6>1. i - 1 \in 1..(n - 1) /\ (i - 1) + 1 = i /\ ~(i - 1 < p)
            BY <5>2, <4>1, <4>2
          <6>2. entries'[i - 1] = entries[i]
            BY <6>1, <4>3
          <6> QED
            BY <6>1, <6>2
        <5> QED
          BY <5>1, <5>2, <4>1, <4>2, <4>5, <3>3
      <4> QED
        BY <4>1, <4>4, <4>5, <4>6, <3>3, <1>0 DEF ListHoldsContents
    <3> QED
      BY <3>2, <3>3
  <2>2. Contents' = [x \in Keys |-> IF x \in {k} THEN None ELSE Contents[x]]
    BY <2>1, <1>1
  <2>3. Recency!Drop({k})
    BY <2>2, <1>4 DEF Recency!Drop, Erase, history
  <2> QED
    BY <2>3 DEF Recency!Next
<1>5. ASSUME NEW k \in Keys, NEW v \in Values, PutExisting(k, v) PROVE Recency!Next
  <2>1. /\ index[k] # None /\ entries' = ToFront(At(index[k]), v) /\ index' = index
        /\ Used(k) /\ Capacity # 0
    BY <1>5 DEF PutExisting
  <2>2. Contents' = [Contents EXCEPT ![k] = v] /\ Contents[k] # None
    BY <2>1, <1>0, MoveContents DEF ListHoldsContents
  <2>3. Capacity > 0
    BY <2>1, LruCacheAssumption
  <2>4. Recency!Put(k, v)
    BY <2>1, <2>2, <2>3 DEF Recency!Put, Recency!Cached, Recency!Use, Used
  <2> QED
    BY <2>4 DEF Recency!Next
<1>6. ASSUME NEW k \in Keys, NEW v \in Values, PutNew(k, v) PROVE Recency!Next
  <2> DEFINE n == Len(entries)
  <2>1. Capacity > 0 /\ n \in Nat /\ n <= Capacity /\ Capacity \in Nat
        /\ (n = Capacity => n \in 1..n)
    BY <1>6, PutNewEffect, LruCacheAssumption
  <2>2. Used(k) /\ Contents[k] = None /\ DOMAIN entries = 1..n
    BY <1>0, <1>6, LenProperties DEF PutNew, ListHoldsContents, TypeOK
  <2>3. Recency!Cardinality(Recency!Cached) = n
    BY CachedCount
  <2>4. CASE n # Capacity
    <3>1. Contents' = [Contents EXCEPT ![k] = v]
      BY <2>4, <1>6, PutNewContents
    <3>2. Recency!Cardinality(Recency!Cached) < Capacity
      BY <2>1, <2>3, <2>4
    <3>3. Recency!Put(k, v)
      BY <3>1, <3>2, <2>1, <2>2 DEF Recency!Put, Recency!Use, Used
    <3> QED
      BY <3>3 DEF Recency!Next
  <2>5. CASE n = Capacity
    <3> DEFINE old == entries[n].key
    <3>1. Contents' = [Contents EXCEPT ![k] = v, ![old] = None]
      BY <2>5, <1>6, PutNewContents
    <3>2. old \in Keys /\ old \in Recency!Cached
      BY <2>1, <2>2, <2>5, <1>0, LruCacheAssumption DEF ListHoldsContents, Recency!Cached
    <3>3. ASSUME NEW j \in Recency!Cached PROVE lastUse[old] <= lastUse[j]
      <4>1. PICK i \in 1..n : entries[i].key = j
        BY <2>2, <1>0 DEF ListHoldsContents, Recency!Cached
      <4>2. lastUse[old] \in Nat /\ lastUse[j] \in Nat
        BY <3>2, <1>0 DEF TypeOK, Recency!Cached
      <4>3. CASE i = n
        BY <4>1, <4>2, <4>3
      <4>4. CASE i < n
        <5>1. lastUse[entries[n].key] < lastUse[entries[i].key]
          BY <4>4, <2>1, <2>2, <2>5, <1>0 DEF InOrder
        <5> QED
          BY <5>1, <4>1, <4>2
      <4> QED
        BY <4>3, <4>4, <2>1
    <3> HIDE DEF old
    <3>4. k \notin Recency!Cached
      BY <2>2 DEF Recency!Cached
    <3>5. Recency!Use(k)
      BY <2>2 DEF Recency!Use, Used
    <3>6. Recency!PutEvicting(k, v, old)
      BY <3>1, <3>2, <3>3, <3>4, <3>5, <2>1, <2>3, <2>5 DEF Recency!PutEvicting
    <3> QED
      BY <3>2, <3>6 DEF Recency!Next
  <2> QED
    BY <2>4, <2>5
<1>7. CASE Clear
  <2>1. \A x \in Keys : Contents'[x] = None
    BY <1>7, <1>0 DEF Clear, ListHoldsContents
  <2>2. Contents' = [x \in Keys |-> IF x \in Keys THEN None ELSE Contents[x]]
    BY <2>1, <1>1
  <2>3. Recency!Drop(Keys)
    BY <2>2, <1>7 DEF Recency!Drop, Clear, history
  <2> QED
    BY <2>3 DEF Recency!Next
<1>8. ASSUME NEW k \in Keys, GetMiss(k) PROVE UNCHANGED <<entries, index, lastUse, clock>>
  BY <1>8 DEF GetMiss, history
<1>9. UNCHANGED vars => UNCHANGED <<entries, index, lastUse, clock>>
  BY DEF vars
<1> QED
  BY <1>2, <1>3, <1>4, <1>5, <1>6, <1>7, <1>8, <1>9 DEF Next

\* The linked list and the map of iterators implement the least-recently-used cache,
\* for every capacity: get and put answer and store what the abstract cache does, and
\* the entry an overflowing put drops is one whose last use is the longest ago.
THEOREM RefinesRecency == Spec => ImplementsRecency
<1>1. Init => Recency!Init
  <2> SUFFICES ASSUME Init PROVE Recency!Init
    OBVIOUS
  <2>1. Contents = [k \in Keys |-> None]
    BY DEF Init, Contents
  <2> QED
    BY <2>1 DEF Init, Recency!Init
<1> QED
  BY <1>1, Invariance, NextRefines, PTL DEF Spec, ImplementsRecency, Recency!Spec

=============================================================================
