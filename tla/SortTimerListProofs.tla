------------------------ MODULE SortTimerListProofs ------------------------
(***************************************************************************)
(* Proofs about SortTimerList, for any number of timers and any deadlines. *)
(***************************************************************************)
EXTENDS SortTimerList, SequenceTheorems, FiniteSetTheorems, TLAPS

-----------------------------------------------------------------------------
(* Sequences *)

RemoveAt(s, i) == SubSeq(s, 1, i - 1) \o SubSeq(s, i + 1, Len(s))

InsertAt(s, i, x) == SubSeq(s, 1, i - 1) \o <<x>> \o SubSeq(s, i, Len(s))

(* A list without the element at one of its places. *)
LEMMA RemoveAtProperties ==
    ASSUME NEW S, NEW s \in Seq(S), NEW i \in 1..Len(s)
    PROVE  /\ RemoveAt(s, i) \in Seq(S) /\ Len(RemoveAt(s, i)) = Len(s) - 1
           /\ \A j \in 1..(Len(s) - 1) : RemoveAt(s, i)[j] = IF j < i THEN s[j] ELSE s[j + 1]
<1>1. Len(s) \in Nat
  BY LenProperties
<1>. DEFINE a == SubSeq(s, 1, i - 1)
            b == SubSeq(s, i + 1, Len(s))
<1>2. a \in Seq(S) /\ Len(a) = i - 1 /\ \A j \in 1..(i - 1) : a[j] = s[j]
  BY <1>1, SubSeqProperties
<1>3. b \in Seq(S) /\ Len(b) = Len(s) - i /\ \A j \in 1..(Len(s) - i) : b[j] = s[i + j]
  <2>1. \A j \in (i + 1)..Len(s) : s[j] \in S
    BY <1>1, ElementOfSeq
  <2>2. /\ b \in Seq(S) /\ Len(b) = IF i + 1 <= Len(s) THEN Len(s) - (i + 1) + 1 ELSE 0
        /\ \A j \in 1..(Len(s) - (i + 1) + 1) : b[j] = s[i + 1 + j - 1]
    BY <1>1, <2>1, SubSeqProperties
  <2>. HIDE DEF b
  <2>. QED  BY <1>1, <2>2
<1>. HIDE DEF a, b
<1>4. /\ a \o b \in Seq(S) /\ Len(a \o b) = Len(s) - 1
      /\ \A j \in 1..(Len(s) - 1) : (a \o b)[j] = IF j < i THEN a[j] ELSE b[j - (i - 1)]
  <2>1. /\ a \o b \in Seq(S) /\ Len(a \o b) = Len(a) + Len(b)
        /\ \A j \in 1..(Len(a) + Len(b)) : (a \o b)[j] = IF j <= Len(a) THEN a[j] ELSE b[j - Len(a)]
    BY <1>2, <1>3, ConcatProperties
  <2>. QED  BY <1>1, <1>2, <1>3, <2>1
<1>5. \A j \in 1..(Len(s) - 1) : (a \o b)[j] = IF j < i THEN s[j] ELSE s[j + 1]
  <2>. SUFFICES ASSUME NEW j \in 1..(Len(s) - 1)
                PROVE  (a \o b)[j] = IF j < i THEN s[j] ELSE s[j + 1]
    OBVIOUS
  <2>1. CASE j < i
    BY <1>1, <1>2, <1>4, <2>1
  <2>2. CASE ~(j < i)
    <3>1. j - (i - 1) \in 1..(Len(s) - i) /\ i + (j - (i - 1)) = j + 1
      BY <1>1, <2>2
    <3>2. (a \o b)[j] = b[j - (i - 1)]
      BY <1>4, <2>2
    <3>. QED  BY <1>3, <2>2, <3>1, <3>2
  <2>. QED  BY <2>1, <2>2
<1>. QED  BY <1>4, <1>5 DEF RemoveAt, a, b

(* The other elements stay in the list. *)
LEMMA NodesRemoveAt ==
    ASSUME NEW S, NEW c \in Seq(S), NEW p \in 1..Len(c), \A i, j \in 1..Len(c) : c[i] = c[j] => i = j
    PROVE  Nodes(RemoveAt(c, p)) = Nodes(c) \ {c[p]}
<1>. DEFINE d == RemoveAt(c, p)
<1>1. PICK n \in Nat : n = Len(c)
  BY LenProperties
<1>2. p \in 1..n /\ \A i, j \in 1..n : c[i] = c[j] => i = j
  BY <1>1
<1>3. d \in Seq(S) /\ Len(d) = n - 1 /\ \A j \in 1..(n - 1) : d[j] = IF j < p THEN c[j] ELSE c[j + 1]
  BY <1>1, RemoveAtProperties
<1>. HIDE DEF d
<1>4. ASSUME NEW i \in 1..(n - 1) PROVE \E a \in 1..n : d[i] = c[a] /\ c[a] # c[p]
  <2>1. CASE i < p
    <3>1. i \in 1..n /\ i # p /\ d[i] = c[i]
      BY <1>2, <1>3, <2>1
    <3>. QED  BY <1>2, <3>1
  <2>2. CASE ~(i < p)
    <3>1. i + 1 \in 1..n /\ i + 1 # p /\ d[i] = c[i + 1]
      BY <1>2, <1>3, <2>2
    <3>. QED  BY <1>2, <3>1
  <2>. QED  BY <2>1, <2>2
<1>5. ASSUME NEW i \in 1..n, i # p PROVE \E a \in 1..(n - 1) : c[i] = d[a]
  <2>1. CASE i < p
    <3>1. i \in 1..(n - 1) /\ d[i] = c[i]
      BY <1>2, <1>3, <2>1
    <3>. QED  BY <3>1
  <2>2. CASE i > p
    <3>1. i - 1 \in 1..(n - 1) /\ ~(i - 1 < p) /\ (i - 1) + 1 = i
      BY <1>2, <2>2
    <3>2. d[i - 1] = c[i]
      BY <1>3, <3>1
    <3>. QED  BY <3>1, <3>2
  <2>. QED  BY <1>2, <1>5, <2>1, <2>2
<1>6. Nodes(d) = {d[i] : i \in 1..(n - 1)} /\ Nodes(c) = {c[i] : i \in 1..n}
  BY <1>1, <1>3, LenProperties DEF Nodes
<1>7. Nodes(d) \subseteq Nodes(c) \ {c[p]}
  BY <1>4, <1>6
<1>8. ASSUME NEW x \in Nodes(c), x # c[p] PROVE x \in Nodes(d)
  <2>1. PICK i \in 1..n : x = c[i]
    BY <1>6
  <2>2. PICK a \in 1..(n - 1) : c[i] = d[a]
    BY <1>5, <1>8, <2>1
  <2>. QED  BY <1>6, <2>1, <2>2
<1>. QED  BY <1>7, <1>8 DEF d

(* A list with an element more. *)
LEMMA InsertAtProperties ==
    ASSUME NEW S, NEW s \in Seq(S), NEW i \in 1..(Len(s) + 1), NEW x \in S
    PROVE  /\ InsertAt(s, i, x) \in Seq(S) /\ Len(InsertAt(s, i, x)) = Len(s) + 1
           /\ \A j \in 1..(Len(s) + 1) :
                InsertAt(s, i, x)[j] = IF j < i THEN s[j] ELSE IF j = i THEN x ELSE s[j - 1]
<1>1. Len(s) \in Nat
  BY LenProperties
<1>. DEFINE a == SubSeq(s, 1, i - 1)
            b == SubSeq(s, i, Len(s))
            m == <<x>>
<1>2. a \in Seq(S) /\ Len(a) = i - 1 /\ \A j \in 1..(i - 1) : a[j] = s[j]
  <2>1. \A j \in 1..(i - 1) : s[j] \in S
    BY <1>1, ElementOfSeq
  <2>. QED  BY <1>1, <2>1, SubSeqProperties
<1>3. b \in Seq(S) /\ Len(b) = Len(s) - i + 1 /\ \A j \in 1..(Len(s) - i + 1) : b[j] = s[i + j - 1]
  <2>1. \A j \in i..Len(s) : s[j] \in S
    BY <1>1, ElementOfSeq
  <2>2. /\ b \in Seq(S) /\ Len(b) = IF i <= Len(s) THEN Len(s) - i + 1 ELSE 0
        /\ \A j \in 1..(Len(s) - i + 1) : b[j] = s[i + j - 1]
    BY <1>1, <2>1, SubSeqProperties
  <2>. HIDE DEF b
  <2>. QED  BY <1>1, <2>2
<1>4. m \in Seq(S) /\ Len(m) = 1 /\ m[1] = x
  OBVIOUS
<1>. HIDE DEF a, b, m
<1>. DEFINE am == a \o m
<1>5. am \in Seq(S) /\ Len(am) = i /\ \A j \in 1..i : am[j] = IF j < i THEN s[j] ELSE x
  <2>1. /\ am \in Seq(S) /\ Len(am) = Len(a) + Len(m)
        /\ \A j \in 1..(Len(a) + Len(m)) : am[j] = IF j <= Len(a) THEN a[j] ELSE m[j - Len(a)]
    BY <1>2, <1>4, ConcatProperties
  <2>. HIDE DEF am
  <2>. QED  BY <1>1, <1>2, <1>4, <2>1
<1>. HIDE DEF am
<1>6. /\ am \o b \in Seq(S) /\ Len(am \o b) = Len(s) + 1
      /\ \A j \in 1..(Len(s) + 1) : (am \o b)[j] = IF j <= i THEN am[j] ELSE b[j - i]
  <2>1. /\ am \o b \in Seq(S) /\ Len(am \o b) = Len(am) + Len(b)
        /\ \A j \in 1..(Len(am) + Len(b)) : (am \o b)[j] = IF j <= Len(am) THEN am[j] ELSE b[j - Len(am)]
    BY <1>3, <1>5, ConcatProperties
  <2>. QED  BY <1>1, <1>3, <1>5, <2>1
<1>7. ASSUME NEW j \in 1..(Len(s) + 1)
      PROVE  (am \o b)[j] = IF j < i THEN s[j] ELSE IF j = i THEN x ELSE s[j - 1]
  <2>1. CASE j <= i
    BY <1>1, <1>5, <1>6, <2>1
  <2>2. CASE ~(j <= i)
    <3>1. j - i \in 1..(Len(s) - i + 1) /\ i + (j - i) - 1 = j - 1
      BY <1>1, <2>2
    <3>2. (am \o b)[j] = b[j - i]
      BY <1>6, <2>2
    <3>. QED  BY <1>3, <2>2, <3>1, <3>2
  <2>. QED  BY <2>1, <2>2
<1>8. InsertAt(s, i, x) = am \o b
  BY DEF InsertAt, am, a, b, m
<1>. QED  BY <1>6, <1>7, <1>8

(* The end of a list. *)
LEMMA SuffixProperties ==
    ASSUME NEW S, NEW s \in Seq(S), NEW k \in 0..Len(s)
    PROVE  /\ SubSeq(s, k + 1, Len(s)) \in Seq(S) /\ Len(SubSeq(s, k + 1, Len(s))) = Len(s) - k
           /\ \A j \in 1..(Len(s) - k) : SubSeq(s, k + 1, Len(s))[j] = s[k + j]
<1>1. Len(s) \in Nat
  BY LenProperties
<1>2. \A j \in (k + 1)..Len(s) : s[j] \in S
  BY <1>1, ElementOfSeq
<1>. DEFINE b == SubSeq(s, k + 1, Len(s))
<1>3. /\ b \in Seq(S) /\ Len(b) = IF k + 1 <= Len(s) THEN Len(s) - (k + 1) + 1 ELSE 0
      /\ \A j \in 1..(Len(s) - (k + 1) + 1) : b[j] = s[k + 1 + j - 1]
  BY <1>1, <1>2, SubSeqProperties
<1>. HIDE DEF b
<1>4. \A j \in 1..(Len(s) - k) : j \in 1..(Len(s) - (k + 1) + 1) /\ k + 1 + j - 1 = k + j
  BY <1>1
<1>5. Len(b) = Len(s) - k
  BY <1>1, <1>3
<1>. QED  BY <1>3, <1>4, <1>5 DEF b

(* A list without repetitions has as many elements as positions. *)
LEMMA ListSize ==
    ASSUME NEW S, NEW s \in Seq(S), \A i, j \in 1..Len(s) : s[i] = s[j] => i = j
    PROVE  /\ Nodes(s) \subseteq S /\ IsFiniteSet(Nodes(s))
           /\ Len(s) \in Nat /\ Cardinality(Nodes(s)) = Len(s)
<1>1. /\ Len(s) \in Nat /\ s \in [1..Len(s) -> Nodes(s)] /\ Nodes(s) \subseteq S
  BY LenProperties DEF Nodes
<1>2. s \in Bijection(1..Len(s), Nodes(s))
  BY <1>1 DEF Nodes, IsInjective, Bijection, Injection, Surjection
<1>3. ExistsBijection(1..Len(s), Nodes(s))
  BY <1>2 DEF ExistsBijection
<1>4. IsFiniteSet(1..Len(s)) /\ Cardinality(1..Len(s)) = Len(s)
  BY <1>1, FS_Interval
<1>. QED  BY <1>1, <1>3, <1>4, FS_Bijection

(* Induction over the places of a list. *)
LEMMA PlaceInduction ==
    ASSUME NEW n \in Nat, NEW S, n >= 1 => 1 \in S, \A i \in 1..(n - 1) : i \in S => i + 1 \in S
    PROVE  1..n \subseteq S
<1>. DEFINE T == (1..n) \ S
<1>. SUFFICES ASSUME T # {} PROVE FALSE
  OBVIOUS
<1>1. T \subseteq Nat
  OBVIOUS
<1>2. PICK x \in T : \A y \in T : ~(<<y, x>> \in OpToRel(<, Nat))
  BY <1>1, WFMin, NatLessThanWellFounded
<1>3. x # 1
  OBVIOUS
<1>4. x - 1 \in 1..(n - 1) /\ x - 1 \notin S
  BY <1>3
<1>5. x - 1 \in T /\ x - 1 < x /\ x - 1 \in Nat /\ x \in Nat
  BY <1>4
<1>. QED  BY <1>2, <1>5 DEF OpToRel

(* Some place of a nonempty set of places is the first. *)
LEMMA FirstPlace ==
    ASSUME NEW n \in Nat, NEW T \in SUBSET (1..n), T # {}
    PROVE  \E x \in T : \A y \in T : x <= y
<1>1. T \subseteq Nat
  OBVIOUS
<1>2. PICK x \in T : \A y \in T : ~(<<y, x>> \in OpToRel(<, Nat))
  BY <1>1, WFMin, NatLessThanWellFounded
<1>3. ASSUME NEW y \in T PROVE x <= y
  <2>1. x \in Nat /\ y \in Nat
    BY <1>1
  <2>2. ~(y < x)
    BY <1>2, <2>1 DEF OpToRel
  <2>. QED  BY <2>1, <2>2
<1>. QED  BY <1>3

-----------------------------------------------------------------------------
(* The list and its chain *)

(* c is the list l: along next it runs through c, prev is the inverse, and *)
(* tail is the last node.                                                  *)
Linked(l, c) ==
    /\ c \in Seq(Timers)
    /\ \A i, j \in 1..Len(c) : c[i] = c[j] => i = j
    /\ IsChain(l, c)
    /\ \A i \in 1..Len(c) : l.prev[c[i]] = IF i = 1 THEN Null ELSE c[i - 1]
    /\ c # <<>> => l.tail = c[Len(c)]

(* The deadlines along c do not decrease. *)
Sorted(l, c) == \A i, j \in 1..Len(c) : i < j => l.expire[c[i]] <= l.expire[c[j]]

(* The inductive invariant. *)
IInv ==
    /\ TypeOK
    /\ Linked(lst, Chain(lst)) /\ Nodes(Chain(lst)) = alive /\ Sorted(lst, Chain(lst))

(* next leads along one path only: two chains of a list are the same. *)
LEMMA ChainUnique ==
    ASSUME NEW l, NEW c \in Seq(Timers), NEW d \in Seq(Timers), IsChain(l, c), IsChain(l, d)
    PROVE  c = d
<1>1. Len(c) \in Nat /\ Len(d) \in Nat
  BY LenProperties
<1>2. /\ \A i \in 1..Len(c) : c[i] \in Timers /\ c[i] # Null
      /\ \A i \in 1..Len(d) : d[i] \in Timers /\ d[i] # Null
  BY ElementOfSeq, ListAssumption
<1>3. (c = <<>> <=> Len(c) = 0) /\ (d = <<>> <=> Len(d) = 0)
  BY EmptySeq
<1>4. /\ \A i \in 1..Len(c) : l.next[c[i]] = IF i = Len(c) THEN Null ELSE c[i + 1]
      /\ \A i \in 1..Len(d) : l.next[d[i]] = IF i = Len(d) THEN Null ELSE d[i + 1]
      /\ l.head = IF Len(c) = 0 THEN Null ELSE c[1]
      /\ l.head = IF Len(d) = 0 THEN Null ELSE d[1]
  BY <1>3 DEF IsChain
<1>. DEFINE S == {i \in 1..Len(c) : i <= Len(d) /\ d[i] = c[i]}
<1>5. Len(c) >= 1 => 1 \in S
  BY <1>1, <1>2, <1>4
<1>6. ASSUME NEW i \in 1..(Len(c) - 1), i \in S PROVE i + 1 \in S
  <2>1. i \in 1..Len(c) /\ i # Len(c) /\ i + 1 \in 1..Len(c)
    BY <1>1
  <2>2. l.next[c[i]] = c[i + 1] /\ c[i + 1] # Null
    BY <1>2, <1>4, <2>1
  <2>3. i \in 1..Len(d) /\ d[i] = c[i]
    BY <1>1, <1>6
  <2>4. i # Len(d) /\ d[i + 1] = c[i + 1]
    BY <1>4, <2>2, <2>3
  <2>. QED  BY <1>1, <2>1, <2>3, <2>4
<1>7. 1..Len(c) \subseteq S
  <2>. HIDE DEF S
  <2>. QED  BY <1>1, <1>5, <1>6, PlaceInduction
<1>8. \A i \in 1..Len(c) : i <= Len(d) /\ d[i] = c[i]
  BY <1>7
<1>9. Len(c) = Len(d)
  <2>1. CASE Len(c) = 0
    <3>. SUFFICES ASSUME Len(d) # 0 PROVE FALSE
      BY <2>1
    <3>1. 1 \in 1..Len(d)
      BY <1>1
    <3>. QED  BY <1>2, <1>4, <2>1, <3>1
  <2>2. CASE Len(c) # 0
    <3>1. Len(c) \in 1..Len(c)
      BY <1>1, <2>2
    <3>2. Len(c) \in 1..Len(d) /\ d[Len(c)] = c[Len(c)]
      BY <1>1, <1>8, <3>1
    <3>3. l.next[d[Len(c)]] = Null
      BY <1>4, <3>1, <3>2
    <3>. SUFFICES ASSUME Len(c) # Len(d) PROVE FALSE
      OBVIOUS
    <3>4. Len(c) + 1 \in 1..Len(d)
      BY <1>1, <3>2
    <3>. QED  BY <1>2, <1>4, <3>2, <3>3, <3>4
  <2>. QED  BY <2>1, <2>2
<1>. QED  BY <1>8, <1>9, SeqEqual

(* A well linked list is the chain the loops run along. *)
LEMMA ChainOf ==
    ASSUME NEW l, NEW c, Linked(l, c)
    PROVE  Chain(l) = c
<1>1. c \in Seq(Timers) /\ IsChain(l, c) /\ \A i, j \in 1..Len(c) : c[i] = c[j] => i = j
  BY DEF Linked
<1>2. Len(c) \in Nat /\ c \in [1..Len(c) -> Timers]
  BY <1>1, LenProperties
<1>3. IsFiniteSet(Timers) /\ Cardinality(Timers) \in Nat
  BY ListAssumption, FS_CardinalityType
<1>4. Len(c) <= Cardinality(Timers)
  <2>1. Nodes(c) \subseteq Timers
    BY <1>1, ElementOfSeq DEF Nodes
  <2>2. Cardinality(Nodes(c)) = Len(c)
    BY <1>1, ListSize
  <2>. QED  BY <1>3, <2>1, <2>2, FS_Subset
<1>5. c \in Paths
  BY <1>2, <1>3, <1>4 DEF Paths
<1>6. Chain(l) \in Paths /\ IsChain(l, Chain(l))
  BY <1>1, <1>5 DEF Chain
<1>7. Chain(l) \in Seq(Timers)
  <2>1. PICK n \in 0..Cardinality(Timers) : Chain(l) \in [1..n -> Timers]
    BY <1>6 DEF Paths
  <2>2. n \in Nat
    BY <1>3
  <2>. QED  BY <2>1, <2>2, SeqDef
<1>. QED  BY <1>1, <1>6, <1>7, ChainUnique

(* Only the members of the listed nodes matter. *)
LEMMA LinkedFrame ==
    ASSUME NEW l, NEW m, NEW c, Linked(l, c), m.head = l.head, m.tail = l.tail,
           \A x \in Nodes(c) : m.next[x] = l.next[x] /\ m.prev[x] = l.prev[x]
    PROVE  Linked(m, c)
<1>1. \A i \in 1..Len(c) : m.next[c[i]] = l.next[c[i]] /\ m.prev[c[i]] = l.prev[c[i]]
  BY DEF Nodes
<1>. QED  BY <1>1 DEF Linked, IsChain

(* The list l with the chain c becomes m: t is linked in after the first k *)
(* nodes.                                                                  *)
Inserts(l, m, c, k, t) ==
    /\ m.head = IF k = 0 THEN t ELSE l.head
    /\ m.tail = IF k = Len(c) THEN t ELSE l.tail
    /\ m.next[t] = IF k = Len(c) THEN Null ELSE c[k + 1]
    /\ m.prev[t] = IF k = 0 THEN Null ELSE c[k]
    /\ k > 0 => m.next[c[k]] = t
    /\ k < Len(c) => m.prev[c[k + 1]] = t
    /\ \A i \in 1..Len(c) : i # k => m.next[c[i]] = l.next[c[i]]
    /\ \A i \in 1..Len(c) : i # k + 1 => m.prev[c[i]] = l.prev[c[i]]

(* Linking in an object inserts it into the chain. *)
LEMMA InsertLinked ==
    ASSUME NEW l, NEW m, NEW c, Linked(l, c), NEW t \in Timers, t \notin Nodes(c),
           NEW k \in 0..Len(c), Inserts(l, m, c, k, t)
    PROVE  Linked(m, InsertAt(c, k + 1, t)) /\ Nodes(InsertAt(c, k + 1, t)) = Nodes(c) \cup {t}
<1>. DEFINE d == InsertAt(c, k + 1, t)
            n == Len(c)
<1>1. c \in Seq(Timers) /\ n \in Nat /\ k \in 0..n
  BY LenProperties DEF Linked
<1>0. /\ \A i, j \in 1..n : c[i] = c[j] => i = j
      /\ l.head = IF n = 0 THEN Null ELSE c[1]
      /\ \A i \in 1..n : l.next[c[i]] = IF i = n THEN Null ELSE c[i + 1]
      /\ \A i \in 1..n : l.prev[c[i]] = IF i = 1 THEN Null ELSE c[i - 1]
      /\ n # 0 => l.tail = c[n]
  <2>1. c = <<>> <=> n = 0
    BY <1>1, EmptySeq
  <2>. QED  BY <2>1 DEF Linked, IsChain
<1>2. /\ d \in Seq(Timers) /\ Len(d) = n + 1
      /\ \A j \in 1..(n + 1) : d[j] = IF j < k + 1 THEN c[j] ELSE IF j = k + 1 THEN t ELSE c[j - 1]
  <2>1. k + 1 \in 1..(n + 1) /\ c \in Seq(Timers)
    BY <1>1
  <2>. QED  BY <2>1, InsertAtProperties
<1>3. \A i \in 1..n : c[i] # t
  BY DEF Nodes
<1>. HIDE DEF d
<1>4. d # <<>>
  BY <1>1, <1>2
<1>5. /\ \A j \in 1..k : d[j] = c[j]
      /\ d[k + 1] = t
      /\ \A j \in (k + 2)..(n + 1) : d[j] = c[j - 1]
  BY <1>1, <1>2
<1>6. \A i, j \in 1..(n + 1) : d[i] = d[j] => i = j
  <2>. SUFFICES ASSUME NEW i \in 1..(n + 1), NEW j \in 1..(n + 1), d[i] = d[j], i < j PROVE FALSE
    BY <1>1
  <2>1. CASE i = k + 1
    BY <1>1, <1>3, <1>5, <2>1
  <2>2. CASE j = k + 1
    BY <1>1, <1>3, <1>5, <2>2
  <2>3. CASE i # k + 1 /\ j # k + 1
    <3>1. PICK a \in 1..n : d[i] = c[a] /\ a = IF i < k + 1 THEN i ELSE i - 1
      BY <1>1, <1>5, <2>3
    <3>2. PICK b \in 1..n : d[j] = c[b] /\ b = IF j < k + 1 THEN j ELSE j - 1
      BY <1>1, <1>5, <2>3
    <3>3. c[a] = c[b]
      BY <3>1, <3>2
    <3>4. a = b
      BY <1>0, <3>3
    <3>. QED  BY <1>1, <2>3, <3>1, <3>2, <3>4
  <2>. QED  BY <2>1, <2>2, <2>3
<1>7. m.head = d[1]
  BY <1>0, <1>1, <1>5 DEF Inserts
<1>8. ASSUME NEW i \in 1..(n + 1) PROVE m.next[d[i]] = IF i = n + 1 THEN Null ELSE d[i + 1]
  <2>1. CASE i < k
    <3>1. i \in 1..n /\ i # n /\ i # n + 1 /\ i # k /\ i \in 1..k /\ i + 1 \in 1..k
      BY <1>1, <2>1
    <3>2. d[i] = c[i] /\ d[i + 1] = c[i + 1]
      BY <1>5, <3>1
    <3>. QED  BY <1>0, <1>1, <3>1, <3>2 DEF Inserts
  <2>2. CASE i = k
    BY <1>0, <1>1, <1>5, <2>2 DEF Inserts
  <2>3. CASE i = k + 1
    BY <1>0, <1>1, <1>5, <2>3 DEF Inserts
  <2>4. CASE i > k + 1
    <3>1. i - 1 \in 1..n /\ i - 1 # k /\ d[i] = c[i - 1]
      BY <1>1, <1>5, <2>4
    <3>2. m.next[d[i]] = IF i - 1 = n THEN Null ELSE c[(i - 1) + 1]
      BY <1>0, <1>1, <3>1 DEF Inserts
    <3>3. ASSUME i # n + 1 PROVE d[i + 1] = c[(i - 1) + 1]
      <4>1. i + 1 \in (k + 2)..(n + 1) /\ (i + 1) - 1 = (i - 1) + 1
        BY <1>1, <2>4, <3>3
      <4>. QED  BY <1>5, <4>1
    <3>. QED  BY <1>1, <3>2, <3>3
  <2>. QED  BY <1>1, <2>1, <2>2, <2>3, <2>4
<1>9. ASSUME NEW i \in 1..(n + 1) PROVE m.prev[d[i]] = IF i = 1 THEN Null ELSE d[i - 1]
  <2>1. CASE i < k + 1
    <3>1. i \in 1..n /\ i # k + 1 /\ i \in 1..k /\ (i # 1 => i - 1 \in 1..k)
      BY <1>1, <2>1
    <3>2. d[i] = c[i] /\ (i # 1 => d[i - 1] = c[i - 1])
      BY <1>5, <3>1
    <3>. QED  BY <1>0, <3>1, <3>2 DEF Inserts
  <2>2. CASE i = k + 1
    BY <1>0, <1>1, <1>5, <2>2 DEF Inserts
  <2>3. CASE i = k + 2
    BY <1>0, <1>1, <1>5, <2>3 DEF Inserts
  <2>4. CASE i > k + 2
    <3>1. /\ i - 1 \in 1..n /\ i - 1 # k + 1 /\ i - 1 # 1
          /\ i \in (k + 2)..(n + 1) /\ i - 1 \in (k + 2)..(n + 1)
      BY <1>1, <2>4
    <3>2. d[i] = c[i - 1] /\ d[i - 1] = c[(i - 1) - 1]
      BY <1>5, <3>1
    <3>. QED  BY <1>0, <1>1, <3>1, <3>2 DEF Inserts
  <2>. QED  BY <1>1, <2>1, <2>2, <2>3, <2>4
<1>10. m.tail = d[n + 1]
  BY <1>0, <1>1, <1>5 DEF Inserts
<1>11. Nodes(d) = Nodes(c) \cup {t}
  <2>1. ASSUME NEW i \in 1..(n + 1) PROVE d[i] \in Nodes(c) \cup {t}
    <3>1. CASE i = k + 1
      BY <1>5, <3>1
    <3>2. CASE i < k + 1
      <4>1. d[i] = c[i] /\ i \in 1..n
        BY <1>1, <1>5, <3>2
      <4>. QED  BY <4>1 DEF Nodes
    <3>3. CASE i > k + 1
      <4>1. d[i] = c[i - 1] /\ i - 1 \in 1..n
        BY <1>1, <1>5, <3>3
      <4>. QED  BY <4>1 DEF Nodes
    <3>. QED  BY <1>1, <3>1, <3>2, <3>3
  <2>2. t = d[k + 1] /\ k + 1 \in 1..(n + 1)
    BY <1>1, <1>5
  <2>3. ASSUME NEW i \in 1..n PROVE \E j \in 1..(n + 1) : c[i] = d[j]
    <3>1. CASE i <= k
      <4>1. d[i] = c[i] /\ i \in 1..(n + 1)
        BY <1>1, <1>5, <3>1
      <4>. QED  BY <4>1
    <3>2. CASE i > k
      <4>1. i + 1 \in (k + 2)..(n + 1) /\ (i + 1) - 1 = i /\ i + 1 \in 1..(n + 1)
        BY <1>1, <3>2
      <4>2. d[i + 1] = c[i]
        BY <1>5, <4>1
      <4>. QED  BY <4>1, <4>2
    <3>. QED  BY <1>1, <3>1, <3>2
  <2>4. Nodes(d) = {d[i] : i \in 1..(n + 1)} /\ Nodes(c) = {c[i] : i \in 1..n}
    BY <1>1, <1>2, LenProperties DEF Nodes
  <2>. QED  BY <2>1, <2>2, <2>3, <2>4
<1>12. Linked(m, d)
  BY <1>2, <1>4, <1>6, <1>7, <1>8, <1>9, <1>10 DEF Linked, IsChain
<1>. QED  BY <1>11, <1>12 DEF d

(* The list l with the chain c becomes m: the node at place p is unlinked. *)
Unlinks(l, m, c, p) ==
    /\ m.head = IF p > 1 THEN l.head ELSE IF Len(c) = 1 THEN Null ELSE c[2]
    /\ Len(c) > 1 => m.tail = IF p = Len(c) THEN c[p - 1] ELSE l.tail
    /\ p > 1 => m.next[c[p - 1]] = IF p = Len(c) THEN Null ELSE c[p + 1]
    /\ p < Len(c) => m.prev[c[p + 1]] = IF p = 1 THEN Null ELSE c[p - 1]
    /\ \A i \in 1..Len(c) : i # p /\ i # p - 1 => m.next[c[i]] = l.next[c[i]]
    /\ \A i \in 1..Len(c) : i # p /\ i # p + 1 => m.prev[c[i]] = l.prev[c[i]]

(* Unlinking a node removes it from the chain. *)
LEMMA RemoveLinked ==
    ASSUME NEW l, NEW m, NEW c, Linked(l, c), NEW p \in 1..Len(c), Unlinks(l, m, c, p)
    PROVE  Linked(m, RemoveAt(c, p)) /\ Nodes(RemoveAt(c, p)) = Nodes(c) \ {c[p]}
<1>. DEFINE d == RemoveAt(c, p)
            n == Len(c)
<1>1. c \in Seq(Timers) /\ n \in Nat /\ p \in 1..n
  BY LenProperties DEF Linked
<1>0. /\ \A i, j \in 1..n : c[i] = c[j] => i = j
      /\ l.head = c[1]
      /\ \A i \in 1..n : l.next[c[i]] = IF i = n THEN Null ELSE c[i + 1]
      /\ \A i \in 1..n : l.prev[c[i]] = IF i = 1 THEN Null ELSE c[i - 1]
      /\ l.tail = c[n]
  <2>1. c # <<>>
    BY <1>1, EmptySeq
  <2>. QED  BY <2>1 DEF Linked, IsChain
<1>2. /\ d \in Seq(Timers) /\ Len(d) = n - 1
      /\ \A j \in 1..(n - 1) : d[j] = IF j < p THEN c[j] ELSE c[j + 1]
  BY <1>1, RemoveAtProperties
<1>. HIDE DEF d
<1>3. d = <<>> <=> n = 1
  BY <1>1, <1>2, EmptySeq
<1>4. /\ \A j \in 1..(p - 1) : d[j] = c[j]
      /\ \A j \in p..(n - 1) : d[j] = c[j + 1]
  <2>1. ASSUME NEW j \in 1..(p - 1) PROVE d[j] = c[j]
    <3>1. j \in 1..(n - 1) /\ j < p
      BY <1>1
    <3>. QED  BY <1>2, <3>1
  <2>2. ASSUME NEW j \in p..(n - 1) PROVE d[j] = c[j + 1]
    <3>1. j \in 1..(n - 1) /\ ~(j < p)
      BY <1>1
    <3>. QED  BY <1>2, <3>1
  <2>. QED  BY <2>1, <2>2
<1>5. ASSUME NEW i \in 1..(n - 1)
       PROVE  \E a \in 1..n : d[i] = c[a] /\ a = IF i < p THEN i ELSE i + 1
  <2>1. CASE i < p
    <3>1. i \in 1..n /\ d[i] = c[i]
      BY <1>1, <1>2, <2>1
    <3>. QED  BY <2>1, <3>1
  <2>2. CASE ~(i < p)
    <3>1. i + 1 \in 1..n /\ d[i] = c[i + 1]
      BY <1>1, <1>2, <2>2
    <3>. QED  BY <2>2, <3>1
  <2>. QED  BY <2>1, <2>2
<1>6. \A i, j \in 1..(n - 1) : d[i] = d[j] => i = j
  <2>. SUFFICES ASSUME NEW i \in 1..(n - 1), NEW j \in 1..(n - 1), d[i] = d[j] PROVE i = j
    OBVIOUS
  <2>1. PICK a \in 1..n : d[i] = c[a] /\ a = IF i < p THEN i ELSE i + 1
    BY <1>5
  <2>2. PICK b \in 1..n : d[j] = c[b] /\ b = IF j < p THEN j ELSE j + 1
    BY <1>5
  <2>3. c[a] = c[b]
    BY <2>1, <2>2
  <2>4. a = b
    BY <1>0, <2>3
  <2>. QED  BY <1>1, <2>1, <2>2, <2>4
<1>7. m.head = IF n = 1 THEN Null ELSE d[1]
  <2>1. CASE p = 1
    <3>1. ASSUME n # 1 PROVE d[1] = c[2]
      <4>1. n >= 2
        <5>1. \A a \in Nat : \A b \in 1..a : a # 1 => a >= 2
          OBVIOUS
        <5>. QED  BY <1>1, <3>1, <5>1, Zenon
      <4>2. p \in p..(n - 1) /\ p + 1 = 2
        BY <1>1, <2>1, <4>1
      <4>3. d[p] = c[p + 1]
        BY <1>4, <4>2
      <4>. QED  BY <2>1, <4>2, <4>3
    <3>2. m.head = IF n = 1 THEN Null ELSE c[2]
      BY <2>1 DEF Unlinks
    <3>. QED  BY <3>1, <3>2
  <2>2. CASE p > 1
    BY <1>0, <1>1, <1>4, <2>2 DEF Unlinks
  <2>. QED  BY <1>1, <2>1, <2>2
<1>8. ASSUME NEW i \in 1..(n - 1) PROVE m.next[d[i]] = IF i = n - 1 THEN Null ELSE d[i + 1]
  <2>1. CASE i < p - 1
    <3>1. i \in 1..n /\ i # p /\ i # p - 1 /\ i # n /\ i # n - 1
      BY <1>1, <2>1
    <3>2. d[i] = c[i] /\ d[i + 1] = c[i + 1]
      BY <1>1, <1>4, <2>1
    <3>. QED  BY <1>0, <3>1, <3>2 DEF Unlinks
  <2>2. CASE i = p - 1
    <3>1. d[i] = c[p - 1] /\ p > 1
      BY <1>1, <1>4, <2>2
    <3>2. i # n - 1 => d[i + 1] = c[p + 1]
      BY <1>1, <1>4, <2>2
    <3>3. m.next[c[p - 1]] = IF p = n THEN Null ELSE c[p + 1]
      BY <3>1 DEF Unlinks
    <3>. QED  BY <1>1, <2>2, <3>1, <3>2, <3>3
  <2>3. CASE i >= p
    <3>1. i + 1 \in 1..n /\ i + 1 # p /\ i + 1 # p - 1 /\ (i = n - 1 <=> i + 1 = n)
      BY <1>1, <2>3
    <3>2. d[i] = c[i + 1] /\ (i # n - 1 => d[i + 1] = c[(i + 1) + 1])
      BY <1>1, <1>4, <2>3
    <3>3. m.next[c[i + 1]] = l.next[c[i + 1]]
      BY <3>1 DEF Unlinks
    <3>. QED  BY <1>0, <3>1, <3>2, <3>3
  <2>. QED  BY <1>1, <2>1, <2>2, <2>3
<1>9. ASSUME NEW i \in 1..(n - 1) PROVE m.prev[d[i]] = IF i = 1 THEN Null ELSE d[i - 1]
  <2>1. CASE i < p
    <3>1. i \in 1..n /\ i # p /\ i # p + 1
      BY <1>1, <2>1
    <3>2. d[i] = c[i] /\ (i # 1 => d[i - 1] = c[i - 1])
      BY <1>1, <1>4, <2>1
    <3>. QED  BY <1>0, <3>1, <3>2 DEF Unlinks
  <2>2. CASE i = p
    <3>1. d[i] = c[p + 1] /\ p < n
      BY <1>1, <1>4, <2>2
    <3>2. i # 1 => d[i - 1] = c[p - 1]
      BY <1>1, <1>4, <2>2
    <3>3. m.prev[c[p + 1]] = IF p = 1 THEN Null ELSE c[p - 1]
      BY <3>1 DEF Unlinks
    <3>. QED  BY <1>1, <2>2, <3>1, <3>2, <3>3
  <2>3. CASE i > p
    <3>1. i + 1 \in 1..n /\ i + 1 # p /\ i + 1 # p + 1 /\ i + 1 # 1 /\ i # 1 /\ (i + 1) - 1 = (i - 1) + 1
      BY <1>1, <2>3
    <3>2. d[i] = c[i + 1]
      BY <1>1, <1>4, <2>3
    <3>3. d[i - 1] = c[(i - 1) + 1]
      <4>1. i - 1 \in p..(n - 1)
        BY <1>1, <2>3
      <4>. QED  BY <1>4, <4>1
    <3>4. m.prev[c[i + 1]] = l.prev[c[i + 1]]
      BY <3>1 DEF Unlinks
    <3>. QED  BY <1>0, <3>1, <3>2, <3>3, <3>4
  <2>. QED  BY <1>1, <2>1, <2>2, <2>3
<1>10. n # 1 => m.tail = d[n - 1]
  <2>1. CASE p = n
    BY <1>1, <1>4, <2>1 DEF Unlinks
  <2>2. CASE p # n
    BY <1>0, <1>1, <1>4, <2>2 DEF Unlinks
  <2>. QED  BY <2>1, <2>2
<1>11. Linked(m, d)
  BY <1>2, <1>3, <1>6, <1>7, <1>8, <1>9, <1>10 DEF Linked, IsChain
<1>12. Nodes(d) = Nodes(c) \ {c[p]}
  BY <1>0, <1>1, NodesRemoveAt DEF d
<1>. QED  BY <1>11, <1>12 DEF d

(* The list l with the chain c becomes m: head moves behind the first k    *)
(* nodes.                                                                  *)
Drops(l, m, c, k) ==
    /\ m.head = IF k = Len(c) THEN Null ELSE c[k + 1]
    /\ m.tail = l.tail
    /\ \A i \in 1..Len(c) : m.next[c[i]] = l.next[c[i]]
    /\ k < Len(c) => m.prev[c[k + 1]] = Null
    /\ \A i \in 1..Len(c) : i # k + 1 => m.prev[c[i]] = l.prev[c[i]]

(* What is left of the chain then. *)
Dropped(m, c, k) ==
    /\ Linked(m, SubSeq(c, k + 1, Len(c)))
    /\ Nodes(SubSeq(c, k + 1, Len(c))) = Nodes(c) \ Nodes(SubSeq(c, 1, k))

(* Moving head drops the nodes before it from the chain. *)
LEMMA DropLinked ==
    ASSUME NEW l, NEW m, NEW c, Linked(l, c), NEW k \in 0..Len(c), Drops(l, m, c, k)
    PROVE  Dropped(m, c, k)
<1>. DEFINE d == SubSeq(c, k + 1, Len(c))
            b == SubSeq(c, 1, k)
<1>1. PICK n \in Nat : n = Len(c)
  BY LenProperties DEF Linked
<1>2. c \in Seq(Timers) /\ k \in 0..n /\ (c = <<>> <=> n = 0)
  BY <1>1, EmptySeq DEF Linked
<1>3. \A i, j \in 1..n : c[i] = c[j] => i = j
  BY <1>1 DEF Linked
<1>4. /\ \A i \in 1..n : l.next[c[i]] = IF i = n THEN Null ELSE c[i + 1]
      /\ \A i \in 1..n : l.prev[c[i]] = IF i = 1 THEN Null ELSE c[i - 1]
      /\ n # 0 => l.tail = c[n]
  BY <1>1, <1>2 DEF Linked, IsChain
<1>5. d \in Seq(Timers) /\ Len(d) = n - k /\ \A j \in 1..(n - k) : d[j] = c[k + j]
  BY <1>1, <1>2, SuffixProperties
<1>6. b \in Seq(Timers) /\ Len(b) = k /\ \A j \in 1..k : b[j] = c[j]
  <2>1. \A j \in 1..k : c[j] \in Timers
    BY <1>1, <1>2, ElementOfSeq
  <2>. QED  BY <1>1, <1>2, <2>1, SubSeqProperties
<1>. HIDE DEF d, b
<1>7. d = <<>> <=> n = k
  BY <1>1, <1>2, <1>5, EmptySeq
<1>8. \A i \in 1..(n - k) : k + i \in 1..n /\ (k + i = n <=> i = n - k) /\ (k + i = k + 1 <=> i = 1)
  BY <1>2
<1>9. \A i, j \in 1..(n - k) : d[i] = d[j] => i = j
  <2>. SUFFICES ASSUME NEW i \in 1..(n - k), NEW j \in 1..(n - k), d[i] = d[j] PROVE i = j
    OBVIOUS
  <2>1. k + i = k + j
    BY <1>3, <1>5, <1>8
  <2>. QED  BY <1>2, <2>1
<1>10. m.head = IF n = k THEN Null ELSE d[1]
  BY <1>1, <1>2, <1>5 DEF Drops
<1>11. ASSUME NEW i \in 1..(n - k) PROVE m.next[d[i]] = IF i = n - k THEN Null ELSE d[i + 1]
  <2>1. d[i] = c[k + i] /\ m.next[c[k + i]] = IF k + i = n THEN Null ELSE c[(k + i) + 1]
    BY <1>1, <1>4, <1>5, <1>8 DEF Drops
  <2>2. ASSUME i # n - k PROVE d[i + 1] = c[(k + i) + 1]
    <3>1. i + 1 \in 1..(n - k) /\ k + (i + 1) = (k + i) + 1
      BY <1>2, <2>2
    <3>. QED  BY <1>5, <3>1
  <2>. QED  BY <1>8, <2>1, <2>2
<1>12. ASSUME NEW i \in 1..(n - k) PROVE m.prev[d[i]] = IF i = 1 THEN Null ELSE d[i - 1]
  <2>1. CASE i = 1
    <3>1. d[i] = c[k + 1] /\ k < n
      BY <1>2, <1>5, <2>1
    <3>. QED  BY <1>1, <2>1, <3>1 DEF Drops
  <2>2. CASE i # 1
    <3>1. k + i \in 1..n /\ k + i # k + 1 /\ k + i # 1 /\ i - 1 \in 1..(n - k) /\ (k + i) - 1 = k + (i - 1)
      BY <1>2, <2>2
    <3>2. d[i] = c[k + i] /\ d[i - 1] = c[k + (i - 1)]
      BY <1>5, <3>1
    <3>3. m.prev[c[k + i]] = l.prev[c[k + i]]
      BY <1>1, <3>1 DEF Drops
    <3>. QED  BY <1>4, <2>2, <3>1, <3>2, <3>3
  <2>. QED  BY <2>1, <2>2
<1>13. n # k => m.tail = d[n - k]
  BY <1>2, <1>4, <1>5 DEF Drops
<1>14. Linked(m, d)
  BY <1>5, <1>7, <1>9, <1>10, <1>11, <1>12, <1>13 DEF Linked, IsChain
<1>15. /\ Nodes(d) = {d[i] : i \in 1..(n - k)} /\ Nodes(b) = {b[i] : i \in 1..k}
       /\ Nodes(c) = {c[i] : i \in 1..n}
  BY <1>1, <1>2, <1>5, <1>6, LenProperties DEF Nodes
<1>16. Nodes(d) \subseteq Nodes(c) \ Nodes(b)
  <2>1. ASSUME NEW i \in 1..(n - k), NEW j \in 1..k PROVE d[i] # b[j]
    <3>1. k + i \in 1..n /\ j \in 1..n /\ k + i # j
      BY <1>2
    <3>. QED  BY <1>3, <1>5, <1>6, <3>1
  <2>2. \A i \in 1..(n - k) : d[i] \in Nodes(c)
    BY <1>5, <1>8, <1>15
  <2>3. \A i \in 1..(n - k) : d[i] \notin Nodes(b)
    BY <1>15, <2>1
  <2>. QED  BY <1>15, <2>2, <2>3
<1>17. ASSUME NEW i \in 1..n, c[i] \notin Nodes(b) PROVE c[i] \in Nodes(d)
  <2>1. i > k
    BY <1>2, <1>6, <1>15, <1>17
  <2>2. i - k \in 1..(n - k) /\ k + (i - k) = i
    BY <1>2, <2>1
  <2>3. d[i - k] = c[i]
    BY <1>5, <2>2
  <2>. QED  BY <1>15, <2>2, <2>3
<1>18. Nodes(d) = Nodes(c) \ Nodes(b)
  BY <1>15, <1>16, <1>17
<1>. QED  BY <1>14, <1>18 DEF d, b, Dropped

-----------------------------------------------------------------------------
(* The loops *)

(* The first k nodes of c are due by e, and no other one is. *)
Split(l, c, k, e) ==
    /\ k \in 0..Len(c)
    /\ \A i \in 1..k : l.expire[c[i]] <= e
    /\ \A i \in (k + 1)..Len(c) : e < l.expire[c[i]]

(* Deadlines are numbers. *)
LEMMA DeadlineType ==
    ASSUME NEW l \in Lists
    PROVE  \A t \in Timers : l.expire[t] \in Int
<1>1. l.expire \in [Timers -> 0..(MaxTime + MaxSpan)]
  BY DEF Lists
<1>2. 0..(MaxTime + MaxSpan) \subseteq Int
  BY ListAssumption
<1>. QED  BY <1>1, <1>2

(* What the chain of a list of the right types gives the loops. *)
LEMMA Deadlines ==
    ASSUME NEW l \in Lists, NEW c, Linked(l, c)
    PROVE  /\ c \in Seq(Timers) /\ Len(c) \in Nat
           /\ \A t \in Timers : l.expire[t] \in Int
           /\ \A i \in 1..Len(c) : c[i] \in Timers /\ l.expire[c[i]] \in Int
<1>1. c \in Seq(Timers)
  BY DEF Linked
<1>2. Len(c) \in Nat /\ \A i \in 1..Len(c) : c[i] \in Timers
  BY <1>1, LenProperties, ElementOfSeq
<1>3. \A t \in Timers : l.expire[t] \in Int
  BY DeadlineType
<1>. QED  BY <1>1, <1>2, <1>3

(* The loop of tick stops behind every due timer, because the list is      *)
(* sorted.                                                                 *)
LEMMA DueSplits ==
    ASSUME NEW l \in Lists, NEW c, Linked(l, c), Sorted(l, c), NEW cur \in Int
    PROVE  Split(l, c, Due(l, cur), cur)
<1>1. c = Chain(l)
  BY ChainOf
<1>2. PICK n \in Nat : n = Len(c)
  BY Deadlines
<1>3. \A i \in 1..n : l.expire[c[i]] \in Int
  BY <1>2, Deadlines
<1>. DEFINE P(k) == (\A i \in 1..k : cur >= l.expire[c[i]]) /\ (k = n \/ cur < l.expire[c[k + 1]])
            T == {i \in 1..n : cur < l.expire[c[i]]}
<1>4. \E k \in 0..n : P(k)
  <2>1. CASE T = {}
    <3>1. n \in 0..n /\ \A i \in 1..n : cur >= l.expire[c[i]]
      BY <1>3, <2>1
    <3>. QED  BY <3>1
  <2>2. CASE T # {}
    <3>1. PICK x \in T : \A y \in T : x <= y
      BY <2>2, FirstPlace
    <3>2. x - 1 \in 0..n /\ (x - 1) + 1 = x
      OBVIOUS
    <3>3. \A i \in 1..(x - 1) : cur >= l.expire[c[i]]
      BY <1>3, <3>1
    <3>. QED  BY <3>2, <3>3
  <2>. QED  BY <2>1, <2>2
<1>5. Due(l, cur) = CHOOSE k \in 0..n : P(k)
  BY <1>1, <1>2 DEF Due
<1>6. Due(l, cur) \in 0..n /\ P(Due(l, cur))
  <2>. HIDE DEF P
  <2>. QED  BY <1>4, <1>5
<1>7. PICK k \in 0..n : k = Due(l, cur)
  BY <1>6
<1>8. P(k)
  BY <1>6, <1>7
<1>9. ASSUME NEW i \in (k + 1)..n PROVE cur < l.expire[c[i]]
  <2>1. k + 1 \in 1..n /\ i \in 1..n /\ cur < l.expire[c[k + 1]]
    BY <1>8
  <2>2. l.expire[c[k + 1]] <= l.expire[c[i]]
    <3>1. CASE i = k + 1
      BY <1>3, <3>1
    <3>2. CASE k + 1 < i
      BY <1>2, <2>1, <3>2 DEF Sorted
    <3>. QED  BY <3>1, <3>2
  <2>. QED  BY <1>3, <2>1, <2>2
<1>10. \A i \in 1..k : l.expire[c[i]] <= cur
  BY <1>3, <1>8
<1>. QED  BY <1>2, <1>7, <1>9, <1>10 DEF Split

(* The private add_timer stops where timer belongs, when it starts at a    *)
(* node that is due no later.                                              *)
LEMMA SlotSplits ==
    ASSUME NEW l \in Lists, NEW c, Linked(l, c), Sorted(l, c), NEW timer \in Timers,
           NEW h \in 1..Len(c), l.expire[c[h]] <= l.expire[timer]
    PROVE  /\ Slot(l, timer, c[h]) \in 1..Len(c)
           /\ Split(l, c, Slot(l, timer, c[h]), l.expire[timer])
<1>1. c = Chain(l)
  BY ChainOf
<1>2. PICK n \in Nat : n = Len(c)
  BY Deadlines
<1>3. \A i \in 1..n : l.expire[c[i]] \in Int
  BY <1>2, Deadlines
<1>4. PICK e \in Int : e = l.expire[timer]
  BY Deadlines
<1>5. h \in 1..n /\ l.expire[c[h]] <= e
  BY <1>2, <1>4
<1>. DEFINE Stops(i) == i = n \/ e < l.expire[c[i + 1]]
            P(k) == Stops(k) /\ \E g \in 1..k : c[g] = c[h] /\ \A i \in g..(k - 1) : ~Stops(i)
            T == {k \in h..n : Stops(k)}
<1>6. \E k \in 1..n : P(k)
  <2>1. n \in T
    BY <1>5
  <2>2. T \subseteq 1..n
    BY <1>5
  <2>3. PICK x \in T : \A y \in T : x <= y
    BY <2>1, <2>2, FirstPlace
  <2>4. x \in h..n /\ x \in 1..n /\ Stops(x)
    BY <2>2
  <2>5. \A i \in h..(x - 1) : ~Stops(i)
    <3>. SUFFICES ASSUME NEW i \in h..(x - 1), Stops(i) PROVE FALSE
      OBVIOUS
    <3>1. i \in h..n /\ i < x
      BY <1>5, <2>4
    <3>2. i \in T
      BY <3>1
    <3>. QED  BY <1>5, <2>3, <2>4, <3>1, <3>2
  <2>6. h \in 1..x
    BY <1>5, <2>4
  <2>. QED  BY <2>4, <2>5, <2>6
<1>7. Slot(l, timer, c[h]) = CHOOSE k \in 1..n : P(k)
  BY <1>1, <1>2, <1>4 DEF Slot
<1>8. Slot(l, timer, c[h]) \in 1..n /\ P(Slot(l, timer, c[h]))
  <2>. HIDE DEF P
  <2>. QED  BY <1>6, <1>7
<1>9. PICK k \in 1..n : k = Slot(l, timer, c[h])
  BY <1>8
<1>10. PICK g \in 1..k : c[g] = c[h] /\ \A i \in g..(k - 1) : ~Stops(i)
  BY <1>8, <1>9
<1>11. Stops(k)
  BY <1>8, <1>9
<1>12. g = h
  <2>1. \A i, j \in 1..n : c[i] = c[j] => i = j
    BY <1>2 DEF Linked
  <2>2. g \in 1..n
    OBVIOUS
  <2>. QED  BY <1>5, <1>10, <2>1, <2>2
<1>13. ASSUME NEW i \in 1..k PROVE l.expire[c[i]] <= e
  <2>1. CASE i < h
    <3>1. l.expire[c[i]] <= l.expire[c[h]]
      BY <1>2, <1>5, <2>1 DEF Sorted
    <3>2. i \in 1..n
      OBVIOUS
    <3>. QED  BY <1>3, <1>5, <3>1, <3>2
  <2>2. CASE i = h
    BY <1>5, <2>2
  <2>3. CASE i > h
    <3>1. i - 1 \in g..(k - 1) /\ (i - 1) + 1 = i /\ i \in 1..n
      BY <1>5, <1>12, <2>3
    <3>2. ~(e < l.expire[c[i]])
      BY <1>10, <3>1
    <3>. QED  BY <1>3, <3>1, <3>2
  <2>. QED  BY <1>5, <2>1, <2>2, <2>3
<1>14. ASSUME NEW i \in (k + 1)..n PROVE e < l.expire[c[i]]
  <2>1. k + 1 \in 1..n /\ i \in 1..n /\ e < l.expire[c[k + 1]]
    BY <1>11
  <2>2. l.expire[c[k + 1]] <= l.expire[c[i]]
    <3>1. CASE i = k + 1
      BY <1>3, <2>1, <3>1
    <3>2. CASE k + 1 < i
      BY <1>2, <2>1, <3>2 DEF Sorted
    <3>. QED  BY <3>1, <3>2
  <2>. QED  BY <1>3, <2>1, <2>2
<1>15. k \in 0..n
  OBVIOUS
<1>16. Split(l, c, k, e)
  BY <1>2, <1>13, <1>14, <1>15 DEF Split
<1>. QED  BY <1>2, <1>4, <1>9, <1>16

-----------------------------------------------------------------------------
(* The methods *)

(* The list l with the chain c becomes m: timer is in its place. *)
Placed(l, m, c, timer) ==
    /\ m \in Lists /\ m.expire = l.expire
    /\ \E k \in 0..Len(c) :
        /\ Split(l, c, k, l.expire[timer])
        /\ Linked(m, InsertAt(c, k + 1, timer)) /\ Sorted(m, InsertAt(c, k + 1, timer))
        /\ Nodes(InsertAt(c, k + 1, timer)) = Nodes(c) \cup {timer}

(* A timer inserted where the list is split leaves it sorted. *)
LEMMA InsertSorted ==
    ASSUME NEW l \in Lists, NEW c \in Seq(Timers), Sorted(l, c), NEW timer \in Timers,
           NEW k, Split(l, c, k, l.expire[timer])
    PROVE  Sorted(l, InsertAt(c, k + 1, timer))
<1>. DEFINE d == InsertAt(c, k + 1, timer)
<1>1. PICK n \in Nat : n = Len(c)
  BY LenProperties
<1>2. PICK e \in Int : e = l.expire[timer]
  BY DeadlineType
<1>3. \A i \in 1..n : l.expire[c[i]] \in Int
  BY <1>1, DeadlineType, ElementOfSeq
<1>4. /\ k \in 0..n
      /\ \A i \in 1..k : l.expire[c[i]] <= e
      /\ \A i \in (k + 1)..n : e < l.expire[c[i]]
  BY <1>1, <1>2 DEF Split
<1>5. /\ Len(d) = n + 1
      /\ \A j \in 1..(n + 1) : d[j] = IF j < k + 1 THEN c[j] ELSE IF j = k + 1 THEN timer ELSE c[j - 1]
  <2>1. k + 1 \in 1..(n + 1)
    BY <1>4
  <2>2. k + 1 \in 1..(Len(c) + 1)
    BY <1>1, <2>1
  <2>3. /\ Len(d) = Len(c) + 1
        /\ \A j \in 1..(Len(c) + 1) :
             d[j] = IF j < k + 1 THEN c[j] ELSE IF j = k + 1 THEN timer ELSE c[j - 1]
    BY <2>2, InsertAtProperties
  <2>. HIDE DEF d
  <2>. QED  BY <1>1, <2>3
<1>6. \A i, j \in 1..n : i < j => l.expire[c[i]] <= l.expire[c[j]]
  BY <1>1 DEF Sorted
<1>. HIDE DEF d
<1>7. ASSUME NEW i \in 1..(n + 1), NEW j \in 1..(n + 1), i < j
      PROVE  l.expire[d[i]] <= l.expire[d[j]]
  <2>1. CASE i = k + 1
    <3>1. d[i] = timer /\ d[j] = c[j - 1] /\ j - 1 \in (k + 1)..n /\ j - 1 \in 1..n
      BY <1>4, <1>5, <1>7, <2>1
    <3>2. e < l.expire[c[j - 1]] /\ l.expire[c[j - 1]] \in Int
      BY <1>3, <1>4, <3>1
    <3>. QED  BY <1>2, <3>1, <3>2
  <2>2. CASE j = k + 1
    <3>1. d[j] = timer /\ d[i] = c[i] /\ i \in 1..k
      BY <1>4, <1>5, <1>7, <2>2
    <3>. QED  BY <1>2, <1>4, <3>1
  <2>3. CASE i # k + 1 /\ j # k + 1
    <3>1. PICK a \in 1..n : d[i] = c[a] /\ a = IF i < k + 1 THEN i ELSE i - 1
      BY <1>4, <1>5, <2>3
    <3>2. PICK b \in 1..n : d[j] = c[b] /\ b = IF j < k + 1 THEN j ELSE j - 1
      BY <1>4, <1>5, <2>3
    <3>3. a < b
      BY <1>4, <1>7, <2>3, <3>1, <3>2
    <3>. QED  BY <1>6, <3>1, <3>2, <3>3
  <2>. QED  BY <2>1, <2>2, <2>3
<1>8. Sorted(l, d)
  BY <1>5, <1>7 DEF Sorted
<1>. QED  BY <1>8 DEF d

(* A timer linked in where the list is split is in its place. *)
LEMMA InsertPlaces ==
    ASSUME NEW l \in Lists, NEW m \in Lists, NEW c, Linked(l, c), Sorted(l, c),
           NEW timer \in Timers, timer \notin Nodes(c), m.expire = l.expire,
           NEW k, Split(l, c, k, l.expire[timer]), Inserts(l, m, c, k, timer)
    PROVE  Placed(l, m, c, timer)
<1>. DEFINE d == InsertAt(c, k + 1, timer)
<1>1. k \in 0..Len(c) /\ c \in Seq(Timers)
  BY DEF Split, Linked
<1>2. Linked(m, d) /\ Nodes(d) = Nodes(c) \cup {timer}
  BY <1>1, InsertLinked, SMTT(30)
<1>3. Sorted(l, d)
  BY <1>1, InsertSorted
<1>4. Sorted(m, d)
  BY <1>3 DEF Sorted
<1>. QED  BY <1>1, <1>2, <1>4 DEF Placed, d

(* The assignments of add_timer: timer between the nodes q and r, or behind *)
(* the last node q.                                                         *)
Between(l, timer, q, r) ==
    [l EXCEPT !.next[q] = timer, !.next[timer] = r, !.prev[r] = timer, !.prev[timer] = q]

Behind(l, timer, q) ==
    [l EXCEPT !.next[q] = timer, !.prev[timer] = q, !.next[timer] = Null, !.tail = timer]

(* What they do to each member of the list. *)
IsBetween(l, m, timer, q, r) ==
    /\ m \in Lists /\ m.head = l.head /\ m.tail = l.tail /\ m.expire = l.expire
    /\ \A x \in Timers :
        /\ m.next[x] = IF x = timer THEN r ELSE IF x = q THEN timer ELSE l.next[x]
        /\ m.prev[x] = IF x = timer THEN q ELSE IF x = r THEN timer ELSE l.prev[x]

IsBehind(l, m, timer, q) ==
    /\ m \in Lists /\ m.head = l.head /\ m.tail = timer /\ m.expire = l.expire
    /\ \A x \in Timers :
        /\ m.next[x] = IF x = timer THEN Null ELSE IF x = q THEN timer ELSE l.next[x]
        /\ m.prev[x] = IF x = timer THEN q ELSE l.prev[x]

(* The two assignments to next and to prev. *)
LEMMA BetweenMembers ==
    ASSUME NEW l \in Lists, NEW q \in Timers, NEW r \in Timers, NEW timer \in Timers
    PROVE  IsBetween(l, Between(l, timer, q, r), timer, q, r)
BY DEF Lists, Pointers, Between, IsBetween

(* The assignments at the end of the list. *)
LEMMA BehindMembers ==
    ASSUME NEW l \in Lists, NEW q \in Timers, NEW timer \in Timers
    PROVE  IsBehind(l, Behind(l, timer, q), timer, q)
BY DEF Lists, Pointers, Behind, IsBehind

(* The private add_timer puts timer in its place. *)
LEMMA AddFromPlaces ==
    ASSUME NEW l \in Lists, NEW c, Linked(l, c), Sorted(l, c), NEW timer \in Timers,
           timer \notin Nodes(c), NEW h \in 1..Len(c), l.expire[c[h]] <= l.expire[timer]
    PROVE  Placed(l, add_timer_from(l, timer, c[h]), c, timer)
<1>. DEFINE m == add_timer_from(l, timer, c[h])
<1>1. PICK n \in Nat : n = Len(c)
  BY Deadlines
<1>2. PICK k \in 1..n : k = Slot(l, timer, c[h])
  BY <1>1, SlotSplits
<1>3. Split(l, c, k, l.expire[timer])
  BY <1>2, SlotSplits
<1>4. /\ \A i \in 1..n : c[i] \in Timers /\ c[i] # Null /\ c[i] # timer
      /\ \A i, j \in 1..n : c[i] = c[j] => i = j
  <2>1. c \in Seq(Timers)
    BY DEF Linked
  <2>2. \A i \in 1..Len(c) : c[i] \in Nodes(c)
    BY <2>1 DEF Nodes
  <2>. QED  BY <1>1, <2>1, <2>2, ElementOfSeq, ListAssumption DEF Linked
<1>6. PICK q \in Timers : q = c[k]
  BY <1>2, <1>4
<1>7. PICK r : r = l.next[q]
  OBVIOUS
<1>8. r = IF k = n THEN Null ELSE c[k + 1]
  BY <1>1, <1>2, <1>6, <1>7 DEF Linked, IsChain
<1>9. q = Chain(l)[Slot(l, timer, c[h])]
  BY <1>2, <1>6, ChainOf
<1>10. m = IF r # Null THEN Between(l, timer, q, r) ELSE Behind(l, timer, q)
  BY <1>7, <1>9, Zenon DEF add_timer_from, Between, Behind
<1>. HIDE DEF m
<1>11. k # n => r \in Timers /\ r # Null /\ k + 1 \in 1..n
  <2>1. k # n => k + 1 \in 1..n
    OBVIOUS
  <2>. QED  BY <1>4, <1>8, <2>1
<1>12. CASE k = n
  <2>1. r = Null
    BY <1>8, <1>12
  <2>2. IsBehind(l, m, timer, q)
    BY <1>10, <2>1, BehindMembers
  <2>3. m.next[timer] = Null /\ m.next[q] = timer /\ m.prev[timer] = q
    BY <1>2, <1>4, <1>6, <2>2 DEF IsBehind
  <2>4. \A i \in 1..n : i # k => m.next[c[i]] = l.next[c[i]]
    BY <1>2, <1>4, <1>6, <2>2 DEF IsBehind
  <2>5. \A i \in 1..n : m.prev[c[i]] = l.prev[c[i]]
    BY <1>4, <2>2 DEF IsBehind
  <2>6. Inserts(l, m, c, k, timer)
    BY <1>1, <1>6, <1>12, <2>2, <2>3, <2>4, <2>5 DEF Inserts, IsBehind
  <2>7. Placed(l, m, c, timer)
    BY <1>3, <2>2, <2>6, InsertPlaces DEF IsBehind
  <2>. QED  BY <2>7 DEF m
<1>13. CASE k # n
  <2>1. r # Null /\ r \in Timers /\ r = c[k + 1] /\ k + 1 \in 1..n
    BY <1>8, <1>11, <1>13
  <2>2. IsBetween(l, m, timer, q, r)
    BY <1>10, <2>1, BetweenMembers
  <2>3. m.next[timer] = r /\ m.next[q] = timer /\ m.prev[timer] = q /\ m.prev[r] = timer
    BY <1>2, <1>4, <1>6, <2>1, <2>2 DEF IsBetween
  <2>4. \A i \in 1..n : i # k => m.next[c[i]] = l.next[c[i]]
    BY <1>2, <1>4, <1>6, <2>2 DEF IsBetween
  <2>5. \A i \in 1..n : i # k + 1 => m.prev[c[i]] = l.prev[c[i]]
    BY <1>4, <2>1, <2>2 DEF IsBetween
  <2>6. Inserts(l, m, c, k, timer)
    BY <1>1, <1>6, <1>13, <2>1, <2>2, <2>3, <2>4, <2>5 DEF Inserts, IsBetween
  <2>7. Placed(l, m, c, timer)
    BY <1>3, <2>2, <2>6, InsertPlaces DEF IsBetween
  <2>. QED  BY <2>7 DEF m
<1>. QED  BY <1>12, <1>13

(* The assignments of the other methods.                                   *)
NobodyIn(l) == [l EXCEPT !.head = Null, !.tail = Null]

Headless(l) == [l EXCEPT !.head = Null]

Alone(l, timer) == [l EXCEPT !.head = timer, !.tail = timer]

Before(l, timer) == [l EXCEPT !.next[timer] = l.head, !.prev[l.head] = timer, !.head = timer]

HeadTo(l, r) == [l EXCEPT !.head = r, !.prev[r] = Null]

HeadOut(l, timer, r) == [l EXCEPT !.head = r, !.prev[r] = Null, !.next[timer] = Null]

TailTo(l, q) == [l EXCEPT !.tail = q, !.next[q] = Null]

Joined(l, q, r) == [l EXCEPT !.next[q] = r, !.prev[r] = q]

(* The list l becomes m: head and tail are hd and tl, next[a] is x, prev[b] *)
(* is y, and nothing else changes (Null for a or b: no such assignment).    *)
Sets(l, m, hd, tl, a, x, b, y) ==
    /\ m \in Lists /\ m.head = hd /\ m.tail = tl /\ m.expire = l.expire
    /\ \A z \in Timers :
        /\ m.next[z] = IF z = a THEN x ELSE l.next[z]
        /\ m.prev[z] = IF z = b THEN y ELSE l.prev[z]

(* Both ends are reset. *)
LEMMA NobodySets ==
    ASSUME NEW l \in Lists
    PROVE  Sets(l, NobodyIn(l), Null, Null, Null, Null, Null, Null)
BY ListAssumption DEF Lists, Pointers, Sets, NobodyIn

(* Only the head is reset. *)
LEMMA HeadlessSets ==
    ASSUME NEW l \in Lists
    PROVE  Sets(l, Headless(l), Null, l.tail, Null, Null, Null, Null)
BY ListAssumption DEF Lists, Pointers, Sets, Headless

(* The first timer. *)
LEMMA AloneSets ==
    ASSUME NEW l \in Lists, NEW timer \in Timers
    PROVE  Sets(l, Alone(l, timer), timer, timer, Null, Null, Null, Null)
BY ListAssumption DEF Lists, Pointers, Sets, Alone

(* A timer before the head. *)
LEMMA BeforeSets ==
    ASSUME NEW l \in Lists, NEW timer \in Timers, l.head \in Timers
    PROVE  Sets(l, Before(l, timer), timer, l.tail, timer, l.head, l.head, timer)
BY ListAssumption DEF Lists, Pointers, Sets, Before

(* Another node becomes the head. *)
LEMMA HeadToSets ==
    ASSUME NEW l \in Lists, NEW r \in Timers
    PROVE  Sets(l, HeadTo(l, r), r, l.tail, Null, Null, r, Null)
BY ListAssumption DEF Lists, Pointers, Sets, HeadTo

(* The head is taken out, to be inserted again. *)
LEMMA HeadOutSets ==
    ASSUME NEW l \in Lists, NEW timer \in Timers, NEW r \in Timers
    PROVE  Sets(l, HeadOut(l, timer, r), r, l.tail, timer, Null, r, Null)
BY ListAssumption DEF Lists, Pointers, Sets, HeadOut

(* Another node becomes the tail. *)
LEMMA TailToSets ==
    ASSUME NEW l \in Lists, NEW q \in Timers
    PROVE  Sets(l, TailTo(l, q), l.head, q, q, Null, Null, Null)
BY ListAssumption DEF Lists, Pointers, Sets, TailTo

(* Two nodes are joined over the one between them. *)
LEMMA JoinedSets ==
    ASSUME NEW l \in Lists, NEW q \in Timers, NEW r \in Timers
    PROVE  Sets(l, Joined(l, q, r), l.head, l.tail, q, r, r, q)
BY ListAssumption DEF Lists, Pointers, Sets, Joined

(* What a well linked list of length n says of its members. *)
LEMMA LinkedMembers ==
    ASSUME NEW l, NEW c, Linked(l, c), NEW n, n = Len(c)
    PROVE  /\ \A i \in 1..n : c[i] \in Timers /\ c[i] # Null /\ c[i] \in Nodes(c)
           /\ \A i, j \in 1..n : c[i] = c[j] => i = j
           /\ l.head = IF n = 0 THEN Null ELSE c[1]
           /\ n # 0 => l.tail = c[n]
           /\ \A i \in 1..n : l.next[c[i]] = IF i = n THEN Null ELSE c[i + 1]
           /\ \A i \in 1..n : l.prev[c[i]] = IF i = 1 THEN Null ELSE c[i - 1]
<1>1. c \in Seq(Timers)
  BY DEF Linked
<1>2. c = <<>> <=> n = 0
  BY <1>1, EmptySeq
<1>3. \A i \in 1..n : c[i] \in Timers /\ c[i] # Null
  BY <1>1, ElementOfSeq, ListAssumption
<1>4. \A i \in 1..n : c[i] \in Nodes(c)
  BY <1>1 DEF Nodes
<1>. QED  BY <1>2, <1>3, <1>4 DEF Linked, IsChain

(* add_timer puts a new timer in its place. *)
LEMMA AddPlaces ==
    ASSUME NEW l \in Lists, NEW c, Linked(l, c), Sorted(l, c), NEW timer \in Timers,
           timer \notin Nodes(c), l.next[timer] = Null, l.prev[timer] = Null
    PROVE  Placed(l, add_timer(l, timer), c, timer)
<1>1. PICK n \in Nat : n = Len(c)
  BY Deadlines
<1>2. /\ \A i \in 1..n : c[i] \in Timers /\ c[i] # Null /\ c[i] # timer /\ l.expire[c[i]] \in Int
      /\ l.head = IF n = 0 THEN Null ELSE c[1]
      /\ \A i, j \in 1..n : c[i] = c[j] => i = j
  BY <1>1, LinkedMembers, Deadlines
<1>3. PICK e \in Int : e = l.expire[timer]
  BY Deadlines
<1>4. CASE n = 0
  <2>. DEFINE m == Alone(l, timer)
  <2>1. add_timer(l, timer) = m
    BY <1>2, <1>4, Zenon DEF add_timer, Alone
  <2>2. Sets(l, m, timer, timer, Null, Null, Null, Null)
    BY AloneSets
  <2>. HIDE DEF m
  <2>3. m \in Lists /\ m.expire = l.expire /\ m.next[timer] = Null /\ m.prev[timer] = Null
    BY <2>2, ListAssumption DEF Sets
  <2>4. Inserts(l, m, c, 0, timer)
    BY <1>1, <1>4, <2>2, <2>3 DEF Inserts, Sets
  <2>5. Split(l, c, 0, l.expire[timer])
    BY <1>1, <1>4 DEF Split
  <2>6. Placed(l, m, c, timer)
    BY <2>3, <2>4, <2>5, InsertPlaces
  <2>. QED  BY <2>1, <2>6
<1>5. CASE n # 0 /\ e < l.expire[c[1]]
  <2>. DEFINE m == Before(l, timer)
  <2>0. 1 \in 1..n
    BY <1>5
  <2>1. l.head = c[1] /\ l.head \in Timers /\ l.head # Null
    BY <1>2, <1>5, <2>0
  <2>2. add_timer(l, timer) = m
    BY <1>3, <1>5, <2>1, Zenon DEF add_timer, Before
  <2>3. Sets(l, m, timer, l.tail, timer, l.head, l.head, timer)
    BY <2>1, BeforeSets
  <2>. HIDE DEF m
  <2>4. /\ m \in Lists /\ m.head = timer /\ m.tail = l.tail /\ m.expire = l.expire
        /\ \A z \in Timers :
            /\ m.next[z] = IF z = timer THEN c[1] ELSE l.next[z]
            /\ m.prev[z] = IF z = c[1] THEN timer ELSE l.prev[z]
    BY <2>1, <2>3 DEF Sets
  <2>5. /\ m.next[timer] = c[1] /\ m.prev[timer] = Null /\ m.prev[c[1]] = timer
        /\ \A i \in 1..n : m.next[c[i]] = l.next[c[i]]
        /\ \A i \in 1..n : i # 1 => m.prev[c[i]] = l.prev[c[i]]
    BY <1>2, <2>0, <2>1, <2>4
  <2>6. Inserts(l, m, c, 0, timer)
    BY <1>1, <1>5, <2>4, <2>5 DEF Inserts
  <2>7. \A i \in 1..n : e < l.expire[c[i]]
    <3>. SUFFICES ASSUME NEW i \in 1..n PROVE e < l.expire[c[i]]
      OBVIOUS
    <3>1. CASE i = 1
      BY <1>5, <3>1
    <3>2. CASE i # 1
      <4>1. l.expire[c[1]] <= l.expire[c[i]]
        BY <1>1, <2>0, <3>2 DEF Sorted
      <4>. QED  BY <1>2, <1>5, <2>0, <4>1
    <3>. QED  BY <3>1, <3>2
  <2>8. Split(l, c, 0, l.expire[timer])
    BY <1>1, <1>3, <2>7 DEF Split
  <2>9. Placed(l, m, c, timer)
    BY <2>4, <2>6, <2>8, InsertPlaces
  <2>. QED  BY <2>2, <2>9
<1>6. CASE n # 0 /\ ~(e < l.expire[c[1]])
  <2>1. 1 \in 1..n
    BY <1>6
  <2>2. l.head = c[1] /\ l.head # Null
    BY <1>2, <1>6, <2>1
  <2>3. add_timer(l, timer) = add_timer_from(l, timer, c[1])
    BY <1>3, <1>6, <2>2, Zenon DEF add_timer
  <2>4. l.expire[c[1]] <= l.expire[timer]
    BY <1>2, <1>3, <1>6, <2>1
  <2>. QED  BY <1>1, <2>1, <2>3, <2>4, AddFromPlaces
<1>. QED  BY <1>4, <1>5, <1>6

(* del_timer unlinks the timer, wherever it is in the list. *)
LEMMA DelUnlinks ==
    ASSUME NEW l \in Lists, NEW c, Linked(l, c), NEW p \in 1..Len(c)
    PROVE  LET m == del_timer(l, c[p])
           IN  m \in Lists /\ m.expire = l.expire /\ Unlinks(l, m, c, p)
<1>1. PICK n \in Nat : n = Len(c)
  BY Deadlines
<1>2. p \in 1..n /\ n # 0
  BY <1>1
<1>3. /\ \A i \in 1..n : c[i] \in Timers /\ c[i] # Null
      /\ \A i, j \in 1..n : c[i] = c[j] => i = j
      /\ l.head = c[1] /\ l.tail = c[n]
      /\ l.next[c[p]] = IF p = n THEN Null ELSE c[p + 1]
      /\ l.prev[c[p]] = IF p = 1 THEN Null ELSE c[p - 1]
  BY <1>1, <1>2, LinkedMembers
<1>4. (c[p] = l.head <=> p = 1) /\ (c[p] = l.tail <=> p = n)
  BY <1>2, <1>3
<1>. DEFINE m == del_timer(l, c[p])
<1>5. CASE p = 1 /\ p = n
  <2>1. m = NobodyIn(l)
    BY <1>4, <1>5, Zenon DEF del_timer, NobodyIn
  <2>2. Sets(l, m, Null, Null, Null, Null, Null, Null)
    BY <2>1, NobodySets
  <2>. HIDE DEF m
  <2>3. m \in Lists /\ m.expire = l.expire /\ m.head = Null
    BY <2>2 DEF Sets
  <2>4. Len(c) = 1 /\ p = 1 /\ \A i \in 1..1 : i = p
    <3>1. \A i \in 1..1 : i = 1
      OBVIOUS
    <3>. QED  BY <1>1, <1>5, <3>1, Zenon
  <2>5. Unlinks(l, m, c, p)
    BY <2>3, <2>4 DEF Unlinks
  <2>. QED  BY <2>3, <2>5 DEF m
<1>6. CASE p = 1 /\ p # n
  <2>1. c[2] \in Timers /\ l.next[c[p]] = c[2] /\ 2 \in 1..n
    BY <1>2, <1>3, <1>6
  <2>2. m = HeadTo(l, c[2])
    BY <1>4, <1>6, <2>1, Zenon DEF del_timer, HeadTo
  <2>3. Sets(l, m, c[2], l.tail, Null, Null, c[2], Null)
    BY <2>1, <2>2, HeadToSets
  <2>. HIDE DEF m
  <2>4. /\ m \in Lists /\ m.expire = l.expire /\ m.head = c[2] /\ m.tail = l.tail
        /\ m.prev[c[2]] = Null
    BY <2>1, <2>3 DEF Sets
  <2>5. /\ \A i \in 1..n : m.next[c[i]] = l.next[c[i]]
        /\ \A i \in 1..n : i # 2 => m.prev[c[i]] = l.prev[c[i]]
    BY <1>3, <2>1, <2>3 DEF Sets
  <2>6. Unlinks(l, m, c, p)
    BY <1>1, <1>6, <2>1, <2>4, <2>5 DEF Unlinks
  <2>. QED  BY <2>4, <2>6 DEF m
<1>7. CASE p # 1 /\ p = n
  <2>1. c[p - 1] \in Timers /\ l.prev[c[p]] = c[p - 1] /\ p - 1 \in 1..n
    BY <1>2, <1>3, <1>7
  <2>2. m = TailTo(l, c[p - 1])
    BY <1>4, <1>7, <2>1, Zenon DEF del_timer, TailTo
  <2>3. Sets(l, m, l.head, c[p - 1], c[p - 1], Null, Null, Null)
    BY <2>1, <2>2, TailToSets
  <2>. HIDE DEF m
  <2>4. /\ m \in Lists /\ m.expire = l.expire /\ m.head = l.head /\ m.tail = c[p - 1]
        /\ m.next[c[p - 1]] = Null
    BY <2>1, <2>3 DEF Sets
  <2>5. /\ \A i \in 1..n : i # p - 1 => m.next[c[i]] = l.next[c[i]]
        /\ \A i \in 1..n : m.prev[c[i]] = l.prev[c[i]]
    BY <1>3, <2>1, <2>3 DEF Sets
  <2>6. Unlinks(l, m, c, p)
    BY <1>1, <1>2, <1>7, <2>4, <2>5 DEF Unlinks
  <2>. QED  BY <2>4, <2>6 DEF m
<1>8. CASE p # 1 /\ p # n
  <2>1. /\ c[p - 1] \in Timers /\ l.prev[c[p]] = c[p - 1] /\ p - 1 \in 1..n
        /\ c[p + 1] \in Timers /\ l.next[c[p]] = c[p + 1] /\ p + 1 \in 1..n
    BY <1>2, <1>3, <1>8
  <2>2. m = Joined(l, c[p - 1], c[p + 1])
    BY <1>4, <1>8, <2>1, Zenon DEF del_timer, Joined
  <2>3. Sets(l, m, l.head, l.tail, c[p - 1], c[p + 1], c[p + 1], c[p - 1])
    BY <2>1, <2>2, JoinedSets
  <2>. HIDE DEF m
  <2>4. /\ m \in Lists /\ m.expire = l.expire /\ m.head = l.head /\ m.tail = l.tail
        /\ m.next[c[p - 1]] = c[p + 1] /\ m.prev[c[p + 1]] = c[p - 1]
    BY <2>1, <2>3 DEF Sets
  <2>5. /\ \A i \in 1..n : i # p - 1 => m.next[c[i]] = l.next[c[i]]
        /\ \A i \in 1..n : i # p + 1 => m.prev[c[i]] = l.prev[c[i]]
    BY <1>3, <2>1, <2>3 DEF Sets
  <2>6. Unlinks(l, m, c, p)
    BY <1>1, <1>2, <1>8, <2>4, <2>5 DEF Unlinks
  <2>. QED  BY <2>4, <2>6 DEF m
<1>. QED  BY <1>5, <1>6, <1>7, <1>8

(* tick moves head behind the due timers. *)
LEMMA TickDrops ==
    ASSUME NEW l \in Lists, NEW c, Linked(l, c), NEW cur, NEW k \in 0..Len(c), k = Due(l, cur)
    PROVE  LET m == tick(l, cur)
           IN  m \in Lists /\ m.expire = l.expire /\ Drops(l, m, c, k)
<1>1. PICK n \in Nat : n = Len(c)
  BY Deadlines
<1>2. k \in 0..n /\ c = Chain(l)
  BY <1>1, ChainOf
<1>3. /\ \A i \in 1..n : c[i] \in Timers
      /\ \A i, j \in 1..n : c[i] = c[j] => i = j
      /\ l.head = IF n = 0 THEN Null ELSE c[1]
      /\ n # 0 => l.prev[c[1]] = Null
  <2>1. /\ \A i \in 1..n : c[i] \in Timers
        /\ \A i, j \in 1..n : c[i] = c[j] => i = j
        /\ l.head = IF n = 0 THEN Null ELSE c[1]
    BY <1>1, LinkedMembers
  <2>2. \A i \in 1..n : l.prev[c[i]] = IF i = 1 THEN Null ELSE c[i - 1]
    BY <1>1, LinkedMembers
  <2>. QED  BY <2>1, <2>2
<1>. DEFINE m == tick(l, cur)
<1>4. CASE k = 0
  <2>1. ~(k > 0)
    BY <1>4
  <2>2. m = l
    BY <1>4, <2>1, Zenon DEF tick
  <2>. HIDE DEF m
  <2>3. Drops(l, m, c, k)
    BY <1>1, <1>3, <1>4, <2>2 DEF Drops
  <2>. QED  BY <2>2, <2>3 DEF m
<1>5. CASE k # 0 /\ k = n
  <2>1. k > 0 /\ k = Len(Chain(l))
    BY <1>1, <1>2, <1>5
  <2>2. m = Headless(l)
    BY <1>5, <2>1, Zenon DEF tick, Headless
  <2>3. Sets(l, m, Null, l.tail, Null, Null, Null, Null)
    BY <2>2, HeadlessSets
  <2>. HIDE DEF m
  <2>4. m \in Lists /\ m.expire = l.expire /\ m.head = Null /\ m.tail = l.tail
    BY <2>3 DEF Sets
  <2>5. \A i \in 1..n : m.next[c[i]] = l.next[c[i]] /\ m.prev[c[i]] = l.prev[c[i]]
    BY <1>3, <2>3, ListAssumption DEF Sets
  <2>6. Drops(l, m, c, k)
    BY <1>1, <1>5, <2>4, <2>5 DEF Drops
  <2>. QED  BY <2>4, <2>6 DEF m
<1>6. CASE k # 0 /\ k # n
  <2>1. k + 1 \in 1..n /\ c[k + 1] \in Timers
    BY <1>2, <1>3, <1>6
  <2>2. k # Len(Chain(l))
    BY <1>1, <1>2, <1>6
  <2>3. m = HeadTo(l, c[k + 1])
    BY <1>2, <1>6, <2>2, Zenon DEF tick, HeadTo
  <2>4. Sets(l, m, c[k + 1], l.tail, Null, Null, c[k + 1], Null)
    BY <2>1, <2>3, HeadToSets
  <2>. HIDE DEF m
  <2>5. m \in Lists /\ m.expire = l.expire /\ m.head = c[k + 1] /\ m.tail = l.tail /\ m.prev[c[k + 1]] = Null
    BY <2>1, <2>4 DEF Sets
  <2>6. /\ \A i \in 1..n : m.next[c[i]] = l.next[c[i]]
        /\ \A i \in 1..n : i # k + 1 => m.prev[c[i]] = l.prev[c[i]]
    BY <1>3, <2>1, <2>4, ListAssumption DEF Sets
  <2>7. Drops(l, m, c, k)
    BY <1>1, <1>6, <2>5, <2>6 DEF Drops
  <2>. QED  BY <2>5, <2>7 DEF m
<1>. QED  BY <1>4, <1>5, <1>6

(* Putting a removed element back. *)
LEMMA PutBack ==
    ASSUME NEW S, NEW c \in Seq(S), NEW p \in 1..Len(c), NEW x \in S, x = c[p]
    PROVE  InsertAt(RemoveAt(c, p), p, x) = c
<1>. DEFINE d == RemoveAt(c, p)
            b == InsertAt(d, p, x)
<1>1. PICK n \in Nat : n = Len(c)
  BY LenProperties
<1>2. p \in 1..n
  BY <1>1
<1>3. d \in Seq(S) /\ Len(d) = n - 1 /\ \A j \in 1..(n - 1) : d[j] = IF j < p THEN c[j] ELSE c[j + 1]
  BY <1>1, RemoveAtProperties
<1>. HIDE DEF d
<1>4. /\ b \in Seq(S) /\ Len(b) = n
      /\ \A j \in 1..n : b[j] = IF j < p THEN d[j] ELSE IF j = p THEN x ELSE d[j - 1]
  <2>1. (n - 1) + 1 = n /\ p \in 1..((n - 1) + 1)
    BY <1>2
  <2>2. p \in 1..(Len(d) + 1) /\ d \in Seq(S)
    BY <1>3, <2>1, Zenon
  <2>3. /\ b \in Seq(S) /\ Len(b) = Len(d) + 1
        /\ \A j \in 1..(Len(d) + 1) : b[j] = IF j < p THEN d[j] ELSE IF j = p THEN x ELSE d[j - 1]
    BY <2>2, InsertAtProperties, SMTT(30)
  <2>. HIDE DEF b
  <2>. QED  BY <1>3, <2>1, <2>3
<1>. HIDE DEF b
<1>5. ASSUME NEW j \in 1..n PROVE b[j] = c[j]
  <2>1. CASE j < p
    <3>1. j \in 1..(n - 1)
      BY <1>2, <2>1
    <3>. QED  BY <1>3, <1>4, <2>1, <3>1
  <2>2. CASE j = p
    BY <1>2, <1>4, <2>2
  <2>3. CASE j > p
    <3>1. j - 1 \in 1..(n - 1) /\ ~(j - 1 < p) /\ (j - 1) + 1 = j /\ ~(j < p) /\ j # p
      BY <1>2, <2>3
    <3>2. b[j] = d[j - 1]
      BY <1>4, <3>1
    <3>3. d[j - 1] = c[(j - 1) + 1]
      BY <1>3, <3>1
    <3>. QED  BY <3>1, <3>2, <3>3
  <2>. QED  BY <1>2, <2>1, <2>2, <2>3
<1>6. b = c
  BY <1>1, <1>4, <1>5, SeqEqual
<1>. QED  BY <1>6 DEF b, d

(* Only the deadlines of the old list matter to Placed. *)
LEMMA PlacedFrom ==
    ASSUME NEW l, NEW u, NEW m, NEW c, NEW timer, Placed(u, m, c, timer), u.expire = l.expire
    PROVE  Placed(l, m, c, timer)
BY DEF Placed, Split

(* A postponed timer is taken out and inserted again behind its successor. *)
LEMMA Readded ==
    ASSUME NEW l \in Lists, NEW c, Linked(l, c), NEW p \in 1..Len(c), NEW timer, timer = c[p],
           Sorted(l, RemoveAt(c, p)), p # Len(c), ~(l.expire[timer] < l.expire[c[p + 1]]),
           NEW u \in Lists, u.expire = l.expire, Unlinks(l, u, c, p)
    PROVE  Placed(l, add_timer_from(u, timer, c[p + 1]), RemoveAt(c, p), timer)
<1>. DEFINE d == RemoveAt(c, p)
<1>1. PICK n \in Nat : n = Len(c)
  BY Deadlines
<1>2. p \in 1..n /\ p # n /\ c \in Seq(Timers) /\ p + 1 \in 1..n /\ p \in 1..(n - 1)
  BY <1>1, Deadlines
<1>3. \A i \in 1..n : c[i] \in Timers /\ l.expire[c[i]] \in Int
  BY <1>1, <1>2, Deadlines
<1>4. d \in Seq(Timers) /\ Len(d) = n - 1 /\ \A j \in 1..(n - 1) : d[j] = IF j < p THEN c[j] ELSE c[j + 1]
  BY <1>1, <1>2, RemoveAtProperties
<1>5. Linked(u, d) /\ Nodes(d) = Nodes(c) \ {c[p]}
  BY RemoveLinked
<1>6. Sorted(u, d)
  BY DEF Sorted
<1>. HIDE DEF d
<1>7. p \in 1..Len(d) /\ d[p] = c[p + 1]
  BY <1>2, <1>4
<1>8. timer \in Timers /\ timer \notin Nodes(d)
  BY <1>2, <1>3, <1>5
<1>9. u.expire[d[p]] <= u.expire[timer]
  BY <1>2, <1>3, <1>7
<1>10. Placed(u, add_timer_from(u, timer, d[p]), d, timer)
  BY <1>5, <1>6, <1>7, <1>8, <1>9, AddFromPlaces
<1>. QED  BY <1>7, <1>10, PlacedFrom DEF d

(* adjust_timer puts a postponed timer in its place among the others. *)
LEMMA AdjustPlaces ==
    ASSUME NEW l \in Lists, NEW c, Linked(l, c), NEW p \in 1..Len(c), NEW timer, timer = c[p],
           Sorted(l, RemoveAt(c, p)), \A i \in 1..(p - 1) : l.expire[c[i]] <= l.expire[timer]
    PROVE  Placed(l, adjust_timer(l, timer), RemoveAt(c, p), timer)
<1>. DEFINE d == RemoveAt(c, p)
<1>1. PICK n \in Nat : n = Len(c)
  BY Deadlines
<1>2. p \in 1..n /\ n # 0 /\ c \in Seq(Timers)
  BY <1>1, Deadlines
<1>3. /\ \A i \in 1..n : c[i] \in Timers /\ c[i] # Null /\ l.expire[c[i]] \in Int
      /\ \A i, j \in 1..n : c[i] = c[j] => i = j
      /\ l.head = c[1] /\ l.tail = c[n]
      /\ l.next[c[p]] = IF p = n THEN Null ELSE c[p + 1]
      /\ l.prev[c[p]] = IF p = 1 THEN Null ELSE c[p - 1]
  <2>0. \A i, j \in 1..n : c[i] = c[j] => i = j
    BY <1>1 DEF Linked
  <2>1. \A i \in 1..n : c[i] \in Timers /\ c[i] # Null
    BY <1>1, LinkedMembers
  <2>2. l.head = c[1] /\ l.tail = c[n]
    BY <1>1, <1>2, LinkedMembers
  <2>3. /\ \A i \in 1..n : l.next[c[i]] = IF i = n THEN Null ELSE c[i + 1]
        /\ \A i \in 1..n : l.prev[c[i]] = IF i = 1 THEN Null ELSE c[i - 1]
    BY <1>1, LinkedMembers
  <2>4. \A i \in 1..n : l.expire[c[i]] \in Int
    BY <1>1, Deadlines
  <2>. QED  BY <1>2, <2>0, <2>1, <2>2, <2>3, <2>4
<1>4. timer \in Timers /\ l.expire[timer] \in Int
  BY <1>2, <1>3
<1>5. d \in Seq(Timers) /\ Len(d) = n - 1 /\ \A j \in 1..(n - 1) : d[j] = IF j < p THEN c[j] ELSE c[j + 1]
  BY <1>1, <1>2, RemoveAtProperties
<1>6. InsertAt(d, p, timer) = c
  BY <1>2, <1>4, PutBack
<1>. HIDE DEF d
<1>7. p # n => d[p] = c[p + 1] /\ p \in 1..(n - 1) /\ p + 1 \in 1..n
  BY <1>2, <1>5
<1>8. CASE p = n \/ l.expire[timer] < l.expire[c[p + 1]]
  <2>1. p = n => l.next[timer] = Null
    BY <1>3
  <2>2. p # n => l.next[timer] = c[p + 1]
    BY <1>3
  <2>3. adjust_timer(l, timer) = l
    BY <1>8, <2>1, <2>2, Zenon DEF adjust_timer
  <2>4. (p - 1) + 1 = p /\ p - 1 \in 0..(n - 1)
    BY <1>2
  <2>5. ASSUME NEW i \in 1..(p - 1) PROVE l.expire[d[i]] <= l.expire[timer]
    <3>1. d[i] = c[i]
      BY <1>2, <1>5
    <3>. QED  BY <3>1
  <2>6. ASSUME NEW i \in p..(n - 1) PROVE l.expire[timer] < l.expire[d[i]]
    <3>1. p # n /\ p \in 1..(n - 1) /\ i \in 1..(n - 1) /\ i + 1 \in 1..n /\ d[i] = c[i + 1]
      BY <1>2, <1>5
    <3>2. l.expire[timer] < l.expire[d[p]] /\ d[p] = c[p + 1] /\ p + 1 \in 1..n
      BY <1>7, <1>8, <3>1
    <3>3. CASE i = p
      BY <3>2, <3>3
    <3>4. CASE p < i
      <4>1. l.expire[d[p]] <= l.expire[d[i]]
        BY <1>5, <3>1, <3>4 DEF Sorted, d
      <4>. QED  BY <1>3, <1>4, <3>1, <3>2, <4>1
    <3>. QED  BY <1>2, <3>3, <3>4
  <2>7. Split(l, d, p - 1, l.expire[timer])
    BY <1>5, <2>4, <2>5, <2>6 DEF Split
  <2>8. InsertAt(d, (p - 1) + 1, timer) = c
    BY <1>6, <2>4
  <2>9. Sorted(l, c)
    <3>1. Sorted(l, InsertAt(d, (p - 1) + 1, timer))
      BY <1>4, <1>5, <2>7, InsertSorted DEF d
    <3>. QED  BY <2>8, <3>1
  <2>10. Nodes(c) = Nodes(d) \cup {timer}
    <3>1. Nodes(d) = Nodes(c) \ {timer}
      BY <1>1, <1>2, <1>3, NodesRemoveAt DEF d
    <3>. QED  BY <1>1, <1>2, <3>1, LinkedMembers
  <2>11. Placed(l, l, d, timer)
    <3>1. p - 1 \in 0..Len(d)
      BY <1>5, <2>4
    <3>2. /\ Linked(l, InsertAt(d, (p - 1) + 1, timer)) /\ Sorted(l, InsertAt(d, (p - 1) + 1, timer))
          /\ Nodes(InsertAt(d, (p - 1) + 1, timer)) = Nodes(d) \cup {timer}
      BY <2>8, <2>9, <2>10, Zenon
    <3>. DEFINE k == p - 1
    <3>3. k \in 0..Len(d) /\ Split(l, d, k, l.expire[timer])
      BY <2>7, <3>1
    <3>4. /\ Linked(l, InsertAt(d, k + 1, timer)) /\ Sorted(l, InsertAt(d, k + 1, timer))
          /\ Nodes(InsertAt(d, k + 1, timer)) = Nodes(d) \cup {timer}
      BY <3>2
    <3>. HIDE DEF k
    <3>. QED  BY <3>3, <3>4 DEF Placed
  <2>. QED  BY <2>3, <2>11 DEF d
<1>10. CASE p # n /\ ~(l.expire[timer] < l.expire[c[p + 1]])
  <2>1. /\ l.next[timer] = c[p + 1] /\ c[p + 1] # Null /\ c[p + 1] \in Timers
        /\ c[p + 1] # timer /\ p + 1 \in 1..n
    BY <1>2, <1>3, <1>7, <1>10
  <2>2. timer = l.head <=> p = 1
    BY <1>2, <1>3
  <2>3. CASE p = 1
    <3>. DEFINE u == HeadOut(l, timer, c[p + 1])
    <3>1. adjust_timer(l, timer) = add_timer_from(u, timer, c[p + 1])
      BY <1>10, <2>1, <2>2, <2>3, Zenon DEF adjust_timer, HeadOut
    <3>2. Sets(l, u, c[p + 1], l.tail, timer, Null, c[p + 1], Null)
      BY <1>4, <2>1, HeadOutSets
    <3>. HIDE DEF u
    <3>3. /\ u \in Lists /\ u.expire = l.expire /\ u.head = c[p + 1] /\ u.tail = l.tail
          /\ u.prev[c[p + 1]] = Null
      BY <2>1, <3>2 DEF Sets
    <3>4. /\ \A i \in 1..n : i # p => u.next[c[i]] = l.next[c[i]]
          /\ \A i \in 1..n : i # p + 1 => u.prev[c[i]] = l.prev[c[i]]
      BY <1>2, <1>3, <2>1, <3>2 DEF Sets
    <3>5. Unlinks(l, u, c, p)
      BY <1>1, <1>10, <2>3, <3>3, <3>4 DEF Unlinks
    <3>6. Placed(l, add_timer_from(u, timer, c[p + 1]), d, timer)
      BY <1>1, <1>10, <3>3, <3>5, Readded DEF d
    <3>. QED  BY <3>1, <3>6 DEF d
  <2>4. CASE p # 1
    <3>. DEFINE u == Joined(l, c[p - 1], c[p + 1])
    <3>0. l.prev[timer] = c[p - 1] /\ p - 1 \in 1..n /\ c[p - 1] \in Timers
      BY <1>2, <1>3, <2>4
    <3>1. adjust_timer(l, timer) = add_timer_from(u, timer, c[p + 1])
      BY <1>10, <2>1, <2>2, <2>4, <3>0, Zenon DEF adjust_timer, Joined
    <3>2. Sets(l, u, l.head, l.tail, c[p - 1], c[p + 1], c[p + 1], c[p - 1])
      BY <2>1, <3>0, JoinedSets
    <3>. HIDE DEF u
    <3>3. /\ u \in Lists /\ u.expire = l.expire /\ u.head = l.head /\ u.tail = l.tail
          /\ u.next[c[p - 1]] = c[p + 1] /\ u.prev[c[p + 1]] = c[p - 1]
      BY <2>1, <3>0, <3>2 DEF Sets
    <3>4. /\ \A i \in 1..n : i # p - 1 => u.next[c[i]] = l.next[c[i]]
          /\ \A i \in 1..n : i # p + 1 => u.prev[c[i]] = l.prev[c[i]]
      BY <1>3, <2>1, <3>0, <3>2 DEF Sets
    <3>5. Unlinks(l, u, c, p)
      BY <1>1, <1>2, <1>10, <2>4, <3>3, <3>4 DEF Unlinks
    <3>6. Placed(l, add_timer_from(u, timer, c[p + 1]), d, timer)
      BY <1>1, <1>10, <3>3, <3>5, Readded DEF d
    <3>. QED  BY <3>1, <3>6 DEF d
  <2>. QED  BY <2>3, <2>4
<1>11. p # n \/ p = n
  OBVIOUS
<1>. QED  BY <1>8, <1>10, <1>11 DEF d
-----------------------------------------------------------------------------
(* The calls *)

(* l is the list c of the nodes S. *)
IsList(l, c, S) == l \in Lists /\ Linked(l, c) /\ Sorted(l, c) /\ Nodes(c) = S

Fresh(l, t, e) == [l EXCEPT !.prev[t] = Null, !.next[t] = Null, !.expire[t] = e]

Postponed(l, t, e) == [l EXCEPT !.expire[t] = e]

(* The list l becomes m: t is put into c, in the place of the deadline e,   *)
(* and the nodes are S.                                                    *)
PutsIn(l, m, c, S, t, e) ==
    /\ m.expire = [l.expire EXCEPT ![t] = e]
    /\ \E k \in 0..Len(c) : Split(l, c, k, e) /\ IsList(m, InsertAt(c, k + 1, t), S)

(* The order of c depends on the deadlines of its nodes only. *)
LEMMA SortedFrame ==
    ASSUME NEW l, NEW m, NEW c, Sorted(l, c), \A x \in Nodes(c) : m.expire[x] = l.expire[x]
    PROVE  Sorted(m, c)
<1>1. \A i \in 1..Len(c) : m.expire[c[i]] = l.expire[c[i]]
  BY DEF Nodes
<1>. QED  BY <1>1 DEF Sorted

(* Without one of its nodes the list is still sorted. *)
LEMMA SortedRemoveAt ==
    ASSUME NEW l, NEW c \in Seq(Timers), Sorted(l, c), NEW p \in 1..Len(c)
    PROVE  Sorted(l, RemoveAt(c, p))
<1>. DEFINE d == RemoveAt(c, p)
<1>1. PICK n \in Nat : n = Len(c)
  BY LenProperties
<1>2. p \in 1..n /\ \A i, j \in 1..n : i < j => l.expire[c[i]] <= l.expire[c[j]]
  BY <1>1 DEF Sorted
<1>3. Len(d) = n - 1 /\ \A j \in 1..(n - 1) : d[j] = IF j < p THEN c[j] ELSE c[j + 1]
  BY <1>1, RemoveAtProperties
<1>. HIDE DEF d
<1>4. ASSUME NEW i \in 1..(n - 1), NEW j \in 1..(n - 1), i < j
      PROVE  l.expire[d[i]] <= l.expire[d[j]]
  <2>1. PICK a \in 1..n : d[i] = c[a] /\ a = IF i < p THEN i ELSE i + 1
    BY <1>2, <1>3
  <2>2. PICK b \in 1..n : d[j] = c[b] /\ b = IF j < p THEN j ELSE j + 1
    BY <1>2, <1>3
  <2>3. a < b
    BY <1>2, <1>4, <2>1, <2>2
  <2>. QED  BY <1>2, <2>1, <2>2, <2>3
<1>. QED  BY <1>3, <1>4 DEF Sorted, d

(* The end of a sorted list is sorted. *)
LEMMA SortedSuffix ==
    ASSUME NEW l, NEW c \in Seq(Timers), Sorted(l, c), NEW k \in 0..Len(c)
    PROVE  Sorted(l, SubSeq(c, k + 1, Len(c)))
<1>. DEFINE d == SubSeq(c, k + 1, Len(c))
<1>1. PICK n \in Nat : n = Len(c)
  BY LenProperties
<1>2. k \in 0..n /\ \A i, j \in 1..n : i < j => l.expire[c[i]] <= l.expire[c[j]]
  BY <1>1 DEF Sorted
<1>3. Len(d) = n - k /\ \A j \in 1..(n - k) : d[j] = c[k + j]
  BY <1>1, SuffixProperties
<1>. HIDE DEF d
<1>4. ASSUME NEW i \in 1..(n - k), NEW j \in 1..(n - k), i < j
      PROVE  l.expire[d[i]] <= l.expire[d[j]]
  <2>1. k + i \in 1..n /\ k + j \in 1..n /\ k + i < k + j
    BY <1>2, <1>4
  <2>. QED  BY <1>2, <1>3, <2>1
<1>. QED  BY <1>3, <1>4 DEF Sorted, d

(* The list l becomes m: t is a new object with the deadline e. *)
IsFresh(l, m, t, e) ==
    /\ m \in Lists /\ m.head = l.head /\ m.tail = l.tail
    /\ m.next[t] = Null /\ m.prev[t] = Null /\ m.expire = [l.expire EXCEPT ![t] = e]
    /\ \A x \in Timers : x # t => m.next[x] = l.next[x] /\ m.prev[x] = l.prev[x]

(* The new object. *)
LEMMA FreshIsFresh ==
    ASSUME NEW l \in Lists, NEW t \in Timers, NEW e \in 0..(MaxTime + MaxSpan)
    PROVE  IsFresh(l, Fresh(l, t, e), t, e)
BY ListAssumption DEF Lists, Pointers, Fresh, IsFresh

(* The deadline moves, nothing else. *)
LEMMA PostponedProperties ==
    ASSUME NEW l \in Lists, NEW t \in Timers, NEW e \in 0..(MaxTime + MaxSpan), NEW m, m = Postponed(l, t, e)
    PROVE  /\ m \in Lists /\ m.head = l.head /\ m.tail = l.tail /\ m.next = l.next /\ m.prev = l.prev
           /\ m.expire = [l.expire EXCEPT ![t] = e]
BY ListAssumption DEF Lists, Pointers, Postponed

(* The deadlines of a list. *)
LEMMA ExpireType ==
    ASSUME NEW l \in Lists
    PROVE  l.expire \in [Timers -> 0..(MaxTime + MaxSpan)]
BY DEF Lists

(* What Placed says when the deadline of the timer has just been set. *)
LEMMA PlacedPutsIn ==
    ASSUME NEW l \in Lists, NEW u, NEW m, NEW c \in Seq(Timers), NEW t \in Timers, t \notin Nodes(c), NEW e,
           u.expire = [l.expire EXCEPT ![t] = e], Placed(u, m, c, t)
    PROVE  PutsIn(l, m, c, Nodes(c) \cup {t}, t, e)
<1>1. u.expire[t] = e /\ \A x \in Timers : x # t => u.expire[x] = l.expire[x]
  BY ExpireType
<1>2. PICK n \in Nat : n = Len(c)
  BY LenProperties
<1>3. \A i \in 1..n : u.expire[c[i]] = l.expire[c[i]]
  <2>1. \A i \in 1..n : c[i] \in Timers /\ c[i] # t
    BY <1>2, ElementOfSeq DEF Nodes
  <2>. QED  BY <1>1, <2>1
<1>4. m \in Lists /\ m.expire = u.expire
  BY DEF Placed
<1>5. PICK k \in 0..Len(c) : /\ Split(u, c, k, u.expire[t])
                             /\ Linked(m, InsertAt(c, k + 1, t)) /\ Sorted(m, InsertAt(c, k + 1, t))
                             /\ Nodes(InsertAt(c, k + 1, t)) = Nodes(c) \cup {t}
  BY Zenon DEF Placed
<1>6. Split(l, c, k, e)
  <2>1. k \in 0..n /\ (\A i \in 1..k : i \in 1..n) /\ (\A i \in (k + 1)..n : i \in 1..n)
    BY <1>2
  <2>2. Split(u, c, k, e)
    BY <1>1, <1>5
  <2>. QED  BY <1>2, <1>3, <2>1, <2>2 DEF Split
<1>7. IsList(m, InsertAt(c, k + 1, t), Nodes(c) \cup {t})
  BY <1>4, <1>5 DEF IsList
<1>. QED  BY <1>2, <1>4, <1>6, <1>7 DEF PutsIn

(* add_timer of a new object. *)
LEMMA AddPutsIn ==
    ASSUME NEW l, NEW c, NEW S, IsList(l, c, S), NEW t \in Timers, t \notin S,
           NEW e \in 0..(MaxTime + MaxSpan), NEW m, m = add_timer(Fresh(l, t, e), t)
    PROVE  PutsIn(l, m, c, S \cup {t}, t, e)
<1>1. l \in Lists /\ Linked(l, c) /\ Sorted(l, c) /\ Nodes(c) = S /\ c \in Seq(Timers)
  BY DEF IsList, Linked
<1>2. PICK u : u = Fresh(l, t, e)
  OBVIOUS
<1>3. /\ u \in Lists /\ u.head = l.head /\ u.tail = l.tail
      /\ u.next[t] = Null /\ u.prev[t] = Null /\ u.expire = [l.expire EXCEPT ![t] = e]
      /\ \A x \in Timers : x # t => u.next[x] = l.next[x] /\ u.prev[x] = l.prev[x]
  <2>1. IsFresh(l, u, t, e)
    BY <1>1, <1>2, FreshIsFresh
  <2>. QED  BY <2>1 DEF IsFresh
<1>4. \A x \in Nodes(c) : x \in Timers /\ x # t
  <2>1. \A i \in 1..Len(c) : c[i] \in Timers
    BY <1>1, ElementOfSeq
  <2>. QED  BY <1>1, <2>1 DEF Nodes
<1>5. Linked(u, c)
  BY <1>1, <1>3, <1>4, LinkedFrame
<1>6. Sorted(u, c)
  <2>1. \A x \in Nodes(c) : u.expire[x] = l.expire[x]
    BY <1>1, <1>3, <1>4, ExpireType
  <2>. QED  BY <1>1, <2>1, SortedFrame
<1>7. Placed(u, m, c, t)
  BY <1>1, <1>2, <1>3, <1>5, <1>6, AddPlaces
<1>. QED  BY <1>1, <1>3, <1>7, PlacedPutsIn

(* adjust_timer of a postponed timer. *)
LEMMA AdjustPutsIn ==
    ASSUME NEW l, NEW c, NEW S, IsList(l, c, S), NEW t \in S, NEW e \in 0..(MaxTime + MaxSpan),
           e >= l.expire[t], NEW m, m = adjust_timer(Postponed(l, t, e), t)
    PROVE  \E p \in 1..Len(c) : c[p] = t /\ PutsIn(l, m, RemoveAt(c, p), S, t, e)
<1>1. l \in Lists /\ Linked(l, c) /\ Sorted(l, c) /\ Nodes(c) = S /\ c \in Seq(Timers)
  BY DEF IsList, Linked
<1>2. PICK p \in 1..Len(c) : c[p] = t
  BY <1>1 DEF Nodes
<1>3. PICK d : d = RemoveAt(c, p)
  OBVIOUS
<1>4. PICK n \in Nat : n = Len(c)
  BY <1>1, LenProperties
<1>5. /\ \A i \in 1..n : c[i] \in Timers /\ l.expire[c[i]] \in Int
      /\ \A i, j \in 1..n : c[i] = c[j] => i = j
      /\ p \in 1..n /\ t \in Timers
  <2>1. \A i, j \in 1..n : c[i] = c[j] => i = j
    BY <1>1, <1>4 DEF Linked
  <2>2. \A i \in 1..n : c[i] \in Timers /\ l.expire[c[i]] \in Int
    BY <1>1, <1>4, Deadlines
  <2>. QED  BY <1>2, <1>4, <2>1, <2>2
<1>6. PICK u : u = Postponed(l, t, e)
  OBVIOUS
<1>7. /\ u \in Lists /\ u.head = l.head /\ u.tail = l.tail /\ u.next = l.next /\ u.prev = l.prev
      /\ u.expire = [l.expire EXCEPT ![t] = e]
  BY <1>1, <1>5, <1>6, PostponedProperties
<1>8. u.expire[t] = e /\ \A x \in Timers : x # t => u.expire[x] = l.expire[x]
  BY <1>1, <1>5, <1>7, ExpireType
<1>9. Linked(u, c)
  BY <1>1, <1>7, LinkedFrame
<1>10. d \in Seq(Timers) /\ Nodes(d) = S \ {t} /\ Sorted(l, d)
  <2>1. d \in Seq(Timers)
    BY <1>1, <1>3, RemoveAtProperties
  <2>2. Nodes(d) = Nodes(c) \ {c[p]}
    BY <1>1, <1>3, <1>4, <1>5, NodesRemoveAt
  <2>3. Sorted(l, d)
    BY <1>1, <1>3, SortedRemoveAt
  <2>. QED  BY <1>1, <1>2, <2>1, <2>2, <2>3
<1>11. Sorted(u, d)
  <2>1. \A x \in Nodes(d) : x \in Timers
    BY <1>10, ElementOfSeq DEF Nodes
  <2>2. \A x \in Nodes(d) : u.expire[x] = l.expire[x]
    BY <1>8, <1>10, <2>1
  <2>. QED  BY <1>10, <2>2, SortedFrame
<1>12. ASSUME NEW i \in 1..(p - 1) PROVE u.expire[c[i]] <= u.expire[t]
  <2>1. i \in 1..n /\ i < p /\ i # p
    BY <1>5
  <2>2. c[i] \in Timers /\ c[i] # t /\ l.expire[c[i]] \in Int /\ l.expire[t] \in Int
    BY <1>2, <1>5, <2>1
  <2>3. l.expire[c[i]] <= l.expire[t]
    BY <1>1, <1>2, <1>4, <2>1 DEF Sorted
  <2>4. u.expire[c[i]] = l.expire[c[i]] /\ u.expire[t] = e /\ e \in Int
    BY <1>8, <2>2, ListAssumption
  <2>. QED  BY <2>2, <2>3, <2>4
<1>13. Placed(u, m, d, t)
  BY <1>2, <1>3, <1>6, <1>7, <1>9, <1>11, <1>12, AdjustPlaces
<1>14. PutsIn(l, m, d, Nodes(d) \cup {t}, t, e)
  BY <1>1, <1>5, <1>7, <1>10, <1>13, PlacedPutsIn
<1>15. Nodes(d) \cup {t} = S
  BY <1>10
<1>. QED  BY <1>2, <1>3, <1>14, <1>15

(* The list l becomes m: t is taken out of c, and the nodes are S. *)
TakesOut(l, m, c, S, t) ==
    m.expire = l.expire /\ \E p \in 1..Len(c) : c[p] = t /\ IsList(m, RemoveAt(c, p), S)

(* del_timer of a pending timer. *)
LEMMA DelTakesOut ==
    ASSUME NEW l, NEW c, NEW S, IsList(l, c, S), NEW t \in S, NEW m, m = del_timer(l, t)
    PROVE  TakesOut(l, m, c, S \ {t}, t)
<1>1. l \in Lists /\ Linked(l, c) /\ Sorted(l, c) /\ Nodes(c) = S /\ c \in Seq(Timers)
  BY DEF IsList, Linked
<1>2. PICK p \in 1..Len(c) : c[p] = t
  BY <1>1 DEF Nodes
<1>3. m \in Lists /\ m.expire = l.expire /\ Unlinks(l, m, c, p)
  BY <1>1, <1>2, DelUnlinks
<1>4. Linked(m, RemoveAt(c, p)) /\ Nodes(RemoveAt(c, p)) = Nodes(c) \ {c[p]}
  BY <1>1, <1>3, RemoveLinked
<1>5. Sorted(m, RemoveAt(c, p))
  <2>1. Sorted(l, RemoveAt(c, p))
    BY <1>1, SortedRemoveAt
  <2>. QED  BY <1>3, <2>1, SortedFrame
<1>6. IsList(m, RemoveAt(c, p), S \ {t})
  BY <1>1, <1>2, <1>3, <1>4, <1>5 DEF IsList
<1>. QED  BY <1>2, <1>3, <1>6 DEF TakesOut

(* tick. *)
LEMMA TickTakesOff ==
    ASSUME NEW l, NEW c, NEW S, IsList(l, c, S), NEW cur \in Int, NEW m, m = tick(l, cur)
    PROVE  /\ m.expire = l.expire /\ Due(l, cur) \in 0..Len(c) /\ Split(l, c, Due(l, cur), cur)
           /\ IsList(m, SubSeq(c, Due(l, cur) + 1, Len(c)), S \ Nodes(SubSeq(c, 1, Due(l, cur))))
<1>1. l \in Lists /\ Linked(l, c) /\ Sorted(l, c) /\ Nodes(c) = S /\ c \in Seq(Timers)
  BY DEF IsList, Linked
<1>2. PICK k : k = Due(l, cur)
  OBVIOUS
<1>3. Split(l, c, k, cur)
  BY <1>1, <1>2, DueSplits
<1>4. k \in 0..Len(c)
  BY <1>3 DEF Split
<1>5. m \in Lists /\ m.expire = l.expire /\ Drops(l, m, c, k)
  BY <1>1, <1>2, <1>4, TickDrops
<1>6. /\ Linked(m, SubSeq(c, k + 1, Len(c)))
      /\ Nodes(SubSeq(c, k + 1, Len(c))) = Nodes(c) \ Nodes(SubSeq(c, 1, k))
  <2>1. Dropped(m, c, k)
    BY <1>1, <1>4, <1>5, DropLinked
  <2>. QED  BY <2>1 DEF Dropped
<1>7. Sorted(m, SubSeq(c, k + 1, Len(c)))
  <2>1. Sorted(l, SubSeq(c, k + 1, Len(c)))
    BY <1>1, <1>4, SortedSuffix
  <2>. QED  BY <1>5, <2>1, SortedFrame
<1>8. IsList(m, SubSeq(c, k + 1, Len(c)), S \ Nodes(SubSeq(c, 1, k)))
  BY <1>1, <1>5, <1>6, <1>7 DEF IsList
<1>. QED  BY <1>2, <1>3, <1>4, <1>5, <1>8

-----------------------------------------------------------------------------
(* The steps *)

(* The invariant in one predicate. *)
LEMMA IInvIsList == IInv <=> TypeOK /\ IsList(lst, Chain(lst), alive)
BY DEF IInv, TypeOK, IsList

(* The clock and the new deadlines stay within their bounds. *)
LEMMA DeadlineBound ==
    ASSUME IInv
    PROVE  now \in Int /\ now..(now + MaxSpan) \subseteq 0..(MaxTime + MaxSpan)
BY ListAssumption DEF IInv, TypeOK

(* Putting a timer into the list is what the queue calls inserting it. *)
LEMMA PutsInInserts ==
    ASSUME NEW m, NEW c, NEW S, NEW t, NEW e, PutsIn(lst, m, c, S, t, e)
    PROVE  IsList(m, Chain(m), S) /\ Queue!Inserted(c, t, e, Chain(m))
<1>1. PICK k \in 0..Len(c) : Split(lst, c, k, e) /\ IsList(m, InsertAt(c, k + 1, t), S)
  BY Zenon DEF PutsIn
<1>2. Chain(m) = InsertAt(c, k + 1, t)
  BY <1>1, ChainOf DEF IsList
<1>3. Chain(m) = Queue!With(c, k + 1, t)
  BY <1>2, Zenon DEF InsertAt, Queue!With
<1>4. Queue!Inserted(c, t, e, Chain(m))
  BY <1>1, <1>3 DEF Split, Queue!Inserted
<1>. QED  BY <1>1, <1>2, <1>4

(* new and add_timer. *)
LEMMA AddStep ==
    ASSUME IInv, NEW t \in Timers, NEW e \in now..(now + MaxSpan), AddTimer(t, e)
    PROVE  IInv' /\ lst'.expire[t] = e /\ Queue!Add(t, e)
<1>1. TypeOK /\ IsList(lst, Chain(lst), alive) /\ e \in 0..(MaxTime + MaxSpan)
  BY IInvIsList, DeadlineBound
<1>2. /\ t \notin alive /\ alive' = alive \cup {t} /\ fired' = <<>> /\ now' = now
      /\ lst' = add_timer(Fresh(lst, t, e), t)
  BY DEF AddTimer, Fresh
<1>3. PutsIn(lst, lst', Chain(lst), alive', t, e)
  BY <1>1, <1>2, AddPutsIn
<1>4. IsList(lst', Chain(lst'), alive') /\ Queue!Inserted(Chain(lst), t, e, Chain(lst'))
  BY <1>3, PutsInInserts
<1>5. lst'.expire = [lst.expire EXCEPT ![t] = e] /\ lst'.expire[t] = e
  <2>1. lst'.expire = [lst.expire EXCEPT ![t] = e]
    BY <1>3 DEF PutsIn
  <2>2. lst.expire \in [Timers -> 0..(MaxTime + MaxSpan)]
    BY <1>1, ExpireType DEF TypeOK
  <2>. QED  BY <2>1, <2>2
<1>6. IInv'
  <2>0. lst' \in Lists
    BY <1>4 DEF IsList
  <2>1. lst' \in Lists /\ alive' \subseteq Timers /\ now' \in 0..MaxTime /\ fired' \in Seq(Timers)
    BY <1>1, <1>2, <2>0 DEF TypeOK
  <2>. QED  BY <1>4, <2>1 DEF IInv, TypeOK, IsList
<1>7. t \notin Queue!Pending
  BY <1>1, <1>2 DEF Queue!Pending, IsList, Nodes
<1>8. Queue!Add(t, e)
  BY <1>2, <1>4, <1>5, <1>7 DEF Queue!Add
<1>. QED  BY <1>5, <1>6, <1>8

(* adjust_timer after the deadline has moved. *)
LEMMA AdjustStep ==
    ASSUME IInv, NEW t \in Timers, NEW e \in now..(now + MaxSpan), AdjustTimer(t, e)
    PROVE  IInv' /\ lst'.expire[t] = e /\ Queue!Adjust(t, e)
<1>1. TypeOK /\ IsList(lst, Chain(lst), alive) /\ e \in 0..(MaxTime + MaxSpan)
  BY IInvIsList, DeadlineBound
<1>2. /\ t \in alive /\ e >= lst.expire[t] /\ alive' = alive /\ fired' = <<>> /\ now' = now
      /\ lst' = adjust_timer(Postponed(lst, t, e), t)
  BY DEF AdjustTimer, Postponed
<1>3. PICK p \in 1..Len(Chain(lst)) :
          Chain(lst)[p] = t /\ PutsIn(lst, lst', RemoveAt(Chain(lst), p), alive', t, e)
  BY <1>1, <1>2, AdjustPutsIn
<1>4. /\ IsList(lst', Chain(lst'), alive')
      /\ Queue!Inserted(RemoveAt(Chain(lst), p), t, e, Chain(lst'))
  BY <1>3, PutsInInserts
<1>5. lst'.expire = [lst.expire EXCEPT ![t] = e] /\ lst'.expire[t] = e
  <2>1. lst'.expire = [lst.expire EXCEPT ![t] = e]
    BY <1>3 DEF PutsIn
  <2>2. lst.expire \in [Timers -> 0..(MaxTime + MaxSpan)]
    BY <1>1, ExpireType DEF TypeOK
  <2>. QED  BY <2>1, <2>2
<1>6. IInv'
  <2>0. lst' \in Lists
    BY <1>4 DEF IsList
  <2>1. lst' \in Lists /\ alive' \subseteq Timers /\ now' \in 0..MaxTime /\ fired' \in Seq(Timers)
    BY <1>1, <1>2, <2>0 DEF TypeOK
  <2>. QED  BY <1>4, <2>1 DEF IInv, TypeOK, IsList
<1>7. RemoveAt(Chain(lst), p) = Queue!Without(Chain(lst), p)
  BY Zenon DEF RemoveAt, Queue!Without
<1>8. Queue!Adjust(t, e)
  <2>1. Queue!Inserted(Queue!Without(Chain(lst), p), t, e, Chain(lst'))
    BY <1>4, <1>7
  <2>2. \E i \in 1..Len(Chain(lst)) :
            Chain(lst)[i] = t /\ Queue!Inserted(Queue!Without(Chain(lst), i), t, e, Chain(lst'))
    BY <1>3, <2>1
  <2>. QED  BY <1>2, <1>5, <2>2, Zenon DEF Queue!Adjust
<1>. QED  BY <1>5, <1>6, <1>8

(* del_timer. *)
LEMMA DelStep ==
    ASSUME IInv, NEW t \in Timers, DelTimer(t)
    PROVE  IInv' /\ Queue!Del(t)
<1>1. TypeOK /\ IsList(lst, Chain(lst), alive)
  BY IInvIsList
<1>2. /\ t \in alive /\ alive' = alive \ {t} /\ fired' = <<>> /\ now' = now
      /\ lst' = del_timer(lst, t)
  BY DEF DelTimer
<1>3. TakesOut(lst, lst', Chain(lst), alive', t)
  BY <1>1, <1>2, DelTakesOut
<1>4. PICK p \in 1..Len(Chain(lst)) :
          Chain(lst)[p] = t /\ IsList(lst', RemoveAt(Chain(lst), p), alive')
  BY <1>3, Zenon DEF TakesOut
<1>5. Chain(lst') = RemoveAt(Chain(lst), p)
  BY <1>4, ChainOf DEF IsList
<1>6. IInv'
  <2>0. lst' \in Lists
    BY <1>4 DEF IsList
  <2>1. lst' \in Lists /\ alive' \subseteq Timers /\ now' \in 0..MaxTime /\ fired' \in Seq(Timers)
    BY <1>1, <1>2, <2>0 DEF TypeOK
  <2>. QED  BY <1>4, <1>5, <2>1 DEF IInv, TypeOK, IsList
<1>7. RemoveAt(Chain(lst), p) = Queue!Without(Chain(lst), p)
  BY Zenon DEF RemoveAt, Queue!Without
<1>8. Queue!Del(t)
  <2>1. lst'.expire = lst.expire
    BY <1>3 DEF TakesOut
  <2>. QED  BY <1>2, <1>4, <1>5, <1>7, <2>1 DEF Queue!Del
<1>. QED  BY <1>6, <1>8

(* tick: the loop stops at the first timer that is not due, and the timers *)
(* behind that one are not due either.                                     *)
LEMMA TickStep ==
    ASSUME IInv, Tick
    PROVE  IInv' /\ Queue!Tick
<1>. DEFINE c == Chain(lst)
            k == Due(lst, now)
<1>1. TypeOK /\ IsList(lst, c, alive) /\ now \in Int
  BY IInvIsList, DeadlineBound
<1>2. /\ lst' = tick(lst, now) /\ fired' = SubSeq(c, 1, k) /\ alive' = alive \ Nodes(SubSeq(c, 1, k))
      /\ now' = now
  BY DEF Tick
<1>3. /\ lst'.expire = lst.expire /\ k \in 0..Len(c) /\ Split(lst, c, k, now)
      /\ IsList(lst', SubSeq(c, k + 1, Len(c)), alive')
  BY <1>1, <1>2, TickTakesOff
<1>4. Chain(lst') = SubSeq(c, k + 1, Len(c))
  BY <1>3, ChainOf DEF IsList
<1>5. fired' \in Seq(Timers)
  <2>1. c \in Seq(Timers)
    BY <1>1 DEF IsList, Linked
  <2>. HIDE DEF c, k
  <2>2. \A i \in 1..k : c[i] \in Timers
    BY <1>3, <2>1, ElementOfSeq
  <2>. QED  BY <1>2, <1>3, <2>1, <2>2, SubSeqProperties
<1>. HIDE DEF c, k
<1>6. IInv'
  <2>1. lst' \in Lists /\ alive' \subseteq Timers /\ now' \in 0..MaxTime /\ fired' \in Seq(Timers)
    BY <1>1, <1>2, <1>3, <1>5 DEF TypeOK, IsList
  <2>. QED  BY <1>3, <1>4, <2>1 DEF IInv, TypeOK, IsList
<1>7. \A i \in 1..k : now >= lst.expire[c[i]]
  <2>1. \A i \in 1..Len(c) : lst.expire[c[i]] \in Int
    BY <1>1, Deadlines DEF IsList
  <2>. QED  BY <1>1, <1>3, <2>1 DEF Split
<1>8. \A i \in (k + 1)..Len(c) : now < lst.expire[c[i]]
  BY <1>3 DEF Split
<1>9. Queue!Tick
  BY <1>2, <1>3, <1>4, <1>7, <1>8 DEF Queue!Tick, c
<1>. QED  BY <1>6, <1>9

(* The clock moves on. *)
LEMMA AdvanceStep ==
    ASSUME IInv, Advance
    PROVE  IInv' /\ Queue!Advance
<1>1. /\ TypeOK /\ lst' = lst /\ alive' = alive /\ now' = now + 1 /\ now < MaxTime /\ fired' = <<>>
  BY DEF IInv, Advance
<1>2. now' \in 0..MaxTime /\ now' > now /\ fired' \in Seq(Timers)
  BY <1>1, ListAssumption DEF TypeOK
<1>3. IInv'
  BY <1>1, <1>2 DEF IInv, TypeOK
<1>4. Queue!Advance
  BY <1>1, <1>2 DEF Queue!Advance
<1>. QED  BY <1>3, <1>4

(* The empty list. *)
LEMMA Start ==
    ASSUME Init
    PROVE  IInv /\ Queue!Init
<1>1. /\ lst \in Lists /\ lst.head = Null /\ lst.expire \in [Timers -> Int]
      /\ alive = {} /\ now = 0 /\ fired = <<>>
  BY ListAssumption DEF Init, Nobody, Lists, Pointers
<1>2. <<>> \in Seq(Timers) /\ Len(<<>>) = 0
  OBVIOUS
<1>3. Linked(lst, <<>>) /\ Sorted(lst, <<>>) /\ Nodes(<<>>) = {}
  BY <1>1, <1>2 DEF Linked, IsChain, Sorted, Nodes
<1>4. Chain(lst) = <<>>
  BY <1>3, ChainOf
<1>5. IInv
  BY <1>1, <1>2, <1>3, <1>4, ListAssumption DEF IInv, TypeOK
<1>6. Queue!Init
  BY <1>1, <1>4 DEF Queue!Init
<1>. QED  BY <1>5, <1>6

(* Every step of the list keeps the invariant and is a step of the queue.  *)
LEMMA Step ==
    ASSUME IInv, [Next]_vars
    PROVE  IInv' /\ [Queue!Next]_(Queue!vars)
<1>1. CASE \E t \in Timers, e \in now..(now + MaxSpan) : AddTimer(t, e)
  <2>1. PICK t \in Timers, e \in now..(now + MaxSpan) : AddTimer(t, e)
    BY <1>1
  <2>2. IInv' /\ lst'.expire[t] = e /\ Queue!Add(t, e)
    BY <2>1, AddStep
  <2>. QED  BY <2>2 DEF Queue!Next
<1>2. CASE \E t \in Timers, e \in now..(now + MaxSpan) : AdjustTimer(t, e)
  <2>1. PICK t \in Timers, e \in now..(now + MaxSpan) : AdjustTimer(t, e)
    BY <1>2
  <2>2. IInv' /\ lst'.expire[t] = e /\ Queue!Adjust(t, e)
    BY <2>1, AdjustStep
  <2>. QED  BY <2>2 DEF Queue!Next
<1>3. CASE \E t \in Timers : DelTimer(t)
  <2>1. PICK t \in Timers : DelTimer(t)
    BY <1>3
  <2>2. IInv' /\ Queue!Del(t)
    BY <2>1, DelStep
  <2>. QED  BY <2>2 DEF Queue!Next
<1>4. CASE Tick
  BY <1>4, TickStep DEF Queue!Next
<1>5. CASE Advance
  BY <1>5, AdvanceStep DEF Queue!Next
<1>6. CASE UNCHANGED vars
  BY <1>6 DEF vars, IInv, TypeOK, Queue!vars
<1>. QED  BY <1>1, <1>2, <1>3, <1>4, <1>5, <1>6 DEF Next

-----------------------------------------------------------------------------
(* Theorems *)

(* The inductive invariant: the chain of next pointers from head ends,     *)
(* visits every allocated timer once and in the order of the deadlines,    *)
(* and prev and tail agree with it.                                        *)
THEOREM ListInvariant == Spec => []IInv
<1>1. Init => IInv
  BY Start
<1>2. IInv /\ [Next]_vars => IInv'
  BY Step
<1>. QED  BY <1>1, <1>2, PTL DEF Spec

(* Whatever the order of add_timer, adjust_timer, del_timer and tick, and  *)
(* although tick leaves tail alone, the list stays well linked: no timer   *)
(* is lost, none is listed after it was deleted, none twice.               *)
THEOREM ListWellLinked == Spec => []WellLinked
<1>1. IInv => WellLinked
  <2>. SUFFICES ASSUME IInv PROVE WellLinked
    OBVIOUS
  <2>. DEFINE c == Chain(lst)
  <2>1. Linked(lst, c) /\ Nodes(c) = alive
    BY DEF IInv
  <2>. HIDE DEF c
  <2>2. Len(c) = Cardinality(alive)
    BY <2>1, ListSize DEF Linked
  <2>3. /\ \A i \in 1..Len(c) :
            /\ lst.prev[c[i]] = IF i = 1 THEN Null ELSE c[i - 1]
            /\ lst.next[c[i]] = IF i = Len(c) THEN Null ELSE c[i + 1]
        /\ c # <<>> => lst.tail = c[Len(c)]
    BY <2>1 DEF Linked, IsChain
  <2>. QED  BY <2>1, <2>2, <2>3 DEF WellLinked, c
<1>. QED  BY <1>1, ListInvariant, PTL

(* The pointer list of lst_timer.cpp implements the queue of deadlines:    *)
(* every call inserts, postpones, removes or fires exactly as TimerQueue   *)
(* says, for any number of timers.                                         *)
THEOREM TimerListRefines == Spec => ListIsQueue
<1>1. Init => Queue!Init
  BY Start
<1>2. IInv /\ [Next]_vars => [Queue!Next]_(Queue!vars)
  BY Step
<1>. QED  BY <1>1, <1>2, ListInvariant, PTL DEF Spec, ListIsQueue, Queue!Spec
=============================================================================
