------------------------- MODULE EsPropertiesProofs -------------------------
(***************************************************************************)
(* Theorems about EsProperties, for any keys, texts, strings and any       *)
(* finite memory for nodes.  The list in memory is numbered: it is a       *)
(* sequence of the allocated nodes, and the walk of the code meets them in *)
(* that order.                                                             *)
(***************************************************************************)
EXTENDS EsProperties, FiniteSetTheorems, SequenceTheorems, WellFoundedInduction, TLAPS

-----------------------------------------------------------------------------
(* Walking the list.                                                       *)

\* A set of numbers has a least one.
LEMMA Least ==
  ASSUME NEW T \in SUBSET Nat, T # {}
  PROVE  \E m \in T : \A n \in T : m <= n
<1>. DEFINE R == {ss \in Nat \X Nat : ss[1] < ss[2]}
<1>1. IsWellFoundedOn(R, Nat)
  BY NatLessThanWellFounded DEF OpToRel
<1>. HIDE DEF R
<1>2. PICK m \in T : \A n \in T : ~ (<<n, m>> \in R)
  BY <1>1, WFMin
<1>3. \A n \in T : ~(n < m)
  BY <1>2 DEF R
<1>4. \A n \in T : m <= n
  BY <1>3
<1>. QED
  BY <1>4

\* From h, the nodes nd are linked in the order of q.
IsList(h, nd, q) ==
  /\ q \in Seq(DOMAIN nd)
  /\ \A i, j \in 1 .. Len(q) : q[i] = q[j] => i = j
  /\ \A n \in DOMAIN nd : \E i \in 1 .. Len(q) : q[i] = n
  /\ h = IF Len(q) = 0 THEN Null ELSE q[1]
  /\ \A i \in 1 .. Len(q) : nd[q[i]].next = IF i < Len(q) THEN q[i + 1] ELSE Null

\* The walk of the code, from h over the nodes nd.
WalkFrom(h, nd) ==
  CHOOSE f : f = [i \in 0 .. Cardinality(Nodes) |->
    IF i = 0 THEN h ELSE IF f[i - 1] = Null THEN Null ELSE nd[f[i - 1]].next]

\* There is memory for the nodes of a list.
LEMMA ListFits ==
  ASSUME NEW nd, NEW h, NEW q, IsList(h, nd, q), DOMAIN nd \subseteq Nodes
  PROVE  /\ Len(q) \in Nat /\ Cardinality(Nodes) \in Nat /\ Len(q) <= Cardinality(Nodes)
         /\ Cardinality(DOMAIN nd) = Len(q)
         /\ \A i \in 1 .. Len(q) : q[i] \in DOMAIN nd /\ q[i] # Null
<1>1. q \in Seq(DOMAIN nd) /\ Len(q) \in Nat /\ \A i \in 1 .. Len(q) : q[i] \in DOMAIN nd
  BY DEF IsList
<1>2. IsFiniteSet(1 .. Len(q)) /\ Cardinality(1 .. Len(q)) = Len(q)
  <2>1. 1 \in Int /\ Len(q) \in Int
    BY <1>1
  <2>2. /\ IsFiniteSet(1 .. Len(q))
        /\ Cardinality(1 .. Len(q)) = IF 1 > Len(q) THEN 0 ELSE Len(q) - 1 + 1
    BY <2>1, FS_Interval
  <2>. QED
    BY <1>1, <2>2
<1>3. ExistsBijection(1 .. Len(q), DOMAIN nd)
  <2>1. q \in [1 .. Len(q) -> DOMAIN nd]
    BY <1>1
  <2>2. q \in Bijection(1 .. Len(q), DOMAIN nd)
    BY <2>1 DEF IsList, Bijection, Injection, Surjection, IsInjective
  <2>. QED
    BY <2>2 DEF ExistsBijection
<1>4. Cardinality(DOMAIN nd) = Len(q)
  BY <1>2, <1>3, FS_Bijection
<1>5. Cardinality(DOMAIN nd) <= Cardinality(Nodes) /\ Cardinality(Nodes) \in Nat
  BY NodesAssumption, FS_Subset, FS_CardinalityType
<1>6. \A n \in Nodes : n # Null
  BY NullAssumption
<1>. QED
  BY <1>1, <1>4, <1>5, <1>6

\* The walk meets the nodes in their order, and then Null.
LEMMA WalkIs ==
  ASSUME NEW nd, NEW h, NEW q, IsList(h, nd, q), DOMAIN nd \subseteq Nodes
  PROVE  WalkFrom(h, nd)
           = [i \in 0 .. Cardinality(Nodes) |-> IF i < Len(q) THEN q[i + 1] ELSE Null]
<1>. DEFINE N == Cardinality(Nodes)
            f0 == [i \in 0 .. N |-> IF i < Len(q) THEN q[i + 1] ELSE Null]
            Step(f) == [i \in 0 .. N |->
              IF i = 0 THEN h ELSE IF f[i - 1] = Null THEN Null ELSE nd[f[i - 1]].next]
<1>1. /\ Len(q) \in Nat /\ N \in Nat /\ Len(q) <= N
      /\ \A i \in 1 .. Len(q) : q[i] \in DOMAIN nd /\ q[i] # Null
  BY ListFits
<1>2. /\ h = IF Len(q) = 0 THEN Null ELSE q[1]
      /\ \A i \in 1 .. Len(q) : nd[q[i]].next = IF i < Len(q) THEN q[i + 1] ELSE Null
  BY DEF IsList
<1>. HIDE DEF N
<1>3. \A i \in 0 .. N :
        f0[i] = IF i = 0 THEN h ELSE IF f0[i - 1] = Null THEN Null ELSE nd[f0[i - 1]].next
  <2>. SUFFICES ASSUME NEW i \in 0 .. N
                PROVE  f0[i] = IF i = 0 THEN h
                               ELSE IF f0[i - 1] = Null THEN Null ELSE nd[f0[i - 1]].next
    OBVIOUS
  <2>1. CASE i = 0
    BY <1>1, <1>2, <2>1
  <2>2. CASE i # 0
    <3>1. /\ i - 1 \in 0 .. N /\ f0[i] = IF i < Len(q) THEN q[i + 1] ELSE Null
          /\ f0[i - 1] = IF i - 1 < Len(q) THEN q[i] ELSE Null
      BY <1>1, <2>2
    <3>2. CASE i - 1 < Len(q)
      <4>1. i \in 1 .. Len(q)
        BY <1>1, <2>2, <3>2
      <4>2. nd[q[i]].next = IF i < Len(q) THEN q[i + 1] ELSE Null
        BY <1>2, <4>1
      <4>. HIDE DEF f0
      <4>. QED
        BY <1>1, <2>2, <3>1, <3>2, <4>1, <4>2
    <3>3. CASE ~(i - 1 < Len(q))
      <4>1. ~(i < Len(q))
        BY <1>1, <3>3
      <4>. HIDE DEF f0
      <4>. QED
        BY <2>2, <3>1, <3>3, <4>1
    <3>. QED
      BY <3>2, <3>3
  <2>. QED
    BY <2>1, <2>2
<1>4. f0 = Step(f0)
  BY <1>3
<1>5. ASSUME NEW f, f = Step(f) PROVE f = f0
  <2>. DEFINE T == {i \in 0 .. N : f[i] # f0[i]}
  <2>1. DOMAIN f = 0 .. N /\ f = [i \in 0 .. N |-> f[i]]
    BY <1>5
  <2>2. \A i \in 0 .. N :
          f[i] = IF i = 0 THEN h ELSE IF f[i - 1] = Null THEN Null ELSE nd[f[i - 1]].next
    BY <1>5
  <2>. HIDE DEF Step, f0
  <2>3. T = {}
    <3>. SUFFICES ASSUME T # {} PROVE FALSE
      OBVIOUS
    <3>1. T \in SUBSET Nat
      BY <1>1
    <3>2. PICK m \in T : \A n \in T : m <= n
      BY <3>1, Least
    <3>3. m \in 0 .. N /\ f[m] # f0[m]
      OBVIOUS
    <3>4. m # 0 => m - 1 \in 0 .. N /\ ~(m <= m - 1)
      BY <1>1, <3>3
    <3>5. m # 0 => f[m - 1] = f0[m - 1]
      BY <3>2, <3>4
    <3>. QED
      BY <1>3, <2>2, <3>3, <3>5
  <2>4. \A i \in 0 .. N : f[i] = f0[i]
    BY <2>3
  <2>5. f0 = [i \in 0 .. N |-> f0[i]]
    BY DEF f0
  <2>. QED
    BY <2>1, <2>4, <2>5
<1>6. WalkFrom(h, nd) = CHOOSE f : f = Step(f)
  BY DEF WalkFrom, N
<1>. HIDE DEF Step
<1>7. WalkFrom(h, nd) = f0
  BY <1>4, <1>5, <1>6
<1>. QED
  BY <1>7 DEF f0, N

\* The walk is as long as the list.
LEMMA SizeIs ==
  ASSUME NEW nd, NEW h, NEW q, IsList(h, nd, q), DOMAIN nd \subseteq Nodes
  PROVE  Cardinality({i \in DOMAIN WalkFrom(h, nd) : WalkFrom(h, nd)[i] # Null}) = Len(q)
<1>. DEFINE w == WalkFrom(h, nd)
            n == Len(q)
<1>1. /\ n \in Nat /\ Cardinality(Nodes) \in Nat /\ n <= Cardinality(Nodes)
      /\ \A i \in 1 .. n : q[i] \in DOMAIN nd /\ q[i] # Null
  BY ListFits
<1>2. w = [i \in 0 .. Cardinality(Nodes) |-> IF i < n THEN q[i + 1] ELSE Null]
  BY WalkIs
<1>. HIDE DEF w, n
<1>3. {i \in DOMAIN w : w[i] # Null} = 0 .. n - 1
  <2>1. \A i : i \in DOMAIN w /\ w[i] # Null => i \in 0 .. n - 1
    BY <1>1, <1>2
  <2>2. \A i : i \in 0 .. n - 1 => i \in DOMAIN w /\ w[i] # Null
    BY <1>1, <1>2
  <2>. QED
    BY <2>1, <2>2
<1>4. Cardinality(0 .. n - 1) = n
  <2>1. Cardinality(0 .. n - 1) = IF 0 > n - 1 THEN 0 ELSE n - 1 - 0 + 1
    BY <1>1, FS_Interval
  <2>. QED
    BY <1>1, <2>1
<1>. QED
  BY <1>3, <1>4 DEF w, n

\* What the cursors of the code find.
LEMMA ViewIs ==
  ASSUME NEW q, IsList(head, node, q), DOMAIN node \subseteq Nodes
  PROVE  /\ getSize = Len(q) /\ Len(q) \in Nat /\ Nth[Len(q)] = Null
         /\ Len(q) <= Cardinality(Nodes) /\ Cardinality(Nodes) \in Nat
         /\ \A i \in 0 .. Len(q) : Nth[i] = IF i < Len(q) THEN q[i + 1] ELSE Null
         /\ \A i \in 1 .. Len(q) : q[i] \in DOMAIN node /\ q[i] # Null
<1>1. Nth = WalkFrom(head, node)
  BY DEF Nth, WalkFrom
<1>2. /\ Len(q) \in Nat /\ Cardinality(Nodes) \in Nat /\ Len(q) <= Cardinality(Nodes)
      /\ \A i \in 1 .. Len(q) : q[i] \in DOMAIN node /\ q[i] # Null
  BY ListFits
<1>3. Nth = [i \in 0 .. Cardinality(Nodes) |-> IF i < Len(q) THEN q[i + 1] ELSE Null]
  BY <1>1, WalkIs
<1>4. getSize = Len(q)
  BY <1>1, SizeIs DEF getSize
<1>. QED
  BY <1>2, <1>3, <1>4

\* The search stops at the first node with the key, or behind the last node.
LEMMA Find ==
  ASSUME NEW q, IsList(head, node, q), DOMAIN node \subseteq Nodes, NEW k
  PROVE  LET s == StepsTo(k) IN
         /\ s \in 0 .. Len(q)
         /\ \A i \in 1 .. s : node[q[i]].key # k
         /\ propertyNodeAt(k) = IF s < Len(q) THEN q[s + 1] ELSE Null
         /\ s < Len(q) => node[q[s + 1]].key = k
         /\ propertyNodeBeforeNodeAt(k) = IF s = 0 THEN Null ELSE q[s]
<1>. DEFINE S == {i \in 0 .. getSize : Nth[i] = Null \/ node[Nth[i]].key = k}
            s == StepsTo(k)
<1>1. /\ getSize = Len(q) /\ Len(q) \in Nat /\ Nth[Len(q)] = Null
      /\ \A i \in 0 .. Len(q) : Nth[i] = IF i < Len(q) THEN q[i + 1] ELSE Null
      /\ \A i \in 1 .. Len(q) : q[i] \in DOMAIN node /\ q[i] # Null
  BY ViewIs
<1>2. S \in SUBSET Nat /\ Len(q) \in S
  BY <1>1
<1>3. \E m \in S : \A n \in S : m <= n
  BY <1>2, Least
<1>4. s \in S /\ \A n \in S : s <= n
  <2>1. s = CHOOSE x \in S : \A y \in S : x <= y
    BY DEF StepsTo, Min
  <2>. HIDE DEF S, s
  <2>. QED
    BY <1>3, <2>1
<1>5. s \in 0 .. Len(q) /\ (Nth[s] = Null \/ node[Nth[s]].key = k)
  <2>. HIDE DEF s
  <2>. QED
    BY <1>1, <1>4
<1>6. \A i \in 1 .. s : node[q[i]].key # k
  <2>. HIDE DEF s
  <2>. SUFFICES ASSUME NEW i \in 1 .. s, node[q[i]].key = k PROVE FALSE
    OBVIOUS
  <2>1. i - 1 \in 0 .. Len(q) /\ i - 1 < Len(q) /\ ~(s <= i - 1)
    BY <1>1, <1>5
  <2>2. Nth[i - 1] = q[i]
    BY <1>1, <2>1
  <2>3. i - 1 \in S
    BY <1>1, <2>1, <2>2
  <2>. HIDE DEF S
  <2>. QED
    BY <1>4, <2>1, <2>3
<1>7. propertyNodeAt(k) = IF s < Len(q) THEN q[s + 1] ELSE Null
  BY <1>1, <1>5 DEF propertyNodeAt
<1>8. s < Len(q) => node[q[s + 1]].key = k
  <2>. HIDE DEF s
  <2>. QED
    BY <1>1, <1>5
<1>9. propertyNodeBeforeNodeAt(k) = IF s = 0 THEN Null ELSE q[s]
  <2>1. s # 0 => Nth[s - 1] = q[s]
    <3>. HIDE DEF s
    <3>. QED
      BY <1>1, <1>5
  <2>. QED
    BY <2>1 DEF propertyNodeBeforeNodeAt
<1>. QED
  BY <1>5, <1>6, <1>7, <1>8, <1>9

-----------------------------------------------------------------------------
(* Changing the list.                                                      *)

\* Values may change: the list is the same.
LEMMA SameList ==
  ASSUME NEW h, NEW nd, NEW q, IsList(h, nd, q), NEW nd2, DOMAIN nd2 = DOMAIN nd,
         \A n \in DOMAIN nd : nd2[n].next = nd[n].next
  PROVE  IsList(h, nd2, q)
<1>1. \A i \in 1 .. Len(q) : q[i] \in DOMAIN nd
  BY DEF IsList
<1>. QED
  BY <1>1 DEF IsList

\* The node n, linked behind the last node of q, or first.
LinkedLast(nd, q, n, nd2) ==
  /\ n \notin DOMAIN nd
  /\ DOMAIN nd2 = DOMAIN nd \cup {n}
  /\ nd2[n].next = Null
  /\ \A m \in DOMAIN nd :
       nd2[m].next = IF Len(q) # 0 /\ m = q[Len(q)] THEN n ELSE nd[m].next

\* It is the last of the list.
LEMMA Appended ==
  ASSUME NEW h, NEW nd, NEW q, IsList(h, nd, q), NEW n, NEW nd2, LinkedLast(nd, q, n, nd2)
  PROVE  IsList(IF Len(q) = 0 THEN n ELSE h, nd2, Append(q, n))
<1>. DEFINE a == Append(q, n)
<1>1. q \in Seq(DOMAIN nd) /\ Len(q) \in Nat /\ \A i \in 1 .. Len(q) : q[i] \in DOMAIN nd
  BY DEF IsList
<1>2. \A i, j \in 1 .. Len(q) : q[i] = q[j] => i = j
  BY DEF IsList
<1>3. n \notin DOMAIN nd /\ DOMAIN nd2 = DOMAIN nd \cup {n}
  BY DEF LinkedLast
<1>4. q \in Seq(DOMAIN nd2)
  BY <1>1, <1>3, SeqMonotonic
<1>5. /\ a \in Seq(DOMAIN nd2) /\ Len(a) = Len(q) + 1 /\ a[Len(q) + 1] = n
      /\ \A i \in 1 .. Len(q) : a[i] = q[i]
  BY <1>1, <1>3, <1>4
<1>. HIDE DEF a
<1>6. \A i \in 1 .. Len(a) : i \in 1 .. Len(q) \/ i = Len(q) + 1
  BY <1>1, <1>5
<1>7. \A i, j \in 1 .. Len(a) : a[i] = a[j] => i = j
  BY <1>1, <1>2, <1>3, <1>5, <1>6
<1>8. \A m \in DOMAIN nd2 : \E i \in 1 .. Len(a) : a[i] = m
  <2>1. Len(q) + 1 \in 1 .. Len(a) /\ \A i \in 1 .. Len(q) : i \in 1 .. Len(a)
    BY <1>1, <1>5
  <2>2. \A m \in DOMAIN nd : \E i \in 1 .. Len(q) : q[i] = m
    BY DEF IsList
  <2>. QED
    BY <1>3, <1>5, <2>1, <2>2
<1>9. \A i \in 1 .. Len(a) : nd2[a[i]].next = IF i < Len(a) THEN a[i + 1] ELSE Null
  <2>. SUFFICES ASSUME NEW i \in 1 .. Len(a)
                PROVE  nd2[a[i]].next = IF i < Len(a) THEN a[i + 1] ELSE Null
    OBVIOUS
  <2>1. CASE i = Len(q) + 1
    <3>1. a[i] = n /\ ~(i < Len(a))
      BY <1>1, <1>5, <2>1
    <3>. QED
      BY <3>1 DEF LinkedLast
  <2>2. CASE i = Len(q)
    <3>1. i \in 1 .. Len(q) /\ i < Len(a) /\ Len(q) # 0
      BY <1>1, <1>5, <2>2
    <3>2. a[i] = q[i] /\ a[i + 1] = n /\ q[i] \in DOMAIN nd
      BY <1>1, <1>5, <2>2, <3>1
    <3>. QED
      BY <2>2, <3>1, <3>2 DEF LinkedLast
  <2>3. CASE i < Len(q)
    <3>1. /\ i \in 1 .. Len(q) /\ i + 1 \in 1 .. Len(q) /\ Len(q) \in 1 .. Len(q)
          /\ i # Len(q) /\ i < Len(a)
      BY <1>1, <1>5, <2>3
    <3>2. a[i] = q[i] /\ a[i + 1] = q[i + 1] /\ q[i] \in DOMAIN nd /\ q[i] # q[Len(q)]
      BY <1>1, <1>2, <1>5, <3>1
    <3>3. nd[q[i]].next = q[i + 1]
      BY <2>3, <3>1 DEF IsList
    <3>4. nd2[q[i]].next = nd[q[i]].next
      BY <3>2 DEF LinkedLast
    <3>. QED
      BY <3>1, <3>2, <3>3, <3>4
  <2>4. i = Len(q) + 1 \/ i = Len(q) \/ i < Len(q)
    BY <1>1, <1>6
  <2>. QED
    BY <2>1, <2>2, <2>3, <2>4
<1>10. (IF Len(q) = 0 THEN n ELSE h) = IF Len(a) = 0 THEN Null ELSE a[1]
  <2>1. h = IF Len(q) = 0 THEN Null ELSE q[1]
    BY DEF IsList
  <2>2. Len(a) # 0 /\ (Len(q) = 0 => a[1] = n) /\ (Len(q) # 0 => a[1] = q[1])
    BY <1>1, <1>5
  <2>. QED
    BY <2>1, <2>2
<1>. QED
  BY <1>5, <1>7, <1>8, <1>9, <1>10 DEF IsList, a

\* The sequence s without its element p.
Without(s, p) == [i \in 1 .. Len(s) - 1 |-> IF i < p THEN s[i] ELSE s[i + 1]]

\* A sequence without an element is one.
LEMMA WithoutIs ==
  ASSUME NEW S, NEW s \in Seq(S), NEW p \in 1 .. Len(s)
  PROVE  /\ Without(s, p) \in Seq(S) /\ Len(Without(s, p)) = Len(s) - 1
         /\ \A i \in 1 .. Len(s) - 1 : Without(s, p)[i] = IF i < p THEN s[i] ELSE s[i + 1]
         /\ \A i \in 1 .. Len(s) - 1 :
              (IF i < p THEN i ELSE i + 1) \in 1 .. Len(s) \ {p}
         /\ \A x \in 1 .. Len(s) \ {p} :
              \E i \in 1 .. Len(s) - 1 : x = IF i < p THEN i ELSE i + 1
<1>1. Len(s) \in Nat /\ \A i \in 1 .. Len(s) : s[i] \in S
  OBVIOUS
<1>2. \A i \in 1 .. Len(s) - 1 : (IF i < p THEN i ELSE i + 1) \in 1 .. Len(s) \ {p}
  BY <1>1
<1>3. \A i \in 1 .. Len(s) - 1 : Without(s, p)[i] = IF i < p THEN s[i] ELSE s[i + 1]
  BY DEF Without
<1>4. \A i \in 1 .. Len(s) - 1 : (IF i < p THEN s[i] ELSE s[i + 1]) \in S
  BY <1>1, <1>2
<1>5. Without(s, p) \in [1 .. Len(s) - 1 -> S]
  BY <1>4 DEF Without
<1>6. Len(s) - 1 \in Nat
  BY <1>1
<1>7. Without(s, p) \in Seq(S) /\ Len(Without(s, p)) = Len(s) - 1
  BY <1>5, <1>6
<1>8. ASSUME NEW x \in 1 .. Len(s) \ {p}
      PROVE  \E i \in 1 .. Len(s) - 1 : x = IF i < p THEN i ELSE i + 1
  <2>1. CASE x < p
    <3>1. x \in 1 .. Len(s) - 1
      BY <1>1, <2>1
    <3>. QED
      BY <2>1, <3>1
  <2>2. CASE x > p
    <3>1. x - 1 \in 1 .. Len(s) - 1 /\ ~(x - 1 < p) /\ x - 1 + 1 = x
      BY <1>1, <2>2
    <3>. QED
      BY <3>1
  <2>. QED
    BY <1>1, <2>1, <2>2
<1>. QED
  BY <1>2, <1>3, <1>7, <1>8

\* The node p of q, unlinked: who pointed to it points to its next.
UnlinkedAt(nd, q, p, nd2) ==
  /\ DOMAIN nd2 = DOMAIN nd \ {q[p]}
  /\ \A m \in DOMAIN nd2 :
       nd2[m].next = IF p # 1 /\ m = q[p - 1] THEN nd[q[p]].next ELSE nd[m].next

\* The others stay in their order.
LEMMA Unlinked ==
  ASSUME NEW h, NEW nd, NEW q, IsList(h, nd, q), NEW p \in 1 .. Len(q),
         NEW nd2, UnlinkedAt(nd, q, p, nd2)
  PROVE  IsList(IF p = 1 THEN nd[q[p]].next ELSE h, nd2, Without(q, p))
<1>. DEFINE a == Without(q, p)
            At(i) == IF i < p THEN i ELSE i + 1
<1>1. q \in Seq(DOMAIN nd) /\ Len(q) \in Nat /\ \A i \in 1 .. Len(q) : q[i] \in DOMAIN nd
  BY DEF IsList
<1>2. \A i, j \in 1 .. Len(q) : q[i] = q[j] => i = j
  BY DEF IsList
<1>3. \A i \in 1 .. Len(q) : nd[q[i]].next = IF i < Len(q) THEN q[i + 1] ELSE Null
  BY DEF IsList
<1>4. DOMAIN nd2 = DOMAIN nd \ {q[p]}
  BY DEF UnlinkedAt
<1>5. /\ a \in Seq(DOMAIN nd) /\ Len(a) = Len(q) - 1
      /\ \A i \in 1 .. Len(a) : a[i] = q[At(i)] /\ At(i) \in 1 .. Len(q) \ {p}
      /\ \A x \in 1 .. Len(q) \ {p} : \E i \in 1 .. Len(a) : x = At(i)
  <2>1. /\ a \in Seq(DOMAIN nd) /\ Len(a) = Len(q) - 1
        /\ \A i \in 1 .. Len(q) - 1 : a[i] = IF i < p THEN q[i] ELSE q[i + 1]
        /\ \A i \in 1 .. Len(q) - 1 : At(i) \in 1 .. Len(q) \ {p}
        /\ \A x \in 1 .. Len(q) \ {p} : \E i \in 1 .. Len(q) - 1 : x = At(i)
    BY <1>1, WithoutIs
  <2>. HIDE DEF a
  <2>2. \A i \in 1 .. Len(a) : a[i] = q[At(i)]
    BY <2>1
  <2>. QED
    BY <2>1, <2>2
<1>. HIDE DEF a
<1>6. \A i \in 1 .. Len(a) : a[i] \in DOMAIN nd2
  <2>. HIDE DEF At
  <2>. QED
    BY <1>1, <1>2, <1>4, <1>5
<1>7. a \in Seq(DOMAIN nd2)
  <2>1. a \in [1 .. Len(a) -> DOMAIN nd] /\ Len(a) \in Nat
    BY <1>5
  <2>2. a \in [1 .. Len(a) -> DOMAIN nd2]
    BY <1>6, <2>1
  <2>. QED
    BY <2>1, <2>2
<1>8. \A i, j \in 1 .. Len(a) : a[i] = a[j] => i = j
  <2>. SUFFICES ASSUME NEW i \in 1 .. Len(a), NEW j \in 1 .. Len(a), a[i] = a[j]
                PROVE  i = j
    OBVIOUS
  <2>1. At(i) = At(j)
    <3>. HIDE DEF At
    <3>. QED
      BY <1>2, <1>5
  <2>2. i \in Int /\ j \in Int /\ p \in Int
    BY <1>1, <1>5
  <2>. QED
    BY <2>1, <2>2
<1>9. \A m \in DOMAIN nd2 : \E i \in 1 .. Len(a) : a[i] = m
  <2>. SUFFICES ASSUME NEW m \in DOMAIN nd2 PROVE \E i \in 1 .. Len(a) : a[i] = m
    OBVIOUS
  <2>1. PICK x \in 1 .. Len(q) : q[x] = m
    BY <1>4 DEF IsList
  <2>2. x # p
    BY <1>4, <2>1
  <2>. HIDE DEF At
  <2>3. PICK i \in 1 .. Len(a) : x = At(i)
    BY <1>5, <2>2
  <2>. QED
    BY <1>5, <2>1, <2>3
<1>10. \A i \in 1 .. Len(a) : nd2[a[i]].next = IF i < Len(a) THEN a[i + 1] ELSE Null
  <2>. SUFFICES ASSUME NEW i \in 1 .. Len(a)
                PROVE  nd2[a[i]].next = IF i < Len(a) THEN a[i + 1] ELSE Null
    OBVIOUS
  <2>1. nd2[a[i]].next = IF p # 1 /\ a[i] = q[p - 1] THEN nd[q[p]].next ELSE nd[a[i]].next
    BY <1>6 DEF UnlinkedAt
  <2>2. a[i] = q[At(i)] /\ At(i) \in 1 .. Len(q) /\ At(i) # p
    BY <1>5
  <2>3. i < Len(a) => i + 1 \in 1 .. Len(a)
    BY <1>1, <1>5
  <2>4. i < Len(a) => a[i + 1] = q[At(i + 1)]
    <3>. HIDE DEF At
    <3>. QED
      BY <1>5, <2>3
  <2>5. CASE i < p - 1
    <3>1. /\ i \in 1 .. Len(q) /\ i < Len(a) /\ p # 1 /\ i < Len(q)
          /\ p - 1 \in 1 .. Len(q) /\ i # p - 1
          /\ At(i) = i /\ At(i + 1) = i + 1
      BY <1>1, <1>5, <2>5
    <3>2. q[i] # q[p - 1]
      BY <1>2, <3>1
    <3>3. nd[q[i]].next = q[i + 1]
      BY <1>3, <3>1
    <3>. HIDE DEF At
    <3>. QED
      BY <2>1, <2>2, <2>4, <3>1, <3>2, <3>3
  <2>6. CASE i = p - 1
    <3>1. /\ p # 1 /\ (i < Len(a) <=> p < Len(q)) /\ At(i) = p - 1
          /\ At(i + 1) = p + 1
      BY <1>1, <1>5, <2>6
    <3>2. nd[q[p]].next = IF p < Len(q) THEN q[p + 1] ELSE Null
      BY <1>3
    <3>. HIDE DEF At
    <3>. QED
      BY <2>1, <2>2, <2>4, <3>1, <3>2
  <2>7. CASE i > p - 1
    <3>1. /\ At(i) = i + 1 /\ At(i + 1) = i + 1 + 1 /\ (i < Len(a) <=> i + 1 < Len(q))
          /\ i + 1 \in 1 .. Len(q)
          /\ p # 1 => p - 1 \in 1 .. Len(q) /\ i + 1 # p - 1
      BY <1>1, <1>5, <2>7
    <3>2. p # 1 => q[i + 1] # q[p - 1]
      BY <1>2, <3>1
    <3>3. nd[q[i + 1]].next = IF i + 1 < Len(q) THEN q[i + 1 + 1] ELSE Null
      BY <1>3, <3>1
    <3>. HIDE DEF At
    <3>. QED
      BY <2>1, <2>2, <2>4, <3>1, <3>2, <3>3
  <2>8. i < p - 1 \/ i = p - 1 \/ i > p - 1
    BY <1>1, <1>5
  <2>. QED
    BY <2>5, <2>6, <2>7, <2>8
<1>11. (IF p = 1 THEN nd[q[p]].next ELSE h) = IF Len(a) = 0 THEN Null ELSE a[1]
  <2>1. Len(a) # 0 => 1 \in 1 .. Len(a) /\ At(1) = IF 1 < p THEN 1 ELSE 2
    BY <1>1, <1>5
  <2>2. Len(a) # 0 => a[1] = q[IF 1 < p THEN 1 ELSE 2]
    <3>. HIDE DEF At
    <3>. QED
      BY <1>5, <2>1
  <2>3. CASE p = 1
    <3>1. (Len(a) = 0 <=> ~(p < Len(q))) /\ p + 1 = 2 /\ ~(1 < p)
      BY <1>1, <1>5, <2>3
    <3>2. nd[q[p]].next = IF p < Len(q) THEN q[p + 1] ELSE Null
      BY <1>3
    <3>. HIDE DEF At
    <3>. QED
      BY <2>2, <2>3, <3>1, <3>2
  <2>4. CASE p # 1
    <3>1. 1 < p /\ Len(a) # 0 /\ Len(q) # 0
      BY <1>1, <1>5, <2>4
    <3>2. h = q[1]
      BY <3>1 DEF IsList
    <3>. HIDE DEF At
    <3>. QED
      BY <2>2, <2>4, <3>1, <3>2
  <2>. QED
    BY <2>3, <2>4
<1>. QED
  BY <1>7, <1>8, <1>9, <1>10, <1>11 DEF IsList, a

-----------------------------------------------------------------------------
(* The inductive invariant.                                                *)

Listed == \E q \in Seq(Nodes) : IsList(head, node, q)

\* A container that does not exist has no nodes.
Alive == exists \/ DOMAIN node = {}

UniqueKeys == \A m, n \in DOMAIN node : node[m].key = node[n].key => m = n

IInv == TypeOK /\ Alive /\ Listed /\ UniqueKeys

\* A node with these fields.
Node(k, v, x) == [key |-> k, value |-> v, next |-> x]

\* A node is its fields.
IsNode(r) == r = Node(r.key, r.value, r.next)

\* A record of these three fields is a node.
LEMMA Fields ==
  ASSUME NEW K, NEW V, NEW N, NEW r \in [key : K, value : V, next : N]
  PROVE  IsNode(r)
BY DEF Node, IsNode

\* An assignment changes one field.
LEMMA Assigned ==
  ASSUME NEW r, IsNode(r), NEW x
  PROVE  /\ [r EXCEPT !.next = x] = Node(r.key, r.value, x)
         /\ [r EXCEPT !.value = x] = Node(r.key, x, r.next)
<1>. DEFINE k == r.key
            v == r.value
            n == r.next
<1>1. r = [key |-> k, value |-> v, next |-> n]
  BY DEF IsNode, Node
<1>. HIDE DEF k, v, n
<1>2. [r EXCEPT !.next = x] = Node(k, v, x)
  BY <1>1 DEF Node
<1>3. [r EXCEPT !.value = x] = Node(k, x, n)
  BY <1>1 DEF Node
<1>. QED
  BY <1>2, <1>3 DEF k, v, n

\* The fields of a node.
LEMMA NodeFields ==
  ASSUME NEW k, NEW v, NEW x
  PROVE  /\ Node(k, v, x).key = k /\ Node(k, v, x).value = v /\ Node(k, v, x).next = x
         /\ \A K, V, N : k \in K /\ v \in V /\ x \in N
                         => Node(k, v, x) \in [key : K, value : V, next : N]
BY DEF Node

\* The nodes of the state.
LEMMA NodeType ==
  ASSUME IInv, NEW n \in DOMAIN node
  PROVE  /\ node[n] \in [key : Keys, value : Blocks \cup {Null}, next : DOMAIN node \cup {Null}]
         /\ IsNode(node[n])
         /\ node[n].key \in Keys /\ node[n].value \in Blocks \cup {Null}
         /\ node[n].next \in DOMAIN node \cup {Null}
         /\ n \in Nodes /\ n # Null
<1>1. node[n] \in [key : Keys, value : Blocks \cup {Null}, next : DOMAIN node \cup {Null}]
  BY DEF IInv, TypeOK
<1>2. n \in Nodes /\ n # Null
  BY NullAssumption DEF IInv, TypeOK
<1>. DEFINE V == Blocks \cup {Null}
            N == DOMAIN node \cup {Null}
            r == node[n]
<1>3. r \in [key : Keys, value : V, next : N]
  BY <1>1
<1>. HIDE DEF V, N, r
<1>4. IsNode(r)
  BY <1>3, Fields
<1>5. r.key \in Keys /\ r.value \in V /\ r.next \in N
  BY <1>3
<1>6. IsNode(node[n])
  BY <1>4 DEF r
<1>7. /\ node[n].key \in Keys /\ node[n].value \in Blocks \cup {Null}
      /\ node[n].next \in DOMAIN node \cup {Null}
  BY <1>5 DEF r, V, N
<1>. QED
  BY <1>1, <1>2, <1>6, <1>7, Zenon

\* There is an order of the nodes.
LEMMA Order ==
  ASSUME IInv
  PROVE  \E q : IsList(head, node, q) /\ DOMAIN node \subseteq Nodes
BY DEF IInv, TypeOK, Listed

\* A new order makes the invariant.
LEMMA ListedNext ==
  ASSUME NEW q, IsList(head', node', q), DOMAIN node' \subseteq Nodes
  PROVE  Listed'
<1>1. q \in Seq(Nodes)
  BY SeqMonotonic DEF IsList
<1>. QED
  BY <1>1 DEF Listed

\* The search for k stops at the node p of q.
Hit(q, k, p) ==
  /\ propertyNodeAt(k) = q[p] /\ q[p] \in DOMAIN node /\ node[q[p]].key = k
  /\ propertyNodeBeforeNodeAt(k) = IF p = 1 THEN Null ELSE q[p - 1]

\* A key that the search finds.
LEMMA Found ==
  ASSUME NEW q, IsList(head, node, q), DOMAIN node \subseteq Nodes, NEW k,
         propertyNodeAt(k) # Null
  PROVE  \E p \in 1 .. Len(q) : Hit(q, k, p)
<1>. DEFINE s == StepsTo(k)
<1>1. /\ s \in 0 .. Len(q)
      /\ \A i \in 1 .. s : node[q[i]].key # k
      /\ propertyNodeAt(k) = IF s < Len(q) THEN q[s + 1] ELSE Null
      /\ s < Len(q) => node[q[s + 1]].key = k
      /\ propertyNodeBeforeNodeAt(k) = IF s = 0 THEN Null ELSE q[s]
  BY Find
<1>2. Len(q) \in Nat /\ \A i \in 1 .. Len(q) : q[i] \in DOMAIN node /\ q[i] # Null
  BY ViewIs
<1>. HIDE DEF s
<1>3. s < Len(q)
  BY <1>1
<1>4. PICK p \in 1 .. Len(q) : p = s + 1 /\ s = p - 1 /\ (s = 0 <=> p = 1)
  <2>1. s + 1 \in 1 .. Len(q)
    BY <1>1, <1>2, <1>3
  <2>. QED
    BY <1>1, <1>2, <2>1
<1>5. propertyNodeAt(k) = q[p] /\ q[p] \in DOMAIN node /\ node[q[p]].key = k
  BY <1>1, <1>2, <1>3, <1>4
<1>6. propertyNodeBeforeNodeAt(k) = IF p = 1 THEN Null ELSE q[p - 1]
  BY <1>1, <1>4
<1>. QED
  BY <1>5, <1>6 DEF Hit

\* A key that it does not find.
LEMMA NotFound ==
  ASSUME NEW q, IsList(head, node, q), DOMAIN node \subseteq Nodes, NEW k,
         propertyNodeAt(k) = Null, NEW m \in DOMAIN node
  PROVE  node[m].key # k
<1>. DEFINE s == StepsTo(k)
<1>1. /\ s \in 0 .. Len(q)
      /\ \A i \in 1 .. s : node[q[i]].key # k
      /\ propertyNodeAt(k) = IF s < Len(q) THEN q[s + 1] ELSE Null
      /\ s < Len(q) => node[q[s + 1]].key = k
      /\ propertyNodeBeforeNodeAt(k) = IF s = 0 THEN Null ELSE q[s]
  BY Find
<1>2. Len(q) \in Nat /\ \A i \in 1 .. Len(q) : q[i] \in DOMAIN node /\ q[i] # Null
  BY ViewIs
<1>. HIDE DEF s
<1>3. s = Len(q)
  <2>1. s < Len(q) => s + 1 \in 1 .. Len(q)
    BY <1>1, <1>2
  <2>. QED
    BY <1>1, <1>2, <2>1
<1>4. PICK i \in 1 .. Len(q) : q[i] = m
  BY DEF IsList
<1>. QED
  BY <1>1, <1>3, <1>4

\* Every key is at one node.
LEMMA FoundAt ==
  ASSUME IInv, NEW q, IsList(head, node, q), NEW i \in 1 .. Len(q)
  PROVE  propertyNodeAt(node[q[i]].key) = q[i]
<1>. DEFINE k == node[q[i]].key
<1>1. DOMAIN node \subseteq Nodes
  BY DEF IInv, TypeOK
<1>2. q[i] \in DOMAIN node
  BY DEF IsList
<1>3. propertyNodeAt(k) # Null
  BY <1>1, <1>2, NotFound
<1>4. PICK p \in 1 .. Len(q) : Hit(q, k, p)
  BY <1>1, <1>3, Found
<1>5. propertyNodeAt(k) = q[p] /\ q[p] \in DOMAIN node /\ node[q[p]].key = k
  BY <1>4 DEF Hit
<1>6. q[p] = q[i]
  BY <1>2, <1>5 DEF IInv, UniqueKeys
<1>. QED
  BY <1>5, <1>6

-----------------------------------------------------------------------------
(* What the operations do to the nodes and to the strings.                 *)

\* Assigning the next node of a node.
LEMMA NextAssigned ==
  ASSUME NEW f, NEW a \in DOMAIN f, NEW x, IsNode(f[a])
  PROVE  /\ DOMAIN [f EXCEPT ![a].next = x] = DOMAIN f
         /\ [f EXCEPT ![a].next = x][a] = Node(f[a].key, f[a].value, x)
         /\ \A b \in DOMAIN f : b # a => [f EXCEPT ![a].next = x][b] = f[b]
<1>. DEFINE r == f[a]
<1>1. IsNode(r)
  OBVIOUS
<1>. HIDE DEF r
<1>2. [r EXCEPT !.next = x] = Node(r.key, r.value, x)
  BY <1>1, Assigned
<1>3. [f EXCEPT ![a].next = x] = [f EXCEPT ![a] = [r EXCEPT !.next = x]]
  BY DEF r
<1>4. [f EXCEPT ![a].next = x] = [f EXCEPT ![a] = Node(r.key, r.value, x)]
  BY <1>2, <1>3
<1>. QED
  BY <1>4 DEF r

\* Assigning the value of a node.
LEMMA ValueAssigned ==
  ASSUME NEW f, NEW a \in DOMAIN f, NEW x, IsNode(f[a])
  PROVE  /\ DOMAIN [f EXCEPT ![a].value = x] = DOMAIN f
         /\ [f EXCEPT ![a].value = x][a] = Node(f[a].key, x, f[a].next)
         /\ \A b \in DOMAIN f : b # a => [f EXCEPT ![a].value = x][b] = f[b]
<1>. DEFINE r == f[a]
<1>1. IsNode(r)
  OBVIOUS
<1>. HIDE DEF r
<1>2. [r EXCEPT !.value = x] = Node(r.key, x, r.next)
  BY <1>1, Assigned
<1>3. [f EXCEPT ![a].value = x] = [f EXCEPT ![a] = [r EXCEPT !.value = x]]
  BY DEF r
<1>4. [f EXCEPT ![a].value = x] = [f EXCEPT ![a] = Node(r.key, x, r.next)]
  BY <1>2, <1>3
<1>. QED
  BY <1>4 DEF r

\* The node p of q has the key k and gets the value b.
Updated(q, p, k, b) ==
  /\ q[p] \in DOMAIN node /\ node[q[p]].key = k
  /\ DOMAIN node' = DOMAIN node
  /\ node'[q[p]] = Node(k, b, node[q[p]].next)
  /\ \A m \in DOMAIN node : m # q[p] => node'[m] = node[m]
  /\ uncopied' = uncopied \ {k}
  /\ UNCHANGED <<exists, head, text>>

\* An update of a known key.
LEMMA UpdateExistingDoes ==
  ASSUME IInv, NEW q, IsList(head, node, q), NEW k, NEW b, UpdateExisting(k, b)
  PROVE  \E p \in 1 .. Len(q) : Updated(q, p, k, b)
<1>1. DOMAIN node \subseteq Nodes
  BY DEF IInv, TypeOK
<1>2. /\ propertyNodeAt(k) # Null
      /\ node' = [node EXCEPT ![propertyNodeAt(k)].value = b]
      /\ uncopied' = uncopied \ {k}
      /\ UNCHANGED <<exists, head, text>>
  BY DEF UpdateExisting
<1>3. PICK p \in 1 .. Len(q) : Hit(q, k, p)
  BY <1>1, <1>2, Found
<1>4. propertyNodeAt(k) = q[p] /\ q[p] \in DOMAIN node /\ node[q[p]].key = k
  BY <1>3 DEF Hit
<1>5. IsNode(node[q[p]])
  BY <1>4, NodeType
<1>6. node' = [node EXCEPT ![q[p]].value = b]
  BY <1>2, <1>4
<1>7. /\ DOMAIN node' = DOMAIN node
      /\ node'[q[p]] = Node(node[q[p]].key, b, node[q[p]].next)
      /\ \A m \in DOMAIN node : m # q[p] => node'[m] = node[m]
  BY <1>4, <1>5, <1>6, ValueAssigned
<1>. QED
  BY <1>2, <1>4, <1>7 DEF Updated

\* The node n with the key k and the value c is added behind q.
Added(q, n, k, c) ==
  /\ n \in Nodes \ DOMAIN node
  /\ \A m \in DOMAIN node : node[m].key # k
  /\ head' = IF Len(q) = 0 THEN n ELSE head
  /\ DOMAIN node' = DOMAIN node \cup {n}
  /\ node'[n] = Node(k, c, Null)
  /\ \A m \in DOMAIN node :
       node'[m] = Node(node[m].key, node[m].value,
                       IF Len(q) # 0 /\ m = q[Len(q)] THEN n ELSE node[m].next)
  /\ uncopied' = IF c = Null THEN uncopied \cup {k} ELSE uncopied
  /\ UNCHANGED exists

\* What an addition does to the strings: c is the copy of b, if there is one.
Copied(b, c) ==
  /\ c \in (Blocks \ DOMAIN text) \cup {Null}
  /\ c = Null => UNCHANGED <<text, owner>>
  /\ c # Null => /\ text' = Extend(text, c, text[b])
                 /\ owner' = Extend(owner, c, "list")

\* An addition of a new key.
LEMMA AppendNewDoes ==
  ASSUME IInv, NEW q, IsList(head, node, q), NEW k, NEW b, AppendNew(k, b)
  PROVE  \E n, c : Added(q, n, k, c) /\ Copied(b, c)
<1>1. DOMAIN node \subseteq Nodes
  BY DEF IInv, TypeOK
<1>2. propertyNodeAt(k) = Null
  BY DEF AppendNew
<1>3. \A m \in DOMAIN node : node[m].key # k
  BY <1>1, <1>2, NotFound
<1>4. PICK n \in Nodes \ DOMAIN node, c \in (Blocks \ DOMAIN text) \cup {Null} :
       LET linked == Extend(node, n, [key |-> k, value |-> c, next |-> Null]) IN
       /\ IF head = Null
            THEN head' = n /\ node' = linked
            ELSE /\ node' = [linked EXCEPT ![Nth[getSize - 1]].next = n]
                 /\ UNCHANGED head
       /\ IF c = Null
            THEN uncopied' = uncopied \cup {k} /\ UNCHANGED <<text, owner>>
            ELSE /\ text' = Extend(text, c, text[b])
                 /\ owner' = Extend(owner, c, "list")
                 /\ UNCHANGED uncopied
  BY DEF AppendNew
<1>5. Copied(b, c) /\ uncopied' = IF c = Null THEN uncopied \cup {k} ELSE uncopied
  BY <1>4 DEF Copied
<1>. DEFINE linked == Extend(node, n, Node(k, c, Null))
<1>6. /\ head = Null => head' = n /\ node' = linked
      /\ head # Null => /\ node' = [linked EXCEPT ![Nth[getSize - 1]].next = n]
                        /\ head' = head
  BY <1>4 DEF Node
<1>7. /\ getSize = Len(q) /\ Len(q) \in Nat /\ Nth[Len(q)] = Null
      /\ Len(q) <= Cardinality(Nodes) /\ Cardinality(Nodes) \in Nat
      /\ \A i \in 0 .. Len(q) : Nth[i] = IF i < Len(q) THEN q[i + 1] ELSE Null
      /\ \A i \in 1 .. Len(q) : q[i] \in DOMAIN node /\ q[i] # Null
  BY <1>1, ViewIs
<1>8. head = IF Len(q) = 0 THEN Null ELSE q[1]
  BY DEF IsList
<1>9. /\ DOMAIN linked = DOMAIN node \cup {n} /\ linked[n] = Node(k, c, Null)
      /\ \A m \in DOMAIN node : linked[m] = node[m]
  <2>1. \A m \in DOMAIN node : m # n
    BY <1>4
  <2>2. \A v : /\ DOMAIN Extend(node, n, v) = DOMAIN node \cup {n}
               /\ Extend(node, n, v)[n] = v
               /\ \A x \in DOMAIN node : x # n => Extend(node, n, v)[x] = node[x]
    BY DEF Extend
  <2>3. /\ DOMAIN linked = DOMAIN node \cup {n} /\ linked[n] = Node(k, c, Null)
        /\ \A x \in DOMAIN node : x # n => linked[x] = node[x]
    BY <2>2, Zenon
  <2>. HIDE DEF linked
  <2>. QED
    BY <2>1, <2>3
<1>. HIDE DEF linked
<1>10. \A m \in DOMAIN node : node[m] = Node(node[m].key, node[m].value, node[m].next)
  BY NodeType DEF IsNode
<1>11. CASE Len(q) = 0
  <2>1. head' = n /\ node' = linked
    BY <1>6, <1>8, <1>11
  <2>. QED
    BY <1>3, <1>4, <1>5, <1>9, <1>10, <1>11, <2>1 DEF Added, AppendNew
<1>12. CASE Len(q) # 0
  <2>. DEFINE l == q[Len(q)]
  <2>1. l \in DOMAIN node /\ Nth[getSize - 1] = l /\ head # Null
    <3>1. Len(q) - 1 \in 0 .. Len(q) /\ Len(q) - 1 < Len(q) /\ Len(q) - 1 + 1 = Len(q)
          /\ 1 \in 1 .. Len(q) /\ Len(q) \in 1 .. Len(q)
      BY <1>7, <1>12
    <3>. QED
      BY <1>7, <1>8, <1>12, <3>1
  <2>. HIDE DEF l
  <2>2. node' = [linked EXCEPT ![l].next = n] /\ head' = head
    BY <1>6, <2>1
  <2>3. IsNode(linked[l])
    BY <1>9, <2>1, NodeType
  <2>4. linked[l] = node[l] /\ l \in DOMAIN linked /\ l # n
    BY <1>4, <1>9, <2>1
  <2>5. /\ DOMAIN node' = DOMAIN linked
        /\ node'[l] = Node(linked[l].key, linked[l].value, n)
        /\ \A m \in DOMAIN linked : m # l => node'[m] = linked[m]
    BY <2>2, <2>3, <2>4, NextAssigned
  <2>6. /\ DOMAIN node' = DOMAIN node \cup {n} /\ node'[n] = Node(k, c, Null)
        /\ \A m \in DOMAIN node :
             node'[m] = Node(node[m].key, node[m].value, IF m = l THEN n ELSE node[m].next)
    BY <1>9, <1>10, <2>4, <2>5
  <2>. QED
    BY <1>3, <1>4, <1>5, <1>12, <2>2, <2>6 DEF Added, AppendNew, l
<1>. QED
  BY <1>11, <1>12

\* The walk meets all nodes, each once, and ends.
LEMMA WalkMeets ==
  ASSUME NEW q, IsList(head, node, q), DOMAIN node \subseteq Nodes
  PROVE  /\ {Nth[i] : i \in 0 .. getSize} \ {Null} = DOMAIN node
         /\ getSize = Cardinality(DOMAIN node)
         /\ Nth[getSize] = Null
<1>1. /\ getSize = Len(q) /\ Len(q) \in Nat /\ Nth[Len(q)] = Null
      /\ Len(q) <= Cardinality(Nodes) /\ Cardinality(Nodes) \in Nat
      /\ \A i \in 0 .. Len(q) : Nth[i] = IF i < Len(q) THEN q[i + 1] ELSE Null
      /\ \A i \in 1 .. Len(q) : q[i] \in DOMAIN node /\ q[i] # Null
  BY ViewIs
<1>2. Cardinality(DOMAIN node) = Len(q)
  BY ListFits
<1>3. ASSUME NEW i \in 0 .. getSize, Nth[i] # Null PROVE Nth[i] \in DOMAIN node
  BY <1>1, <1>3
<1>4. ASSUME NEW n \in DOMAIN node PROVE n # Null /\ \E i \in 0 .. getSize : Nth[i] = n
  <2>1. PICK i \in 1 .. Len(q) : q[i] = n
    BY DEF IsList
  <2>2. i - 1 \in 0 .. Len(q) /\ i - 1 < Len(q) /\ i - 1 + 1 = i
    BY <1>1
  <2>3. Nth[i - 1] = n
    BY <1>1, <2>1, <2>2
  <2>. QED
    BY <1>1, <2>1, <2>2, <2>3
<1>. QED
  BY <1>1, <1>2, <1>3, <1>4

\* The node p of q, which has the key k, is removed.
Removed(q, p, k) ==
  /\ q[p] \in DOMAIN node /\ node[q[p]].key = k
  /\ head' = IF p = 1 THEN node[q[p]].next ELSE head
  /\ DOMAIN node' = DOMAIN node \ {q[p]}
  /\ \A m \in DOMAIN node' :
       node'[m] = Node(node[m].key, node[m].value,
                       IF p # 1 /\ m = q[p - 1] THEN node[q[p]].next ELSE node[m].next)
  /\ owner' = IF node[q[p]].value \in DOMAIN owner
                THEN [owner EXCEPT ![node[q[p]].value] = "client"] ELSE owner
  /\ uncopied' = uncopied \ {k}
  /\ exists /\ UNCHANGED <<exists, text>>

\* A removal.
LEMMA RemoveKeyDoes ==
  ASSUME IInv, NEW q, IsList(head, node, q), NEW k, RemoveKey(k)
  PROVE  \E p \in 1 .. Len(q) : Removed(q, p, k)
<1>1. DOMAIN node \subseteq Nodes
  BY DEF IInv, TypeOK
<1>. DEFINE g == propertyNodeAt(k)
            before == propertyNodeBeforeNodeAt(k)
<1>2. /\ exists /\ g # Null /\ UNCHANGED <<exists, text>>
      /\ uncopied' = uncopied \ {k}
      /\ before # Null =>
           node' = Drop([node EXCEPT ![before].next = node[g].next], {g}) /\ head' = head
      /\ before = Null => head' = node[g].next /\ node' = Drop(node, {g})
      /\ owner' = IF node[g].value \in DOMAIN owner
                    THEN [owner EXCEPT ![node[g].value] = "client"] ELSE owner
  BY DEF RemoveKey
<1>3. PICK p \in 1 .. Len(q) : Hit(q, k, p)
  BY <1>1, <1>2, Found
<1>4. /\ g = q[p] /\ q[p] \in DOMAIN node /\ node[q[p]].key = k
      /\ before = IF p = 1 THEN Null ELSE q[p - 1]
  BY <1>3 DEF Hit
<1>. HIDE DEF g, before
<1>5. Len(q) \in Nat /\ \A i \in 1 .. Len(q) : q[i] \in DOMAIN node /\ q[i] # Null
  BY <1>1, ViewIs
<1>6. p # 1 => p - 1 \in 1 .. Len(q)
  BY <1>5
<1>7. \A m \in DOMAIN node : node[m] = Node(node[m].key, node[m].value, node[m].next)
  BY NodeType DEF IsNode
<1>. DEFINE Moved == \A m \in DOMAIN node' :
              node'[m] = Node(node[m].key, node[m].value,
                         IF p # 1 /\ m = q[p - 1] THEN node[q[p]].next ELSE node[m].next)
<1>8. CASE p = 1
  <2>1. head' = node[q[p]].next /\ node' = Drop(node, {q[p]})
    BY <1>2, <1>4, <1>8
  <2>2. DOMAIN node' = DOMAIN node \ {q[p]} /\ \A m \in DOMAIN node' : node'[m] = node[m]
    BY <2>1 DEF Drop, Restrict
  <2>3. Moved
    BY <1>7, <1>8, <2>2
  <2>. HIDE DEF Moved
  <2>4. /\ exists /\ UNCHANGED <<exists, text>> /\ uncopied' = uncopied \ {k}
        /\ owner' = IF node[q[p]].value \in DOMAIN owner
                      THEN [owner EXCEPT ![node[q[p]].value] = "client"] ELSE owner
    BY <1>2, <1>4
  <2>. QED
    BY <1>4, <1>8, <2>1, <2>2, <2>3, <2>4 DEF Removed, Moved
<1>9. CASE p # 1
  <2>. DEFINE l == q[p - 1]
              x == node[q[p]].next
              e == [node EXCEPT ![l].next = x]
  <2>1. l \in DOMAIN node /\ l # Null /\ before = l
    BY <1>4, <1>5, <1>6, <1>9
  <2>2. head' = head /\ node' = Drop(e, {q[p]})
    BY <1>2, <1>4, <2>1
  <2>3. IsNode(node[l])
    BY <2>1, NodeType
  <2>. HIDE DEF l, x
  <2>4. /\ DOMAIN e = DOMAIN node
        /\ e[l] = Node(node[l].key, node[l].value, x)
        /\ \A m \in DOMAIN node : m # l => e[m] = node[m]
    BY <2>1, <2>3, NextAssigned
  <2>. HIDE DEF e
  <2>5. DOMAIN node' = DOMAIN e \ {q[p]} /\ \A m \in DOMAIN node' : node'[m] = e[m]
    BY <2>2 DEF Drop, Restrict
  <2>6. \A m \in DOMAIN node' :
          node'[m] = Node(node[m].key, node[m].value, IF m = l THEN x ELSE node[m].next)
    BY <1>7, <2>4, <2>5
  <2>7. Moved
    BY <1>9, <2>6 DEF l, x
  <2>. HIDE DEF Moved
  <2>8. /\ exists /\ UNCHANGED <<exists, text>> /\ uncopied' = uncopied \ {k}
        /\ owner' = IF node[q[p]].value \in DOMAIN owner
                      THEN [owner EXCEPT ![node[q[p]].value] = "client"] ELSE owner
    BY <1>2, <1>4
  <2>. QED
    BY <1>4, <1>9, <2>2, <2>4, <2>5, <2>7, <2>8 DEF Removed, Moved
<1>. QED
  BY <1>8, <1>9

\* Freeing the container drops every node.
LEMMA FreeDoes ==
  ASSUME IInv, Free
  PROVE  /\ DOMAIN node' = {} /\ head' = Null
         /\ DOMAIN text' = DOMAIN text \ {node[n].value : n \in DOMAIN node}
         /\ \A b \in DOMAIN text' : text'[b] = text[b]
         /\ DOMAIN owner' = DOMAIN owner \ {node[n].value : n \in DOMAIN node}
         /\ \A b \in DOMAIN owner' : owner'[b] = owner[b]
         /\ exists' = FALSE /\ uncopied' = {}
<1>. DEFINE walked == {Nth[i] : i \in 0 .. getSize} \ {Null}
<1>1. PICK q : IsList(head, node, q) /\ DOMAIN node \subseteq Nodes
  BY Order
<1>2. /\ getSize = Len(q) /\ Len(q) \in Nat /\ Nth[Len(q)] = Null
      /\ Len(q) <= Cardinality(Nodes) /\ Cardinality(Nodes) \in Nat
      /\ \A i \in 0 .. Len(q) : Nth[i] = IF i < Len(q) THEN q[i + 1] ELSE Null
      /\ \A i \in 1 .. Len(q) : q[i] \in DOMAIN node /\ q[i] # Null
  BY <1>1, ViewIs
<1>3. walked = DOMAIN node
  BY <1>1, <1>2, WalkMeets
<1>4. /\ exists' = FALSE /\ head' = Null /\ node' = Drop(node, walked) /\ uncopied' = {}
      /\ text' = Drop(text, {node[n].value : n \in walked})
      /\ owner' = Drop(owner, {node[n].value : n \in walked})
  BY DEF Free
<1>. HIDE DEF walked
<1>. QED
  BY <1>3, <1>4 DEF Drop, Restrict

-----------------------------------------------------------------------------
(* Every step preserves the invariant.                                     *)

\* The list names allocated nodes only, so that the fields are well typed.
LEMMA NodesTyped ==
  ASSUME NEW h, NEW nd, NEW q, IsList(h, nd, q),
         \A m \in DOMAIN nd :
           IsNode(nd[m]) /\ nd[m].key \in Keys /\ nd[m].value \in Blocks \cup {Null}
  PROVE  /\ h \in DOMAIN nd \cup {Null}
         /\ \A m \in DOMAIN nd :
              nd[m] \in [key : Keys, value : Blocks \cup {Null}, next : DOMAIN nd \cup {Null}]
<1>1. q \in Seq(DOMAIN nd) /\ Len(q) \in Nat /\ \A i \in 1 .. Len(q) : q[i] \in DOMAIN nd
  BY DEF IsList
<1>2. h \in DOMAIN nd \cup {Null}
  <2>1. Len(q) # 0 => 1 \in 1 .. Len(q)
    BY <1>1
  <2>. QED
    BY <1>1, <2>1 DEF IsList
<1>3. ASSUME NEW m \in DOMAIN nd PROVE nd[m].next \in DOMAIN nd \cup {Null}
  <2>1. PICK i \in 1 .. Len(q) : q[i] = m
    BY DEF IsList
  <2>2. nd[m].next = IF i < Len(q) THEN q[i + 1] ELSE Null
    BY <2>1 DEF IsList
  <2>3. i < Len(q) => i + 1 \in 1 .. Len(q)
    BY <1>1
  <2>. QED
    BY <1>1, <2>2, <2>3
<1>4. ASSUME NEW m \in DOMAIN nd
      PROVE  nd[m] \in [key : Keys, value : Blocks \cup {Null}, next : DOMAIN nd \cup {Null}]
  <2>. DEFINE r == nd[m]
              V == Blocks \cup {Null}
              N == DOMAIN nd \cup {Null}
  <2>1. IsNode(r) /\ r.key \in Keys /\ r.value \in V /\ r.next \in N
    BY <1>3
  <2>. HIDE DEF r, V, N
  <2>2. Node(r.key, r.value, r.next) \in [key : Keys, value : V, next : N]
    BY <2>1, NodeFields
  <2>3. r \in [key : Keys, value : V, next : N]
    BY <2>1, <2>2 DEF IsNode
  <2>. QED
    BY <2>3 DEF r, V, N
<1>. QED
  BY <1>2, <1>4

\* A node made of fields.
LEMMA IsNodeOf ==
  ASSUME NEW k, NEW v, NEW x
  PROVE  IsNode(Node(k, v, x))
BY NodeFields DEF IsNode

Strings ==
  /\ DOMAIN text \subseteq Blocks
  /\ \A b \in DOMAIN text : text[b] \in Texts
  /\ DOMAIN owner = DOMAIN text
  /\ \A b \in DOMAIN owner : owner[b] \in {"client", "list"}

Fine(n) == IsNode(node[n]) /\ node[n].key \in Keys /\ node[n].value \in Blocks \cup {Null}

\* What is left to show of a step that changes the nodes.
LEMMA NodesNext ==
  ASSUME NEW q, IsList(head', node', q), DOMAIN node' \subseteq Nodes,
         \A m \in DOMAIN node' : Fine(m)',
         Strings', Alive', UniqueKeys', exists' \in BOOLEAN, uncopied' \subseteq Keys
  PROVE  IInv'
<1>1. Listed'
  BY ListedNext
<1>. DEFINE nd == node'
            h == head'
<1>2. IsList(h, nd, q)
  OBVIOUS
<1>3. \A m \in DOMAIN nd :
        IsNode(nd[m]) /\ nd[m].key \in Keys /\ nd[m].value \in Blocks \cup {Null}
  BY DEF Fine
<1>. HIDE DEF nd, h
<1>4. /\ h \in DOMAIN nd \cup {Null}
      /\ \A m \in DOMAIN nd :
           nd[m] \in [key : Keys, value : Blocks \cup {Null}, next : DOMAIN nd \cup {Null}]
  BY <1>2, <1>3, NodesTyped
<1>5. TypeOK'
  BY <1>4 DEF TypeOK, Strings, h, nd
<1>. QED
  BY <1>1, <1>5 DEF IInv

\* The invariant, in the parts used here.
LEMMA Parts ==
  ASSUME IInv
  PROVE  /\ exists \in BOOLEAN /\ Strings /\ DOMAIN node \subseteq Nodes /\ uncopied \subseteq Keys
         /\ \A m \in DOMAIN node : Fine(m)
<1>1. exists \in BOOLEAN /\ Strings /\ DOMAIN node \subseteq Nodes /\ uncopied \subseteq Keys
  BY DEF IInv, TypeOK, Strings
<1>2. \A m \in DOMAIN node : Fine(m)
  BY NodeType DEF Fine
<1>. QED
  BY <1>1, <1>2

\* An update of a known key.
LEMMA UpdateExistingStep ==
  ASSUME IInv, exists, NEW k \in Keys, NEW b \in Blocks, b \in DOMAIN text,
         UpdateExisting(k, b)
  PROVE  IInv'
<1>1. PICK q : IsList(head, node, q) /\ DOMAIN node \subseteq Nodes
  BY Order
<1>2. PICK p \in 1 .. Len(q) : Updated(q, p, k, b)
  BY <1>1, UpdateExistingDoes
<1>3. /\ q[p] \in DOMAIN node /\ node[q[p]].key = k
      /\ DOMAIN node' = DOMAIN node
      /\ node'[q[p]] = Node(k, b, node[q[p]].next)
      /\ \A m \in DOMAIN node : m # q[p] => node'[m] = node[m]
      /\ uncopied' = uncopied \ {k}
      /\ UNCHANGED <<exists, head, text>>
  BY <1>2 DEF Updated
<1>4. \A m \in DOMAIN node : node'[m].next = node[m].next /\ node'[m].key = node[m].key
  BY <1>3, NodeFields
<1>5. IsList(head', node', q)
  BY <1>1, <1>3, <1>4, SameList
<1>6. \A m \in DOMAIN node' : Fine(m)'
  <2>1. \A m \in DOMAIN node : m # q[p] => Fine(m)'
    BY <1>3, Parts DEF Fine
  <2>2. Fine(q[p])'
    BY <1>3, NodeFields, IsNodeOf DEF Fine
  <2>. QED
    BY <1>3, <2>1, <2>2
<1>7. Strings'
  <2>1. owner' = owner \/ owner' = [owner EXCEPT ![b] = "list"]
    BY DEF UpdateExisting
  <2>2. UNCHANGED text
    BY <1>3
  <2>. QED
    BY <2>1, <2>2, Parts DEF Strings
<1>8. Alive' /\ exists' \in BOOLEAN /\ uncopied' \subseteq Keys
  BY <1>3, Parts DEF Alive
<1>9. UniqueKeys'
  BY <1>3, <1>4 DEF IInv, UniqueKeys
<1>. QED
  BY <1>1, <1>3, <1>5, <1>6, <1>7, <1>8, <1>9, NodesNext

\* An addition of a new key.
LEMMA AppendNewStep ==
  ASSUME IInv, exists, NEW k \in Keys, NEW b \in Blocks, b \in DOMAIN text, AppendNew(k, b)
  PROVE  IInv'
<1>1. PICK q : IsList(head, node, q) /\ DOMAIN node \subseteq Nodes
  BY Order
<1>2. PICK n, c : Added(q, n, k, c) /\ Copied(b, c)
  BY <1>1, AppendNewDoes
<1>3. /\ n \in Nodes \ DOMAIN node
      /\ \A m \in DOMAIN node : node[m].key # k
      /\ head' = IF Len(q) = 0 THEN n ELSE head
      /\ DOMAIN node' = DOMAIN node \cup {n}
      /\ node'[n] = Node(k, c, Null)
      /\ \A m \in DOMAIN node :
           node'[m] = Node(node[m].key, node[m].value,
                           IF Len(q) # 0 /\ m = q[Len(q)] THEN n ELSE node[m].next)
      /\ uncopied' = IF c = Null THEN uncopied \cup {k} ELSE uncopied
      /\ UNCHANGED exists
  BY <1>2 DEF Added
<1>4. \A m \in DOMAIN node :
        /\ node'[m].next = IF Len(q) # 0 /\ m = q[Len(q)] THEN n ELSE node[m].next
        /\ node'[m].key = node[m].key /\ node'[m].value = node[m].value
        /\ IsNode(node'[m])
  BY <1>3, NodeFields, IsNodeOf
<1>5. node'[n].next = Null /\ node'[n].key = k /\ node'[n].value = c /\ IsNode(node'[n])
  BY <1>3, NodeFields, IsNodeOf
<1>6. LinkedLast(node, q, n, node')
  BY <1>3, <1>4, <1>5 DEF LinkedLast
<1>7. IsList(head', node', Append(q, n))
  BY <1>1, <1>3, <1>6, Appended
<1>8. c \in Blocks \cup {Null} /\ c \notin DOMAIN text
  <2>1. c \in (Blocks \ DOMAIN text) \cup {Null}
    BY <1>2 DEF Copied
  <2>. QED
    BY <2>1, Parts, NullAssumption DEF Strings
<1>9. \A m \in DOMAIN node' : Fine(m)'
  <2>1. \A m \in DOMAIN node : Fine(m)'
    BY <1>4, Parts DEF Fine
  <2>2. Fine(n)'
    BY <1>5, <1>8 DEF Fine
  <2>. QED
    BY <1>3, <2>1, <2>2
<1>10. Strings'
  <2>1. Strings
    BY Parts
  <2>2. CASE c = Null
    <3>1. UNCHANGED <<text, owner>>
      BY <1>2, <2>2 DEF Copied
    <3>. QED
      BY <2>1, <3>1 DEF Strings
  <2>3. CASE c # Null
    <3>1. text' = Extend(text, c, text[b]) /\ owner' = Extend(owner, c, "list") /\ c \in Blocks
      BY <1>2, <1>8, <2>3 DEF Copied
    <3>. QED
      BY <2>1, <3>1 DEF Strings, Extend
  <2>. QED
    BY <2>2, <2>3
<1>11. Alive' /\ exists' \in BOOLEAN /\ DOMAIN node' \subseteq Nodes /\ uncopied' \subseteq Keys
  BY <1>1, <1>3, Parts DEF Alive
<1>12. UniqueKeys'
  BY <1>3, <1>4, <1>5 DEF IInv, UniqueKeys
<1>. QED
  BY <1>7, <1>9, <1>10, <1>11, <1>12, NodesNext

\* A removal.
LEMMA RemoveKeyStep ==
  ASSUME IInv, NEW k \in Keys, RemoveKey(k)
  PROVE  IInv'
<1>1. PICK q : IsList(head, node, q) /\ DOMAIN node \subseteq Nodes
  BY Order
<1>2. PICK p \in 1 .. Len(q) : Removed(q, p, k)
  BY <1>1, RemoveKeyDoes
<1>3. /\ q[p] \in DOMAIN node /\ node[q[p]].key = k
      /\ head' = IF p = 1 THEN node[q[p]].next ELSE head
      /\ DOMAIN node' = DOMAIN node \ {q[p]}
      /\ \A m \in DOMAIN node' :
           node'[m] = Node(node[m].key, node[m].value,
                         IF p # 1 /\ m = q[p - 1] THEN node[q[p]].next ELSE node[m].next)
      /\ owner' = IF node[q[p]].value \in DOMAIN owner
                    THEN [owner EXCEPT ![node[q[p]].value] = "client"] ELSE owner
      /\ uncopied' = uncopied \ {k}
      /\ exists /\ UNCHANGED <<exists, text>>
  BY <1>2 DEF Removed
<1>4. \A m \in DOMAIN node' :
        /\ node'[m].next = IF p # 1 /\ m = q[p - 1] THEN node[q[p]].next ELSE node[m].next
        /\ node'[m].key = node[m].key /\ node'[m].value = node[m].value
        /\ IsNode(node'[m])
  BY <1>3, NodeFields, IsNodeOf
<1>5. UnlinkedAt(node, q, p, node')
  BY <1>3, <1>4 DEF UnlinkedAt
<1>6. IsList(head', node', Without(q, p))
  BY <1>1, <1>3, <1>5, Unlinked
<1>7. \A m \in DOMAIN node' : Fine(m)'
  BY <1>3, <1>4, Parts DEF Fine
<1>8. Strings'
  <2>1. \/ owner' = owner
        \/ owner' = [owner EXCEPT ![node[q[p]].value] = "client"]
    BY <1>3
  <2>2. UNCHANGED text
    BY <1>3
  <2>. QED
    BY <2>1, <2>2, Parts DEF Strings
<1>9. Alive' /\ exists' \in BOOLEAN /\ DOMAIN node' \subseteq Nodes /\ uncopied' \subseteq Keys
  BY <1>1, <1>3, Parts DEF Alive
<1>10. UniqueKeys'
  BY <1>3, <1>4 DEF IInv, UniqueKeys
<1>. QED
  BY <1>6, <1>7, <1>8, <1>9, <1>10, NodesNext

\* The empty list.
LEMMA NoNodes ==
  ASSUME NEW nd, DOMAIN nd = {}
  PROVE  IsList(Null, nd, <<>>)
<1>1. <<>> \in Seq(DOMAIN nd) /\ Len(<<>>) = 0
  OBVIOUS
<1>. QED
  BY <1>1 DEF IsList

\* A container appears, or goes.
LEMMA NewFreeStep ==
  ASSUME IInv, New \/ Free
  PROVE  IInv'
<1>1. /\ DOMAIN node' = {} /\ head' = Null /\ exists' \in BOOLEAN /\ Strings'
      /\ uncopied' \subseteq Keys
  <2>1. CASE New
    <3>1. ~exists /\ exists' = TRUE /\ head' = Null /\ UNCHANGED <<node, text, owner, uncopied>>
      BY <2>1 DEF New
    <3>2. DOMAIN node = {}
      BY <3>1 DEF IInv, Alive
    <3>. QED
      BY <3>1, <3>2, Parts DEF Strings
  <2>2. CASE Free
    <3>1. /\ DOMAIN node' = {} /\ head' = Null
          /\ DOMAIN text' = DOMAIN text \ {node[n].value : n \in DOMAIN node}
          /\ \A b \in DOMAIN text' : text'[b] = text[b]
          /\ DOMAIN owner' = DOMAIN owner \ {node[n].value : n \in DOMAIN node}
          /\ \A b \in DOMAIN owner' : owner'[b] = owner[b]
          /\ exists' = FALSE /\ uncopied' = {}
      BY <2>2, FreeDoes
    <3>2. Strings'
      BY <3>1, Parts DEF Strings
    <3>. QED
      BY <3>1, <3>2
  <2>. QED
    BY <2>1, <2>2
<1>2. IsList(head', node', <<>>)
  BY <1>1, NoNodes
<1>3. /\ Alive' /\ UniqueKeys' /\ DOMAIN node' \subseteq Nodes
      /\ \A m \in DOMAIN node' : Fine(m)'
  BY <1>1 DEF Alive, UniqueKeys
<1>. QED
  BY <1>1, <1>2, <1>3, NodesNext

\* The client uses its strings.
LEMMA ClientStep ==
  ASSUME IInv,
         \/ \E b \in Blocks, t \in Texts : ClientMakes(b, t) \/ ClientWrites(b, t)
         \/ \E b \in Blocks : ClientFrees(b)
  PROVE  IInv' /\ UNCHANGED <<exists, head, node, uncopied>>
<1>1. UNCHANGED <<exists, head, node, uncopied>>
  BY DEF ClientMakes, ClientWrites, ClientFrees
<1>2. Strings
  BY Parts
<1>3. ASSUME NEW b \in Blocks, NEW t \in Texts, ClientMakes(b, t) PROVE Strings'
  BY <1>2, <1>3 DEF Strings, ClientMakes, Extend
<1>4. ASSUME NEW b \in Blocks, NEW t \in Texts, ClientWrites(b, t) PROVE Strings'
  BY <1>2, <1>4 DEF Strings, ClientWrites
<1>5. ASSUME NEW b \in Blocks, ClientFrees(b) PROVE Strings'
  BY <1>2, <1>5 DEF Strings, ClientFrees, Drop, Restrict
<1>6. Strings'
  BY <1>3, <1>4, <1>5
<1>. QED
  BY <1>1, <1>6 DEF IInv, TypeOK, Strings, Alive, Listed, UniqueKeys

\* The invariant holds at first.
LEMMA InitIInv == Init => IInv
<1>. SUFFICES ASSUME Init PROVE IInv
  OBVIOUS
<1>1. /\ DOMAIN node = {} /\ DOMAIN text = {} /\ DOMAIN owner = {} /\ uncopied = {}
      /\ head = Null /\ exists = FALSE
  BY DEF Init
<1>2. IsList(head, node, <<>>)
  BY <1>1, NoNodes
<1>3. Listed
  <2>1. <<>> \in Seq(Nodes)
    OBVIOUS
  <2>. QED
    BY <1>2, <2>1 DEF Listed
<1>. QED
  BY <1>1, <1>3 DEF IInv, TypeOK, Alive, UniqueKeys

\* Every step preserves it.
LEMMA NextIInv == IInv /\ [Next]_vars => IInv'
<1>. SUFFICES ASSUME IInv, [Next]_vars PROVE IInv'
  OBVIOUS
<1>1. CASE New \/ Free
  BY <1>1, NewFreeStep
<1>2. CASE \E k \in Keys, b \in Blocks : AtPut(k, b)
  BY <1>2, UpdateExistingStep, AppendNewStep DEF AtPut
<1>3. CASE \E k \in Keys : RemoveKey(k)
  BY <1>3, RemoveKeyStep
<1>4. CASE \/ \E b \in Blocks, t \in Texts : ClientMakes(b, t) \/ ClientWrites(b, t)
           \/ \E b \in Blocks : ClientFrees(b)
  BY <1>4, ClientStep
<1>5. CASE UNCHANGED vars
  BY <1>5 DEF IInv, TypeOK, Alive, Listed, UniqueKeys, vars
<1>. QED
  BY <1>1, <1>2, <1>3, <1>4, <1>5 DEF Next

\* The nodes are always a list without repeated keys.
THEOREM Invariant == Spec => []IInv
BY InitIInv, NextIInv, PTL DEF Spec

\* The list is made of allocated nodes, whatever their values.
THEOREM TypeCorrect == Spec => []TypeOK
<1>1. IInv => TypeOK
  BY DEF IInv
<1>. QED
  BY <1>1, Invariant, PTL

\* The walk of EsProperties_free meets every node once, and ends.
THEOREM FreesEveryNode == Spec => []EveryNodeOnTheList
<1>1. IInv => EveryNodeOnTheList
  BY Order, WalkMeets DEF EveryNodeOnTheList
<1>. QED
  BY <1>1, Invariant, PTL

\* The pair at an index.
LEMMA AtIndexIs ==
  ASSUME NEW q, IsList(head, node, q), DOMAIN node \subseteq Nodes
  PROVE  /\ getSize = Len(q) /\ Len(q) \in Nat
         /\ \A i \in 0 .. Len(q) - 1 :
              /\ i + 1 \in 1 .. Len(q)
              /\ atIndex(i).key = node[q[i + 1]].key
              /\ atIndex(i).value = node[q[i + 1]].value
         /\ atIndex(Len(q)).key = Null
<1>1. /\ getSize = Len(q) /\ Len(q) \in Nat /\ Nth[Len(q)] = Null
      /\ Len(q) <= Cardinality(Nodes) /\ Cardinality(Nodes) \in Nat
      /\ \A i \in 0 .. Len(q) : Nth[i] = IF i < Len(q) THEN q[i + 1] ELSE Null
      /\ \A i \in 1 .. Len(q) : q[i] \in DOMAIN node /\ q[i] # Null
  BY ViewIs
<1>2. ASSUME NEW i \in 0 .. Len(q) - 1
      PROVE  /\ i + 1 \in 1 .. Len(q)
             /\ atIndex(i).key = node[q[i + 1]].key
             /\ atIndex(i).value = node[q[i + 1]].value
  <2>1. i + 1 \in 1 .. Len(q) /\ i \in 0 .. Len(q) /\ i < Len(q)
    BY <1>1
  <2>2. Nth[i] = q[i + 1] /\ i < getSize
    BY <1>1, <2>1
  <2>. QED
    BY <2>1, <2>2 DEF atIndex
<1>3. atIndex(Len(q)).key = Null
  <2>1. ~(Len(q) < getSize)
    BY <1>1
  <2>. QED
    BY <2>1 DEF atIndex
<1>. QED
  BY <1>1, <1>2, <1>3

\* The keys without a value are those whose copy failed.
UncopiedAreNull ==
  /\ \A n \in DOMAIN node : node[n].value = Null <=> node[n].key \in uncopied
  /\ \A k \in uncopied : \E n \in DOMAIN node : node[n].key = k

\* A put with memory for the copy, or without.
LEMMA AtPutUncopied ==
  ASSUME IInv, UncopiedAreNull, NEW k \in Keys, NEW b \in Blocks, AtPut(k, b)
  PROVE  UncopiedAreNull'
<1>1. PICK q : IsList(head, node, q) /\ DOMAIN node \subseteq Nodes
  BY Order
<1>2. b # Null
  BY NullAssumption
<1>3. CASE UpdateExisting(k, b)
  <2>1. PICK p \in 1 .. Len(q) : Updated(q, p, k, b)
    BY <1>1, <1>3, UpdateExistingDoes
  <2>. DEFINE x == q[p]
  <2>2. /\ x \in DOMAIN node /\ node[x].key = k /\ DOMAIN node' = DOMAIN node
        /\ node'[x].key = k /\ node'[x].value = b
        /\ \A m \in DOMAIN node : m # x => node'[m] = node[m]
        /\ uncopied' = uncopied \ {k}
    BY <2>1, NodeFields DEF Updated
  <2>. HIDE DEF x
  <2>3. \A m \in DOMAIN node : m # x => node[m].key # k
    BY <2>2 DEF IInv, UniqueKeys
  <2>4. ASSUME NEW m \in DOMAIN node'
        PROVE  node'[m].value = Null <=> node'[m].key \in uncopied'
    BY <1>2, <2>2, <2>3, <2>4 DEF UncopiedAreNull
  <2>5. ASSUME NEW l \in uncopied' PROVE \E m \in DOMAIN node' : node'[m].key = l
    <3>1. l \in uncopied /\ l # k
      BY <2>2, <2>5
    <3>2. PICK m \in DOMAIN node : node[m].key = l
      BY <3>1 DEF UncopiedAreNull
    <3>3. node'[m].key = l
      BY <2>2, <3>1, <3>2
    <3>. QED
      BY <2>2, <3>3
  <2>. QED
    BY <2>4, <2>5 DEF UncopiedAreNull
<1>4. CASE AppendNew(k, b)
  <2>1. PICK n, c : Added(q, n, k, c) /\ Copied(b, c)
    BY <1>1, <1>4, AppendNewDoes
  <2>2. /\ DOMAIN node' = DOMAIN node \cup {n} /\ n \notin DOMAIN node
        /\ node'[n].key = k /\ node'[n].value = c
        /\ \A m \in DOMAIN node : /\ node[m].key # k
                                  /\ node'[m].key = node[m].key
                                  /\ node'[m].value = node[m].value
        /\ uncopied' = IF c = Null THEN uncopied \cup {k} ELSE uncopied
    BY <2>1, NodeFields DEF Added
  <2>3. k \notin uncopied
    BY <2>2 DEF UncopiedAreNull
  <2>4. ASSUME NEW m \in DOMAIN node'
        PROVE  node'[m].value = Null <=> node'[m].key \in uncopied'
    BY <2>2, <2>3, <2>4 DEF UncopiedAreNull
  <2>5. ASSUME NEW l \in uncopied' PROVE \E m \in DOMAIN node' : node'[m].key = l
    <3>1. CASE l = k
      BY <2>2, <3>1
    <3>2. CASE l # k
      <4>1. PICK m \in DOMAIN node : node[m].key = l
        BY <2>2, <2>5, <3>2 DEF UncopiedAreNull
      <4>. QED
        BY <2>2, <4>1
    <3>. QED
      BY <3>1, <3>2
  <2>. QED
    BY <2>4, <2>5 DEF UncopiedAreNull
<1>. QED
  BY <1>3, <1>4 DEF AtPut

\* A removal.
LEMMA RemoveKeyUncopied ==
  ASSUME IInv, UncopiedAreNull, NEW k, RemoveKey(k)
  PROVE  UncopiedAreNull'
<1>1. PICK q : IsList(head, node, q) /\ DOMAIN node \subseteq Nodes
  BY Order
<1>2. PICK p \in 1 .. Len(q) : Removed(q, p, k)
  BY <1>1, RemoveKeyDoes
<1>. DEFINE x == q[p]
<1>3. /\ x \in DOMAIN node /\ node[x].key = k /\ DOMAIN node' = DOMAIN node \ {x}
      /\ \A m \in DOMAIN node' : node'[m].key = node[m].key /\ node'[m].value = node[m].value
      /\ uncopied' = uncopied \ {k}
  BY <1>2, NodeFields DEF Removed
<1>. HIDE DEF x
<1>4. \A m \in DOMAIN node : m # x => node[m].key # k
  BY <1>3 DEF IInv, UniqueKeys
<1>5. ASSUME NEW m \in DOMAIN node'
      PROVE  node'[m].value = Null <=> node'[m].key \in uncopied'
  BY <1>3, <1>4, <1>5 DEF UncopiedAreNull
<1>6. ASSUME NEW l \in uncopied' PROVE \E m \in DOMAIN node' : node'[m].key = l
  <2>1. l \in uncopied /\ l # k
    BY <1>3, <1>6
  <2>2. PICK m \in DOMAIN node : node[m].key = l
    BY <2>1 DEF UncopiedAreNull
  <2>3. m \in DOMAIN node' /\ node'[m].key = l
    BY <1>3, <2>1, <2>2
  <2>. QED
    BY <2>3
<1>. QED
  BY <1>5, <1>6 DEF UncopiedAreNull

\* Every step keeps the history true.
LEMMA NextUncopied ==
  ASSUME IInv, UncopiedAreNull, [Next]_vars
  PROVE  UncopiedAreNull'
<1>1. CASE New
  BY <1>1 DEF New, UncopiedAreNull
<1>2. CASE Free
  <2>1. DOMAIN node' = {} /\ uncopied' = {}
    BY <1>2, FreeDoes
  <2>. QED
    BY <2>1 DEF UncopiedAreNull
<1>3. CASE \E k \in Keys, b \in Blocks : AtPut(k, b)
  BY <1>3, AtPutUncopied
<1>4. CASE \E k \in Keys : RemoveKey(k)
  BY <1>4, RemoveKeyUncopied
<1>5. CASE \/ \E b \in Blocks, t \in Texts : ClientMakes(b, t) \/ ClientWrites(b, t)
           \/ \E b \in Blocks : ClientFrees(b)
  <2>1. UNCHANGED <<node, uncopied>>
    BY <1>5, ClientStep
  <2>. QED
    BY <2>1 DEF UncopiedAreNull
<1>6. CASE UNCHANGED vars
  BY <1>6 DEF UncopiedAreNull, vars
<1>. QED
  BY <1>1, <1>2, <1>3, <1>4, <1>5, <1>6 DEF Next

\* The map interface and the sequence interface agree but for the keys whose
\* copy failed, and differ for each of those.
THEOREM ViewsAlwaysAgree == Spec => []ViewsAgree
<1>1. ASSUME IInv, UncopiedAreNull PROVE ViewsAgree
  <2>. DEFINE listed == {atIndex(i).key : i \in 0 .. getSize - 1}
              size   == getSize
  <2>1. PICK q : IsList(head, node, q) /\ DOMAIN node \subseteq Nodes
    BY <1>1, Order
  <2>2. /\ size = Len(q) /\ Len(q) \in Nat
        /\ \A i \in 0 .. Len(q) - 1 :
             /\ i + 1 \in 1 .. Len(q)
             /\ atIndex(i).key = node[q[i + 1]].key
             /\ atIndex(i).value = node[q[i + 1]].value
        /\ atIndex(Len(q)).key = Null
    BY <2>1, AtIndexIs
  <2>3. \A i \in 1 .. Len(q) : q[i] \in DOMAIN node /\ q[i] # Null
    BY <2>1, ViewIs
  <2>4. ASSUME NEW i \in 0 .. size - 1 PROVE at(atIndex(i).key) = atIndex(i).value
    <3>1. i + 1 \in 1 .. Len(q) /\ q[i + 1] # Null
      BY <2>2, <2>3
    <3>2. propertyNodeAt(node[q[i + 1]].key) = q[i + 1]
      BY <1>1, <2>1, <3>1, FoundAt
    <3>3. propertyNodeAt(atIndex(i).key) = q[i + 1] /\ atIndex(i).value = node[q[i + 1]].value
      BY <2>2, <3>2
    <3>. QED
      BY <3>1, <3>3 DEF at
  <2>5. \A n \in DOMAIN node : \E i \in 0 .. size - 1 : atIndex(i).key = node[n].key
    <3>. SUFFICES ASSUME NEW n \in DOMAIN node
                  PROVE  \E i \in 0 .. size - 1 : atIndex(i).key = node[n].key
      OBVIOUS
    <3>1. PICK j \in 1 .. Len(q) : q[j] = n
      BY <2>1 DEF IsList
    <3>2. j - 1 \in 0 .. size - 1 /\ j - 1 \in 0 .. Len(q) - 1 /\ j - 1 + 1 = j
      BY <2>2
    <3>3. atIndex(j - 1).key = node[n].key
      BY <2>2, <3>1, <3>2
    <3>. QED
      BY <3>2, <3>3
  <2>6. Cardinality(listed) = size
    <3>. DEFINE f == [i \in 1 .. size |-> atIndex(i - 1).key]
    <3>1. \A i \in 1 .. size : i - 1 \in 0 .. size - 1 /\ f[i] = node[q[i]].key
      <4>1. \A i \in 1 .. size : i - 1 \in 0 .. Len(q) - 1 /\ i - 1 + 1 = i
        BY <2>2
      <4>. QED
        BY <2>2, <4>1
    <3>2. f \in [1 .. size -> listed]
      BY <3>1
    <3>3. ASSUME NEW k \in listed PROVE \E i \in 1 .. size : f[i] = k
      <4>1. PICK i \in 0 .. size - 1 : atIndex(i).key = k
        OBVIOUS
      <4>2. i + 1 \in 1 .. size /\ i + 1 - 1 = i
        BY <2>2
      <4>3. f[i + 1] = k
        BY <4>1, <4>2
      <4>. QED
        BY <4>2, <4>3
    <3>4. ASSUME NEW i \in 1 .. size, NEW j \in 1 .. size, f[i] = f[j] PROVE i = j
      <4>1. node[q[i]].key = node[q[j]].key
        BY <3>1, <3>4
      <4>2. q[i] = q[j]
        BY <1>1, <2>2, <2>3, <4>1 DEF IInv, UniqueKeys
      <4>. QED
        BY <2>1, <2>2, <4>2 DEF IsList
    <3>. HIDE DEF f, listed, size
    <3>5. f \in Bijection(1 .. size, listed)
      BY <3>2, <3>3, <3>4 DEF Bijection, Injection, Surjection, IsInjective
    <3>6. ExistsBijection(1 .. size, listed) /\ size \in Nat
      BY <2>2, <3>5 DEF ExistsBijection
    <3>. QED
      BY <3>6, FS_CountingElements
  <2>7. uncopied \subseteq listed
    BY <1>1, <2>5 DEF UncopiedAreNull
  <2>8. ASSUME NEW k \in Keys
        PROVE  includesKey(k) <=> k \in listed \ uncopied
    <3>1. CASE k \in listed
      <4>1. PICK i \in 0 .. size - 1 : atIndex(i).key = k
        BY <3>1
      <4>2. at(k) = atIndex(i).value
        BY <2>4, <4>1
      <4>3. /\ i + 1 \in 1 .. Len(q) /\ atIndex(i).value = node[q[i + 1]].value
            /\ node[q[i + 1]].key = k /\ q[i + 1] \in DOMAIN node
        BY <2>2, <2>3, <4>1
      <4>4. at(k) = Null <=> k \in uncopied
        BY <1>1, <4>2, <4>3 DEF UncopiedAreNull
      <4>. QED
        BY <3>1, <4>4 DEF includesKey
    <3>2. CASE k \notin listed
      <4>1. \A n \in DOMAIN node : node[n].key # k
        BY <2>5, <3>2
      <4>2. propertyNodeAt(k) = Null
        BY <2>1, <4>1, Found DEF Hit
      <4>. QED
        BY <3>2, <4>2 DEF includesKey, at
    <3>. QED
      BY <3>1, <3>2
  <2>9. atIndex(size).key = Null
    BY <2>2
  <2>. QED
    BY <2>4, <2>6, <2>7, <2>8, <2>9 DEF ViewsAgree
<1>2. Init => UncopiedAreNull
  BY DEF Init, UncopiedAreNull
<1>3. (IInv /\ UncopiedAreNull) /\ [Next]_vars => (IInv /\ UncopiedAreNull)'
  BY NextIInv, NextUncopied
<1>. QED
  BY <1>1, <1>2, <1>3, InitIInv, PTL DEF Spec

-----------------------------------------------------------------------------
(* Who frees the values, when the client forgets what an update kept.      *)

\* New strings take addresses that no value has.
LEMMA AtPutFrees ==
  ASSUME HandsOver = TRUE, IInv, EachValueFreedOnce,
         NEW k \in Keys, NEW b \in Blocks, AtPut(k, b)
  PROVE  EachValueFreedOnce'
<1>1. PICK q : IsList(head, node, q) /\ DOMAIN node \subseteq Nodes
  BY Order
<1>2. b \in DOMAIN text /\ owner[b] = "client" /\ Strings
  BY Parts DEF AtPut
<1>3. \A n \in DOMAIN node : node[n].value # Null =>
        node[n].value \in DOMAIN text /\ owner[node[n].value] = "list" /\ node[n].value # b
  BY <1>2 DEF EachValueFreedOnce
<1>4. \A m, n \in DOMAIN node :
        node[m].value # Null /\ node[n].value # Null /\ node[m].value = node[n].value => m = n
  BY DEF EachValueFreedOnce
<1>5. CASE UpdateExisting(k, b)
  <2>1. PICK p \in 1 .. Len(q) : Updated(q, p, k, b)
    BY <1>1, <1>5, UpdateExistingDoes
  <2>. DEFINE x == q[p]
  <2>2. /\ x \in DOMAIN node /\ DOMAIN node' = DOMAIN node
        /\ node'[x] = Node(k, b, node[x].next)
        /\ \A m \in DOMAIN node : m # x => node'[m] = node[m]
        /\ text' = text
    BY <2>1 DEF Updated
  <2>. HIDE DEF x
  <2>3. node'[x].value = b
    BY <2>2, NodeFields
  <2>4. owner' = [owner EXCEPT ![b] = "list"] /\ DOMAIN owner = DOMAIN text
    BY <1>2, <1>5 DEF UpdateExisting, Strings
  <2>5. ASSUME NEW n \in DOMAIN node', node'[n].value # Null
        PROVE  node'[n].value \in DOMAIN text' /\ owner'[node'[n].value] = "list"
    BY <1>2, <1>3, <2>2, <2>3, <2>4, <2>5
  <2>6. ASSUME NEW m \in DOMAIN node', NEW n \in DOMAIN node',
               node'[m].value # Null, node'[n].value # Null, node'[m].value = node'[n].value
        PROVE  m = n
    BY <1>3, <1>4, <2>2, <2>3, <2>6
  <2>. QED
    BY <2>5, <2>6 DEF EachValueFreedOnce
<1>6. CASE AppendNew(k, b)
  <2>1. PICK n, c : Added(q, n, k, c) /\ Copied(b, c)
    BY <1>1, <1>6, AppendNewDoes
  <2>2. /\ DOMAIN node' = DOMAIN node \cup {n} /\ node'[n].value = c
        /\ \A m \in DOMAIN node : node'[m].value = node[m].value
    BY <2>1, NodeFields DEF Added
  <2>3. c = Null \/ c \notin DOMAIN text
    BY <2>1 DEF Copied
  <2>4. /\ c = Null => text' = text /\ owner' = owner
        /\ c # Null => text' = Extend(text, c, text[b]) /\ owner' = Extend(owner, c, "list")
    BY <2>1 DEF Copied
  <2>5. /\ \A a \in DOMAIN text : a \in DOMAIN text' /\ owner'[a] = owner[a]
        /\ c # Null => c \in DOMAIN text' /\ owner'[c] = "list"
    BY <1>2, <2>3, <2>4 DEF Strings, Extend
  <2>6. ASSUME NEW m \in DOMAIN node', node'[m].value # Null
        PROVE  node'[m].value \in DOMAIN text' /\ owner'[node'[m].value] = "list"
    BY <1>3, <2>2, <2>5, <2>6
  <2>7. ASSUME NEW l \in DOMAIN node', NEW m \in DOMAIN node',
               node'[l].value # Null, node'[m].value # Null, node'[l].value = node'[m].value
        PROVE  l = m
    BY <1>3, <1>4, <2>2, <2>3, <2>7
  <2>. QED
    BY <2>6, <2>7 DEF EachValueFreedOnce
<1>. QED
  BY <1>5, <1>6 DEF AtPut

\* The value of a removed node is the client's, and it is on the list no more.
LEMMA RemoveKeyFrees ==
  ASSUME IInv, EachValueFreedOnce, NEW k, RemoveKey(k)
  PROVE  EachValueFreedOnce'
<1>1. PICK q : IsList(head, node, q) /\ DOMAIN node \subseteq Nodes
  BY Order
<1>2. PICK p \in 1 .. Len(q) : Removed(q, p, k)
  BY <1>1, RemoveKeyDoes
<1>. DEFINE x == q[p]
<1>3. /\ x \in DOMAIN node /\ DOMAIN node' = DOMAIN node \ {x} /\ text' = text
      /\ \A m \in DOMAIN node' : node'[m].value = node[m].value
      /\ owner' = IF node[x].value \in DOMAIN owner
                    THEN [owner EXCEPT ![node[x].value] = "client"] ELSE owner
  BY <1>2, NodeFields DEF Removed
<1>. HIDE DEF x
<1>4. DOMAIN owner = DOMAIN text
  BY Parts DEF Strings
<1>5. \A n \in DOMAIN node : node[n].value # Null =>
        node[n].value \in DOMAIN text /\ owner[node[n].value] = "list"
  BY DEF EachValueFreedOnce
<1>6. \A m, n \in DOMAIN node :
        node[m].value # Null /\ node[n].value # Null /\ node[m].value = node[n].value => m = n
  BY DEF EachValueFreedOnce
<1>7. ASSUME NEW n \in DOMAIN node', node'[n].value # Null
      PROVE  node'[n].value \in DOMAIN text' /\ owner'[node'[n].value] = "list"
  <2>1. /\ n \in DOMAIN node /\ n # x /\ node'[n].value = node[n].value
        /\ node[n].value # node[x].value
    BY <1>3, <1>6, <1>7
  <2>. QED
    BY <1>3, <1>4, <1>5, <1>7, <2>1
<1>8. ASSUME NEW m \in DOMAIN node', NEW n \in DOMAIN node',
             node'[m].value # Null, node'[n].value # Null, node'[m].value = node'[n].value
      PROVE  m = n
  BY <1>3, <1>6, <1>8
<1>. QED
  BY <1>7, <1>8 DEF EachValueFreedOnce

\* The client uses its own strings only, so none that is on the list.
LEMMA ClientFreesOwn ==
  ASSUME IInv, EachValueFreedOnce,
         \/ \E b \in Blocks, t \in Texts : ClientMakes(b, t) \/ ClientWrites(b, t)
         \/ \E b \in Blocks : ClientFrees(b)
  PROVE  /\ EachValueFreedOnce' /\ UNCHANGED <<head, node>>
         /\ \A n \in DOMAIN node :
              node[n].value # Null => text'[node[n].value] = text[node[n].value]
<1>1. UNCHANGED <<head, node>>
  BY ClientStep
<1>2. \A n \in DOMAIN node : node[n].value # Null =>
        node[n].value \in DOMAIN text /\ owner[node[n].value] = "list"
  BY DEF EachValueFreedOnce
<1>3. DOMAIN owner = DOMAIN text
  BY Parts DEF Strings
<1>. DEFINE Kept == \A a \in DOMAIN text : owner[a] = "list" =>
                      a \in DOMAIN text' /\ text'[a] = text[a] /\ owner'[a] = "list"
<1>4. ASSUME NEW b \in Blocks, NEW t \in Texts, ClientMakes(b, t) PROVE Kept
  BY <1>3, <1>4 DEF ClientMakes, Extend
<1>5. ASSUME NEW b \in Blocks, NEW t \in Texts, ClientWrites(b, t) PROVE Kept
  BY <1>3, <1>5 DEF ClientWrites
<1>6. ASSUME NEW b \in Blocks, ClientFrees(b) PROVE Kept
  BY <1>3, <1>6 DEF ClientFrees, Drop, Restrict
<1>7. Kept
  BY <1>4, <1>5, <1>6
<1>8. \A n \in DOMAIN node : node[n].value # Null =>
        /\ node[n].value \in DOMAIN text' /\ owner'[node[n].value] = "list"
        /\ text'[node[n].value] = text[node[n].value]
  BY <1>2, <1>7
<1>9. EachValueFreedOnce'
  BY <1>1, <1>8 DEF EachValueFreedOnce
<1>. QED
  BY <1>1, <1>8, <1>9

\* Every step keeps the values apart.
LEMMA NextFrees ==
  ASSUME HandsOver = TRUE, IInv, EachValueFreedOnce, [Next]_vars
  PROVE  EachValueFreedOnce'
<1>1. CASE New
  BY <1>1 DEF New, EachValueFreedOnce
<1>2. CASE Free
  <2>1. DOMAIN node' = {}
    BY <1>2, FreeDoes
  <2>. QED
    BY <2>1 DEF EachValueFreedOnce
<1>3. CASE \E k \in Keys, b \in Blocks : AtPut(k, b)
  BY <1>3, AtPutFrees
<1>4. CASE \E k \in Keys : RemoveKey(k)
  BY <1>4, RemoveKeyFrees
<1>5. CASE \/ \E b \in Blocks, t \in Texts : ClientMakes(b, t) \/ ClientWrites(b, t)
           \/ \E b \in Blocks : ClientFrees(b)
  BY <1>5, ClientFreesOwn
<1>6. CASE UNCHANGED vars
  BY <1>6 DEF EachValueFreedOnce, vars
<1>. QED
  BY <1>1, <1>2, <1>3, <1>4, <1>5, <1>6 DEF Next

\* If the client forgets the strings that updates kept, every value on the
\* list is allocated, belongs to the list and is there once.
THEOREM FreesEachValueOnce ==
  ASSUME HandsOver = TRUE
  PROVE  Spec => []EachValueFreedOnce
<1>1. Init => IInv /\ EachValueFreedOnce
  <2>1. Init => EachValueFreedOnce
    BY DEF Init, EachValueFreedOnce
  <2>. QED
    BY <2>1, InitIInv
<1>2. (IInv /\ EachValueFreedOnce) /\ [Next]_vars => (IInv /\ EachValueFreedOnce)'
  BY NextIInv, NextFrees
<1>. QED
  BY <1>1, <1>2, PTL DEF Spec

-----------------------------------------------------------------------------
(* The list implements the ordered map.                                    *)

Pair(k, t) == [key |-> k, text |-> t]

\* The pair of a node.
EntryOf(nd, tx, n) == Pair(nd[n].key, IF nd[n].value = Null THEN Null ELSE tx[nd[n].value])
EntriesOf(nd, tx, q) == [i \in 1 .. Len(q) |-> EntryOf(nd, tx, q[i])]

EntriesFit ==
  \A q : IsList(head, node, q) /\ DOMAIN node \subseteq Nodes => entries = EntriesOf(node, text, q)

\* The pairs are those of the nodes, in the order of the list.
LEMMA EntriesAre == EntriesFit
<1>. SUFFICES ASSUME NEW q, IsList(head, node, q), DOMAIN node \subseteq Nodes
              PROVE  entries = EntriesOf(node, text, q)
  BY DEF EntriesFit
<1>1. /\ getSize = Len(q) /\ Len(q) \in Nat
      /\ \A i \in 0 .. Len(q) - 1 :
           /\ i + 1 \in 1 .. Len(q)
           /\ atIndex(i).key = node[q[i + 1]].key
           /\ atIndex(i).value = node[q[i + 1]].value
      /\ atIndex(Len(q)).key = Null
  BY AtIndexIs
<1>2. ASSUME NEW i \in 1 .. Len(q)
      PROVE  Pair(atIndex(i - 1).key, TextOf(atIndex(i - 1).value)) = EntryOf(node, text, q[i])
  <2>1. i - 1 \in 0 .. Len(q) - 1 /\ i - 1 + 1 = i
    BY <1>1
  <2>2. atIndex(i - 1).key = node[q[i]].key /\ atIndex(i - 1).value = node[q[i]].value
    BY <1>1, <2>1
  <2>. QED
    BY <2>2 DEF EntryOf, TextOf
<1>3. entries = [i \in 1 .. Len(q) |-> Pair(atIndex(i - 1).key, TextOf(atIndex(i - 1).value))]
  BY <1>1 DEF entries, Pair
<1>. QED
  BY <1>2, <1>3 DEF EntriesOf

\* So it is after every step.
LEMMA EntriesNext == EntriesFit'
BY EntriesAre, PTL

\* The pairs are a sequence.
LEMMA EntriesSeq ==
  ASSUME NEW D, NEW q \in Seq(D), NEW nd, NEW tx
  PROVE  /\ \E S : EntriesOf(nd, tx, q) \in Seq(S)
         /\ Len(EntriesOf(nd, tx, q)) = Len(q) /\ Len(q) \in Nat
         /\ DOMAIN EntriesOf(nd, tx, q) = 1 .. Len(q)
         /\ \A i \in 1 .. Len(q) : EntriesOf(nd, tx, q)[i] = EntryOf(nd, tx, q[i])
<1>. DEFINE S == {EntryOf(nd, tx, q[i]) : i \in 1 .. Len(q)}
<1>1. Len(q) \in Nat
  OBVIOUS
<1>2. EntriesOf(nd, tx, q) \in [1 .. Len(q) -> S]
  BY DEF EntriesOf
<1>. HIDE DEF S
<1>3. EntriesOf(nd, tx, q) \in Seq(S) /\ Len(EntriesOf(nd, tx, q)) = Len(q)
  BY <1>1, <1>2
<1>. QED
  BY <1>1, <1>2, <1>3 DEF EntriesOf

\* RemoveAt leaves one element out.
LEMMA RemoveAtIs ==
  ASSUME NEW S, NEW s \in Seq(S), NEW p \in 1 .. Len(s)
  PROVE  Map!RemoveAt(s, p) = Without(s, p)
<1>. DEFINE f == SubSeq(s, 1, p - 1)
            b == SubSeq(s, p + 1, Len(s))
            r == f \o b
<1>1. Len(s) \in Nat /\ p \in Nat /\ 1 <= p /\ p <= Len(s)
  OBVIOUS
<1>2. f \in Seq(S) /\ Len(f) = p - 1 /\ \A i \in 1 .. p - 1 : f[i] = s[i]
  BY <1>1
<1>3. b \in Seq(S) /\ Len(b) = Len(s) - p /\ \A i \in 1 .. Len(s) - p : b[i] = s[i + p]
  BY <1>1
<1>. HIDE DEF f, b
<1>4. /\ r \in Seq(S) /\ Len(r) = Len(s) - 1
      /\ \A i \in 1 .. Len(r) : r[i] = IF i < p THEN f[i] ELSE b[i - (p - 1)]
  BY <1>1, <1>2, <1>3
<1>. HIDE DEF r
<1>5. ASSUME NEW i \in 1 .. Len(s) - 1 PROVE r[i] = IF i < p THEN s[i] ELSE s[i + 1]
  <2>1. CASE i < p
    <3>1. i \in 1 .. p - 1
      BY <1>1, <2>1
    <3>. QED
      BY <1>2, <1>4, <2>1, <3>1
  <2>2. CASE ~(i < p)
    <3>1. i - (p - 1) \in 1 .. Len(s) - p /\ i - (p - 1) + p = i + 1
      BY <1>1, <2>2
    <3>2. r[i] = b[i - (p - 1)]
      BY <1>4, <2>2
    <3>3. b[i - (p - 1)] = s[i - (p - 1) + p]
      BY <1>3, <3>1
    <3>. QED
      BY <2>2, <3>1, <3>2, <3>3
  <2>. QED
    BY <2>1, <2>2
<1>6. r = [i \in 1 .. Len(s) - 1 |-> r[i]]
  BY <1>4
<1>7. r = Without(s, p)
  BY <1>5, <1>6 DEF Without
<1>. QED
  BY <1>7 DEF r, f, b, Map!RemoveAt

\* A new pair goes to the end.
LEMMA AddImplements ==
  ASSUME IInv, EachValueFreedOnce, NEW k \in Keys, NEW b \in Blocks, b \in DOMAIN text,
         AppendNew(k, b)
  PROVE  \E t \in Texts \cup {Null} : Map!Add(k, t)
<1>1. PICK q : IsList(head, node, q) /\ DOMAIN node \subseteq Nodes
  BY Order
<1>2. PICK n, c : Added(q, n, k, c) /\ Copied(b, c)
  BY <1>1, AppendNewDoes
<1>3. /\ n \in Nodes \ DOMAIN node
      /\ \A m \in DOMAIN node : node[m].key # k
      /\ head' = IF Len(q) = 0 THEN n ELSE head
      /\ DOMAIN node' = DOMAIN node \cup {n}
      /\ node'[n].next = Null /\ node'[n].key = k /\ node'[n].value = c
      /\ \A m \in DOMAIN node :
           /\ node'[m].key = node[m].key /\ node'[m].value = node[m].value
           /\ node'[m].next = IF Len(q) # 0 /\ m = q[Len(q)] THEN n ELSE node[m].next
  BY <1>2, NodeFields DEF Added
<1>4. LinkedLast(node, q, n, node')
  BY <1>3 DEF LinkedLast
<1>. DEFINE a == Append(q, n)
            t == IF c = Null THEN Null ELSE text[b]
            es == EntriesOf(node, text, q)
<1>5. IsList(head', node', a)
  BY <1>1, <1>3, <1>4, Appended
<1>6. entries = es
  BY <1>1, EntriesAre DEF EntriesFit
<1>7. entries' = EntriesOf(node', text', a)
  <2>1. DOMAIN node' \subseteq Nodes
    BY <1>1, <1>3
  <2>. QED
    BY <1>5, <2>1, EntriesNext DEF EntriesFit
<1>8. q \in Seq(DOMAIN node) /\ Len(q) \in Nat /\ \A i \in 1 .. Len(q) : q[i] \in DOMAIN node
  BY <1>1 DEF IsList
<1>9. /\ a \in Seq(DOMAIN node') /\ Len(a) = Len(q) + 1 /\ a[Len(q) + 1] = n
      /\ \A i \in 1 .. Len(q) : a[i] = q[i]
  <2>1. q \in Seq(DOMAIN node') /\ n \in DOMAIN node'
    BY <1>3, <1>8, SeqMonotonic
  <2>. QED
    BY <1>8, <2>1
<1>. HIDE DEF a
<1>10. PICK S : es \in Seq(S)
  BY <1>8, EntriesSeq
<1>11. /\ Len(es) = Len(q) /\ DOMAIN es = 1 .. Len(q)
       /\ \A i \in 1 .. Len(q) : es[i] = EntryOf(node, text, q[i])
  BY <1>8, EntriesSeq
<1>12. /\ c # Null => c \notin DOMAIN text /\ text' = Extend(text, c, text[b])
       /\ c = Null => text' = text
  BY <1>2 DEF Copied
<1>13. ASSUME NEW m \in DOMAIN node PROVE EntryOf(node', text', m) = EntryOf(node, text, m)
  <2>1. node'[m].key = node[m].key /\ node'[m].value = node[m].value
    BY <1>3
  <2>2. node[m].value # Null => text'[node[m].value] = text[node[m].value]
    <3>1. node[m].value # Null => node[m].value \in DOMAIN text
      BY DEF EachValueFreedOnce
    <3>. QED
      BY <1>12, <3>1 DEF Extend
  <2>. QED
    BY <2>1, <2>2 DEF EntryOf
<1>14. EntryOf(node', text', n) = Pair(k, t)
  <2>1. c # Null => text'[c] = text[b]
    BY <1>12 DEF Extend
  <2>. QED
    BY <1>3, <2>1 DEF EntryOf
<1>. HIDE DEF es, t
<1>15. entries' = Append(es, Pair(k, t))
  <2>1. /\ entries' = [i \in 1 .. Len(q) + 1 |-> EntryOf(node', text', a[i])]
    BY <1>7, <1>9 DEF EntriesOf
  <2>2. \A i \in 1 .. Len(q) + 1 : i \in 1 .. Len(q) \/ i = Len(q) + 1
    BY <1>8
  <2>. DEFINE T == S \cup {Pair(k, t)}
  <2>3. es \in Seq(T) /\ Pair(k, t) \in T
    BY <1>10, SeqMonotonic
  <2>. HIDE DEF T
  <2>. DEFINE r == Append(es, Pair(k, t))
  <2>4. /\ r \in Seq(T) /\ Len(r) = Len(q) + 1 /\ r[Len(q) + 1] = Pair(k, t)
        /\ \A i \in 1 .. Len(q) : r[i] = es[i]
    BY <1>11, <2>3
  <2>. HIDE DEF r
  <2>5. r = [i \in 1 .. Len(q) + 1 |-> r[i]]
    BY <2>4
  <2>6. \A i \in 1 .. Len(q) + 1 : EntryOf(node', text', a[i]) = r[i]
    BY <1>8, <1>9, <1>11, <1>13, <1>14, <2>2, <2>4
  <2>. QED
    BY <2>1, <2>5, <2>6 DEF r
<1>16. ~Map!Includes(k)
  <2>1. ASSUME NEW i \in 1 .. Len(q) PROVE es[i].key # k
    BY <1>3, <1>8, <1>11 DEF EntryOf, Pair
  <2>. QED
    BY <1>6, <1>11, <2>1 DEF Map!Includes
<1>17. t \in Texts \cup {Null}
  BY Parts DEF Strings, t
<1>. QED
  BY <1>6, <1>15, <1>16, <1>17 DEF Map!Add, Pair

\* A known key keeps its place and gets the text of the string.
LEMMA UpdateImplements ==
  ASSUME IInv, NEW k \in Keys, NEW b \in Blocks, b \in DOMAIN text, UpdateExisting(k, b)
  PROVE  \E t \in Texts : Map!Update(k, t)
<1>1. PICK q : IsList(head, node, q) /\ DOMAIN node \subseteq Nodes
  BY Order
<1>2. PICK p \in 1 .. Len(q) : Updated(q, p, k, b)
  BY <1>1, UpdateExistingDoes
<1>. DEFINE x == q[p]
            t == text[b]
            es == EntriesOf(node, text, q)
<1>3. /\ x \in DOMAIN node /\ node[x].key = k /\ DOMAIN node' = DOMAIN node
      /\ \A m \in DOMAIN node : m # x => node'[m] = node[m]
      /\ node'[x].key = k /\ node'[x].value = b /\ node'[x].next = node[x].next
      /\ UNCHANGED <<head, text>>
  BY <1>2, NodeFields DEF Updated
<1>4. IsList(head', node', q)
  BY <1>1, <1>3, SameList
<1>5. entries = es
  BY <1>1, EntriesAre DEF EntriesFit
<1>6. entries' = EntriesOf(node', text', q)
  BY <1>1, <1>3, <1>4, EntriesNext DEF EntriesFit
<1>7. q \in Seq(DOMAIN node) /\ Len(q) \in Nat /\ \A i \in 1 .. Len(q) : q[i] \in DOMAIN node
  BY <1>1 DEF IsList
<1>8. /\ Len(es) = Len(q) /\ DOMAIN es = 1 .. Len(q)
      /\ \A i \in 1 .. Len(q) : es[i] = EntryOf(node, text, q[i])
  BY <1>7, EntriesSeq
<1>9. \A i \in 1 .. Len(q) : q[i] = x => i = p
  BY <1>1 DEF IsList
<1>10. t \in Texts /\ t # Null /\ b # Null
  BY Parts, NullAssumption DEF Strings
<1>. HIDE DEF x
<1>11. EntryOf(node', text', x) = Pair(k, t)
  BY <1>3, <1>10 DEF EntryOf
<1>12. ASSUME NEW m \in DOMAIN node, m # x
       PROVE  EntryOf(node', text', m) = EntryOf(node, text, m)
  BY <1>3, <1>12 DEF EntryOf
<1>13. PICK u : es[p] = Pair(k, u)
  BY <1>3, <1>8 DEF EntryOf, x
<1>. HIDE DEF es, t
<1>14. [es EXCEPT ![p].text = t] = [es EXCEPT ![p] = Pair(k, t)]
  <2>. DEFINE r == es[p]
  <2>1. r = [key |-> k, text |-> u]
    BY <1>13 DEF Pair
  <2>. HIDE DEF r
  <2>2. [r EXCEPT !.text = t] = Pair(k, t)
    BY <2>1 DEF Pair
  <2>3. [es EXCEPT ![p].text = t] = [es EXCEPT ![p] = [r EXCEPT !.text = t]]
    BY DEF r
  <2>. QED
    BY <2>2, <2>3
<1>15. entries' = [es EXCEPT ![p] = Pair(k, t)]
  <2>1. entries' = [i \in 1 .. Len(q) |-> EntryOf(node', text', q[i])]
    BY <1>6 DEF EntriesOf
  <2>2. ASSUME NEW i \in 1 .. Len(q)
        PROVE  EntryOf(node', text', q[i]) = IF i = p THEN Pair(k, t) ELSE es[i]
    <3>1. CASE i = p
      BY <1>11, <3>1 DEF x
    <3>2. CASE i # p
      <4>1. q[i] \in DOMAIN node /\ q[i] # x
        BY <1>7, <1>9, <3>2
      <4>. QED
        BY <1>8, <1>12, <3>2, <4>1
    <3>. QED
      BY <3>1, <3>2
  <2>. QED
    BY <1>8, <2>1, <2>2
<1>16. es[p].key = k /\ p \in DOMAIN es
  BY <1>8, <1>13 DEF Pair
<1>17. Map!Update(k, t)
  BY <1>5, <1>10, <1>14, <1>15, <1>16 DEF Map!Update
<1>. QED
  BY <1>10, <1>17

\* A removed key takes its pair along.
LEMMA RemoveImplements ==
  ASSUME IInv, NEW k, RemoveKey(k)
  PROVE  Map!RemoveKey(k)
<1>1. PICK q : IsList(head, node, q) /\ DOMAIN node \subseteq Nodes
  BY Order
<1>2. PICK p \in 1 .. Len(q) : Removed(q, p, k)
  BY <1>1, RemoveKeyDoes
<1>. DEFINE es == EntriesOf(node, text, q)
            w == Without(q, p)
<1>3. /\ q[p] \in DOMAIN node /\ node[q[p]].key = k
      /\ head' = IF p = 1 THEN node[q[p]].next ELSE head
      /\ DOMAIN node' = DOMAIN node \ {q[p]} /\ text' = text
      /\ \A m \in DOMAIN node' :
           /\ node'[m].key = node[m].key /\ node'[m].value = node[m].value
           /\ node'[m].next = IF p # 1 /\ m = q[p - 1] THEN node[q[p]].next ELSE node[m].next
  BY <1>2, NodeFields DEF Removed
<1>4. UnlinkedAt(node, q, p, node')
  BY <1>3 DEF UnlinkedAt
<1>5. IsList(head', node', w)
  BY <1>1, <1>3, <1>4, Unlinked
<1>6. entries = es
  BY <1>1, EntriesAre DEF EntriesFit
<1>7. entries' = EntriesOf(node', text', w)
  <2>1. DOMAIN node' \subseteq Nodes
    BY <1>1, <1>3
  <2>. QED
    BY <1>5, <2>1, EntriesNext DEF EntriesFit
<1>8. q \in Seq(DOMAIN node) /\ Len(q) \in Nat
  BY <1>1 DEF IsList
<1>9. PICK S : es \in Seq(S)
  BY <1>8, EntriesSeq
<1>10. /\ Len(es) = Len(q) /\ DOMAIN es = 1 .. Len(q)
       /\ \A i \in 1 .. Len(q) : es[i] = EntryOf(node, text, q[i])
  BY <1>8, EntriesSeq
<1>11. /\ Len(w) = Len(q) - 1
       /\ \A i \in 1 .. Len(q) - 1 : w[i] = IF i < p THEN q[i] ELSE q[i + 1]
       /\ \A i \in 1 .. Len(q) - 1 : (IF i < p THEN i ELSE i + 1) \in 1 .. Len(q) \ {p}
  BY <1>8, WithoutIs
<1>12. \A i \in 1 .. Len(w) : w[i] \in DOMAIN node'
  BY <1>5 DEF IsList
<1>. HIDE DEF es, w
<1>13. ASSUME NEW i \in 1 .. Len(q) - 1
       PROVE  EntryOf(node', text', w[i]) = IF i < p THEN es[i] ELSE es[i + 1]
  <2>1. w[i] \in DOMAIN node'
    BY <1>11, <1>12
  <2>2. EntryOf(node', text', w[i]) = EntryOf(node, text, w[i])
    BY <1>3, <2>1 DEF EntryOf
  <2>3. CASE i < p
    <3>1. i \in 1 .. Len(q) /\ w[i] = q[i]
      BY <1>11, <2>3
    <3>. QED
      BY <1>10, <2>2, <2>3, <3>1
  <2>4. CASE ~(i < p)
    <3>1. i + 1 \in 1 .. Len(q) /\ w[i] = q[i + 1]
      BY <1>11, <2>4
    <3>. QED
      BY <1>10, <2>2, <2>4, <3>1
  <2>. QED
    BY <2>3, <2>4
<1>14. entries' = Without(es, p)
  <2>1. entries' = [i \in 1 .. Len(q) - 1 |-> EntryOf(node', text', w[i])]
    BY <1>7, <1>11 DEF EntriesOf
  <2>. QED
    BY <1>10, <1>13, <2>1 DEF Without
<1>15. Map!RemoveAt(es, p) = Without(es, p)
  BY <1>9, <1>10, RemoveAtIs
<1>16. es[p].key = k /\ p \in DOMAIN es
  BY <1>3, <1>10 DEF EntryOf, Pair
<1>. QED
  BY <1>6, <1>14, <1>15, <1>16 DEF Map!RemoveKey

\* The client's own strings are invisible.
LEMMA ClientInvisible ==
  ASSUME IInv, EachValueFreedOnce,
         \/ \E b \in Blocks, t \in Texts : ClientMakes(b, t) \/ ClientWrites(b, t)
         \/ \E b \in Blocks : ClientFrees(b)
  PROVE  entries' = entries
<1>1. PICK q : IsList(head, node, q) /\ DOMAIN node \subseteq Nodes
  BY Order
<1>2. /\ UNCHANGED <<head, node>>
      /\ \A n \in DOMAIN node :
           node[n].value # Null => text'[node[n].value] = text[node[n].value]
  BY ClientFreesOwn
<1>3. entries = EntriesOf(node, text, q)
  BY <1>1, EntriesAre DEF EntriesFit
<1>4. entries' = EntriesOf(node', text', q)
  BY <1>1, <1>2, EntriesNext DEF EntriesFit
<1>5. \A i \in 1 .. Len(q) : q[i] \in DOMAIN node
  BY <1>1 DEF IsList
<1>6. \A i \in 1 .. Len(q) : EntryOf(node', text', q[i]) = EntryOf(node, text, q[i])
  BY <1>2, <1>5 DEF EntryOf
<1>. QED
  BY <1>3, <1>4, <1>6 DEF EntriesOf

\* A container without nodes has no pairs.
LEMMA NoEntries ==
  ASSUME DOMAIN node' = {}, head' = Null
  PROVE  entries' = <<>>
<1>1. IsList(head', node', <<>>) /\ DOMAIN node' \subseteq Nodes
  BY NoNodes
<1>2. entries' = EntriesOf(node', text', <<>>)
  BY <1>1, EntriesNext DEF EntriesFit
<1>. QED
  BY <1>2 DEF EntriesOf

\* Every step is one of the map, or leaves it as it is.
LEMMA NextImplements ==
  ASSUME IInv, EachValueFreedOnce, [Next]_vars
  PROVE  [Map!Next]_entries
<1>1. CASE New
  <2>1. DOMAIN node' = {} /\ head' = Null
    BY <1>1 DEF New, IInv, Alive
  <2>2. Map!Clear
    BY <2>1, NoEntries DEF Map!Clear
  <2>. QED
    BY <2>2 DEF Map!Next
<1>2. CASE Free
  <2>1. Map!Clear
    BY <1>2, FreeDoes, NoEntries DEF Map!Clear
  <2>. QED
    BY <2>1 DEF Map!Next
<1>3. CASE \E k \in Keys, b \in Blocks : AtPut(k, b)
  <2>1. PICK k \in Keys, b \in Blocks : AtPut(k, b)
    BY <1>3
  <2>2. b \in DOMAIN text
    BY <2>1 DEF AtPut
  <2>3. CASE UpdateExisting(k, b)
    BY <2>2, <2>3, UpdateImplements DEF Map!Next
  <2>4. CASE AppendNew(k, b)
    BY <2>2, <2>4, AddImplements DEF Map!Next
  <2>. QED
    BY <2>1, <2>3, <2>4 DEF AtPut
<1>4. CASE \E k \in Keys : RemoveKey(k)
  BY <1>4, RemoveImplements DEF Map!Next
<1>5. CASE \/ \E b \in Blocks, t \in Texts : ClientMakes(b, t) \/ ClientWrites(b, t)
           \/ \E b \in Blocks : ClientFrees(b)
  BY <1>5, ClientInvisible
<1>6. CASE UNCHANGED vars
  BY <1>6 DEF vars, entries, atIndex, TextOf, getSize, Nth
<1>. QED
  BY <1>1, <1>2, <1>3, <1>4, <1>5, <1>6 DEF Next

\* If the client forgets the strings that updates kept, the list is the
\* ordered map of the header.
THEOREM ListImplementsPropertyMap ==
  ASSUME HandsOver = TRUE
  PROVE  Spec => ImplementsPropertyMap
<1>1. Init => Map!Init
  <2>. SUFFICES ASSUME Init PROVE Map!Init
    OBVIOUS
  <2>1. DOMAIN node = {} /\ head = Null
    BY DEF Init
  <2>2. IsList(head, node, <<>>) /\ DOMAIN node \subseteq Nodes
    BY <2>1, NoNodes
  <2>3. entries = EntriesOf(node, text, <<>>)
    BY <2>2, EntriesAre DEF EntriesFit
  <2>. QED
    BY <2>3 DEF EntriesOf, Map!Init
<1>2. IInv /\ EachValueFreedOnce /\ [Next]_vars => [Map!Next]_entries
  BY NextImplements
<1>3. Spec => []EachValueFreedOnce
  BY FreesEachValueOnce
<1>. QED
  BY Invariant, <1>1, <1>2, <1>3, PTL DEF Spec, ImplementsPropertyMap, Map!Spec
=============================================================================
