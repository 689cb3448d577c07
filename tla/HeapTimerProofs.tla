--------------------------- MODULE HeapTimerProofs ---------------------------
(* Proofs about HeapTimer, for any keys, time points and size of the heap. *)
EXTENDS HeapTimer, WellFoundedInduction, TLAPS

-----------------------------------------------------------------------------
(* Induction and the loops.                                                *)

\* A set of numbers has a least one: < is well-founded.
LEMMA LeastNumber ==
  ASSUME NEW T, T \subseteq Nat, T # {}
  PROVE  \E x \in T : \A y \in T : x <= y
<1> DEFINE Less == {p \in Nat \X Nat : p[1] < p[2]}
<1>1. Less = OpToRel(<, Nat)
  BY Zenon DEF OpToRel
<1>2. IsWellFoundedOn(OpToRel(<, Nat), Nat)
  BY NatLessThanWellFounded
<1>3. IsWellFoundedOn(Less, Nat)
  BY <1>1, <1>2, Zenon
<1> HIDE DEF Less
<1>4. PICK x \in T : \A y \in T : ~(<<y, x>> \in Less)
  BY <1>3, WFMin
<1>5. ASSUME NEW y \in T PROVE x <= y
  <2>1. /\ <<y, x>> \in Nat \X Nat /\ <<y, x>>[1] = y /\ <<y, x>>[2] = x
        /\ x \in Nat /\ y \in Nat
    OBVIOUS
  <2>2. y < x => <<y, x>> \in Less
    BY <2>1 DEF Less
  <2> QED
    BY <1>4, <2>1, <2>2
<1> QED
  BY <1>5

\* A set that has 0, and the successor of each of its numbers, has them all.
LEMMA Induction ==
  ASSUME NEW S, 0 \in S, \A n \in Nat : n \in S => n + 1 \in S
  PROVE  Nat \subseteq S
<1> SUFFICES ASSUME Nat \ S # {} PROVE FALSE
  OBVIOUS
<1>1. PICK x \in Nat \ S : \A y \in Nat \ S : x <= y
  BY LeastNumber
<1>2. x # 0 /\ x - 1 \in Nat
  BY <1>1
<1>3. x - 1 \in S
  BY <1>1, <1>2
<1> QED
  BY <1>1, <1>2, <1>3

\* The iterations of the two loops exist, whatever their number.
LEMMA UpExists ==
  ASSUME NEW a, NEW k \in Nat
  PROVE  \E f : f = [n \in 0 .. k |-> IF n = 0 THEN a ELSE UpStep(f[n - 1])]
<1> DEFINE Is(f, m) == f = [n \in 0 .. m |-> IF n = 0 THEN a ELSE UpStep(f[n - 1])]
           S == {m \in Nat : \E f : Is(f, m)}
<1>1. 0 \in S
  <2>1. Is([n \in 0 .. 0 |-> a], 0)
    OBVIOUS
  <2> QED
    BY <2>1
<1>2. ASSUME NEW m \in Nat, m \in S PROVE m + 1 \in S
  <2>1. PICK f : Is(f, m)
    BY <1>2
  <2> DEFINE g == [n \in 0 .. m + 1 |-> IF n <= m THEN f[n] ELSE UpStep(f[m])]
  <2>2. f[0] = a /\ \A n \in 1 .. m : f[n] = UpStep(f[n - 1])
    BY <2>1
  <2>3. \A n \in 0 .. m + 1 : g[n] = IF n = 0 THEN a ELSE UpStep(g[n - 1])
    <3> TAKE n \in 0 .. m + 1
    <3>1. CASE n = 0
      BY <2>2, <3>1
    <3>2. CASE n \in 1 .. m
      BY <2>2, <3>2
    <3>3. CASE n = m + 1
      <4>1. g[n] = UpStep(f[m]) /\ n - 1 = m /\ g[m] = f[m] /\ n # 0
        BY <3>3
      <4> QED
        BY <4>1
    <3> QED
      BY <3>1, <3>2, <3>3
  <2>4. Is(g, m + 1)
    BY <2>3
  <2> HIDE DEF g, Is
  <2>5. m + 1 \in Nat /\ \E q : Is(q, m + 1)
    BY <2>4
  <2> QED
    BY <2>5
<1> HIDE DEF S
<1>3. Nat \subseteq S
  BY <1>1, <1>2, Induction
<1> QED
  BY <1>3 DEF S

\* The same for ShiftDown.
LEMMA DownExists ==
  ASSUME NEW a, NEW k \in Nat
  PROVE  \E f : f = [n \in 0 .. k |-> IF n = 0 THEN a ELSE DownStep(f[n - 1])]
<1> DEFINE Is(f, m) == f = [n \in 0 .. m |-> IF n = 0 THEN a ELSE DownStep(f[n - 1])]
           S == {m \in Nat : \E f : Is(f, m)}
<1>1. 0 \in S
  <2>1. Is([n \in 0 .. 0 |-> a], 0)
    OBVIOUS
  <2> QED
    BY <2>1
<1>2. ASSUME NEW m \in Nat, m \in S PROVE m + 1 \in S
  <2>1. PICK f : Is(f, m)
    BY <1>2
  <2> DEFINE g == [n \in 0 .. m + 1 |-> IF n <= m THEN f[n] ELSE DownStep(f[m])]
  <2>2. f[0] = a /\ \A n \in 1 .. m : f[n] = DownStep(f[n - 1])
    BY <2>1
  <2>3. \A n \in 0 .. m + 1 : g[n] = IF n = 0 THEN a ELSE DownStep(g[n - 1])
    <3> TAKE n \in 0 .. m + 1
    <3>1. CASE n = 0
      BY <2>2, <3>1
    <3>2. CASE n \in 1 .. m
      BY <2>2, <3>2
    <3>3. CASE n = m + 1
      <4>1. g[n] = DownStep(f[m]) /\ n - 1 = m /\ g[m] = f[m] /\ n # 0
        BY <3>3
      <4> QED
        BY <4>1
    <3> QED
      BY <3>1, <3>2, <3>3
  <2>4. Is(g, m + 1)
    BY <2>3
  <2> HIDE DEF g, Is
  <2>5. m + 1 \in Nat /\ \E q : Is(q, m + 1)
    BY <2>4
  <2> QED
    BY <2>5
<1> HIDE DEF S
<1>3. Nat \subseteq S
  BY <1>1, <1>2, Induction
<1> QED
  BY <1>3 DEF S

\* What ShiftUp and ShiftDown return is the end of such iterations.
LEMMA UpRuns ==
  ASSUME NEW h, NEW i, Len(h.nodes) \in Nat
  PROVE  \E f : /\ f[0] = [h |-> h, at |-> i]
                /\ \A n \in 1 .. Len(h.nodes) : f[n] = UpStep(f[n - 1])
                /\ ShiftUp(h, i) = f[Len(h.nodes)].h
<1> DEFINE k == Len(h.nodes)
           a == [h |-> h, at |-> i]
           f == CHOOSE f : f = [n \in 0 .. k |-> IF n = 0 THEN a ELSE UpStep(f[n - 1])]
<1>1. ShiftUp(h, i) = f[k].h
  BY DEF ShiftUp
<1>2. f = [n \in 0 .. k |-> IF n = 0 THEN a ELSE UpStep(f[n - 1])]
  <2> HIDE DEF a
  <2>1. \E g : g = [n \in 0 .. k |-> IF n = 0 THEN a ELSE UpStep(g[n - 1])]
    BY UpExists
  <2> QED
    BY <2>1, Zenon
<1> HIDE DEF f, a
<1>3. f[0] = a /\ \A n \in 1 .. k : f[n] = UpStep(f[n - 1])
  BY <1>2
<1> QED
  BY <1>1, <1>3 DEF a

\* ShiftDown is what its last iteration leaves.
LEMMA DownRuns ==
  ASSUME NEW h, NEW i, Len(h.nodes) \in Nat
  PROVE  \E f : /\ f[0] = [h |-> h, at |-> i]
                /\ \A n \in 1 .. Len(h.nodes) : f[n] = DownStep(f[n - 1])
                /\ ShiftDown(h, i) = f[Len(h.nodes)].h
<1> DEFINE k == Len(h.nodes)
           a == [h |-> h, at |-> i]
           f == CHOOSE f : f = [n \in 0 .. k |-> IF n = 0 THEN a ELSE DownStep(f[n - 1])]
<1>1. ShiftDown(h, i) = f[k].h
  BY DEF ShiftDown
<1>2. f = [n \in 0 .. k |-> IF n = 0 THEN a ELSE DownStep(f[n - 1])]
  <2> HIDE DEF a
  <2>1. \E g : g = [n \in 0 .. k |-> IF n = 0 THEN a ELSE DownStep(g[n - 1])]
    BY DownExists
  <2> QED
    BY <2>1, Zenon
<1> HIDE DEF f, a
<1>3. f[0] = a /\ \A n \in 1 .. k : f[n] = DownStep(f[n - 1])
  BY <1>2
<1> QED
  BY <1>1, <1>3 DEF a


-----------------------------------------------------------------------------
(* The order of the heap, as a function e from positions to times.         *)

\* The arithmetic of the positions.
LEMMA Halves ==
  ASSUME NEW i \in Nat, i >= 2
  PROVE  /\ Parent(i) \in Nat /\ 1 <= Parent(i) /\ Parent(i) < i
         /\ 2 * Parent(i) = i \/ 2 * Parent(i) + 1 = i
BY DEF Parent

\* Every node but the one at c is after its parent, and the children of c are
\* after the parent of c: what holds of a heap in which the node at c rises.
Rising(e, n, c) ==
  /\ \A i \in 2 .. n : i # c => e[Parent(i)] <= e[i]
  /\ c # 1 => \A i \in 2 .. n : Parent(i) = c => e[Parent(c)] <= e[i]

\* The same but for the children of c: the node at c sinks.
Sinking(e, n, c) ==
  /\ \A i \in 2 .. n : Parent(i) # c => e[Parent(i)] <= e[i]
  /\ c # 1 => \A i \in 2 .. n : Parent(i) = c => e[Parent(c)] <= e[i]

Sorted(e, n) == \A i \in 2 .. n : e[Parent(i)] <= e[i]

\* An iteration of ShiftUp keeps the order of the others.
LEMMA RiseOrder ==
  ASSUME NEW n \in Nat, NEW c \in 2 .. n, NEW e \in [1 .. n -> Nat],
         NEW d \in [1 .. n -> Nat], NEW p, p = Parent(c),
         Rising(e, n, c), e[c] <= e[p],
         d[p] = e[c], d[c] = e[p],
         \A i \in 1 .. n : i # c /\ i # p => d[i] = e[i]
  PROVE  Rising(d, n, p)
<1> DEFINE P(i) == Parent(i)
<1>1. \A i \in 2 .. n : P(i) \in 1 .. n /\ P(i) < i
  BY SMTT(30), Halves
<1>2. p \in 1 .. n /\ p < c
  BY <1>1
<1> HIDE DEF P
<1>3. ASSUME NEW i \in 2 .. n, i # p PROVE d[P(i)] <= d[i]
  <2>1. i # c => e[P(i)] <= e[i]
    BY DEF Rising, P
  <2>2. c # 1 /\ P(i) = c => e[p] <= e[i]
    BY DEF Rising, P
  <2>3. P(i) \in 1 .. n /\ P(i) < i /\ P(c) = p
    BY <1>1 DEF P
  <2>4. CASE i = c
    BY <2>3, <2>4
  <2>5. CASE i # c /\ P(i) = c
    <3>1. d[P(i)] = e[p] /\ d[i] = e[i]
      BY <1>3, <2>5
    <3> QED
      BY <3>1, <2>2, <2>5
  <2>6. CASE i # c /\ P(i) = p
    <3>1. d[P(i)] = e[c] /\ d[i] = e[i] /\ e[P(i)] = e[p]
      BY <1>3, <2>6
    <3>2. e[c] \in Nat /\ e[p] \in Nat /\ e[i] \in Nat
      BY <1>2
    <3> QED
      BY <3>1, <3>2, <2>1, <2>6
  <2>7. CASE i # c /\ P(i) # p /\ P(i) # c
    BY <2>1, <2>3, <2>7, <1>3
  <2> QED
    BY <2>4, <2>5, <2>6, <2>7
<1>4. ASSUME p # 1, NEW i \in 2 .. n, P(i) = p PROVE d[P(p)] <= d[i]
  <2>1. p \in 2 .. n /\ P(p) \in 1 .. n /\ P(p) < p /\ P(p) # c
    BY SMTT(30), <1>1, <1>2, <1>4
  <2>2. e[P(p)] <= e[p]
    BY <2>1, <1>2 DEF Rising, P
  <2>3. d[P(p)] = e[P(p)]
    BY <2>1
  <2>4. CASE i = c
    BY <2>2, <2>3, <2>4
  <2>5. CASE i # c
    <3>1. e[p] <= e[i]
      BY <2>5, <1>4 DEF Rising, P
    <3>2. i # p
      BY <1>1, <1>4
    <3>3. d[i] = e[i]
      BY <3>2, <2>5
    <3>4. e[P(p)] \in Nat /\ e[p] \in Nat /\ e[i] \in Nat
      BY <2>1
    <3> QED
      BY <2>2, <2>3, <3>1, <3>3, <3>4
  <2> QED
    BY <2>4, <2>5
<1> QED
  BY <1>3, <1>4 DEF Rising, P

\* An iteration of ShiftDown keeps it too: c is the smaller child of p.
LEMMA SinkOrder ==
  ASSUME NEW n \in Nat, NEW c \in 2 .. n, NEW e \in [1 .. n -> Nat],
         NEW d \in [1 .. n -> Nat], NEW p, p = Parent(c),
         Sinking(e, n, p), e[c] <= e[p],
         \A i \in 2 .. n : Parent(i) = p => e[c] <= e[i],
         d[p] = e[c], d[c] = e[p],
         \A i \in 1 .. n : i # c /\ i # p => d[i] = e[i]
  PROVE  Sinking(d, n, c)
<1> DEFINE P(i) == Parent(i)
<1>1. \A i \in 2 .. n : P(i) \in 1 .. n /\ P(i) < i
  BY SMTT(30), Halves
<1>2. p \in 1 .. n /\ p < c
  BY <1>1
<1>0. \A i \in 2 .. n : P(i) = p => e[c] <= e[i]
  BY DEF P
<1> HIDE DEF P
<1>3. ASSUME NEW i \in 2 .. n, P(i) # c PROVE d[P(i)] <= d[i]
  <2>1. P(i) # p => e[P(i)] <= e[i]
    BY DEF Sinking, P
  <2>3. P(i) \in 1 .. n /\ P(i) < i /\ P(c) = p
    BY <1>1 DEF P
  <2>4. CASE i = c
    BY <2>3, <2>4
  <2>5. CASE i # c /\ P(i) = p
    <3>1. i # p
      BY <2>3, <2>5
    <3>2. d[i] = e[i] /\ d[P(i)] = e[c]
      BY <2>5, <3>1
    <3> QED
      BY <1>0, <2>5, <3>2
  <2>6. CASE i = p
    <3>1. P(i) # p /\ P(i) # c
      BY <2>3, <2>6, <1>3
    <3>2. d[P(i)] = e[P(i)] /\ d[i] = e[c]
      BY <3>1, <2>3, <2>6
    <3>3. p # 1
      BY <2>6
    <3>4. e[P(p)] <= e[c]
      BY <3>3, <2>3 DEF Sinking, P
    <3> QED
      BY <3>2, <3>4, <2>6
  <2>7. CASE i # c /\ P(i) # p /\ i # p
    BY <2>1, <2>3, <2>7, <1>3
  <2> QED
    BY <2>4, <2>5, <2>6, <2>7
<1>4. ASSUME NEW i \in 2 .. n, P(i) = c PROVE d[P(c)] <= d[i]
  <2>1. P(c) = p /\ c < i /\ P(i) # p /\ i # p
    BY <1>1, <1>2, <1>4 DEF P
  <2>2. e[c] <= e[i]
    BY <2>1, <1>4 DEF Sinking, P
  <2>3. d[i] = e[i]
    BY <2>1
  <2> QED
    BY <2>1, <2>2, <2>3
<1> QED
  BY <1>3, <1>4 DEF Sinking, P

\* The loops stop where the order is whole.
LEMMA RisenOrder ==
  ASSUME NEW n \in Nat, NEW c \in 1 .. n, NEW e \in [1 .. n -> Nat],
         Rising(e, n, c), c = 1 \/ e[Parent(c)] < e[c]
  PROVE  Sorted(e, n)
<1> SUFFICES ASSUME NEW i \in 2 .. n PROVE e[Parent(i)] <= e[i]
  BY DEF Sorted
<1>1. Parent(i) \in 1 .. n
  BY Halves
<1>2. CASE i = c
  BY <1>1, <1>2
<1>3. CASE i # c
  BY <1>3 DEF Rising
<1> QED
  BY <1>2, <1>3

\* A node that is not after its children has sunk: the heap is in order.
LEMMA SunkOrder ==
  ASSUME NEW n \in Nat, NEW c \in 1 .. n, NEW e \in [1 .. n -> Nat],
         Sinking(e, n, c), \A i \in 2 .. n : Parent(i) = c => e[c] <= e[i]
  PROVE  Sorted(e, n)
BY DEF Sorted, Sinking

\* Where the loops start: a node of a heap in order gets another time ...
LEMMA StartOrder ==
  ASSUME NEW n \in Nat, NEW c \in 1 .. n, NEW e \in [1 .. n -> Nat],
         NEW d \in [1 .. n -> Nat],
         Sorted(e, n), \A i \in 1 .. n : i # c => d[i] = e[i]
  PROVE  /\ d[c] <= e[c] => Rising(d, n, c)
         /\ e[c] <= d[c] => Sinking(d, n, c)
<1> DEFINE P(i) == Parent(i)
<1>1. \A i \in 2 .. n : P(i) \in 1 .. n /\ P(i) < i
  BY Halves
<1>2. \A i \in 2 .. n : e[P(i)] <= e[i]
  BY DEF Sorted, P
<1> HIDE DEF P
<1>3. ASSUME c # 1, NEW i \in 2 .. n, P(i) = c PROVE d[P(c)] <= d[i]
  <2>1. c \in 2 .. n /\ P(c) \in 1 .. n /\ P(c) # c /\ i # c
    BY <1>1, <1>3
  <2>2. e[P(c)] <= e[c] /\ e[c] <= e[i] /\ d[P(c)] = e[P(c)] /\ d[i] = e[i]
    BY SMTT(30), <1>2, <1>3, <2>1
  <2>3. e[P(c)] \in Nat /\ e[c] \in Nat /\ e[i] \in Nat
    BY <2>1
  <2> QED
    BY <2>2, <2>3
<1>4. ASSUME d[c] <= e[c], NEW i \in 2 .. n, i # c PROVE d[P(i)] <= d[i]
  <2>1. P(i) \in 1 .. n /\ d[i] = e[i] /\ e[P(i)] <= e[i]
    BY <1>1, <1>2, <1>4
  <2>2. d[P(i)] <= e[P(i)]
    <3>1. CASE P(i) = c
      BY <1>4, <3>1
    <3>2. CASE P(i) # c
      BY <2>1, <3>2
    <3> QED
      BY <3>1, <3>2
  <2>3. d[P(i)] \in Nat /\ e[P(i)] \in Nat /\ e[i] \in Nat
    BY <2>1
  <2> QED
    BY <2>1, <2>2, <2>3
<1>5. ASSUME e[c] <= d[c], NEW i \in 2 .. n, P(i) # c PROVE d[P(i)] <= d[i]
  <2>1. P(i) \in 1 .. n /\ d[P(i)] = e[P(i)] /\ e[P(i)] <= e[i]
    BY <1>1, <1>2, <1>5
  <2>2. e[i] <= d[i]
    <3>1. CASE i = c
      BY <1>5, <3>1
    <3>2. CASE i # c
      BY <3>2
    <3> QED
      BY <3>1, <3>2
  <2>3. e[P(i)] \in Nat /\ e[i] \in Nat /\ d[i] \in Nat
    BY <2>1
  <2> QED
    BY <2>1, <2>2, <2>3
<1> QED
  BY <1>3, <1>4, <1>5 DEF Rising, Sinking, P

\* ... a node comes at the end ...
LEMMA AppendOrder ==
  ASSUME NEW n \in Nat, NEW e \in [1 .. n -> Nat], NEW d \in [1 .. n + 1 -> Nat],
         Sorted(e, n), \A i \in 1 .. n : d[i] = e[i]
  PROVE  Rising(d, n + 1, n + 1)
<1>1. \A i \in 2 .. n + 1 : Parent(i) \in 1 .. n /\ Parent(i) < i
  BY Halves
<1>2. ASSUME NEW i \in 2 .. n + 1, i # n + 1 PROVE d[Parent(i)] <= d[i]
  <2>1. i \in 2 .. n
    BY <1>2
  <2>2. e[Parent(i)] <= e[i]
    BY <2>1 DEF Sorted
  <2>3. Parent(i) \in 1 .. n
    BY <1>1
  <2> QED
    BY <2>1, <2>2, <2>3
<1> QED
  BY <1>1, <1>2 DEF Rising

\* ... or another node comes to the top of a heap that loses its last.
LEMMA DropOrder ==
  ASSUME NEW n \in Nat, n >= 2, NEW e \in [1 .. n -> Nat], NEW d \in [1 .. n - 1 -> Nat],
         Sorted(e, n), \A i \in 2 .. n - 1 : d[i] = e[i]
  PROVE  Sinking(d, n - 1, 1)
<1>1. ASSUME NEW i \in 2 .. n - 1, Parent(i) # 1 PROVE d[Parent(i)] <= d[i]
  <2>1. Parent(i) \in 2 .. n - 1
    <3>1. Parent(i) \in Nat /\ 1 <= Parent(i) /\ Parent(i) < i
      BY Halves
    <3> QED
      BY <3>1, <1>1
  <2>2. i \in 2 .. n
    OBVIOUS
  <2>3. e[Parent(i)] <= e[i]
    BY <2>2 DEF Sorted
  <2> QED
    BY <2>1, <2>3
<1> QED
  BY <1>1 DEF Sinking

\* The top of a heap in order is the earliest.
LEMMA TopIsLeast ==
  ASSUME NEW n \in Nat, NEW e \in [1 .. n -> Nat], Sorted(e, n)
  PROVE  \A i \in 1 .. n : e[1] <= e[i]
<1> DEFINE T == {i \in 1 .. n : e[i] < e[1]}
<1> SUFFICES ASSUME T # {} PROVE FALSE
  OBVIOUS
<1>0. T \subseteq Nat
  OBVIOUS
<1>1. PICK x \in T : \A y \in T : x <= y
  <2> HIDE DEF T
  <2> QED
    BY <1>0, LeastNumber
<1>2. x \in 2 .. n
  <2>1. x \in 1 .. n /\ e[x] < e[1]
    OBVIOUS
  <2>2. x # 1
    BY <2>1
  <2> QED
    BY <2>1, <2>2
<1>3. Parent(x) \in 1 .. n /\ Parent(x) < x
  BY <1>2, Halves
<1>4. e[Parent(x)] <= e[x] /\ e[x] < e[1]
  BY <1>2 DEF Sorted
<1>5. e[Parent(x)] < e[1]
  BY <1>2, <1>3, <1>4
<1>6. Parent(x) \in T
  BY <1>3, <1>5
<1> QED
  BY <1>1, <1>3, <1>6


-----------------------------------------------------------------------------
(* The map and the nodes.                                                  *)

\* A heap whose map leads from each key to the one node that carries it.
Good(h) ==
  /\ h = [nodes |-> h.nodes, index |-> h.index]
  /\ h.nodes \in Seq(Node)
  /\ h.index \in [DOMAIN h.index -> Nat] /\ DOMAIN h.index \subseteq Keys
  /\ \A k \in DOMAIN h.index : Valid(h, h.index[k]) /\ h.nodes[h.index[k]].key = k
  /\ \A i \in 1 .. Len(h.nodes) : /\ h.nodes[i].key \in DOMAIN h.index
                                  /\ h.index[h.nodes[i].key] = i

\* The times by position, and by key: the map of the abstract queue.
Exps(h)  == [i \in 1 .. Len(h.nodes) |-> h.nodes[i].expiration]
Expiry(h) == [k \in DOMAIN h.index |-> h.nodes[h.index[k]].expiration]

\* The heap g has the keys of h, at the same times.
Same(g, h) ==
  /\ Len(g.nodes) = Len(h.nodes) /\ DOMAIN g.index = DOMAIN h.index
  /\ Expiry(g) = Expiry(h)

\* A good heap has nodes of their types.
LEMMA GoodTypes ==
  ASSUME NEW h, Good(h)
  PROVE  /\ Len(h.nodes) \in Nat /\ Exps(h) \in [1 .. Len(h.nodes) -> Nat]
         /\ \A i \in 1 .. Len(h.nodes) : /\ h.nodes[i] \in Node /\ h.nodes[i].key \in Keys
                                         /\ h.nodes[i].expiration \in Nat
                                         /\ Exps(h)[i] = h.nodes[i].expiration
<1>1. h.nodes \in Seq(Node)
  BY DEF Good
<1>2. Len(h.nodes) \in Nat /\ \A i \in 1 .. Len(h.nodes) : h.nodes[i] \in Node
  BY <1>1
<1> QED
  BY <1>2 DEF Exps, Node

\* Swap exchanges two nodes, tells the map, and keeps the times of the keys.
LEMMA SwapGood ==
  ASSUME NEW h, Good(h), NEW i \in 1 .. Len(h.nodes), NEW j \in 1 .. Len(h.nodes), i # j,
         NEW g, g = Swap(h, i, j)
  PROVE  /\ Good(g) /\ Same(g, h)
         /\ g.nodes[i] = h.nodes[j] /\ g.nodes[j] = h.nodes[i]
         /\ \A m \in 1 .. Len(h.nodes) : m # i /\ m # j => g.nodes[m] = h.nodes[m]
<1> DEFINE n == Len(h.nodes)
           ns == [h.nodes EXCEPT ![i] = h.nodes[j], ![j] = h.nodes[i]]
           ix == [h.index EXCEPT ![ns[i].key] = i, ![ns[j].key] = j]
           D == DOMAIN h.index
<1>1. h.nodes \in Seq(Node) /\ n \in Nat /\ \A m \in 1 .. n : h.nodes[m] \in Node
  BY GoodTypes DEF Good
<1>2. /\ ns \in Seq(Node) /\ Len(ns) = n
      /\ ns[i] = h.nodes[j] /\ ns[j] = h.nodes[i]
      /\ \A m \in 1 .. n : m # i /\ m # j => ns[m] = h.nodes[m]
  BY <1>1
<1>3. g = [nodes |-> ns, index |-> ix]
  BY DEF Swap
<1>4. g.nodes = ns /\ g.index = ix
  BY <1>3
<1> DEFINE a == h.nodes[j].key
           b == h.nodes[i].key
<1>5. /\ a \in D /\ b \in D /\ h.index[a] = j /\ h.index[b] = i
      /\ h.index \in [D -> Nat] /\ D \subseteq Keys
  BY DEF Good
<1>6. a # b
  BY <1>5
<1>7. ix = [h.index EXCEPT ![a] = i, ![b] = j]
  BY <1>2
<1>0. \A k \in D : h.index[k] \in 1 .. n /\ h.nodes[h.index[k]].key = k
  BY DEF Good, Valid
<1>00. \A m \in 1 .. n : h.nodes[m].key \in D /\ h.index[h.nodes[m].key] = m
  BY DEF Good
<1> HIDE DEF ns, ix, D, a, b
<1>8. /\ ix \in [D -> Nat] /\ ix[a] = i /\ ix[b] = j
      /\ \A k \in D : k # a /\ k # b => ix[k] = h.index[k]
  BY <1>5, <1>6, <1>7, <1>1
<1>9. ASSUME NEW k \in D
      PROVE  ix[k] \in 1 .. n /\ ns[ix[k]] = h.nodes[h.index[k]]
  <2>1. CASE k = a
    BY <2>1, <1>8, <1>2, <1>5
  <2>2. CASE k = b
    BY <2>2, <1>8, <1>2, <1>5
  <2>3. CASE k # a /\ k # b
    <3>1. h.index[k] # i /\ h.index[k] # j
      BY <2>3, <1>0 DEF a, b
    <3> QED
      BY <2>3, <3>1, <1>8, <1>2, <1>0
  <2> QED
    BY <2>1, <2>2, <2>3
<1>10. ASSUME NEW m \in 1 .. n PROVE ns[m].key \in D /\ ix[ns[m].key] = m
  <2>1. CASE m = i
    BY <2>1, <1>8, <1>2, <1>5 DEF a
  <2>2. CASE m = j
    BY <2>2, <1>8, <1>2, <1>5 DEF b
  <2>3. CASE m # i /\ m # j
    <3>1. ns[m] = h.nodes[m] /\ h.nodes[m].key \in D /\ h.index[h.nodes[m].key] = m
      BY <1>2, <1>00, <2>3
    <3>2. h.nodes[m].key # a /\ h.nodes[m].key # b
      BY <3>1, <2>3, <1>5
    <3> QED
      BY <3>1, <3>2, <1>8
  <2> QED
    BY <2>1, <2>2, <2>3
<1>11. DOMAIN ix = D
  BY <1>8
<1>12. \A k \in D : ns[ix[k]].key = k
  BY <1>9, <1>0
<1>13. Good(g)
  BY <1>3, <1>4, <1>2, <1>5, <1>8, <1>9, <1>10, <1>11, <1>12 DEF Good, Valid
<1>14. Expiry(g) = Expiry(h)
  BY <1>4, <1>9, <1>11 DEF Expiry, D
<1> QED
  BY <1>2, <1>4, <1>11, <1>13, <1>14 DEF Same, D


-----------------------------------------------------------------------------
(* The loops.                                                              *)

\* What an iteration of either loop keeps: st.h has the keys and times of h,
\* and the node of key k is the one that moves.
Moving(st, h, k) ==
  /\ Good(st.h) /\ Same(st.h, h)
  /\ st.at \in 1 .. Len(h.nodes) /\ st.h.nodes[st.at].key = k

\* Where ShiftUp stops.
Risen(st) == st.at = 1 \/ Exps(st.h)[Parent(st.at)] < Exps(st.h)[st.at]

\* An iteration of ShiftUp keeps the map and the order of the others, and goes
\* up unless the node has its place.
LEMMA UpStepKeeps ==
  ASSUME NEW h, NEW k, NEW st, NEW t, t = UpStep(st),
         Moving(st, h, k), Rising(Exps(st.h), Len(h.nodes), st.at)
  PROVE  /\ Moving(t, h, k) /\ Rising(Exps(t.h), Len(h.nodes), t.at)
         /\ (Risen(st) /\ t = st) \/ (~Risen(st) /\ t.at < st.at)
<1> DEFINE n == Len(h.nodes)
           c == st.at
           p == Parent(c)
           e == Exps(st.h)
           d == Exps(t.h)
<1>1. Good(st.h) /\ Same(st.h, h) /\ c \in 1 .. n /\ st.h.nodes[c].key = k
  BY DEF Moving
<1>2. Len(st.h.nodes) = n
  BY <1>1 DEF Same
<1>3. /\ n \in Nat /\ e \in [1 .. n -> Nat]
      /\ \A i \in 1 .. n : e[i] = st.h.nodes[i].expiration
  BY <1>1, <1>2, GoodTypes
<1>4. CASE c = 1 \/ Before(st.h, p, c)
  <2>1. t = st
    BY <1>4 DEF UpStep
  <2>2. Risen(st)
    <3>1. CASE c = 1
      BY <3>1 DEF Risen
    <3>2. CASE c # 1 /\ Before(st.h, p, c)
      <4>1. p \in 1 .. n
        BY <3>2, <1>1, <1>3, Halves
      <4> QED
        BY <3>2, <4>1, <1>1, <1>3 DEF Risen, Before
    <3> QED
      BY <3>1, <3>2, <1>4
  <2> QED
    BY <2>1, <2>2
<1>5. CASE c # 1 /\ ~Before(st.h, p, c)
  <2>1. p \in 1 .. n /\ p < c /\ c \in 2 .. n
    BY <1>5, <1>1, <1>3, Halves
  <2>2. t = [h |-> Swap(st.h, p, c), at |-> p]
    BY <1>5 DEF UpStep
  <2>3. t.h = Swap(st.h, p, c) /\ t.at = p
    BY <2>2
  <2>4. e[c] <= e[p]
    <3>1. e[c] \in Nat /\ e[p] \in Nat
      BY <2>1, <1>3
    <3> QED
      BY SMTT(30), <3>1, <2>1, <1>5, <1>3 DEF Before
  <2> HIDE DEF p, c, e, d, n
  <2>5. /\ Good(t.h) /\ Same(t.h, st.h)
        /\ t.h.nodes[p] = st.h.nodes[c] /\ t.h.nodes[c] = st.h.nodes[p]
        /\ \A m \in 1 .. n : m # p /\ m # c => t.h.nodes[m] = st.h.nodes[m]
    BY <2>1, <2>3, <1>1, <1>2, SwapGood
  <2>6. Same(t.h, h)
    BY <2>5, <1>1 DEF Same
  <2>7. Len(t.h.nodes) = n
    BY <2>6 DEF Same, n
  <2>8. d \in [1 .. n -> Nat] /\ \A i \in 1 .. n : d[i] = t.h.nodes[i].expiration
    BY <2>5, <2>7, GoodTypes DEF d
  <2>9. d[p] = e[c] /\ d[c] = e[p] /\ \A i \in 1 .. n : i # c /\ i # p => d[i] = e[i]
    BY <1>1, <2>1, <2>5, <2>8, <1>3
  <2>10. Rising(e, n, c)
    BY DEF e, n, c
  <2>11. Rising(d, n, p)
    BY <1>3, <2>1, <2>4, <2>8, <2>9, <2>10, RiseOrder DEF p
  <2>12. Moving(t, h, k)
    BY <2>1, <2>3, <2>5, <2>6, <1>1 DEF Moving, n
  <2>13. ~Risen(st)
    BY <2>1, <2>4, <1>3, <1>5 DEF Risen, p, c, e
  <2> QED
    BY <2>1, <2>3, <2>11, <2>12, <2>13 DEF d, n, c
<1> QED
  BY <1>4, <1>5

\* ShiftUp keeps the map and the times, and puts the heap in order; a node of
\* the least time comes to the top, whatever its equals.
LEMMA ShiftUpGood ==
  ASSUME NEW h, Good(h), NEW i \in 1 .. Len(h.nodes),
         Rising(Exps(h), Len(h.nodes), i), NEW g, g = ShiftUp(h, i)
  PROVE  /\ Good(g) /\ Same(g, h) /\ Sorted(Exps(g), Len(g.nodes))
         /\ h.nodes[i].expiration = 0 => g.nodes[1].key = h.nodes[i].key
<1> DEFINE n == Len(h.nodes)
           k == h.nodes[i].key
<1>1. n \in Nat
  BY GoodTypes
<1>2. PICK f : /\ f[0] = [h |-> h, at |-> i]
               /\ \A m \in 1 .. n : f[m] = UpStep(f[m - 1])
               /\ g = f[n].h
  BY <1>1, UpRuns
<1> HIDE DEF k, n
<1> DEFINE Q(m) == /\ Moving(f[m], h, k) /\ Rising(Exps(f[m].h), n, f[m].at)
                   /\ Risen(f[m]) \/ f[m].at <= n - m
           S == {m \in Nat : m <= n => Q(m)}
<1>3. 0 \in S
  <2>1. f[0].h = h /\ f[0].at = i
    BY <1>2
  <2>2. Same(h, h)
    BY DEF Same
  <2>3. Moving(f[0], h, k)
    BY <2>1, <2>2 DEF Moving, k
  <2>4. i <= n - 0 /\ 0 \in Nat
    BY <1>1 DEF n
  <2> QED
    BY <2>1, <2>3, <2>4 DEF n
<1>4. ASSUME NEW m \in Nat, m \in S PROVE m + 1 \in S
  <2> SUFFICES ASSUME m + 1 <= n PROVE Q(m + 1)
    OBVIOUS
  <2>1. m <= n /\ m + 1 \in 1 .. n /\ (m + 1) - 1 = m
    BY <1>1
  <2>2. Q(m)
    BY <2>1, <1>4
  <2>3. f[m + 1] = UpStep(f[m])
    BY <1>2, <2>1
  <2>4. /\ Moving(f[m + 1], h, k) /\ Rising(Exps(f[m + 1].h), n, f[m + 1].at)
        /\ (Risen(f[m]) /\ f[m + 1] = f[m]) \/ (~Risen(f[m]) /\ f[m + 1].at < f[m].at)
    BY <2>2, <2>3, UpStepKeeps DEF n
  <2>5. f[m].at \in 1 .. n /\ f[m + 1].at \in 1 .. n
    BY <2>2, <2>4 DEF Moving, n
  <2>6. CASE Risen(f[m]) /\ f[m + 1] = f[m]
    BY <2>4, <2>6
  <2>7. CASE ~Risen(f[m]) /\ f[m + 1].at < f[m].at
    <3>1. f[m].at <= n - m
      BY <2>2, <2>7
    <3>2. f[m + 1].at <= n - (m + 1)
      BY <3>1, <2>5, <2>7, <1>1
    <3> QED
      BY <2>4, <3>2
  <2> QED
    BY <2>4, <2>6, <2>7
<1>5. Nat \subseteq S
  <2> HIDE DEF S
  <2> QED
    BY <1>3, <1>4, Induction
<1>6. Q(n)
  BY <1>1, <1>5
<1> DEFINE c == f[n].at
<1>7. Good(g) /\ Same(g, h) /\ c \in 1 .. n /\ g.nodes[c].key = k
  BY <1>2, <1>6 DEF Moving, n
<1>8. Risen(f[n])
  BY <1>1, <1>6, <1>7
<1>9. Len(g.nodes) = n /\ Exps(g) \in [1 .. n -> Nat]
  BY <1>7, GoodTypes DEF Same, n
<1>10. c = 1 \/ Exps(g)[Parent(c)] < Exps(g)[c]
  BY <1>8, <1>2 DEF Risen
<1>11. Sorted(Exps(g), n)
  BY <1>1, <1>2, <1>6, <1>7, <1>9, <1>10, RisenOrder
<1>12. ASSUME h.nodes[i].expiration = 0 PROVE g.nodes[1].key = k
  <2>1. k \in DOMAIN h.index /\ h.index[k] = i
    BY DEF Good, k
  <2>2. Expiry(g)[k] = 0 /\ k \in DOMAIN g.index
    BY <2>1, <1>12, <1>7 DEF Same, Expiry
  <2>3. g.index[k] = c
    BY <1>7, <1>9 DEF Good
  <2>4. g.nodes[c].expiration = 0
    BY <2>2, <2>3 DEF Expiry
  <2>5. Exps(g)[c] = 0
    BY <2>4, <1>7, <1>9 DEF Exps
  <2>6. c # 1 => Parent(c) \in 1 .. n
    BY <1>1, <1>7, Halves
  <2>7. c = 1
    BY <2>5, <2>6, <1>9, <1>10
  <2> QED
    BY <2>7, <1>7
<1> QED
  BY <1>7, <1>9, <1>11, <1>12 DEF k

\* Where ShiftDown stops.
Sunk(st) ==
  \A i \in 2 .. Len(st.h.nodes) : Parent(i) = st.at => Exps(st.h)[st.at] <= Exps(st.h)[i]

\* An iteration of ShiftDown keeps the map and the order of the others, and goes
\* down unless the node has its place.
LEMMA DownStepKeeps ==
  ASSUME NEW h, NEW k, NEW st, NEW t, t = DownStep(st),
         Moving(st, h, k), Sinking(Exps(st.h), Len(h.nodes), st.at)
  PROVE  /\ Moving(t, h, k) /\ Sinking(Exps(t.h), Len(h.nodes), t.at)
         /\ (Sunk(st) /\ t = st) \/ (~Sunk(st) /\ t.at > st.at)
<1> DEFINE n == Len(h.nodes)
           p == st.at
           c == SmallChild(st.h, p)
           e == Exps(st.h)
           d == Exps(t.h)
<1>1. Good(st.h) /\ Same(st.h, h) /\ p \in 1 .. n /\ st.h.nodes[p].key = k
  BY DEF Moving
<1>2. Len(st.h.nodes) = n
  BY <1>1 DEF Same
<1>3. /\ n \in Nat /\ e \in [1 .. n -> Nat]
      /\ \A i \in 1 .. n : e[i] = st.h.nodes[i].expiration
  BY <1>1, <1>2, GoodTypes
<1>4. \A i \in 2 .. n : Parent(i) = p <=> i = 2 * p \/ i = 2 * p + 1
  <2> TAKE i \in 2 .. n
  <2>1. 2 * Parent(i) = i \/ 2 * Parent(i) + 1 = i
    BY Halves
  <2>2. Parent(i) \in Nat /\ p \in Nat
    BY <1>1, Halves
  <2> QED
    BY <2>1, <2>2
<1>5. \/ c = 2 * p + 1 /\ c \in 1 .. n /\ e[c] < e[2 * p]
      \/ c = 2 * p /\ ~(2 * p + 1 \in 1 .. n /\ e[2 * p + 1] < e[2 * p])
  <2>1. 2 * p + 1 \in 1 .. n => 2 * p \in 1 .. n
    BY <1>1, <1>3
  <2>2. 2 * p + 1 \in 1 .. n => (Before(st.h, 2 * p + 1, 2 * p) <=> e[2 * p + 1] < e[2 * p])
    BY <2>1, <1>3 DEF Before
  <2> QED
    BY <2>2, <1>2 DEF SmallChild, Valid
<1>6. c \in Nat /\ c > p /\ (c = 2 * p \/ c = 2 * p + 1)
  BY <1>1, <1>3, <1>5
<1>7. c \in 1 .. n => /\ c \in 2 .. n /\ Parent(c) = p
                      /\ \A i \in 2 .. n : Parent(i) = p => e[c] <= e[i]
  <2> SUFFICES ASSUME c \in 1 .. n
               PROVE  /\ c \in 2 .. n /\ Parent(c) = p
                      /\ \A i \in 2 .. n : Parent(i) = p => e[c] <= e[i]
    OBVIOUS
  <2> HIDE DEF c
  <2>1. c \in 2 .. n
    BY <1>1, <1>3, <1>6
  <2>2. Parent(c) = p
    BY <2>1, <1>4, <1>6
  <2>3. ASSUME NEW i \in 2 .. n, Parent(i) = p PROVE e[c] <= e[i]
    <3>1. i = 2 * p \/ i = 2 * p + 1
      BY <2>3, <1>4
    <3>2. e[i] \in Nat /\ e[c] \in Nat /\ i \in 1 .. n
      BY <1>3
    <3>3. CASE i = c
      BY <3>2, <3>3
    <3>4. CASE i # c /\ i = 2 * p
      BY <3>4, <3>2, <1>5
    <3>5. CASE i # c /\ i = 2 * p + 1
      BY <3>5, <3>2, <1>5, <1>6
    <3> QED
      BY <3>1, <3>3, <3>4, <3>5
  <2> QED
    BY <2>1, <2>2, <2>3
<1>8. c \notin 1 .. n => \A i \in 2 .. n : Parent(i) # p
  <2> HIDE DEF c
  <2> SUFFICES ASSUME c \notin 1 .. n, NEW i \in 2 .. n, Parent(i) = p PROVE FALSE
    OBVIOUS
  <2>1. i = 2 * p \/ i = 2 * p + 1
    BY <1>4
  <2> QED
    BY <2>1, <1>1, <1>3, <1>5, <1>6
<1>9. CASE ~(c \in 1 .. n /\ Before(st.h, c, p))
  <2>1. t = st
    BY <1>9, <1>2 DEF DownStep, Valid
  <2>2. Sunk(st)
    <3> SUFFICES ASSUME NEW i \in 2 .. n, Parent(i) = p PROVE e[p] <= e[i]
      BY <1>2 DEF Sunk
    <3>1. c \in 1 .. n /\ e[c] <= e[i]
      BY <1>7, <1>8
    <3>2. ~(e[c] < e[p])
      BY <3>1, <1>9, <1>1, <1>3 DEF Before
    <3>3. e[c] \in Nat /\ e[p] \in Nat /\ e[i] \in Nat
      BY <3>1, <1>1, <1>3
    <3> HIDE DEF c, e, p
    <3> QED
      BY <3>1, <3>2, <3>3
  <2> QED
    BY <2>1, <2>2
<1>10. CASE c \in 1 .. n /\ Before(st.h, c, p)
  <2>2. t = [h |-> Swap(st.h, c, p), at |-> c]
    BY <1>10, <1>2 DEF DownStep, Valid
  <2>3. t.h = Swap(st.h, c, p) /\ t.at = c
    BY <2>2
  <2>4. e[c] < e[p] /\ e[c] \in Nat /\ e[p] \in Nat
    BY <1>10, <1>1, <1>3 DEF Before
  <2> HIDE DEF p, c, e, d, n
  <2>5. /\ Good(t.h) /\ Same(t.h, st.h)
        /\ t.h.nodes[p] = st.h.nodes[c] /\ t.h.nodes[c] = st.h.nodes[p]
        /\ \A m \in 1 .. n : m # p /\ m # c => t.h.nodes[m] = st.h.nodes[m]
    <3>1. c # p
      BY <1>6, <1>1
    <3> QED
      BY <3>1, <2>3, <1>1, <1>2, <1>10, SwapGood
  <2>6. Same(t.h, h)
    BY <2>5, <1>1 DEF Same
  <2>7. Len(t.h.nodes) = n
    BY <2>6 DEF Same, n
  <2>8. d \in [1 .. n -> Nat] /\ \A i \in 1 .. n : d[i] = t.h.nodes[i].expiration
    BY <2>5, <2>7, GoodTypes DEF d
  <2>9. d[p] = e[c] /\ d[c] = e[p] /\ \A i \in 1 .. n : i # c /\ i # p => d[i] = e[i]
    BY <1>1, <1>10, <2>5, <2>8, <1>3
  <2>10. Sinking(e, n, p)
    BY DEF e, n, p
  <2>11. Sinking(d, n, c)
    <3>1. /\ c \in 2 .. n /\ p = Parent(c) /\ e[c] <= e[p]
          /\ \A i \in 2 .. n : Parent(i) = p => e[c] <= e[i]
      BY <1>7, <1>10, <2>4
    <3> QED
      BY <3>1, <1>3, <2>8, <2>9, <2>10, SinkOrder
  <2>12. Moving(t, h, k)
    BY <1>10, <2>3, <2>5, <2>6, <1>1 DEF Moving, n
  <2>13. ~Sunk(st)
    <3>1. c \in 2 .. n /\ Parent(c) = p /\ ~(e[p] <= e[c])
      BY <1>7, <1>10, <2>4
    <3> QED
      BY <3>1, <1>2 DEF Sunk, p, e
  <2> QED
    BY <1>6, <2>3, <2>11, <2>12, <2>13 DEF d, n, p
<1> QED
  BY <1>9, <1>10

\* ShiftDown keeps the map and the times, and puts the heap in order.
LEMMA ShiftDownGood ==
  ASSUME NEW h, Good(h), NEW i \in 1 .. Len(h.nodes),
         Sinking(Exps(h), Len(h.nodes), i), NEW g, g = ShiftDown(h, i)
  PROVE  Good(g) /\ Same(g, h) /\ Sorted(Exps(g), Len(g.nodes))
<1> DEFINE n == Len(h.nodes)
           k == h.nodes[i].key
<1>1. n \in Nat
  BY GoodTypes
<1>2. PICK f : /\ f[0] = [h |-> h, at |-> i]
               /\ \A m \in 1 .. n : f[m] = DownStep(f[m - 1])
               /\ g = f[n].h
  BY <1>1, DownRuns
<1> HIDE DEF k, n
<1> DEFINE Q(m) == /\ Moving(f[m], h, k) /\ Sinking(Exps(f[m].h), n, f[m].at)
                   /\ Sunk(f[m]) \/ f[m].at >= m + 1
           S == {m \in Nat : m <= n => Q(m)}
<1>3. 0 \in S
  <2>1. f[0].h = h /\ f[0].at = i
    BY <1>2
  <2>2. Same(h, h)
    BY DEF Same
  <2>3. Moving(f[0], h, k)
    BY <2>1, <2>2 DEF Moving, k
  <2>4. i >= 0 + 1 /\ 0 \in Nat
    BY <1>1 DEF n
  <2> QED
    BY <2>1, <2>3, <2>4 DEF n
<1>4. ASSUME NEW m \in Nat, m \in S PROVE m + 1 \in S
  <2> SUFFICES ASSUME m + 1 <= n PROVE Q(m + 1)
    OBVIOUS
  <2>1. m <= n /\ m + 1 \in 1 .. n /\ (m + 1) - 1 = m
    BY <1>1
  <2>2. Q(m)
    BY <2>1, <1>4
  <2>3. f[m + 1] = DownStep(f[m])
    BY <1>2, <2>1
  <2>4. /\ Moving(f[m + 1], h, k) /\ Sinking(Exps(f[m + 1].h), n, f[m + 1].at)
        /\ (Sunk(f[m]) /\ f[m + 1] = f[m]) \/ (~Sunk(f[m]) /\ f[m + 1].at > f[m].at)
    BY <2>2, <2>3, DownStepKeeps DEF n
  <2>5. f[m].at \in 1 .. n /\ f[m + 1].at \in 1 .. n
    BY <2>2, <2>4 DEF Moving, n
  <2>6. CASE Sunk(f[m]) /\ f[m + 1] = f[m]
    BY <2>4, <2>6
  <2>7. CASE ~Sunk(f[m]) /\ f[m + 1].at > f[m].at
    <3>1. f[m].at >= m + 1
      BY <2>2, <2>7
    <3>2. f[m + 1].at >= (m + 1) + 1
      BY <3>1, <2>5, <2>7
    <3> QED
      BY <2>4, <3>2
  <2> QED
    BY <2>4, <2>6, <2>7
<1>5. Nat \subseteq S
  <2> HIDE DEF S
  <2> QED
    BY <1>3, <1>4, Induction
<1>6. Q(n)
  BY <1>1, <1>5
<1> DEFINE c == f[n].at
<1>7. Good(g) /\ Same(g, h) /\ c \in 1 .. n
  BY <1>2, <1>6 DEF Moving, n
<1>8. Sunk(f[n])
  BY <1>1, <1>6, <1>7
<1>9. Len(g.nodes) = n /\ Exps(g) \in [1 .. n -> Nat]
  BY <1>7, GoodTypes DEF Same, n
<1>10. \A j \in 2 .. n : Parent(j) = c => Exps(g)[c] <= Exps(g)[j]
  BY <1>8, <1>2, <1>9 DEF Sunk
<1>11. Sorted(Exps(g), n)
  BY <1>1, <1>2, <1>6, <1>7, <1>9, <1>10, SunkOrder
<1> QED
  BY <1>7, <1>9, <1>11


-----------------------------------------------------------------------------
(* The operations.                                                         *)

\* A heap that is good and in order.
Heap(h) == Good(h) /\ Sorted(Exps(h), Len(h.nodes))

\* A node gets another time: only its key's time changes.
LEMMA SetGood ==
  ASSUME NEW h, Good(h), NEW i \in 1 .. Len(h.nodes), NEW e \in Nat,
         NEW g, g = SetExpiration(h, i, e)
  PROVE  /\ Good(g) /\ Len(g.nodes) = Len(h.nodes) /\ DOMAIN g.index = DOMAIN h.index
         /\ g.nodes[i].key = h.nodes[i].key
         /\ Exps(g) = [Exps(h) EXCEPT ![i] = e]
         /\ Expiry(g) = [Expiry(h) EXCEPT ![h.nodes[i].key] = e]
<1> DEFINE n == Len(h.nodes)
           x == [h.nodes[i] EXCEPT !.expiration = e]
           ns == [h.nodes EXCEPT ![i] = x]
           D == DOMAIN h.index
<1>1. h.nodes \in Seq(Node) /\ n \in Nat /\ \A m \in 1 .. n : h.nodes[m] \in Node
  BY GoodTypes DEF Good
<1>2. x \in Node /\ x.key = h.nodes[i].key /\ x.expiration = e
  BY <1>1 DEF Node
<1>3. h = [nodes |-> h.nodes, index |-> h.index]
  BY DEF Good
<1>4. g = [nodes |-> ns, index |-> h.index]
  BY <1>3 DEF SetExpiration
<1> HIDE DEF x
<1>5. /\ ns \in Seq(Node) /\ Len(ns) = n /\ ns[i] = x
      /\ \A m \in 1 .. n : m # i => ns[m] = h.nodes[m]
  BY <1>1, <1>2
<1>6. g.nodes = ns /\ g.index = h.index
  BY <1>4
<1> HIDE DEF ns
<1>7. \A m \in 1 .. n : ns[m].key = h.nodes[m].key
  BY <1>2, <1>5
<1>8. Good(g)
  <2>1. /\ h.index \in [D -> Nat] /\ D \subseteq Keys
        /\ \A k \in D : h.index[k] \in 1 .. n /\ h.nodes[h.index[k]].key = k
        /\ \A m \in 1 .. n : h.nodes[m].key \in D /\ h.index[h.nodes[m].key] = m
    BY DEF Good, Valid
  <2>2. /\ \A k \in D : h.index[k] \in 1 .. n /\ ns[h.index[k]].key = k
        /\ \A m \in 1 .. n : ns[m].key \in D /\ h.index[ns[m].key] = m
    BY <2>1, <1>7
  <2>3. g = [nodes |-> g.nodes, index |-> g.index]
    BY <1>4, <1>6
  <2>4. /\ g.nodes \in Seq(Node) /\ Len(g.nodes) = n /\ DOMAIN g.index = D
        /\ g.index \in [DOMAIN g.index -> Nat] /\ DOMAIN g.index \subseteq Keys
    BY <2>1, <1>5, <1>6
  <2>5. /\ \A k \in DOMAIN g.index : /\ g.index[k] \in 1 .. Len(g.nodes)
                                      /\ g.nodes[g.index[k]].key = k
        /\ \A m \in 1 .. Len(g.nodes) : /\ g.nodes[m].key \in DOMAIN g.index
                                         /\ g.index[g.nodes[m].key] = m
    BY <2>2, <2>4, <1>6, Zenon
  <2> QED
    BY <2>3, <2>4, <2>5, Zenon DEF Good, Valid
<1>9. Exps(g) = [Exps(h) EXCEPT ![i] = e]
  <2>1. \A m \in 1 .. n : ns[m].expiration = IF m = i THEN e ELSE h.nodes[m].expiration
    BY <1>2, <1>5
  <2> QED
    BY <2>1, <1>5, <1>6 DEF Exps
<1>10. Expiry(g) = [Expiry(h) EXCEPT ![h.nodes[i].key] = e]
  <2>1. ASSUME NEW k \in D
        PROVE  ns[h.index[k]].expiration = IF k = h.nodes[i].key THEN e
                                           ELSE h.nodes[h.index[k]].expiration
    <3>1. h.index[k] \in 1 .. n /\ h.nodes[h.index[k]].key = k
      BY DEF Good, Valid
    <3>2. h.index[h.nodes[i].key] = i
      BY DEF Good
    <3>3. h.index[k] = i <=> k = h.nodes[i].key
      BY <3>1, <3>2
    <3> QED
      BY <3>1, <3>3, <1>2, <1>5
  <2> QED
    BY <2>1, <1>6 DEF Expiry
<1> QED
  BY <1>5, <1>6, <1>7, <1>8, <1>9, <1>10

\* Adjust gives its key the new time, whichever way the node has to move.
LEMMA AdjustGood ==
  ASSUME NEW h, Heap(h), NEW k \in DOMAIN h.index, NEW e \in Nat,
         NEW g, g = AdjustNode(h, k, e)
  PROVE  Heap(g) /\ DOMAIN g.index = DOMAIN h.index /\ Expiry(g) = [Expiry(h) EXCEPT ![k] = e]
<1> DEFINE n == Len(h.nodes)
           i == h.index[k]
           c == SetExpiration(h, i, e)
<1>1. Good(h) /\ Sorted(Exps(h), n) /\ i \in 1 .. n /\ h.nodes[i].key = k
  BY DEF Heap, Good, Valid
<1>2. /\ Good(c) /\ Len(c.nodes) = n /\ DOMAIN c.index = DOMAIN h.index
      /\ Exps(c) = [Exps(h) EXCEPT ![i] = e] /\ Expiry(c) = [Expiry(h) EXCEPT ![k] = e]
  <2> HIDE DEF i
  <2> QED
    BY <1>1, SetGood
<1>3. /\ n \in Nat /\ Exps(h) \in [1 .. n -> Nat] /\ Exps(c) \in [1 .. n -> Nat]
      /\ Exps(h)[i] = h.nodes[i].expiration
  BY <1>1, <1>2, GoodTypes
<1>4. Exps(c)[i] = e /\ \A j \in 1 .. n : j # i => Exps(c)[j] = Exps(h)[j]
  BY <1>1, <1>2, <1>3
<1>5. g = IF e < h.nodes[i].expiration THEN ShiftUp(c, i) ELSE ShiftDown(c, i)
  BY DEF AdjustNode
<1> HIDE DEF n, i, c
<1>6. /\ Exps(c)[i] <= Exps(h)[i] => Rising(Exps(c), n, i)
      /\ Exps(h)[i] <= Exps(c)[i] => Sinking(Exps(c), n, i)
  BY <1>1, <1>3, <1>4, StartOrder
<1>7. h.nodes[i].expiration \in Nat
  BY <1>1, <1>3
<1>8. Good(g) /\ Same(g, c) /\ Sorted(Exps(g), Len(g.nodes))
  <2>1. CASE e < h.nodes[i].expiration
    <3>1. Rising(Exps(c), n, i)
      BY <2>1, <1>3, <1>4, <1>6, <1>7
    <3> QED
      BY <2>1, <3>1, <1>1, <1>2, <1>5, ShiftUpGood
  <2>2. CASE ~(e < h.nodes[i].expiration)
    <3>1. Sinking(Exps(c), n, i)
      BY <2>2, <1>3, <1>4, <1>6, <1>7
    <3> QED
      BY <2>2, <3>1, <1>1, <1>2, <1>5, ShiftDownGood
  <2> QED
    BY <2>1, <2>2
<1> QED
  BY <1>2, <1>8 DEF Heap, Same

\* Push of a new key adds it.
LEMMA AppendGood ==
  ASSUME NEW h, Heap(h), NEW k \in Keys, k \notin DOMAIN h.index, NEW e \in Nat,
         NEW g, g = AppendNode(h, k, e)
  PROVE  /\ Heap(g) /\ DOMAIN g.index = DOMAIN h.index \cup {k}
         /\ Expiry(g) = [j \in DOMAIN h.index \cup {k} |-> IF j = k THEN e ELSE Expiry(h)[j]]
<1> DEFINE n == Len(h.nodes)
           D == DOMAIN h.index
           x == [key |-> k, expiration |-> e]
           ns == Append(h.nodes, x)
           ix == [j \in D \cup {k} |-> IF j = k THEN n + 1 ELSE h.index[j]]
           a == [nodes |-> ns, index |-> ix]
<1>1. /\ h.nodes \in Seq(Node) /\ n \in Nat /\ h.index \in [D -> Nat] /\ D \subseteq Keys
      /\ \A j \in D : h.index[j] \in 1 .. n /\ h.nodes[h.index[j]].key = j
      /\ \A m \in 1 .. n : h.nodes[m].key \in D /\ h.index[h.nodes[m].key] = m
      /\ Good(h) /\ Sorted(Exps(h), n)
  BY GoodTypes DEF Heap, Good, Valid
<1>2. x \in Node /\ x.key = k /\ x.expiration = e
  BY DEF Node
<1>3. g = ShiftUp(a, n + 1)
  BY DEF AppendNode
<1> HIDE DEF x, D
<1>4. /\ ns \in Seq(Node) /\ Len(ns) = n + 1 /\ ns[n + 1] = x
      /\ \A m \in 1 .. n : ns[m] = h.nodes[m]
  BY <1>1, <1>2
<1>5. /\ ix \in [D \cup {k} -> Nat] /\ ix[k] = n + 1 /\ \A j \in D : ix[j] = h.index[j]
  BY <1>1 DEF D
<1>6. a.nodes = ns /\ a.index = ix /\ a = [nodes |-> a.nodes, index |-> a.index]
  OBVIOUS
<1> HIDE DEF ns, ix, a, n
<1>7. DOMAIN ix = D \cup {k} /\ D \cup {k} \subseteq Keys
  BY <1>1, <1>5
<1>8. ASSUME NEW j \in D \cup {k} PROVE ix[j] \in 1 .. n + 1 /\ ns[ix[j]].key = j
  BY <1>1, <1>2, <1>4, <1>5
<1>9. ASSUME NEW m \in 1 .. n + 1
      PROVE  ns[m].key \in D \cup {k} /\ ix[ns[m].key] = m
  <2>1. CASE m = n + 1
    BY <2>1, <1>2, <1>4, <1>5
  <2>2. CASE m # n + 1
    <3>1. m \in 1 .. n
      BY <2>2, <1>1
    <3> QED
      BY <3>1, <1>1, <1>4, <1>5
  <2> QED
    BY <2>1, <2>2
<1>10. Good(a)
  BY <1>4, <1>5, <1>6, <1>7, <1>8, <1>9 DEF Good, Valid
<1>11. Len(a.nodes) = n + 1 /\ n + 1 \in 1 .. n + 1
  BY <1>1, <1>4, <1>6
<1>12. Exps(a) \in [1 .. n + 1 -> Nat] /\ Exps(h) \in [1 .. n -> Nat]
  BY <1>1, <1>10, <1>11, GoodTypes DEF n
<1>13. \A m \in 1 .. n : Exps(a)[m] = Exps(h)[m]
  BY <1>1, <1>4, <1>6, <1>11 DEF Exps, n
<1>14. Rising(Exps(a), n + 1, n + 1)
  BY <1>1, <1>12, <1>13, AppendOrder
<1>15. Good(g) /\ Same(g, a) /\ Sorted(Exps(g), Len(g.nodes))
  BY <1>3, <1>10, <1>11, <1>14, ShiftUpGood
<1>16. Expiry(a) = [j \in D \cup {k} |-> IF j = k THEN e ELSE Expiry(h)[j]]
  <2>1. \A j \in D \cup {k} :
           ns[ix[j]].expiration = IF j = k THEN e ELSE Expiry(h)[j]
    BY <1>1, <1>2, <1>4, <1>5 DEF Expiry, D
  <2> QED
    BY <2>1, <1>6, <1>7 DEF Expiry
<1> QED
  BY <1>6, <1>7, <1>15, <1>16 DEF Heap, Same, D

\* A node that is lifted is found at the top.
LEMMA LiftGood ==
  ASSUME NEW h, Heap(h), NEW i \in 1 .. Len(h.nodes), NEW g, g = Lifted(h, i)
  PROVE  /\ Heap(g) /\ Len(g.nodes) = Len(h.nodes) /\ DOMAIN g.index = DOMAIN h.index
         /\ g.nodes[1].key = h.nodes[i].key
         /\ Expiry(g) = [Expiry(h) EXCEPT ![h.nodes[i].key] = 0]
<1> DEFINE n == Len(h.nodes)
           c == SetExpiration(h, i, 0)
<1>1. Good(h) /\ Sorted(Exps(h), n) /\ 0 \in Nat
  BY DEF Heap
<1>2. /\ Good(c) /\ Len(c.nodes) = n /\ DOMAIN c.index = DOMAIN h.index
      /\ c.nodes[i].key = h.nodes[i].key
      /\ Exps(c) = [Exps(h) EXCEPT ![i] = 0]
      /\ Expiry(c) = [Expiry(h) EXCEPT ![h.nodes[i].key] = 0]
  BY <1>1, SetGood
<1>3. /\ n \in Nat /\ Exps(h) \in [1 .. n -> Nat] /\ Exps(c) \in [1 .. n -> Nat]
      /\ Exps(c)[i] = c.nodes[i].expiration
  BY <1>1, <1>2, GoodTypes
<1>4. Exps(c)[i] = 0 /\ \A j \in 1 .. n : j # i => Exps(c)[j] = Exps(h)[j]
  BY <1>1, <1>2, <1>3
<1>5. g = ShiftUp(c, i)
  BY DEF Lifted
<1> HIDE DEF n, c
<1>6. i \in 1 .. n
  BY DEF n
<1>7. Exps(c)[i] <= Exps(h)[i]
  BY <1>3, <1>4, <1>6
<1>8. Rising(Exps(c), n, i)
  BY <1>1, <1>3, <1>4, <1>6, <1>7, StartOrder
<1>9. /\ Good(g) /\ Same(g, c) /\ Sorted(Exps(g), Len(g.nodes))
      /\ c.nodes[i].expiration = 0 => g.nodes[1].key = c.nodes[i].key
  <2>1. Rising(Exps(c), Len(c.nodes), i) /\ i \in 1 .. Len(c.nodes) /\ Good(c)
    BY <1>2, <1>6, <1>8
  <2> QED
    BY <2>1, <1>5, ShiftUpGood
<1> QED
  BY <1>2, <1>3, <1>4, <1>9 DEF Heap, Same, n

\* The top is dropped, and nothing else.
LEMMA DropGood ==
  ASSUME NEW h, Heap(h), Len(h.nodes) >= 2, NEW k, k = h.nodes[1].key,
         NEW g, g = DropTop(h)
  PROVE  /\ Heap(g) /\ DOMAIN g.index = DOMAIN h.index \ {k}
         /\ Expiry(g) = [j \in DOMAIN h.index \ {k} |-> Expiry(h)[j]]
<1> DEFINE n == Len(h.nodes)
           D == DOMAIN h.index
           last == h.nodes[n].key
           ns == [SubSeq(h.nodes, 1, n - 1) EXCEPT ![1] = h.nodes[n]]
           ix == [j \in D \ {k} |-> IF j = last THEN h.index[k] ELSE h.index[j]]
           a == [nodes |-> ns, index |-> ix]
<1>1. /\ h.nodes \in Seq(Node) /\ n \in Nat /\ n >= 2 /\ h.index \in [D -> Nat] /\ D \subseteq Keys
      /\ \A j \in D : h.index[j] \in 1 .. n /\ h.nodes[h.index[j]].key = j
      /\ \A m \in 1 .. n : h.nodes[m].key \in D /\ h.index[h.nodes[m].key] = m
      /\ Good(h) /\ Sorted(Exps(h), n) /\ \A m \in 1 .. n : h.nodes[m] \in Node
  BY GoodTypes DEF Heap, Good, Valid
<1>2. g = ShiftDown(a, 1)
  BY DEF DropTop
<1>3. /\ k \in D /\ h.index[k] = 1 /\ last \in D /\ h.index[last] = n /\ last # k
      /\ n - 1 \in Nat /\ 1 \in 1 .. n - 1 /\ 1 .. n - 1 \subseteq 1 .. n
      /\ n \in 1 .. n /\ 1 \in 1 .. n
  <2> HIDE DEF n, D
  <2>1. n - 1 \in Nat /\ 1 \in 1 .. n - 1 /\ n \in 1 .. n /\ 1 \in 1 .. n
    BY <1>1
  <2>2. 1 .. n - 1 \subseteq 1 .. n
    BY <1>1
  <2>3. k \in D /\ h.index[k] = 1 /\ last \in D /\ h.index[last] = n
    BY <1>1, <2>1
  <2>4. last # k
    BY <1>1, <2>3
  <2> QED
    BY <2>1, <2>2, <2>3, <2>4
<1>4. /\ ns \in Seq(Node) /\ Len(ns) = n - 1 /\ ns[1] = h.nodes[n]
      /\ \A m \in 2 .. n - 1 : ns[m] = h.nodes[m]
  <2> DEFINE s == SubSeq(h.nodes, 1, n - 1)
  <2>1. s \in Seq(Node) /\ Len(s) = n - 1 /\ \A m \in 1 .. n - 1 : s[m] = h.nodes[m]
    BY <1>1, <1>3
  <2>2. h.nodes[n] \in Node
    BY <1>1, <1>3
  <2> HIDE DEF s, n
  <2>3. [s EXCEPT ![1] = h.nodes[n]] \in Seq(Node)
    BY <2>1, <2>2, <1>3
  <2>4. Len([s EXCEPT ![1] = h.nodes[n]]) = n - 1
    BY <2>1, <1>3
  <2>5. \A m \in 1 .. n - 1 : [s EXCEPT ![1] = h.nodes[n]][m]
                                 = IF m = 1 THEN h.nodes[n] ELSE h.nodes[m]
    BY <2>1, <1>3
  <2>6. \A m \in 2 .. n - 1 : m \in 1 .. n - 1 /\ m # 1
    BY SMTT(30), <1>1
  <2> QED
    BY <2>3, <2>4, <2>5, <2>6, <1>3 DEF s
<1>5. ix \in [D \ {k} -> Nat] /\ ix[last] = 1
      /\ \A j \in D \ {k} : j # last => ix[j] = h.index[j]
  BY <1>1, <1>3
<1>6. a.nodes = ns /\ a.index = ix /\ a = [nodes |-> a.nodes, index |-> a.index]
  OBVIOUS
<1> HIDE DEF ns, ix, a, n, D, last
<1>7. DOMAIN ix = D \ {k} /\ D \ {k} \subseteq Keys
  BY <1>1, <1>5
<1>8. ASSUME NEW j \in D \ {k}
      PROVE  ix[j] \in 1 .. n - 1 /\ ns[ix[j]] = h.nodes[h.index[j]]
  <2>1. CASE j = last
    BY <2>1, <1>3, <1>4, <1>5
  <2>2. CASE j # last
    <3>1. h.index[j] \in 1 .. n /\ h.nodes[h.index[j]].key = j /\ j # k
      BY <1>1
    <3>2. h.index[j] # 1 /\ h.index[j] # n
      BY <3>1, <2>2 DEF last
    <3>3. h.index[j] \in 2 .. n - 1
      BY <3>1, <3>2, <1>1
    <3>4. h.index[j] \in 1 .. n - 1
      BY <3>3
    <3> QED
      BY <2>2, <3>3, <3>4, <1>4, <1>5
  <2> QED
    BY <2>1, <2>2
<1>9. \A j \in D \ {k} : ns[ix[j]].key = j
  BY <1>1, <1>8
<1>10. ASSUME NEW m \in 1 .. n - 1
       PROVE  ns[m].key \in D \ {k} /\ ix[ns[m].key] = m
  <2>1. CASE m = 1
    BY <2>1, <1>3, <1>4, <1>5 DEF last
  <2>2. CASE m # 1
    <3>1. m \in 2 .. n - 1 /\ m \in 1 .. n /\ m # n
      BY <2>2, <1>1
    <3>2. ns[m] = h.nodes[m] /\ h.nodes[m].key \in D /\ h.index[h.nodes[m].key] = m
      BY <3>1, <1>1, <1>4
    <3>3. h.nodes[m].key # k /\ h.nodes[m].key # last
      BY <3>1, <3>2, <2>2, <1>3
    <3> QED
      BY <3>2, <3>3, <1>5
  <2> QED
    BY <2>1, <2>2
<1>11. Good(a)
  BY <1>4, <1>5, <1>6, <1>7, <1>8, <1>9, <1>10 DEF Good, Valid
<1>12. Len(a.nodes) = n - 1
  BY <1>4, <1>6
<1>13. Exps(a) \in [1 .. n - 1 -> Nat] /\ Exps(h) \in [1 .. n -> Nat]
  BY <1>1, <1>11, <1>12, GoodTypes DEF n
<1>14. \A m \in 2 .. n - 1 : Exps(a)[m] = Exps(h)[m]
  <2> TAKE m \in 2 .. n - 1
  <2>1. m \in 1 .. n - 1 /\ m \in 1 .. n /\ ns[m] = h.nodes[m]
    BY <1>1, <1>4
  <2> QED
    BY <2>1, <1>6, <1>12 DEF Exps, n
<1>15. Sinking(Exps(a), n - 1, 1)
  BY <1>1, <1>13, <1>14, DropOrder
<1>16. Good(g) /\ Same(g, a) /\ Sorted(Exps(g), Len(g.nodes))
  BY <1>2, <1>3, <1>11, <1>12, <1>15, ShiftDownGood
<1>17. Expiry(a) = [j \in D \ {k} |-> Expiry(h)[j]]
  BY <1>6, <1>7, <1>8 DEF Expiry, D
<1> QED
  BY <1>6, <1>7, <1>16, <1>17 DEF Heap, Same, D

\* The empty heap.
LEMMA EmptyGood == Heap(Empty) /\ DOMAIN Empty.index = {} /\ Expiry(Empty) = [k \in {} |-> 0]
<1>1. Empty.nodes = <<>> /\ Empty.index = [k \in {} |-> 0]
  BY DEF Empty
<1>2. Len(Empty.nodes) = 0 /\ DOMAIN Empty.index = {} /\ Empty.nodes \in Seq(Node)
  BY <1>1
<1>3. Empty = [nodes |-> Empty.nodes, index |-> Empty.index]
  BY DEF Empty
<1>4. Empty.index \in [{} -> Nat]
  BY <1>1
<1>5. Good(Empty)
  BY <1>2, <1>3, <1>4 DEF Good
<1>6. Sorted(Exps(Empty), 0)
  BY DEF Sorted
<1> QED
  BY <1>1, <1>2, <1>5, <1>6 DEF Heap, Expiry

\* RemoveByIndex passes its assertions and removes its key only.
LEMMA RemoveGood ==
  ASSUME NEW h, Heap(h), NEW i \in 1 .. Len(h.nodes), NEW k, k = h.nodes[i].key,
         NEW g, g = RemoveByIndex(h, i)
  PROVE  /\ RemovalAsserts(h, i) /\ Heap(g) /\ DOMAIN g.index = DOMAIN h.index \ {k}
         /\ \A j \in DOMAIN g.index : Expiry(g)[j] = Expiry(h)[j]
<1> DEFINE D == DOMAIN h.index
           t == Lifted(h, i)
<1>1. /\ Heap(t) /\ Len(t.nodes) = Len(h.nodes) /\ DOMAIN t.index = D
      /\ t.nodes[1].key = k /\ Expiry(t) = [Expiry(h) EXCEPT ![k] = 0]
  BY LiftGood
<1>2. RemovalAsserts(h, i)
  BY <1>1 DEF RemovalAsserts, Valid, TopIs
<1>3. Len(h.nodes) \in Nat /\ Good(h)
  BY GoodTypes DEF Heap
<1>4. CASE Len(h.nodes) = 1
  <2>1. g = Empty
    BY <1>4 DEF RemoveByIndex
  <2>2. i = 1
    BY <1>4
  <2>3. ASSUME NEW j \in D PROVE j = k
    <3>1. h.index[j] \in 1 .. 1 /\ h.nodes[h.index[j]].key = j
      BY <1>3, <1>4 DEF Good, Valid
    <3>2. h.index[j] = 1
      BY <3>1
    <3> QED
      BY <3>1, <3>2, <2>2
  <2>4. D \ {k} = {}
    BY <2>3
  <2> QED
    BY <1>2, <2>1, <2>4, EmptyGood
<1>5. CASE Len(h.nodes) # 1
  <2>1. g = DropTop(t)
    BY <1>5 DEF RemoveByIndex
  <2> HIDE DEF t, D
  <2>2. Len(t.nodes) >= 2
    <3>1. Len(h.nodes) >= 2
      <4> DEFINE n == Len(h.nodes)
      <4>1. n \in Nat /\ i \in 1 .. n /\ n # 1
        BY <1>3, <1>5
      <4> HIDE DEF n
      <4>2. n >= 2
        BY <4>1
      <4> QED
        BY <4>2 DEF n
    <3>2. Len(t.nodes) = Len(h.nodes)
      BY <1>1
    <3> QED
      BY <3>1, <3>2
  <2>3. /\ Heap(g) /\ DOMAIN g.index = D \ {k}
        /\ Expiry(g) = [j \in D \ {k} |-> Expiry(t)[j]]
    <3>1. Heap(t) /\ k = t.nodes[1].key /\ DOMAIN t.index = D
      BY <1>1
    <3>2. /\ Heap(g) /\ DOMAIN g.index = DOMAIN t.index \ {k}
          /\ Expiry(g) = [j \in DOMAIN t.index \ {k} |-> Expiry(t)[j]]
      BY <3>1, <2>1, <2>2, DropGood
    <3> QED
      BY <3>1, <3>2
  <2>4. \A j \in D \ {k} : Expiry(t)[j] = Expiry(h)[j]
    BY <1>1 DEF Expiry, D
  <2> QED
    BY <1>2, <2>3, <2>4 DEF D
<1> QED
  BY <1>4, <1>5


-----------------------------------------------------------------------------
(* The specification.                                                      *)

\* The inductive invariant.
HeapInv == TypeOK /\ Heap(heap) /\ NoAssertionFails

\* A heap that is good and in order takes the place of the heap.
LEMMA Landed ==
  ASSUME NEW g, Heap(g), Become(g)
  PROVE  /\ heap' = g /\ Heap(heap')
         /\ nodes' \in Seq(Node) /\ DOMAIN index' \subseteq Keys
         /\ \A k \in DOMAIN index' : index'[k] \in Nat
         /\ index' = g.index
         /\ [k \in DOMAIN index' |-> nodes'[index'[k]].expiration] = Expiry(g)
<1>1. g = [nodes |-> g.nodes, index |-> g.index] /\ g.nodes \in Seq(Node)
      /\ g.index \in [DOMAIN g.index -> Nat] /\ DOMAIN g.index \subseteq Keys
  BY DEF Heap, Good
<1>2. nodes' = g.nodes /\ index' = g.index
  BY DEF Become
<1>3. heap' = [nodes |-> nodes', index |-> index']
  BY DEF heap
<1>4. heap' = g
  BY <1>1, <1>2, <1>3
<1>5. \A k \in DOMAIN g.index : g.index[k] \in Nat
  BY <1>1
<1>6. [k \in DOMAIN index' |-> nodes'[index'[k]].expiration] = Expiry(g)
  BY <1>2 DEF Expiry
<1> QED
  BY <1>1, <1>2, <1>4, <1>5, <1>6

\* The heap as a constant.
LEMMA TheHeap ==
  ASSUME HeapInv
  PROVE  \E h : /\ h = heap /\ Heap(h) /\ h.nodes = nodes /\ h.index = index
                /\ Expiry(h) = [k \in DOMAIN index |-> nodes[index[k]].expiration]
<1>1. heap.nodes = nodes /\ heap.index = index
  BY DEF heap
<1>2. Expiry(heap) = [k \in DOMAIN index |-> nodes[index[k]].expiration]
  BY <1>1 DEF Expiry
<1>3. PICK h : h = heap
  OBVIOUS
<1> QED
  BY <1>1, <1>2, <1>3 DEF HeapInv

\* What an operation on the heap leaves of the invariant to show.
LEMMA Kept ==
  ASSUME HeapInv, NEW g, Heap(g), Become(g), UNCHANGED aborted,
         now' \in Nat, interval' \in Int, fired' \subseteq Keys
  PROVE  HeapInv'
<1>1. /\ Heap(heap') /\ nodes' \in Seq(Node) /\ DOMAIN index' \subseteq Keys
      /\ \A k \in DOMAIN index' : index'[k] \in Nat
  BY Landed
<1>2. aborted' \in BOOLEAN /\ ~aborted'
  BY DEF HeapInv, TypeOK, NoAssertionFails
<1> QED
  BY <1>1, <1>2 DEF HeapInv, TypeOK, NoAssertionFails

\* Push sets the time of a key, whether the key is new or not.
LEMMA PushStep ==
  ASSUME HeapInv, NEW k \in Keys, NEW e \in Times, Push(k, e)
  PROVE  HeapInv' /\ Queue!Set(k, e)
<1>1. PICK h : /\ h = heap /\ Heap(h) /\ h.nodes = nodes /\ h.index = index
               /\ Expiry(h) = [j \in DOMAIN index |-> nodes[index[j]].expiration]
  BY TheHeap
<1>2. PICK g : g = IF Contain(k) THEN AdjustNode(heap, k, e) ELSE AppendNode(heap, k, e)
  OBVIOUS
<1>3. Become(g) /\ fired' = {} /\ UNCHANGED <<now, interval, aborted>> /\ e \in Nat
  BY <1>2, TimesAssumption DEF Push
<1>4. /\ Heap(g)
      /\ Expiry(g) = [j \in DOMAIN h.index \cup {k} |-> IF j = k THEN e ELSE Expiry(h)[j]]
  <2>1. CASE Contain(k)
    <3>1. k \in DOMAIN h.index /\ g = AdjustNode(h, k, e) /\ Heap(h) /\ e \in Nat
      BY <1>1, <1>2, <1>3, <2>1 DEF Contain
    <3>2. Heap(g) /\ Expiry(g) = [Expiry(h) EXCEPT ![k] = e]
      BY <3>1, AdjustGood
    <3>3. DOMAIN h.index \cup {k} = DOMAIN h.index /\ DOMAIN Expiry(h) = DOMAIN h.index
      BY <3>1 DEF Expiry
    <3> QED
      BY <3>1, <3>2, <3>3
  <2>2. CASE ~Contain(k)
    <3>1. k \in Keys \ DOMAIN h.index /\ g = AppendNode(h, k, e) /\ Heap(h) /\ e \in Nat
      BY <1>1, <1>2, <1>3, <2>2 DEF Contain
    <3> QED
      BY <3>1, AppendGood
  <2> QED
    BY <2>1, <2>2
<1>5. HeapInv'
  BY <1>3, <1>4, Kept DEF HeapInv, TypeOK
<1>6. [j \in DOMAIN index' |-> nodes'[index'[j]].expiration] = Expiry(g)
  BY <1>3, <1>4, Landed
<1>7. DOMAIN h.index = DOMAIN Expiry(h)
  BY DEF Expiry
<1> QED
  BY <1>1, <1>3, <1>4, <1>5, <1>6, <1>7 DEF Queue!Set

\* Adjust sets the time of a key.
LEMMA AdjustStep ==
  ASSUME HeapInv, NEW k \in Keys, NEW e \in Times, Adjust(k, e)
  PROVE  HeapInv' /\ Queue!Set(k, e)
BY PushStep DEF Adjust, Push

\* RemoveByIndex takes one key away, and its assertions hold.
LEMMA RemovalStep ==
  ASSUME HeapInv, NEW i \in 1 .. Len(nodes), NEW g, g = RemoveByIndex(heap, i),
         NEW k, k = nodes[i].key
  PROVE  /\ RemovalAsserts(heap, i) /\ Heap(g) /\ k \in DOMAIN index
         /\ k \notin DOMAIN g.index
         /\ Expiry(g) = [j \in DOMAIN index \ {k} |-> nodes[index[j]].expiration]
<1>1. PICK h : /\ h = heap /\ Heap(h) /\ h.nodes = nodes /\ h.index = index
               /\ Expiry(h) = [j \in DOMAIN index |-> nodes[index[j]].expiration]
  BY TheHeap
<1>2. /\ i \in 1 .. Len(h.nodes) /\ k = h.nodes[i].key /\ g = RemoveByIndex(h, i)
      /\ Heap(h)
  BY <1>1
<1>3. /\ RemovalAsserts(h, i) /\ Heap(g) /\ DOMAIN g.index = DOMAIN h.index \ {k}
      /\ \A j \in DOMAIN g.index : Expiry(g)[j] = Expiry(h)[j]
  BY <1>2, RemoveGood
<1>4. k \in DOMAIN h.index
  BY <1>1, <1>2 DEF Heap, Good
<1>5. \A j \in DOMAIN index \ {k} : Expiry(g)[j] = nodes[index[j]].expiration
  BY <1>1, <1>3
<1>6. Expiry(g) = [j \in DOMAIN g.index |-> Expiry(g)[j]]
  BY DEF Expiry
<1> QED
  BY <1>1, <1>3, <1>4, <1>5, <1>6

\* The position of a key.
LEMMA Placed ==
  ASSUME HeapInv, NEW k \in DOMAIN index
  PROVE  index[k] \in 1 .. Len(nodes) /\ nodes[index[k]].key = k
<1>1. PICK h : h = heap /\ Heap(h) /\ h.nodes = nodes /\ h.index = index
  BY TheHeap
<1> QED
  BY <1>1 DEF Heap, Good, Valid

\* Remove and Invoke take their key away.
LEMMA RemoveStep ==
  ASSUME HeapInv, NEW k \in Keys, Remove(k) \/ Invoke(k)
  PROVE  HeapInv' /\ Queue!Remove(k)
<1>1. PICK i : i = index[k]
  OBVIOUS
<1>2. PICK g : g = RemoveByIndex(heap, i)
  OBVIOUS
<1>3. k \in DOMAIN index /\ fired' = {} /\ UNCHANGED <<now, interval>>
  BY DEF Remove, Invoke, Contain
<1>4. i \in 1 .. Len(nodes) /\ nodes[i].key = k
  BY <1>1, <1>3, Placed
<1>5. /\ RemovalAsserts(heap, i) /\ Heap(g) /\ k \notin DOMAIN g.index
      /\ Expiry(g) = [j \in DOMAIN index \ {k} |-> nodes[index[j]].expiration]
  BY <1>2, <1>4, RemovalStep
<1>6. Become(g) /\ aborted' = FALSE
  <2>1. CASE Remove(k)
    BY <2>1, <1>1, <1>2, <1>5 DEF Remove, BecomeIf
  <2>2. CASE Invoke(k)
    BY <2>2, <1>1, <1>2, <1>5 DEF Invoke, BecomeIf
  <2> QED
    BY <2>1, <2>2
<1>7. UNCHANGED aborted
  BY <1>6 DEF HeapInv, NoAssertionFails, TypeOK
<1>8. HeapInv'
  BY <1>3, <1>5, <1>6, <1>7, Kept DEF HeapInv, TypeOK
<1>9. [j \in DOMAIN index' |-> nodes'[index'[j]].expiration] = Expiry(g)
  BY <1>5, <1>6, Landed
<1> QED
  BY <1>3, <1>5, <1>8, <1>9 DEF Queue!Remove, Queue!Without

\* The node at the top expires first.
LEMMA TopFirst ==
  ASSUME HeapInv, nodes # <<>>
  PROVE  /\ 1 \in 1 .. Len(nodes) /\ nodes[1].key \in DOMAIN index /\ index[nodes[1].key] = 1
         /\ nodes[1].key \in Keys
         /\ nodes[1].expiration \in Nat
         /\ \A j \in DOMAIN index : /\ nodes[index[j]].expiration \in Nat
                                    /\ nodes[1].expiration <= nodes[index[j]].expiration
<1>1. PICK h : h = heap /\ Heap(h) /\ h.nodes = nodes /\ h.index = index
  BY TheHeap
<1>2. Good(h) /\ Sorted(Exps(h), Len(h.nodes)) /\ nodes \in Seq(Node)
  BY <1>1 DEF Heap, Good
<1>3. 1 \in 1 .. Len(nodes)
  BY <1>2
<1>4. \A i \in 1 .. Len(nodes) : /\ nodes[i].expiration \in Nat /\ nodes[i].key \in Keys
                                 /\ Exps(h)[i] = nodes[i].expiration
  BY <1>1, <1>2, GoodTypes
<1>5. \A i \in 1 .. Len(nodes) : Exps(h)[1] <= Exps(h)[i]
  BY <1>1, <1>2, GoodTypes, TopIsLeast
<1>6. \A j \in DOMAIN index : index[j] \in 1 .. Len(nodes)
  BY Placed
<1>7. nodes[1].key \in DOMAIN index /\ index[nodes[1].key] = 1
  BY <1>1, <1>2, <1>3 DEF Good
<1> QED
  BY <1>3, <1>4, <1>5, <1>6, <1>7

\* What Tick pops is a key that is due, and none is due earlier.
LEMMA TickStep ==
  ASSUME HeapInv, TickPop
  PROVE  HeapInv' /\ \E k \in Keys : Queue!Expire(k)
<1>1. nodes # <<>> /\ nodes[1].expiration <= now
  BY DEF TickPop, TopExpired
<1>2. PICK k : k = nodes[1].key
  OBVIOUS
<1>3. PICK g : g = RemoveByIndex(heap, 1)
  OBVIOUS
<1>4. /\ 1 \in 1 .. Len(nodes) /\ k \in DOMAIN index /\ index[k] = 1 /\ k \in Keys
      /\ \A j \in DOMAIN index : nodes[1].expiration <= nodes[index[j]].expiration
  BY <1>1, <1>2, TopFirst
<1>5. /\ RemovalAsserts(heap, 1) /\ Heap(g)
      /\ Expiry(g) = [j \in DOMAIN index \ {k} |-> nodes[index[j]].expiration]
  BY <1>2, <1>3, <1>4, RemovalStep
<1>6. Become(g) /\ aborted' = FALSE /\ fired' = {k} /\ UNCHANGED <<now, interval>>
  BY <1>2, <1>3, <1>5 DEF TickPop, BecomeIf
<1>7. UNCHANGED aborted
  BY <1>6 DEF HeapInv, NoAssertionFails, TypeOK
<1>8. HeapInv'
  BY <1>4, <1>5, <1>6, <1>7, Kept DEF HeapInv, TypeOK
<1>9. [j \in DOMAIN index' |-> nodes'[index'[j]].expiration] = Expiry(g)
  BY <1>5, <1>6, Landed
<1>10. Queue!Expire(k)
  BY <1>1, <1>4, <1>5, <1>6, <1>9 DEF Queue!Expire, Queue!Without
<1> QED
  BY <1>4, <1>8, <1>10

\* Clear takes every key away.
LEMMA ClearStep ==
  ASSUME HeapInv, Clear
  PROVE  HeapInv' /\ Queue!Clear
<1>1. PICK g : g = Empty
  OBVIOUS
<1>2. Become(g) /\ fired' = {} /\ UNCHANGED <<now, interval, aborted>>
  BY <1>1 DEF Clear
<1>3. Heap(g) /\ Expiry(g) = [k \in {} |-> 0]
  BY <1>1, EmptyGood
<1>4. HeapInv'
  BY <1>2, <1>3, Kept DEF HeapInv, TypeOK
<1>5. [j \in DOMAIN index' |-> nodes'[index'[j]].expiration] = Expiry(g)
  BY <1>2, <1>3, Landed
<1> QED
  BY <1>2, <1>3, <1>4, <1>5 DEF Queue!Clear

\* Steps that leave the heap alone.
LEMMA ClockStep ==
  ASSUME HeapInv, ToNextTick \/ Advance
  PROVE  HeapInv' /\ (Queue!Advance \/ UNCHANGED Queue!qvars)
<1>1. UNCHANGED <<nodes, index, fired, aborted>> /\ (now' = now \/ now' = now + 1)
  BY DEF ToNextTick, Advance
<1>2. now' \in Nat /\ interval' \in Int
  <2>1. now \in Nat /\ interval \in Int
    BY DEF HeapInv, TypeOK
  <2>2. now' \in Nat
    BY <1>1, <2>1
  <2>3. CASE Advance
    BY <2>1, <2>2, <2>3 DEF Advance
  <2>4. CASE ToNextTick
    <3>1. CASE nodes # <<>> /\ nodes[1].expiration > now'
      <4>1. nodes[1].expiration \in Nat
        BY <3>1, TopFirst
      <4>2. nodes[1].expiration - now' \in Int
        BY <4>1, <2>2
      <4> QED
        BY <3>1, <4>2, <2>2, <2>4 DEF ToNextTick
    <3>2. CASE ~(nodes # <<>> /\ nodes[1].expiration > now')
      BY <3>2, <2>2, <2>4 DEF ToNextTick
    <3> QED
      BY <3>1, <3>2
  <2> QED
    BY <2>3, <2>4
<1>3. heap' = heap
  BY <1>1 DEF heap
<1>4. HeapInv'
  BY <1>1, <1>2, <1>3 DEF HeapInv, TypeOK, NoAssertionFails
<1>5. [j \in DOMAIN index' |-> nodes'[index'[j]].expiration]
          = [j \in DOMAIN index |-> nodes[index[j]].expiration]
  BY <1>1
<1> QED
  BY <1>1, <1>4, <1>5 DEF Queue!Advance, Queue!qvars

\* Every step keeps the invariant and is a step of the abstract queue.
LEMMA Steps ==
  ASSUME HeapInv, [Next]_vars
  PROVE  HeapInv' /\ [Queue!Next]_Queue!qvars
<1>1. CASE TickPop
  BY <1>1, TickStep DEF Queue!Next
<1>2. CASE ToNextTick \/ Advance
  BY <1>2, ClockStep DEF Queue!Next
<1>3. CASE Clear
  BY <1>3, ClearStep DEF Queue!Next
<1>4. ASSUME NEW k \in Keys, Remove(k) \/ Invoke(k)
      PROVE  HeapInv' /\ [Queue!Next]_Queue!qvars
  BY <1>4, RemoveStep DEF Queue!Next
<1>5. ASSUME NEW k \in Keys, NEW e \in Times, Push(k, e) \/ Adjust(k, e)
      PROVE  HeapInv' /\ [Queue!Next]_Queue!qvars
  BY <1>5, PushStep, AdjustStep DEF Queue!Next
<1>6. CASE UNCHANGED vars
  <2>1. UNCHANGED <<nodes, index, now, interval, fired, aborted>>
    BY <1>6 DEF vars
  <2>2. heap' = heap
    BY <2>1 DEF heap
  <2>3. HeapInv'
    BY <2>1, <2>2 DEF HeapInv, TypeOK, NoAssertionFails
  <2>4. UNCHANGED Queue!qvars
    BY <2>1 DEF Queue!qvars
  <2> QED
    BY <2>3, <2>4
<1> QED
  BY <1>1, <1>2, <1>3, <1>4, <1>5, <1>6 DEF Next

\* A new timer is an empty heap and an empty queue.
LEMMA Starts == Init => HeapInv /\ Queue!Init
<1> SUFFICES ASSUME Init PROVE HeapInv /\ Queue!Init
  OBVIOUS
<1>1. nodes = <<>> /\ index = [k \in {} |-> 0] /\ heap = Empty
  BY DEF Init, Empty, heap
<1>2. Heap(heap)
  BY <1>1, EmptyGood
<1>3. nodes \in Seq(Node) /\ DOMAIN index = {}
  BY <1>1
<1>4. TypeOK
  <2>1. 0 \in Nat /\ -1 \in Int /\ FALSE \in BOOLEAN /\ {} \subseteq Keys
    OBVIOUS
  <2>2. now = 0 /\ interval = -1 /\ fired = {} /\ aborted = FALSE
    BY DEF Init
  <2>3. now \in Nat /\ interval \in Int /\ fired \subseteq Keys
    BY <2>1, <2>2
  <2>4. aborted \in BOOLEAN
    BY <2>2
  <2> QED
    BY <1>3, <2>3, <2>4 DEF TypeOK
<1>5. [k \in DOMAIN index |-> nodes[index[k]].expiration] = [k \in {} |-> 0]
  BY <1>3
<1> QED
  BY <1>2, <1>4, <1>5 DEF HeapInv, NoAssertionFails, Init, Queue!Init

\* The inductive invariant holds: Push, Adjust, Remove, Invoke, Clear and Tick
\* keep the nodes of heap_timer.h in order and the map telling their places.
THEOREM HeapInvariance == Spec => []HeapInv
<1>1. Init => HeapInv
  BY Starts
<1>2. HeapInv /\ [Next]_vars => HeapInv'
  BY Steps
<1> QED
  BY <1>1, <1>2, PTL DEF Spec

\* The map key_to_idx_ leads from every key to the one node that carries it,
\* through every Swap of ShiftUp and ShiftDown, for heaps of any size.
THEOREM MapAgrees == Spec => []IndexAgrees
<1>1. HeapInv => IndexAgrees
  <2> SUFFICES ASSUME HeapInv PROVE IndexAgrees
    OBVIOUS
  <2>1. PICK h : h = heap /\ Heap(h) /\ h.nodes = nodes /\ h.index = index
    BY TheHeap
  <2> QED
    BY <2>1 DEF Heap, Good, IndexAgrees, Valid
<1> QED
  BY <1>1, HeapInvariance, PTL

\* No assertion of RemoveByIndex or Invoke fails: a node that gets the least
\* time is lifted to the top whatever nodes of the same time it passes.
THEOREM LiftedToTop == Spec => []NoAssertionFails
<1>1. HeapInv => NoAssertionFails
  BY DEF HeapInv
<1> QED
  BY <1>1, HeapInvariance, PTL

\* The heap implements a map from keys to times from which the earliest expired
\* key is taken first.
THEOREM TimerRefinement == Spec => ImplementsQueue
<1>1. Init => Queue!Init
  BY Starts
<1>2. HeapInv /\ [Next]_vars => [Queue!Next]_Queue!qvars
  BY Steps
<1> QED
  BY <1>1, <1>2, HeapInvariance, PTL DEF Spec, ImplementsQueue, Queue!Spec

\* ToNextTick returns the interval to the earliest of all the timers.
THEOREM IntervalIsRight == Spec => IntervalReachesEarliest
<1> DEFINE A == interval' # interval /\ nodes # <<>> =>
                  interval' = IF Queue!Earliest > now' THEN Queue!Earliest - now' ELSE 0
<1>1. HeapInv /\ [Next]_vars => [A]_vars
  <2> SUFFICES ASSUME HeapInv, [Next]_vars, interval' # interval, nodes # <<>>
               PROVE  interval' = IF Queue!Earliest > now' THEN Queue!Earliest - now' ELSE 0
    OBVIOUS
  <2>1. ToNextTick
    BY DEF Next, TickPop, Clear, Advance, Remove, Invoke, Push, Adjust, vars
  <2>2. PICK x : x = nodes[1].expiration
    OBVIOUS
  <2> DEFINE E == [k \in DOMAIN index |-> nodes[index[k]].expiration]
  <2>3. x \in Nat /\ \E k \in DOMAIN index : index[k] = 1
    BY <2>2, TopFirst
  <2>4. \A k \in DOMAIN index : E[k] \in Nat /\ x <= E[k]
    BY <2>2, TopFirst
  <2>5. x \in {E[k] : k \in DOMAIN E} /\ \A k \in DOMAIN E : x <= E[k]
    BY <2>2, <2>3, <2>4
  <2>6. ASSUME NEW e \in {E[k] : k \in DOMAIN E}, \A k \in DOMAIN E : e <= E[k]
        PROVE  e = x
    <3>1. e <= x
      BY <2>5, <2>6
    <3>2. e \in Nat /\ x <= e
      BY <2>4, <2>6
    <3> QED
      BY <3>1, <3>2, <2>3
  <2>7. Queue!Earliest = x
    <3> HIDE DEF E
    <3>1. (CHOOSE e \in {E[k] : k \in DOMAIN E} : \A k \in DOMAIN E : e <= E[k]) = x
      BY <2>5, <2>6
    <3> QED
      BY <3>1 DEF Queue!Earliest, E
  <2> QED
    BY <2>1, <2>2, <2>7 DEF ToNextTick
<1> QED
  BY <1>1, HeapInvariance, PTL DEF Spec, IntervalReachesEarliest
=============================================================================
