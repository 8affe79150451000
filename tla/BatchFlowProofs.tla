-------------------------- MODULE BatchFlowProofs --------------------------
(***************************************************************************)
(* Theorems about modules BatchFlow and SeqlenBalance, for every shape of  *)
(* a run, every lengths of its rows and every size of mini- and            *)
(* micro-batches: workers meet in the same collectives, and the assertions *)
(* of the partitioning hold.                                               *)
(*                                                                         *)
(* In this order: sorting and sums; the heap of karmarkar_karp and what it *)
(* leaves; sequences that are joined, cut and arranged; the invariant;     *)
(* the step of a worker that enters a collective, the step of one that     *)
(* does not, and the driver's steps.                                       *)
(***************************************************************************)
EXTENDS BatchFlow, FiniteSetTheorems, SequenceTheorems, WellFoundedInduction, TLAPS

(* A strict total order on S, as a set of pairs.                           *)
StrictTotal(S, before) ==
  /\ \A x \in S : <<x, x>> \notin before
  /\ \A x, y \in S : x # y => <<x, y>> \in before \/ <<y, x>> \in before
  /\ \A x, y, z \in S : <<x, y>> \in before /\ <<y, z>> \in before => <<x, z>> \in before

(* The elements of a finite set can be put in order: each at the place of  *)
(* the number of those it does not precede.                                *)
LEMMA Sortable ==
  ASSUME NEW S, IsFiniteSet(S), NEW before, StrictTotal(S, before)
  PROVE  \E s \in [1 .. Cardinality(S) -> S] :
           \A i, j \in 1 .. Cardinality(S) : i < j => <<s[i], s[j]>> \in before
<1>. DEFINE n == Cardinality(S)
            Upto(x) == {y \in S : <<x, y>> \notin before}
            rank == [x \in S |-> Cardinality(Upto(x))]
<1>1. n \in Nat
  BY FS_CardinalityType
<1>2. ASSUME NEW x \in S PROVE rank[x] \in 1 .. n /\ IsFiniteSet(Upto(x))
  <2>1. Upto(x) \in SUBSET S /\ x \in Upto(x)
    BY DEF StrictTotal
  <2>2. IsFiniteSet(Upto(x)) /\ Cardinality(Upto(x)) <= n
    BY <2>1, FS_Subset
  <2>3. Cardinality(Upto(x)) \in Nat /\ Cardinality(Upto(x)) # 0
    BY <2>1, <2>2, FS_CardinalityType, FS_EmptySet
  <2>. QED  BY <1>1, <2>2, <2>3
<1>3. ASSUME NEW x \in S, NEW z \in S, <<x, z>> \in before PROVE rank[x] < rank[z]
  <2>1. <<z, x>> \notin before
    BY <1>3 DEF StrictTotal
  <2>2. \A y \in S : <<x, y>> \notin before => <<z, y>> \notin before
    BY <1>3 DEF StrictTotal
  <2>3. Upto(x) \in SUBSET Upto(z) /\ z \in Upto(z) /\ z \notin Upto(x)
    BY <1>3, <2>2 DEF StrictTotal
  <2>4. Cardinality(Upto(x)) <= Cardinality(Upto(z)) /\ Cardinality(Upto(x)) # Cardinality(Upto(z))
    BY <1>2, <2>3, FS_Subset
  <2>5. Cardinality(Upto(x)) \in Nat /\ Cardinality(Upto(z)) \in Nat
    BY <1>2, FS_CardinalityType
  <2>. QED  BY <2>4, <2>5
<1>4. rank \in Injection(S, 1 .. n)
  <2>1. rank \in [S -> 1 .. n]
    BY <1>2
  <2>2. ASSUME NEW x \in S, NEW z \in S, rank[x] = rank[z] PROVE x = z
    <3>1. rank[x] \in Nat
      BY <1>2
    <3>. HIDE DEF rank
    <3>2. <<x, z>> \notin before /\ <<z, x>> \notin before
      BY <1>3, <2>2, <3>1
    <3>. QED  BY <3>2 DEF StrictTotal
  <2>. QED  BY <2>1, <2>2 DEF Injection, IsInjective
<1>5. rank \in Surjection(S, 1 .. n)
  <2>1. IsFiniteSet(1 .. n) /\ Cardinality(1 .. n) = n
    BY <1>1, FS_Interval
  <2>. HIDE DEF rank
  <2>. QED  BY <1>4, <2>1, FS_Injection
<1>. DEFINE s == [i \in 1 .. n |-> CHOOSE x \in S : rank[x] = i]
<1>6. \A i \in 1 .. n : s[i] \in S /\ rank[s[i]] = i
  BY <1>5 DEF Surjection
<1>7. ASSUME NEW i \in 1 .. n, NEW j \in 1 .. n, i < j PROVE <<s[i], s[j]>> \in before
  <2>1. PICK x \in S : x = s[i] /\ rank[x] = i
    BY <1>6
  <2>2. PICK y \in S : y = s[j] /\ rank[y] = j
    BY <1>6
  <2>. HIDE DEF rank, s
  <2>3. x # y /\ ~(rank[y] < rank[x])
    BY <1>7, <2>1, <2>2
  <2>4. <<y, x>> \notin before
    BY <1>3, <2>3
  <2>. QED  BY <2>1, <2>2, <2>3, <2>4 DEF StrictTotal
<1>8. s \in [1 .. n -> S]
  BY <1>6
<1>. QED  BY <1>7, <1>8

(* InOrder puts them in order, each once.                                  *)
LEMMA InOrderSorted ==
  ASSUME NEW S, IsFiniteSet(S), NEW before, StrictTotal(S, before)
  PROVE  /\ Cardinality(S) \in Nat
         /\ InOrder(S, before) \in Bijection(1 .. Cardinality(S), S)
         /\ \A i, j \in 1 .. Cardinality(S) :
              i < j => <<InOrder(S, before)[i], InOrder(S, before)[j]>> \in before
<1>. DEFINE n == Cardinality(S)
            s == InOrder(S, before)
<1>1. n \in Nat
  BY FS_CardinalityType
<1>2. s \in [1 .. n -> S] /\ \A i, j \in 1 .. n : i < j => <<s[i], s[j]>> \in before
  <2>1. \E q \in [1 .. n -> S] : \A i, j \in DOMAIN q : i < j => <<q[i], q[j]>> \in before
    <3>1. PICK q \in [1 .. n -> S] : \A i, j \in 1 .. n : i < j => <<q[i], q[j]>> \in before
      BY Sortable
    <3>2. DOMAIN q = 1 .. n
      OBVIOUS
    <3>. QED  BY <3>1, <3>2
  <2>2. s \in [1 .. n -> S] /\ \A i, j \in DOMAIN s : i < j => <<s[i], s[j]>> \in before
    BY <2>1 DEF InOrder
  <2>. QED  BY <2>2
<1>. HIDE DEF s
<1>3. s \in Injection(1 .. n, S)
  <2>1. ASSUME NEW i \in 1 .. n, NEW j \in 1 .. n, i # j PROVE s[i] # s[j]
    <3>1. i < j \/ j < i
      BY <1>1, <2>1
    <3>2. <<s[i], s[j]>> \in before \/ <<s[j], s[i]>> \in before
      BY <1>2, <3>1
    <3>. QED  BY <1>2, <3>2 DEF StrictTotal
  <2>. QED  BY <1>2, <2>1 DEF Injection, IsInjective
<1>4. s \in Surjection(1 .. n, S)
  <2>1. IsFiniteSet(1 .. n) /\ Cardinality(1 .. n) = n
    BY <1>1, FS_Interval
  <2>. QED  BY <1>3, <2>1, FS_Injection
<1>. QED  BY <1>1, <1>2, <1>3, <1>4 DEF Bijection, s

LEMMA ByLoadTotal ==
  ASSUME NEW S \in SUBSET Int, NEW load, \A i \in S : load[i] \in Int
  PROVE  StrictTotal(S, ByLoad(S, load))
BY DEF StrictTotal, ByLoad

-----------------------------------------------------------------------------

(* Total goes through a finite set one element at a time.                  *)
First(s) == CHOOSE x \in s : TRUE
Sums(S, f, g) == \A s \in SUBSET S :
                   g[s] = IF s = {} THEN 0 ELSE f[First(s)] + g[s \ {First(s)}]

LEMMA TotalSteps ==
  ASSUME NEW S, IsFiniteSet(S), NEW f
  PROVE  \E g : Total(S, f) = g[S] /\ Sums(S, f, g)
<1>. DEFINE D(k) == {s \in SUBSET S : Cardinality(s) <= k}
            step(g, s) == IF s = {} THEN 0 ELSE f[First(s)] + g[s \ {First(s)}]
            Has(k) == \E g : g = [s \in D(k) |-> step(g, s)]
            Lacks == {k \in Nat : ~Has(k)}
            n == Cardinality(S)
<1>1. \A s \in SUBSET S : IsFiniteSet(s) /\ Cardinality(s) \in Nat /\ Cardinality(s) <= n
  BY FS_Subset, FS_CardinalityType
<1>2. \A s \in SUBSET S : s # {} =>
        /\ s \ {First(s)} \in SUBSET S
        /\ Cardinality(s \ {First(s)}) = Cardinality(s) - 1
  <2>. SUFFICES ASSUME NEW s \in SUBSET S, s # {}
                PROVE  Cardinality(s \ {First(s)}) = Cardinality(s) - 1
    OBVIOUS
  <2>1. First(s) \in s
    BY DEF First
  <2>. QED  BY <1>1, <2>1, FS_RemoveElement
<1>3. Has(0)
  <2>. DEFINE g == [s \in D(0) |-> 0]
  <2>1. \A s \in D(0) : s = {}
    BY <1>1, FS_EmptySet
  <2>2. g = [s \in D(0) |-> step(g, s)]
    BY <2>1
  <2>. QED  BY <2>2
<1>4. ASSUME NEW k \in Nat, Has(k) PROVE Has(k + 1)
  <2>1. PICK g : g = [s \in D(k) |-> step(g, s)]
    BY <1>4
  <2>. DEFINE h == [s \in D(k + 1) |-> IF s \in D(k) THEN g[s] ELSE step(g, s)]
  <2>2. ASSUME NEW s \in D(k + 1) PROVE h[s] = step(h, s)
    <3>1. CASE s = {}
      <4>1. s \in D(k) => g[s] = step(g, s)
        BY <2>1
      <4>. QED  BY <3>1, <4>1
    <3>2. CASE s # {}
      <4>1. s \ {First(s)} \in D(k) /\ s \ {First(s)} \in D(k + 1)
        BY <1>1, <1>2, <3>2
      <4>2. h[s \ {First(s)}] = g[s \ {First(s)}]
        BY <4>1
      <4>3. s \in D(k) => g[s] = step(g, s)
        BY <2>1
      <4>. QED  BY <3>2, <4>2, <4>3
    <3>. QED  BY <3>1, <3>2
  <2>3. h = [s \in D(k + 1) |-> step(h, s)]
    <3>. HIDE DEF step
    <3>. QED  BY <2>2
  <2>. HIDE DEF h
  <2>. QED  BY <2>3
<1>5. Has(n)
  <2>. DEFINE Less == {ss \in Nat \X Nat : ss[1] < ss[2]}
  <2>. HIDE DEF Has
  <2>1. ASSUME Lacks # {} PROVE FALSE
    <3>1. PICK k \in Lacks : \A y \in Lacks : ~(<<y, k>> \in Less)
      <4>1. IsWellFoundedOn(Less, Nat)
        BY NatLessThanWellFounded DEF OpToRel
      <4>2. Lacks \in SUBSET Nat
        OBVIOUS
      <4>. HIDE DEF Lacks, Less
      <4>. QED  BY <2>1, <4>1, <4>2, WFMin
    <3>2. k \in Nat /\ k # 0 /\ ~Has(k)
      BY <1>3
    <3>3. k - 1 \in Nat /\ (k - 1) + 1 = k /\ <<k - 1, k>> \in Less
      BY <3>2
    <3>4. k - 1 \notin Lacks
      BY <3>1, <3>3
    <3>5. Has(k - 1)
      BY <3>3, <3>4
    <3>. QED  BY <1>4, <3>2, <3>3, <3>5
  <2>2. n \in Nat
    BY FS_CardinalityType
  <2>. QED  BY <2>1, <2>2
<1>6. D(n) = SUBSET S
  BY <1>1
<1>. DEFINE iter == CHOOSE g : g = [s \in SUBSET S |-> step(g, s)]
<1>7. iter = [s \in SUBSET S |-> step(iter, s)]
  <2>. HIDE DEF step
  <2>. QED  BY <1>5, <1>6
<1>8. Total(S, f) = iter[S]
  BY DEF Total, MapThenSumSet, MapThenFoldSet, First
<1>9. \A s \in SUBSET S : iter[s] = step(iter, s)
  <2>. HIDE DEF iter, step
  <2>. QED  BY <1>7
<1>. HIDE DEF iter
<1>. QED  BY <1>8, <1>9 DEF Sums

(* A sum of numbers is a number and no less than any of them.              *)
LEMMA TotalNat ==
  ASSUME NEW S, IsFiniteSet(S), NEW f, \A i \in S : f[i] \in Nat
  PROVE  Total(S, f) \in Nat /\ \A i \in S : f[i] <= Total(S, f)
<1>1. PICK g : Total(S, f) = g[S] /\ Sums(S, f, g)
  BY TotalSteps
<1>2. \A s \in SUBSET S : g[s] = IF s = {} THEN 0 ELSE f[First(s)] + g[s \ {First(s)}]
  BY <1>1 DEF Sums
<1>. DEFINE Good(s) == g[s] \in Nat /\ \A i \in s : f[i] <= g[s]
            Bad == {s \in SUBSET S : ~Good(s)}
<1>3. ASSUME Bad # {} PROVE FALSE
  <2>1. PICK s \in Bad : \A t \in Bad : ~(<<t, s>> \in StrictSubsetOrdering(S))
    <3>1. IsWellFoundedOn(StrictSubsetOrdering(S), SUBSET S)
      BY FS_StrictSubsetOrderingWellFounded, FS_FiniteSubsetsOfFinite
    <3>2. Bad \in SUBSET (SUBSET S)
      OBVIOUS
    <3>. HIDE DEF Bad
    <3>. QED  BY <1>3, <3>1, <3>2, WFMin
  <2>2. s \in SUBSET S /\ ~Good(s)
    OBVIOUS
  <2>3. s # {}
    BY <1>2, <2>2
  <2>4. PICK x \in s : x = First(s)
    BY <2>3 DEF First
  <2>5. PICK t \in SUBSET S : t = s \ {x}
    BY <2>2
  <2>6. <<t, s>> \in StrictSubsetOrdering(S)
    BY <2>2, <2>4, <2>5 DEF StrictSubsetOrdering
  <2>7. Good(t)
    BY <2>1, <2>6
  <2>8. g[s] = f[x] + g[t] /\ f[x] \in Nat
    BY <1>2, <2>2, <2>3, <2>4, <2>5
  <2>9. ASSUME NEW i \in s PROVE f[i] <= g[s] /\ f[i] \in Nat
    <3>1. f[i] \in Nat /\ (i = x \/ i \in t)
      BY <2>2, <2>5
    <3>. QED  BY <2>7, <2>8, <3>1
  <2>. QED  BY <2>2, <2>7, <2>8, <2>9
<1>. QED  BY <1>1, <1>3

-----------------------------------------------------------------------------

(* karmarkar_karp.  A state has k sets of rows D, their sums, and no row   *)
(* without a load;                                                         *)
StateOf(s, D, k) ==
  /\ DOMAIN s = 1 .. k
  /\ \A i \in 1 .. k : /\ s[i].items \subseteq D /\ s[i].sum \in Nat
                       /\ s[i].sum = 0 <=> s[i].items = {}

(* every row is in one set of one state of the heap.                       *)
HeapOf(H, D, k) ==
  /\ H # {} /\ IsFiniteSet(H)
  /\ \A s \in H : StateOf(s, D, k)
  /\ \A s, t \in H : \A i, j \in 1 .. k : \A x \in D :
       x \in s[i].items /\ x \in t[j].items => s = t /\ i = j
  /\ \A x \in D : \E s \in H : \E i \in 1 .. k : x \in s[i].items

(* Equal sizes: the sets of a state have as many rows as each other.       *)
Even(s, k) == \A i, j \in 1 .. k : Cardinality(s[i].items) = Cardinality(s[j].items)

(* Unequal sizes: the empty sets of a state come last, and while there are *)
(* any no set has two rows.                                                *)
Filling(s, k) ==
  /\ \A i, j \in 1 .. k : i < j /\ s[i].items = {} => s[j].items = {}
  /\ (\E i \in 1 .. k : s[i].items = {}) =>
       \A i \in 1 .. k : \A x, y \in s[i].items : x = y

(* Two states merged, before they are sorted.                              *)
Joined(s, t, k) == [i \in 1 .. k |-> Union(s[i], t[k + 1 - i])]

LEMMA SortedIs ==
  ASSUME NEW k \in Nat, NEW sets, DOMAIN sets = 1 .. k, NEW m \in Sorted(sets)
  PROVE  /\ DOMAIN m = 1 .. k
         /\ \E f \in Bijection(1 .. k, 1 .. k) : \A i \in 1 .. k : m[i] = sets[f[i]]
         /\ \A i, j \in 1 .. k : i < j => ~Below(m[i], m[j])
BY DEF Sorted, Decreasing

LEMMA MergeState ==
  ASSUME NEW D, IsFiniteSet(D), NEW k \in Nat,
         NEW s, NEW t, StateOf(s, D, k), StateOf(t, D, k),
         NEW m \in Merged(s, t, k)
  PROVE  /\ StateOf(m, D, k)
         /\ \E f \in Bijection(1 .. k, 1 .. k) : \A i \in 1 .. k :
              m[i].items = s[f[i]].items \cup t[k + 1 - f[i]].items
         /\ \A i, j \in 1 .. k : i < j => ~Below(m[i], m[j])
<1>. DEFINE u == Joined(s, t, k)
<1>1. m \in Sorted(u) /\ DOMAIN u = 1 .. k
  BY DEF Merged, Joined
<1>2. \A i \in 1 .. k : /\ u[i].items = s[i].items \cup t[k + 1 - i].items
                        /\ u[i].sum = s[i].sum + t[k + 1 - i].sum
  BY DEF Joined, Union
<1>3. \A i \in 1 .. k : /\ u[i].items \subseteq D /\ u[i].sum \in Nat
                        /\ u[i].sum = 0 <=> u[i].items = {}
  <2>. SUFFICES ASSUME NEW i \in 1 .. k
                PROVE  /\ u[i].items \subseteq D /\ u[i].sum \in Nat
                       /\ u[i].sum = 0 <=> u[i].items = {}
    OBVIOUS
  <2>1. k + 1 - i \in 1 .. k
    OBVIOUS
  <2>2. /\ s[i].items \subseteq D /\ s[i].sum \in Nat /\ (s[i].sum = 0 <=> s[i].items = {})
        /\ t[k + 1 - i].items \subseteq D /\ t[k + 1 - i].sum \in Nat
        /\ (t[k + 1 - i].sum = 0 <=> t[k + 1 - i].items = {})
    BY <2>1 DEF StateOf
  <2>. HIDE DEF u
  <2>3. PICK a, b, p, q : /\ a = s[i].items /\ b = t[k + 1 - i].items
                          /\ p = s[i].sum /\ q = t[k + 1 - i].sum
    OBVIOUS
  <2>4. u[i].items = a \cup b /\ u[i].sum = p + q
    BY <1>2, <2>3
  <2>5. a \subseteq D /\ b \subseteq D /\ p \in Nat /\ q \in Nat
    BY <2>2, <2>3
  <2>6. (p = 0 <=> a = {}) /\ (q = 0 <=> b = {})
    BY <2>2, <2>3
  <2>7. p + q = 0 <=> p = 0 /\ q = 0
    BY <2>5
  <2>8. a \cup b = {} <=> a = {} /\ b = {}
    OBVIOUS
  <2>. QED  BY <2>4, <2>5, <2>6, <2>7, <2>8
<1>. HIDE DEF u
<1>4. /\ DOMAIN m = 1 .. k
      /\ \E f \in Bijection(1 .. k, 1 .. k) : \A i \in 1 .. k : m[i] = u[f[i]]
      /\ \A i, j \in 1 .. k : i < j => ~Below(m[i], m[j])
  BY <1>1, SortedIs
<1>5. PICK f \in Bijection(1 .. k, 1 .. k) : \A i \in 1 .. k : m[i] = u[f[i]]
  BY <1>4
<1>6. \A i \in 1 .. k : f[i] \in 1 .. k
  BY DEF Bijection, Injection
<1>7. StateOf(m, D, k)
  <2>1. ASSUME NEW i \in 1 .. k
        PROVE  /\ m[i].items \subseteq D /\ m[i].sum \in Nat
               /\ m[i].sum = 0 <=> m[i].items = {}
    <3>1. PICK j \in 1 .. k : j = f[i]
      BY <1>6
    <3>2. m[i] = u[j]
      BY <1>5, <3>1
    <3>. QED  BY <1>3, <3>2
  <2>. QED  BY <1>4, <2>1 DEF StateOf
<1>8. \A i \in 1 .. k : m[i].items = s[f[i]].items \cup t[k + 1 - f[i]].items
  BY <1>2, <1>5, <1>6
<1>. QED  BY <1>4, <1>7, <1>8

(* Merging keeps sets of equal size equal,                                 *)
LEMMA MergeEven ==
  ASSUME NEW D, IsFiniteSet(D), NEW k \in Nat,
         NEW s, NEW t, StateOf(s, D, k), StateOf(t, D, k), Even(s, k), Even(t, k),
         \A i, j \in 1 .. k : s[i].items \cap t[j].items = {},
         NEW m \in Merged(s, t, k)
  PROVE  Even(m, k)
<1>1. PICK f \in Bijection(1 .. k, 1 .. k) : \A i \in 1 .. k :
              m[i].items = s[f[i]].items \cup t[k + 1 - f[i]].items
  BY MergeState
<1>2. ASSUME NEW i \in 1 .. k
      PROVE  /\ f[i] \in 1 .. k /\ k + 1 - f[i] \in 1 .. k
             /\ Cardinality(m[i].items)
                  = Cardinality(s[f[i]].items) + Cardinality(t[k + 1 - f[i]].items)
  <2>1. f[i] \in 1 .. k
    BY DEF Bijection, Injection
  <2>2. k + 1 - f[i] \in 1 .. k
    BY <2>1
  <2>3. PICK a, b : a = s[f[i]].items /\ b = t[k + 1 - f[i]].items
    OBVIOUS
  <2>4. a \in SUBSET D /\ b \in SUBSET D /\ a \cap b = {}
    BY <2>1, <2>2, <2>3 DEF StateOf
  <2>5. IsFiniteSet(a) /\ IsFiniteSet(b)
    BY <2>4, FS_Subset
  <2>6. Cardinality(a \cup b) = Cardinality(a) + Cardinality(b) - Cardinality({})
    BY <2>4, <2>5, FS_Union
  <2>7. Cardinality(a) \in Nat /\ Cardinality(b) \in Nat /\ Cardinality({}) = 0
    BY <2>5, FS_CardinalityType, FS_EmptySet
  <2>8. Cardinality(a \cup b) = Cardinality(a) + Cardinality(b)
    BY <2>6, <2>7
  <2>. QED  BY <1>1, <2>1, <2>2, <2>3, <2>8
<1>3. ASSUME NEW i \in 1 .. k, NEW j \in 1 .. k
      PROVE  Cardinality(m[i].items) = Cardinality(m[j].items)
  <2>1. PICK p \in 1 .. k, q \in 1 .. k : p = f[i] /\ q = f[j]
    BY <1>2
  <2>2. Cardinality(s[p].items) = Cardinality(s[q].items)
    BY DEF Even
  <2>3. k + 1 - p \in 1 .. k /\ k + 1 - q \in 1 .. k
    OBVIOUS
  <2>4. Cardinality(t[k + 1 - p].items) = Cardinality(t[k + 1 - q].items)
    BY <2>3 DEF Even
  <2>. QED  BY <1>2, <2>1, <2>2, <2>4
<1>. QED  BY <1>3 DEF Even

(* and fills the empty sets first.                                         *)
LEMMA MergeFilling ==
  ASSUME NEW D, IsFiniteSet(D), NEW k \in Nat,
         NEW s, NEW t, StateOf(s, D, k), StateOf(t, D, k), Filling(s, k), Filling(t, k),
         NEW m \in Merged(s, t, k)
  PROVE  Filling(m, k)
<1>1. PICK f \in Bijection(1 .. k, 1 .. k) : \A i \in 1 .. k :
              m[i].items = s[f[i]].items \cup t[k + 1 - f[i]].items
  BY MergeState
<1>2. \A i \in 1 .. k : f[i] \in 1 .. k
  BY DEF Bijection, Injection
<1>3. StateOf(m, D, k) /\ \A i, j \in 1 .. k : i < j => ~Below(m[i], m[j])
  BY MergeState
<1>4. ASSUME NEW i \in 1 .. k, NEW j \in 1 .. k, i < j, m[i].items = {}
      PROVE  m[j].items = {}
  <2>1. m[i].sum = 0 /\ m[j].sum \in Nat /\ ~(m[i].sum < m[j].sum)
    BY <1>3, <1>4 DEF StateOf, Below
  <2>2. m[j].sum = 0
    BY <2>1
  <2>. QED  BY <1>3, <2>2 DEF StateOf
<1>5. ASSUME NEW e \in 1 .. k, m[e].items = {}, NEW i \in 1 .. k,
             NEW x \in m[i].items, NEW y \in m[i].items
      PROVE  x = y
  <2>1. PICK p \in 1 .. k : p = f[e]
    BY <1>2
  <2>2. PICK q \in 1 .. k : q = f[i]
    BY <1>2
  <2>3. k + 1 - p \in 1 .. k /\ k + 1 - q \in 1 .. k
    OBVIOUS
  <2>4. s[p].items = {} /\ t[k + 1 - p].items = {}
    BY <1>1, <1>5, <2>1
  <2>5. m[i].items = s[q].items \cup t[k + 1 - q].items
    BY <1>1, <2>2
  <2>6. CASE q <= p
    <3>1. t[k + 1 - q].items = {}
      <4>1. CASE q = p
        BY <2>4, <4>1
      <4>2. CASE q < p
        <5>1. k + 1 - p < k + 1 - q
          BY <4>2
        <5>. QED  BY <2>3, <2>4, <5>1 DEF Filling
      <4>. QED  BY <2>6, <4>1, <4>2
    <3>. QED  BY <2>4, <2>5, <3>1 DEF Filling
  <2>7. CASE p < q
    <3>1. s[q].items = {}
      BY <2>4, <2>7 DEF Filling
    <3>. QED  BY <2>3, <2>4, <2>5, <3>1 DEF Filling
  <2>. QED  BY <2>6, <2>7
<1>. QED  BY <1>4, <1>5 DEF Filling

(* One round of the loop.                                                  *)
LEMMA MergesHeap ==
  ASSUME NEW D, IsFiniteSet(D), NEW k \in Nat, NEW H, HeapOf(H, D, k), NEW h \in Merges(H, k)
  PROVE  /\ HeapOf(h, D, k)
         /\ (\A s \in H : Even(s, k)) => \A s \in h : Even(s, k)
         /\ (\A s \in H : Filling(s, k)) => \A s \in h : Filling(s, k)
<1>0. \E s \in H : \E t \in H \ {s} : \E m \in Merged(s, t, k) : h = (H \ {s, t}) \cup {m}
  BY DEF Merges, Popped
<1>. PICK s \in H : \E t \in H \ {s} : \E m \in Merged(s, t, k) : h = (H \ {s, t}) \cup {m}
  BY <1>0
<1>. PICK t \in H \ {s} : \E m \in Merged(s, t, k) : h = (H \ {s, t}) \cup {m}
  OBVIOUS
<1>1. PICK m \in Merged(s, t, k) : h = (H \ {s, t}) \cup {m}
  OBVIOUS
<1>2. StateOf(s, D, k) /\ StateOf(t, D, k)
  BY DEF HeapOf
<1>3. /\ StateOf(m, D, k)
      /\ \E f \in Bijection(1 .. k, 1 .. k) : \A i \in 1 .. k :
              m[i].items = s[f[i]].items \cup t[k + 1 - f[i]].items
  BY <1>2, MergeState
<1>4. PICK f \in Bijection(1 .. k, 1 .. k) : \A i \in 1 .. k :
              m[i].items = s[f[i]].items \cup t[k + 1 - f[i]].items
  BY <1>3
<1>5. \A i \in 1 .. k : f[i] \in 1 .. k /\ k + 1 - f[i] \in 1 .. k
  BY DEF Bijection, Injection
<1>6. \A i, j \in 1 .. k : f[i] = f[j] => i = j
  BY DEF Bijection, Injection, IsInjective
<1>7. \A j \in 1 .. k : \E i \in 1 .. k : f[i] = j
  BY DEF Bijection, Surjection
<1>8. \A p, q \in H : \A i, j \in 1 .. k : \A x \in D :
       x \in p[i].items /\ x \in q[j].items => p = q /\ i = j
  BY DEF HeapOf
<1>9. HeapOf(h, D, k)
  <2>1. h # {} /\ IsFiniteSet(h)
    BY <1>1, FS_Subset, FS_AddElement DEF HeapOf
  <2>2. \A p \in h : StateOf(p, D, k)
    BY <1>1, <1>3 DEF HeapOf
  <2>3. ASSUME NEW p \in h, NEW q \in h, NEW i \in 1 .. k, NEW j \in 1 .. k, NEW x \in D,
               x \in p[i].items, x \in q[j].items
        PROVE  p = q /\ i = j
    <3>1. CASE p # m /\ q # m
      BY <1>1, <1>8, <2>3, <3>1
    <3>2. ASSUME NEW a \in 1 .. k, x \in m[a].items, NEW r \in H \ {s, t}, NEW b \in 1 .. k,
                 x \in r[b].items
          PROVE  FALSE
      <4>1. PICK c \in 1 .. k, d \in 1 .. k : c = f[a] /\ d = k + 1 - f[a]
        BY <1>5
      <4>2. x \in s[c].items \/ x \in t[d].items
        BY <1>4, <3>2, <4>1
      <4>. QED  BY <1>8, <3>2, <4>2
    <3>3. CASE p = m /\ q = m
      <4>1. \/ x \in s[f[i]].items /\ x \in s[f[j]].items
            \/ x \in s[f[i]].items /\ x \in t[k + 1 - f[j]].items
            \/ x \in t[k + 1 - f[i]].items /\ x \in s[f[j]].items
            \/ x \in t[k + 1 - f[i]].items /\ x \in t[k + 1 - f[j]].items
        BY <1>4, <2>3, <3>3
      <4>2. PICK a \in 1 .. k, b \in 1 .. k, c \in 1 .. k, d \in 1 .. k :
              a = f[i] /\ b = f[j] /\ c = k + 1 - a /\ d = k + 1 - b
        <5>1. \A a \in 1 .. k : k + 1 - a \in 1 .. k
          OBVIOUS
        <5>. QED  BY <1>5, <5>1
      <4>3. a = b
        <5>1. \/ x \in s[a].items /\ x \in s[b].items
              \/ x \in s[a].items /\ x \in t[d].items
              \/ x \in t[c].items /\ x \in s[b].items
              \/ x \in t[c].items /\ x \in t[d].items
          BY <4>1, <4>2
        <5>2. ASSUME x \in s[a].items, x \in s[b].items PROVE a = b
          BY <1>8, <5>2
        <5>3. ASSUME x \in t[c].items, x \in t[d].items PROVE c = d
          BY <1>8, <5>3
        <5>4. s # t
          OBVIOUS
        <5>5. ~(x \in s[a].items /\ x \in t[d].items)
          BY <1>8, <5>4
        <5>6. ~(x \in t[c].items /\ x \in s[b].items)
          BY <1>8, <5>4
        <5>. QED  BY <4>2, <5>1, <5>2, <5>3, <5>5, <5>6
      <4>. QED  BY <1>6, <3>3, <4>2, <4>3
    <3>. QED  BY <1>1, <2>3, <3>1, <3>2, <3>3
  <2>4. ASSUME NEW x \in D PROVE \E p \in h : \E i \in 1 .. k : x \in p[i].items
    <3>1. PICK p \in H, i \in 1 .. k : x \in p[i].items
      BY DEF HeapOf
    <3>2. CASE p \notin {s, t}
      BY <1>1, <3>1, <3>2
    <3>3. CASE p = s
      <4>1. PICK a \in 1 .. k : f[a] = i
        BY <1>7
      <4>. QED  BY <1>1, <1>4, <3>1, <3>3, <4>1
    <3>4. CASE p = t
      <4>1. k + 1 - i \in 1 .. k /\ k + 1 - (k + 1 - i) = i
        OBVIOUS
      <4>2. PICK a \in 1 .. k : f[a] = k + 1 - i
        BY <1>7, <4>1
      <4>3. x \in t[k + 1 - f[a]].items
        BY <3>1, <3>4, <4>1, <4>2
      <4>. QED  BY <1>1, <1>4, <4>3
    <3>. QED  BY <3>2, <3>3, <3>4
  <2>. QED  BY <2>1, <2>2, <2>3, <2>4 DEF HeapOf
<1>10. ASSUME \A p \in H : Even(p, k) PROVE \A p \in h : Even(p, k)
  <2>1. \A i, j \in 1 .. k : s[i].items \cap t[j].items = {}
    BY <1>2, <1>8 DEF StateOf
  <2>2. Even(m, k)
    BY <1>2, <1>10, <2>1, MergeEven
  <2>. QED  BY <1>1, <1>10, <2>2
<1>11. ASSUME \A p \in H : Filling(p, k) PROVE \A p \in h : Filling(p, k)
  <2>1. Filling(m, k)
    BY <1>2, <1>11, MergeFilling
  <2>. QED  BY <1>1, <1>11, <2>1
<1>. QED  BY <1>9, <1>10, <1>11

(* Where the rows of a group are when rows are counted: group g of k has   *)
(* the places (g - 1) * k + 1 .. g * k, from the last to the first.        *)
At(g, i, k) == g * k - i + 1
GroupsOf(n, q, k) == q \in Nat /\ k \in Nat \ {0} /\ n = q * k

LEMMA GroupOf ==
  ASSUME NEW n, NEW q, NEW k, GroupsOf(n, q, k), NEW p \in 1 .. n
  PROVE  \E g \in 1 .. q : \E i \in 1 .. k : p = At(g, i, k)
<1>. USE DEF GroupsOf
<1>. DEFINE c == (p - 1) \div k
<1>1. c \in Nat /\ k * c <= p - 1 /\ p - 1 < k * c + k
  OBVIOUS
<1>. HIDE DEF c
<1>2. c < q
  <2>1. k * c < q * k
    BY <1>1
  <2>2. c >= q => k * c >= q * k
    BY <1>1
  <2>. QED  BY <1>1, <2>1, <2>2
<1>3. PICK g \in 1 .. q : g = c + 1
  BY <1>1, <1>2
<1>4. g * k = k * c + k
  BY <1>1, <1>3
<1>5. PICK i : i = g * k - p + 1
  OBVIOUS
<1>6. i \in 1 .. k /\ p = g * k - i + 1
  BY <1>1, <1>4, <1>5
<1>. QED  BY <1>6 DEF At

LEMMA InGroup ==
  ASSUME NEW k \in Nat \ {0}, NEW q \in Nat, NEW g \in 1 .. q, NEW i \in 1 .. k
  PROVE  /\ g * k - i + 1 \in 1 .. q * k
         /\ \A h \in 1 .. q : \A j \in 1 .. k : g * k - i + 1 = h * k - j + 1 => g = h /\ i = j
<1>1. k <= g * k /\ g * k <= q * k /\ g * k \in Nat /\ q * k \in Nat
  OBVIOUS
<1>2. ASSUME NEW h \in 1 .. q, NEW j \in 1 .. k, g * k - i + 1 = h * k - j + 1
      PROVE  g = h /\ i = j
  <2>1. g < h => g * k + k <= h * k
    OBVIOUS
  <2>2. h < g => h * k + k <= g * k
    OBVIOUS
  <2>3. h * k \in Nat
    OBVIOUS
  <2>4. g = h
    BY <1>1, <1>2, <2>1, <2>2, <2>3
  <2>. QED  BY <1>1, <1>2, <2>4
<1>. QED  BY <1>1, <1>2

(* The states the loop starts from.                                        *)
LEMMA SinglesHeap ==
  ASSUME NEW D, IsFiniteSet(D), D # {}, NEW k \in Nat \ {0},
         NEW load, DOMAIN load = D, \A i \in D : load[i] \in Nat \ {0}
  PROVE  HeapOf(Singles(load, k), D, k) /\ \A s \in Singles(load, k) : Filling(s, k)
<1>. DEFINE F == [r \in D |-> [i \in 1 .. k |-> IF i = 1 THEN Item(r, load[r]) ELSE NoItems]]
            H == Singles(load, k)
<1>1. H = {F[r] : r \in D}
  BY DEF Singles
<1>2. ASSUME NEW r \in D
      PROVE  /\ F[r] \in H /\ DOMAIN F[r] = 1 .. k
             /\ F[r][1].items = {r} /\ F[r][1].sum = load[r]
             /\ \A i \in 1 .. k : i # 1 => F[r][i].items = {} /\ F[r][i].sum = 0
  <2>1. /\ DOMAIN F[r] = 1 .. k /\ F[r][1] = Item(r, load[r])
        /\ \A i \in 1 .. k : i # 1 => F[r][i] = NoItems
    OBVIOUS
  <2>2. F[r] \in H
    BY <1>1
  <2>. HIDE DEF F, H
  <2>. QED  BY <2>1, <2>2 DEF Item, NoItems
<1>3. F \in Surjection(D, H)
  <2>1. F \in [D -> H]
    BY <1>1
  <2>. QED  BY <1>1, <2>1 DEF Surjection
<1>. HIDE DEF F, H
<1>4. IsFiniteSet(H)
  BY <1>3, FS_Surjection
<1>5. \A s \in H : \E r \in D : s = F[r]
  BY <1>1
<1>6. ASSUME NEW s \in H PROVE StateOf(s, D, k) /\ Filling(s, k)
  <2>1. PICK r \in D : s = F[r]
    BY <1>5
  <2>2. /\ DOMAIN s = 1 .. k /\ s[1].items = {r} /\ s[1].sum = load[r]
        /\ \A i \in 1 .. k : i # 1 => s[i].items = {} /\ s[i].sum = 0
    BY <1>2, <2>1
  <2>3. StateOf(s, D, k)
    <3>1. ASSUME NEW i \in 1 .. k
          PROVE  /\ s[i].items \subseteq D /\ s[i].sum \in Nat
                 /\ s[i].sum = 0 <=> s[i].items = {}
      <4>1. CASE i = 1
        <5>1. s[i].items = {r} /\ s[i].sum = load[r]
          BY <2>2, <4>1
        <5>. QED  BY <5>1
      <4>2. CASE i # 1
        <5>1. s[i].items = {} /\ s[i].sum = 0
          BY <2>2, <4>2
        <5>. QED  BY <5>1
      <4>. QED  BY <4>1, <4>2
    <3>. QED  BY <2>2, <3>1 DEF StateOf
  <2>4. Filling(s, k)
    <3>1. \A i \in 1 .. k : \A x, y \in s[i].items : x = y
      BY <2>2
    <3>2. \A i, j \in 1 .. k : i < j => s[j].items = {}
      BY <2>2
    <3>. QED  BY <3>1, <3>2 DEF Filling
  <2>. QED  BY <2>3, <2>4
<1>7. ASSUME NEW s \in H, NEW t \in H, NEW i \in 1 .. k, NEW j \in 1 .. k, NEW x \in D,
             x \in s[i].items, x \in t[j].items
      PROVE  s = t /\ i = j
  <2>1. PICK r \in D, q \in D : s = F[r] /\ t = F[q]
    BY <1>5
  <2>2. i = 1
    BY <1>2, <1>7, <2>1
  <2>3. j = 1
    BY <1>2, <1>7, <2>1
  <2>4. x = r /\ x = q
    BY <1>2, <1>7, <2>1, <2>2, <2>3
  <2>. QED  BY <2>1, <2>2, <2>3, <2>4
<1>8. ASSUME NEW x \in D PROVE \E s \in H : \E i \in 1 .. k : x \in s[i].items
  <2>1. F[x][1].items = {x} /\ 1 \in 1 .. k
    BY <1>2
  <2>. QED  BY <1>2, <2>1
<1>9. H # {}
  BY <1>2
<1>10. HeapOf(H, D, k)
  BY <1>4, <1>6, <1>7, <1>8, <1>9 DEF HeapOf
<1>. QED  BY <1>6, <1>10 DEF H

LEMMA GroupsHeap ==
  ASSUME NEW n \in Nat \ {0}, NEW k \in Nat \ {0}, n % k = 0,
         NEW load, DOMAIN load = 1 .. n, \A i \in 1 .. n : load[i] \in Nat \ {0}
  PROVE  HeapOf(Groups(load, k), 1 .. n, k) /\ \A s \in Groups(load, k) : Even(s, k)
<1>. DEFINE D == DOMAIN load
            q == Cardinality(D) \div k
            b == InOrder(D, ByLoad(D, load))
            F == [g \in 1 .. q |-> [i \in 1 .. k |-> Item(b[g * k - i + 1], load[b[g * k - i + 1]])]]
            H == Groups(load, k)
<1>1. IsFiniteSet(D) /\ Cardinality(D) = n
  BY FS_Interval
<1>2. q \in Nat /\ n = q * k
  <2>1. q = n \div k
    BY <1>1
  <2>. HIDE DEF q
  <2>. QED  BY <2>1
<1>3. b \in Bijection(D, D)
  <2>1. StrictTotal(D, ByLoad(D, load))
    BY ByLoadTotal
  <2>2. b \in Bijection(1 .. Cardinality(D), D)
    <3>. HIDE DEF D
    <3>. QED  BY <1>1, <2>1, InOrderSorted
  <2>. QED  BY <1>1, <2>2
<1>4. H = {F[g] : g \in 1 .. q}
  BY DEF Groups
<1>5. ASSUME NEW g \in 1 .. q
      PROVE  /\ F[g] \in H /\ DOMAIN F[g] = 1 .. k
             /\ \A i \in 1 .. k : /\ F[g][i].items = {b[g * k - i + 1]}
                                  /\ F[g][i].sum = load[b[g * k - i + 1]]
  BY <1>4 DEF Item
<1>6. F \in Surjection(1 .. q, H)
  <2>1. F \in [1 .. q -> H]
    BY <1>4
  <2>. QED  BY <1>4, <2>1 DEF Surjection
<1>7. \A s \in H : \E g \in 1 .. q : s = F[g]
  BY <1>4
<1>. HIDE DEF F, H, b, q
<1>8. IsFiniteSet(H)
  <2>1. IsFiniteSet(1 .. q)
    BY <1>2, FS_Interval
  <2>. QED  BY <1>6, <2>1, FS_Surjection
<1>9. \A p \in D : b[p] \in D
  BY <1>3 DEF Bijection, Injection
<1>10. \A g \in 1 .. q : \A i \in 1 .. k : g * k - i + 1 \in D
  BY <1>2, InGroup
<1>11. ASSUME NEW s \in H PROVE StateOf(s, D, k) /\ Even(s, k)
  <2>1. PICK g \in 1 .. q : s = F[g]
    BY <1>7
  <2>2. ASSUME NEW i \in 1 .. k
        PROVE  \E r \in D : s[i].items = {r} /\ s[i].sum = load[r]
    <3>1. PICK p \in D : p = g * k - i + 1
      BY <1>10
    <3>2. PICK r \in D : r = b[p]
      BY <1>9
    <3>3. F[g][i].items = {r} /\ F[g][i].sum = load[r]
      BY <1>5, <3>1, <3>2
    <3>. QED  BY <2>1, <3>3
  <2>3. ASSUME NEW i \in 1 .. k
        PROVE  /\ s[i].items \subseteq D /\ s[i].sum \in Nat
               /\ s[i].sum = 0 <=> s[i].items = {}
               /\ Cardinality(s[i].items) = 1
    <3>1. PICK r \in D : s[i].items = {r} /\ s[i].sum = load[r]
      BY <2>2
    <3>2. Cardinality({r}) = 1
      BY FS_Singleton
    <3>. QED  BY <3>1, <3>2
  <2>4. DOMAIN s = 1 .. k
    BY <1>5, <2>1
  <2>. QED  BY <2>3, <2>4 DEF StateOf, Even
<1>12. ASSUME NEW s \in H, NEW t \in H, NEW i \in 1 .. k, NEW j \in 1 .. k, NEW x \in D,
             x \in s[i].items, x \in t[j].items
      PROVE  s = t /\ i = j
  <2>1. PICK g \in 1 .. q, h \in 1 .. q : s = F[g] /\ t = F[h]
    BY <1>7
  <2>2. PICK p \in D, r \in D : p = g * k - i + 1 /\ r = h * k - j + 1
    BY <1>10
  <2>3. s[i].items = {b[p]} /\ t[j].items = {b[r]}
    BY <1>5, <2>1, <2>2
  <2>31. x = b[p] /\ x = b[r]
    BY <1>12, <2>3
  <2>4. p = r
    BY <1>3, <2>31 DEF Bijection, Injection, IsInjective
  <2>5. g = h /\ i = j
    BY <1>2, <2>2, <2>4, InGroup
  <2>. QED  BY <2>1, <2>5
<1>13. ASSUME NEW x \in D PROVE \E s \in H : \E i \in 1 .. k : x \in s[i].items
  <2>1. PICK p \in D : b[p] = x
    BY <1>3 DEF Bijection, Surjection
  <2>11. p \in 1 .. n /\ GroupsOf(n, q, k)
    BY <1>2 DEF GroupsOf
  <2>12. \E g \in 1 .. q : \E i \in 1 .. k : p = At(g, i, k)
    BY <2>11, GroupOf
  <2>2. PICK g \in 1 .. q, i \in 1 .. k : p = At(g, i, k)
    BY <2>12
  <2>3. p = g * k - i + 1
    BY <2>2 DEF At
  <2>4. F[g] \in H /\ F[g][i].items = {x}
    BY <1>5, <2>1, <2>3
  <2>. QED  BY <2>4
<1>14. H # {}
  <2>1. 1 \in D
    OBVIOUS
  <2>. QED  BY <1>13, <2>1
<1>15. HeapOf(H, D, k)
  BY <1>8, <1>11, <1>12, <1>13, <1>14 DEF HeapOf
<1>. QED  BY <1>11, <1>15 DEF H

-----------------------------------------------------------------------------

(* When one state is left, its sets are a partition of the rows,           *)
Partition(P, D, k) ==
  /\ P \in [1 .. k -> SUBSET D]
  /\ \A i, j \in 1 .. k : \A x \in D : x \in P[i] /\ x \in P[j] => i = j
  /\ \A x \in D : \E i \in 1 .. k : x \in P[i]

OnlyState(s, H, k) == H = {s} /\ Parts(H, k) = [i \in 1 .. k |-> s[i].items]

LEMMA LastState ==
  ASSUME NEW D, NEW k \in Nat, NEW H, HeapOf(H, D, k), Cardinality(H) = 1
  PROVE  \E s \in H : OnlyState(s, H, k)
<1>. DEFINE t == CHOOSE s \in H : TRUE
<1>1. PICK s : H = {s}
  BY FS_Singleton DEF HeapOf
<1>2. Parts(H, k) = [i \in 1 .. k |-> t[i].items]
  BY DEF Parts
<1>3. t = s
  BY <1>1
<1>. HIDE DEF t
<1>. QED  BY <1>1, <1>2, <1>3 DEF OnlyState

LEMMA LastPartition ==
  ASSUME NEW D, NEW k \in Nat, NEW H, HeapOf(H, D, k), Cardinality(H) = 1
  PROVE  Partition(Parts(H, k), D, k)
<1>0. PICK s \in H : OnlyState(s, H, k)
  BY LastState
<1>1. H = {s} /\ Parts(H, k) = [i \in 1 .. k |-> s[i].items]
  BY <1>0 DEF OnlyState
<1>2. PICK P : P = Parts(H, k)
  OBVIOUS
<1>3. DOMAIN P = 1 .. k /\ P = [i \in 1 .. k |-> P[i]] /\ \A i \in 1 .. k : P[i] = s[i].items
  BY <1>1, <1>2
<1>4. \A i \in 1 .. k : P[i] \in SUBSET D
  BY <1>3 DEF HeapOf, StateOf
<1>5. P \in [1 .. k -> SUBSET D]
  BY <1>3, <1>4
<1>6. \A i, j \in 1 .. k : \A x \in D : x \in P[i] /\ x \in P[j] => i = j
  BY <1>3 DEF HeapOf
<1>7. \A x \in D : \E i \in 1 .. k : x \in P[i]
  BY <1>1, <1>3 DEF HeapOf
<1>. QED  BY <1>2, <1>5, <1>6, <1>7 DEF Partition

(* of equal parts,                                                         *)
LEMMA LastEven ==
  ASSUME NEW D, NEW k \in Nat, NEW H, HeapOf(H, D, k), Cardinality(H) = 1,
         \A s \in H : Even(s, k)
  PROVE  \A i, j \in 1 .. k : Cardinality(Parts(H, k)[i]) = Cardinality(Parts(H, k)[j])
<1>0. PICK s \in H : OnlyState(s, H, k)
  BY LastState
<1>1. H = {s} /\ Parts(H, k) = [i \in 1 .. k |-> s[i].items]
  BY <1>0 DEF OnlyState
<1>. QED  BY <1>1 DEF Even

(* or with no part empty, when there are as many rows as parts.            *)
LEMMA LastFilled ==
  ASSUME NEW D, IsFiniteSet(D), NEW k \in Nat, NEW H, HeapOf(H, D, k), Cardinality(H) = 1,
         \A s \in H : Filling(s, k), k <= Cardinality(D)
  PROVE  \A i \in 1 .. k : Parts(H, k)[i] # {}
<1>0. PICK s \in H : OnlyState(s, H, k)
  BY LastState
<1>1. H = {s} /\ Parts(H, k) = [i \in 1 .. k |-> s[i].items]
  BY <1>0 DEF OnlyState
<1>2. PICK P : P = Parts(H, k)
  OBVIOUS
<1>3. Partition(P, D, k) /\ \A i \in 1 .. k : P[i] = s[i].items
  BY <1>1, <1>2, LastPartition
<1>4. SUFFICES ASSUME NEW e \in 1 .. k, P[e] = {} PROVE FALSE
  BY <1>2
<1>5. \A i \in 1 .. k : \A x, y \in P[i] : x = y
  BY <1>3, <1>4 DEF Filling
<1>. DEFINE f == [x \in D |-> CHOOSE i \in 1 .. k : x \in P[i]]
            rest == (1 .. k) \ {e}
<1>6. \A x \in D : f[x] \in 1 .. k /\ x \in P[f[x]]
  BY <1>3 DEF Partition
<1>. HIDE DEF f
<1>7. \A x \in D : f[x] \in rest
  BY <1>4, <1>6
<1>8. \A x, y \in D : f[x] = f[y] => x = y
  BY <1>5, <1>6
<1>9. f \in Injection(D, rest)
  <2>1. f \in [D -> rest]
    BY <1>7 DEF f
  <2>. QED  BY <1>8, <2>1 DEF Injection, IsInjective
<1>10. IsFiniteSet(1 .. k) /\ Cardinality(1 .. k) = k
  BY FS_Interval
<1>11. IsFiniteSet(rest) /\ Cardinality(rest) = k - 1
  BY <1>10, FS_RemoveElement
<1>12. Cardinality(D) <= Cardinality(rest)
  <2>. HIDE DEF rest
  <2>. QED  BY <1>9, <1>11, FS_Injection
<1>13. Cardinality(D) \in Nat
  BY FS_CardinalityType
<1>. QED  BY <1>11, <1>12, <1>13

(* Parts that are not empty differ from each other.                        *)
LEMMA PartsApart ==
  ASSUME NEW D, NEW k \in Nat, NEW P, Partition(P, D, k), \A i \in 1 .. k : P[i] # {}
  PROVE  IsFiniteSet(Range(P)) /\ Cardinality(Range(P)) = k
<1>1. P \in [1 .. k -> Range(P)] /\ \A y \in Range(P) : \E i \in 1 .. k : P[i] = y
  BY DEF Partition, Range
<1>2. \A i, j \in 1 .. k : P[i] = P[j] => i = j
  <2>. SUFFICES ASSUME NEW i \in 1 .. k, NEW j \in 1 .. k, P[i] = P[j] PROVE i = j
    OBVIOUS
  <2>1. PICK x \in P[i] : x \in D
    BY DEF Partition
  <2>. QED  BY <2>1 DEF Partition
<1>3. P \in Surjection(1 .. k, Range(P)) /\ P \in Injection(1 .. k, Range(P))
  BY <1>1, <1>2 DEF Surjection, Injection, IsInjective
<1>4. IsFiniteSet(1 .. k) /\ Cardinality(1 .. k) = k
  BY FS_Interval
<1>. QED  BY <1>3, <1>4, FS_Surjection

-----------------------------------------------------------------------------

(* FlattenSeq goes through a sequence one element at a time.               *)
Joins(ss, k, f) == f[1] = ss[1] /\ \A i \in 2 .. k : f[i] = f[i - 1] \o ss[i]

LEMMA FlattenSteps ==
  ASSUME NEW k \in Nat \ {0}, NEW ss, Len(ss) = k
  PROVE  \E f : FlattenSeq(ss) = f[k] /\ Joins(ss, k, f)
<1>. DEFINE step(f, i) == IF i = 1 THEN ss[i] ELSE f[i - 1] \o ss[i]
            Has(m) == \E f : f = [i \in 1 .. m |-> step(f, i)]
            Lacks == {m \in Nat : ~Has(m)}
            Less == {p \in Nat \X Nat : p[1] < p[2]}
<1>1. Has(0)
  <2>. DEFINE f == [i \in 1 .. 0 |-> 0]
  <2>1. f = [i \in 1 .. 0 |-> step(f, i)]
    OBVIOUS
  <2>. HIDE DEF f
  <2>. QED  BY <2>1
<1>2. ASSUME NEW m \in Nat, Has(m) PROVE Has(m + 1)
  <2>1. PICK f : f = [i \in 1 .. m |-> step(f, i)]
    BY <1>2
  <2>. DEFINE h == [i \in 1 .. m + 1 |-> IF i \in 1 .. m THEN f[i] ELSE step(f, i)]
  <2>2. ASSUME NEW i \in 1 .. m + 1 PROVE h[i] = step(h, i)
    <3>1. i \in 1 .. m => f[i] = step(f, i)
      <4>. HIDE DEF step
      <4>. QED  BY <2>1
    <3>2. i # 1 => i - 1 \in 1 .. m /\ i - 1 \in 1 .. m + 1
      OBVIOUS
    <3>3. i # 1 => h[i - 1] = f[i - 1]
      BY <3>2
    <3>4. h[i] = step(f, i)
      BY <3>1
    <3>. HIDE DEF h
    <3>. QED  BY <3>3, <3>4
  <2>3. h = [i \in 1 .. m + 1 |-> step(h, i)]
    <3>. HIDE DEF step
    <3>. QED  BY <2>2
  <2>. HIDE DEF h
  <2>. QED  BY <2>3
<1>3. Has(k)
  <2>. HIDE DEF Has
  <2>1. ASSUME Lacks # {} PROVE FALSE
    <3>1. PICK m \in Lacks : \A y \in Lacks : ~(<<y, m>> \in Less)
      <4>1. IsWellFoundedOn(Less, Nat)
        BY NatLessThanWellFounded DEF OpToRel
      <4>2. Lacks \in SUBSET Nat
        OBVIOUS
      <4>. HIDE DEF Lacks, Less
      <4>. QED  BY <2>1, <4>1, <4>2, WFMin
    <3>2. m \in Nat /\ m # 0 /\ ~Has(m)
      BY <1>1
    <3>3. m - 1 \in Nat /\ (m - 1) + 1 = m /\ <<m - 1, m>> \in Less
      BY <3>2
    <3>4. m - 1 \notin Lacks
      BY <3>1, <3>3
    <3>5. Has(m - 1)
      BY <3>3, <3>4
    <3>. QED  BY <1>2, <3>2, <3>3, <3>5
  <2>. QED  BY <2>1
<1>. DEFINE flatten == CHOOSE f : f = [i \in 1 .. k |-> step(f, i)]
<1>4. flatten = [i \in 1 .. k |-> step(flatten, i)]
  <2>. HIDE DEF step
  <2>. QED  BY <1>3
<1>5. FlattenSeq(ss) = flatten[k]
  BY DEF FlattenSeq
<1>6. \A i \in 1 .. k : flatten[i] = step(flatten, i)
  <2>. HIDE DEF flatten, step
  <2>. QED  BY <1>4
<1>. HIDE DEF flatten
<1>7. flatten[1] = ss[1]
  <2>1. 1 \in 1 .. k
    OBVIOUS
  <2>. QED  BY <1>6, <2>1
<1>8. \A i \in 2 .. k : flatten[i] = flatten[i - 1] \o ss[i]
  <2>1. \A i \in 2 .. k : i \in 1 .. k /\ i # 1
    OBVIOUS
  <2>. QED  BY <1>6, <2>1
<1>. QED  BY <1>5, <1>7, <1>8 DEF Joins

Joint(r, s, t, S) ==
  /\ r \in Seq(S) /\ Len(r) = Len(s) + Len(t)
  /\ \A p \in 1 .. Len(s) : r[p] = s[p]
  /\ \A p \in 1 .. Len(t) : r[Len(s) + p] = t[p]

LEMMA Concat ==
  ASSUME NEW S, NEW s \in Seq(S), NEW t \in Seq(S)
  PROVE  Joint(s \o t, s, t, S)
<1>1. PICK c \in Nat, d \in Nat : c = Len(s) /\ d = Len(t)
  OBVIOUS
<1>2. /\ s \o t \in Seq(S) /\ Len(s \o t) = c + d
      /\ \A i \in 1 .. c + d : (s \o t)[i] = IF i <= c THEN s[i] ELSE t[i - c]
  BY <1>1, ConcatProperties
<1>3. ASSUME NEW p \in 1 .. c PROVE (s \o t)[p] = s[p]
  <2>1. p \in 1 .. c + d /\ p <= c
    BY <1>1
  <2>. QED  BY <1>2, <2>1
<1>4. ASSUME NEW p \in 1 .. d PROVE (s \o t)[c + p] = t[p]
  <2>1. PICK i \in 1 .. c + d : i = c + p
    BY <1>1
  <2>2. ~(i <= c) /\ i - c = p
    BY <1>1, <2>1
  <2>. QED  BY <1>2, <2>1, <2>2
<1>. QED  BY <1>1, <1>2, <1>3, <1>4 DEF Joint

(* Sequences of the same length: element j of sequence i is at place       *)
(* (i - 1) * a + j.                                                        *)
Spot(i, j, a) == (i - 1) * a + j
FlatOf(r, ss, T, k, a) ==
  /\ r \in Seq(T) /\ Len(r) = k * a
  /\ \A i \in 1 .. k : \A j \in 1 .. a : r[Spot(i, j, a)] = ss[i][j]

LEMMA FlattenEqual ==
  ASSUME NEW T, NEW k \in Nat \ {0}, NEW a \in Nat, NEW ss, Len(ss) = k,
         \A i \in 1 .. k : ss[i] \in Seq(T) /\ Len(ss[i]) = a
  PROVE  FlatOf(FlattenSeq(ss), ss, T, k, a)
<1>1. PICK f : FlattenSeq(ss) = f[k] /\ Joins(ss, k, f)
  BY FlattenSteps
<1>. DEFINE Less == {p \in Nat \X Nat : p[1] < p[2]}
            Bad == {m \in 1 .. k : ~FlatOf(f[m], ss, T, m, a)}
<1>2. ASSUME Bad # {} PROVE FALSE
  <2>1. PICK m \in Bad : \A y \in Bad : ~(<<y, m>> \in Less)
    <3>1. IsWellFoundedOn(Less, Nat)
      BY NatLessThanWellFounded DEF OpToRel
    <3>2. Bad \in SUBSET Nat
      OBVIOUS
    <3>. HIDE DEF Bad, Less
    <3>. QED  BY <1>2, <3>1, <3>2, WFMin
  <2>2. m \in 1 .. k /\ ~FlatOf(f[m], ss, T, m, a)
    OBVIOUS
  <2>3. CASE m = 1
    <3>1. f[1] = ss[1] /\ ss[1] \in Seq(T) /\ Len(ss[1]) = a
      BY <1>1 DEF Joins
    <3>2. \A j \in 1 .. a : Spot(1, j, a) = j
      BY DEF Spot
    <3>3. 1 * a = a
      OBVIOUS
    <3>4. \A i \in 1 .. 1 : i = 1
      OBVIOUS
    <3>5. \A i \in 1 .. 1 : \A j \in 1 .. a : f[1][Spot(i, j, a)] = ss[i][j]
      BY <3>1, <3>2, <3>4
    <3>6. FlatOf(f[1], ss, T, 1, a)
      BY <3>1, <3>3, <3>5 DEF FlatOf
    <3>. QED  BY <2>2, <2>3, <3>6
  <2>4. CASE m # 1
    <3>0. m - 1 \in 1 .. k /\ <<m - 1, m>> \in Less
      BY <2>2, <2>4
    <3>1. PICK l \in 1 .. k : l = m - 1 /\ <<l, m>> \in Less
      BY <3>0
    <3>11. l \notin Bad
      <4>. HIDE DEF Bad, Less
      <4>. QED  BY <2>1, <3>1
    <3>2. FlatOf(f[l], ss, T, l, a)
      BY <3>11
    <3>3. f[m] = f[l] \o ss[m] /\ ss[m] \in Seq(T) /\ Len(ss[m]) = a
      <4>1. m \in 2 .. k
        BY <2>2, <2>4
      <4>. QED  BY <1>1, <3>1, <4>1 DEF Joins
    <3>4. PICK c \in Nat : c = l * a
      OBVIOUS
    <3>5. f[l] \in Seq(T) /\ Len(f[l]) = c
      BY <3>2, <3>4 DEF FlatOf
    <3>6. m * a = c + a
      BY <3>1, <3>4
    <3>7. /\ f[m] \in Seq(T) /\ Len(f[m]) = c + a
          /\ \A p \in 1 .. c : f[m][p] = f[l][p]
          /\ \A j \in 1 .. a : f[m][c + j] = ss[m][j]
      <4>1. Joint(f[m], f[l], ss[m], T)
        BY <3>3, <3>5, Concat
      <4>. QED  BY <3>3, <3>5, <4>1 DEF Joint
    <3>8. ASSUME NEW i \in 1 .. m, NEW j \in 1 .. a PROVE f[m][Spot(i, j, a)] = ss[i][j]
      <4>1. CASE i = m
        <5>1. Spot(i, j, a) = c + j
          BY <3>1, <3>4, <4>1 DEF Spot
        <5>. QED  BY <3>7, <4>1, <5>1
      <4>2. CASE i # m
        <5>1. i \in 1 .. l
          BY <3>1, <4>2
        <5>2. Spot(i, j, a) \in 1 .. c
          <6>1. (i - 1) * a + a <= l * a
            BY <5>1
          <6>2. (i - 1) * a \in Nat
            OBVIOUS
          <6>3. PICK e \in Nat : e = (i - 1) * a
            BY <6>2
          <6>4. e + a <= c /\ Spot(i, j, a) = e + j
            BY <3>4, <6>1, <6>3 DEF Spot
          <6>. QED  BY <6>4
        <5>3. f[l][Spot(i, j, a)] = ss[i][j]
          BY <3>2, <5>1 DEF FlatOf
        <5>. QED  BY <3>7, <5>2, <5>3
      <4>. QED  BY <4>1, <4>2
    <3>9. FlatOf(f[m], ss, T, m, a)
      BY <3>6, <3>7, <3>8 DEF FlatOf
    <3>. QED  BY <2>2, <3>9
  <2>. QED  BY <2>3, <2>4
<1>3. FlatOf(f[k], ss, T, k, a)
  BY <1>2
<1>. QED  BY <1>1, <1>3

LEMMA SpotOf ==
  ASSUME NEW n, NEW k, NEW a, GroupsOf(n, k, a), NEW p \in 1 .. n
  PROVE  \E i \in 1 .. k : \E j \in 1 .. a : p = Spot(i, j, a)
<1>1. k \in Nat /\ a \in Nat \ {0}
  BY DEF GroupsOf
<1>2. PICK g \in 1 .. k, h \in 1 .. a : p = At(g, h, a)
  <2>1. \E g \in 1 .. k : \E h \in 1 .. a : p = At(g, h, a)
    BY GroupOf
  <2>. QED  BY <2>1
<1>3. PICK j \in 1 .. a : j = a - h + 1
  BY <1>1
<1>4. g * a = (g - 1) * a + a
  BY <1>1
<1>5. p = Spot(g, j, a)
  BY <1>1, <1>2, <1>3, <1>4 DEF At, Spot
<1>. QED  BY <1>5

(* [::2] and [1::2], one of them reversed, have every element once.        *)
LEMMA OddsEvens ==
  ASSUME NEW S, NEW n \in Nat, NEW s \in Bijection(1 .. n, S)
  PROVE  /\ Len(Odds(s) \o Reverse(Evens(s))) = n
         /\ Odds(s) \o Reverse(Evens(s)) \in Seq(S) /\ Odds(s) \o Reverse(Evens(s)) \in Bijection(1 .. n, S)
         /\ Len(Reverse(Odds(s)) \o Evens(s)) = n
         /\ Reverse(Odds(s)) \o Evens(s) \in Seq(S) /\ Reverse(Odds(s)) \o Evens(s) \in Bijection(1 .. n, S)
<1>. DEFINE c == (n + 1) \div 2
            d == n \div 2
            odds == Odds(s)
            evens == Evens(s)
            u == odds \o Reverse(evens)
            v == Reverse(odds) \o evens
            at == [p \in 1 .. n |-> IF p <= c THEN 2 * p - 1 ELSE 2 * (n - p + 1)]
            to == [p \in 1 .. n |-> IF p <= c THEN 2 * (c - p + 1) - 1 ELSE 2 * (p - c)]
<1>1. c \in Nat /\ d \in Nat /\ c + d = n /\ (c = d \/ c = d + 1)
  OBVIOUS
<1>2. s \in [1 .. n -> S] /\ Len(s) = n
  BY DEF Bijection, Injection
<1>3. /\ odds = [i \in 1 .. c |-> s[2 * i - 1]] /\ evens = [i \in 1 .. d |-> s[2 * i]]
  BY <1>2 DEF Odds, Evens
<1>. HIDE DEF c, d, odds, evens
<1>4. \A i \in 1 .. c : 2 * i - 1 \in 1 .. n
  BY <1>1
<1>5. \A i \in 1 .. d : 2 * i \in 1 .. n
  BY <1>1
<1>6. odds \in Seq(S) /\ Len(odds) = c /\ evens \in Seq(S) /\ Len(evens) = d
  BY <1>1, <1>2, <1>3, <1>4, <1>5
<1>7. /\ Reverse(odds) \in Seq(S) /\ Len(Reverse(odds)) = c
      /\ Reverse(evens) \in Seq(S) /\ Len(Reverse(evens)) = d
      /\ \A i \in 1 .. c : Reverse(odds)[i] = odds[c - i + 1]
      /\ \A i \in 1 .. d : Reverse(evens)[i] = evens[d - i + 1]
  BY <1>1, <1>6 DEF Reverse
<1>8. /\ u \in Seq(S) /\ Len(u) = n
      /\ \A p \in 1 .. c : u[p] = odds[p]
      /\ \A p \in 1 .. d : u[c + p] = Reverse(evens)[p]
  <2>1. Joint(u, odds, Reverse(evens), S)
    BY <1>6, <1>7, Concat
  <2>. HIDE DEF u
  <2>. QED  BY <1>1, <1>6, <1>7, <2>1 DEF Joint
<1>9. /\ v \in Seq(S) /\ Len(v) = n
      /\ \A p \in 1 .. c : v[p] = Reverse(odds)[p]
      /\ \A p \in 1 .. d : v[c + p] = evens[p]
  <2>1. Joint(v, Reverse(odds), evens, S)
    BY <1>6, <1>7, Concat
  <2>. HIDE DEF v
  <2>. QED  BY <1>1, <1>6, <1>7, <2>1 DEF Joint
<1>. HIDE DEF u, v
<1>10. ASSUME NEW p \in 1 .. n PROVE u[p] = s[at[p]] /\ v[p] = s[to[p]]
  <2>1. CASE p <= c
    <3>1. p \in 1 .. c /\ c - p + 1 \in 1 .. c
      BY <1>1, <2>1
    <3>2. u[p] = s[2 * p - 1] /\ v[p] = s[2 * (c - p + 1) - 1]
      BY <1>3, <1>7, <1>8, <1>9, <3>1
    <3>. QED  BY <2>1, <3>2
  <2>2. CASE ~(p <= c)
    <3>1. PICK q \in 1 .. d : q = p - c
      BY <1>1, <2>2
    <3>2. d - q + 1 \in 1 .. d /\ c + q = p
      BY <1>1, <3>1
    <3>21. u[p] = Reverse(evens)[q] /\ v[p] = evens[q]
      BY <1>8, <1>9, <3>2
    <3>3. u[p] = s[2 * (d - q + 1)] /\ v[p] = s[2 * q]
      BY <1>3, <1>7, <3>2, <3>21
    <3>4. d - q + 1 = n - p + 1
      BY <1>1, <3>1
    <3>5. at[p] = 2 * (n - p + 1) /\ to[p] = 2 * (p - c)
      BY <2>2
    <3>. QED  BY <3>1, <3>3, <3>4, <3>5
  <2>. QED  BY <2>1, <2>2
<1>11. \A p \in 1 .. n : at[p] \in 1 .. n /\ to[p] \in 1 .. n
  BY <1>1
<1>12. \A p, q \in 1 .. n : (at[p] = at[q] => p = q) /\ (to[p] = to[q] => p = q)
  BY <1>1
<1>13. ASSUME NEW q \in 1 .. n
       PROVE  (\E p \in 1 .. n : at[p] = q) /\ (\E p \in 1 .. n : to[p] = q)
  <2>1. CASE q % 2 = 1
    <3>1. PICK i \in 1 .. c : q = 2 * i - 1
      <4>1. q = 2 * ((q + 1) \div 2) - 1 /\ (q + 1) \div 2 \in Nat
        BY <2>1
      <4>. QED  BY <1>1, <4>1
    <3>2. i \in 1 .. n /\ c - i + 1 \in 1 .. n /\ i <= c /\ c - i + 1 <= c
      BY <1>1
    <3>3. at[i] = q /\ to[c - i + 1] = q
      BY <1>1, <3>1, <3>2
    <3>. QED  BY <3>2, <3>3
  <2>2. CASE q % 2 = 0
    <3>1. PICK i \in 1 .. d : q = 2 * i
      <4>1. q = 2 * (q \div 2) /\ q \div 2 \in Nat
        BY <2>2
      <4>. QED  BY <1>1, <4>1
    <3>2. n - i + 1 \in 1 .. n /\ c + i \in 1 .. n /\ ~(n - i + 1 <= c) /\ ~(c + i <= c)
      BY <1>1
    <3>3. at[n - i + 1] = q /\ to[c + i] = q
      BY <1>1, <3>1, <3>2
    <3>. QED  BY <3>2, <3>3
  <2>. QED  BY <2>1, <2>2
<1>. HIDE DEF at, to
<1>14. u \in Bijection(1 .. n, S)
  <2>1. u \in [1 .. n -> S]
    BY <1>8
  <2>2. ASSUME NEW p \in 1 .. n, NEW q \in 1 .. n, u[p] = u[q] PROVE p = q
    <3>1. PICK i \in 1 .. n, j \in 1 .. n : i = at[p] /\ j = at[q]
      BY <1>11
    <3>2. s[i] = s[j]
      BY <1>10, <2>2, <3>1
    <3>3. i = j
      BY <3>2 DEF Bijection, Injection, IsInjective
    <3>. QED  BY <1>12, <3>1, <3>3
  <2>3. ASSUME NEW x \in S PROVE \E p \in 1 .. n : u[p] = x
    <3>1. PICK q \in 1 .. n : s[q] = x
      BY DEF Bijection, Surjection
    <3>2. PICK p \in 1 .. n : at[p] = q
      BY <1>13
    <3>3. u[p] = x
      BY <1>10, <3>1, <3>2
    <3>. QED  BY <3>3
  <2>. QED  BY <2>1, <2>2, <2>3 DEF Bijection, Injection, IsInjective, Surjection
<1>15. v \in Bijection(1 .. n, S)
  <2>1. v \in [1 .. n -> S]
    BY <1>9
  <2>2. ASSUME NEW p \in 1 .. n, NEW q \in 1 .. n, v[p] = v[q] PROVE p = q
    <3>1. PICK i \in 1 .. n, j \in 1 .. n : i = to[p] /\ j = to[q]
      BY <1>11
    <3>2. s[i] = s[j]
      BY <1>10, <2>2, <3>1
    <3>3. i = j
      BY <3>2 DEF Bijection, Injection, IsInjective
    <3>. QED  BY <1>12, <3>1, <3>3
  <2>3. ASSUME NEW x \in S PROVE \E p \in 1 .. n : v[p] = x
    <3>1. PICK q \in 1 .. n : s[q] = x
      BY DEF Bijection, Surjection
    <3>2. PICK p \in 1 .. n : to[p] = q
      BY <1>13
    <3>3. v[p] = x
      BY <1>10, <3>1, <3>2
    <3>. QED  BY <3>3
  <2>. QED  BY <2>1, <2>2, <2>3 DEF Bijection, Injection, IsInjective, Surjection
<1>. QED  BY <1>8, <1>9, <1>14, <1>15 DEF u, v, odds, evens

-----------------------------------------------------------------------------

(* The parts of a partition one after the other have every row once.       *)
LEMMA FlatPartition ==
  ASSUME NEW n \in Nat \ {0}, NEW k \in Nat \ {0}, NEW a \in Nat \ {0},
         NEW P, Partition(P, 1 .. n, k), NEW ss, Len(ss) = k,
         \A i \in 1 .. k : /\ ss[i] \in Seq(P[i]) /\ Len(ss[i]) = a
                           /\ ss[i] \in Bijection(1 .. a, P[i])
  PROVE  FlattenSeq(ss) \in Bijection(1 .. n, 1 .. n) /\ k * a = n
<1>. DEFINE r == FlattenSeq(ss)
            m == k * a
<1>1. \A i \in 1 .. k : P[i] \subseteq 1 .. n
  BY DEF Partition
<1>2. \A i \in 1 .. k : ss[i] \in Seq(1 .. n) /\ Len(ss[i]) = a
  <2>. SUFFICES ASSUME NEW i \in 1 .. k PROVE ss[i] \in Seq(1 .. n)
    OBVIOUS
  <2>1. ss[i] \in [1 .. a -> P[i]] /\ ss[i] \in Seq(P[i]) /\ P[i] \subseteq 1 .. n
    BY <1>1
  <2>2. PICK q : q = P[i]
    OBVIOUS
  <2>. QED  BY <2>1, <2>2
<1>3. FlatOf(r, ss, 1 .. n, k, a)
  BY <1>2, FlattenEqual
<1>4. m \in Nat /\ GroupsOf(m, k, a)
  BY DEF GroupsOf
<1>5. r \in [1 .. m -> 1 .. n]
  BY <1>3 DEF FlatOf
<1>6. \A i \in 1 .. k : \A j \in 1 .. a : r[Spot(i, j, a)] = ss[i][j] /\ ss[i][j] \in P[i]
  BY <1>3 DEF FlatOf, Bijection, Injection
<1>. HIDE DEF r
<1>7. ASSUME NEW i \in 1 .. k, NEW j \in 1 .. a PROVE Spot(i, j, a) \in 1 .. m
  <2>1. (i - 1) * a \in Nat /\ (i - 1) * a + a <= k * a
    OBVIOUS
  <2>2. PICK e \in Nat : e = (i - 1) * a
    BY <2>1
  <2>3. e + a <= m /\ Spot(i, j, a) = e + j
    BY <2>1, <2>2 DEF Spot
  <2>. HIDE DEF m
  <2>. QED  BY <1>4, <2>3
<1>. HIDE DEF m
<1>8. ASSUME NEW p \in 1 .. m, NEW q \in 1 .. m, r[p] = r[q] PROVE p = q
  <2>1. \E i \in 1 .. k : \E j \in 1 .. a : p = Spot(i, j, a)
    BY <1>4, SpotOf
  <2>2. \E i \in 1 .. k : \E j \in 1 .. a : q = Spot(i, j, a)
    BY <1>4, SpotOf
  <2>3. PICK i \in 1 .. k, j \in 1 .. a : p = Spot(i, j, a)
    BY <2>1
  <2>4. PICK g \in 1 .. k, h \in 1 .. a : q = Spot(g, h, a)
    BY <2>2
  <2>5. r[p] = ss[i][j] /\ r[p] = ss[g][h] /\ r[p] \in P[i] /\ r[p] \in P[g]
    BY <1>6, <1>8, <2>3, <2>4
  <2>6. i = g
    BY <1>5, <2>5 DEF Partition
  <2>7. j = h
    BY <2>5, <2>6 DEF Bijection, Injection, IsInjective
  <2>. QED  BY <2>3, <2>4, <2>6, <2>7
<1>9. ASSUME NEW x \in 1 .. n PROVE \E p \in 1 .. m : r[p] = x
  <2>1. PICK i \in 1 .. k : x \in P[i]
    BY DEF Partition
  <2>2. PICK j \in 1 .. a : ss[i][j] = x
    BY <2>1 DEF Bijection, Surjection
  <2>. QED  BY <1>6, <1>7, <2>2
<1>10. r \in Bijection(1 .. m, 1 .. n)
  BY <1>5, <1>8, <1>9 DEF Bijection, Injection, IsInjective, Surjection
<1>11. m = n
  <2>1. IsFiniteSet(1 .. m) /\ Cardinality(1 .. m) = m /\ Cardinality(1 .. n) = n
    BY <1>4, FS_Interval
  <2>2. ExistsBijection(1 .. m, 1 .. n)
    BY <1>10 DEF ExistsBijection
  <2>. QED  BY <2>1, <2>2, FS_Bijection
<1>. QED  BY <1>10, <1>11 DEF r, m

LEMMA MinIn ==
  ASSUME NEW S \in SUBSET Nat, S # {}
  PROVE  Min(S) \in S
<1>. DEFINE Less == {p \in Nat \X Nat : p[1] < p[2]}
<1>1. PICK m \in S : \A y \in S : ~(<<y, m>> \in Less)
  <2>1. IsWellFoundedOn(Less, Nat)
    BY NatLessThanWellFounded DEF OpToRel
  <2>. HIDE DEF Less
  <2>. QED  BY <2>1, WFMin
<1>2. ASSUME NEW y \in S PROVE m <= y
  <2>1. m \in Nat /\ y \in Nat
    OBVIOUS
  <2>2. ~(y < m)
    BY <1>1, <2>1
  <2>. QED  BY <2>1, <2>2
<1>. QED  BY <1>2 DEF Min

LEMMA MaxIn ==
  ASSUME NEW n \in Nat, NEW S \in SUBSET (1 .. n), S # {}
  PROVE  Max(S) \in S
<1>. DEFINE Down == {n - x : x \in S}
<1>1. Down \in SUBSET Nat /\ Down # {}
  <2>1. \A x \in S : n - x \in Nat
    OBVIOUS
  <2>. QED  BY <2>1
<1>. DEFINE Less == {p \in Nat \X Nat : p[1] < p[2]}
<1>2. PICK m \in Down : \A y \in Down : ~(<<y, m>> \in Less)
  <2>1. IsWellFoundedOn(Less, Nat)
    BY NatLessThanWellFounded DEF OpToRel
  <2>. HIDE DEF Less, Down
  <2>. QED  BY <1>1, <2>1, WFMin
<1>3. PICK x \in S : m = n - x
  OBVIOUS
<1>4. ASSUME NEW y \in S PROVE x >= y
  <2>1. n - y \in Down /\ n - y \in Nat /\ m \in Nat
    BY <1>1
  <2>2. ~(n - y < m)
    BY <1>2, <2>1
  <2>. QED  BY <1>3, <2>2
<1>. QED  BY <1>4 DEF Max

(* The parts with the small ones at both ends are all the parts.           *)
ArrangedOf(A, P, k) == /\ A \in Bijection(1 .. k, Range(P)) /\ A \in Seq(Range(P))
                       /\ Len(A) = k

LEMMA ArrangedParts ==
  ASSUME NEW n \in Nat, NEW k \in Nat, NEW P, Partition(P, 1 .. n, k),
         \A i \in 1 .. k : P[i] # {},
         NEW load, \A i \in 1 .. n : load[i] \in Nat
  PROVE  ArrangedOf(Arranged(Range(P), load), P, k)
<1>. DEFINE S == Range(P)
            larger == {p \in S \X S :
                         \/ Total(p[1], load) > Total(p[2], load)
                         \/ Total(p[1], load) = Total(p[2], load) /\ Min(p[1]) > Min(p[2])}
            sorted == InOrder(S, larger)
<1>1. \A p \in S : \E i \in 1 .. k : P[i] = p
  BY DEF Partition, Range
<1>2. IsFiniteSet(S) /\ Cardinality(S) = k
  BY PartsApart
<1>. HIDE DEF S
<1>3. ASSUME NEW p \in S
      PROVE  /\ p \in SUBSET (1 .. n) /\ p # {} /\ Min(p) \in p /\ Min(p) \in Nat
             /\ Total(p, load) \in Nat
  <2>1. p \in SUBSET (1 .. n) /\ p # {}
    BY <1>1 DEF Partition
  <2>2. Min(p) \in p
    <3>1. p \in SUBSET Nat
      BY <2>1
    <3>. QED  BY <2>1, <3>1, MinIn
  <2>3. IsFiniteSet(p)
    <3>1. IsFiniteSet(1 .. n)
      BY FS_Interval
    <3>. QED  BY <2>1, <3>1, FS_Subset
  <2>4. \A i \in p : load[i] \in Nat
    BY <2>1
  <2>5. Total(p, load) \in Nat
    BY <2>3, <2>4, TotalNat
  <2>6. PICK m \in p : m = Min(p)
    BY <2>2
  <2>7. m \in Nat
    BY <2>1

  <2>. QED  BY <2>1, <2>2, <2>5, <2>6, <2>7
<1>4. ASSUME NEW p \in S, NEW q \in S, p # q PROVE Min(p) # Min(q)
  <2>1. PICK i \in 1 .. k, j \in 1 .. k : P[i] = p /\ P[j] = q
    BY <1>1
  <2>2. ASSUME Min(p) = Min(q) PROVE i = j
    <3>1. PICK x \in 1 .. n : x \in p /\ x \in q
      BY <1>3, <2>2
    <3>. QED  BY <2>1, <3>1 DEF Partition
  <2>. QED  BY <1>4, <2>1, <2>2
<1>5. StrictTotal(S, larger)
  <2>1. \A x, y \in S : <<x, y>> \in larger <=>
           \/ Total(x, load) > Total(y, load)
           \/ Total(x, load) = Total(y, load) /\ Min(x) > Min(y)
    OBVIOUS
  <2>. HIDE DEF larger
  <2>2. \A x \in S : <<x, x>> \notin larger
    BY <1>3, <2>1
  <2>3. \A x, y \in S : x # y => <<x, y>> \in larger \/ <<y, x>> \in larger
    BY <1>3, <1>4, <2>1
  <2>4. \A x, y, z \in S : <<x, y>> \in larger /\ <<y, z>> \in larger => <<x, z>> \in larger
    BY <1>3, <2>1
  <2>. QED  BY <2>2, <2>3, <2>4 DEF StrictTotal
<1>6. sorted \in Bijection(1 .. k, S)
  <2>. HIDE DEF larger
  <2>. QED  BY <1>2, <1>5, InOrderSorted
<1>7. Arranged(S, load) = Reverse(Odds(sorted)) \o Evens(sorted)
  BY DEF Arranged
<1>. HIDE DEF sorted
<1>. QED  BY <1>6, <1>7, OddsEvens DEF S, ArrangedOf

(* Split: parts of n elements, and one of the rest.                        *)
PartLen(l, n, i) == IF i * n <= l THEN n ELSE l - (i - 1) * n
SplitOf(r, T, l, n) ==
  /\ r \in Seq(Seq(T)) /\ Len(r) = Ceil(l, n)
  /\ \A i \in 1 .. Ceil(l, n) : Len(r[i]) = PartLen(l, n, i) /\ r[i] # << >>

LEMMA SplitParts ==
  ASSUME NEW T, NEW s \in Seq(T), NEW n \in Nat \ {0}
  PROVE  SplitOf(Split(s, n), T, Len(s), n)
<1>1. PICK l \in Nat : l = Len(s)
  OBVIOUS
<1>2. PICK c \in Nat : c = Ceil(l, n) /\ c * n <= l + n - 1
  <2>1. (l + n - 1) \div n \in Nat /\ n * ((l + n - 1) \div n) <= l + n - 1
    OBVIOUS
  <2>2. PICK c \in Nat : c = (l + n - 1) \div n
    BY <2>1
  <2>3. n * c = c * n
    OBVIOUS
  <2>. QED  BY <2>1, <2>2, <2>3 DEF Ceil
<1>. DEFINE r == Split(s, n)
            end(i) == IF i * n <= l THEN i * n ELSE l
<1>3. r = [i \in 1 .. c |-> SubSeq(s, (i - 1) * n + 1, end(i))]
  BY <1>1, <1>2 DEF Split, Ceil
<1>4. ASSUME NEW i \in 1 .. c
      PROVE  r[i] \in Seq(T) /\ Len(r[i]) = PartLen(l, n, i) /\ r[i] # << >>
  <2>1. i * n <= c * n
    OBVIOUS
  <2>2. PICK b \in Nat : b = (i - 1) * n /\ i * n = b + n
    OBVIOUS
  <2>3. b < l
    BY <1>2, <2>1, <2>2
  <2>4. PICK e \in Nat : e = end(i) /\ e = (IF b + n <= l THEN b + n ELSE l)
    BY <2>2
  <2>5. b + 1 <= e /\ e <= l
    BY <2>3, <2>4
  <2>6. r[i] = SubSeq(s, b + 1, e)
    BY <1>3, <2>2, <2>4
  <2>61. b + 1 \in Int /\ e \in Int /\ \A j \in b + 1 .. e : s[j] \in T
    BY <1>1, <2>5
  <2>62. /\ SubSeq(s, b + 1, e) \in Seq(T)
         /\ Len(SubSeq(s, b + 1, e)) = IF b + 1 <= e THEN e - (b + 1) + 1 ELSE 0
    BY <2>61, SubSeqProperties
  <2>7. SubSeq(s, b + 1, e) \in Seq(T) /\ Len(SubSeq(s, b + 1, e)) = e - b
    BY <2>5, <2>62
  <2>8. PartLen(l, n, i) = e - b
    BY <2>2, <2>4 DEF PartLen
  <2>9. r[i] # << >>
    <3>1. Len(r[i]) > 0
      BY <2>5, <2>6, <2>7
    <3>. HIDE DEF r
    <3>. QED  BY <3>1
  <2>. QED  BY <2>6, <2>7, <2>8, <2>9
<1>. HIDE DEF r
<1>5. r \in Seq(Seq(T)) /\ Len(r) = c
  <2>1. DOMAIN r = 1 .. c /\ r = [i \in 1 .. c |-> r[i]]
    BY <1>3
  <2>2. \A i \in 1 .. c : r[i] \in Seq(T)
    BY <1>4
  <2>3. r \in [1 .. c -> Seq(T)]
    BY <2>1, <2>2
  <2>. QED  BY <2>3
<1>. QED  BY <1>1, <1>2, <1>4, <1>5 DEF SplitOf, r

-----------------------------------------------------------------------------

(* The invariant.  The shape of the run;                                   *)
ConfigInv ==
  /\ config.rows \in Nat \ {0} /\ config.dp \in Nat \ {0} /\ config.sp \in Nat \ {0}
  /\ config.rows % World = 0 /\ config.mini \in Nat /\ Mini \in Nat \ {0}
  /\ len \in [Rows -> 1 .. Limit]

(* the batch is a permutation of its rows, and so it is balanced;          *)
DriverInv ==
  /\ order \in Bijection(Rows, Rows)
  /\ DOMAIN heap = 0 .. World
  /\ phase = "balancing" => /\ HeapOf(heap[0], Rows, World)
                            /\ \A s \in heap[0] : Even(s, World)

(* outside a call all workers rest;                                        *)
InCall == phase \in {"computing", "updating"}
Ops == [op : {"sum", "max", "forward", "step"}, n : Nat]
ShapeInv ==
  /\ ops \in [Workers -> Seq(Ops)]
  /\ DOMAIN pc = Workers /\ DOMAIN slices = Workers /\ DOMAIN micros = Workers
  /\ ~InCall => \A w \in Workers : pc[w] \in {"idle", "replied"}

(* in a call a worker that has not replied has a slice, of rows of the     *)
(* batch with their old log probs, and micro-batches while it runs them,   *)
(* none of them empty;                                                     *)
Rec == [id : Rows, old : {old[i] : i \in Rows}]
Filled(s) == s \in Seq(Seq(Rec)) /\ \A i \in DOMAIN s : s[i] # << >>

SliceInv(w) == Filled(slices[w]) /\ (pc[w] # "replied" => slices[w] # << >>)
MicroInv(w) == pc[w] \in {"forward", "run"} => Filled(micros[w]) /\ micros[w] # << >>

(* the workers agree on a number of micro-batches that each can make,      *)
CountInv(w) ==
  pc[w] \in {"reduce", "merge"} =>
    /\ ops[w] # << >>
    /\ \A v \in Workers :
         Len(ops[v]) >= Len(ops[w]) => ops[v][Len(ops[w])].n \in 1 .. Len(Slice(w))

(* and a worker makes so many;                                             *)
MergeInv(w) ==
  pc[w] = "merge" => /\ HeapOf(heap[w], 1 .. Len(Slice(w)), Agreed(w))
                     /\ \A s \in heap[w] : Filling(s, Agreed(w))

(* workers with as many mini-batches left have as many rows in them.       *)
Geometry(v, w) ==
  \A a \in DOMAIN slices[v] : \A b \in DOMAIN slices[w] :
    Len(slices[v]) - a = Len(slices[w]) - b => Len(slices[v][a]) = Len(slices[w][b])

(* How many collectives a worker has left,                                 *)
Waiting == {"summing", "reduce", "run", "stepping"}
Left(w) == IF pc[w] \in Waiting THEN Len(ops[w]) - 1 ELSE Len(ops[w])

(* what it is at: the collective, and the mini-batches and micro-batches   *)
(* that are to be done,                                                    *)
Pos(w) ==
  CASE pc[w] \in {"tokens", "summing"} -> <<"sum", Len(slices[w]), 0>>
    [] pc[w] \in {"count", "reduce"}   -> <<"max", Len(slices[w]), 0>>
    [] pc[w] = "merge"                 -> <<"forward", Len(slices[w]), Agreed(w)>>
    [] pc[w] = "split"                 -> <<"forward", Len(slices[w]), Ceil(Len(Slice(w)), Micro)>>
    [] pc[w] \in {"forward", "run"}    -> <<"forward", Len(slices[w]), Len(micros[w])>>
    [] pc[w] \in {"step", "stepping"}  -> <<"step", Len(slices[w]), 0>>
    [] OTHER                           -> <<"end", 0, 0>>

(* and what it will be at when the one it waits in is over.                *)
Cuts(n, slice) ==
  IF config.dynamic THEN <<"max", n, 0>> ELSE <<"forward", n, Ceil(Len(slice), Micro)>>
After(w) ==
  LET n == Len(slices[w])
  IN  CASE pc[w] = "summing"  -> Cuts(n, Slice(w))
        [] pc[w] = "reduce"   -> <<"forward", n, Agreed(w)>>
        [] pc[w] = "run"      -> IF Len(micros[w]) > 1 THEN <<"forward", n, Len(micros[w]) - 1>>
                                 ELSE IF phase = "computing" THEN <<"end", 0, 0>>
                                 ELSE <<"step", n, 0>>
        [] OTHER              -> IF n = 1 THEN <<"end", 0, 0>>
                                 ELSE IF config.loss = "slqp" THEN <<"sum", n - 1, 0>>
                                 ELSE Cuts(n - 1, slices[w][2])


(* Workers that have left as many collectives are at the same; one that    *)
(* has left one more is where the other will be.                           *)
SyncInv(v, w) ==
  /\ Len(ops[v]) >= Left(w)
  /\ Left(v) = Left(w) => Pos(v) = Pos(w)
  /\ Left(v) = Left(w) + 1 => Pos(v) = After(w)

EnteredInv(w) == pc[w] \in Waiting => ops[w] # << >> /\ ops[w][Len(ops[w])].op = Pos(w)[1]

Places == {"tokens", "count", "merge", "split", "forward", "restore", "step", "replied"}

WorkerInv(w) ==
  /\ pc[w] \in Places \cup Waiting
  /\ SliceInv(w) /\ MicroInv(w) /\ CountInv(w) /\ MergeInv(w) /\ EnteredInv(w)
PairInv(v, w) == Geometry(v, w) /\ SyncInv(v, w)

CallInv == InCall => /\ \A w \in Workers : WorkerInv(w)
                     /\ \A v, w \in Workers : PairInv(v, w)

IInv == ConfigInv /\ DriverInv /\ ShapeInv /\ CallInv /\ SameCollectives

-----------------------------------------------------------------------------

(* Numbers of workers and rows.                                            *)
Size == config.rows \div config.dp

LEMMA Numbers ==
  ASSUME ConfigInv
  PROVE  /\ World \in Nat \ {0} /\ Limit \in Nat \ {0} /\ Size \in Nat \ {0}
         /\ \A w \in Workers : DpRank(w) \in Nat
         /\ \A w \in Workers : \A i \in 1 .. Size : DpRank(w) * Size + i \in Rows
<1>. PICK n \in Nat \ {0}, d \in Nat \ {0}, s \in Nat \ {0} :
       n = config.rows /\ d = config.dp /\ s = config.sp
  BY DEF ConfigInv
<1>1. World = d * s /\ d * s \in Nat \ {0} /\ n % (d * s) = 0
  BY DEF World, ConfigInv
<1>2. Limit \in Nat \ {0}
  <2>1. 1 \in Rows /\ len[1] \in 1 .. Limit
    BY DEF ConfigInv, Rows
  <2>2. Limit \in Nat
    BY BatchAssumption DEF Limit
  <2>. QED  BY <2>1, <2>2
<1>3. PICK q \in Nat \ {0} : n = (d * s) * q
  <2>1. n = (d * s) * (n \div (d * s)) /\ n \div (d * s) \in Nat
    BY <1>1
  <2>2. n \div (d * s) # 0
    BY <2>1
  <2>. QED  BY <2>1, <2>2
<1>4. n = d * (s * q) /\ s * q \in Nat \ {0}
  BY <1>3
<1>5. Size = s * q
  BY <1>4 DEF Size
<1>6. ASSUME NEW w \in Workers PROVE DpRank(w) \in 0 .. d - 1
  <2>1. w - 1 \in Nat /\ w - 1 < d * s
    BY <1>1 DEF Workers
  <2>2. PICK c \in Nat : c = (w - 1) \div s /\ s * c <= w - 1
    BY <2>1
  <2>3. c < d
    <3>1. s * c < s * d
      BY <2>1, <2>2
    <3>2. c >= d => s * c >= s * d
      OBVIOUS
    <3>. QED  BY <3>1, <3>2
  <2>. QED  BY <2>2, <2>3 DEF DpRank
<1>7. ASSUME NEW w \in Workers, NEW i \in 1 .. Size PROVE DpRank(w) * Size + i \in Rows
  <2>1. PICK a \in Nat \ {0}, c \in 0 .. d - 1 : a = Size /\ c = DpRank(w)
    BY <1>4, <1>5, <1>6
  <2>2. n = d * a
    BY <1>4, <1>5, <2>1
  <2>3. c * a + a <= d * a /\ c * a \in Nat
    BY <2>1
  <2>4. PICK e \in Nat : e = c * a
    BY <2>3
  <2>5. e + i \in 1 .. n
    BY <2>1, <2>2, <2>3, <2>4
  <2>. QED  BY <2>1, <2>4, <2>5 DEF Rows
<1>. QED  BY <1>1, <1>2, <1>4, <1>5, <1>6, <1>7

-----------------------------------------------------------------------------

(* What a collective is by where a worker is.                              *)
LEMMA PosIs ==
  ASSUME NEW w
  PROVE  /\ pc[w] \in {"tokens", "summing"} <=> Pos(w)[1] = "sum"
         /\ pc[w] \in {"count", "reduce"} <=> Pos(w)[1] = "max"
         /\ pc[w] \in {"merge", "split", "forward", "run"} <=> Pos(w)[1] = "forward"
         /\ pc[w] \in {"step", "stepping"} <=> Pos(w)[1] = "step"
         /\ Pos(w)[1] # "end" => Pos(w)[2] = Len(slices[w])
         /\ pc[w] \in {"forward", "run"} => Pos(w)[3] = Len(micros[w])
BY DEF Pos

(* Nobody is more than one collective behind.                              *)
LEMMA LeftIs ==
  ASSUME ShapeInv, \A w \in Workers : EnteredInv(w), \A v, w \in Workers : SyncInv(v, w)
  PROVE  /\ \A w \in Workers : Len(ops[w]) \in Nat /\ Left(w) \in Nat
         /\ \A w \in Workers : pc[w] \in Waiting => Len(ops[w]) = Left(w) + 1
         /\ \A w \in Workers : pc[w] \notin Waiting => Len(ops[w]) = Left(w)
         /\ \A v, w \in Workers : Left(w) <= Len(ops[v])
<1>1. ASSUME NEW w \in Workers PROVE ops[w] \in Seq(Ops) /\ Len(ops[w]) \in Nat
  BY DEF ShapeInv
<1>2. ASSUME NEW w \in Workers, pc[w] \in Waiting PROVE Len(ops[w]) # 0
  BY <1>1, <1>2 DEF EnteredInv
<1>. QED  BY <1>1, <1>2 DEF Left, SyncInv

(* When a worker appends to its collectives, what those agreed on who are  *)
(* not ahead of anybody stays the same.                                    *)
LEMMA AgreedSame ==
  ASSUME ShapeInv, NEW w \in Workers, NEW r, ops' = [ops EXCEPT ![w] = Append(@, r)],
         config' = config, NEW u \in Workers, u # w, ops[u] # << >>,
         \A v \in Workers : Len(ops[u]) <= Len(ops[v])
  PROVE  Agreed(u)' = Agreed(u)
<1>1. \A v \in Workers : ops[v] \in Seq(Ops) /\ Len(ops[v]) \in Nat
  BY DEF ShapeInv
<1>2. PICK j \in Nat : j = Len(ops[u]) /\ j # 0
  BY <1>1
<1>3. ops'[u] = ops[u] /\ DOMAIN ops = Workers
  BY DEF ShapeInv
<1>4. ASSUME NEW v \in Workers PROVE ops'[v][j] = ops[v][j]
  <2>1. CASE v # w
    BY <1>3, <2>1
  <2>2. CASE v = w
    <3>1. ops'[w] = Append(ops[w], r) /\ j \in 1 .. Len(ops[w])
      BY <1>1, <1>2, <1>3
    <3>. QED  BY <1>1, <2>2, <3>1
  <2>. QED  BY <2>1, <2>2
<1>5. Workers' = Workers
  BY DEF Workers, World
<1>6. Agreed(u)' = Max({ops'[v][j].n : v \in Workers})
  BY <1>2, <1>3, <1>5 DEF Agreed
<1>7. Agreed(u) = Max({ops[v][j].n : v \in Workers})
  BY <1>2 DEF Agreed
<1>8. {ops'[v][j].n : v \in Workers} = {ops[v][j].n : v \in Workers}
  BY <1>4
<1>. QED  BY <1>6, <1>7, <1>8

(* A worker enters a collective.                                           *)
Entering == {<<"tokens", "summing">>, <<"count", "reduce">>, <<"forward", "run">>,
             <<"step", "stepping">>}
Still == UNCHANGED <<config, len, order, old, phase>>
Enters(w, r) ==
  /\ Still /\ UNCHANGED <<heap, slices, micros>>
  /\ \E q : <<pc[w], q>> \in Entering /\ pc' = [pc EXCEPT ![w] = q]
  /\ ops' = [ops EXCEPT ![w] = Append(@, r)]
  /\ r \in Ops /\ r.op = Pos(w)[1]
  /\ pc[w] = "count" => r.n \in 1 .. Len(Slice(w))

LEMMA EnterOther ==
  ASSUME ShapeInv, \A w \in Workers : WorkerInv(w), \A v, w \in Workers : PairInv(v, w),
         NEW w \in Workers, NEW r, Enters(w, r)
  PROVE  /\ \A v \in Workers : Left(v)' = Left(v) /\ Pos(v)' = Pos(v)
         /\ \A u \in Workers \ {w} :
              (\A v \in Workers : Len(ops[u]) <= Len(ops[v])) =>
                 After(u)' = After(u) /\ (pc[u] \in {"reduce", "merge"} => Agreed(u)' = Agreed(u))
<1>1. /\ \A v \in Workers : Len(ops[v]) \in Nat /\ Left(v) \in Nat
      /\ \A v \in Workers : pc[v] \in Waiting => Len(ops[v]) = Left(v) + 1
      /\ \A v \in Workers : pc[v] \notin Waiting => Len(ops[v]) = Left(v)
      /\ \A u, v \in Workers : Left(v) <= Len(ops[u])
  BY LeftIs DEF WorkerInv, PairInv
<1>2. /\ config' = config /\ phase' = phase /\ slices' = slices /\ micros' = micros
      /\ ops' = [ops EXCEPT ![w] = Append(@, r)]
  BY DEF Enters, Still
<1>3. PICK q : <<pc[w], q>> \in Entering /\ pc' = [pc EXCEPT ![w] = q]
  BY DEF Enters
<1>4. DOMAIN pc = Workers /\ DOMAIN ops = Workers /\ \A v \in Workers : ops[v] \in Seq(Ops)
  BY DEF ShapeInv
<1>5. pc'[w] = q /\ \A v \in Workers \ {w} : pc'[v] = pc[v] /\ ops'[v] = ops[v]
  BY <1>2, <1>3, <1>4
<1>6. Len(ops'[w]) = Len(ops[w]) + 1
  BY <1>2, <1>4
<1>7. pc[w] \notin Waiting /\ q \in Waiting
  BY <1>3 DEF Entering, Waiting
<1>8. \A v \in Workers : Left(v)' = Left(v)
  BY <1>1, <1>5, <1>6, <1>7 DEF Left
<1>9. ASSUME NEW u \in Workers \ {w}, \A v \in Workers : Len(ops[u]) <= Len(ops[v]),
             pc[u] \in {"reduce", "merge"}
      PROVE  Agreed(u)' = Agreed(u)
  <2>1. ops[u] # << >>
    BY <1>9 DEF WorkerInv, CountInv
  <2>. QED  BY <1>2, <1>9, <2>1, AgreedSame
<1>10. Pos(w)' = Pos(w)
  BY <1>2, <1>3, <1>5 DEF Entering, Pos
<1>11. ASSUME NEW u \in Workers \ {w} PROVE Pos(u)' = Pos(u)
  <2>1. CASE pc[u] = "merge"
    <3>1. pc[u] \notin Waiting
      BY <2>1 DEF Waiting
    <3>2. Agreed(u)' = Agreed(u)
      BY <1>1, <1>9, <2>1, <3>1
    <3>. QED  BY <1>2, <1>5, <2>1, <3>2 DEF Pos
  <2>2. CASE pc[u] # "merge"
    BY <1>2, <1>5, <2>2 DEF Pos, Slice
  <2>. QED  BY <2>1, <2>2
<1>12. ASSUME NEW u \in Workers \ {w}, \A v \in Workers : Len(ops[u]) <= Len(ops[v])
       PROVE  After(u)' = After(u)
  <2>1. CASE pc[u] = "reduce"
    <3>1. Agreed(u)' = Agreed(u)
      BY <1>9, <1>12, <2>1
    <3>. QED  BY <1>2, <1>5, <2>1, <3>1 DEF After
  <2>2. CASE pc[u] # "reduce"
    BY <1>2, <1>5, <2>2 DEF After, Slice, Cuts
  <2>. QED  BY <2>1, <2>2
<1>13. \A v \in Workers : Pos(v)' = Pos(v)
  BY <1>10, <1>11
<1>14. ASSUME NEW u \in Workers \ {w}, \A v \in Workers : Len(ops[u]) <= Len(ops[v])
       PROVE  After(u)' = After(u) /\ (pc[u] \in {"reduce", "merge"} => Agreed(u)' = Agreed(u))
  BY <1>9, <1>12, <1>14
<1>. QED  BY <1>8, <1>13, <1>14

LEMMA EnterSync ==
  ASSUME ShapeInv, \A w \in Workers : WorkerInv(w), \A v, w \in Workers : PairInv(v, w),
         NEW w \in Workers, NEW r, Enters(w, r)
  PROVE  \A u, v \in Workers : PairInv(u, v)'
<1>1. /\ \A v \in Workers : Len(ops[v]) \in Nat /\ Left(v) \in Nat
      /\ \A v \in Workers : pc[v] \in Waiting => Len(ops[v]) = Left(v) + 1
      /\ \A v \in Workers : pc[v] \notin Waiting => Len(ops[v]) = Left(v)
      /\ \A u, v \in Workers : Left(v) <= Len(ops[u])
  BY LeftIs DEF WorkerInv, PairInv
<1>2. /\ \A v \in Workers : Left(v)' = Left(v) /\ Pos(v)' = Pos(v)
      /\ \A u \in Workers \ {w} :
           (\A v \in Workers : Len(ops[u]) <= Len(ops[v])) => After(u)' = After(u)
  BY EnterOther
<1>3. pc[w] \notin Waiting
  BY DEF Enters, Entering, Waiting
<1>4. ASSUME NEW v \in Workers PROVE Len(ops'[v]) >= Len(ops[v]) /\ Len(ops'[v]) \in Nat
  <2>1. ops' = [ops EXCEPT ![w] = Append(@, r)] /\ ops \in [Workers -> Seq(Ops)]
    BY DEF Enters, ShapeInv
  <2>2. CASE v = w
    <3>1. ops'[v] = Append(ops[v], r)
      BY <2>1, <2>2
    <3>. QED  BY <2>1, <3>1
  <2>3. CASE v # w
    BY <1>1, <2>1, <2>3
  <2>. QED  BY <2>2, <2>3
<1>5. ASSUME NEW u \in Workers, NEW v \in Workers PROVE SyncInv(u, v)'
  <2>1. SyncInv(u, v)
    BY DEF PairInv
  <2>2. Len(ops'[u]) >= Left(v)'
    BY <1>1, <1>2, <1>4
  <2>3. Left(u)' = Left(v)' => Pos(u)' = Pos(v)'
    BY <1>2, <2>1 DEF SyncInv
  <2>4. ASSUME Left(u)' = Left(v)' + 1 PROVE Pos(u)' = After(v)'
    <3>1. Left(u) = Left(v) + 1
      BY <1>2, <2>4
    <3>2. v # w
      BY <1>1, <1>3, <3>1
    <3>3. \A x \in Workers : Len(ops[v]) <= Len(ops[x])
      BY <1>1, <3>1
    <3>4. After(v)' = After(v)
      BY <1>2, <3>2, <3>3
    <3>. QED  BY <1>2, <2>1, <3>1, <3>4 DEF SyncInv
  <2>. QED  BY <2>2, <2>3, <2>4 DEF SyncInv
<1>6. ASSUME NEW u \in Workers, NEW v \in Workers PROVE Geometry(u, v)'
  <2>1. slices' = slices
    BY DEF Enters
  <2>2. Geometry(u, v)
    BY DEF PairInv
  <2>. QED  BY <2>1, <2>2 DEF Geometry
<1>7. Workers' = Workers
  BY DEF Workers, World, Enters, Still
<1>. QED  BY <1>5, <1>6, <1>7 DEF PairInv

(* The same collectives.                                                   *)
LEMMA EnterSame ==
  ASSUME ShapeInv, SameCollectives, \A w \in Workers : WorkerInv(w),
         \A v, w \in Workers : PairInv(v, w),
         NEW w \in Workers, NEW r, Enters(w, r)
  PROVE  ShapeInv' /\ SameCollectives' /\ \A v \in Workers : EnteredInv(v)'
<1>1. /\ \A v \in Workers : Len(ops[v]) \in Nat /\ Left(v) \in Nat
      /\ \A v \in Workers : pc[v] \in Waiting => Len(ops[v]) = Left(v) + 1
      /\ \A v \in Workers : pc[v] \notin Waiting => Len(ops[v]) = Left(v)
      /\ \A u, v \in Workers : Left(v) <= Len(ops[u])
  BY LeftIs DEF WorkerInv, PairInv
<1>2. /\ ops' = [ops EXCEPT ![w] = Append(@, r)] /\ r \in Ops /\ r.op = Pos(w)[1]
      /\ config' = config /\ phase' = phase /\ slices' = slices /\ micros' = micros
  BY DEF Enters, Still
<1>3. PICK q : <<pc[w], q>> \in Entering /\ pc' = [pc EXCEPT ![w] = q]
  BY DEF Enters
<1>4. /\ DOMAIN pc = Workers /\ ops \in [Workers -> Seq(Ops)]
      /\ DOMAIN slices = Workers /\ DOMAIN micros = Workers
      /\ (~InCall => \A v \in Workers : pc[v] \in {"idle", "replied"})
  BY DEF ShapeInv
<1>5. Workers' = Workers /\ InCall' = InCall
  BY <1>2 DEF Workers, World, InCall
<1>6. pc[w] \notin Waiting /\ pc[w] \notin {"idle", "replied"}
  BY <1>3 DEF Entering, Waiting
<1>7. PICK n \in Nat : n = Len(ops[w])
  BY <1>1
<1>8. /\ ops'[w] = Append(ops[w], r) /\ Len(ops'[w]) = n + 1 /\ ops'[w] \in Seq(Ops)
      /\ \A i \in 1 .. n : ops'[w][i] = ops[w][i]
      /\ ops'[w][n + 1] = r
  <2>1. ops'[w] = Append(ops[w], r) /\ ops[w] \in Seq(Ops)
    BY <1>2, <1>4
  <2>2. \A i \in 1 .. n : Append(ops[w], r)[i] = ops[w][i]
    BY <1>7, <2>1
  <2>. QED  BY <1>2, <1>7, <2>1, <2>2
<1>9. \A v \in Workers \ {w} : ops'[v] = ops[v] /\ pc'[v] = pc[v]
  BY <1>2, <1>3, <1>4
<1>10. ShapeInv'
  <2>1. ops' \in [Workers -> Seq(Ops)]
    BY <1>4, <1>8, <1>9, <1>2
  <2>2. DOMAIN pc' = Workers
    BY <1>3, <1>4
  <2>3. ~InCall => FALSE
    BY <1>4, <1>6
  <2>. QED  BY <1>2, <1>4, <1>5, <2>1, <2>2, <2>3 DEF ShapeInv, Ops
<1>11. ASSUME NEW v \in Workers \ {w}, Len(ops[v]) >= n + 1
       PROVE  Len(ops[v]) = n + 1 /\ Pos(v) = Pos(w) /\ pc[v] \in Waiting
              /\ ops[v][n + 1].op = r.op
  <2>1. Left(w) = n /\ Left(v) <= n
    BY <1>1, <1>6, <1>7
  <2>2. pc[v] \in Waiting /\ Left(v) = n /\ Len(ops[v]) = n + 1
    BY <1>1, <1>11, <2>1
  <2>3. Pos(v) = Pos(w)
    BY <2>1, <2>2 DEF PairInv, SyncInv
  <2>4. ops[v][n + 1].op = Pos(v)[1]
    BY <2>2 DEF WorkerInv, EnteredInv
  <2>. QED  BY <1>2, <2>2, <2>3, <2>4
<1>12. ASSUME NEW u \in Workers, NEW v \in Workers, NEW i \in DOMAIN ops'[u] \cap DOMAIN ops'[v]
       PROVE  ops'[u][i].op = ops'[v][i].op
  <2>1. /\ \A x \in Workers : DOMAIN ops[x] = 1 .. Len(ops[x])
        /\ DOMAIN ops'[w] = 1 .. n + 1
    BY <1>4, <1>8
  <2>2. \A x \in Workers : i \in DOMAIN ops'[x] => i \in DOMAIN ops[x] \/ (x = w /\ i = n + 1)
    BY <1>7, <1>9, <2>1
  <2>3. \A x \in Workers : i \in DOMAIN ops[x] => ops'[x][i] = ops[x][i]
    BY <1>7, <1>8, <1>9, <2>1
  <2>4. ASSUME NEW x \in Workers \ {w}, i \in DOMAIN ops[x], i = n + 1
        PROVE  ops'[x][i].op = r.op
    BY <1>1, <1>11, <2>1, <2>3, <2>4
  <2>5. \A x \in Workers : x # w => i # n + 1 \/ i \in DOMAIN ops[x] \/ i \notin DOMAIN ops'[x]
    BY <2>2
  <2>6. CASE i \in DOMAIN ops[u] /\ i \in DOMAIN ops[v]
    BY <2>3, <2>6 DEF SameCollectives
  <2>7. CASE i = n + 1
    <3>1. \A x \in Workers : i \in DOMAIN ops'[x] => ops'[x][i].op = r.op
      BY <1>8, <2>2, <2>4, <2>7
    <3>. QED  BY <3>1
  <2>. QED  BY <2>2, <2>6, <2>7
<1>13. SameCollectives'
  BY <1>5, <1>12 DEF SameCollectives
<1>14. ASSUME NEW v \in Workers PROVE EnteredInv(v)'
  <2>1. \A u \in Workers : Pos(u)' = Pos(u)
    BY EnterOther
  <2>2. CASE v = w
    <3>0. PICK t : t = ops'[w]
      OBVIOUS
    <3>01. Len(t) = n + 1 /\ t[n + 1] = r /\ r.op = Pos(w)[1]
      BY <1>2, <1>8, <3>0
    <3>02. t # << >>
      BY <3>01
    <3>1. ops'[w] # << >> /\ ops'[w][Len(ops'[w])].op = Pos(w)[1]
      BY <3>0, <3>01, <3>02

    <3>2. ops'[v] # << >> /\ ops'[v][Len(ops'[v])].op = Pos(v)[1]
      BY <2>2, <3>1
    <3>. QED  BY <2>1, <3>2 DEF EnteredInv

  <2>3. CASE v # w
    BY <1>9, <2>1, <2>3 DEF WorkerInv, EnteredInv
  <2>. QED  BY <2>2, <2>3
<1>. QED  BY <1>5, <1>10, <1>13, <1>14

LEMMA EnterWorkers ==
  ASSUME ShapeInv, \A w \in Workers : WorkerInv(w), \A v, w \in Workers : PairInv(v, w),
         \A v \in Workers : EnteredInv(v)', NEW w \in Workers, NEW r, Enters(w, r)
  PROVE  \A v \in Workers : WorkerInv(v)'
<1>1. /\ \A v \in Workers : Len(ops[v]) \in Nat /\ Left(v) \in Nat
      /\ \A v \in Workers : pc[v] \in Waiting => Len(ops[v]) = Left(v) + 1
      /\ \A v \in Workers : pc[v] \notin Waiting => Len(ops[v]) = Left(v)
      /\ \A u, v \in Workers : Left(v) <= Len(ops[u])
  BY LeftIs DEF WorkerInv, PairInv
<1>2. /\ ops' = [ops EXCEPT ![w] = Append(@, r)] /\ r \in Ops /\ r.op = Pos(w)[1]
      /\ config' = config /\ phase' = phase /\ slices' = slices /\ micros' = micros
      /\ heap' = heap /\ len' = len /\ old' = old
      /\ (pc[w] = "count" => r.n \in 1 .. Len(Slice(w)))
  BY DEF Enters, Still
<1>3. PICK q : <<pc[w], q>> \in Entering /\ pc' = [pc EXCEPT ![w] = q]
  BY DEF Enters
<1>4. DOMAIN pc = Workers /\ ops \in [Workers -> Seq(Ops)]
  BY DEF ShapeInv
<1>5. Workers' = Workers /\ Rec' = Rec
  BY <1>2 DEF Workers, World, Rec, Rows
<1>6. pc[w] \notin Waiting /\ q \in Waiting /\ pc'[w] = q
  BY <1>3, <1>4 DEF Entering, Waiting
<1>7. PICK n \in Nat : n = Len(ops[w])
  BY <1>1
<1>8. /\ Len(ops'[w]) = n + 1 /\ ops'[w] # << >>
      /\ \A i \in 1 .. n : ops'[w][i] = ops[w][i]
      /\ ops'[w][n + 1] = r
  <2>1. ops'[w] = Append(ops[w], r) /\ ops[w] \in Seq(Ops)
    BY <1>2, <1>4
  <2>2. \A i \in 1 .. n : Append(ops[w], r)[i] = ops[w][i]
    BY <1>7, <2>1
  <2>. QED  BY <1>2, <1>7, <2>1, <2>2
<1>9. \A v \in Workers \ {w} : ops'[v] = ops[v] /\ pc'[v] = pc[v]
  BY <1>2, <1>3, <1>4
<1>10. ASSUME NEW u \in Workers, NEW v \in Workers, Left(u) = Left(v), pc[u] \in {"count", "reduce"}
       PROVE  pc[v] \in {"count", "reduce"} /\ Len(Slice(u)) = Len(Slice(v))
  <2>1. Pos(u) = Pos(v)
    BY <1>10 DEF PairInv, SyncInv
  <2>2. pc[v] \in {"count", "reduce"} /\ Len(slices[u]) = Len(slices[v])
    BY <1>10, <2>1 DEF Pos
  <2>3. slices[u] \in Seq(Seq(Rec)) /\ slices[u] # << >> /\ slices[v] \in Seq(Seq(Rec)) /\ slices[v] # << >>
    BY <1>10, <2>2 DEF WorkerInv, SliceInv, Filled
  <2>4. 1 \in DOMAIN slices[u] /\ 1 \in DOMAIN slices[v]
    BY <2>3
  <2>. QED  BY <2>2, <2>4 DEF PairInv, Geometry, Slice
<1>11. ASSUME NEW u \in Workers, pc'[u] \in {"reduce", "merge"}
       PROVE  /\ ops'[u] # << >>
              /\ \A v \in Workers :
                   Len(ops'[v]) >= Len(ops'[u]) => ops'[v][Len(ops'[u])].n \in 1 .. Len(Slice(u))
  <2>1. CASE u # w
    <3>1. pc[u] \in {"reduce", "merge"} /\ ops'[u] = ops[u] /\ ops[u] # << >>
      BY <1>9, <1>11, <2>1 DEF WorkerInv, CountInv
    <3>2. PICK j \in Nat \ {0} : j = Len(ops[u])
      BY <1>4, <3>1
    <3>3. \A v \in Workers : Len(ops[v]) >= j => ops[v][j].n \in 1 .. Len(Slice(u))
      BY <3>1, <3>2 DEF WorkerInv, CountInv
    <3>4. ASSUME NEW v \in Workers, Len(ops'[v]) >= j PROVE ops'[v][j].n \in 1 .. Len(Slice(u))
      <4>1. CASE v # w
        BY <1>9, <3>3, <3>4, <4>1
      <4>2. CASE v = w /\ n >= j
        <5>1. ops'[w][j] = ops[w][j] /\ Len(ops[w]) >= j
          BY <1>7, <1>8, <4>2
        <5>. QED  BY <3>3, <4>2, <5>1
      <4>3. CASE v = w /\ n < j
        <5>1. j = n + 1
          BY <1>8, <3>4, <4>3
        <5>2. Left(w) = n
          BY <1>1, <1>6, <1>7
        <5>3. Left(u) <= n
          BY <1>1, <1>7
        <5>31. Len(ops[u]) = n + 1
          BY <3>2, <5>1
        <5>4. pc[u] \in Waiting /\ Left(u) = n
          BY <1>1, <5>3, <5>31

        <5>5. pc[u] = "reduce"
          BY <3>1, <5>4 DEF Waiting
        <5>6. pc[w] \in {"count", "reduce"} /\ Len(Slice(u)) = Len(Slice(w))
          BY <1>10, <5>2, <5>4, <5>5
        <5>7. pc[w] = "count"
          BY <1>6, <5>6 DEF Waiting
        <5>. QED  BY <1>2, <1>8, <4>3, <5>1, <5>6, <5>7
      <4>. QED  BY <3>2, <4>1, <4>2, <4>3
    <3>. QED  BY <3>1, <3>2, <3>4
  <2>2. CASE u = w
    <3>1. pc[w] = "count"
      BY <1>3, <1>6, <1>11, <2>2 DEF Entering
    <3>2. ASSUME NEW v \in Workers, Len(ops'[v]) >= n + 1
          PROVE  ops'[v][n + 1].n \in 1 .. Len(Slice(w))
      <4>1. CASE v = w
        BY <1>2, <1>8, <3>1, <4>1
      <4>2. CASE v # w
        <5>1. Len(ops[v]) >= n + 1 /\ ops'[v] = ops[v]
          BY <1>9, <3>2, <4>2
        <5>2. Left(w) = n /\ Left(v) <= n
          BY <1>1, <1>6, <1>7
        <5>3. pc[v] \in Waiting /\ Left(v) = n /\ Len(ops[v]) = n + 1
          BY <1>1, <5>1, <5>2
        <5>4. pc[v] \in {"count", "reduce"} /\ Len(Slice(v)) = Len(Slice(w))
          BY <1>10, <3>1, <5>2, <5>3
        <5>5. pc[v] = "reduce"
          BY <5>3, <5>4 DEF Waiting
        <5>6. ops[v][Len(ops[v])].n \in 1 .. Len(Slice(v))
          BY <1>1, <5>5 DEF WorkerInv, CountInv
        <5>. QED  BY <5>1, <5>3, <5>4, <5>6
      <4>. QED  BY <4>1, <4>2
    <3>. QED  BY <1>8, <2>2, <3>2
  <2>. QED  BY <2>1, <2>2
<1>12. ASSUME NEW u \in Workers PROVE CountInv(u)'
  BY <1>2, <1>5, <1>11 DEF CountInv, Slice
<1>13. ASSUME NEW u \in Workers PROVE MergeInv(u)'
  <2>1. SUFFICES ASSUME pc'[u] = "merge" PROVE MergeInv(u)'
    BY DEF MergeInv
  <2>2. u # w
    BY <1>6, <2>1 DEF Waiting
  <2>3. pc[u] = "merge" /\ pc[u] \notin Waiting
    BY <1>9, <2>1, <2>2 DEF Waiting
  <2>4. Agreed(u)' = Agreed(u)
    BY <1>1, <2>2, <2>3, EnterOther
  <2>. QED  BY <1>2, <2>3, <2>4 DEF WorkerInv, MergeInv, Slice
<1>14. ASSUME NEW u \in Workers
       PROVE  /\ pc'[u] \in Places \cup Waiting
              /\ pc'[u] \in {"forward", "run"} => pc[u] \in {"forward", "run"}
              /\ pc'[u] # "replied" => pc[u] # "replied"
  BY <1>3, <1>6, <1>9 DEF WorkerInv, Entering
<1>15. ASSUME NEW u \in Workers PROVE SliceInv(u)' /\ MicroInv(u)'
  BY <1>2, <1>5, <1>14 DEF WorkerInv, SliceInv, MicroInv, Filled
<1>. QED  BY <1>5, <1>12, <1>13, <1>14, <1>15 DEF WorkerInv, Places, Waiting

(* A worker leaves a collective that all have entered, or does something   *)
(* of its own.                                                             *)
Moves(w) ==
  /\ Still /\ ops' = ops
  /\ DOMAIN pc' = Workers /\ DOMAIN slices' = Workers /\ DOMAIN micros' = Workers
  /\ \A v \in Workers \ {w} : /\ pc'[v] = pc[v] /\ slices'[v] = slices[v]
                              /\ micros'[v] = micros[v] /\ heap'[v] = heap[v]
  /\ pc[w] \notin {"idle", "replied"} /\ pc'[w] \in Places
  /\ SliceInv(w)' /\ MicroInv(w)' /\ MergeInv(w)'
  /\ slices'[w] \in {slices[w], Tail(slices[w])}
  /\ pc'[w] = "merge" => pc[w] \in {"reduce", "merge"} /\ slices'[w] = slices[w]
  /\ IF pc[w] \in Waiting THEN Passed(w) /\ Pos(w)' = After(w) ELSE Pos(w)' = Pos(w)

LEMMA AfterSame ==
  ASSUME ShapeInv, NEW v \in Workers, NEW w \in Workers, WorkerInv(v), WorkerInv(w),
         Geometry(v, w), Pos(v) = Pos(w), pc[v] \in Waiting, pc[w] \in Waiting,
         Len(ops[v]) = Len(ops[w])
  PROVE  After(v) = After(w)
<1>1. pc[v] = pc[w] /\ Len(slices[v]) = Len(slices[w])
  BY DEF Pos, Waiting
<1>2. /\ slices[v] \in Seq(Seq(Rec)) /\ slices[v] # << >>
      /\ slices[w] \in Seq(Seq(Rec)) /\ slices[w] # << >>
  BY DEF WorkerInv, SliceInv, Filled, Waiting
<1>3. Agreed(v) = Agreed(w)
  BY DEF Agreed
<1>4. Len(Slice(v)) = Len(Slice(w))
  <2>1. 1 \in DOMAIN slices[v] /\ 1 \in DOMAIN slices[w]
    BY <1>2
  <2>. QED  BY <1>1, <2>1 DEF Geometry, Slice
<1>5. Len(slices[v]) # 1 => Len(slices[v][2]) = Len(slices[w][2])
  <2>1. SUFFICES ASSUME Len(slices[v]) # 1 PROVE Len(slices[v][2]) = Len(slices[w][2])
    OBVIOUS
  <2>0. ASSUME NEW s \in Seq(Seq(Rec)), s # << >>, Len(s) # 1 PROVE 2 \in DOMAIN s
    <3>1. Len(s) \in Nat /\ DOMAIN s = 1 .. Len(s) /\ Len(s) # 0
      BY <2>0
    <3>. QED  BY <2>0, <3>1

  <2>2. 2 \in DOMAIN slices[v] /\ 2 \in DOMAIN slices[w]
    BY <1>1, <1>2, <2>0, <2>1
  <2>. QED  BY <1>1, <2>2 DEF Geometry
<1>6. pc[v] = "run" => Len(micros[v]) = Len(micros[w])
  BY <1>1 DEF Pos
<1>. QED  BY <1>1, <1>3, <1>4, <1>5, <1>6 DEF After, Cuts

LEMMA MoveOther ==
  ASSUME ShapeInv, NEW w \in Workers, Moves(w)
  PROVE  /\ \A v \in Workers \ {w} : Left(v)' = Left(v) /\ Pos(v)' = Pos(v) /\ After(v)' = After(v)
         /\ \A v \in Workers : Agreed(v)' = Agreed(v)
         /\ pc[w] \in Waiting => Left(w)' = Left(w) + 1
         /\ pc[w] \notin Waiting => Left(w)' = Left(w)
<1>1. /\ ops' = ops /\ config' = config /\ phase' = phase
      /\ \A v \in Workers \ {w} : /\ pc'[v] = pc[v] /\ slices'[v] = slices[v]
                                  /\ micros'[v] = micros[v] /\ heap'[v] = heap[v]
      /\ pc'[w] \in Places
  BY DEF Moves, Still
<1>2. Workers' = Workers
  BY <1>1 DEF Workers, World
<1>3. \A v \in Workers : Agreed(v)' = Agreed(v)
  BY <1>1, <1>2 DEF Agreed
<1>4. \A v \in Workers : ops[v] \in Seq(Ops) /\ Len(ops[v]) \in Nat
  BY DEF ShapeInv
<1>5. pc'[w] \notin Waiting
  BY <1>1 DEF Places, Waiting
<1>6. ASSUME NEW v \in Workers \ {w}
      PROVE  Left(v)' = Left(v) /\ Pos(v)' = Pos(v) /\ After(v)' = After(v)
  <2>1. Left(v)' = Left(v)
    BY <1>1 DEF Left
  <2>2. Pos(v)' = Pos(v)
    BY <1>1, <1>3 DEF Pos, Slice
  <2>3. After(v)' = After(v)
    BY <1>1, <1>3 DEF After, Slice, Cuts
  <2>. QED  BY <2>1, <2>2, <2>3
<1>7. pc[w] \in Waiting => Left(w)' = Left(w) + 1
  BY <1>1, <1>4, <1>5 DEF Left
<1>8. pc[w] \notin Waiting => Left(w)' = Left(w)
  BY <1>1, <1>5 DEF Left
<1>. QED  BY <1>3, <1>6, <1>7, <1>8

LEMMA MoveSync ==
  ASSUME ShapeInv, \A w \in Workers : WorkerInv(w), \A v, w \in Workers : PairInv(v, w),
         NEW w \in Workers, Moves(w)
  PROVE  \A u, v \in Workers : SyncInv(u, v)'
<1>1. /\ \A v \in Workers : Len(ops[v]) \in Nat /\ Left(v) \in Nat
      /\ \A v \in Workers : pc[v] \in Waiting => Len(ops[v]) = Left(v) + 1
      /\ \A v \in Workers : pc[v] \notin Waiting => Len(ops[v]) = Left(v)
      /\ \A u, v \in Workers : Left(v) <= Len(ops[u])
  BY LeftIs DEF WorkerInv, PairInv
<1>2. /\ \A v \in Workers \ {w} : Left(v)' = Left(v) /\ Pos(v)' = Pos(v) /\ After(v)' = After(v)
      /\ pc[w] \in Waiting => Left(w)' = Left(w) + 1
      /\ pc[w] \notin Waiting => Left(w)' = Left(w)
  BY MoveOther
<1>3. /\ ops' = ops
      /\ pc[w] \in Waiting => Pos(w)' = After(w) /\ \A v \in Workers : Len(ops[v]) >= Len(ops[w])
      /\ pc[w] \notin Waiting => Pos(w)' = Pos(w)
  BY DEF Moves, Passed
<1>4. \A u, v \in Workers : SyncInv(u, v)
  BY DEF PairInv
<1>5. ASSUME NEW u \in Workers, NEW v \in Workers PROVE Len(ops'[u]) >= Left(v)'
  BY <1>1, <1>2, <1>3
<1>6. \A v \in Workers \ {w} : (Left(v) = Left(w) => Pos(v) = Pos(w))
                               /\ (Left(v) = Left(w) + 1 => Pos(v) = After(w))
                               /\ (Left(w) = Left(v) + 1 => Pos(w) = After(v))
                               /\ (Left(v) = Left(w) => Pos(w) = Pos(v))
  BY <1>4 DEF SyncInv
<1>7. ASSUME NEW u \in Workers, NEW v \in Workers, Left(u)' = Left(v)'
      PROVE  Pos(u)' = Pos(v)'
  <2>1. CASE u # w /\ v # w
    BY <1>2, <1>4, <1>7, <2>1 DEF SyncInv
  <2>2. CASE u = w /\ v = w
    BY <2>2
  <2>3. ASSUME NEW x \in Workers \ {w}, Left(w)' = Left(x)' PROVE Pos(w)' = Pos(x)'
    <3>1. CASE pc[w] \in Waiting
      <4>1. Left(x) = Left(w) + 1
        BY <1>2, <2>3, <3>1
      <4>. QED  BY <1>2, <1>3, <1>6, <3>1, <4>1
    <3>2. CASE pc[w] \notin Waiting
      <4>1. Left(x) = Left(w)
        BY <1>2, <2>3, <3>2
      <4>. QED  BY <1>2, <1>3, <1>6, <3>2, <4>1
    <3>. QED  BY <3>1, <3>2
  <2>. QED  BY <1>7, <2>1, <2>2, <2>3
<1>8. ASSUME NEW v \in Workers \ {w}, Left(v)' = Left(w)' + 1 PROVE FALSE
  <2>1. Left(v) <= Len(ops[w])
    BY <1>1
  <2>2. CASE pc[w] \in Waiting
    BY <1>1, <1>2, <1>8, <2>1, <2>2
  <2>3. CASE pc[w] \notin Waiting
    BY <1>1, <1>2, <1>8, <2>1, <2>3
  <2>. QED  BY <2>2, <2>3
<1>9. ASSUME NEW v \in Workers \ {w}, Left(w)' = Left(v)' + 1 PROVE Pos(w)' = After(v)'
  <2>1. CASE pc[w] \in Waiting
    <3>1. Left(w) = Left(v) /\ Pos(v) = Pos(w)
      BY <1>1, <1>2, <1>6, <1>9, <2>1
    <3>2. Len(ops[v]) >= Left(v) + 1
      BY <1>1, <1>3, <2>1, <3>1
    <3>3. pc[v] \in Waiting /\ Len(ops[v]) = Len(ops[w])
      BY <1>1, <2>1, <3>1, <3>2
    <3>4. After(v) = After(w)
      BY <2>1, <3>1, <3>3, AfterSame DEF PairInv
    <3>. QED  BY <1>2, <1>3, <2>1, <3>4
  <2>2. CASE pc[w] \notin Waiting
    <3>1. Left(w) = Left(v) + 1
      BY <1>2, <1>9, <2>2
    <3>. QED  BY <1>2, <1>3, <1>6, <2>2, <3>1
  <2>. QED  BY <2>1, <2>2
<1>10. ASSUME NEW u \in Workers, NEW v \in Workers, Left(u)' = Left(v)' + 1
       PROVE  Pos(u)' = After(v)'
  <2>1. CASE u # w /\ v # w
    BY <1>2, <1>4, <1>10, <2>1 DEF SyncInv
  <2>2. CASE u = w /\ v # w
    BY <1>9, <1>10, <2>2
  <2>3. CASE u # w /\ v = w
    BY <1>8, <1>10, <2>3
  <2>4. CASE u = w /\ v = w
    <3>1. Left(w)' \in Int
      BY <1>1, <1>2
    <3>2. Left(w)' = Left(w)' + 1
      BY <1>10, <2>4
    <3>. QED  BY <3>1, <3>2
  <2>. QED  BY <2>1, <2>2, <2>3, <2>4
<1>. QED  BY <1>5, <1>7, <1>10 DEF SyncInv

LEMMA MoveGeometry ==
  ASSUME \A w \in Workers : SliceInv(w), \A v, w \in Workers : Geometry(v, w),
         NEW w \in Workers, Moves(w), pc[w] # "replied"
  PROVE  \A u, v \in Workers : Geometry(u, v)'
<1>1. /\ \A v \in Workers \ {w} : slices'[v] = slices[v]
      /\ slices'[w] \in {slices[w], Tail(slices[w])}
  BY DEF Moves
<1>2. \A v \in Workers : slices[v] \in Seq(Seq(Rec)) /\ DOMAIN slices[v] = 1 .. Len(slices[v])
  BY DEF SliceInv, Filled
<1>3. ASSUME NEW v \in Workers
      PROVE  \E d \in {0, 1} : /\ Len(slices[v]) - d \in Nat
                               /\ Len(slices'[v]) = Len(slices[v]) - d
                               /\ DOMAIN slices'[v] = 1 .. Len(slices[v]) - d
                               /\ \A a \in DOMAIN slices'[v] : slices'[v][a] = slices[v][a + d]
  <2>1. CASE slices'[v] = slices[v]
    <3>1. Len(slices[v]) - 0 = Len(slices[v])
      BY <1>2
    <3>2. \A a \in DOMAIN slices[v] : a + 0 = a
      BY <1>2
    <3>. QED  BY <1>2, <2>1, <3>1, <3>2
  <2>2. CASE slices'[v] # slices[v]
    <3>1. v = w /\ slices'[v] = Tail(slices[v])
      BY <1>1, <2>2
    <3>2. slices[v] # << >>
      BY <3>1 DEF SliceInv
    <3>3. PICK s : s = slices[v]
      OBVIOUS
    <3>4. s \in Seq(Seq(Rec)) /\ s # << >>
      BY <1>2, <3>2, <3>3
    <3>5. /\ Len(s) - 1 \in Nat /\ Len(Tail(s)) = Len(s) - 1
          /\ DOMAIN Tail(s) = 1 .. Len(s) - 1
          /\ \A a \in 1 .. Len(s) - 1 : Tail(s)[a] = s[a + 1]
      BY <3>4
    <3>. QED  BY <3>1, <3>3, <3>5
  <2>. QED  BY <2>1, <2>2
<1>4. ASSUME NEW u \in Workers, NEW v \in Workers, NEW a \in DOMAIN slices'[u],
             NEW b \in DOMAIN slices'[v], Len(slices'[u]) - a = Len(slices'[v]) - b
      PROVE  Len(slices'[u][a]) = Len(slices'[v][b])
  <2>1. PICK d \in {0, 1} : /\ Len(slices[u]) - d \in Nat
                            /\ Len(slices'[u]) = Len(slices[u]) - d
                            /\ DOMAIN slices'[u] = 1 .. Len(slices[u]) - d
                            /\ \A c \in DOMAIN slices'[u] : slices'[u][c] = slices[u][c + d]
    BY <1>3
  <2>2. PICK e \in {0, 1} : /\ Len(slices[v]) - e \in Nat
                            /\ Len(slices'[v]) = Len(slices[v]) - e
                            /\ DOMAIN slices'[v] = 1 .. Len(slices[v]) - e
                            /\ \A c \in DOMAIN slices'[v] : slices'[v][c] = slices[v][c + e]
    BY <1>3
  <2>3. Len(slices[u]) \in Nat /\ Len(slices[v]) \in Nat
    BY <1>2
  <2>30. PICK m \in Nat, n \in Nat : m = Len(slices[u]) /\ n = Len(slices[v])
    BY <2>3
  <2>31. /\ a \in 1 .. m - d /\ DOMAIN slices[u] = 1 .. m
         /\ b \in 1 .. n - e /\ DOMAIN slices[v] = 1 .. n
    BY <1>2, <2>1, <2>2, <2>30
  <2>4. a + d \in DOMAIN slices[u] /\ b + e \in DOMAIN slices[v]
    BY <2>31
  <2>5. Len(slices[u]) - (a + d) = Len(slices[v]) - (b + e)
    BY <1>4, <2>1, <2>2, <2>3
  <2>6. Len(slices[u][a + d]) = Len(slices[v][b + e])
    BY <2>4, <2>5 DEF Geometry
  <2>. QED  BY <2>1, <2>2, <2>6
<1>. QED  BY <1>4 DEF Geometry

LEMMA MoveWorkers ==
  ASSUME ShapeInv, SameCollectives, \A w \in Workers : WorkerInv(w),
         \A v, w \in Workers : PairInv(v, w), NEW w \in Workers, Moves(w)
  PROVE  ShapeInv' /\ SameCollectives' /\ \A v \in Workers : WorkerInv(v)'
<1>1. /\ ops' = ops /\ config' = config /\ phase' = phase /\ len' = len /\ old' = old
      /\ \A v \in Workers \ {w} : /\ pc'[v] = pc[v] /\ slices'[v] = slices[v]
                                  /\ micros'[v] = micros[v] /\ heap'[v] = heap[v]
      /\ pc'[w] \in Places /\ pc[w] \notin {"idle", "replied"}
      /\ DOMAIN pc' = Workers /\ DOMAIN slices' = Workers /\ DOMAIN micros' = Workers
      /\ SliceInv(w)' /\ MicroInv(w)' /\ MergeInv(w)'
      /\ pc'[w] = "merge" => pc[w] \in {"reduce", "merge"} /\ slices'[w] = slices[w]
  BY DEF Moves, Still
<1>2. Workers' = Workers /\ Rec' = Rec /\ InCall' = InCall
  BY <1>1 DEF Workers, World, Rec, Rows, InCall
<1>3. ShapeInv'
  <2>1. ~InCall => FALSE
    BY <1>1 DEF ShapeInv
  <2>. QED  BY <1>1, <1>2, <2>1 DEF ShapeInv, Ops
<1>4. SameCollectives'
  BY <1>1, <1>2 DEF SameCollectives
<1>5. pc'[w] \notin Waiting
  BY <1>1 DEF Places, Waiting
<1>6. /\ \A v \in Workers \ {w} : Pos(v)' = Pos(v)
      /\ \A v \in Workers : Agreed(v)' = Agreed(v)
  BY MoveOther
<1>7. ASSUME NEW v \in Workers PROVE WorkerInv(v)'
  <2>1. CASE v # w
    <3>1. CountInv(v)'
      BY <1>1, <1>2, <2>1 DEF WorkerInv, CountInv, Slice
    <3>2. MergeInv(v)'
      BY <1>1, <1>6, <2>1 DEF WorkerInv, MergeInv, Slice
    <3>3. EnteredInv(v)'
      BY <1>1, <1>6, <2>1 DEF WorkerInv, EnteredInv
    <3>4. SliceInv(v)' /\ MicroInv(v)'
      <4>1. /\ pc'[v] = pc[v] /\ slices'[v] = slices[v] /\ micros'[v] = micros[v]
            /\ Seq(Seq(Rec))' = Seq(Seq(Rec))
        BY <1>1, <1>2, <2>1
      <4>2. SliceInv(v)'
        BY <4>1 DEF WorkerInv, SliceInv, Filled
      <4>3. MicroInv(v)'
        BY <4>1 DEF WorkerInv, MicroInv, Filled
      <4>. QED  BY <4>2, <4>3
    <3>5.
 pc'[v] \in Places \cup Waiting
      BY <1>1, <2>1 DEF WorkerInv
    <3>6. (Places \cup Waiting)' = Places \cup Waiting
      BY DEF Places, Waiting
    <3>. QED  BY <3>1, <3>2, <3>3, <3>4, <3>5, <3>6 DEF WorkerInv
  <2>2. WorkerInv(w)'

    <3>1. CountInv(w)'
      <4>1. CASE pc'[w] = "merge"
        BY <1>1, <1>2, <4>1 DEF WorkerInv, CountInv, Slice
      <4>2. CASE pc'[w] # "merge"
        BY <1>5, <4>2 DEF CountInv, Waiting
      <4>. QED  BY <4>1, <4>2
    <3>2. EnteredInv(w)'
      BY <1>5 DEF EnteredInv
    <3>. QED  BY <1>1, <3>1, <3>2 DEF WorkerInv, Places, Waiting
  <2>. QED  BY <2>1, <2>2
<1>. QED  BY <1>3, <1>4, <1>7

(* A worker's step of either kind keeps the invariant.                     *)
LEMMA DriverSame ==
  ASSUME ConfigInv, DriverInv, InCall, Still, DOMAIN heap' = DOMAIN heap
  PROVE  ConfigInv' /\ DriverInv' /\ InCall'
<1>1. /\ config' = config /\ len' = len /\ order' = order /\ phase' = phase
      /\ phase # "balancing"
  BY DEF Still, InCall
<1>2. World' = World /\ Rows' = Rows /\ Limit' = Limit /\ Mini' = Mini
  BY <1>1 DEF World, Rows, Limit, Mini
<1>3. ConfigInv'
  BY <1>1, <1>2 DEF ConfigInv
<1>4. DriverInv'
  BY <1>1, <1>2 DEF DriverInv
<1>. QED  BY <1>1, <1>3, <1>4 DEF InCall

LEMMA WorkInv ==
  ASSUME IInv, InCall, NEW w \in Workers, DOMAIN heap' = DOMAIN heap,
         (\E r : Enters(w, r)) \/ Moves(w)
  PROVE  IInv'
<1>1. /\ ShapeInv /\ SameCollectives /\ ConfigInv /\ DriverInv
      /\ \A v \in Workers : WorkerInv(v)
      /\ \A u, v \in Workers : PairInv(u, v)
  BY DEF IInv, CallInv
<1>2. Still
  BY DEF Enters, Moves
<1>3. ConfigInv' /\ DriverInv'
  BY <1>1, <1>2, DriverSame
<1>4. Workers' = Workers
  BY <1>2 DEF Workers, World, Still
<1>5. CASE \E r : Enters(w, r)
  <2>1. PICK r : Enters(w, r)
    BY <1>5
  <2>2. \A u, v \in Workers : PairInv(u, v)'
    BY <1>1, <2>1, EnterSync
  <2>3. ShapeInv' /\ SameCollectives' /\ \A v \in Workers : EnteredInv(v)'
    BY <1>1, <2>1, EnterSame
  <2>4. \A v \in Workers : WorkerInv(v)'
    BY <1>1, <2>1, <2>3, EnterWorkers
  <2>. QED  BY <1>3, <1>4, <2>2, <2>3, <2>4 DEF IInv, CallInv
<1>6. CASE Moves(w)
  <2>1. \A u, v \in Workers : SyncInv(u, v)'
    BY <1>1, <1>6, MoveSync
  <2>2. \A u, v \in Workers : Geometry(u, v)'
    <3>1. pc[w] # "replied"
      BY <1>6 DEF Moves
    <3>2. /\ \A v \in Workers : SliceInv(v)
          /\ \A u, v \in Workers : Geometry(u, v)
      BY <1>1 DEF WorkerInv, PairInv
    <3>. QED  BY <1>6, <3>1, <3>2, MoveGeometry
  <2>3. ShapeInv' /\ SameCollectives' /\ \A v \in Workers : WorkerInv(v)'
    BY <1>1, <1>6, MoveWorkers
  <2>. QED  BY <1>3, <1>4, <2>1, <2>2, <2>3 DEF IInv, CallInv, PairInv
<1>. QED  BY <1>5, <1>6

(* What holds of a worker at work.                                         *)
AtWork(w) ==
  /\ InCall /\ WorkerInv(w) /\ ConfigInv
  /\ ops \in [Workers -> Seq(Ops)]
  /\ DOMAIN pc = Workers /\ DOMAIN slices = Workers /\ DOMAIN micros = Workers
  /\ DOMAIN heap = 0 .. World
  /\ Filled(slices[w]) /\ slices[w] # << >> /\ Len(slices[w]) \in Nat \ {0}
  /\ slices[w][1] \in Seq(Rec) /\ Len(Slice(w)) \in Nat \ {0}
  /\ DOMAIN Slice(w) = 1 .. Len(Slice(w))
  /\ \A i \in 1 .. Len(Slice(w)) : Slice(w)[i] \in Rec /\ Slice(w)[i].id \in Rows
  /\ Limit \in Nat \ {0}

LEMMA IsAtWork ==
  ASSUME IInv, NEW w \in Workers, pc[w] \notin {"idle", "replied"}
  PROVE  AtWork(w)
<1>1. ShapeInv /\ ConfigInv /\ DriverInv
  BY DEF IInv
<1>2. InCall
  BY <1>1 DEF ShapeInv
<1>3. WorkerInv(w)
  BY <1>2 DEF IInv, CallInv
<1>4. Filled(slices[w]) /\ slices[w] # << >>
  BY <1>3 DEF WorkerInv, SliceInv
<1>5. PICK s : s = slices[w]
  OBVIOUS
<1>6. s \in Seq(Seq(Rec)) /\ s # << >> /\ \A i \in DOMAIN s : s[i] # << >>
  BY <1>4, <1>5 DEF Filled
<1>7. Len(s) \in Nat \ {0} /\ 1 \in DOMAIN s /\ s[1] \in Seq(Rec)
  BY <1>6
<1>8. PICK t \in Seq(Rec) : t = s[1] /\ t # << >>
  BY <1>6, <1>7
<1>9. Len(t) \in Nat \ {0} /\ DOMAIN t = 1 .. Len(t) /\ \A i \in 1 .. Len(t) : t[i] \in Rec
  BY <1>8
<1>10. \A x \in Rec : x.id \in Rows
  BY DEF Rec
<1>11. Slice(w) = t
  BY <1>5, <1>8 DEF Slice
<1>12. Limit \in Nat \ {0}
  BY <1>1, Numbers
<1>13. slices[w][1] \in Seq(Rec) /\ Len(slices[w]) \in Nat \ {0}
  BY <1>5, <1>7
<1>14. /\ Len(Slice(w)) \in Nat \ {0} /\ DOMAIN Slice(w) = 1 .. Len(Slice(w))
       /\ \A i \in 1 .. Len(Slice(w)) : Slice(w)[i] \in Rec /\ Slice(w)[i].id \in Rows
  BY <1>9, <1>10, <1>11
<1>. QED  BY <1>1, <1>2, <1>3, <1>4, <1>12, <1>13, <1>14 DEF AtWork, ShapeInv, DriverInv

-----------------------------------------------------------------------------

(* The steps at which a worker enters a collective.                        *)
LEMMA RowLoads ==
  ASSUME NEW w \in Workers, AtWork(w)
  PROVE  /\ \A i \in Rows : len[i] \in 1 .. Limit /\ len[i] \in Nat \ {0}
         /\ TokensOf(Slice(w)) \in Nat
         /\ DOMAIN SliceLen(w) = 1 .. Len(Slice(w))
         /\ Total(DOMAIN SliceLen(w), SliceLen(w)) \in Nat \ {0}
         /\ DOMAIN SliceLoad(w) = 1 .. Len(Slice(w))
         /\ \A i \in 1 .. Len(Slice(w)) : SliceLoad(w)[i] \in Nat \ {0}
<1>1. PICK n \in Nat \ {0} : n = Len(Slice(w))
  BY DEF AtWork
<1>2. PICK s : s = Slice(w)
  OBVIOUS
<1>3. DOMAIN s = 1 .. n /\ \A i \in 1 .. n : s[i].id \in Rows
  BY <1>1, <1>2 DEF AtWork
<1>4. \A i \in Rows : len[i] \in 1 .. Limit /\ len[i] \in Nat \ {0}
  BY DEF AtWork, ConfigInv
<1>5. IsFiniteSet(1 .. n)
  BY FS_Interval
<1>6. TokensOf(s) \in Nat
  <2>1. \A i \in Rows : Tokens(i) \in Nat
    BY <1>4, BatchAssumption DEF Tokens, Weight
  <2>. DEFINE f == [i \in DOMAIN s |-> Tokens(s[i].id)]
  <2>2. \A i \in 1 .. n : f[i] \in Nat
    BY <1>3, <2>1
  <2>3. TokensOf(s) = Total(1 .. n, f)
    BY <1>3 DEF TokensOf
  <2>. HIDE DEF f
  <2>. QED  BY <1>5, <2>2, <2>3, TotalNat
<1>7. PICK f : f = SliceLen(w)
  OBVIOUS
<1>8. DOMAIN f = 1 .. n /\ \A i \in 1 .. n : f[i] = len[s[i].id]
  BY <1>1, <1>2, <1>7 DEF SliceLen
<1>9. \A i \in 1 .. n : f[i] \in Nat \ {0}
  BY <1>3, <1>4, <1>8
<1>10. Total(DOMAIN f, f) \in Nat \ {0}
  <2>1. Total(1 .. n, f) \in Nat /\ \A i \in 1 .. n : f[i] <= Total(1 .. n, f)
    BY <1>5, <1>9, TotalNat
  <2>2. f[1] <= Total(1 .. n, f) /\ f[1] \in Nat \ {0}
    BY <1>9, <2>1
  <2>. QED  BY <1>8, <2>1, <2>2
<1>11. DOMAIN SliceLoad(w) = 1 .. n /\ \A i \in 1 .. n : SliceLoad(w)[i] = Workload(f[i])
  BY <1>1, <1>7 DEF SliceLoad
<1>12. \A k \in Nat \ {0} : Workload(k) \in Nat \ {0}
  BY DEF Workload
<1>. QED  BY <1>1, <1>2, <1>4, <1>6, <1>7, <1>8, <1>9, <1>10, <1>11, <1>12

LEMMA EntersBy ==
  ASSUME NEW w, NEW op, NEW n \in Nat, NEW q, <<pc[w], q>> \in Entering,
         op \in {"sum", "max", "forward", "step"}, op = Pos(w)[1], Enter(w, op, n),
         pc[w] = "count" => n \in 1 .. Len(Slice(w)),
         pc' = [pc EXCEPT ![w] = q], UNCHANGED <<config, len, heap, driver, slices, micros>>
  PROVE  \E r : Enters(w, r)
<1>1. PICK r : r = [op |-> op, n |-> n]
  OBVIOUS
<1>2. r \in Ops /\ r.op = op /\ r.n = n
  BY <1>1 DEF Ops
<1>3. ops' = [ops EXCEPT ![w] = Append(@, r)]
  BY <1>1 DEF Enter
<1>4. Still /\ UNCHANGED <<heap, slices, micros>>
  BY DEF Still, driver
<1>5. \E p : <<pc[w], p>> \in Entering /\ pc' = [pc EXCEPT ![w] = p]
  OBVIOUS
<1>6. Enters(w, r)
  BY <1>2, <1>3, <1>4, <1>5 DEF Enters
<1>. QED  BY <1>6

LEMMA CountTokensEnters ==
  ASSUME NEW w \in Workers, AtWork(w), CountTokens(w)
  PROVE  \E r : Enters(w, r)
<1>1. TokensOf(Slice(w)) \in Nat /\ Enter(w, "sum", TokensOf(Slice(w)))
  BY RowLoads DEF CountTokens
<1>2. PICK n \in Nat : n = TokensOf(Slice(w)) /\ Enter(w, "sum", n)
  BY <1>1
<1>3. "sum" = Pos(w)[1] /\ pc[w] = "tokens" /\ <<pc[w], "summing">> \in Entering
  BY DEF CountTokens, Pos, Entering
<1>4. /\ pc' = [pc EXCEPT ![w] = "summing"]
      /\ UNCHANGED <<config, len, heap, driver, slices, micros>>
  BY DEF CountTokens
<1>. QED  BY <1>2, <1>3, <1>4, EntersBy

LEMMA CountEnters ==
  ASSUME NEW w \in Workers, AtWork(w), Count(w)
  PROVE  \E r : Enters(w, r)
<1>0. /\ Len(Slice(w)) \in Nat \ {0} /\ Limit \in Nat \ {0}
      /\ Total(DOMAIN SliceLen(w), SliceLen(w)) \in Nat \ {0}
  BY RowLoads DEF AtWork
<1>1. PICK n \in Nat \ {0}, t \in Nat \ {0}, l \in Nat \ {0} :
        n = Len(Slice(w)) /\ t = Total(DOMAIN SliceLen(w), SliceLen(w)) /\ l = Limit
  BY <1>0
<1>2. PICK c \in Nat \ {0} : c = Ceil(t, l)
  <2>1. (t + l - 1) \div l \in Nat
    OBVIOUS
  <2>2. (t + l - 1) \div l # 0
    <3>1. t + l - 1 < l * ((t + l - 1) \div l) + l
      OBVIOUS
    <3>. QED  BY <2>1, <3>1
  <2>. QED  BY <2>1, <2>2 DEF Ceil
<1>3. PICK m : m = (IF c < n THEN c ELSE n)
  OBVIOUS
<1>4. m \in 1 .. n /\ m \in Nat
  BY <1>3
<1>5. Enter(w, "max", m)
  BY <1>1, <1>2, <1>3 DEF Count, Needed
<1>6. "max" = Pos(w)[1] /\ <<pc[w], "reduce">> \in Entering
  BY DEF Count, Pos, Entering
<1>7. /\ pc' = [pc EXCEPT ![w] = "reduce"]
      /\ UNCHANGED <<config, len, heap, driver, slices, micros>>
  BY DEF Count
<1>. QED  BY <1>1, <1>4, <1>5, <1>6, <1>7, EntersBy

LEMMA ForwardEnters ==
  ASSUME NEW w \in Workers, Forward(w) \/ EnterStep(w)
  PROVE  \E r : Enters(w, r)
<1>1. CASE Forward(w)
  <2>1. "forward" = Pos(w)[1] /\ pc[w] = "forward" /\ <<pc[w], "run">> \in Entering
    BY <1>1 DEF Forward, Pos, Entering
  <2>2. /\ pc' = [pc EXCEPT ![w] = "run"] /\ Enter(w, "forward", 0)
        /\ UNCHANGED <<config, len, heap, driver, slices, micros>>
    BY <1>1 DEF Forward
  <2>. QED  BY <2>1, <2>2, EntersBy
<1>2. CASE EnterStep(w)
  <2>1. "step" = Pos(w)[1] /\ pc[w] = "step" /\ <<pc[w], "stepping">> \in Entering
    BY <1>2 DEF EnterStep, Pos, Entering
  <2>2. /\ pc' = [pc EXCEPT ![w] = "stepping"] /\ Enter(w, "step", 0)
        /\ UNCHANGED <<config, len, heap, driver, slices, micros>>
    BY <1>2 DEF EnterStep
  <2>. QED  BY <2>1, <2>2, EntersBy
<1>. QED  BY <1>1, <1>2

(* The steps at which it does something of its own or leaves one: what     *)
(* becomes of it, its slices, micro-batches and heap.                      *)
Put(f, g, w, x) == DOMAIN g = DOMAIN f /\ g[w] = x /\ \A v \in DOMAIN f \ {w} : g[v] = f[v]
Moved(w, p, s, m, h) ==
  /\ UNCHANGED <<config, len, driver, ops>>
  /\ Put(pc, pc', w, p) /\ Put(slices, slices', w, s)
  /\ Put(micros, micros', w, m) /\ Put(heap, heap', w, h)
  /\ p \in Places
  /\ \/ s = slices[w]
     \/ s = Tail(slices[w]) /\ (p # "replied" => Len(slices[w]) > 1)

  /\ p = "forward" => Filled(m) /\ m # << >>
  /\ p = "merge" => /\ pc[w] \in {"reduce", "merge"} /\ s = slices[w]
                    /\ HeapOf(h, 1 .. Len(Slice(w)), Agreed(w))
                    /\ \A t \in h : Filling(t, Agreed(w))
  /\ pc[w] \in Waiting => Passed(w)

LEMMA MovesBy ==
  ASSUME NEW w \in Workers, AtWork(w), pc[w] \notin {"idle", "replied"},
         NEW p, NEW s, NEW m, NEW h, Moved(w, p, s, m, h),
         Pos(w)' = IF pc[w] \in Waiting THEN After(w) ELSE Pos(w)
  PROVE  Moves(w) /\ DOMAIN heap' = DOMAIN heap
<1>1. Still /\ ops' = ops
  BY DEF Moved, Still, driver
<1>2. DOMAIN pc = Workers /\ DOMAIN slices = Workers /\ DOMAIN micros = Workers
      /\ DOMAIN heap = 0 .. World /\ Workers \subseteq 0 .. World
  BY DEF AtWork, Workers
<1>3. /\ DOMAIN pc' = Workers /\ DOMAIN slices' = Workers /\ DOMAIN micros' = Workers
      /\ DOMAIN heap' = DOMAIN heap
      /\ pc'[w] = p /\ slices'[w] = s /\ micros'[w] = m /\ heap'[w] = h
  BY <1>2 DEF Moved, Put
<1>4. \A v \in Workers \ {w} : /\ pc'[v] = pc[v] /\ slices'[v] = slices[v]
                               /\ micros'[v] = micros[v] /\ heap'[v] = heap[v]
  BY <1>2 DEF Moved, Put
<1>5. p \in Places /\ s \in {slices[w], Tail(slices[w])}
  BY DEF Moved
<1>6. Rec' = Rec /\ Workers' = Workers
  BY <1>1 DEF Rec, Rows, Still, Workers, World
<1>7. Filled(s) /\ (p # "replied" => s # << >>)
  <2>1. CASE s = slices[w]
    BY <2>1 DEF AtWork
  <2>2. CASE s # slices[w]
    <3>1. PICK t : t = slices[w]
      OBVIOUS
    <3>2. t \in Seq(Seq(Rec)) /\ t # << >> /\ \A i \in DOMAIN t : t[i] # << >>
      BY <3>1 DEF AtWork, Filled
    <3>3. s = Tail(t) /\ (p # "replied" => Len(t) > 1)
      BY <2>2, <3>1 DEF Moved
    <3>4. PICK n \in Nat : n = Len(t) - 1 /\ n + 1 = Len(t) /\ DOMAIN t = 1 .. n + 1
      BY <3>2
    <3>5. Tail(t) \in Seq(Seq(Rec)) /\ Len(Tail(t)) = n /\ DOMAIN Tail(t) = 1 .. n
      BY <3>2, <3>4
    <3>6. \A i \in 1 .. n : Tail(t)[i] = t[i + 1] /\ i + 1 \in DOMAIN t
      BY <3>2, <3>4
    <3>7. p # "replied" => Tail(t) # << >>
      <4>1. SUFFICES ASSUME p # "replied" PROVE Tail(t) # << >>
        OBVIOUS
      <4>2. Len(Tail(t)) # 0
        BY <3>3, <3>4, <3>5, <4>1
      <4>3. PICK u \in Seq(Seq(Rec)) : u = Tail(t)
        BY <3>5
      <4>31. Len(u) # 0
        BY <4>2, <4>3
      <4>4. u # << >>
        BY <4>31

      <4>. QED  BY <4>3, <4>4


    <3>. QED  BY <3>2, <3>3, <3>5, <3>6, <3>7 DEF Filled
  <2>. QED  BY <2>1, <2>2
<1>8. SliceInv(w)'
  BY <1>3, <1>6, <1>7 DEF SliceInv, Filled
<1>9. MicroInv(w)'
  <2>1. p # "run"
    BY <1>5 DEF Places
  <2>2. CASE p = "forward"
    BY <1>3, <1>6, <2>2 DEF MicroInv, Filled, Moved
  <2>3. CASE p # "forward"
    BY <1>3, <2>1, <2>3 DEF MicroInv
  <2>. QED  BY <2>2, <2>3
<1>10. MergeInv(w)'
  <2>1. SUFFICES ASSUME p = "merge" PROVE MergeInv(w)'
    BY <1>3 DEF MergeInv
  <2>2. /\ s = slices[w] /\ HeapOf(h, 1 .. Len(Slice(w)), Agreed(w))
        /\ \A t \in h : Filling(t, Agreed(w))
    BY <2>1 DEF Moved
  <2>3. Agreed(w)' = Agreed(w)
    BY <1>1, <1>6 DEF Agreed
  <2>. QED  BY <1>3, <2>2, <2>3 DEF MergeInv, Slice
<1>11. pc'[w] = "merge" => pc[w] \in {"reduce", "merge"} /\ slices'[w] = slices[w]
  BY <1>3 DEF Moved
<1>12. IF pc[w] \in Waiting THEN Passed(w) /\ Pos(w)' = After(w) ELSE Pos(w)' = Pos(w)
  BY DEF Moved
<1>13. pc'[w] \in Places /\ slices'[w] \in {slices[w], Tail(slices[w])}
  BY <1>3, <1>5
<1>. QED  BY <1>1, <1>3, <1>4, <1>8, <1>9, <1>10, <1>11, <1>12, <1>13 DEF Moves

(* Nothing but the place changes.                                          *)
LEMMA PutSame ==
  ASSUME NEW f, NEW g, NEW w, f = g
  PROVE  Put(f, g, w, f[w])
BY DEF Put

LEMMA PutNew ==
  ASSUME NEW f, NEW g, NEW w \in DOMAIN f, NEW x, g = [f EXCEPT ![w] = x]
  PROVE  Put(f, g, w, x)
BY DEF Put

LEMMA SumTokensMoves ==
  ASSUME NEW w \in Workers, AtWork(w), SumTokens(w)
  PROVE  Moves(w) /\ DOMAIN heap' = DOMAIN heap
<1>1. pc[w] = "summing" /\ Passed(w) /\ pc' = [pc EXCEPT ![w] = Cutting]
      /\ config' = config /\ len' = len /\ UNCHANGED <<config, len, driver, ops>>
      /\ heap' = heap /\ slices' = slices /\ micros' = micros /\ w \in DOMAIN pc
  BY DEF SumTokens, AtWork
<1>2. Cutting \in {"count", "split"} /\ (Cutting = "count" <=> config.dynamic)
  BY DEF Cutting
<1>3. /\ Put(pc, pc', w, Cutting) /\ Put(slices, slices', w, slices[w])
      /\ Put(micros, micros', w, micros[w]) /\ Put(heap, heap', w, heap[w])
  BY <1>1, PutSame, PutNew
<1>4. Moved(w, Cutting, slices[w], micros[w], heap[w])
  BY <1>1, <1>2, <1>3 DEF Moved, Places, Waiting
<1>5. Pos(w)' = After(w) /\ pc[w] \in Waiting
  <2>1. pc'[w] = Cutting
    BY <1>3 DEF Put
  <2>2. After(w) = Cuts(Len(slices[w]), Slice(w)) /\ pc[w] \in Waiting
    BY <1>1 DEF After, Waiting
  <2>. QED  BY <1>1, <1>2, <2>1, <2>2 DEF Pos, Cuts, Slice, Ceil
<1>. QED  BY <1>1, <1>4, <1>5, MovesBy

(* Who is not at a collective has not gone past anybody.                   *)
LEMMA MergePassed ==
  ASSUME IInv, NEW w \in Workers, pc[w] \notin {"idle", "replied"}, pc[w] \notin Waiting
  PROVE  Passed(w)
<1>1. InCall
  BY IsAtWork DEF AtWork
<1>2. \A v \in Workers : Len(ops[v]) >= Left(w)
  BY <1>1 DEF IInv, CallInv, PairInv, SyncInv
<1>. QED  BY <1>2 DEF Passed, Left

(* What they agree on, each of them can make.                              *)
LEMMA AgreedIn ==
  ASSUME NEW w \in Workers, AtWork(w), pc[w] \in {"reduce", "merge"}, Passed(w)
  PROVE  Agreed(w) \in 1 .. Len(Slice(w))
<1>1. PICK n \in Nat \ {0} : n = Len(Slice(w))
  BY DEF AtWork
<1>2. \A v \in Workers : ops[v][Len(ops[w])].n \in 1 .. n
  BY <1>1 DEF AtWork, WorkerInv, CountInv, Passed
<1>3. PICK S : S = {ops[v][Len(ops[w])].n : v \in Workers}
  OBVIOUS
<1>4. S \in SUBSET (1 .. n) /\ S # {}
  BY <1>2, <1>3
<1>5. Max(S) \in S
  BY <1>4, MaxIn
<1>. QED  BY <1>1, <1>3, <1>4, <1>5 DEF Agreed

LEMMA ReduceMoves ==
  ASSUME NEW w \in Workers, AtWork(w), Reduce(w)
  PROVE  Moves(w) /\ DOMAIN heap' = DOMAIN heap
<1>. DEFINE h == Singles(SliceLoad(w), Agreed(w))
<1>1. /\ pc[w] = "reduce" /\ Passed(w) /\ pc' = [pc EXCEPT ![w] = "merge"]
      /\ heap' = [heap EXCEPT ![w] = h]
      /\ UNCHANGED <<config, len, driver, ops>> /\ config' = config /\ ops' = ops
      /\ slices' = slices /\ micros' = micros
  BY DEF Reduce
<1>2. w \in DOMAIN pc /\ w \in DOMAIN heap
  BY DEF AtWork, Workers
<1>3. PICK k \in Nat \ {0} : k = Agreed(w)
  <2>1. Agreed(w) \in 1 .. Len(Slice(w)) /\ Len(Slice(w)) \in Nat
    BY <1>1, AgreedIn DEF AtWork
  <2>. QED  BY <2>1
<1>4. PICK n \in Nat \ {0} : n = Len(Slice(w))
  BY DEF AtWork
<1>5. /\ HeapOf(Singles(SliceLoad(w), k), 1 .. n, k)
      /\ \A s \in Singles(SliceLoad(w), k) : Filling(s, k)
  <2>0. IsFiniteSet(1 .. n)
    BY FS_Interval
  <2>1. IsFiniteSet(1 .. n) /\ 1 .. n # {}
    <3>1. 1 \in 1 .. n
      OBVIOUS
    <3>. QED  BY <2>0, <3>1
  <2>2. DOMAIN SliceLoad(w) = 1 .. n /\ \A i \in 1 .. n : SliceLoad(w)[i] \in Nat \ {0}
    BY <1>4, RowLoads
  <2>. QED  BY <2>1, <2>2, SinglesHeap
<1>. HIDE DEF h
<1>51. h = Singles(SliceLoad(w), k)
  BY <1>3 DEF h
<1>6. HeapOf(h, 1 .. Len(Slice(w)), Agreed(w)) /\ \A s \in h : Filling(s, Agreed(w))
  BY <1>3, <1>4, <1>5, <1>51

<1>7. /\ Put(pc, pc', w, "merge") /\ Put(slices, slices', w, slices[w])
      /\ Put(micros, micros', w, micros[w]) /\ Put(heap, heap', w, h)
  BY <1>1, <1>2, PutSame, PutNew
<1>8. Moved(w, "merge", slices[w], micros[w], h)
  BY <1>1, <1>6, <1>7 DEF Moved, Places
<1>9. Agreed(w)' = Agreed(w)
  BY <1>1 DEF Agreed, Workers, World
<1>10. Pos(w)' = After(w) /\ pc[w] \in Waiting
  <2>1. pc'[w] = "merge"
    BY <1>7 DEF Put
  <2>. QED  BY <1>1, <1>9, <2>1 DEF Pos, After, Waiting
<1>. QED  BY <1>1, <1>8, <1>10, MovesBy

LEMMA MergeMoves ==
  ASSUME NEW w \in Workers, AtWork(w), Passed(w), Merge(w)
  PROVE  Moves(w) /\ DOMAIN heap' = DOMAIN heap
<1>1. PICK h \in Merges(heap[w], Agreed(w)) : heap' = [heap EXCEPT ![w] = h]
  BY DEF Merge
<1>2. /\ pc[w] = "merge" /\ UNCHANGED <<config, len, driver, ops>>
      /\ config' = config /\ ops' = ops /\ pc' = pc /\ slices' = slices /\ micros' = micros
  BY DEF Merge, call
<1>3. w \in DOMAIN heap
  BY DEF AtWork, Workers
<1>4. PICK k \in Nat : k = Agreed(w)
  <2>1. Agreed(w) \in 1 .. Len(Slice(w)) /\ Len(Slice(w)) \in Nat
    BY <1>2, AgreedIn DEF AtWork
  <2>. QED  BY <2>1
<1>5. PICK D : D = 1 .. Len(Slice(w)) /\ IsFiniteSet(D)
  BY FS_Interval DEF AtWork
<1>6. HeapOf(heap[w], D, k) /\ \A s \in heap[w] : Filling(s, k)
  BY <1>2, <1>4, <1>5 DEF AtWork, WorkerInv, MergeInv
<1>7. HeapOf(h, D, k) /\ \A s \in h : Filling(s, k)
  <2>1. h \in Merges(heap[w], k)
    BY <1>1, <1>4
  <2>. QED  BY <1>5, <1>6, <2>1, MergesHeap
<1>8. HeapOf(h, 1 .. Len(Slice(w)), Agreed(w)) /\ \A s \in h : Filling(s, Agreed(w))
  BY <1>4, <1>5, <1>7
<1>9. /\ Put(pc, pc', w, pc[w]) /\ Put(slices, slices', w, slices[w])
      /\ Put(micros, micros', w, micros[w]) /\ Put(heap, heap', w, h)
  BY <1>1, <1>2, <1>3, PutSame, PutNew
<1>10. Moved(w, pc[w], slices[w], micros[w], h)
  BY <1>2, <1>8, <1>9 DEF Moved, Places, Waiting
<1>11. Pos(w)' = Pos(w) /\ pc[w] \notin Waiting
  <2>1. Agreed(w)' = Agreed(w)
    BY <1>2 DEF Agreed, Workers, World
  <2>. QED  BY <1>2, <2>1 DEF Pos, Waiting
<1>. QED  BY <1>2, <1>10, <1>11, MovesBy

LEMMA SplitMicroMoves ==
  ASSUME NEW w \in Workers, AtWork(w), SplitMicro(w)
  PROVE  Moves(w) /\ DOMAIN heap' = DOMAIN heap
<1>. DEFINE m == Split(Slice(w), Micro)
<1>1. /\ pc[w] = "split" /\ pc' = [pc EXCEPT ![w] = "forward"]
      /\ micros' = [micros EXCEPT ![w] = m]
      /\ UNCHANGED <<config, len, driver, ops>>
      /\ heap' = heap /\ slices' = slices
  BY DEF SplitMicro
<1>2. w \in DOMAIN pc /\ w \in DOMAIN micros
  BY DEF AtWork
<1>3. PICK n \in Nat \ {0}, t \in Seq(Rec) : n = Len(Slice(w)) /\ t = Slice(w)
  BY DEF AtWork, Slice
<1>4. Micro \in Nat \ {0}
  BY BatchAssumption
<1>5. SplitOf(m, Rec, n, Micro)
  BY <1>3, <1>4, SplitParts
<1>6. PICK c \in Nat \ {0} : c = Ceil(n, Micro)
  <2>1. (n + Micro - 1) \div Micro \in Nat
    BY <1>4
  <2>2. (n + Micro - 1) \div Micro # 0
    <3>1. n + Micro - 1 < Micro * ((n + Micro - 1) \div Micro) + Micro
      BY <1>4
    <3>. QED  BY <1>4, <2>1, <3>1
  <2>. QED  BY <2>1, <2>2 DEF Ceil
<1>. HIDE DEF m
<1>7. m \in Seq(Seq(Rec)) /\ Len(m) = c /\ \A i \in 1 .. c : m[i] # << >>
  BY <1>5, <1>6 DEF SplitOf
<1>8. m # << >> /\ DOMAIN m = 1 .. c
  BY <1>7
<1>9. Filled(m)
  BY <1>7, <1>8 DEF Filled
<1>10. /\ Put(pc, pc', w, "forward") /\ Put(slices, slices', w, slices[w])
       /\ Put(micros, micros', w, m) /\ Put(heap, heap', w, heap[w])
  BY <1>1, <1>2, PutSame, PutNew
<1>11. Moved(w, "forward", slices[w], m, heap[w])
  BY <1>1, <1>8, <1>9, <1>10 DEF Moved, Places, Waiting
<1>12. Pos(w)' = Pos(w) /\ pc[w] \notin Waiting
  <2>1. pc'[w] = "forward" /\ micros'[w] = m /\ slices'[w] = slices[w]
    BY <1>10 DEF Put
  <2>2. Ceil(Len(Slice(w)), Micro) = Len(m)
    BY <1>3, <1>6, <1>7
  <2>3. pc[w] = "split" /\ pc[w] \notin Waiting
    BY <1>1 DEF Waiting
  <2>4. Pos(w) = <<"forward", Len(slices[w]), Len(m)>>
    BY <2>2, <2>3 DEF Pos
  <2>5. Pos(w)' = <<"forward", Len(slices[w]), Len(m)>>
    BY <2>1 DEF Pos
  <2>. QED  BY <2>3, <2>4, <2>5
<1>. QED  BY <1>1, <1>11, <1>12, MovesBy

LEMMA RestoreMoves ==
  ASSUME NEW w \in Workers, AtWork(w), Restore(w)
  PROVE  Moves(w) /\ DOMAIN heap' = DOMAIN heap
<1>1. /\ pc[w] = "restore" /\ pc' = [pc EXCEPT ![w] = "replied"]
      /\ UNCHANGED <<config, len, driver, ops>>
      /\ heap' = heap /\ slices' = slices /\ micros' = micros /\ w \in DOMAIN pc
  BY DEF Restore, AtWork
<1>2. /\ Put(pc, pc', w, "replied") /\ Put(slices, slices', w, slices[w])
      /\ Put(micros, micros', w, micros[w]) /\ Put(heap, heap', w, heap[w])
  BY <1>1, PutSame, PutNew
<1>3. Moved(w, "replied", slices[w], micros[w], heap[w])
  BY <1>1, <1>2 DEF Moved, Places, Waiting
<1>4. Pos(w)' = Pos(w) /\ pc[w] \notin Waiting
  BY <1>1, <1>2 DEF Pos, Waiting, Put
<1>. QED  BY <1>1, <1>3, <1>4, MovesBy

LEMMA RunMoves ==
  ASSUME NEW w \in Workers, AtWork(w), Run(w)
  PROVE  Moves(w) /\ DOMAIN heap' = DOMAIN heap
<1>1. PICK p : p = IF Len(micros[w]) > 1 THEN "forward"
                 ELSE IF phase = "computing" THEN "restore" ELSE "step"
  OBVIOUS
<1>2. /\ pc[w] = "run" /\ Passed(w) /\ pc' = [pc EXCEPT ![w] = p]
      /\ micros' = [micros EXCEPT ![w] = Tail(micros[w])]
      /\ UNCHANGED <<config, len, driver, ops>>
      /\ heap' = heap /\ slices' = slices
  BY <1>1 DEF Run
<1>3. w \in DOMAIN pc /\ w \in DOMAIN micros
  BY DEF AtWork
<1>4. PICK m : m = micros[w]
  OBVIOUS
<1>5. m \in Seq(Seq(Rec)) /\ m # << >> /\ \A i \in DOMAIN m : m[i] # << >>
  BY <1>2, <1>4 DEF AtWork, WorkerInv, MicroInv, Filled
<1>6. PICK n \in Nat : Len(m) = n + 1 /\ n = Len(m) - 1 /\ DOMAIN m = 1 .. n + 1
  <2>1. Len(m) \in Nat \ {0} /\ DOMAIN m = 1 .. Len(m)
    BY <1>5
  <2>2. PICK l \in Nat \ {0} : l = Len(m)
    BY <2>1
  <2>3. l - 1 \in Nat /\ l = (l - 1) + 1
    OBVIOUS
  <2>. QED  BY <2>1, <2>2, <2>3
<1>7. PICK t : t = Tail(m)
  OBVIOUS
<1>8. t \in Seq(Seq(Rec)) /\ Len(t) = n /\ DOMAIN t = 1 .. n
  BY <1>5, <1>6, <1>7
<1>9. \A i \in 1 .. n : t[i] = m[i + 1] /\ i + 1 \in DOMAIN m
  BY <1>5, <1>6, <1>7
<1>10. Filled(t)
  BY <1>5, <1>8, <1>9 DEF Filled
<1>11. /\ n > 0 => p = "forward"
       /\ n = 0 /\ phase = "computing" => p = "restore"
       /\ n = 0 /\ phase # "computing" => p = "step"
  <2>1. p = IF n + 1 > 1 THEN "forward" ELSE IF phase = "computing" THEN "restore" ELSE "step"
    BY <1>1, <1>4, <1>6
  <2>2. n > 0 <=> n + 1 > 1
    OBVIOUS
  <2>3. n > 0 => p = "forward"
    BY <2>1, <2>2
  <2>4. n = 0 => p = IF phase = "computing" THEN "restore" ELSE "step"
    BY <2>1, <2>2
  <2>5. n = 0 => ~ (n > 0)
    OBVIOUS
  <2>. QED  BY <2>3, <2>4, <2>5


<1>12. n > 0 => t # << >>
  BY <1>8
<1>13. /\ Put(pc, pc', w, p) /\ Put(slices, slices', w, slices[w])
       /\ Put(micros, micros', w, t) /\ Put(heap, heap', w, heap[w])
  BY <1>2, <1>3, <1>4, <1>7, PutSame, PutNew
<1>14. Moved(w, p, slices[w], t, heap[w])
  BY <1>2, <1>10, <1>11, <1>12, <1>13 DEF Moved, Places, Waiting
<1>15. Pos(w)' = After(w) /\ pc[w] \in Waiting
  <2>1. /\ pc'[w] = p /\ micros'[w] = t /\ slices'[w] = slices[w]
        /\ Len(micros'[w]) = n /\ Len(micros[w]) = n + 1 /\ pc[w] \in Waiting
    BY <1>2, <1>4, <1>6, <1>8, <1>13 DEF Put, Waiting
  <2>2. PICK l : l = Len(slices[w])
    OBVIOUS
  <2>3. After(w) = IF n + 1 > 1 THEN <<"forward", l, (n + 1) - 1>>
                   ELSE IF phase = "computing" THEN <<"end", 0, 0>> ELSE <<"step", l, 0>>
    BY <1>2, <2>1, <2>2 DEF After
  <2>4. CASE n > 0
    <3>1. After(w) = <<"forward", l, n>>
      BY <2>3, <2>4
    <3>2. Pos(w)' = <<"forward", l, n>>
      BY <1>11, <2>1, <2>2, <2>4 DEF Pos
    <3>. QED  BY <2>1, <3>1, <3>2
  <2>5. CASE n = 0
    BY <1>11, <2>1, <2>2, <2>3, <2>5 DEF Pos
  <2>. QED  BY <2>4, <2>5
<1>. QED  BY <1>2, <1>14, <1>15, MovesBy

LEMMA OptimizerStepMoves ==
  ASSUME NEW w \in Workers, AtWork(w), OptimizerStep(w)
  PROVE  Moves(w) /\ DOMAIN heap' = DOMAIN heap
<1>1. PICK p : p = IF Len(slices[w]) > 1 THEN Begin ELSE "replied"
  OBVIOUS
<1>2. /\ pc[w] = "stepping" /\ Passed(w) /\ pc' = [pc EXCEPT ![w] = p]
      /\ slices' = [slices EXCEPT ![w] = Tail(slices[w])]
      /\ UNCHANGED <<config, len, driver, ops>> /\ config' = config
      /\ heap' = heap /\ micros' = micros
  BY <1>1 DEF OptimizerStep
<1>3. w \in DOMAIN pc /\ w \in DOMAIN slices
  BY DEF AtWork
<1>4. PICK s : s = slices[w]
  OBVIOUS
<1>5. s \in Seq(Seq(Rec)) /\ s # << >>
  BY <1>4 DEF AtWork, Filled
<1>6. PICK n \in Nat : Len(s) = n + 1 /\ n = Len(s) - 1
  <2>1. PICK l \in Nat \ {0} : l = Len(s)
    BY <1>5
  <2>2. l - 1 \in Nat /\ l = (l - 1) + 1
    OBVIOUS
  <2>. QED  BY <2>1, <2>2
<1>7. PICK t : t = Tail(s)
  OBVIOUS
<1>8. t \in Seq(Seq(Rec)) /\ Len(t) = n /\ (n > 0 => t[1] = s[2])
  BY <1>5, <1>6, <1>7
<1>9. Begin \in {"tokens", "count", "split"}
  BY DEF Begin, Cutting
<1>10. (n > 0 => p = Begin) /\ (n = 0 => p = "replied")
  BY <1>1, <1>4, <1>6
<1>11. /\ Put(pc, pc', w, p) /\ Put(slices, slices', w, t)
       /\ Put(micros, micros', w, micros[w]) /\ Put(heap, heap', w, heap[w])
  BY <1>2, <1>3, <1>4, <1>7, PutSame, PutNew
<1>12. Moved(w, p, t, micros[w], heap[w])
  <2>1. p \in {"tokens", "count", "split", "replied"}
    BY <1>9, <1>10
  <2>2. t = Tail(slices[w]) /\ (p # "replied" => Len(slices[w]) > 1)
    BY <1>4, <1>6, <1>7, <1>10
  <2>. QED  BY <1>2, <1>11, <2>1, <2>2 DEF Moved, Places, Waiting
<1>13. Pos(w)' = After(w) /\ pc[w] \in Waiting
  <2>1. /\ pc'[w] = p /\ slices'[w] = t /\ Len(slices'[w]) = n /\ Len(slices[w]) = n + 1
        /\ pc[w] \in Waiting
    BY <1>2, <1>4, <1>6, <1>8, <1>11 DEF Put, Waiting
  <2>2. After(w) = IF n + 1 = 1 THEN <<"end", 0, 0>>
                   ELSE IF config.loss = "slqp" THEN <<"sum", (n + 1) - 1, 0>>
                   ELSE Cuts((n + 1) - 1, slices[w][2])
    BY <1>2, <2>1 DEF After
  <2>3. CASE n > 0
    <3>1. After(w) = IF config.loss = "slqp" THEN <<"sum", n, 0>>
                     ELSE IF config.dynamic THEN <<"max", n, 0>>
                     ELSE <<"forward", n, Ceil(Len(s[2]), Micro)>>
      BY <1>4, <2>2, <2>3 DEF Cuts
    <3>2. Slice(w)' = s[2]
      BY <1>8, <2>1, <2>3 DEF Slice
    <3>3. p = IF config.loss = "slqp" THEN "tokens" ELSE IF config.dynamic THEN "count" ELSE "split"
      BY <1>10, <2>3 DEF Begin, Cutting
    <3>4. Pos(w)' = IF config.loss = "slqp" THEN <<"sum", n, 0>>
                    ELSE IF config.dynamic THEN <<"max", n, 0>>
                    ELSE <<"forward", n, Ceil(Len(Slice(w)'), Micro)>>
      BY <2>1, <3>3 DEF Pos, Ceil
    <3>. QED  BY <2>1, <3>1, <3>2, <3>4
  <2>4. CASE n = 0
    BY <1>10, <2>1, <2>2, <2>4 DEF Pos
  <2>. QED  BY <2>3, <2>4
<1>. QED  BY <1>2, <1>12, <1>13, MovesBy

LEMMA AscendingPart ==
  ASSUME NEW n \in Nat, NEW p \in SUBSET (1 .. n)
  PROVE  /\ Cardinality(p) \in Nat
         /\ Ascending(p) \in Bijection(1 .. Cardinality(p), p)
<1>. DEFINE b == {q \in p \X p : q[1] < q[2]}
<1>1. \A x, y \in p : <<x, y>> \in b <=> x < y
  OBVIOUS
<1>2. IsFiniteSet(p)
  <2>1. IsFiniteSet(1 .. n)
    BY FS_Interval
  <2>. QED  BY <2>1, FS_Subset
<1>3. Ascending(p) = InOrder(p, b)
  BY DEF Ascending
<1>. HIDE DEF b
<1>4. StrictTotal(p, b)
  <2>1. p \subseteq Int
    OBVIOUS
  <2>. QED  BY <1>1, <2>1 DEF StrictTotal
<1>. QED  BY <1>2, <1>3, <1>4, InOrderSorted

LEMMA CutMoves ==
  ASSUME NEW w \in Workers, AtWork(w), Passed(w), Cut(w)
  PROVE  Moves(w) /\ DOMAIN heap' = DOMAIN heap
<1>1. PICK k \in Nat \ {0}, n \in Nat \ {0} : k = Agreed(w) /\ n = Len(Slice(w)) /\ k <= n
  <2>1. pc[w] = "merge"
    BY DEF Cut
  <2>2. Agreed(w) \in 1 .. Len(Slice(w)) /\ Len(Slice(w)) \in Nat \ {0}
    BY <2>1, AgreedIn DEF AtWork
  <2>3. PICK n \in Nat \ {0} : n = Len(Slice(w))
    BY <2>2
  <2>. QED  BY <2>2, <2>3
<1>2. PICK P : P = Parts(heap[w], k)
  OBVIOUS
<1>3. PICK A : A = Arranged(Range(P), SliceLoad(w))
  OBVIOUS
<1>4. PICK lists : lists = [m \in DOMAIN A |-> Ascending(A[m])]
  OBVIOUS
<1>5. PICK M : M = [m \in DOMAIN lists |-> [i \in DOMAIN lists[m] |-> Slice(w)[lists[m][i]]]]
  OBVIOUS
<1>6. /\ pc[w] = "merge" /\ Cardinality(heap[w]) = 1 /\ pc' = [pc EXCEPT ![w] = "forward"]
      /\ heap' = [heap EXCEPT ![w] = {}]
      /\ UNCHANGED <<config, len, driver, ops>> /\ slices' = slices
  BY DEF Cut
<1>7. micros' = [micros EXCEPT ![w] = M]
  BY <1>1, <1>2, <1>3, <1>4, <1>5 DEF Cut
<1>8. HeapOf(heap[w], 1 .. n, k) /\ \A s \in heap[w] : Filling(s, k)
  BY <1>1, <1>6 DEF AtWork, WorkerInv, MergeInv
<1>9. IsFiniteSet(1 .. n) /\ Cardinality(1 .. n) = n
  BY FS_Interval
<1>10. Partition(P, 1 .. n, k)
  BY <1>2, <1>6, <1>8, LastPartition
<1>11. \A i \in 1 .. k : P[i] # {}
  BY <1>1, <1>2, <1>6, <1>8, <1>9, LastFilled
<1>12. A \in Seq(Range(P)) /\ Len(A) = k
  <2>1. PICK f : f = SliceLoad(w)
    OBVIOUS
  <2>2. \A i \in 1 .. n : f[i] \in Nat
    BY <1>1, <2>1, RowLoads
  <2>3. ArrangedOf(Arranged(Range(P), f), P, k)
    BY <1>10, <1>11, <2>2, ArrangedParts
  <2>. QED  BY <1>3, <2>1, <2>3 DEF ArrangedOf


<1>13. DOMAIN A = 1 .. k /\ \A m \in 1 .. k : A[m] \in SUBSET (1 .. n) /\ A[m] # {}
  <2>1. DOMAIN A = 1 .. k /\ \A m \in 1 .. k : A[m] \in Range(P)
    BY <1>12
  <2>2. \A p \in Range(P) : p \in SUBSET (1 .. n) /\ p # {}
    BY <1>10, <1>11 DEF Range, Partition
  <2>. QED  BY <2>1, <2>2
<1>14. DOMAIN M = 1 .. k /\ M = [m \in 1 .. k |-> M[m]]
  BY <1>4, <1>5, <1>13
<1>15. ASSUME NEW m \in 1 .. k PROVE M[m] \in Seq(Rec) /\ M[m] # << >>
  <2>1. PICK c \in Nat : c = Cardinality(A[m]) /\ Ascending(A[m]) \in Bijection(1 .. c, A[m])
    BY <1>13, AscendingPart
  <2>2. lists[m] \in [1 .. c -> 1 .. n] /\ \A x \in A[m] : \E i \in 1 .. c : lists[m][i] = x
    <3>1. lists[m] = Ascending(A[m])
      BY <1>4, <1>13
    <3>2. lists[m] \in [1 .. c -> A[m]] /\ \A x \in A[m] : \E i \in 1 .. c : lists[m][i] = x
      BY <2>1, <3>1 DEF Bijection, Injection, Surjection
    <3>. QED  BY <1>13, <3>2
  <2>3. c # 0
    <3>1. PICK x : x \in A[m]
      BY <1>13
    <3>2. PICK i \in 1 .. c : lists[m][i] = x
      BY <2>2, <3>1
    <3>. QED  BY <3>2
  <2>4. PICK l \in [1 .. c -> 1 .. n] : l = lists[m]
    BY <2>2
  <2>5. M[m] = [i \in 1 .. c |-> Slice(w)[l[i]]]
    BY <1>4, <1>5, <1>13, <2>4
  <2>6. PICK t : t = Slice(w)
    OBVIOUS
  <2>7. \A i \in 1 .. n : t[i] \in Rec
    BY <1>1, <2>6 DEF AtWork
  <2>8. PICK u : u = M[m]
    OBVIOUS
  <2>9. u = [i \in 1 .. c |-> t[l[i]]] /\ \A i \in 1 .. c : t[l[i]] \in Rec
    BY <2>4, <2>5, <2>6, <2>7, <2>8
  <2>10. u \in [1 .. c -> Rec]
    BY <2>9
  <2>11. u \in Seq(Rec) /\ Len(u) = c
    BY <2>10
  <2>. QED  BY <2>3, <2>8, <2>11
<1>16. M \in Seq(Seq(Rec)) /\ Len(M) = k
  <2>1. M \in [1 .. k -> Seq(Rec)]
    BY <1>14, <1>15
  <2>. QED  BY <2>1
<1>17. Filled(M) /\ M # << >>
  BY <1>14, <1>15, <1>16 DEF Filled
<1>18. w \in DOMAIN pc /\ w \in DOMAIN micros /\ w \in DOMAIN heap
  BY DEF AtWork, Workers
<1>19. /\ Put(pc, pc', w, "forward") /\ Put(slices, slices', w, slices[w])
       /\ Put(micros, micros', w, M) /\ Put(heap, heap', w, {})
  BY <1>6, <1>7, <1>18, PutSame, PutNew
<1>20. Moved(w, "forward", slices[w], M, {})
  BY <1>6, <1>17, <1>19 DEF Moved, Places, Waiting
<1>21. Pos(w)' = Pos(w) /\ pc[w] \notin Waiting
  <2>1. pc'[w] = "forward" /\ micros'[w] = M /\ slices'[w] = slices[w]
    BY <1>19 DEF Put
  <2>. QED  BY <1>1, <1>6, <1>16, <2>1 DEF Pos, Waiting
<1>. QED  BY <1>6, <1>20, <1>21, MovesBy

(* Every step of a worker keeps the invariant.                             *)
LEMMA WorkKeeps ==
  ASSUME IInv, NEW w \in Workers, Work(w)
  PROVE  IInv'
<1>1. pc[w] \notin {"idle", "replied"}
  BY DEF Work, CountTokens, SumTokens, Count, Reduce, Merge, Cut, SplitMicro, Forward, Run,
         Restore, EnterStep, OptimizerStep
<1>2. AtWork(w) /\ InCall
  BY <1>1, IsAtWork DEF AtWork
<1>3. CASE CountTokens(w) \/ Count(w) \/ Forward(w) \/ EnterStep(w)
  <2>1. \E r : Enters(w, r)
    BY <1>2, <1>3, CountTokensEnters, CountEnters, ForwardEnters
  <2>2. DOMAIN heap' = DOMAIN heap
    BY <2>1 DEF Enters
  <2>. QED  BY <1>2, <2>1, <2>2, WorkInv
<1>4. CASE Merge(w) \/ Cut(w)
  <2>1. pc[w] = "merge"
    BY <1>4 DEF Merge, Cut
  <2>2. Passed(w)
    BY <1>1, <2>1, MergePassed DEF Waiting
  <2>3. Moves(w) /\ DOMAIN heap' = DOMAIN heap
    BY <1>2, <1>4, <2>2, MergeMoves, CutMoves
  <2>. QED  BY <1>2, <2>3, WorkInv
<1>5. CASE SumTokens(w) \/ Reduce(w) \/ SplitMicro(w) \/ Run(w) \/ Restore(w) \/ OptimizerStep(w)
  <2>1. Moves(w) /\ DOMAIN heap' = DOMAIN heap
    BY <1>2, <1>5, SumTokensMoves, ReduceMoves, SplitMicroMoves, RunMoves, RestoreMoves,
       OptimizerStepMoves
  <2>. QED  BY <1>2, <2>1, WorkInv
<1>. QED  BY <1>3, <1>4, <1>5 DEF Work

-----------------------------------------------------------------------------

(* The driver.  The invariant holds at first,                              *)
LEMMA InitInv ==
  ASSUME Init
  PROVE  IInv
<1>1. PICK s \in Shapes, m \in Minis, b \in BOOLEAN, d \in BOOLEAN, l \in {"ppo", "opd", "slqp"} :
        /\ m <= s.rows /\ m \div s.dp > 0 /\ (m \div s.dp) % Micro = 0
        /\ l = "opd" => m = s.rows
        /\ config = [rows |-> s.rows, dp |-> s.dp, sp |-> s.sp, mini |-> m,
                     balance |-> b, dynamic |-> d, loss |-> l]
        /\ len \in [1 .. s.rows -> s.lens]
  BY DEF Init
<1>2. /\ s.rows \in Nat /\ s.dp \in Nat \ {0} /\ s.sp \in Nat \ {0}
      /\ s.rows % (s.dp * s.sp) = 0 /\ s.lens \subseteq PromptLen + 1 .. MaxTokens * s.sp
      /\ m \in Nat /\ PromptLen \in Nat /\ MaxTokens \in Nat
  BY BatchAssumption
<1>3. PICK rows \in Nat, dp \in Nat \ {0}, sp \in Nat \ {0} :
        rows = s.rows /\ dp = s.dp /\ sp = s.sp
  BY <1>2
<1>4. config.rows = rows /\ config.dp = dp /\ config.sp = sp /\ config.mini = m
  BY <1>1, <1>3
<1>5. m # 0 /\ rows # 0 /\ m \div dp \in Nat \ {0}
  <2>1. m \div dp > 0 /\ m \div dp \in Nat
    BY <1>1, <1>2, <1>3
  <2>2. m = 0 => m \div dp = 0
    OBVIOUS
  <2>. QED  BY <1>1, <1>2, <1>3, <2>1, <2>2
<1>6. World = dp * sp /\ Rows = 1 .. rows /\ Limit = MaxTokens * sp /\ Mini = m \div dp
  BY <1>4 DEF World, Rows, Limit, Mini
<1>7. len \in [Rows -> 1 .. Limit]
  <2>1. s.lens \subseteq 1 .. Limit
    BY <1>2, <1>3, <1>6
  <2>. QED  BY <1>1, <1>3, <1>6, <2>1
<1>8. ConfigInv
  BY <1>2, <1>3, <1>4, <1>5, <1>6, <1>7 DEF ConfigInv
<1>9. DriverInv
  <2>1. order = [i \in Rows |-> i]
    BY <1>4, <1>6 DEF Init
  <2>2. order \in Bijection(Rows, Rows)
    BY <2>1 DEF Bijection, Injection, Surjection, IsInjective
  <2>3. DOMAIN heap = 0 .. World /\ phase # "balancing"
    BY DEF Init
  <2>. QED  BY <2>2, <2>3 DEF DriverInv
<1>10. ShapeInv
  <2>1. << >> \in Seq(Ops)
    OBVIOUS
  <2>. QED  BY <2>1 DEF Init, ShapeInv
<1>11. ~InCall
  BY DEF Init, InCall
<1>12. SameCollectives
  <2>1. \A w \in Workers : DOMAIN ops[w] = {}
    BY DEF Init
  <2>. QED  BY <2>1 DEF SameCollectives
<1>. QED  BY <1>8, <1>9, <1>10, <1>11, <1>12 DEF IInv, CallInv

(* and nothing that leaves the workers alone breaks it,                    *)
LEMMA RestKeeps ==
  ASSUME IInv, config' = config, len' = len, UNCHANGED <<pc, slices, ops, micros>>,
         DriverInv', ~InCall', ~InCall \/ AllReplied
  PROVE  IInv'
<1>1. World' = World /\ Workers' = Workers /\ Rows' = Rows /\ Limit' = Limit /\ Mini' = Mini
  BY DEF World, Workers, Rows, Limit, Mini
<1>2. ConfigInv'
  BY <1>1 DEF IInv, ConfigInv
<1>3. SameCollectives'
  BY <1>1 DEF IInv, SameCollectives
<1>4. \A w \in Workers : pc[w] \in {"idle", "replied"}
  BY DEF IInv, ShapeInv, AllReplied
<1>5. ShapeInv'
  BY <1>1, <1>4 DEF IInv, ShapeInv, Ops
<1>. QED  BY <1>2, <1>3, <1>5 DEF IInv, CallInv

LEMMA BalanceKeeps ==
  ASSUME IInv, Balance \/ MergeDriver
  PROVE  IInv'
<1>1. /\ config' = config /\ len' = len /\ order' = order
      /\ UNCHANGED <<pc, slices, ops, micros>>
      /\ phase \in {"balance", "balancing"} /\ phase' \in {"balancing", "log_prob"}
  BY DEF Balance, MergeDriver, driver, call
<1>2. World' = World /\ Rows' = Rows
  BY <1>1 DEF World, Rows
<1>3. PICK n \in Nat \ {0}, k \in Nat \ {0} :
        n = config.rows /\ k = World /\ n % k = 0 /\ Rows = 1 .. n
  BY Numbers DEF IInv, ConfigInv, Rows
<1>4. DOMAIN heap = 0 .. k /\ order \in Bijection(Rows, Rows)
  BY <1>3 DEF IInv, DriverInv
<1>5. DOMAIN heap' = 0 .. k
  BY <1>4 DEF Balance, MergeDriver
<1>6. phase' = "balancing" => HeapOf(heap'[0], Rows, k) /\ \A s \in heap'[0] : Even(s, k)
  <2>1. SUFFICES ASSUME phase' = "balancing"
                 PROVE  HeapOf(heap'[0], Rows, k) /\ \A s \in heap'[0] : Even(s, k)
    OBVIOUS
  <2>2. CASE Balance
    <3>1. heap'[0] = Groups(Loads, k)
      BY <1>3, <1>4, <2>1, <2>2 DEF Balance
    <3>2. PICK f : f = Loads
      OBVIOUS
    <3>3. DOMAIN f = 1 .. n /\ \A i \in 1 .. n : f[i] \in Nat \ {0}
      <4>1. \A i \in 1 .. n : len[i] \in Nat \ {0}
        BY <1>3 DEF IInv, ConfigInv
      <4>2. \A a \in Nat \ {0} : Workload(a) \in Nat \ {0}
        BY DEF Workload
      <4>. QED  BY <1>3, <3>2, <4>1, <4>2 DEF Loads
    <3>4. HeapOf(Groups(f, k), 1 .. n, k) /\ \A s \in Groups(f, k) : Even(s, k)
      BY <1>3, <3>3, GroupsHeap
    <3>. QED  BY <1>3, <3>1, <3>2, <3>4
  <2>3. CASE MergeDriver
    <3>1. PICK h \in Merges(heap[0], k) : heap'[0] = h
      BY <1>3, <1>4, <2>3 DEF MergeDriver
    <3>2. HeapOf(heap[0], Rows, k) /\ \A s \in heap[0] : Even(s, k)
      BY <1>3, <2>3 DEF MergeDriver, IInv, DriverInv
    <3>3. IsFiniteSet(Rows)
      BY <1>3, FS_Interval
    <3>4. HeapOf(h, Rows, k) /\ \A s \in h : Even(s, k)
      BY <3>1, <3>2, <3>3, MergesHeap
    <3>. QED  BY <3>1, <3>4
  <2>. QED  BY <2>2, <2>3
<1>7. DriverInv'
  BY <1>1, <1>2, <1>3, <1>4, <1>5, <1>6 DEF DriverInv
<1>8. ~InCall /\ ~InCall'
  BY <1>1 DEF InCall
<1>. QED  BY <1>1, <1>7, <1>8, RestKeeps

(* A part with its small rows at both ends has all of them.                *)
SmallOf(s, p, a) == s \in Seq(p) /\ Len(s) = a /\ s \in Bijection(1 .. a, p)

LEMMA SmallAtEndsPart ==
  ASSUME ConfigInv, NEW p \in SUBSET Rows
  PROVE  Cardinality(p) \in Nat /\ SmallOf(SmallAtEnds(p), p, Cardinality(p))
<1>1. PICK n \in Nat : n = config.rows /\ Rows = 1 .. n
  BY DEF ConfigInv, Rows
<1>2. IsFiniteSet(p)
  <2>1. IsFiniteSet(1 .. n)
    BY FS_Interval
  <2>. QED  BY <1>1, <2>1, FS_Subset
<1>3. PICK f : f = Loads
  OBVIOUS
<1>4. p \in SUBSET Int /\ \A i \in p : f[i] \in Int
  <2>1. \A i \in 1 .. n : len[i] \in Nat
    BY <1>1 DEF ConfigInv
  <2>2. \A a \in Nat : Workload(a) \in Int
    BY DEF Workload
  <2>. QED  BY <1>1, <1>3, <2>1, <2>2 DEF Loads
<1>5. StrictTotal(p, ByLoad(p, f))
  BY <1>4, ByLoadTotal
<1>6. PICK s : s = InOrder(p, ByLoad(p, f))
  OBVIOUS
<1>7. Cardinality(p) \in Nat /\ s \in Bijection(1 .. Cardinality(p), p)
  BY <1>2, <1>5, <1>6, InOrderSorted
<1>8. SmallAtEnds(p) = Odds(s) \o Reverse(Evens(s))
  BY <1>3, <1>6 DEF SmallAtEnds
<1>9. PICK c \in Nat : c = Cardinality(p)
  BY <1>7
<1>10. /\ Len(Odds(s) \o Reverse(Evens(s))) = c
       /\ Odds(s) \o Reverse(Evens(s)) \in Seq(p)
       /\ Odds(s) \o Reverse(Evens(s)) \in Bijection(1 .. c, p)
  BY <1>7, <1>9, OddsEvens
<1>. QED  BY <1>8, <1>9, <1>10 DEF SmallOf

(* What karmarkar_karp leaves the driver: parts of equal size, and a batch *)
(* that has every row once.                                                *)
Balanced(P, n, k) ==
  /\ k = World /\ n = config.rows /\ Rows = 1 .. n
  /\ FlattenSeq([w \in 1 .. k |-> SmallAtEnds(P[w])]) \in Bijection(1 .. n, 1 .. n)
  /\ \A p \in Range(P) : Cardinality(p) * k = n

LEMMA BalancedParts ==
  ASSUME IInv, phase = "balancing", Cardinality(heap[0]) = 1
  PROVE  \E n, k \in Nat \ {0} : Balanced(Parts(heap[0], k), n, k)
<1>1. phase = "balancing" /\ Cardinality(heap[0]) = 1
  OBVIOUS
<1>3. PICK n \in Nat \ {0}, k \in Nat \ {0} : k = World /\ n = config.rows /\ Rows = 1 .. n
  BY Numbers DEF IInv, ConfigInv, Rows
<1>4. PICK P : P = Parts(heap[0], k)
  OBVIOUS
<1>5. HeapOf(heap[0], 1 .. n, k) /\ \A s \in heap[0] : Even(s, k)
  BY <1>1, <1>3 DEF IInv, DriverInv
<1>6. Partition(P, 1 .. n, k)
  BY <1>1, <1>4, <1>5, LastPartition
<1>7. \A i, j \in 1 .. k : Cardinality(P[i]) = Cardinality(P[j])
  <2>1. PICK H : H = heap[0]
    OBVIOUS
  <2>2. HeapOf(H, 1 .. n, k) /\ Cardinality(H) = 1 /\ \A s \in H : Even(s, k)
    BY <1>1, <1>5, <2>1
  <2>3. \A i, j \in 1 .. k : Cardinality(Parts(H, k)[i]) = Cardinality(Parts(H, k)[j])
    BY <2>2, LastEven
  <2>. QED  BY <1>4, <2>1, <2>3

<1>8. \A i \in 1 .. k : P[i] \in SUBSET Rows
  BY <1>3, <1>6 DEF Partition
<1>9. ASSUME NEW i \in 1 .. k
      PROVE  Cardinality(P[i]) \in Nat /\ SmallOf(SmallAtEnds(P[i]), P[i], Cardinality(P[i]))
  <2>1. PICK p \in SUBSET Rows : p = P[i]
    BY <1>8
  <2>2. Cardinality(p) \in Nat /\ SmallOf(SmallAtEnds(p), p, Cardinality(p))
    BY SmallAtEndsPart DEF IInv
  <2>. QED  BY <2>1, <2>2

<1>10. PICK a \in Nat : a = Cardinality(P[1])
  BY <1>9
<1>11. \A i \in 1 .. k : SmallOf(SmallAtEnds(P[i]), P[i], a)
  <2>1. \A i \in 1 .. k : Cardinality(P[i]) = a
    BY <1>7, <1>10
  <2>. QED  BY <1>9, <2>1
<1>12. a # 0
  <2>1. PICK i \in 1 .. k : 1 \in P[i]
    BY <1>6 DEF Partition
  <2>2. PICK s : SmallOf(s, P[i], a)
    BY <1>11
  <2>3. \E j \in 1 .. a : s[j] = 1
    BY <2>1, <2>2 DEF SmallOf, Bijection, Surjection
  <2>. QED  BY <2>3
<1>13. PICK ss : ss = [w \in 1 .. k |-> SmallAtEnds(P[w])]
  OBVIOUS
<1>14. Len(ss) = k
  BY <1>13
<1>15. \A i \in 1 .. k : /\ ss[i] \in Seq(P[i]) /\ Len(ss[i]) = a
                         /\ ss[i] \in Bijection(1 .. a, P[i])
  BY <1>11, <1>13 DEF SmallOf
<1>16. FlattenSeq(ss) \in Bijection(1 .. n, 1 .. n) /\ k * a = n
  BY <1>6, <1>12, <1>14, <1>15, FlatPartition
<1>17. \A p \in Range(P) : Cardinality(p) * k = n
  <2>1. DOMAIN P = 1 .. k /\ \A i \in 1 .. k : Cardinality(P[i]) = a
    BY <1>6, <1>7, <1>10 DEF Partition
  <2>2. a * k = n
    BY <1>16
  <2>. QED  BY <2>1, <2>2 DEF Range
<1>18. Balanced(P, n, k)
  BY <1>3, <1>13, <1>16, <1>17 DEF Balanced
<1>. QED  BY <1>4, <1>18

LEMMA ReorderKeeps ==
  ASSUME IInv, Reorder
  PROVE  IInv'
<1>1. /\ config' = config /\ len' = len /\ heap' = heap
      /\ UNCHANGED <<pc, slices, ops, micros>>
      /\ phase = "balancing" /\ phase' = "log_prob" /\ Cardinality(heap[0]) = 1
  BY DEF Reorder, call
<1>2. World' = World /\ Rows' = Rows
  BY <1>1 DEF World, Rows
<1>3. PICK n \in Nat \ {0}, k \in Nat \ {0} : Balanced(Parts(heap[0], k), n, k)
  BY <1>1, BalancedParts
<1>4. PICK P : P = Parts(heap[0], k)
  OBVIOUS
<1>5. PICK ss : ss = [w \in 1 .. k |-> SmallAtEnds(P[w])]
  OBVIOUS
<1>6. k = World /\ Rows = 1 .. n /\ FlattenSeq(ss) \in Bijection(1 .. n, 1 .. n)
  BY <1>3, <1>4, <1>5 DEF Balanced
<1>17. order' = FlattenSeq(ss)
  BY <1>4, <1>5, <1>6 DEF Reorder, Workers
<1>18. DriverInv'
  BY <1>1, <1>2, <1>6, <1>17 DEF IInv, DriverInv
<1>19. ~InCall /\ ~InCall'
  BY <1>1 DEF InCall
<1>. QED  BY <1>1, <1>18, <1>19, RestKeeps

(* Nor does the end of a call,                                             *)
LEMMA CollectKeeps ==
  ASSUME IInv, Collect \/ Finish
  PROVE  IInv'
<1>1. /\ config' = config /\ len' = len /\ heap' = heap /\ order' = order
      /\ UNCHANGED <<pc, slices, ops, micros>>
      /\ AllReplied /\ phase' \in {"update", "done"}
  BY DEF Collect, Finish, call
<1>2. World' = World /\ Rows' = Rows
  BY <1>1 DEF World, Rows
<1>3. DriverInv'
  BY <1>1, <1>2 DEF IInv, DriverInv
<1>4. ~InCall'
  BY <1>1 DEF InCall
<1>. QED  BY <1>1, <1>3, <1>4, RestKeeps

(* nor its beginning: all workers get as many slices, as long as those of  *)
(* the others.                                                             *)
ChunkOf(s) == s \in Seq(Rec) /\ Len(s) = Size

LEMMA Chunks ==
  ASSUME ConfigInv, DriverInv, NEW w \in Workers
  PROVE  Size \in Nat \ {0} /\ ChunkOf(Chunk(w))
<1>1. /\ Size \in Nat \ {0} /\ DpRank(w) \in Nat
      /\ \A i \in 1 .. Size : DpRank(w) * Size + i \in Rows
  BY Numbers
<1>2. PICK c \in Nat \ {0} : c = Size
  BY <1>1
<1>3. PICK s : s = Chunk(w)
  OBVIOUS
<1>4. s = [i \in 1 .. c |-> [id |-> order[DpRank(w) * c + i], old |-> old[DpRank(w) * c + i]]]
  BY <1>2, <1>3 DEF Chunk, Size
<1>5. \A j \in Rows : [id |-> order[j], old |-> old[j]] \in Rec
  BY DEF DriverInv, Bijection, Injection, Rec
<1>6. ASSUME NEW i \in 1 .. c
      PROVE  [id |-> order[DpRank(w) * c + i], old |-> old[DpRank(w) * c + i]] \in Rec
  BY <1>1, <1>2, <1>5
<1>7. s \in [1 .. c -> Rec]
  BY <1>4, <1>6
<1>8. s \in Seq(Rec) /\ Len(s) = c
  BY <1>7
<1>. QED  BY <1>1, <1>2, <1>3, <1>8 DEF ChunkOf

Dealt(work, c) ==
  /\ DOMAIN work = Workers
  /\ \A w \in Workers : Filled(work[w]) /\ Len(work[w]) = c
  /\ \A v, w \in Workers : \A i \in 1 .. c : Len(work[v][i]) = Len(work[w][i])

LEMMA DispatchKeeps ==
  ASSUME IInv, NEW work, Dispatch(work), NEW c \in Nat \ {0}, Dealt(work, c),
         phase' \in {"computing", "updating"}
  PROVE  IInv'
<1>1. /\ config' = config /\ len' = len /\ order' = order /\ heap' = heap /\ old' = old
      /\ micros' = micros /\ slices' = work
      /\ pc' = [w \in Workers |-> Begin] /\ ops' = [w \in Workers |-> << >>]
  BY DEF Dispatch
<1>2. /\ World' = World /\ Workers' = Workers /\ Rows' = Rows /\ Limit' = Limit /\ Mini' = Mini
      /\ Rec' = Rec
  BY <1>1 DEF World, Workers, Rows, Limit, Mini, Rec
<1>3. ConfigInv'
  BY <1>1, <1>2 DEF IInv, ConfigInv
<1>4. DriverInv'
  BY <1>1, <1>2 DEF IInv, DriverInv
<1>5. InCall'
  BY DEF InCall
<1>6. ShapeInv'
  <2>1. << >> \in Seq(Ops)
    OBVIOUS
  <2>2. ops' \in [Workers -> Seq(Ops)]
    BY <1>1, <2>1
  <2>3. DOMAIN pc' = Workers /\ DOMAIN slices' = Workers /\ DOMAIN micros' = Workers
    BY <1>1 DEF IInv, ShapeInv, Dealt
  <2>. QED  BY <1>2, <1>5, <2>2, <2>3 DEF ShapeInv, Ops
<1>7. SameCollectives'
  <2>1. \A w \in Workers : DOMAIN ops'[w] = {}
    BY <1>1
  <2>. QED  BY <1>2, <2>1 DEF SameCollectives
<1>8. ASSUME NEW w \in Workers
      PROVE  /\ pc'[w] = Begin /\ Begin \in {"tokens", "count", "split"} /\ ops'[w] = << >>
             /\ slices'[w] = work[w] /\ Filled(work[w]) /\ Len(work[w]) = c
             /\ \A v \in Workers : \A i \in 1 .. c : Len(work[v][i]) = Len(work[w][i])
  BY <1>1 DEF Dealt, Begin, Cutting
<1>9. ASSUME NEW w \in Workers PROVE WorkerInv(w)'
  <2>1. SliceInv(w)'
    <3>1. PICK s : s = work[w]
      OBVIOUS
    <3>2. s \in Seq(Seq(Rec)) /\ Len(s) # 0 /\ \A i \in DOMAIN s : s[i] # << >>
      BY <1>8, <3>1 DEF Filled
    <3>3. s # << >>
      BY <3>2
    <3>. QED  BY <1>2, <1>8, <3>1, <3>2, <3>3 DEF SliceInv, Filled
  <2>. QED  BY <1>8, <2>1 DEF WorkerInv, MicroInv, CountInv, MergeInv, EnteredInv, Places, Waiting
<1>10. ASSUME NEW v \in Workers, NEW w \in Workers PROVE PairInv(v, w)'
  <2>1. PICK s : s = work[v]
    OBVIOUS
  <2>2. PICK t : t = work[w]
    OBVIOUS
  <2>3. /\ s \in Seq(Seq(Rec)) /\ Len(s) = c /\ DOMAIN s = 1 .. c
        /\ t \in Seq(Seq(Rec)) /\ Len(t) = c /\ DOMAIN t = 1 .. c
        /\ slices'[v] = s /\ slices'[w] = t
        /\ \A i \in 1 .. c : Len(s[i]) = Len(t[i])
    <3>1. s \in Seq(Seq(Rec)) /\ Len(s) = c /\ t \in Seq(Seq(Rec)) /\ Len(t) = c
      BY <1>8, <2>1, <2>2 DEF Filled
    <3>2. slices'[v] = s /\ slices'[w] = t /\ \A i \in 1 .. c : Len(s[i]) = Len(t[i])
      BY <1>8, <2>1, <2>2
    <3>3. DOMAIN s = 1 .. c /\ DOMAIN t = 1 .. c
      BY <3>1
    <3>. QED  BY <3>1, <3>2, <3>3

  <2>4. Geometry(v, w)'
    <3>1. \A a, b \in 1 .. c : c - a = c - b => a = b
      OBVIOUS
    <3>. QED  BY <2>3, <3>1 DEF Geometry
  <2>5. Left(v)' = 0 /\ Left(w)' = 0 /\ Len(ops'[v]) = 0
    BY <1>8 DEF Left, Waiting
  <2>6. Pos(v)' = Pos(w)'
    <3>1. 1 \in 1 .. c
      OBVIOUS
    <3>2. Len(slices'[v][1]) = Len(slices'[w][1]) /\ Len(slices'[v]) = Len(slices'[w])
      BY <2>3, <3>1
    <3>3. pc'[v] = Begin /\ pc'[w] = Begin /\ Begin \in {"tokens", "count", "split"}
      BY <1>8
    <3>4. PICK l : l = Len(slices'[v][1])
      OBVIOUS
    <3>5. PICK n : n = Len(slices'[v])
      OBVIOUS
    <3>6. \A u \in {v, w} :
            Pos(u)' = CASE Begin = "tokens" -> <<"sum", n, 0>>
                        [] Begin = "count" -> <<"max", n, 0>>
                        [] OTHER -> <<"forward", n, (l + Micro - 1) \div Micro>>
      BY <3>2, <3>3, <3>4, <3>5 DEF Pos, Slice, Ceil
    <3>. QED  BY <3>6

  <2>. QED  BY <2>4, <2>5, <2>6 DEF PairInv, SyncInv
<1>. QED  BY <1>2, <1>3, <1>4, <1>6, <1>7, <1>9, <1>10 DEF IInv, CallInv

LEMMA CallKeeps ==
  ASSUME IInv, CallLogProb \/ CallUpdate
  PROVE  IInv'
<1>1. ConfigInv /\ DriverInv
  BY DEF IInv
<1>2. CASE CallLogProb /\ SkipsReplay
  <2>1. /\ config' = config /\ len' = len /\ heap' = heap /\ order' = order
        /\ UNCHANGED <<pc, slices, ops, micros>>
        /\ phase = "log_prob" /\ phase' = "update"
    BY <1>2 DEF CallLogProb, call
  <2>2. World' = World /\ Rows' = Rows
    BY <2>1 DEF World, Rows
  <2>3. DriverInv'
    BY <1>1, <2>1, <2>2 DEF DriverInv
  <2>4. ~InCall /\ ~InCall'
    BY <2>1 DEF InCall
  <2>. QED  BY <2>1, <2>3, <2>4, RestKeeps
<1>3. CASE CallLogProb /\ ~SkipsReplay
  <2>1. PICK work : work = [w \in Workers |-> <<Chunk(w)>>]
    OBVIOUS
  <2>2. Dispatch(work) /\ phase' \in {"computing", "updating"}
    BY <1>3, <2>1 DEF CallLogProb
  <2>3. ASSUME NEW w \in Workers
        PROVE  Filled(work[w]) /\ Len(work[w]) = 1 /\ Len(work[w][1]) = Size
    <3>1. PICK s \in Seq(Rec) : s = Chunk(w) /\ Len(s) = Size /\ Len(s) # 0
      BY <1>1, Chunks DEF ChunkOf
    <3>2. s # << >>
      BY <3>1
    <3>3. work[w] = <<s>>
      BY <2>1, <3>1
    <3>4. <<s>> \in Seq(Seq(Rec)) /\ Len(<<s>>) = 1 /\ DOMAIN <<s>> = {1} /\ <<s>>[1] = s
      OBVIOUS
    <3>. QED  BY <3>1, <3>2, <3>3, <3>4 DEF Filled
  <2>4. Dealt(work, 1)
    <3>1. \A i \in 1 .. 1 : i = 1
      OBVIOUS
    <3>. QED  BY <2>1, <2>3, <3>1 DEF Dealt
  <2>. QED  BY <2>2, <2>4, DispatchKeeps
<1>4. CASE CallUpdate
  <2>1. PICK work : work = [w \in Workers |-> Split(Chunk(w), Mini)]
    OBVIOUS
  <2>2. Dispatch(work) /\ phase' \in {"computing", "updating"}
    BY <1>4, <2>1 DEF CallUpdate
  <2>3. PICK n \in Nat \ {0}, l \in Nat \ {0} : n = Mini /\ l = Size
    BY <1>1, Numbers DEF ConfigInv
  <2>4. PICK c \in Nat \ {0} : c = Ceil(l, n)
    <3>1. (l + n - 1) \div n \in Nat
      OBVIOUS
    <3>2. (l + n - 1) \div n # 0
      <4>1. l + n - 1 < n * ((l + n - 1) \div n) + n
        OBVIOUS
      <4>. QED  BY <3>1, <4>1
    <3>. QED  BY <3>1, <3>2 DEF Ceil
  <2>5. ASSUME NEW w \in Workers
        PROVE  /\ Filled(work[w]) /\ Len(work[w]) = c
               /\ \A i \in 1 .. c : Len(work[w][i]) = PartLen(l, n, i)
    <3>1. PICK s \in Seq(Rec) : s = Chunk(w) /\ Len(s) = l
      BY <1>1, <2>3, Chunks DEF ChunkOf
    <3>2. SplitOf(Split(s, n), Rec, l, n)
      BY <3>1, SplitParts
    <3>3. PICK t : t = Split(s, n)
      OBVIOUS
    <3>4. work[w] = t
      BY <2>1, <2>3, <3>1, <3>3
    <3>5. t \in Seq(Seq(Rec)) /\ Len(t) = c /\ \A i \in 1 .. c : Len(t[i]) = PartLen(l, n, i) /\ t[i] # << >>
      BY <2>4, <3>2, <3>3 DEF SplitOf
    <3>6. DOMAIN t = 1 .. c
      BY <3>5
    <3>. QED  BY <3>4, <3>5, <3>6 DEF Filled
  <2>6. Dealt(work, c)
    BY <2>1, <2>5 DEF Dealt
  <2>. QED  BY <2>2, <2>6, DispatchKeeps
<1>. QED  BY <1>2, <1>3, <1>4

(* It is an invariant.                                                     *)
LEMMA SpecIInv == Spec => []IInv
<1>1. ASSUME IInv, [Next]_vars PROVE IInv'
  <2>1. CASE UNCHANGED vars
    <3>1. /\ UNCHANGED <<config, len, order, old, heap, phase, pc, slices, ops, micros>>
      BY <2>1 DEF vars, driver, call
    <3>2. /\ World' = World /\ Workers' = Workers /\ Rows' = Rows /\ Limit' = Limit
          /\ Mini' = Mini /\ Rec' = Rec /\ InCall' = InCall /\ Ops' = Ops
      BY <3>1 DEF World, Workers, Rows, Limit, Mini, Rec, InCall, Ops
    <3>3. ConfigInv' /\ DriverInv' /\ ShapeInv' /\ SameCollectives'
      BY <1>1, <3>1, <3>2 DEF IInv, ConfigInv, DriverInv, ShapeInv, SameCollectives
    <3>4. \A w \in Workers : Agreed(w)' = Agreed(w) /\ Left(w)' = Left(w) /\ Slice(w)' = Slice(w)
      BY <3>1, <3>2 DEF Agreed, Left, Slice
    <3>5. \A w \in Workers : Pos(w)' = Pos(w) /\ After(w)' = After(w)
      BY <3>1, <3>4 DEF Pos, After, Cuts
    <3>6. ASSUME NEW w \in Workers, WorkerInv(w) PROVE WorkerInv(w)'
      <4>1. SliceInv(w)' /\ MicroInv(w)'
        BY <3>1, <3>2, <3>6 DEF WorkerInv, SliceInv, MicroInv, Filled
      <4>2. CountInv(w)' /\ MergeInv(w)' /\ EnteredInv(w)'
        BY <3>1, <3>2, <3>4, <3>5, <3>6 DEF WorkerInv, CountInv, MergeInv, EnteredInv
      <4>. QED  BY <3>1, <3>6, <4>1, <4>2 DEF WorkerInv, Places, Waiting
    <3>7. ASSUME NEW v \in Workers, NEW w \in Workers, PairInv(v, w) PROVE PairInv(v, w)'
      BY <3>1, <3>4, <3>5, <3>7 DEF PairInv, Geometry, SyncInv
    <3>. QED  BY <1>1, <3>2, <3>3, <3>6, <3>7 DEF IInv, CallInv
  <2>2. CASE Done
    BY <2>1, <2>2 DEF Done
  <2>3. CASE Drive
    BY <1>1, <2>3, BalanceKeeps, ReorderKeeps, CallKeeps, CollectKeeps DEF Drive
  <2>4. CASE \E w \in Workers : Work(w)
    BY <1>1, <2>4, WorkKeeps
  <2>. QED  BY <1>1, <2>1, <2>2, <2>3, <2>4 DEF Next

<1>. QED  BY <1>1, InitInv, PTL DEF Spec

(* Workers enter the same collectives in the same order, whatever rows     *)
(* they got.                                                               *)
THEOREM SpecSameCollectives == Spec => []SameCollectives
<1>1. IInv => SameCollectives
  BY DEF IInv
<1>. QED  BY <1>1, SpecIInv, PTL

(* The assertions of seqlen_balancing.py hold.                             *)
THEOREM SpecAssertsHold == Spec => []AssertsHold
<1>1. ASSUME IInv, NEW w \in Workers, pc[w] = "merge" PROVE Agreed(w) <= Len(Slice(w))
  <2>1. AtWork(w) /\ Passed(w)
    BY <1>1, IsAtWork, MergePassed DEF Waiting
  <2>. QED  BY <1>1, <2>1, AgreedIn DEF AtWork
<1>2. ASSUME IInv, NEW w \in Workers, pc[w] = "merge", Cardinality(heap[w]) = 1
      PROVE  \A p \in Range(Parts(heap[w], Agreed(w))) : p # {}
  <2>1. AtWork(w) /\ Passed(w)
    BY <1>2, IsAtWork, MergePassed DEF Waiting
  <2>2. Agreed(w) \in 1 .. Len(Slice(w)) /\ Len(Slice(w)) \in Nat \ {0}
    BY <1>2, <2>1, AgreedIn DEF AtWork
  <2>3. PICK k \in Nat \ {0}, n \in Nat \ {0} : k = Agreed(w) /\ n = Len(Slice(w)) /\ k <= n
    <3>1. PICK n \in Nat \ {0} : n = Len(Slice(w))
      BY <2>2
    <3>. QED  BY <2>2, <3>1
  <2>4. HeapOf(heap[w], 1 .. n, k) /\ \A s \in heap[w] : Filling(s, k)
    BY <1>2, <2>1, <2>3 DEF AtWork, WorkerInv, MergeInv
  <2>5. IsFiniteSet(1 .. n) /\ Cardinality(1 .. n) = n
    BY FS_Interval
  <2>6. \A i \in 1 .. k : Parts(heap[w], k)[i] # {}
    BY <1>2, <2>3, <2>4, <2>5, LastFilled
  <2>7. PICK P : P = Parts(heap[w], k)
    OBVIOUS
  <2>8. Partition(P, 1 .. n, k)
    BY <1>2, <2>4, <2>7, LastPartition
  <2>9. \A p \in Range(P) : p # {}
    BY <2>6, <2>7, <2>8 DEF Range, Partition
  <2>. QED  BY <2>3, <2>7, <2>9
<1>3. ASSUME IInv, NEW w \in Workers, pc[w] = "merge", NEW i \in DOMAIN Slice(w)
      PROVE  \E s \in heap[w], k \in 1 .. Agreed(w) :
               \A t \in heap[w], l \in 1 .. Agreed(w) : i \in t[l].items <=> t = s /\ l = k
  <2>1. /\ HeapOf(heap[w], 1 .. Len(Slice(w)), Agreed(w))
        /\ i \in 1 .. Len(Slice(w))
    BY <1>3, IsAtWork DEF AtWork, WorkerInv, MergeInv
  <2>2. PICK s \in heap[w] : \E k \in 1 .. Agreed(w) : i \in s[k].items
    BY <2>1 DEF HeapOf
  <2>3. PICK k \in 1 .. Agreed(w) : i \in s[k].items
    BY <2>2
  <2>4. \A t \in heap[w], l \in 1 .. Agreed(w) : i \in t[l].items => t = s /\ l = k
    BY <2>1, <2>3 DEF HeapOf
  <2>5. \A t \in heap[w], l \in 1 .. Agreed(w) : i \in t[l].items <=> t = s /\ l = k
    BY <2>3, <2>4
  <2>. QED  BY <2>5
<1>4. ASSUME IInv, phase = "balancing", Cardinality(heap[0]) = 1
      PROVE  \A p \in Range(Parts(heap[0], World)) : Cardinality(p) * World = config.rows
  <2>1. PICK n \in Nat \ {0}, k \in Nat \ {0} : Balanced(Parts(heap[0], k), n, k)
    BY <1>4, BalancedParts
  <2>. QED  BY <2>1 DEF Balanced
<1>5. IInv => AssertsHold
  BY <1>1, <1>2, <1>3, <1>4 DEF AssertsHold
<1>. QED  BY <1>5, SpecIInv, PTL

=============================================================================
