--------------------------- MODULE SeqlenBalance ---------------------------
(***************************************************************************)
(* Balanced partitions of rows of different lengths: karmarkar_karp of     *)
(* utils/seqlen_balancing.py, the largest differencing method.  A state is *)
(* a sequence of k sets in decreasing order; states are merged two at a    *)
(* time, the one with the largest spread first, until one is left.         *)
(***************************************************************************)
EXTENDS Integers, FiniteSets, Functions

(* The cost of a row of n tokens, calculate_workload.                      *)
Workload(n) == 24576 * n + n * n

-----------------------------------------------------------------------------

(* A Set: its sum, its items, and the first of them, which decides between *)
(* two of the same sum and size.                                           *)
NoItems == [sum |-> 0, head |-> 0, items |-> {}]
Item(i, load) == [sum |-> load, head |-> i, items |-> {i}]

Union(a, b) == [sum |-> a.sum + b.sum,
                head |-> IF a.items = {} THEN b.head ELSE a.head,
                items |-> a.items \cup b.items]

(* Set.__lt__                                                              *)
Below(a, b) ==
  \/ a.sum < b.sum
  \/ a.sum = b.sum /\ Cardinality(a.items) < Cardinality(b.items)
  \/ a.sum = b.sum /\ Cardinality(a.items) = Cardinality(b.items) /\ a.head < b.head

(* sorted(.., reverse=True)                                                *)
Decreasing(sets) == \A i, j \in DOMAIN sets : i < j => ~Below(sets[i], sets[j])
Sorted(sets) ==
  {s \in {[i \in DOMAIN sets |-> sets[f[i]]] : f \in Bijection(DOMAIN sets, DOMAIN sets)} :
     Decreasing(s)}

-----------------------------------------------------------------------------

(* State.spread and State.__lt__                                           *)
Spread(state, k) == state[1].sum - state[k].sum
Before(s, t, k) == \/ Spread(s, k) > Spread(t, k)
                   \/ Spread(s, k) = Spread(t, k) /\ Below(t[1], s[1])

Popped(heap, k) == {s \in heap : \A t \in heap : ~Before(t, s, k)}

(* Mutant: the largest set is merged with the largest.                     *)
MergedAlike(s, t, k) == Sorted([i \in 1 .. k |-> Union(s[i], t[i])])

(* State.merge                                                             *)
Merged(s, t, k) == Sorted([i \in 1 .. k |-> Union(s[i], t[k + 1 - i])])

(* What one round of the loop makes of the heap.                           *)
Merges(heap, k) ==
  UNION {UNION {{(heap \ {s, t}) \cup {m} : m \in Merged(s, t, k)} :
                  t \in Popped(heap \ {s}, k)} : s \in Popped(heap, k)}

-----------------------------------------------------------------------------

(* sorted(): the elements of S as a strict order, a set of pairs, has them.*)
InOrder(S, before) ==
  CHOOSE s \in [1 .. Cardinality(S) -> S] :
    \A i, j \in DOMAIN s : i < j => <<s[i], s[j]>> \in before

(* Rows by their load, rows of the same load as they come.                 *)
ByLoad(S, load) == {p \in S \X S : \/ load[p[1]] < load[p[2]]
                                   \/ load[p[1]] = load[p[2]] /\ p[1] < p[2]}

(* The place of a row when rows are sorted by load.                        *)
Place(i, load) == Cardinality({j \in DOMAIN load : <<i, j>> \notin ByLoad(DOMAIN load, load)})

(* The states the loop starts from: one row each, or, for parts of equal   *)
(* size, k rows of neighbouring loads each.                                *)
Singles(load, k) ==
  {[i \in 1 .. k |-> IF i = 1 THEN Item(r, load[r]) ELSE NoItems] : r \in DOMAIN load}

(* Mutant: the rows as they come.                                          *)
GroupsAsTheyCome(load, k) ==
  {[i \in 1 .. k |-> Item(g * k - i + 1, load[g * k - i + 1])] :
     g \in 1 .. Cardinality(DOMAIN load) \div k}

Groups(load, k) ==
  LET sorted == InOrder(DOMAIN load, ByLoad(DOMAIN load, load))
  IN  {[i \in 1 .. k |-> LET r == sorted[g * k - i + 1] IN Item(r, load[r])] :
         g \in 1 .. Cardinality(DOMAIN load) \div k}

Parts(heap, k) == LET s == CHOOSE s \in heap : TRUE IN [i \in 1 .. k |-> s[i].items]
=============================================================================
