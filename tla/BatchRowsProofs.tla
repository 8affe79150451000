-------------------------- MODULE BatchRowsProofs --------------------------
(***************************************************************************)
(* What becomes of the rows of a batch in module BatchFlow, for every      *)
(* number of rows and of workers, every length of the rows and every size  *)
(* of the micro-batches: module BatchFlowProofs shows which shapes the     *)
(* parts, slices and micro-batches have; here it is shown which rows are   *)
(* in them.                                                                *)
(*                                                                         *)
(* In this order: where a place of a flattened sequence of sequences comes *)
(* from; how a slice is cut into micro-batches and put together again;     *)
(* the invariant DataInv about the rows of chunks, slices, micro-batches,  *)
(* results and steps; that every step of a worker and of the driver keeps  *)
(* it; and what follows: Aligned, TokenWeighted and EachRowOnce.  At the   *)
(* end EvenLoads: no set of a state of karmarkar_karp is above another by  *)
(* more than one of its rows, through every merge, so that neither the     *)
(* parts of the driver nor the micro-batches of a worker are far apart.    *)
(***************************************************************************)
EXTENDS BatchFlowProofs

-----------------------------------------------------------------------------
(* A set of numbers has a least one.                                       *)
LEMMA LeastNat ==
  ASSUME NEW S \in SUBSET Nat, S # {}
  PROVE  \E m \in S : \A y \in S : m <= y
<1>. DEFINE Less == {p \in Nat \X Nat : p[1] < p[2]}
<1>1. IsWellFoundedOn(Less, Nat)
  BY NatLessThanWellFounded DEF OpToRel
<1>2. PICK m \in S : \A y \in S : ~(<<y, m>> \in Less)
  <2>. HIDE DEF Less
  <2>. QED  BY <1>1, WFMin
<1>3. \A y \in S : m <= y
  <2>1. ASSUME NEW y \in S PROVE m <= y
    <3>1. <<y, m>> \notin Less /\ y \in Nat /\ m \in Nat
      BY <1>2
    <3>. QED  BY <3>1
  <2>. QED  BY <2>1
<1>. QED  BY <1>3

(* Where the sequences of ss begin when they are joined.                   *)
Offsets(off, ss, k) ==
  /\ off \in [1 .. k + 1 -> Nat] /\ off[1] = 0
  /\ \A m \in 1 .. k : off[m + 1] = off[m] + Len(ss[m]) /\ Len(ss[m]) \in Nat

(* The offsets grow with the place.                                        *)
LEMMA OffsetsGrow ==
  ASSUME NEW k \in Nat, NEW ss, NEW off, Offsets(off, ss, k),
         NEW m \in 1 .. k + 1, NEW l \in 1 .. k + 1, m <= l
  PROVE  off[m] <= off[l]
<1>. DEFINE Bad == {j \in Nat : m <= j /\ j <= k + 1 /\ ~(off[m] <= off[j])}
<1>0. \A j \in 1 .. k + 1 : off[j] \in Nat
  BY DEF Offsets
<1>1. ASSUME Bad # {} PROVE FALSE
  <2>1. PICK j \in Bad : \A y \in Bad : j <= y
    BY <1>1, LeastNat
  <2>2. j # m
    BY <1>0
  <2>3. PICK i \in 1 .. k : i = j - 1 /\ m <= i
    BY <2>2
  <2>4. i \in 1 .. k + 1 /\ i \notin Bad
    BY <2>1, <2>3
  <2>5. off[m] <= off[i] /\ off[j] = off[i] + Len(ss[i]) /\ Len(ss[i]) \in Nat
    BY <2>3, <2>4 DEF Offsets
  <2>6. j \in 1 .. k + 1 /\ ~(off[m] <= off[j])
    OBVIOUS
  <2>. QED  BY <1>0, <2>4, <2>5, <2>6
<1>. QED  BY <1>1

(* Every place is of one of them,                                          *)
LEMMA OffsetsPlace ==
  ASSUME NEW k \in Nat, NEW ss, NEW off, Offsets(off, ss, k), NEW p \in 1 .. off[k + 1]
  PROVE  \E m \in 1 .. k : \E i \in 1 .. Len(ss[m]) : p = off[m] + i
<1>. DEFINE Past == {j \in Nat : j \in 1 .. k + 1 /\ p <= off[j]}
<1>0. \A j \in 1 .. k + 1 : off[j] \in Nat
  BY DEF Offsets
<1>00. off[1] = 0 /\ k + 1 \in 1 .. k + 1
  BY DEF Offsets
<1>1. PICK j \in Past : \A y \in Past : j <= y
  <2>1. k + 1 \in Past
    BY <1>0, <1>00
  <2>. QED  BY <2>1, LeastNat
<1>2. j # 1
  BY <1>00
<1>3. PICK m \in 1 .. k : j = m + 1
  <2>1. j - 1 \in 1 .. k /\ j = (j - 1) + 1
    BY <1>2
  <2>. QED  BY <2>1
<1>4. m \in 1 .. k + 1 /\ m \notin Past
  BY <1>1, <1>3
<1>5. off[m] < p /\ p <= off[m] + Len(ss[m]) /\ off[m] \in Nat /\ Len(ss[m]) \in Nat
  <2>1. p <= off[m + 1]
    BY <1>3
  <2>2. off[m] < p
    BY <1>0, <1>4
  <2>3. off[m + 1] = off[m] + Len(ss[m]) /\ Len(ss[m]) \in Nat
    BY DEF Offsets
  <2>. QED  BY <1>0, <1>4, <2>1, <2>2, <2>3
<1>6. PICK i \in 1 .. Len(ss[m]) : i = p - off[m]
  BY <1>0, <1>00, <1>5
<1>. QED  BY <1>0, <1>00, <1>5, <1>6

(* and of no other.                                                        *)
LEMMA OffsetsApart ==
  ASSUME NEW k \in Nat, NEW ss, NEW off, Offsets(off, ss, k),
         NEW m \in 1 .. k, NEW i \in 1 .. Len(ss[m])
  PROVE  /\ off[m] + i \in 1 .. off[k + 1]
         /\ \A l \in 1 .. k : \A j \in 1 .. Len(ss[l]) :
              off[m] + i = off[l] + j => m = l /\ i = j
<1>1. ASSUME NEW a \in 1 .. k
      PROVE  /\ off[a] \in Nat /\ off[a + 1] = off[a] + Len(ss[a]) /\ Len(ss[a]) \in Nat
             /\ a + 1 \in 1 .. k + 1 /\ off[a + 1] <= off[k + 1]
  <2>1. a \in 1 .. k + 1 /\ a + 1 \in 1 .. k + 1 /\ k + 1 \in 1 .. k + 1 /\ a + 1 <= k + 1
    OBVIOUS
  <2>. QED  BY <2>1, OffsetsGrow DEF Offsets
<1>2. off[k + 1] \in Nat
  BY DEF Offsets
<1>3. off[m] + i \in 1 .. off[k + 1]
  BY <1>1, <1>2
<1>4. ASSUME NEW a \in 1 .. k, NEW b \in 1 .. k, a < b PROVE off[a + 1] <= off[b]
  <2>1. a + 1 \in 1 .. k + 1 /\ b \in 1 .. k + 1 /\ a + 1 <= b
    BY <1>4
  <2>. QED  BY <2>1, OffsetsGrow
<1>5. ASSUME NEW l \in 1 .. k, NEW j \in 1 .. Len(ss[l]), off[m] + i = off[l] + j
      PROVE  m = l /\ i = j
  <2>0. PICK a \in Nat, b \in Nat, c \in Nat, d \in Nat :
          /\ a = off[m] /\ c = Len(ss[m]) /\ off[m + 1] = a + c
          /\ b = off[l] /\ d = Len(ss[l]) /\ off[l + 1] = b + d
    BY <1>1
  <2>01. i \in 1 .. c /\ j \in 1 .. d /\ a + i = b + j
    BY ONLY <1>5, <2>0, i \in 1 .. Len(ss[m])
  <2>1. ~(m < l)
    <3>1. ASSUME m < l PROVE a + c <= b
      <4>1. off[m + 1] <= off[l]
        BY ONLY <1>4, <3>1, m \in 1 .. k, l \in 1 .. k
      <4>. QED  BY ONLY <2>0, <4>1
    <3>. QED  BY ONLY <2>01, <3>1, a \in Nat, b \in Nat, c \in Nat, d \in Nat
  <2>2. ~(l < m)
    <3>1. ASSUME l < m PROVE b + d <= a
      <4>1. off[l + 1] <= off[m]
        BY ONLY <1>4, <3>1, m \in 1 .. k, l \in 1 .. k
      <4>. QED  BY ONLY <2>0, <4>1
    <3>. QED  BY ONLY <2>01, <3>1, a \in Nat, b \in Nat, c \in Nat, d \in Nat
  <2>3. m = l
    BY <2>1, <2>2
  <2>. QED  BY <1>1, <1>5, <2>3
<1>. QED  BY <1>3, <1>5

(* FlattenSeq puts element i of sequence m at place off[m] + i.            *)
FlatAt(r, ss, T, k, off) ==
  /\ r \in Seq(T) /\ Len(r) = off[k + 1]
  /\ \A m \in 1 .. k : \A i \in 1 .. Len(ss[m]) : r[off[m] + i] = ss[m][i]

(* FlattenSeq puts element i of sequence m at place off[m] + i, where off  *)
(* says where the sequences begin.                                         *)
LEMMA FlattenAt ==
  ASSUME NEW T, NEW k \in Nat \ {0}, NEW ss, Len(ss) = k, \A i \in 1 .. k : ss[i] \in Seq(T)
  PROVE  \E off : Offsets(off, ss, k) /\ FlatAt(FlattenSeq(ss), ss, T, k, off)
<1>1. PICK f : FlattenSeq(ss) = f[k] /\ Joins(ss, k, f)
  BY FlattenSteps
<1>. DEFINE Begun(l) == f[l] \in Seq(T)
            Bad == {l \in Nat : l \in 1 .. k /\ ~Begun(l)}
            off == [m \in 1 .. k + 1 |-> IF m = 1 THEN 0 ELSE Len(f[m - 1])]
<1>2. ASSUME NEW l \in 1 .. k, l # 1
      PROVE  /\ l - 1 \in 1 .. k /\ f[l] = f[l - 1] \o ss[l]
             /\ f[l - 1] \in Seq(T) => Joint(f[l], f[l - 1], ss[l], T)
  <2>1. l \in 2 .. k /\ l - 1 \in 1 .. k
    BY <1>2
  <2>2. f[l] = f[l - 1] \o ss[l]
    BY <1>1, <2>1 DEF Joins
  <2>3. ASSUME f[l - 1] \in Seq(T) PROVE Joint(f[l], f[l - 1], ss[l], T)
    <3>1. ss[l] \in Seq(T)
      OBVIOUS
    <3>2. PICK a \in Seq(T), b \in Seq(T) : a = f[l - 1] /\ b = ss[l]
      BY <2>3, <3>1
    <3>3. Joint(a \o b, a, b, T)
      BY Concat
    <3>. QED  BY <2>2, <3>2, <3>3
  <2>. QED  BY <2>1, <2>2, <2>3
<1>3. ASSUME Bad # {} PROVE FALSE
  <2>1. PICK l \in Bad : \A y \in Bad : l <= y
    BY <1>3, LeastNat
  <2>2. l # 1
    BY <1>1 DEF Joins
  <2>3. l - 1 \in 1 .. k /\ l - 1 \notin Bad
    BY <1>2, <2>1, <2>2
  <2>4. f[l - 1] \in Seq(T) /\ l \in 1 .. k
    BY <2>3
  <2>5. f[l] \in Seq(T)
    BY <1>2, <2>2, <2>4 DEF Joint
  <2>. QED  BY <2>5
<1>4. \A l \in 1 .. k : f[l] \in Seq(T) /\ Len(f[l]) \in Nat
  <2>1. ASSUME NEW l \in 1 .. k PROVE f[l] \in Seq(T)
    BY ONLY <1>3, l \in 1 .. k, k \in Nat \ {0}
  <2>. QED  BY ONLY <2>1
<1>5. off \in [1 .. k + 1 -> Nat] /\ off[1] = 0 /\ \A m \in 1 .. k : off[m + 1] = Len(f[m])
  <2>1. ASSUME NEW m \in 1 .. k + 1 PROVE off[m] \in Nat
    <3>1. m # 1 => m - 1 \in 1 .. k
      OBVIOUS
    <3>. QED  BY <1>4, <3>1
  <2>2. \A m \in 1 .. k : m + 1 \in 1 .. k + 1 /\ m + 1 # 1 /\ (m + 1) - 1 = m
    OBVIOUS
  <2>. QED  BY <2>1, <2>2
<1>. HIDE DEF off
<1>6. ASSUME NEW m \in 1 .. k
      PROVE  /\ off[m + 1] = off[m] + Len(ss[m]) /\ Len(ss[m]) \in Nat
             /\ \A i \in 1 .. Len(ss[m]) : f[m][off[m] + i] = ss[m][i]
             /\ m # 1 => \A p \in 1 .. off[m] : f[m][p] = f[m - 1][p]
  <2>0. Len(ss[m]) \in Nat
    OBVIOUS
  <2>1. CASE m = 1
    <3>1. off[m + 1] = Len(f[1]) /\ f[1] = ss[1] /\ off[m] = 0
      BY <1>1, <1>5, <2>1 DEF Joins
    <3>2. off[m + 1] = off[m] + Len(ss[m])
      BY <2>0, <2>1, <3>1
    <3>3. \A i \in 1 .. Len(ss[m]) : off[m] + i = i
      BY <3>1
    <3>4. \A i \in 1 .. Len(ss[m]) : f[m][off[m] + i] = ss[m][i]
      BY <2>1, <3>1, <3>3
    <3>. QED  BY ONLY <2>0, <2>1, <3>2, <3>4
  <2>2. CASE m # 1
    <3>1. Joint(f[m], f[m - 1], ss[m], T) /\ m - 1 \in 1 .. k
      BY <1>2, <1>4, <2>2
    <3>2. off[m] = Len(f[m - 1]) /\ off[m + 1] = Len(f[m])
      <4>1. PICK j \in 1 .. k : j = m - 1
        BY <3>1
      <4>2. off[j + 1] = Len(f[j])
        BY ONLY <1>5, j \in 1 .. k
      <4>3. j + 1 = m
        BY <4>1
      <4>. QED  BY <1>5, <4>1, <4>2, <4>3
    <3>. QED  BY <2>0, <2>2, <3>1, <3>2 DEF Joint
  <2>. QED  BY <2>1, <2>2
<1>7. Offsets(off, ss, k)
  BY <1>5, <1>6 DEF Offsets
<1>. DEFINE Right(l) == \A m \in 1 .. l : \A i \in 1 .. Len(ss[m]) : f[l][off[m] + i] = ss[m][i]
            Wrong == {l \in Nat : l \in 1 .. k /\ ~Right(l)}
<1>8. ASSUME Wrong # {} PROVE FALSE
  <2>1. PICK l \in Wrong : \A y \in Wrong : l <= y
    BY <1>8, LeastNat
  <2>2. l \in 1 .. k /\ ~Right(l)
    OBVIOUS
  <2>21. PICK m \in 1 .. l : \E i \in 1 .. Len(ss[m]) : f[l][off[m] + i] # ss[m][i]
    BY <2>2
  <2>3. PICK i \in 1 .. Len(ss[m]) : f[l][off[m] + i] # ss[m][i]
    BY <2>21
  <2>4. m # l
    BY <1>6, <2>2, <2>3
  <2>5. l - 1 \in 1 .. k /\ l - 1 \notin Wrong /\ m \in 1 .. l - 1 /\ l # 1
    <3>1. l \in Nat /\ l >= 1 /\ l <= k /\ m \in 1 .. l /\ m # l
      BY ONLY <2>2, <2>4, m \in 1 .. l, k \in Nat \ {0}
    <3>2. l - 1 \in 1 .. k /\ m \in 1 .. l - 1 /\ l # 1 /\ ~(l <= l - 1)
      BY ONLY <3>1, k \in Nat \ {0}
    <3>. HIDE DEF Wrong
    <3>. QED  BY <2>1, <3>2
  <2>51. Right(l - 1)
    <3>1. l - 1 \in Nat
      BY <2>5
    <3>. HIDE DEF Right
    <3>. QED  BY <2>5, <3>1
  <2>6. f[l - 1][off[m] + i] = ss[m][i]
    <3>1. \A b \in 1 .. Len(ss[m]) : f[l - 1][off[m] + b] = ss[m][b]
      BY <2>5, <2>51
    <3>. HIDE DEF Right
    <3>. QED  BY <3>1
  <2>7. off[m] + i \in 1 .. off[l]
    <3>1. m \in 1 .. k /\ m + 1 \in 1 .. k + 1 /\ l \in 1 .. k + 1 /\ m + 1 <= l
      BY ONLY <2>2, <2>5, k \in Nat \ {0}
    <3>2. off[m + 1] <= off[l]
      BY <1>7, <3>1, OffsetsGrow
    <3>3. off[m + 1] = off[m] + Len(ss[m]) /\ Len(ss[m]) \in Nat /\ off[m] \in Nat /\ off[l] \in Nat
      <4>1. m \in 1 .. k + 1
        BY <3>1
      <4>. QED  BY <1>5, <1>6, <3>1, <4>1
    <3>. HIDE DEF Right, Wrong
    <3>. QED  BY <3>2, <3>3
  <2>8. f[l][off[m] + i] = f[l - 1][off[m] + i]
    BY <1>6, <2>2, <2>5, <2>7
  <2>. QED  BY <2>3, <2>6, <2>8
<1>9. FlatAt(f[k], ss, T, k, off)
  <2>1. k \in 1 .. k /\ k \notin Wrong
    BY <1>8
  <2>2. Right(k)
    BY <2>1
  <2>. QED  BY <1>4, <1>5, <2>1, <2>2 DEF FlatAt
<1>. QED  BY <1>1, <1>7, <1>9

-----------------------------------------------------------------------------
(* The pieces of a sequence, one after the other.                          *)
Pieces(ss, s, k, off) ==
  /\ Offsets(off, ss, k) /\ off[k + 1] = Len(s)
  /\ \A m \in 1 .. k : \A i \in 1 .. Len(ss[m]) : ss[m][i] = s[off[m] + i]

(* Split makes pieces.                                                     *)
LEMMA SplitPieces ==
  ASSUME NEW T, NEW s \in Seq(T), NEW n \in Nat \ {0}
  PROVE  \E off : Pieces(Split(s, n), s, Ceil(Len(s), n), off)
<1>1. PICK l \in Nat : l = Len(s)
  OBVIOUS
<1>2. PICK c \in Nat : c = Ceil(l, n) /\ c * n <= l + n - 1 /\ l <= c * n
  <2>1. /\ (l + n - 1) \div n \in Nat /\ n * ((l + n - 1) \div n) <= l + n - 1
        /\ l + n - 1 < n * ((l + n - 1) \div n) + n
    OBVIOUS
  <2>2. PICK c \in Nat : c = (l + n - 1) \div n
    BY <2>1
  <2>3. n * c = c * n
    OBVIOUS
  <2>4. PICK e \in Nat : e = n * c
    OBVIOUS
  <2>. QED  BY <2>1, <2>2, <2>3, <2>4 DEF Ceil
<1>. DEFINE r == Split(s, n)
            end(i) == IF i * n <= l THEN i * n ELSE l
            off == [i \in 1 .. c + 1 |-> IF i = c + 1 THEN l ELSE (i - 1) * n]
<1>3. r = [i \in 1 .. c |-> SubSeq(s, (i - 1) * n + 1, end(i))]
  BY <1>1, <1>2 DEF Split, Ceil
<1>4. SplitOf(r, T, l, n)
  BY <1>1, SplitParts
<1>5. off \in [1 .. c + 1 -> Nat]
  <2>1. \A i \in 1 .. c + 1 : (i - 1) * n \in Nat
    OBVIOUS
  <2>. QED  BY <2>1
<1>6. off[1] = 0
  <2>1. CASE c = 0
    <3>1. c * n = 0
      BY <2>1
    <3>. QED  BY <1>2, <2>1, <3>1
  <2>2. CASE c # 0
    <3>1. 1 \in 1 .. c + 1 /\ 1 # c + 1 /\ (1 - 1) * n = 0
      BY <2>2
    <3>. QED  BY <3>1
  <2>. QED  BY <2>1, <2>2
<1>7. off[c + 1] = l
  OBVIOUS
<1>8. ASSUME NEW i \in 1 .. c
      PROVE  /\ off[i + 1] = off[i] + Len(r[i]) /\ Len(r[i]) \in Nat
             /\ \A t \in 1 .. Len(r[i]) : r[i][t] = s[off[i] + t]
  <2>0. i * n <= c * n
    OBVIOUS
  <2>1. PICK b \in Nat : b = (i - 1) * n /\ i * n = b + n
    OBVIOUS
  <2>2. b < l
    BY <1>2, <2>0, <2>1
  <2>3. PICK e \in Nat : e = end(i) /\ e = (IF b + n <= l THEN b + n ELSE l)
    BY <2>1
  <2>4. Len(r[i]) = PartLen(l, n, i)
    BY <1>2, <1>4 DEF SplitOf
  <2>5. PartLen(l, n, i) = e - b
    BY <2>1, <2>3 DEF PartLen
  <2>6. i # c => i * n <= l
    <3>1. ASSUME i # c PROVE i * n <= l
      <4>1. (i + 1) * n <= c * n
        BY <3>1
      <4>2. (i + 1) * n = i * n + n
        OBVIOUS
      <4>. QED  BY <1>2, <2>1, <4>1, <4>2
    <3>. QED  BY <3>1
  <2>7. off[i] = b
    BY <2>1
  <2>8. off[i + 1] = e
    <3>1. i = c => e = l
      BY <1>2, <2>1, <2>3
    <3>2. i # c => e = b + n /\ (i + 1 - 1) * n = b + n
      BY <2>1, <2>3, <2>6
    <3>3. i + 1 \in 1 .. c + 1 /\ (i + 1 = c + 1 <=> i = c)
      OBVIOUS
    <3>4. off[i + 1] = IF i + 1 = c + 1 THEN l ELSE (i + 1 - 1) * n
      BY <3>3
    <3>. HIDE DEF off
    <3>. QED  BY <3>1, <3>2, <3>3, <3>4
  <2>. HIDE DEF off
  <2>9. r[i] = SubSeq(s, b + 1, e)
    BY <1>3, <2>1, <2>3
  <2>10. b + 1 <= e /\ e <= l
    BY <2>2, <2>3
  <2>11. b + 1 \in Int /\ e \in Int /\ \A j \in b + 1 .. e : s[j] \in T
    BY <1>1, <2>10
  <2>12. \A t \in 1 .. (e - (b + 1)) + 1 : SubSeq(s, b + 1, e)[t] = s[(b + 1) + t - 1]
    BY <2>10, <2>11, SubSeqProperties
  <2>13. ASSUME NEW t \in 1 .. e - b PROVE r[i][t] = s[b + t]
    <3>1. t \in 1 .. (e - (b + 1)) + 1 /\ (b + 1) + t - 1 = b + t
      BY <2>10
    <3>. QED  BY <2>9, <2>12, <3>1
  <2>14. Len(r[i]) = e - b /\ e - b \in Nat /\ e = b + (e - b)
    BY <2>4, <2>5, <2>10
  <2>. HIDE DEF r
  <2>. QED  BY <2>7, <2>8, <2>13, <2>14
<1>. HIDE DEF off, r
<1>9. Pieces(r, s, c, off)
  BY <1>1, <1>5, <1>6, <1>7, <1>8 DEF Pieces, Offsets
<1>. QED  BY <1>1, <1>2, <1>9 DEF r

-----------------------------------------------------------------------------
(* The lists of the arranged parts, one after the other, have every place  *)
(* of the slice once.                                                      *)
Listed(lists, n, k, off) ==
  /\ Offsets(off, lists, k) /\ off[k + 1] = n
  /\ FlattenSeq(lists) \in Seq(1 .. n) /\ FlattenSeq(lists) \in Bijection(1 .. n, 1 .. n)
  /\ \A m \in 1 .. k : \A i \in 1 .. Len(lists[m]) : FlattenSeq(lists)[off[m] + i] = lists[m][i]

(* The ascending lists of the sets of a partition of 1..n, joined, hold    *)
(* every number of 1..n once.                                              *)
LEMMA ListsFlat ==
  ASSUME NEW n \in Nat \ {0}, NEW k \in Nat \ {0}, NEW P, Partition(P, 1 .. n, k),
         \A i \in 1 .. k : P[i] # {}, NEW A, ArrangedOf(A, P, k),
         NEW lists, lists = [m \in 1 .. k |-> Ascending(A[m])]
  PROVE  \E off : Listed(lists, n, k, off)
<1>1. ASSUME NEW m \in 1 .. k
      PROVE  /\ A[m] \in SUBSET (1 .. n) /\ \E j \in 1 .. k : A[m] = P[j]
  <2>1. A[m] \in Range(P)
    BY DEF ArrangedOf, Bijection, Injection
  <2>2. PICK j \in 1 .. k : A[m] = P[j]
    BY <2>1 DEF Range, Partition
  <2>. QED  BY <2>2 DEF Partition
<1>2. \A m, l \in 1 .. k : A[m] = A[l] => m = l
  BY DEF ArrangedOf, Bijection, Injection, IsInjective
<1>3. \A j \in 1 .. k : \E m \in 1 .. k : A[m] = P[j]
  <2>1. \A j \in 1 .. k : P[j] \in Range(P)
    BY DEF Range, Partition
  <2>. QED  BY <2>1 DEF ArrangedOf, Bijection, Surjection
<1>4. ASSUME NEW m \in 1 .. k
      PROVE  /\ Cardinality(A[m]) \in Nat /\ lists[m] = Ascending(A[m])
             /\ lists[m] \in Bijection(1 .. Cardinality(A[m]), A[m])
             /\ lists[m] \in Seq(1 .. n) /\ Len(lists[m]) = Cardinality(A[m])
  <2>1. lists[m] = Ascending(A[m])
    OBVIOUS
  <2>2. PICK c \in Nat : c = Cardinality(A[m]) /\ lists[m] \in Bijection(1 .. c, A[m])
    BY <1>1, <2>1, AscendingPart
  <2>3. lists[m] \in [1 .. c -> 1 .. n]
    <3>1. lists[m] \in [1 .. c -> A[m]] /\ A[m] \subseteq 1 .. n
      BY <1>1, <2>2 DEF Bijection, Injection
    <3>. QED  BY <3>1
  <2>4. lists[m] \in Seq(1 .. n) /\ Len(lists[m]) = c
    BY <2>3
  <2>. QED  BY <2>1, <2>2, <2>4
<1>5. Len(lists) = k
  OBVIOUS
<1>6. PICK off : Offsets(off, lists, k) /\ FlatAt(FlattenSeq(lists), lists, 1 .. n, k, off)
  BY <1>4, <1>5, FlattenAt
<1>7. PICK r : r = FlattenSeq(lists)
  OBVIOUS
<1>8. PICK e \in Nat : e = off[k + 1]
  BY <1>6 DEF Offsets
<1>9. r \in [1 .. e -> 1 .. n]
  BY <1>6, <1>7, <1>8 DEF FlatAt
<1>10. ASSUME NEW p \in 1 .. e
       PROVE  \E m \in 1 .. k : \E i \in 1 .. Len(lists[m]) : p = off[m] + i /\ r[p] = lists[m][i]
  <2>0. k \in Nat /\ Offsets(off, lists, k) /\ p \in 1 .. off[k + 1]
    BY <1>6, <1>8
  <2>1. \E m \in 1 .. k : \E i \in 1 .. Len(lists[m]) : p = off[m] + i
    BY ONLY <2>0, OffsetsPlace
  <2>2. PICK m \in 1 .. k : \E i \in 1 .. Len(lists[m]) : p = off[m] + i
    BY <2>1
  <2>3. PICK i \in 1 .. Len(lists[m]) : p = off[m] + i
    BY <2>2
  <2>4. r[off[m] + i] = lists[m][i]
    BY <1>6, <1>7 DEF FlatAt
  <2>. QED  BY <2>3, <2>4
<1>11. ASSUME NEW p \in 1 .. e, NEW q \in 1 .. e, r[p] = r[q] PROVE p = q
  <2>1. PICK m \in 1 .. k : \E i \in 1 .. Len(lists[m]) : p = off[m] + i /\ r[p] = lists[m][i]
    BY <1>10
  <2>2. PICK i \in 1 .. Len(lists[m]) : p = off[m] + i /\ r[p] = lists[m][i]
    BY <2>1
  <2>3. PICK l \in 1 .. k : \E j \in 1 .. Len(lists[l]) : q = off[l] + j /\ r[q] = lists[l][j]
    BY <1>10
  <2>4. PICK j \in 1 .. Len(lists[l]) : q = off[l] + j /\ r[q] = lists[l][j]
    BY <2>3
  <2>5. lists[m][i] \in A[m] /\ lists[l][j] \in A[l]
    BY <1>4 DEF Bijection, Injection
  <2>6. PICK a \in 1 .. k : A[m] = P[a]
    BY <1>1
  <2>7. PICK b \in 1 .. k : A[l] = P[b]
    BY <1>1
  <2>8. r[p] \in P[a] /\ r[p] \in P[b] /\ r[p] \in 1 .. n
    BY <1>9, <1>11, <2>2, <2>4, <2>5, <2>6, <2>7
  <2>9. a = b
    BY <2>8 DEF Partition
  <2>10. m = l
    BY <1>2, <2>6, <2>7, <2>9
  <2>11. lists[m][i] = lists[m][j] /\ i \in 1 .. Len(lists[m]) /\ j \in 1 .. Len(lists[m])
    BY <1>11, <2>2, <2>4, <2>10
  <2>12. i = j
    <3>1. PICK u : u = Cardinality(A[m])
      OBVIOUS
    <3>2. lists[m] \in Bijection(1 .. u, A[m]) /\ Len(lists[m]) = u
      BY <1>4, <3>1
    <3>3. i \in 1 .. u /\ j \in 1 .. u
      BY <2>11, <3>2
    <3>. QED  BY <2>11, <3>2, <3>3 DEF Bijection, Injection, IsInjective
  <2>. QED  BY <2>2, <2>4, <2>10, <2>12
<1>12. ASSUME NEW x \in 1 .. n PROVE \E p \in 1 .. e : r[p] = x
  <2>1. PICK j \in 1 .. k : x \in P[j]
    BY DEF Partition
  <2>2. PICK m \in 1 .. k : A[m] = P[j]
    BY <1>3
  <2>3. PICK i \in 1 .. Len(lists[m]) : lists[m][i] = x
    <3>1. PICK a : a = Cardinality(A[m])
      OBVIOUS
    <3>2. lists[m] \in Bijection(1 .. a, A[m]) /\ Len(lists[m]) = a /\ x \in A[m]
      BY <1>4, <2>1, <2>2, <3>1
    <3>. QED  BY <3>2 DEF Bijection, Surjection
  <2>4. off[m] + i \in 1 .. e
    BY <1>6, <1>8, OffsetsApart
  <2>5. r[off[m] + i] = x
    BY <1>6, <1>7, <2>3 DEF FlatAt
  <2>. QED  BY <2>4, <2>5
<1>13. r \in Bijection(1 .. e, 1 .. n)
  BY <1>9, <1>11, <1>12 DEF Bijection, Injection, IsInjective, Surjection
<1>14. e = n
  <2>1. IsFiniteSet(1 .. e) /\ Cardinality(1 .. e) = e /\ Cardinality(1 .. n) = n
    BY FS_Interval
  <2>2. ExistsBijection(1 .. e, 1 .. n)
    BY <1>13 DEF ExistsBijection
  <2>. QED  BY <2>1, <2>2, FS_Bijection
<1>15. Listed(lists, n, k, off)
  BY <1>6, <1>7, <1>8, <1>13, <1>14 DEF Listed, FlatAt
<1>. QED  BY <1>15

(* Micro-batches M of a slice c: the row at place p of all of them, one    *)
(* after the other, is row ix[p] of the slice.                             *)
CutOf(M, ix, off, c) ==
  /\ Offsets(off, M, Len(M)) /\ off[Len(M) + 1] = Len(c) /\ Len(M) \in Nat \ {0}
  /\ ix \in Seq(1 .. Len(c)) /\ ix \in Bijection(1 .. Len(c), 1 .. Len(c))
  /\ \A m \in 1 .. Len(M) : \A i \in 1 .. Len(M[m]) : M[m][i] = c[ix[off[m] + i]]

Picked(lists, c) == [m \in DOMAIN lists |-> [i \in DOMAIN lists[m] |-> c[lists[m][i]]]]

(* Rows picked by such lists are a cut of the sequence they are picked     *)
(* from.                                                                   *)
LEMMA ListedCut ==
  ASSUME NEW T, NEW n \in Nat \ {0}, NEW k \in Nat \ {0}, NEW lists, NEW off,
         Listed(lists, n, k, off), DOMAIN lists = 1 .. k,
         \A m \in 1 .. k : lists[m] \in Seq(1 .. n),
         NEW c \in Seq(T), Len(c) = n,
         NEW M, M = Picked(lists, c)
  PROVE  M \in Seq(Seq(T)) /\ Len(M) = k /\ CutOf(M, FlattenSeq(lists), off, c)
<1>0. M = [m \in DOMAIN lists |-> [i \in DOMAIN lists[m] |-> c[lists[m][i]]]]
  BY DEF Picked
<1>1. ASSUME NEW m \in 1 .. k
      PROVE  /\ M[m] \in Seq(T) /\ Len(M[m]) = Len(lists[m]) /\ Len(lists[m]) \in Nat
             /\ \A i \in 1 .. Len(lists[m]) : M[m][i] = c[lists[m][i]]
  <2>1. PICK l \in Seq(1 .. n) : l = lists[m]
    OBVIOUS
  <2>2. PICK a \in Nat : a = Len(l)
    BY <2>1
  <2>3. l \in [1 .. a -> 1 .. n]
    BY <2>1, <2>2
  <2>4. PICK u : u = M[m]
    OBVIOUS
  <2>5. u = [i \in 1 .. a |-> c[l[i]]]
    BY <1>0, <2>1, <2>3, <2>4
  <2>6. \A i \in 1 .. a : c[l[i]] \in T
    BY <2>3
  <2>7. u \in [1 .. a -> T]
    BY <2>5, <2>6
  <2>8. u \in Seq(T) /\ Len(u) = a
    BY <2>7
  <2>. QED  BY <2>1, <2>2, <2>4, <2>5, <2>8
<1>2. M \in Seq(Seq(T)) /\ Len(M) = k
  <2>1. M \in [1 .. k -> Seq(T)]
    BY <1>0, <1>1
  <2>. QED  BY <2>1
<1>3. /\ FlattenSeq(lists) \in Seq(1 .. n) /\ FlattenSeq(lists) \in Bijection(1 .. n, 1 .. n)
      /\ off \in [1 .. k + 1 -> Nat] /\ off[1] = 0 /\ off[k + 1] = n
      /\ \A m \in 1 .. k : off[m + 1] = off[m] + Len(lists[m])
  BY DEF Listed, Offsets
<1>4. ASSUME NEW m \in 1 .. k, NEW i \in 1 .. Len(M[m])
      PROVE  M[m][i] = c[FlattenSeq(lists)[off[m] + i]]
  <2>1. i \in 1 .. Len(lists[m])
    BY <1>1
  <2>2. FlattenSeq(lists)[off[m] + i] = lists[m][i]
    BY <2>1 DEF Listed
  <2>. QED  BY <1>1, <2>1, <2>2
<1>5. Offsets(off, M, k)
  BY <1>1, <1>3 DEF Offsets
<1>. QED  BY <1>2, <1>3, <1>4, <1>5 DEF CutOf

(* tensordict.split is a cut that leaves every row where it was.           *)
LEMMA SplitCut ==
  ASSUME NEW T, NEW c \in Seq(T), c # << >>, NEW n \in Nat \ {0}
  PROVE  \E off : CutOf(Split(c, n), [i \in DOMAIN c |-> i], off, c)
<1>1. PICK l \in Nat \ {0} : l = Len(c) /\ DOMAIN c = 1 .. l
  OBVIOUS
<1>2. PICK off : Pieces(Split(c, n), c, Ceil(l, n), off)
  BY <1>1, SplitPieces
<1>3. SplitOf(Split(c, n), T, l, n)
  BY <1>1, SplitParts
<1>4. PICK M : M = Split(c, n)
  OBVIOUS
<1>5. PICK k : k = Ceil(l, n) /\ k = Len(M)
  BY <1>3, <1>4 DEF SplitOf
<1>6. k \in Nat \ {0}
  <2>1. (l + n - 1) \div n \in Nat
    OBVIOUS
  <2>2. (l + n - 1) \div n # 0
    <3>1. l + n - 1 < n * ((l + n - 1) \div n) + n
      OBVIOUS
    <3>. QED  BY <2>1, <3>1
  <2>. QED  BY <1>5, <2>1, <2>2 DEF Ceil
<1>7. PICK ix : ix = [i \in 1 .. l |-> i]
  OBVIOUS
<1>8. ix \in Seq(1 .. l) /\ ix \in Bijection(1 .. l, 1 .. l)
  <2>1. ix \in [1 .. l -> 1 .. l]
    BY <1>7
  <2>. QED  BY <1>7, <2>1 DEF Bijection, Injection, IsInjective, Surjection
<1>9. ASSUME NEW m \in 1 .. k, NEW i \in 1 .. Len(M[m]) PROVE M[m][i] = c[ix[off[m] + i]]
  <2>1. off[m] + i \in 1 .. l
    BY <1>1, <1>2, <1>4, <1>5, <1>6, OffsetsApart DEF Pieces
  <2>. QED  BY <1>2, <1>4, <1>5, <1>7, <2>1 DEF Pieces
<1>10. CutOf(M, ix, off, c)
  BY <1>1, <1>2, <1>4, <1>5, <1>6, <1>8, <1>9 DEF CutOf, Pieces
<1>. QED  BY <1>1, <1>4, <1>7, <1>10

-----------------------------------------------------------------------------
(* The mini-batch a worker is at, of all it has to run in a call;          *)
Turn(w) == Len(steps[w]) + 1
Whole(w) == IF phase = "computing" THEN <<Chunk(w)>> ELSE Split(Chunk(w), Mini)

(* what the workers agree on for it: the sum of its tokens, and the number *)
(* of micro-batches each needs at least;                                   *)
Tot(s) == Total(Workers, [v \in Workers |-> TokensOf(Whole(v)[s])])

LensOf(c) == [i \in 1 .. Len(c) |-> len[c[i].id]]
LoadsOf(c) == [i \in 1 .. Len(c) |-> Workload(LensOf(c)[i])]
NeededOf(c) ==
  LET parts == Ceil(Total(DOMAIN LensOf(c), LensOf(c)), Limit)
  IN  IF parts < Len(c) THEN parts ELSE Len(c)
Shared(s) == Max({NeededOf(Whole(v)[s]) : v \in Workers})

(* the states of karmarkar_karp, one after the other;                      *)
Chain(load, k, h) ==
  \E m \in Nat : \E f : /\ f[0] = Singles(load, k) /\ f[m] = h
                        /\ \A i \in 1 .. m : f[i] \in Merges(f[i - 1], k)

(* the micro-batches that are cut from the one it leaves;                  *)
ListsOf(c, k, h) ==
  LET arranged == Arranged(Range(Parts(h, k)), LoadsOf(c))
  IN  [m \in DOMAIN arranged |-> Ascending(arranged[m])]
MicrosOf(c, k, h) == Picked(ListsOf(c, k, h), c)
CutAs(M, c, s) ==
  IF config.dynamic
  THEN \E h : /\ Chain(LoadsOf(c), Shared(s), h) /\ Cardinality(h) = 1
              /\ M = MicrosOf(c, Shared(s), h)
  ELSE M = Split(c, Micro)

(* what a row of a micro-batch yields, and all the rows of a slice.        *)
Made(r, micro, tot) ==
  IF phase = "computing" THEN r.id
  ELSE IF config.loss = "slqp"
  THEN [id |-> r.id, share |-> Share(Tokens(r.id), TokensOf(micro), tot, World)]
  ELSE [id |-> r.id, old |-> IF OnPolicy THEN r.id ELSE r.old]
Product == IF phase = "computing" THEN Rows ELSE Used

Yielded(S, M, tot) ==
  /\ \A m \in 1 .. Len(M) : \A i \in 1 .. Len(M[m]) : Made(M[m][i], M[m], tot) \in S
  /\ \A x \in S : \E m \in 1 .. Len(M) : \E i \in 1 .. Len(M[m]) : x = Made(M[m][i], M[m], tot)
StepOf(S, c, s) ==
  \E M : /\ M \in Seq(Seq(Rec)) /\ CutAs(M, c, s)
         /\ \E ix : \E off : CutOf(M, ix, off, c)
         /\ Yielded(S, M, Tot(s))

(* A worker has run the first d of its micro-batches M.                    *)
Ran(w, M, off, d) ==
  /\ d \in 0 .. Len(M) /\ micros[w] \in Seq(Seq(Rec)) /\ Len(micros[w]) = Len(M) - d
  /\ \A m \in 1 .. Len(M) - d : micros[w][m] = M[d + m]
  /\ Len(out[w]) = off[d + 1]
  /\ \A m \in 1 .. d : \A i \in 1 .. Len(M[m]) :
       out[w][off[m] + i] = Made(M[m][i], M[m], Tot(Turn(w)))
AtStart == {"tokens", "summing", "count", "reduce", "merge", "split"}
Running == {"forward", "run", "restore", "step", "stepping"}
Over == {"restore", "step", "stepping"}
RunInv(w) ==
  pc[w] \in Running =>
    \E M \in Seq(Seq(Rec)) : \E off : \E d :
      /\ CutOf(M, index[w], off, Slice(w)) /\ CutAs(M, Slice(w), Turn(w)) /\ Ran(w, M, off, d)
      /\ pc[w] \in Over => d = Len(M)

(* Where a worker may be.                                                  *)
PlaceInv(w) ==
  /\ pc[w] \in {"count", "reduce", "merge"} => config.dynamic
  /\ pc[w] = "split" => ~config.dynamic
  /\ pc[w] \in {"tokens", "summing"} => config.loss = "slqp"
  /\ pc[w] = "restore" => phase = "computing"
  /\ pc[w] \in {"tokens", "summing", "step", "stepping"} => phase # "computing"

(* Nothing of its chunk is lost: what it has done, what it does and what   *)
(* is left are its slices in their order.                                  *)
WholeInv(w) ==
  /\ phase = "computing" => steps[w] = << >>
  /\ Len(steps[w]) + Len(slices[w]) = Len(Whole(w))
  /\ \A i \in 1 .. Len(slices[w]) : slices[w][i] = Whole(w)[Len(steps[w]) + i]
  /\ \A s \in 1 .. Len(steps[w]) : StepOf(steps[w][s], Whole(w)[s], s)
ReplyInv(w) ==
  pc[w] = "replied" =>
    IF phase = "computing" THEN out[w] = [i \in 1 .. Size |-> order[DpRank(w) * Size + i]]
    ELSE slices[w] = << >>
FlowInv(w) ==
  /\ steps[w] \in Seq(SUBSET Used) /\ out[w] \in Seq(Product)
  /\ PlaceInv(w) /\ WholeInv(w) /\ ReplyInv(w) /\ RunInv(w)
  /\ pc[w] \in AtStart => out[w] = << >>
  /\ pc[w] = "merge" => Chain(LoadsOf(Slice(w)), Shared(Turn(w)), heap[w])

(* What was entered for the mini-batch.                                    *)
SumAt(w, at) ==
  /\ at \in 1 .. Len(ops[w]) /\ ops[w][at].op = "sum"
  /\ \A i \in at + 1 .. Len(ops[w]) : ops[w][i].op # "sum"
  /\ \A v \in Workers : at <= Len(ops[v]) => ops[v][at].n = TokensOf(Whole(v)[Turn(w)])
TokenInv(w) == config.loss = "slqp" /\ pc[w] \notin {"tokens", "replied"} => \E at : SumAt(w, at)
MaxInv(w) ==
  pc[w] \in {"reduce", "merge"} =>
    \A v \in Workers :
      Len(ops[v]) >= Len(ops[w]) => ops[v][Len(ops[w])].n = NeededOf(Whole(v)[Turn(w)])

DataInv ==
  /\ old \in [Rows -> Rows \cup {0}]
  /\ config.loss \in {"ppo", "opd", "slqp"}
  /\ config.loss = "opd" => config.mini = config.rows
  /\ phase \in {"balance", "balancing", "log_prob", "computing", "update", "updating", "done"}
  /\ phase \in {"update", "updating", "done"} => old = order \/ SkipsReplay
  /\ DOMAIN out = Workers /\ DOMAIN index = Workers /\ DOMAIN steps = Workers
  /\ phase \notin {"updating", "done"} => \A w \in Workers : steps[w] = << >>
  /\ InCall \/ phase = "done" => \A w \in Workers : FlowInv(w)
  /\ InCall => \A w \in Workers : TokenInv(w) /\ MaxInv(w)
  /\ phase = "done" => AllReplied

-----------------------------------------------------------------------------

(* What depends on the batch alone, and on whether the old log probs are   *)
(* being computed,                                                         *)
LEMMA SameBatch ==
  ASSUME UNCHANGED <<config, len, order, old>>, phase' = "computing" <=> phase = "computing"
  PROVE  /\ Workers' = Workers /\ World' = World /\ Rows' = Rows /\ Size' = Size /\ Rec' = Rec
         /\ Product' = Product /\ Used' = Used /\ Mini' = Mini /\ Limit' = Limit
         /\ SkipsReplay' = SkipsReplay
         /\ \A w : Whole(w)' = Whole(w) /\ Chunk(w)' = Chunk(w) /\ DpRank(w)' = DpRank(w)
         /\ \A s : Tot(s)' = Tot(s) /\ Shared(s)' = Shared(s)
         /\ \A c : LoadsOf(c)' = LoadsOf(c) /\ NeededOf(c)' = NeededOf(c)
                   /\ TokensOf(c)' = TokensOf(c)
         /\ \A M, c, s : CutAs(M, c, s)' = CutAs(M, c, s)
         /\ \A r, m, tot : Made(r, m, tot)' = Made(r, m, tot)
         /\ \A S, c, s : StepOf(S, c, s)' = StepOf(S, c, s)
<1>1. /\ config' = config /\ len' = len /\ order' = order /\ old' = old
      /\ phase' = "computing" <=> phase = "computing"
  OBVIOUS
<1>2. /\ Workers' = Workers /\ World' = World /\ Rows' = Rows /\ Size' = Size /\ Rec' = Rec
      /\ Mini' = Mini /\ Limit' = Limit /\ OnPolicy' = OnPolicy
      /\ SkipsReplay' = SkipsReplay
  BY <1>1 DEF Workers, World, Rows, Size, Rec, Mini, Limit, OnPolicy, SkipsReplay
<1>3. Used' = Used /\ Record' = Record /\ Product' = Product
  BY <1>1, <1>2 DEF Used, Record, Product
<1>4. \A w : DpRank(w)' = DpRank(w)
  BY <1>1 DEF DpRank
<1>5. \A w : Chunk(w)' = Chunk(w)
  BY <1>1, <1>4 DEF Chunk
<1>6. \A w : Whole(w)' = Whole(w)
  BY <1>1, <1>2, <1>5 DEF Whole
<1>7. \A i : Tokens(i)' = Tokens(i)
  BY <1>1 DEF Tokens
<1>8. \A c : TokensOf(c)' = TokensOf(c)
  BY <1>7 DEF TokensOf
<1>9. \A c : LensOf(c)' = LensOf(c)
  BY <1>1 DEF LensOf
<1>10. \A c : LoadsOf(c)' = LoadsOf(c)
  BY <1>9 DEF LoadsOf
<1>11. \A c : NeededOf(c)' = NeededOf(c)
  BY <1>2, <1>9 DEF NeededOf
<1>12. \A s : Tot(s)' = Tot(s)
  BY <1>2, <1>6, <1>8 DEF Tot
<1>13. \A s : Shared(s)' = Shared(s)
  BY <1>2, <1>6, <1>11 DEF Shared
<1>14. \A c, k, h : MicrosOf(c, k, h)' = MicrosOf(c, k, h)
  BY <1>10 DEF MicrosOf, ListsOf
<1>15. \A M, c, s : CutAs(M, c, s)' = CutAs(M, c, s)
  BY <1>1, <1>10, <1>13, <1>14 DEF CutAs
<1>16. \A r, m, tot : Made(r, m, tot)' = Made(r, m, tot)
  BY <1>1, <1>2, <1>7, <1>8 DEF Made
<1>17. ASSUME NEW S, NEW M, NEW tot PROVE Yielded(S, M, tot)' = Yielded(S, M, tot)
  <2>1. \A m, i : Made(M[m][i], M[m], tot)' = Made(M[m][i], M[m], tot)
    BY <1>16
  <2>2. (\A m \in 1 .. Len(M) : \A i \in 1 .. Len(M[m]) : Made(M[m][i], M[m], tot) \in S)'
          <=> \A m \in 1 .. Len(M) : \A i \in 1 .. Len(M[m]) : Made(M[m][i], M[m], tot) \in S
    BY ONLY <2>1
  <2>3. (\A x \in S : \E m \in 1 .. Len(M) : \E i \in 1 .. Len(M[m]) : x = Made(M[m][i], M[m], tot))'
          <=> \A x \in S : \E m \in 1 .. Len(M) : \E i \in 1 .. Len(M[m]) : x = Made(M[m][i], M[m], tot)
    BY ONLY <2>1
  <2>. QED  BY ONLY <2>2, <2>3 DEF Yielded
<1>18. \A S, c, s : StepOf(S, c, s)' = StepOf(S, c, s)
  BY <1>2, <1>12, <1>15, <1>17 DEF StepOf
<1>19. \A c : LoadsOf(c)' = LoadsOf(c) /\ NeededOf(c)' = NeededOf(c) /\ TokensOf(c)' = TokensOf(c)
  BY <1>8, <1>10, <1>11
<1>20. \A w : Whole(w)' = Whole(w) /\ Chunk(w)' = Chunk(w) /\ DpRank(w)' = DpRank(w)
  BY <1>4, <1>5, <1>6
<1>21. \A s : Tot(s)' = Tot(s) /\ Shared(s)' = Shared(s)
  BY <1>12, <1>13
<1>. QED  BY <1>2, <1>3, <1>15, <1>16, <1>18, <1>19, <1>20, <1>21

(* and so a step of a worker leaves as it is.                              *)
LEMMA StillSame ==
  ASSUME Still
  PROVE  /\ Workers' = Workers /\ World' = World /\ Rows' = Rows /\ Size' = Size /\ Rec' = Rec
         /\ Product' = Product /\ Used' = Used /\ Mini' = Mini /\ Limit' = Limit
         /\ InCall' = InCall /\ SkipsReplay' = SkipsReplay
         /\ \A w : Whole(w)' = Whole(w) /\ Chunk(w)' = Chunk(w) /\ DpRank(w)' = DpRank(w)
         /\ \A s : Tot(s)' = Tot(s) /\ Shared(s)' = Shared(s)
         /\ \A c : LoadsOf(c)' = LoadsOf(c) /\ NeededOf(c)' = NeededOf(c)
                   /\ TokensOf(c)' = TokensOf(c)
         /\ \A M, c, s : CutAs(M, c, s)' = CutAs(M, c, s)
         /\ \A r, m, tot : Made(r, m, tot)' = Made(r, m, tot)
         /\ \A S, c, s : StepOf(S, c, s)' = StepOf(S, c, s)
<1>1. /\ UNCHANGED <<config, len, order, old>>
      /\ phase' = "computing" <=> phase = "computing"
  BY DEF Still
<1>2. InCall' = InCall
  BY DEF Still, InCall
<1>. QED  BY <1>1, <1>2, SameBatch

-----------------------------------------------------------------------------
(* A worker whose state does not change.                                   *)
Rests(v) ==
  /\ pc'[v] = pc[v] /\ slices'[v] = slices[v] /\ micros'[v] = micros[v] /\ heap'[v] = heap[v]
  /\ index'[v] = index[v] /\ out'[v] = out[v] /\ steps'[v] = steps[v]

(* A worker whose state rests keeps its part of the invariant.             *)
LEMMA RestsFlow ==
  ASSUME Still, NEW v, Rests(v), FlowInv(v)
  PROVE  FlowInv(v)'
<1>1. /\ pc'[v] = pc[v] /\ slices'[v] = slices[v] /\ micros'[v] = micros[v]
      /\ heap'[v] = heap[v] /\ index'[v] = index[v] /\ out'[v] = out[v] /\ steps'[v] = steps[v]
  BY DEF Rests
<1>2. config' = config /\ order' = order /\ phase' = phase
  BY DEF Still
<1>3. Turn(v)' = Turn(v) /\ Slice(v)' = Slice(v)
  BY <1>1 DEF Turn, Slice
<1>4. PlaceInv(v)'
  BY <1>1, <1>2 DEF FlowInv, PlaceInv
<1>5. WholeInv(v)'
  <2>1. Whole(v)' = Whole(v)
    BY StillSame
  <2>2. \A S, c, s : StepOf(S, c, s)' = StepOf(S, c, s)
    BY StillSame
  <2>3. WholeInv(v)
    BY DEF FlowInv
  <2>4. \A s \in 1 .. Len(steps[v]) : StepOf(steps[v][s], Whole(v)[s], s)'
    BY <1>1, <2>1, <2>2, <2>3 DEF WholeInv
  <2>5. \A s \in 1 .. Len(steps'[v]) : StepOf(steps[v][s], Whole(v)[s], s)'
    BY <1>1, <2>4
  <2>. QED  BY <1>1, <1>2, <2>1, <2>3, <2>5 DEF WholeInv
<1>6. ReplyInv(v)'
  BY <1>1, <1>2, StillSame DEF FlowInv, ReplyInv
<1>7. \A M, off, d : Ran(v, M, off, d)' = Ran(v, M, off, d)
  BY <1>1, <1>3, StillSame DEF Ran
<1>8. RunInv(v)'
  BY <1>1, <1>3, <1>7, StillSame DEF FlowInv, RunInv
<1>9. pc'[v] = "merge" => Chain(LoadsOf(Slice(v)), Shared(Turn(v)), heap[v])'
  BY <1>1, <1>3, StillSame DEF FlowInv, Chain
<1>. QED  BY <1>1, <1>4, <1>5, <1>6, <1>8, <1>9, StillSame DEF FlowInv

-----------------------------------------------------------------------------

(* The slices of a worker in a call.                                       *)
Turns == IF phase = "computing" THEN 1 ELSE Ceil(Size, Mini)
WholeOf(r, c, k) ==
  /\ r \in Seq(Seq(Rec)) /\ Len(r) = k /\ \A s \in 1 .. k : r[s] # << >>
  /\ \E off : Pieces(r, c, k, off)
  /\ phase # "computing" => \A s \in 1 .. k : Len(r[s]) <= Mini

(* A chunk is cut into Turns slices of the size of a mini-batch.           *)
LEMMA Wholes ==
  ASSUME ConfigInv, DriverInv, NEW w \in Workers
  PROVE  Turns \in Nat \ {0} /\ WholeOf(Whole(w), Chunk(w), Turns)
<1>1. PICK l \in Nat \ {0}, c \in Seq(Rec) : l = Size /\ c = Chunk(w) /\ Len(c) = l
  BY Chunks DEF ChunkOf
<1>2. CASE phase = "computing"
  <2>1. PICK r : r = <<c>>
    OBVIOUS
  <2>2. Whole(w) = r /\ Turns = 1
    BY <1>1, <1>2, <2>1 DEF Whole, Turns
  <2>3. r \in Seq(Seq(Rec)) /\ Len(r) = 1 /\ r[1] = c /\ c # << >>
    BY <1>1, <2>1
  <2>4. PICK off : off = [i \in 1 .. 2 |-> IF i = 1 THEN 0 ELSE l]
    OBVIOUS
  <2>5. off \in [1 .. 1 + 1 -> Nat] /\ off[1] = 0 /\ off[1 + 1] = l
    BY <2>4
  <2>6. \A i \in 1 .. 1 : i = 1
    OBVIOUS
  <2>7. \A i \in 1 .. l : 0 + i = i
    OBVIOUS
  <2>8. Offsets(off, r, 1)
    BY <1>1, <2>3, <2>5, <2>6 DEF Offsets
  <2>9. \A m \in 1 .. 1 : \A i \in 1 .. Len(r[m]) : r[m][i] = c[off[m] + i]
    BY <1>1, <2>3, <2>5, <2>6, <2>7
  <2>10. Pieces(r, c, 1, off)
    BY <1>1, <2>5, <2>8, <2>9 DEF Pieces
  <2>. QED  BY <1>1, <1>2, <2>2, <2>3, <2>6, <2>10 DEF WholeOf
<1>3. CASE phase # "computing"
  <2>1. PICK n \in Nat \ {0} : n = Mini
    BY DEF ConfigInv
  <2>2. PICK k : k = Ceil(l, n)
    OBVIOUS
  <2>3. k \in Nat \ {0}
    <3>1. (l + n - 1) \div n \in Nat
      OBVIOUS
    <3>2. (l + n - 1) \div n # 0
      <4>1. l + n - 1 < n * ((l + n - 1) \div n) + n
        OBVIOUS
      <4>. QED  BY <3>1, <4>1
    <3>. QED  BY <2>2, <3>1, <3>2 DEF Ceil
  <2>4. PICK r : r = Split(c, n)
    OBVIOUS
  <2>5. Whole(w) = r /\ Turns = k
    BY <1>1, <1>3, <2>1, <2>2, <2>4 DEF Whole, Turns
  <2>6. SplitOf(r, Rec, l, n)
    BY <1>1, <2>4, SplitParts
  <2>7. \E off : Pieces(r, c, k, off)
    BY <1>1, <2>2, <2>4, SplitPieces
  <2>8. ASSUME NEW s \in 1 .. k PROVE Len(r[s]) <= n
    <3>1. PICK b \in Nat : b = (s - 1) * n /\ s * n = b + n
      OBVIOUS
    <3>2. Len(r[s]) = IF b + n <= l THEN n ELSE l - b
      BY <2>2, <2>6, <3>1 DEF SplitOf, PartLen
    <3>. QED  BY <3>2
  <2>. QED  BY <1>1, <2>1, <2>2, <2>3, <2>5, <2>6, <2>7, <2>8 DEF WholeOf, SplitOf
<1>. QED  BY <1>2, <1>3

(* Rows, their tokens and what they yield.                                 *)
OldOK == old \in [Rows -> Rows \cup {0}]
(* The rows of a call are records of a row and an old log prob.            *)
LEMMA RecType ==
  ASSUME ConfigInv, DriverInv, OldOK
  PROVE  \A r \in Rec : r \in Record /\ r.id \in Rows /\ r.old \in Rows \cup {0} /\ r = [id |-> r.id, old |-> r.old]
BY DEF Rec, Record, OldOK

(* The tokens of a row, and of a sequence of rows, are numbers.            *)
LEMMA TokensType ==
  ASSUME ConfigInv
  PROVE  /\ \A i \in Rows : Tokens(i) \in Nat /\ len[i] \in Nat \ {0}
         /\ \A c \in Seq(Rec) : TokensOf(c) \in Nat
<1>1. \A i \in Rows : len[i] \in Nat \ {0}
  BY Numbers DEF ConfigInv
<1>2. \A i \in Rows : Tokens(i) \in Nat
  BY <1>1, BatchAssumption DEF Tokens, Weight
<1>3. ASSUME NEW c \in Seq(Rec) PROVE TokensOf(c) \in Nat
  <2>1. PICK n \in Nat : n = Len(c) /\ DOMAIN c = 1 .. n /\ \A i \in 1 .. n : c[i] \in Rec
    OBVIOUS
  <2>2. \A r \in Rec : r.id \in Rows
    BY DEF Rec
  <2>3. PICK f : f = [i \in DOMAIN c |-> Tokens(c[i].id)]
    OBVIOUS
  <2>4. \A i \in 1 .. n : f[i] \in Nat
    BY <1>2, <2>1, <2>2, <2>3
  <2>5. TokensOf(c) = Total(1 .. n, f)
    BY <2>1, <2>3 DEF TokensOf
  <2>6. IsFiniteSet(1 .. n)
    BY FS_Interval
  <2>. QED  BY <2>4, <2>5, <2>6, TotalNat
<1>. QED  BY <1>1, <1>2, <1>3

(* So are the tokens of a slice over all workers.                          *)
LEMMA TotType ==
  ASSUME ConfigInv, DriverInv, NEW s \in 1 .. Turns
  PROVE  Tot(s) \in Nat
<1>1. PICK f : f = [v \in Workers |-> TokensOf(Whole(v)[s])]
  OBVIOUS
<1>2. ASSUME NEW v \in Workers PROVE f[v] \in Nat
  <2>1. PICK r \in Seq(Seq(Rec)) : r = Whole(v) /\ Len(r) = Turns
    BY Wholes DEF WholeOf
  <2>2. r[s] \in Seq(Rec)
    BY <2>1
  <2>. QED  BY <1>1, <2>1, <2>2, TokensType
<1>3. IsFiniteSet(Workers)
  <2>1. World \in Nat
    BY Numbers
  <2>. QED  BY <2>1, FS_Interval DEF Workers
<1>. QED  BY <1>1, <1>2, <1>3, TotalNat DEF Tot

(* The larger of two numbers.                                              *)
LEMMA MaxTwo ==
  ASSUME NEW a \in Nat, NEW b \in Nat
  PROVE  /\ Max({a, b}) \in Nat /\ Max({a, b}) = IF a >= b THEN a ELSE b
<1>1. PICK n \in Nat : n = IF a >= b THEN a ELSE b
  OBVIOUS
<1>2. n \in {a, b} /\ \A y \in {a, b} : n >= y
  BY <1>1
<1>3. \A x \in {a, b} : (\A y \in {a, b} : x >= y) => x = n
  BY <1>1, <1>2
<1>4. Max({a, b}) = n
  BY <1>2, <1>3 DEF Max
<1>. QED  BY <1>1, <1>4

(* What a row is turned into is what a call produces.                      *)
LEMMA MadeType ==
  ASSUME ConfigInv, DriverInv, OldOK, NEW r \in Rec, NEW m \in Seq(Rec), NEW tot \in Nat
  PROVE  Made(r, m, tot) \in Product
<1>1. r.id \in Rows /\ r.old \in Rows \cup {0}
  BY RecType
<1>2. CASE phase = "computing"
  BY <1>1, <1>2 DEF Made, Product
<1>3. CASE phase # "computing" /\ config.loss # "slqp"
  BY <1>1, <1>3 DEF Made, Product, Used, Record
<1>4. CASE phase # "computing" /\ config.loss = "slqp"
  <2>1. PICK a \in Nat, b \in Nat, c \in Nat : a = Tokens(r.id) /\ b = TokensOf(m) /\ c = World
    BY <1>1, TokensType, Numbers
  <2>2. a * c * b \in Nat
    OBVIOUS
  <2>3. Max({b, 1}) \in Nat /\ Max({tot, 1}) \in Nat
    BY MaxTwo
  <2>4. Max({b, 1}) * Max({tot, 1}) \in Nat
    <3>1. PICK x \in Nat, y \in Nat : x = Max({b, 1}) /\ y = Max({tot, 1})
      BY <2>3
    <3>2. x * y \in Nat
      OBVIOUS
    <3>. QED  BY <3>1, <3>2
  <2>5. Share(a, b, tot, c) \in [up : Nat, down : Nat]
    BY <2>2, <2>4 DEF Share
  <2>. QED  BY <1>1, <1>4, <2>1, <2>5 DEF Made, Product, Used
<1>. QED  BY <1>2, <1>3, <1>4

-----------------------------------------------------------------------------
(* The slice a worker is at.                                               *)
LEMMA SliceIs ==
  ASSUME NEW w \in Workers, AtWork(w), DriverInv, FlowInv(w)
  PROVE  /\ Turn(w) \in 1 .. Turns /\ Turns \in Nat \ {0} /\ Len(steps[w]) \in Nat
         /\ Len(Whole(w)) = Turns /\ Slice(w) = Whole(w)[Turn(w)]
         /\ Slice(w) \in Seq(Rec) /\ Slice(w) # << >>
         /\ phase # "computing" => Len(Slice(w)) <= Mini
<1>1. ConfigInv
  BY DEF AtWork
<1>2. PICK k \in Nat \ {0}, r \in Seq(Seq(Rec)) : k = Turns /\ r = Whole(w) /\ WholeOf(r, Chunk(w), k)
  <2>1. Turns \in Nat \ {0} /\ WholeOf(Whole(w), Chunk(w), Turns)
    BY <1>1, Wholes
  <2>2. Whole(w) \in Seq(Seq(Rec))
    BY <2>1 DEF WholeOf
  <2>. QED  BY <2>1, <2>2
<1>3. PICK s \in Seq(SUBSET Used) : s = steps[w]
  BY DEF FlowInv
<1>4. PICK n \in Nat \ {0} : n = Len(slices[w])
  BY DEF AtWork
<1>5. PICK l \in Nat : l = Len(s)
  OBVIOUS
<1>6. l + n = k /\ Len(r) = k /\ \A i \in 1 .. n : slices[w][i] = r[l + i]
  BY <1>2, <1>3, <1>4, <1>5 DEF FlowInv, WholeInv, WholeOf
<1>7. Turn(w) = l + 1 /\ l + 1 \in 1 .. k
  <2>1. Turn(w) = l + 1
    BY <1>3, <1>5 DEF Turn
  <2>2. l + n = k
    BY <1>6
  <2>. QED  BY <2>1, <2>2
<1>8. Slice(w) = r[l + 1]
  BY <1>4, <1>6 DEF Slice
<1>9. r[l + 1] \in Seq(Rec) /\ r[l + 1] # << >> /\ (phase # "computing" => Len(r[l + 1]) <= Mini)
  BY <1>2, <1>6, <1>7 DEF WholeOf
<1>. QED  BY <1>2, <1>3, <1>5, <1>6, <1>7, <1>8, <1>9

(* Module BatchFlow's names for what the current slice of w weighs and     *)
(* needs.                                                                  *)
LEMMA SliceNames ==
  ASSUME NEW w
  PROVE  /\ SliceLoad(w) = LoadsOf(Slice(w)) /\ SliceLen(w) = LensOf(Slice(w))
         /\ Needed(w) = NeededOf(Slice(w))
<1>1. SliceLen(w) = LensOf(Slice(w))
  BY DEF SliceLen, LensOf
<1>2. SliceLoad(w) = LoadsOf(Slice(w))
  BY <1>1 DEF SliceLoad, LoadsOf
<1>3. Needed(w) = NeededOf(Slice(w))
  BY <1>1 DEF Needed, NeededOf
<1>. QED  BY <1>1, <1>2, <1>3

(* What they agree on when all have entered.                               *)
LEMMA AgreedShared ==
  ASSUME NEW w \in Workers, pc[w] \in {"reduce", "merge"}, MaxInv(w), Passed(w)
  PROVE  Agreed(w) = Shared(Turn(w))
<1>1. \A v \in Workers : ops[v][Len(ops[w])].n = NeededOf(Whole(v)[Turn(w)])
  BY DEF MaxInv, Passed
<1>2. {ops[v][Len(ops[w])].n : v \in Workers} = {NeededOf(Whole(v)[Turn(w)]) : v \in Workers}
  BY <1>1
<1>. QED  BY <1>2 DEF Agreed, Shared

-----------------------------------------------------------------------------

(* Steps that leave the slices alone;                                      *)
LEMMA SameSlices ==
  ASSUME Still, NEW w, WholeInv(w), steps'[w] = steps[w], slices'[w] = slices[w]
  PROVE  WholeInv(w)' /\ Turn(w)' = Turn(w) /\ Slice(w)' = Slice(w)
<1>1. phase' = phase
  BY DEF Still
<1>2. Whole(w)' = Whole(w)
  BY StillSame
<1>3. \A S, c, s : StepOf(S, c, s)' = StepOf(S, c, s)
  BY StillSame
<1>4. \A s \in 1 .. Len(steps[w]) : StepOf(steps[w][s], Whole(w)[s], s)'
  BY <1>2, <1>3 DEF WholeInv
<1>5. \A s \in 1 .. Len(steps'[w]) : StepOf(steps[w][s], Whole(w)[s], s)'
  BY <1>4
<1>6. WholeInv(w)'
  BY <1>1, <1>2, <1>5 DEF WholeInv
<1>. QED  BY <1>6 DEF Turn, Slice

(* and those that change nothing but the place.                            *)
SameWork(w) ==
  /\ slices'[w] = slices[w] /\ micros'[w] = micros[w] /\ heap'[w] = heap[w]
  /\ index'[w] = index[w] /\ out'[w] = out[w] /\ steps'[w] = steps[w]
Passing(p, q) ==
  \/ <<p, q>> \in Entering
  \/ p = "summing" /\ q = Cutting

(* Entering a collective disturbs nothing of the rows,                     *)
LEMMA EnterFlow ==
  ASSUME Still, NEW w, FlowInv(w), SameWork(w), Passing(pc[w], pc'[w])
  PROVE  FlowInv(w)'
<1>1. /\ slices'[w] = slices[w] /\ micros'[w] = micros[w] /\ heap'[w] = heap[w]
      /\ index'[w] = index[w] /\ out'[w] = out[w] /\ steps'[w] = steps[w]
  BY DEF SameWork
<1>2. config' = config /\ order' = order /\ phase' = phase
  BY DEF Still
<1>3. WholeInv(w)' /\ Turn(w)' = Turn(w) /\ Slice(w)' = Slice(w)
  BY <1>1, SameSlices DEF FlowInv
<1>4. \/ pc[w] = "tokens" /\ pc'[w] = "summing"
      \/ pc[w] = "count" /\ pc'[w] = "reduce"
      \/ pc[w] = "forward" /\ pc'[w] = "run"
      \/ pc[w] = "step" /\ pc'[w] = "stepping"
      \/ pc[w] = "summing" /\ config.dynamic /\ pc'[w] = "count"
      \/ pc[w] = "summing" /\ ~config.dynamic /\ pc'[w] = "split"
  BY DEF Passing, Entering, Cutting
<1>5. PlaceInv(w)'
  BY <1>2, <1>4 DEF FlowInv, PlaceInv
<1>6. ReplyInv(w)' /\ (pc'[w] # "merge")
  BY <1>4 DEF ReplyInv
<1>7. \A M, off, d : Ran(w, M, off, d)' = Ran(w, M, off, d)
  BY <1>1, <1>3, StillSame DEF Ran
<1>8. /\ pc'[w] \in Running => pc[w] \in Running
      /\ pc'[w] \in Over => pc[w] \in Over
      /\ pc'[w] \in AtStart => pc[w] \in AtStart
  BY <1>4 DEF Running, Over, AtStart
<1>9. RunInv(w)'
  BY <1>1, <1>3, <1>7, <1>8, StillSame DEF FlowInv, RunInv
<1>. QED  BY <1>1, <1>3, <1>5, <1>6, <1>8, <1>9, StillSame DEF FlowInv

-----------------------------------------------------------------------------
(* karmarkar_karp.                                                         *)
LEMMA HeapFlow ==
  ASSUME Still, NEW w, FlowInv(w), steps'[w] = steps[w], slices'[w] = slices[w],
         out'[w] = out[w], out[w] = << >>, config.dynamic, pc'[w] = "merge", NEW h, heap'[w] = h,
         Chain(LoadsOf(Slice(w)), Shared(Turn(w)), h)
  PROVE  FlowInv(w)'
<1>1. config' = config /\ phase' = phase
  BY DEF Still
<1>2. WholeInv(w)' /\ Turn(w)' = Turn(w) /\ Slice(w)' = Slice(w)
  BY SameSlices DEF FlowInv
<1>3. PlaceInv(w)' /\ ReplyInv(w)' /\ RunInv(w)'
  BY <1>1 DEF PlaceInv, ReplyInv, RunInv, Running
<1>4. Chain(LoadsOf(Slice(w)), Shared(Turn(w)), heap[w])'
  BY <1>2, StillSame DEF Chain
<1>. QED  BY <1>2, <1>3, <1>4, StillSame DEF FlowInv

(* nor does leaving the one that adds the tokens up,                       *)
LEMMA ReduceFlow ==
  ASSUME NEW w \in Workers, AtWork(w), FlowInv(w), MaxInv(w), Reduce(w)
  PROVE  FlowInv(w)'
<1>1. PICK h : h = Singles(SliceLoad(w), Agreed(w))
  OBVIOUS
<1>2. /\ pc[w] = "reduce" /\ Passed(w) /\ pc' = [pc EXCEPT ![w] = "merge"]
      /\ heap' = [heap EXCEPT ![w] = h] /\ steps' = steps /\ slices' = slices /\ out' = out
      /\ Still
  BY <1>1 DEF Reduce, Still, driver
<1>3. w \in DOMAIN pc /\ w \in DOMAIN heap
  BY DEF AtWork, Workers
<1>4. h = Singles(LoadsOf(Slice(w)), Shared(Turn(w)))
  <2>1. Agreed(w) = Shared(Turn(w))
    BY <1>2, AgreedShared
  <2>. QED  BY <1>1, <2>1, SliceNames
<1>5. Chain(LoadsOf(Slice(w)), Shared(Turn(w)), h)
  <2>1. PICK f : f = [i \in {0} |-> h]
    OBVIOUS
  <2>2. f[0] = h /\ 1 .. 0 = {} /\ 0 \in Nat
    BY <2>1
  <2>. QED  BY <1>4, <2>2 DEF Chain
<1>6. out[w] = << >> /\ config.dynamic
  BY <1>2 DEF FlowInv, PlaceInv, AtStart
<1>7. pc'[w] = "merge" /\ heap'[w] = h
  BY <1>2, <1>3
<1>. QED  BY <1>2, <1>5, <1>6, <1>7, HeapFlow

(* nor gathering the log probs over a sequence-parallel group.             *)
LEMMA MergeFlow ==
  ASSUME NEW w \in Workers, AtWork(w), FlowInv(w), MaxInv(w), Passed(w), Merge(w)
  PROVE  FlowInv(w)'
<1>1. PICK h \in Merges(heap[w], Agreed(w)) : heap' = [heap EXCEPT ![w] = h]
  BY DEF Merge
<1>2. /\ pc[w] = "merge" /\ pc' = pc /\ steps' = steps /\ slices' = slices /\ out' = out
      /\ Still
  BY DEF Merge, Still, driver, call
<1>3. w \in DOMAIN heap
  BY DEF AtWork, Workers
<1>4. Agreed(w) = Shared(Turn(w))
  BY <1>2, AgreedShared
<1>5. PICK load, k : load = LoadsOf(Slice(w)) /\ k = Shared(Turn(w))
  OBVIOUS
<1>6. Chain(load, k, heap[w])
  BY <1>2, <1>5 DEF FlowInv
<1>7. PICK m \in Nat : \E f : /\ f[0] = Singles(load, k) /\ f[m] = heap[w]
                              /\ \A i \in 1 .. m : f[i] \in Merges(f[i - 1], k)
  BY <1>6 DEF Chain
<1>8. PICK f : /\ f[0] = Singles(load, k) /\ f[m] = heap[w]
               /\ \A i \in 1 .. m : f[i] \in Merges(f[i - 1], k)
  BY <1>7
<1>9. PICK g : g = [i \in 0 .. m + 1 |-> IF i = m + 1 THEN h ELSE f[i]]
  OBVIOUS
<1>10. g[m + 1] = h /\ \A i \in 0 .. m : g[i] = f[i]
  BY <1>9
<1>11. ASSUME NEW i \in 1 .. m + 1 PROVE g[i] \in Merges(g[i - 1], k)
  <2>1. CASE i = m + 1
    <3>1. i - 1 = m /\ g[m] = heap[w] /\ g[i] = h
      BY <1>8, <1>10, <2>1
    <3>. QED  BY <1>1, <1>4, <1>5, <3>1
  <2>2. CASE i # m + 1
    <3>1. i \in 1 .. m /\ i - 1 \in 0 .. m /\ i \in 0 .. m
      BY <2>2
    <3>. QED  BY <1>8, <1>10, <3>1
  <2>. QED  BY <2>1, <2>2
<1>12. Chain(load, k, h)
  <2>1. g[0] = Singles(load, k) /\ m + 1 \in Nat
    BY <1>8, <1>10
  <2>. QED  BY <1>10, <1>11, <2>1 DEF Chain
<1>13. out[w] = << >> /\ config.dynamic
  BY <1>2 DEF FlowInv, PlaceInv, AtStart
<1>14. pc'[w] = "merge" /\ heap'[w] = h /\ out'[w] = out[w]
       /\ slices'[w] = slices[w] /\ steps'[w] = steps[w]
  BY <1>1, <1>2, <1>3
<1>. QED  BY <1>2, <1>5, <1>12, <1>13, <1>14, HeapFlow

-----------------------------------------------------------------------------

(* The slice is cut.                                                       *)
LEMMA StartFlow ==
  ASSUME Still, NEW w, FlowInv(w), steps'[w] = steps[w], slices'[w] = slices[w],
         out'[w] = out[w], out[w] = << >>, pc'[w] = "forward",
         NEW M \in Seq(Seq(Rec)), micros'[w] = M, NEW off,
         CutOf(M, index'[w], off, Slice(w)), CutAs(M, Slice(w), Turn(w))
  PROVE  FlowInv(w)'
<1>1. config' = config /\ phase' = phase
  BY DEF Still
<1>2. WholeInv(w)' /\ Turn(w)' = Turn(w) /\ Slice(w)' = Slice(w)
  BY SameSlices DEF FlowInv
<1>3. PlaceInv(w)' /\ ReplyInv(w)'
  BY <1>1 DEF PlaceInv, ReplyInv
<1>4. PICK n \in Nat \ {0} : n = Len(M)
  BY DEF CutOf
<1>5. off[0 + 1] = 0
  BY DEF CutOf, Offsets
<1>6. Ran(w, M, off, 0)'
  <2>1. /\ 0 \in 0 .. Len(M) /\ micros'[w] \in Seq(Seq(Rec')) /\ Len(micros'[w]) = Len(M) - 0
        /\ \A m \in 1 .. Len(M) - 0 : micros'[w][m] = M[0 + m]
    BY <1>4, StillSame
  <2>2. Len(out'[w]) = off[0 + 1]
    BY <1>5
  <2>3. 1 .. 0 = {}
    OBVIOUS
  <2>. QED  BY <2>1, <2>2, <2>3 DEF Ran
<1>7. CutAs(M, Slice(w), Turn(w))'
  BY <1>2, StillSame
<1>8. RunInv(w)'
  <2>1. M \in Seq(Seq(Rec')) /\ CutOf(M, index'[w], off, Slice(w)')
    BY <1>2, StillSame
  <2>2. pc'[w] \notin Over
    BY DEF Over
  <2>. QED  BY <1>6, <1>7, <2>1, <2>2 DEF RunInv
<1>. QED  BY <1>2, <1>3, <1>8, StillSame DEF FlowInv

(* A slice that is split by size is cut into its micro-batches,            *)
LEMMA SplitMicroFlow ==
  ASSUME NEW w \in Workers, AtWork(w), FlowInv(w), w \in DOMAIN index, SplitMicro(w)
  PROVE  FlowInv(w)'
<1>1. /\ pc[w] = "split" /\ pc' = [pc EXCEPT ![w] = "forward"]
      /\ micros' = [micros EXCEPT ![w] = Split(Slice(w), Micro)]
      /\ index' = [index EXCEPT ![w] = [i \in DOMAIN Slice(w) |-> i]]
      /\ steps' = steps /\ slices' = slices /\ out' = out /\ Still
  BY DEF SplitMicro, Still, driver
<1>2. w \in DOMAIN pc /\ w \in DOMAIN micros
  BY DEF AtWork
<1>3. PICK c \in Seq(Rec) : c = Slice(w) /\ c # << >>
  <2>1. Slice(w) \in Seq(Rec) /\ Len(Slice(w)) # 0
    BY DEF AtWork, Slice
  <2>2. PICK c \in Seq(Rec) : c = Slice(w) /\ Len(c) # 0
    BY <2>1
  <2>. QED  BY <2>2
<1>4. PICK M : M = Split(c, Micro)
  OBVIOUS
<1>5. Micro \in Nat \ {0}
  BY BatchAssumption
<1>6. PICK off : CutOf(M, [i \in DOMAIN c |-> i], off, c)
  BY <1>3, <1>4, <1>5, SplitCut
<1>7. M \in Seq(Seq(Rec))
  <2>1. Len(c) \in Nat
    OBVIOUS
  <2>2. SplitOf(M, Rec, Len(c), Micro)
    BY <1>4, <1>5, <2>1, SplitParts
  <2>. QED  BY <2>2 DEF SplitOf
<1>8. out[w] = << >> /\ ~config.dynamic
  BY <1>1 DEF FlowInv, PlaceInv, AtStart
<1>9. CutAs(M, Slice(w), Turn(w))
  BY <1>3, <1>4, <1>8 DEF CutAs
<1>10. pc'[w] = "forward" /\ micros'[w] = M /\ index'[w] = [i \in DOMAIN c |-> i]
  BY <1>1, <1>2, <1>3, <1>4
<1>11. CutOf(M, index'[w], off, Slice(w))
  BY <1>3, <1>6, <1>10
<1>12. Still /\ steps'[w] = steps[w] /\ slices'[w] = slices[w] /\ out'[w] = out[w]
  BY <1>1
<1>. QED  BY <1>7, <1>8, <1>9, <1>10, <1>11, <1>12, StartFlow

(* and so is one that is cut by workload.                                  *)
LEMMA CutFlow ==
  ASSUME NEW w \in Workers, AtWork(w), FlowInv(w), MaxInv(w), Passed(w), w \in DOMAIN index,
         Cut(w)
  PROVE  FlowInv(w)'
<1>0. /\ pc[w] = "merge" /\ Cardinality(heap[w]) = 1 /\ pc' = [pc EXCEPT ![w] = "forward"]
      /\ steps' = steps /\ slices' = slices /\ out' = out /\ Still
  BY DEF Cut, Still, driver
<1>1. PICK k \in Nat \ {0}, n \in Nat \ {0} : k = Agreed(w) /\ n = Len(Slice(w)) /\ k <= n
  <2>1. Agreed(w) \in 1 .. Len(Slice(w)) /\ Len(Slice(w)) \in Nat \ {0}
    BY <1>0, AgreedIn DEF AtWork
  <2>2. PICK n \in Nat \ {0} : n = Len(Slice(w))
    BY <2>1
  <2>. QED  BY <2>1, <2>2
<1>2. PICK P : P = Parts(heap[w], k)
  OBVIOUS
<1>3. PICK c \in Seq(Rec) : c = Slice(w) /\ Len(c) = n
  BY <1>1 DEF AtWork, Slice
<1>4. PICK load : load = LoadsOf(c) /\ load = SliceLoad(w) /\ DOMAIN load = 1 .. n
                  /\ \A i \in 1 .. n : load[i] \in Nat
  BY <1>1, <1>3, RowLoads, SliceNames
<1>5. PICK A : A = Arranged(Range(P), load)
  OBVIOUS
<1>6. HeapOf(heap[w], 1 .. n, k) /\ \A s \in heap[w] : Filling(s, k)
  BY <1>0, <1>1 DEF AtWork, WorkerInv, MergeInv
<1>7. Partition(P, 1 .. n, k) /\ \A i \in 1 .. k : P[i] # {}
  <2>1. IsFiniteSet(1 .. n) /\ Cardinality(1 .. n) = n
    BY FS_Interval
  <2>2. Partition(P, 1 .. n, k)
    BY <1>0, <1>2, <1>6, LastPartition
  <2>. QED  BY <1>0, <1>1, <1>2, <1>6, <2>1, <2>2, LastFilled
<1>8. ArrangedOf(A, P, k)
  BY <1>4, <1>5, <1>7, ArrangedParts
<1>9. A \in Seq(Range(P)) /\ Len(A) = k
  BY <1>8 DEF ArrangedOf
<1>10. DOMAIN A = 1 .. k /\ \A m \in 1 .. k : A[m] \in SUBSET (1 .. n)
  <2>1. DOMAIN A = 1 .. k /\ \A m \in 1 .. k : A[m] \in Range(P)
    BY <1>9
  <2>2. \A p \in Range(P) : p \in SUBSET (1 .. n)
    BY <1>7 DEF Range, Partition
  <2>. QED  BY <2>1, <2>2
<1>11. PICK lists : lists = [m \in DOMAIN A |-> Ascending(A[m])]
  OBVIOUS
<1>110. DOMAIN lists = 1 .. k /\ lists = [m \in 1 .. k |-> Ascending(A[m])]
  BY <1>10, <1>11
<1>12. PICK off : Listed(lists, n, k, off)
  BY <1>7, <1>8, <1>110, ListsFlat
<1>13. ASSUME NEW m \in 1 .. k PROVE lists[m] \in Seq(1 .. n)
  <2>1. PICK a \in Nat : a = Cardinality(A[m]) /\ Ascending(A[m]) \in Bijection(1 .. a, A[m])
    BY <1>10, AscendingPart
  <2>2. lists[m] \in [1 .. a -> 1 .. n]
    BY <1>10, <1>110, <2>1 DEF Bijection, Injection
  <2>. QED  BY <2>2
<1>14. PICK M : M = Picked(lists, c)
  OBVIOUS
<1>15. M \in Seq(Seq(Rec)) /\ CutOf(M, FlattenSeq(lists), off, c)
  <2>1. \A m \in 1 .. k : lists[m] \in Seq(1 .. n)
    BY <1>13
  <2>2. DOMAIN lists = 1 .. k /\ Len(c) = n
    BY <1>3, <1>110
  <2>. QED  BY <1>12, <1>14, <2>1, <2>2, ListedCut
<1>16. /\ micros' = [micros EXCEPT ![w] = M]
       /\ index' = [index EXCEPT ![w] = FlattenSeq(lists)]
  <2>1. A = Arranged(Range(Parts(heap[w], Agreed(w))), SliceLoad(w))
    BY <1>1, <1>2, <1>4, <1>5
  <2>2. M = [m \in DOMAIN lists |-> [i \in DOMAIN lists[m] |-> Slice(w)[lists[m][i]]]]
    BY <1>3, <1>14 DEF Picked
  <2>3. micros' = [micros EXCEPT ![w] = M]
    BY <1>11, <2>1, <2>2 DEF Cut
  <2>4. index' = [index EXCEPT ![w] = FlattenSeq(lists)]
    BY <1>11, <2>1 DEF Cut
  <2>. QED  BY <2>3, <2>4
<1>17. out[w] = << >> /\ config.dynamic
  BY <1>0 DEF FlowInv, PlaceInv, AtStart
<1>18. CutAs(M, Slice(w), Turn(w))
  <2>1. k = Shared(Turn(w))
    BY <1>0, <1>1, AgreedShared
  <2>2. Chain(load, k, heap[w])
    BY <1>0, <1>3, <1>4, <2>1 DEF FlowInv
  <2>3. lists = ListsOf(c, k, heap[w])
    BY <1>2, <1>4, <1>5, <1>11 DEF ListsOf
  <2>4. M = MicrosOf(c, k, heap[w])
    BY <1>14, <2>3 DEF MicrosOf
  <2>. QED  BY <1>0, <1>3, <1>4, <1>17, <2>1, <2>2, <2>4 DEF CutAs
<1>19. pc'[w] = "forward" /\ micros'[w] = M /\ index'[w] = FlattenSeq(lists)
  BY <1>0, <1>16 DEF AtWork
<1>20. CutOf(M, index'[w], off, Slice(w))
  BY <1>3, <1>15, <1>19
<1>21. Still /\ steps'[w] = steps[w] /\ slices'[w] = slices[w] /\ out'[w] = out[w]
  BY <1>0
<1>. QED  BY <1>15, <1>17, <1>18, <1>19, <1>20, <1>21, StartFlow

-----------------------------------------------------------------------------
(* The sum of the tokens is the one the workers entered for this           *)
(* mini-batch.                                                             *)
LEMMA AllTokensIs ==
  ASSUME ShapeInv, NEW w \in Workers, Passed(w), config.loss = "slqp",
         pc[w] \notin {"tokens", "replied"}, TokenInv(w)
  PROVE  AllTokens(w) = Tot(Turn(w))
<1>1. PICK at : SumAt(w, at)
  BY DEF TokenInv
<1>2. PICK o \in Seq(Ops) : o = ops[w]
  BY DEF ShapeInv
<1>3. PICK n \in Nat : n = Len(o) /\ DOMAIN o = 1 .. n
  OBVIOUS
<1>4. at \in 1 .. n /\ o[at].op = "sum" /\ \A i \in at + 1 .. n : o[i].op # "sum"
  BY <1>1, <1>2, <1>3 DEF SumAt
<1>5. PICK S : S = {i \in DOMAIN o : o[i].op = "sum"}
  OBVIOUS
<1>6. at \in S /\ \A i \in S : i \in 1 .. n /\ at >= i
  <2>1. ASSUME NEW i \in S PROVE i \in 1 .. n /\ at >= i
    <3>1. i \in 1 .. n /\ o[i].op = "sum"
      BY <1>3, <1>5
    <3>2. ~(i \in at + 1 .. n)
      BY <1>4, <3>1
    <3>. QED  BY <1>4, <3>1, <3>2
  <2>. QED  BY <1>3, <1>4, <1>5, <2>1
<1>7. Max(S) = at
  <2>1. \A x \in S : (\A y \in S : x >= y) => x = at
    BY <1>4, <1>6
  <2>. QED  BY <1>6, <2>1 DEF Max
<1>8. AllTokens(w) = Total(Workers, [v \in Workers |-> ops[v][at].n])
  BY <1>2, <1>5, <1>7 DEF AllTokens
<1>9. ASSUME NEW v \in Workers PROVE ops[v][at].n = TokensOf(Whole(v)[Turn(w)])
  <2>1. Len(ops[v]) \in Nat /\ Len(ops[v]) >= n
    BY <1>2, <1>3 DEF Passed, ShapeInv
  <2>2. at <= Len(ops[v])
    BY <1>4, <2>1
  <2>. QED  BY <1>1, <2>2 DEF SumAt
<1>10. [v \in Workers |-> ops[v][at].n] = [v \in Workers |-> TokensOf(Whole(v)[Turn(w)])]
  BY <1>9
<1>. QED  BY <1>8, <1>10 DEF Tot

(* What a worker yields for a micro-batch is Made of each of its rows.     *)
LEMMA YieldIs ==
  ASSUME ConfigInv, ShapeInv, DriverInv, OldOK, NEW w \in Workers, Passed(w), InCall,
         pc[w] \notin {"tokens", "replied"}, TokenInv(w),
         Tot(Turn(w)) \in Nat, NEW m \in Seq(Rec)
  PROVE  /\ Yield(w, m) \in Seq(Product) /\ Len(Yield(w, m)) = Len(m)
         /\ \A i \in 1 .. Len(m) : Yield(w, m)[i] = Made(m[i], m, Tot(Turn(w)))
<1>1. PICK n \in Nat : n = Len(m) /\ DOMAIN m = 1 .. n
  OBVIOUS
<1>2. PICK y : y = Yield(w, m)
  OBVIOUS
<1>3. PICK tot \in Nat : tot = Tot(Turn(w))
  OBVIOUS
<1>4. config.loss = "slqp" => AllTokens(w) = tot
  BY <1>3, AllTokensIs
<1>5. DOMAIN y = 1 .. n /\ \A i \in 1 .. n : y[i] = Made(m[i], m, tot)
  BY <1>1, <1>2, <1>4 DEF Yield, Made
<1>6. \A i \in 1 .. n : Made(m[i], m, tot) \in Product
  <2>1. ASSUME NEW i \in 1 .. n PROVE Made(m[i], m, tot) \in Product
    <3>1. m[i] \in Rec
      BY <1>1
    <3>. QED  BY <3>1, MadeType
  <2>. QED  BY <2>1
<1>7. y = [i \in 1 .. n |-> y[i]]
  BY <1>1, <1>2, <1>5 DEF Yield
<1>8. y \in [1 .. n -> Product]
  BY <1>5, <1>6, <1>7
<1>9. y \in Seq(Product) /\ Len(y) = n
  BY <1>8
<1>. QED  BY <1>1, <1>2, <1>3, <1>5, <1>9

(* A micro-batch is run: its results go behind the others.                 *)
UpTo(o, T, F, M, off, d) ==
  /\ o \in Seq(T) /\ Len(o) = off[d + 1]
  /\ \A m \in 1 .. d : \A i \in 1 .. Len(M[m]) : o[off[m] + i] = F[m][i]
Onto(y, T, F, M, d) ==
  y \in Seq(T) /\ Len(y) = Len(M[d]) /\ \A i \in 1 .. Len(y) : y[i] = F[d][i]

(* Results up to a micro-batch, and those of the next one, are results up  *)
(* to the next.                                                            *)
LEMMA RunMore ==
  ASSUME NEW k \in Nat \ {0}, NEW T, NEW M, NEW off, Offsets(off, M, k), NEW d \in 0 .. k - 1,
         NEW F, NEW o, UpTo(o, T, F, M, off, d), NEW y, Onto(y, T, F, M, d + 1)
  PROVE  UpTo(o \o y, T, F, M, off, d + 1)
<1>0. /\ o \in Seq(T) /\ Len(o) = off[d + 1] /\ y \in Seq(T) /\ Len(y) = Len(M[d + 1])
      /\ \A m \in 1 .. d : \A i \in 1 .. Len(M[m]) : o[off[m] + i] = F[m][i]
      /\ \A i \in 1 .. Len(y) : y[i] = F[d + 1][i]
  BY DEF UpTo, Onto
<1>1. Joint(o \o y, o, y, T)
  BY <1>0, Concat
<1>2. PICK r : r = o \o y
  OBVIOUS
<1>3. d + 1 \in 1 .. k /\ (d + 1) + 1 = d + 2 /\ d + 1 \in 1 .. k + 1 /\ d \in Nat
  OBVIOUS
<1>4. off[d + 2] = off[d + 1] + Len(M[d + 1])
  BY <1>3 DEF Offsets
<1>5. ASSUME NEW m \in 1 .. d + 1, NEW i \in 1 .. Len(M[m]) PROVE r[off[m] + i] = F[m][i]
  <2>1. CASE m = d + 1
    <3>1. i \in 1 .. Len(y) /\ r[Len(o) + i] = y[i]
      BY <1>0, <1>1, <1>2, <2>1 DEF Joint
    <3>. QED  BY <1>0, <2>1, <3>1
  <2>2. CASE m # d + 1
    <3>1. m \in 1 .. d /\ m \in 1 .. k /\ m + 1 \in 1 .. k + 1 /\ m + 1 <= d + 1
      BY <1>3, <2>2
    <3>2. off[m + 1] <= off[d + 1]
      BY <1>3, <3>1, OffsetsGrow
    <3>0. /\ off[m] \in Nat /\ off[d + 1] \in Nat /\ Len(M[m]) \in Nat
          /\ off[m + 1] = off[m] + Len(M[m])
      <4>1. m \in 1 .. k + 1
        BY <3>1
      <4>. QED  BY <1>3, <3>1, <4>1 DEF Offsets
    <3>3. PICK a \in Nat, l \in Nat, e \in Nat : a = off[m] /\ l = Len(M[m]) /\ e = off[d + 1]
      BY <3>0
    <3>03. a + l <= e
      BY <3>0, <3>2, <3>3
    <3>4. PICK p \in 1 .. e : p = a + i
      <4>1. i \in 1 .. l
        BY <3>3
      <4>2. a + i \in 1 .. e
        BY <3>03, <4>1
      <4>. QED  BY <4>2
    <3>5. r[p] = o[p]
      BY <1>0, <1>1, <1>2, <3>3, <3>4 DEF Joint
    <3>. QED  BY <1>0, <3>1, <3>3, <3>4, <3>5
  <2>. QED  BY <2>1, <2>2
<1>. QED
  <2>1. r \in Seq(T) /\ Len(r) = off[d + 2] /\ (d + 1) + 1 = d + 2
    BY <1>0, <1>1, <1>2, <1>3, <1>4 DEF Joint
  <2>. QED  BY <1>2, <1>5, <2>1 DEF UpTo

(* Running a micro-batch adds its results to those before it.              *)
LEMMA RunFlow ==
  ASSUME NEW w \in Workers, AtWork(w), ShapeInv, DriverInv, OldOK, FlowInv(w), TokenInv(w),
         w \in DOMAIN out, Tot(Turn(w)) \in Nat, Run(w)
  PROVE  FlowInv(w)'
<1>1. PICK y : y = Yield(w, micros[w][1])
  OBVIOUS
<1>2. PICK p : p = IF Len(micros[w]) > 1 THEN "forward"
                 ELSE IF phase = "computing" THEN "restore" ELSE "step"
  OBVIOUS
<1>3. /\ pc[w] = "run" /\ Passed(w) /\ pc' = [pc EXCEPT ![w] = p]
      /\ micros' = [micros EXCEPT ![w] = Tail(micros[w])]
      /\ out' = [out EXCEPT ![w] = out[w] \o y]
      /\ steps' = steps /\ slices' = slices /\ index' = index /\ Still
  BY <1>1, <1>2 DEF Run, Still, driver
<1>4. /\ pc'[w] = p /\ micros'[w] = Tail(micros[w]) /\ out'[w] = out[w] \o y
      /\ steps'[w] = steps[w] /\ slices'[w] = slices[w] /\ index'[w] = index[w]
  BY <1>3 DEF AtWork
<1>5. PICK M \in Seq(Seq(Rec)) : \E off : \E d :
        /\ CutOf(M, index[w], off, Slice(w)) /\ CutAs(M, Slice(w), Turn(w)) /\ Ran(w, M, off, d)
  BY <1>3 DEF FlowInv, RunInv, Running
<1>6. PICK off : \E d :
        /\ CutOf(M, index[w], off, Slice(w)) /\ CutAs(M, Slice(w), Turn(w)) /\ Ran(w, M, off, d)
  BY <1>5
<1>7. PICK d : /\ CutOf(M, index[w], off, Slice(w)) /\ CutAs(M, Slice(w), Turn(w))
               /\ Ran(w, M, off, d)
  BY <1>6
<1>8. PICK k \in Nat \ {0} : k = Len(M) /\ Offsets(off, M, k)
  BY <1>7 DEF CutOf
<1>9. PICK u \in Seq(Seq(Rec)) : u = micros[w] /\ u # << >>
  BY <1>3 DEF AtWork, WorkerInv, MicroInv, Filled
<1>10. PICK n \in Nat : Len(u) = n + 1
  <2>1. PICK l \in Nat \ {0} : l = Len(u)
    BY <1>9
  <2>2. l - 1 \in Nat /\ l = (l - 1) + 1
    OBVIOUS
  <2>. QED  BY <2>1, <2>2
<1>11. d \in 0 .. k /\ n + 1 = k - d /\ \A m \in 1 .. n + 1 : u[m] = M[d + m]
  BY <1>7, <1>8, <1>9, <1>10 DEF Ran
<1>12. d \in 0 .. k - 1 /\ d \in Nat /\ d + 1 \in 1 .. k /\ u[1] = M[d + 1] /\ 1 \in 1 .. n + 1
  BY <1>11
<1>13. PICK v \in Seq(Rec) : v = M[d + 1]
  BY <1>8, <1>12
<1>14. PICK tot \in Nat : tot = Tot(Turn(w))
  OBVIOUS
<1>15. /\ y \in Seq(Product) /\ Len(y) = Len(v)
       /\ \A i \in 1 .. Len(v) : y[i] = Made(v[i], v, tot)
  <2>1. y = Yield(w, v)
    BY <1>1, <1>9, <1>12, <1>13
  <2>2. ConfigInv /\ InCall
    BY DEF AtWork
  <2>. QED  BY <1>3, <1>14, <2>1, <2>2, YieldIs
<1>16. PICK G : G = [m \in 1 .. k |-> [i \in 1 .. Len(M[m]) |-> Made(M[m][i], M[m], tot)]]
  OBVIOUS
<1>17. \A m \in 1 .. k : \A i \in 1 .. Len(M[m]) : G[m][i] = Made(M[m][i], M[m], tot)
  BY <1>16
<1>18. /\ out[w] \o y \in Seq(Product) /\ Len(out[w] \o y) = off[d + 2]
       /\ \A m \in 1 .. d + 1 : \A i \in 1 .. Len(M[m]) : (out[w] \o y)[off[m] + i] = G[m][i]
  <2>1. PICK o \in Seq(Product) : o = out[w]
    BY DEF FlowInv
  <2>2. Len(o) = off[d + 1]
    BY <1>7, <2>1 DEF Ran
  <2>3. \A m \in 1 .. d : \A i \in 1 .. Len(M[m]) : o[off[m] + i] = G[m][i]
    <3>1. ASSUME NEW m \in 1 .. d, NEW i \in 1 .. Len(M[m]) PROVE o[off[m] + i] = G[m][i]
      <4>1. m \in 1 .. k
        BY <1>11
      <4>2. o[off[m] + i] = Made(M[m][i], M[m], tot)
        BY <1>7, <1>14, <2>1 DEF Ran
      <4>. QED  BY <1>17, <4>1, <4>2
    <3>. QED  BY <3>1
  <2>4. Len(y) = Len(M[d + 1]) /\ \A i \in 1 .. Len(y) : y[i] = G[d + 1][i]
    BY <1>12, <1>13, <1>15, <1>17
  <2>5. PICK T : T = Product
    OBVIOUS
  <2>6. o \in Seq(T) /\ y \in Seq(T)
    BY <1>15, <2>5
  <2>7. UpTo(o, T, G, M, off, d) /\ Onto(y, T, G, M, d + 1)
    BY <2>2, <2>3, <2>4, <2>6 DEF UpTo, Onto
  <2>8. UpTo(o \o y, T, G, M, off, d + 1)
    BY <1>8, <1>12, <2>7, RunMore
  <2>9. (d + 1) + 1 = d + 2
    BY <1>12
  <2>. QED  BY <2>1, <2>5, <2>8, <2>9 DEF UpTo
<1>19. \A m \in 1 .. d + 1 : \A i \in 1 .. Len(M[m]) :
         (out[w] \o y)[off[m] + i] = Made(M[m][i], M[m], tot)
  <2>1. \A m \in 1 .. d + 1 : m \in 1 .. k
    BY <1>11
  <2>. QED  BY <1>17, <1>18, <2>1
<1>20. PICK t : t = Tail(u)
  OBVIOUS
<1>21. t \in Seq(Seq(Rec)) /\ Len(t) = n /\ \A m \in 1 .. n : t[m] = u[m + 1]
  BY <1>9, <1>10, <1>20
<1>22. \A m \in 1 .. n : t[m] = M[d + 1 + m]
  <2>1. ASSUME NEW m \in 1 .. n PROVE t[m] = M[d + 1 + m]
    <3>1. m + 1 \in 1 .. n + 1 /\ d + (m + 1) = d + 1 + m
      BY <1>11
    <3>2. u[m + 1] = M[d + (m + 1)]
      BY <1>11, <3>1
    <3>. QED  BY <1>21, <3>1, <3>2
  <2>. QED  BY <2>1
<1>23. WholeInv(w)' /\ Turn(w)' = Turn(w) /\ Slice(w)' = Slice(w)
  BY <1>3, <1>4, SameSlices DEF FlowInv
<1>24. Ran(w, M, off, d + 1)'
  <2>1. d + 1 \in 0 .. Len(M) /\ (d + 1) + 1 = d + 2 /\ n = Len(M) - (d + 1)
    <3>1. Len(M) = k
      BY <1>8
    <3>2. d + 1 \in 0 .. k /\ (d + 1) + 1 = d + 2 /\ n = k - (d + 1)
      BY <1>11, <1>12
    <3>. QED  BY <3>1, <3>2
  <2>2. micros'[w] = t /\ Len(out'[w]) = off[(d + 1) + 1]
    BY <1>4, <1>9, <1>18, <1>20, <2>1
  <2>3. \A m \in 1 .. d + 1 : \A i \in 1 .. Len(M[m]) :
          out'[w][off[m] + i] = Made(M[m][i], M[m], Tot(Turn(w)))'
    <3>1. Tot(Turn(w))' = tot
      BY <1>3, <1>14, <1>23, StillSame
    <3>2. \A r, m : Made(r, m, Tot(Turn(w)))' = Made(r, m, tot)
      BY <1>3, <3>1, StillSame
    <3>. QED  BY <1>4, <1>19, <3>2
  <2>4. t \in Seq(Seq(Rec'))
    BY <1>3, <1>21, StillSame
  <2>. QED  BY <1>21, <1>22, <2>1, <2>2, <2>3, <2>4 DEF Ran
<1>25. /\ n > 0 => p = "forward"
       /\ n = 0 => p = IF phase = "computing" THEN "restore" ELSE "step"
  <2>1. p = IF n + 1 > 1 THEN "forward" ELSE IF phase = "computing" THEN "restore" ELSE "step"
    BY <1>2, <1>9, <1>10
  <2>2. n > 0 <=> n + 1 > 1
    OBVIOUS
  <2>3. n = 0 => ~(n > 0)
    OBVIOUS
  <2>. QED  BY <2>1, <2>2, <2>3
<1>26. RunInv(w)'
  <2>1. M \in Seq(Seq(Rec')) /\ CutOf(M, index'[w], off, Slice(w)')
    BY <1>3, <1>4, <1>7, <1>23, StillSame
  <2>2. CutAs(M, Slice(w), Turn(w))'
    BY <1>3, <1>7, <1>23, StillSame
  <2>3. pc'[w] \in Over => d + 1 = Len(M)
    <3>1. p \in Over => n = 0
      BY <1>25 DEF Over
    <3>2. n = 0 => d + 1 = k
      BY <1>11
    <3>. QED  BY <1>4, <1>8, <3>1, <3>2
  <2>. QED  BY <1>24, <2>1, <2>2, <2>3 DEF RunInv
<1>27. p \in {"forward", "restore", "step"} /\ (p = "restore" => phase = "computing")
       /\ (p = "step" => phase # "computing")
  BY <1>2
<1>28. PlaceInv(w)' /\ ReplyInv(w)'
  BY <1>3, <1>4, <1>27 DEF PlaceInv, ReplyInv, Still
<1>29. steps'[w] \in Seq(SUBSET Used') /\ out'[w] \in Seq(Product')
  <2>1. steps[w] \in Seq(SUBSET Used)
    BY DEF FlowInv
  <2>. QED  BY <1>3, <1>4, <1>18, <2>1, StillSame
<1>30. pc'[w] \notin AtStart /\ pc'[w] # "merge"
  BY <1>4, <1>27 DEF AtStart
<1>. QED  BY <1>23, <1>26, <1>28, <1>29, <1>30 DEF FlowInv

-----------------------------------------------------------------------------
(* When all micro-batches have been run there is a result for every row    *)
(* of the slice.                                                           *)
ResultsOf(o, F, M, ix, off, c) ==
  /\ Len(o) = Len(c)
  /\ \A m \in 1 .. Len(M) : \A i \in 1 .. Len(M[m]) :
       off[m] + i \in 1 .. Len(c) /\ o[off[m] + i] = F[m][i]
  /\ \A p \in 1 .. Len(c) : \E m \in 1 .. Len(M) : \E i \in 1 .. Len(M[m]) :
       p = off[m] + i /\ o[p] = F[m][i] /\ M[m][i] = c[ix[p]]

(* Once all micro-batches are run the results are those of the whole       *)
(* slice.                                                                  *)
LEMMA AllRan ==
  ASSUME NEW M, NEW ix, NEW off, NEW c, CutOf(M, ix, off, c), NEW T, NEW o, NEW F,
         UpTo(o, T, F, M, off, Len(M))
  PROVE  ResultsOf(o, F, M, ix, off, c)
<1>1. PICK k \in Nat \ {0} : k = Len(M) /\ Offsets(off, M, k) /\ off[k + 1] = Len(c)
  BY DEF CutOf
<1>2. \A m \in 1 .. k : \A i \in 1 .. Len(M[m]) : M[m][i] = c[ix[off[m] + i]]
  BY <1>1 DEF CutOf
<1>3. /\ \A m \in 1 .. k : \A i \in 1 .. Len(M[m]) : o[off[m] + i] = F[m][i]
      /\ Len(o) = Len(c)
  BY <1>1 DEF UpTo
<1>4. \A m \in 1 .. k : \A i \in 1 .. Len(M[m]) : off[m] + i \in 1 .. Len(c)
  BY <1>1, OffsetsApart
<1>5. ASSUME NEW p \in 1 .. Len(c)
      PROVE  \E m \in 1 .. k : \E i \in 1 .. Len(M[m]) :
               p = off[m] + i /\ o[p] = F[m][i] /\ M[m][i] = c[ix[p]]
  <2>0. p \in 1 .. off[k + 1]
    BY <1>1
  <2>1. PICK m \in 1 .. k : \E i \in 1 .. Len(M[m]) : p = off[m] + i
    <3>1. k \in Nat /\ Offsets(off, M, k)
      BY <1>1
    <3>. QED  BY <2>0, <3>1, OffsetsPlace
  <2>2. PICK i \in 1 .. Len(M[m]) : p = off[m] + i
    BY <2>1
  <2>. QED  BY <1>2, <1>3, <2>2
<1>. QED  BY <1>1, <1>3, <1>4, <1>5 DEF ResultsOf

(* Every result gets back to the place of its row.                         *)
LEMMA RestoreFlow ==
  ASSUME NEW w \in Workers, AtWork(w), DriverInv, FlowInv(w), w \in DOMAIN out, Restore(w)
  PROVE  FlowInv(w)'
<1>1. /\ pc[w] = "restore" /\ pc' = [pc EXCEPT ![w] = "replied"]
      /\ out' = [out EXCEPT ![w] = Restored(w)]
      /\ steps' = steps /\ slices' = slices /\ index' = index /\ micros' = micros /\ Still
  BY DEF Restore, Still, driver
<1>2. /\ pc'[w] = "replied" /\ out'[w] = Restored(w)
      /\ steps'[w] = steps[w] /\ slices'[w] = slices[w]
  BY <1>1 DEF AtWork
<1>3. phase = "computing" /\ config' = config /\ order' = order /\ phase' = phase
  BY <1>1 DEF FlowInv, PlaceInv, Still
<1>4. PICK M \in Seq(Seq(Rec)) : \E off : \E d :
        CutOf(M, index[w], off, Slice(w)) /\ Ran(w, M, off, d) /\ d = Len(M)
  BY <1>1 DEF FlowInv, RunInv, Running, Over
<1>5. PICK off : CutOf(M, index[w], off, Slice(w)) /\ Ran(w, M, off, Len(M))
  BY <1>4
<1>6. PICK o \in Seq(Product) : o = out[w]
  BY DEF FlowInv
<1>7. PICK ix : ix = index[w]
  OBVIOUS
<1>8. PICK c \in Seq(Rec) : c = Slice(w)
  BY DEF AtWork, Slice
<1>9. PICK l \in Nat : l = Len(c)
  OBVIOUS
<1>10. PICK G : G = [m \in 1 .. Len(M) |-> [i \in 1 .. Len(M[m]) |-> M[m][i].id]]
  OBVIOUS
<1>11. ASSUME NEW m \in 1 .. Len(M), NEW i \in 1 .. Len(M[m])
       PROVE  o[off[m] + i] = G[m][i] /\ G[m][i] = M[m][i].id
  BY <1>3, <1>5, <1>6, <1>10 DEF Ran, Made
<1>12. ResultsOf(o, G, M, ix, off, c)
  <2>1. CutOf(M, ix, off, c) /\ Len(o) = off[Len(M) + 1]
    BY <1>5, <1>6, <1>7, <1>8 DEF Ran
  <2>2. UpTo(o, Product, G, M, off, Len(M))
    BY <1>11, <2>1 DEF UpTo
  <2>. QED  BY <2>1, <2>2, AllRan
<1>13. ASSUME NEW p \in 1 .. l PROVE o[p] = c[ix[p]].id
  <2>1. PICK m \in 1 .. Len(M) : \E i \in 1 .. Len(M[m]) :
            p = off[m] + i /\ o[p] = G[m][i] /\ M[m][i] = c[ix[p]]
    BY <1>9, <1>12 DEF ResultsOf
  <2>2. PICK i \in 1 .. Len(M[m]) : p = off[m] + i /\ o[p] = G[m][i] /\ M[m][i] = c[ix[p]]
    BY <2>1
  <2>. QED  BY <1>11, <2>2
<1>14. ix \in Seq(1 .. l) /\ ix \in Bijection(1 .. l, 1 .. l)
  BY <1>5, <1>7, <1>8, <1>9 DEF CutOf
<1>15. ASSUME NEW i \in 1 .. l
       PROVE  out[w][CHOOSE j \in DOMAIN index[w] : index[w][j] = i] = c[i].id
  <2>1. DOMAIN ix = 1 .. l /\ \E j \in 1 .. l : ix[j] = i
    BY <1>14 DEF Bijection, Injection, Surjection
  <2>2. PICK x : x = CHOOSE j \in DOMAIN ix : ix[j] = i
    OBVIOUS
  <2>3. x \in 1 .. l /\ ix[x] = i
    BY <2>1, <2>2
  <2>4. o[x] = c[i].id
    BY <1>13, <2>3
  <2>. QED  BY <1>6, <1>7, <2>2, <2>4
<1>16. Restored(w) = [i \in 1 .. l |-> c[i].id]
  <2>1. DOMAIN o = 1 .. l
    BY <1>9, <1>12 DEF ResultsOf
  <2>2. DOMAIN out[w] = 1 .. l
    BY <1>6, <2>1
  <2>. QED  BY <1>15, <2>2 DEF Restored
<1>17. WholeInv(w)' /\ Turn(w)' = Turn(w) /\ Slice(w)' = Slice(w)
  BY <1>1, <1>2, SameSlices DEF FlowInv
<1>18. c = Chunk(w) /\ l = Size
  <2>1. steps[w] = << >>
    BY <1>3 DEF FlowInv, WholeInv
  <2>2. Turn(w) = 1
    BY <2>1 DEF Turn
  <2>3. Slice(w) = Whole(w)[1] /\ Whole(w) = <<Chunk(w)>>
    BY <1>3, <2>2, SliceIs DEF Whole
  <2>4. c = Chunk(w)
    BY <1>8, <2>3
  <2>. QED  BY <1>9, <2>4, Chunks DEF AtWork, ChunkOf
<1>19. \A i \in 1 .. l : c[i].id = order[DpRank(w) * Size + i]
  BY <1>18 DEF Chunk, Size
<1>20. out'[w] = [i \in 1 .. Size |-> order[DpRank(w) * Size + i]]
  <2>1. [i \in 1 .. l |-> c[i].id] = [i \in 1 .. l |-> order[DpRank(w) * Size + i]]
    BY <1>19
  <2>. QED  BY <1>2, <1>16, <1>18, <2>1
<1>21. ReplyInv(w)'
  BY <1>1, <1>3, <1>20, StillSame DEF ReplyInv
<1>22. out'[w] \in Seq(Product')
  <2>1. \A i \in 1 .. l : c[i].id \in Rows
    <3>1. \A i \in 1 .. l : c[i] \in Rec
      BY <1>9
    <3>2. \A r \in Rec : r.id \in Rows
      BY DEF Rec
    <3>. QED  BY <3>1, <3>2
  <2>2. [i \in 1 .. l |-> c[i].id] \in [1 .. l -> Rows]
    BY <2>1
  <2>3. Product' = Rows
    BY <1>1, <1>3, StillSame DEF Product
  <2>4. PICK f \in [1 .. l -> Rows] : f = [i \in 1 .. l |-> c[i].id]
    BY <2>2
  <2>5. f \in Seq(Rows)
    OBVIOUS
  <2>. QED  BY <1>2, <1>16, <2>3, <2>4, <2>5
<1>23. PlaceInv(w)' /\ RunInv(w)' /\ pc'[w] \notin AtStart /\ pc'[w] # "merge"
  BY <1>2 DEF PlaceInv, RunInv, Running, AtStart
<1>24. steps'[w] \in Seq(SUBSET Used')
  BY <1>1, StillSame DEF FlowInv
<1>. QED  BY <1>17, <1>21, <1>22, <1>23, <1>24 DEF FlowInv

(* The optimizer step is made of all rows of the slice.                    *)
LEMMA OptimizerStepFlow ==
  ASSUME NEW w \in Workers, AtWork(w), DriverInv, FlowInv(w), w \in DOMAIN out,
         w \in DOMAIN steps, OptimizerStep(w)
  PROVE  FlowInv(w)'
<1>1. PICK p : p = IF Len(slices[w]) > 1 THEN Begin ELSE "replied"
  OBVIOUS
<1>2. PICK S : S = Range(out[w])
  OBVIOUS
<1>3. /\ pc[w] = "stepping" /\ pc' = [pc EXCEPT ![w] = p]
      /\ steps' = [steps EXCEPT ![w] = Append(steps[w], S)]
      /\ out' = [out EXCEPT ![w] = << >>]
      /\ slices' = [slices EXCEPT ![w] = Tail(slices[w])] /\ Still
  BY <1>1, <1>2 DEF OptimizerStep, Still, driver
<1>4. /\ pc'[w] = p /\ steps'[w] = Append(steps[w], S) /\ out'[w] = << >>
      /\ slices'[w] = Tail(slices[w])
  BY <1>3 DEF AtWork
<1>5. phase # "computing" /\ config' = config /\ phase' = phase
  BY <1>3 DEF FlowInv, PlaceInv, Still
<1>6. PICK M \in Seq(Seq(Rec)) : \E off : \E d :
        /\ CutOf(M, index[w], off, Slice(w)) /\ CutAs(M, Slice(w), Turn(w))
        /\ Ran(w, M, off, d) /\ d = Len(M)
  BY <1>3 DEF FlowInv, RunInv, Running, Over
<1>7. PICK off : /\ CutOf(M, index[w], off, Slice(w)) /\ CutAs(M, Slice(w), Turn(w))
                 /\ Ran(w, M, off, Len(M))
  BY <1>6
<1>8. PICK o \in Seq(Product) : o = out[w]
  BY DEF FlowInv
<1>9. PICK ix, c, s, tot : ix = index[w] /\ c = Slice(w) /\ s = Turn(w) /\ tot = Tot(s)
  OBVIOUS
<1>10. PICK G : G = [m \in 1 .. Len(M) |-> [i \in 1 .. Len(M[m]) |-> Made(M[m][i], M[m], tot)]]
  OBVIOUS
<1>11. \A m \in 1 .. Len(M) : \A i \in 1 .. Len(M[m]) : G[m][i] = Made(M[m][i], M[m], tot)
  BY <1>10
<1>12. ResultsOf(o, G, M, ix, off, c)
  <2>1. CutOf(M, ix, off, c) /\ Len(o) = off[Len(M) + 1]
    BY <1>7, <1>8, <1>9 DEF Ran
  <2>2. UpTo(o, Product, G, M, off, Len(M))
    <3>1. ASSUME NEW m \in 1 .. Len(M), NEW i \in 1 .. Len(M[m])
          PROVE  o[off[m] + i] = G[m][i]
      BY <1>7, <1>8, <1>9, <1>11 DEF Ran
    <3>. QED  BY <2>1, <3>1 DEF UpTo
  <2>. QED  BY <2>1, <2>2, AllRan
<1>13. PICK l : l = Len(c) /\ Len(o) = l /\ DOMAIN o = 1 .. l
  BY <1>12 DEF ResultsOf
<1>14. Yielded(S, M, tot)
  <2>1. ASSUME NEW m \in 1 .. Len(M), NEW i \in 1 .. Len(M[m])
        PROVE  Made(M[m][i], M[m], tot) \in S
    <3>1. off[m] + i \in DOMAIN o /\ o[off[m] + i] = G[m][i]
      BY <1>12, <1>13 DEF ResultsOf
    <3>. QED  BY <1>2, <1>8, <1>11, <3>1 DEF Range
  <2>2. ASSUME NEW x \in S
        PROVE  \E m \in 1 .. Len(M) : \E i \in 1 .. Len(M[m]) : x = Made(M[m][i], M[m], tot)
    <3>1. PICK q \in 1 .. l : x = o[q]
      BY <1>2, <1>8, <1>13 DEF Range
    <3>2. PICK m \in 1 .. Len(M) : \E i \in 1 .. Len(M[m]) :
            q = off[m] + i /\ o[q] = G[m][i] /\ M[m][i] = c[ix[q]]
      BY <1>12, <1>13 DEF ResultsOf
    <3>3. PICK i \in 1 .. Len(M[m]) : o[q] = G[m][i]
      BY <3>2
    <3>. QED  BY <1>11, <3>1, <3>3
  <2>. QED  BY <2>1, <2>2 DEF Yielded
<1>15. StepOf(S, c, s)
  BY <1>7, <1>9, <1>14 DEF StepOf
<1>16. S \in SUBSET Used
  <2>1. Product = Used
    BY <1>5 DEF Product
  <2>2. \A q \in 1 .. l : o[q] \in Used
    BY <1>13, <2>1
  <2>. QED  BY <1>2, <1>8, <1>13, <2>2 DEF Range
<1>17. PICK r \in Seq(SUBSET Used) : r = steps[w]
  BY DEF FlowInv
<1>18. PICK n \in Nat : n = Len(r) /\ s = n + 1
  BY <1>9, <1>17 DEF Turn
<1>19. PICK t : t = Append(r, S)
  OBVIOUS
<1>20. /\ t \in Seq(SUBSET Used) /\ Len(t) = n + 1 /\ t[n + 1] = S
       /\ \A i \in 1 .. n : t[i] = r[i]
  BY <1>16, <1>18, <1>19
<1>21. PICK z \in Seq(Seq(Rec)) : z = slices[w] /\ z # << >>
  BY DEF AtWork, Filled
<1>22. PICK k \in Nat : Len(z) = k + 1
  <2>1. PICK q \in Nat \ {0} : q = Len(z)
    BY <1>21
  <2>2. q - 1 \in Nat /\ q = (q - 1) + 1
    OBVIOUS
  <2>. QED  BY <2>1, <2>2
<1>23. PICK y : y = Tail(z)
  OBVIOUS
<1>24. y \in Seq(Seq(Rec)) /\ Len(y) = k /\ \A i \in 1 .. k : y[i] = z[i + 1]
  BY <1>21, <1>22, <1>23
<1>25. PICK W : W = Whole(w) /\ W = Whole(w)'
  BY <1>3, StillSame
<1>26. n + k + 1 = Len(W) /\ \A i \in 1 .. k + 1 : z[i] = W[n + i]
  <2>1. WholeInv(w)
    BY DEF FlowInv
  <2>2. n + (k + 1) = Len(W)
    BY <1>17, <1>18, <1>21, <1>22, <1>25, <2>1 DEF WholeInv
  <2>3. \A i \in 1 .. k + 1 : z[i] = W[n + i]
    BY <1>17, <1>18, <1>21, <1>22, <1>25, <2>1 DEF WholeInv
  <2>4. n + k + 1 = n + (k + 1)
    OBVIOUS
  <2>. QED  BY <2>2, <2>3, <2>4
<1>27. WholeInv(w)'
  <2>1. (n + 1) + k = Len(W)
    BY <1>26
  <2>2. ASSUME NEW i \in 1 .. k PROVE y[i] = W[(n + 1) + i]
    <3>1. i + 1 \in 1 .. k + 1 /\ n + (i + 1) = (n + 1) + i
      OBVIOUS
    <3>. QED  BY <1>24, <1>26, <3>1
  <2>3. ASSUME NEW i \in 1 .. n + 1 PROVE StepOf(t[i], W[i], i)
    <3>1. CASE i = n + 1
      <4>1. c = W[n + 1]
        <5>1. 1 \in 1 .. k + 1
          OBVIOUS
        <5>. QED  BY <1>9, <1>21, <1>26, <5>1 DEF Slice
      <4>. QED  BY <1>15, <1>18, <1>20, <3>1, <4>1
    <3>2. CASE i # n + 1
      <4>1. i \in 1 .. n
        BY <3>2
      <4>. QED  BY <1>17, <1>18, <1>20, <1>25, <4>1 DEF FlowInv, WholeInv
    <3>. QED  BY <3>1, <3>2
  <2>4. \A i \in 1 .. n + 1 : StepOf(t[i], W[i], i)'
    BY <1>3, <2>3, StillSame
  <2>5. steps'[w] = t /\ slices'[w] = y /\ Len(steps'[w]) = n + 1 /\ Len(slices'[w]) = k
    BY <1>4, <1>17, <1>19, <1>20, <1>21, <1>23, <1>24
  <2>. QED  BY <1>5, <1>25, <2>1, <2>2, <2>4, <2>5 DEF WholeInv
<1>28. p = "replied" \/ p = Begin
  BY <1>1
<1>29. p = "replied" => y = << >>
  <2>1. p = "replied" => ~(k + 1 > 1)
    BY <1>1, <1>21, <1>22 DEF Begin, Cutting
  <2>2. p = "replied" => k = 0
    BY <2>1
  <2>. QED  BY <1>24, <2>2
<1>30. PlaceInv(w)' /\ ReplyInv(w)' /\ RunInv(w)' /\ pc'[w] # "merge"
  <2>1. /\ p \in {"replied", "tokens", "count", "split"}
        /\ p = "tokens" => config.loss = "slqp"
        /\ p = "count" => config.dynamic
        /\ p = "split" => ~config.dynamic
    BY <1>28 DEF Begin, Cutting
  <2>2. PlaceInv(w)'
    BY <1>4, <1>5, <2>1 DEF PlaceInv
  <2>3. ReplyInv(w)'
    BY <1>4, <1>5, <1>21, <1>23, <1>29 DEF ReplyInv
  <2>. QED  BY <1>4, <2>1, <2>2, <2>3 DEF RunInv, Running
<1>31. steps'[w] \in Seq(SUBSET Used') /\ out'[w] \in Seq(Product')
  BY <1>3, <1>4, <1>17, <1>19, <1>20, StillSame
<1>. QED  BY <1>4, <1>27, <1>30, <1>31 DEF FlowInv

-----------------------------------------------------------------------------
(* Who has entered the collective that w is about to enter waits in it, at *)
(* the same mini-batch.                                                    *)
LEMMA Ahead ==
  ASSUME IInv, InCall, \A v \in Workers : FlowInv(v), NEW w \in Workers,
         pc[w] \notin Waiting, NEW v \in Workers, Len(ops[v]) > Len(ops[w])
  PROVE  /\ Len(ops[v]) = Len(ops[w]) + 1 /\ pc[v] \in Waiting
         /\ Pos(v) = Pos(w) /\ Turn(v) = Turn(w)
<1>1. /\ ConfigInv /\ DriverInv /\ ShapeInv /\ \A u \in Workers : WorkerInv(u)
      /\ \A u, x \in Workers : PairInv(u, x)
  BY DEF IInv, CallInv
<1>2. /\ \A u \in Workers : Len(ops[u]) \in Nat /\ Left(u) \in Nat
      /\ \A u \in Workers : pc[u] \in Waiting => Len(ops[u]) = Left(u) + 1
      /\ \A u \in Workers : pc[u] \notin Waiting => Len(ops[u]) = Left(u)
      /\ \A u, x \in Workers : Left(x) <= Len(ops[u])
  BY <1>1, LeftIs DEF WorkerInv, PairInv
<1>3. PICK a \in Nat, b \in Nat, c \in Nat :
        a = Len(ops[w]) /\ b = Len(ops[v]) /\ c = Left(v) /\ b > a /\ c <= a /\ a = Left(w)
  BY <1>2
<1>4. pc[v] \in Waiting /\ b = c + 1 /\ c = a
  <2>1. pc[v] \notin Waiting => b = c
    BY <1>2, <1>3
  <2>2. pc[v] \in Waiting
    BY <1>3, <2>1
  <2>. QED  BY <1>2, <1>3, <2>2
<1>5. Pos(v) = Pos(w)
  BY <1>1, <1>3, <1>4 DEF PairInv, SyncInv
<1>6. Len(slices[v]) = Len(slices[w])
  <2>1. Pos(v)[1] \in {"sum", "max", "forward", "step"}
    BY <1>4, PosIs DEF Waiting
  <2>2. \A u : Pos(u)[1] \in {"sum", "max", "forward", "step"} => Pos(u)[2] = Len(slices[u])
    BY DEF Pos
  <2>. QED  BY <1>5, <2>1, <2>2
<1>7. Turn(v) = Turn(w)
  <2>1. ASSUME NEW u \in Workers
        PROVE  \E n \in Nat : \E l \in Nat : /\ n = Len(steps[u]) /\ l = Len(slices[u])
                                             /\ n + l = Turns /\ Turns \in Nat
    <3>1. PICK s \in Seq(SUBSET Used) : s = steps[u]
      BY DEF FlowInv
    <3>2. PICK t \in Seq(Seq(Rec)) : t = slices[u]
      BY <1>1 DEF WorkerInv, SliceInv, Filled
    <3>3. Turns \in Nat \ {0} /\ Len(Whole(u)) = Turns
      BY <1>1, Wholes DEF WholeOf
    <3>4. Len(s) + Len(t) = Turns /\ Len(s) \in Nat /\ Len(t) \in Nat
      <4>1. Len(steps[u]) + Len(slices[u]) = Len(Whole(u))
        BY DEF FlowInv, WholeInv
      <4>2. Len(s) \in Nat /\ Len(t) \in Nat
        OBVIOUS
      <4>. QED  BY <3>1, <3>2, <3>3, <4>1, <4>2
    <3>. QED  BY <3>1, <3>2, <3>3, <3>4
  <2>2. PICK n \in Nat, l \in Nat : n = Len(steps[v]) /\ l = Len(slices[v]) /\ n + l = Turns /\ Turns \in Nat
    BY <2>1
  <2>3. PICK m \in Nat, k \in Nat : m = Len(steps[w]) /\ k = Len(slices[w]) /\ m + k = Turns
    BY <2>1
  <2>4. l = k
    BY <1>6, <2>2, <2>3
  <2>5. n = m
    <3>1. PICK k2 \in Nat : k2 = Turns
      BY <2>2
    <3>2. n + l = k2 /\ m + l = k2
      BY <2>2, <2>3, <2>4, <3>1
    <3>. QED  BY <3>2
  <2>. QED  BY <2>2, <2>3, <2>5 DEF Turn
<1>. QED  BY <1>3, <1>4, <1>5, <1>7

(* What a worker enters is the number of its own slice.                    *)
EnteredOf(w, r) ==
  /\ pc[w] = "tokens" => r.n = TokensOf(Whole(w)[Turn(w)])
  /\ pc[w] = "count" => r.n = NeededOf(Whole(w)[Turn(w)])

(* What entering a collective does to the records of all workers.          *)
LEMMA EnterOps ==
  ASSUME IInv, InCall, NEW w \in Workers, NEW r, Enters(w, r)
  PROVE  /\ pc[w] \notin Waiting /\ pc[w] # "replied" /\ r.op = Pos(w)[1]
         /\ \A v \in Workers : Len(ops[v]) \in Nat /\ Len(ops'[v]) \in Nat
         /\ \A v \in Workers \ {w} : ops'[v] = ops[v] /\ pc'[v] = pc[v]
         /\ Len(ops'[w]) = Len(ops[w]) + 1 /\ ops'[w][Len(ops[w]) + 1] = r
         /\ \A i \in 1 .. Len(ops[w]) : ops'[w][i] = ops[w][i]
         /\ <<pc[w], pc'[w]>> \in Entering
<1>1. /\ ops \in [Workers -> Seq(Ops)] /\ DOMAIN pc = Workers
  BY DEF IInv, ShapeInv
<1>2. PICK o \in Seq(Ops) : o = ops[w]
  BY <1>1
<1>3. PICK n \in Nat : n = Len(o)
  OBVIOUS
<1>4. r \in Ops /\ ops' = [ops EXCEPT ![w] = Append(@, r)]
  BY DEF Enters
<1>5. PICK t : t = Append(o, r)
  OBVIOUS
<1>6. t \in Seq(Ops) /\ Len(t) = n + 1 /\ t[n + 1] = r /\ \A i \in 1 .. n : t[i] = o[i]
  BY <1>3, <1>4, <1>5
<1>7. ops'[w] = t /\ \A v \in Workers \ {w} : ops'[v] = ops[v]
  BY <1>1, <1>2, <1>4, <1>5
<1>8. \A v \in Workers : Len(ops[v]) \in Nat /\ Len(ops'[v]) \in Nat
  <2>1. \A v \in Workers : ops[v] \in Seq(Ops)
    BY <1>1
  <2>2. \A v \in Workers : ops'[v] \in Seq(Ops)
    BY <1>6, <1>7, <2>1
  <2>. QED  BY <2>1, <2>2
<1>9. PICK q : <<pc[w], q>> \in Entering /\ pc' = [pc EXCEPT ![w] = q]
  BY DEF Enters
<1>10. <<pc[w], pc'[w]>> \in Entering /\ \A v \in Workers \ {w} : pc'[v] = pc[v]
  BY <1>1, <1>9
<1>11. pc[w] \notin Waiting /\ pc[w] # "replied" /\ r.op = Pos(w)[1]
  BY <1>9 DEF Entering, Waiting, Enters
<1>. QED  BY <1>2, <1>3, <1>6, <1>7, <1>8, <1>10, <1>11

(* It leaves right what the workers know of the others' tokens and sizes.  *)
LEMMA EnterData ==
  ASSUME IInv, InCall, \A v \in Workers : FlowInv(v) /\ TokenInv(v) /\ MaxInv(v),
         NEW w \in Workers, NEW r, Enters(w, r), EnteredOf(w, r), steps' = steps
  PROVE  \A u \in Workers : TokenInv(u)' /\ MaxInv(u)'
<1>1. /\ pc[w] \notin Waiting /\ pc[w] # "replied" /\ r.op = Pos(w)[1]
      /\ \A v \in Workers : Len(ops[v]) \in Nat /\ Len(ops'[v]) \in Nat
      /\ \A v \in Workers \ {w} : ops'[v] = ops[v] /\ pc'[v] = pc[v]
      /\ Len(ops'[w]) = Len(ops[w]) + 1 /\ ops'[w][Len(ops[w]) + 1] = r
      /\ \A i \in 1 .. Len(ops[w]) : ops'[w][i] = ops[w][i]
      /\ <<pc[w], pc'[w]>> \in Entering
  BY EnterOps
<1>2. PICK a \in Nat : a = Len(ops[w])
  BY <1>1
<1>3. Still
  BY DEF Enters
<1>4. \A v : Turn(v)' = Turn(v)
  BY DEF Turn
<1>5. /\ Workers' = Workers /\ config' = config
      /\ \A v : \A s : /\ TokensOf(Whole(v)[s])' = TokensOf(Whole(v)[s])
                       /\ NeededOf(Whole(v)[s])' = NeededOf(Whole(v)[s])
  <2>1. Workers' = Workers /\ config' = config
    BY <1>3, StillSame DEF Still
  <2>2. \A v : Whole(v)' = Whole(v)
    BY <1>3, StillSame
  <2>3. \A c : TokensOf(c)' = TokensOf(c) /\ NeededOf(c)' = NeededOf(c)
    BY <1>3, StillSame
  <2>. QED  BY <2>1, <2>2, <2>3
<1>6. ASSUME NEW v \in Workers, Len(ops[v]) > a
      PROVE  /\ v # w /\ Len(ops[v]) = a + 1 /\ pc[v] \in Waiting /\ Pos(v) = Pos(w)
             /\ Turn(v) = Turn(w) /\ ops[v][a + 1].op = Pos(w)[1]
  <2>1. /\ Len(ops[v]) = Len(ops[w]) + 1 /\ pc[v] \in Waiting
        /\ Pos(v) = Pos(w) /\ Turn(v) = Turn(w)
    BY <1>1, <1>2, <1>6, Ahead
  <2>2. EnteredInv(v)
    BY DEF IInv, CallInv, WorkerInv
  <2>. QED  BY <1>1, <1>2, <2>1, <2>2 DEF EnteredInv
<1>7. /\ pc[w] = "tokens" <=> Pos(w)[1] = "sum"
      /\ pc[w] = "count" <=> Pos(w)[1] = "max"
      /\ \A v \in Workers : pc[v] \in Waiting /\ Pos(v)[1] = "sum" => pc[v] = "summing"
      /\ \A v \in Workers : pc[v] \in Waiting /\ Pos(v)[1] = "max" => pc[v] = "reduce"
      /\ pc[w] = "tokens" <=> pc'[w] = "summing"
      /\ pc[w] = "count" <=> pc'[w] \in {"reduce", "merge"}
  BY <1>1, PosIs DEF Waiting, Entering
<1>8. ASSUME NEW u \in Workers \ {w} PROVE TokenInv(u)'
  <2>1. SUFFICES ASSUME config.loss = "slqp", pc[u] \notin {"tokens", "replied"}
                 PROVE  \E at : SumAt(u, at)'
    BY <1>1, <1>5 DEF TokenInv
  <2>2. PICK at : SumAt(u, at)
    BY <2>1 DEF TokenInv
  <2>3. PICK l \in Nat : l = Len(ops[u]) /\ at \in 1 .. l /\ ops'[u] = ops[u]
    BY <1>1, <2>2 DEF SumAt
  <2>4. ASSUME NEW v \in Workers, at <= Len(ops'[v])
        PROVE  ops'[v][at].n = TokensOf(Whole(v)[Turn(u)])
    <3>1. CASE v # w
      BY <1>1, <2>2, <2>4, <3>1 DEF SumAt
    <3>2. CASE v = w /\ at <= a
      <4>1. ops'[w][at] = ops[w][at]
        BY <1>1, <1>2, <2>3, <3>2
      <4>. QED  BY <1>2, <2>2, <3>2, <4>1 DEF SumAt
    <3>3. CASE v = w /\ ~(at <= a)
      <4>1. at = a + 1 /\ l > a
        BY <1>1, <1>2, <2>3, <2>4, <3>3
      <4>2. ops[u][a + 1].op = Pos(w)[1] /\ Turn(u) = Turn(w)
        BY <1>6, <2>3, <4>1
      <4>3. pc[w] = "tokens"
        BY <1>7, <2>2, <4>1, <4>2 DEF SumAt
      <4>. QED  BY <1>1, <1>2, <3>3, <4>1, <4>2, <4>3 DEF EnteredOf
    <3>. QED  BY <3>1, <3>2, <3>3
  <2>5. SumAt(u, at)'
    <3>1. \A v \in Workers : at <= Len(ops'[v]) => ops'[v][at].n = TokensOf(Whole(v)[Turn(u)])'
      BY <1>4, <1>5, <2>4
    <3>. QED  BY <1>5, <2>2, <2>3, <3>1 DEF SumAt
  <2>. QED  BY <2>5
<1>9. TokenInv(w)'
  <2>1. SUFFICES ASSUME config.loss = "slqp" PROVE \E at : SumAt(w, at)'
    BY <1>5 DEF TokenInv
  <2>2. CASE pc[w] = "tokens"
    <3>1. r.op = "sum"
      BY <1>1, <1>7, <2>2
    <3>2. ASSUME NEW v \in Workers, a + 1 <= Len(ops'[v])
          PROVE  ops'[v][a + 1].n = TokensOf(Whole(v)[Turn(w)])
      <4>1. CASE v = w
        BY <1>1, <1>2, <2>2, <4>1 DEF EnteredOf
      <4>2. CASE v # w
        <5>1. ops'[v] = ops[v] /\ Len(ops[v]) > a
          BY <1>1, <3>2, <4>2
        <5>2. /\ Len(ops[v]) = a + 1 /\ Turn(v) = Turn(w) /\ ops[v][a + 1].op = "sum"
              /\ pc[v] = "summing"
          BY <1>6, <1>7, <2>2, <5>1
        <5>3. PICK at : SumAt(v, at)
          BY <2>1, <5>2 DEF TokenInv
        <5>4. at = a + 1
          <6>1. at \in 1 .. a + 1 /\ \A i \in at + 1 .. a + 1 : ops[v][i].op # "sum"
            BY <5>2, <5>3 DEF SumAt
          <6>2. ~(a + 1 \in at + 1 .. a + 1)
            BY <5>2, <6>1
          <6>. QED  BY <6>1, <6>2
        <5>5. ops[v][a + 1].n = TokensOf(Whole(v)[Turn(v)])
          BY <5>2, <5>3, <5>4 DEF SumAt
        <5>. QED  BY <5>1, <5>2, <5>5
      <4>. QED  BY <4>1, <4>2
    <3>3. \A v \in Workers : a + 1 <= Len(ops'[v]) =>
            ops'[v][a + 1].n = TokensOf(Whole(v)[Turn(w)])'
      BY <1>4, <1>5, <3>2
    <3>4. a + 1 \in 1 .. Len(ops'[w]) /\ \A i \in a + 2 .. Len(ops'[w]) : FALSE
      BY <1>1, <1>2
    <3>5. SumAt(w, a + 1)'
      <4>1. (a + 1) + 1 = a + 2
        OBVIOUS
      <4>. QED  BY <1>1, <1>2, <1>5, <3>1, <3>3, <3>4, <4>1 DEF SumAt
    <3>. QED  BY <3>5
  <2>3. CASE pc[w] # "tokens"
    <3>1. PICK at : SumAt(w, at)
      BY <1>1, <2>1, <2>3 DEF TokenInv
    <3>2. at \in 1 .. a /\ ops[w][at].op = "sum" /\ \A i \in at + 1 .. a : ops[w][i].op # "sum"
      BY <1>2, <3>1 DEF SumAt
    <3>3. ops'[w][at] = ops[w][at] /\ at \in 1 .. Len(ops'[w])
      BY <1>1, <1>2, <3>2
    <3>4. ASSUME NEW i \in at + 1 .. Len(ops'[w]) PROVE ops'[w][i].op # "sum"
      <4>1. CASE i = a + 1
        BY <1>1, <1>2, <1>7, <2>3, <4>1
      <4>2. CASE i # a + 1
        <5>1. i \in at + 1 .. a /\ i \in 1 .. a
          BY <1>1, <1>2, <3>2, <4>2
        <5>. QED  BY <1>1, <1>2, <3>2, <5>1
      <4>. QED  BY <4>1, <4>2
    <3>5. ASSUME NEW v \in Workers, at <= Len(ops'[v])
          PROVE  ops'[v][at].n = TokensOf(Whole(v)[Turn(w)])
      <4>1. ops'[v][at] = ops[v][at] /\ at <= Len(ops[v])
        BY <1>1, <1>2, <3>2, <3>3, <3>5
      <4>. QED  BY <3>1, <4>1 DEF SumAt
    <3>6. \A v \in Workers : at <= Len(ops'[v]) => ops'[v][at].n = TokensOf(Whole(v)[Turn(w)])'
      BY <1>4, <1>5, <3>5
    <3>7. SumAt(w, at)'
      BY <1>5, <3>2, <3>3, <3>4, <3>6 DEF SumAt
    <3>. QED  BY <3>7
  <2>. QED  BY <2>2, <2>3
<1>10. ASSUME NEW u \in Workers \ {w} PROVE MaxInv(u)'
  <2>1. SUFFICES ASSUME pc[u] \in {"reduce", "merge"} PROVE MaxInv(u)'
    BY <1>1 DEF MaxInv
  <2>2. PICK j \in Nat : j = Len(ops[u]) /\ j # 0 /\ ops'[u] = ops[u]
    <3>1. ops[u] # << >> /\ ops[u] \in Seq(Ops)
      BY <2>1 DEF IInv, CallInv, WorkerInv, CountInv, ShapeInv
    <3>. QED  BY <1>1, <3>1
  <2>3. ASSUME NEW v \in Workers, Len(ops'[v]) >= j
        PROVE  ops'[v][j].n = NeededOf(Whole(v)[Turn(u)])
    <3>1. CASE v # w
      BY <1>1, <2>1, <2>2, <2>3, <3>1 DEF MaxInv
    <3>2. CASE v = w /\ a >= j
      <4>1. ops'[w][j] = ops[w][j]
        BY <1>1, <1>2, <2>2, <3>2
      <4>. QED  BY <1>2, <2>1, <2>2, <3>2, <4>1 DEF MaxInv
    <3>3. CASE v = w /\ ~(a >= j)
      <4>1. j = a + 1 /\ Len(ops[u]) > a
        BY <1>1, <1>2, <2>2, <2>3, <3>3
      <4>2. pc[u] \in Waiting /\ Pos(u) = Pos(w) /\ Turn(u) = Turn(w)
        BY <1>6, <4>1
      <4>3. pc[w] = "count"
        BY <1>7, <2>1, <4>2, PosIs DEF Waiting
      <4>. QED  BY <1>1, <1>2, <3>3, <4>1, <4>2, <4>3 DEF EnteredOf
    <3>. QED  BY <3>1, <3>2, <3>3
  <2>4. \A v \in Workers : Len(ops'[v]) >= j => ops'[v][j].n = NeededOf(Whole(v)[Turn(u)])'
    BY <1>4, <1>5, <2>3
  <2>. QED  BY <1>5, <2>2, <2>4 DEF MaxInv
<1>11. MaxInv(w)'
  <2>1. SUFFICES ASSUME pc[w] = "count" PROVE MaxInv(w)'
    BY <1>7 DEF MaxInv
  <2>2. ASSUME NEW v \in Workers, Len(ops'[v]) >= a + 1
        PROVE  ops'[v][a + 1].n = NeededOf(Whole(v)[Turn(w)])
    <3>1. CASE v = w
      BY <1>1, <1>2, <2>1, <3>1 DEF EnteredOf
    <3>2. CASE v # w
      <4>1. ops'[v] = ops[v] /\ Len(ops[v]) > a
        BY <1>1, <2>2, <3>2
      <4>2. Len(ops[v]) = a + 1 /\ Turn(v) = Turn(w) /\ pc[v] = "reduce"
        BY <1>6, <1>7, <2>1, <4>1
      <4>3. ops[v][Len(ops[v])].n = NeededOf(Whole(v)[Turn(v)])
        BY <1>1, <4>2 DEF MaxInv
      <4>. QED  BY <4>1, <4>2, <4>3
    <3>. QED  BY <3>1, <3>2
  <2>3. \A v \in Workers : Len(ops'[v]) >= a + 1 =>
          ops'[v][a + 1].n = NeededOf(Whole(v)[Turn(w)])'
    BY <1>4, <1>5, <2>2
  <2>. QED  BY <1>1, <1>2, <1>5, <2>3 DEF MaxInv
<1>. QED  BY <1>8, <1>9, <1>10, <1>11

-----------------------------------------------------------------------------
(* The others rest at a step of a worker.                                  *)
Domains ==
  /\ DOMAIN pc = Workers /\ DOMAIN slices = Workers /\ DOMAIN micros = Workers
  /\ Workers \subseteq DOMAIN heap
  /\ DOMAIN index = Workers /\ DOMAIN out = Workers /\ DOMAIN steps = Workers

(* A worker's step leaves the state of every other worker alone.           *)
LEMMA OthersRest ==
  ASSUME Domains, NEW w \in Workers, Work(w)
  PROVE  /\ Still /\ \A v \in Workers \ {w} : Rests(v)
         /\ DOMAIN index' = Workers /\ DOMAIN out' = Workers /\ DOMAIN steps' = Workers
<1>1. CASE CountTokens(w)
  BY <1>1 DEF CountTokens, Domains, Rests, Still, driver
<1>2. CASE SumTokens(w)
  BY <1>2 DEF SumTokens, Domains, Rests, Still, driver
<1>3. CASE Count(w)
  BY <1>3 DEF Count, Domains, Rests, Still, driver
<1>4. CASE Reduce(w)
  BY <1>4 DEF Reduce, Domains, Rests, Still, driver
<1>5. CASE Merge(w)
  BY <1>5 DEF Merge, Domains, Rests, Still, driver, call
<1>6. CASE Cut(w)
  <2>1. PICK x, y : /\ index' = [index EXCEPT ![w] = x] /\ micros' = [micros EXCEPT ![w] = y]
    BY <1>6 DEF Cut
  <2>2. /\ heap' = [heap EXCEPT ![w] = {}] /\ pc' = [pc EXCEPT ![w] = "forward"]
        /\ slices' = slices /\ out' = out /\ steps' = steps /\ Still
    BY <1>6 DEF Cut, Still, driver
  <2>. QED  BY <2>1, <2>2 DEF Domains, Rests
<1>7. CASE SplitMicro(w)
  <2>1. PICK x, y : /\ index' = [index EXCEPT ![w] = x] /\ micros' = [micros EXCEPT ![w] = y]
    BY <1>7 DEF SplitMicro
  <2>2. /\ heap' = heap /\ pc' = [pc EXCEPT ![w] = "forward"]
        /\ slices' = slices /\ out' = out /\ steps' = steps /\ Still
    BY <1>7 DEF SplitMicro, Still, driver
  <2>. QED  BY <2>1, <2>2 DEF Domains, Rests
<1>8. CASE Forward(w)
  BY <1>8 DEF Forward, Domains, Rests, Still, driver
<1>9. CASE Run(w)
  BY <1>9 DEF Run, Domains, Rests, Still, driver
<1>10. CASE Restore(w)
  BY <1>10 DEF Restore, Domains, Rests, Still, driver
<1>11. CASE EnterStep(w)
  BY <1>11 DEF EnterStep, Domains, Rests, Still, driver
<1>12. CASE OptimizerStep(w)
  BY <1>12 DEF OptimizerStep, Domains, Rests, Still, driver
<1>. QED  BY <1>1, <1>2, <1>3, <1>4, <1>5, <1>6, <1>7, <1>8, <1>9, <1>10, <1>11, <1>12 DEF Work

(* The steps at which a worker enters a collective, or leaves the sum;     *)
LEMMA PassFlow ==
  ASSUME NEW w \in Workers, AtWork(w), FlowInv(w),
         CountTokens(w) \/ SumTokens(w) \/ Count(w) \/ Forward(w) \/ EnterStep(w)
  PROVE  FlowInv(w)'
<1>1. Still /\ SameWork(w) /\ Passing(pc[w], pc'[w])
  <2>1. CASE CountTokens(w)
    BY <2>1 DEF CountTokens, SameWork, Passing, Entering, Still, driver, AtWork
  <2>2. CASE SumTokens(w)
    BY <2>2 DEF SumTokens, SameWork, Passing, Still, driver, AtWork
  <2>3. CASE Count(w)
    BY <2>3 DEF Count, SameWork, Passing, Entering, Still, driver, AtWork
  <2>4. CASE Forward(w)
    BY <2>4 DEF Forward, SameWork, Passing, Entering, Still, driver, AtWork
  <2>5. CASE EnterStep(w)
    BY <2>5 DEF EnterStep, SameWork, Passing, Entering, Still, driver, AtWork
  <2>. QED  BY <2>1, <2>2, <2>3, <2>4, <2>5
<1>. QED  BY <1>1, EnterFlow

(* every step of a worker.                                                 *)
LEMMA WorkFlow ==
  ASSUME IInv, DataInv, NEW w \in Workers, pc[w] \notin {"idle", "replied"}, Work(w)
  PROVE  FlowInv(w)'
<1>1. AtWork(w) /\ InCall /\ DriverInv /\ ConfigInv /\ ShapeInv
  BY IsAtWork DEF AtWork, IInv
<1>2. /\ FlowInv(w) /\ TokenInv(w) /\ MaxInv(w) /\ OldOK
      /\ w \in DOMAIN out /\ w \in DOMAIN index /\ w \in DOMAIN steps
  BY <1>1 DEF DataInv, OldOK
<1>3. Tot(Turn(w)) \in Nat
  <2>1. Turn(w) \in 1 .. Turns
    BY <1>1, <1>2, SliceIs
  <2>. QED  BY <1>1, <2>1, TotType
<1>4. CASE CountTokens(w) \/ SumTokens(w) \/ Count(w) \/ Forward(w) \/ EnterStep(w)
  BY <1>1, <1>2, <1>4, PassFlow
<1>5. CASE Merge(w) \/ Cut(w)
  <2>1. pc[w] = "merge"
    BY <1>5 DEF Merge, Cut
  <2>2. Passed(w)
    BY <2>1, MergePassed DEF Waiting
  <2>. QED  BY <1>1, <1>2, <1>5, <2>2, MergeFlow, CutFlow
<1>6. CASE Reduce(w) \/ SplitMicro(w) \/ Run(w) \/ Restore(w) \/ OptimizerStep(w)
  BY <1>1, <1>2, <1>3, <1>6, ReduceFlow, SplitMicroFlow, RunFlow, RestoreFlow, OptimizerStepFlow
<1>. QED  BY <1>4, <1>5, <1>6 DEF Work

(* What a worker enters.                                                   *)
LEMMA EntersData ==
  ASSUME NEW w \in Workers, AtWork(w), DriverInv, FlowInv(w),
         CountTokens(w) \/ Count(w) \/ Forward(w) \/ EnterStep(w)
  PROVE  steps' = steps /\ \E r : Enters(w, r) /\ EnteredOf(w, r)
<1>1. Slice(w) = Whole(w)[Turn(w)]
  BY SliceIs
<1>2. PICK r : Enters(w, r)
  BY CountTokensEnters, CountEnters, ForwardEnters
<1>3. ops' = [ops EXCEPT ![w] = Append(@, r)] /\ ops \in [Workers -> Seq(Ops)]
  BY <1>2 DEF Enters, AtWork
<1>4. PICK o \in Seq(Ops) : o = ops[w]
  BY <1>3
<1>5. ops'[w] = Append(o, r) /\ r \in Ops
  BY <1>2, <1>3, <1>4 DEF Enters
<1>6. ASSUME NEW op, NEW n, Enter(w, op, n) PROVE r.n = n
  <2>1. PICK q : q = [op |-> op, n |-> n]
    OBVIOUS
  <2>2. ops'[w] = Append(o, q)
    BY <1>3, <1>4, <1>6, <2>1 DEF Enter
  <2>3. Append(o, q)[Len(o) + 1] = q /\ Append(o, r)[Len(o) + 1] = r
    OBVIOUS
  <2>4. q = r
    BY <1>5, <2>2, <2>3
  <2>. QED  BY <2>1, <2>4
<1>7. CASE CountTokens(w)
  <2>1. pc[w] = "tokens" /\ Enter(w, "sum", TokensOf(Slice(w))) /\ steps' = steps
    BY <1>7 DEF CountTokens
  <2>2. r.n = TokensOf(Slice(w))
    BY <1>6, <2>1
  <2>. QED  BY <1>1, <1>2, <2>1, <2>2 DEF EnteredOf
<1>8. CASE Count(w)
  <2>1. pc[w] = "count" /\ Enter(w, "max", Needed(w)) /\ steps' = steps
    BY <1>8 DEF Count
  <2>2. r.n = NeededOf(Slice(w))
    BY <1>6, <2>1, SliceNames
  <2>. QED  BY <1>1, <1>2, <2>1, <2>2 DEF EnteredOf
<1>9. CASE Forward(w) \/ EnterStep(w)
  BY <1>2, <1>9 DEF Forward, EnterStep, EnteredOf
<1>. QED  BY <1>7, <1>8, <1>9

(* What was entered stays when a worker goes on.                           *)
LEMMA MoveData ==
  ASSUME Still, ops' = ops, NEW w, TokenInv(w), MaxInv(w),
         pc[w] \notin {"tokens", "replied"} \/ pc'[w] = pc[w],
         \/ steps'[w] = steps[w] /\ (pc'[w] \in {"reduce", "merge"} => pc[w] \in {"reduce", "merge"})
         \/ (config.loss = "slqp" => pc'[w] \in {"tokens", "replied"}) /\ pc'[w] \notin {"reduce", "merge"}
  PROVE  TokenInv(w)' /\ MaxInv(w)'
<1>1. Workers' = Workers /\ config' = config
  BY StillSame DEF Still
<1>2. \A v : \A s : /\ TokensOf(Whole(v)[s])' = TokensOf(Whole(v)[s])
                    /\ NeededOf(Whole(v)[s])' = NeededOf(Whole(v)[s])
  <2>1. \A v : Whole(v)' = Whole(v)
    BY StillSame
  <2>2. \A c : TokensOf(c)' = TokensOf(c) /\ NeededOf(c)' = NeededOf(c)
    BY StillSame
  <2>. QED  BY <2>1, <2>2
<1>3. CASE steps'[w] = steps[w] /\ (pc'[w] \in {"reduce", "merge"} => pc[w] \in {"reduce", "merge"})
  <2>1. Turn(w)' = Turn(w)
    BY <1>3 DEF Turn
  <2>2. \A at : SumAt(w, at) => SumAt(w, at)'
    BY <1>1, <1>2, <2>1 DEF SumAt
  <2>3. TokenInv(w)'
    BY <1>1, <2>2 DEF TokenInv
  <2>4. MaxInv(w)'
    BY <1>1, <1>2, <1>3, <2>1 DEF MaxInv
  <2>. QED  BY <2>3, <2>4
<1>4. CASE (config.loss = "slqp" => pc'[w] \in {"tokens", "replied"}) /\ pc'[w] \notin {"reduce", "merge"}
  BY <1>1, <1>4 DEF TokenInv, MaxInv
<1>. QED  BY <1>3, <1>4

(* A worker's step keeps what is known of the others' tokens and sizes,    *)
LEMMA WorkOps ==
  ASSUME IInv, DataInv, InCall, NEW w \in Workers, AtWork(w), Domains, Work(w)
  PROVE  \A u \in Workers : TokenInv(u)' /\ MaxInv(u)'
<1>1. \A v \in Workers : FlowInv(v) /\ TokenInv(v) /\ MaxInv(v)
  BY DEF DataInv
<1>2. Still /\ \A v \in Workers \ {w} : Rests(v)
  BY OthersRest
<1>3. CASE CountTokens(w) \/ Count(w) \/ Forward(w) \/ EnterStep(w)
  <2>1. steps' = steps /\ \E r : Enters(w, r) /\ EnteredOf(w, r)
    BY <1>1, <1>3, EntersData DEF IInv
  <2>. QED  BY <1>1, <2>1, EnterData
<1>4. CASE SumTokens(w) \/ Reduce(w) \/ Merge(w) \/ Cut(w) \/ SplitMicro(w) \/ Run(w)
           \/ Restore(w) \/ OptimizerStep(w)
  <2>1. ops' = ops
    BY <1>4 DEF SumTokens, Reduce, Merge, Cut, SplitMicro, Run, Restore, OptimizerStep, call
  <2>2. ASSUME NEW u \in Workers \ {w} PROVE TokenInv(u)' /\ MaxInv(u)'
    <3>1. pc'[u] = pc[u] /\ steps'[u] = steps[u]
      BY <1>2 DEF Rests
    <3>. QED  BY <1>1, <1>2, <2>1, <3>1, MoveData
  <2>3. pc[w] \notin {"tokens", "replied"}
    BY <1>4 DEF SumTokens, Reduce, Merge, Cut, SplitMicro, Run, Restore, OptimizerStep
  <2>4. CASE OptimizerStep(w)
    <3>1. pc'[w] \in {Begin, "replied"}
      BY <2>4 DEF OptimizerStep, Domains
    <3>2. Begin \notin {"reduce", "merge"} /\ (config.loss = "slqp" => Begin = "tokens")
      BY DEF Begin, Cutting
    <3>. QED  BY <1>1, <1>2, <2>1, <2>2, <2>3, <3>1, <3>2, MoveData
  <2>5. CASE ~OptimizerStep(w)
    <3>1. /\ steps' = steps
          /\ pc'[w] \in {"reduce", "merge"} => pc[w] \in {"reduce", "merge"}
      BY <1>4, <2>5 DEF SumTokens, Cutting, Reduce, Merge, Cut, SplitMicro, Run, Restore, call, Domains
    <3>. QED  BY <1>1, <1>2, <2>1, <2>2, <2>3, <3>1, MoveData
  <2>. QED  BY <2>4, <2>5
<1>. QED  BY <1>3, <1>4 DEF Work

(* and the invariant about rows.                                           *)
LEMMA WorkData ==
  ASSUME IInv, DataInv, NEW w \in Workers, Work(w)
  PROVE  DataInv'
<1>1. pc[w] \notin {"idle", "replied"}
  BY DEF Work, CountTokens, SumTokens, Count, Reduce, Merge, Cut, SplitMicro, Forward, Run,
         Restore, EnterStep, OptimizerStep
<1>2. AtWork(w) /\ InCall
  BY <1>1, IsAtWork DEF AtWork
<1>3. Domains
  BY <1>2 DEF AtWork, DataInv, Domains, Workers
<1>4. /\ Still /\ \A v \in Workers \ {w} : Rests(v)
      /\ DOMAIN index' = Workers /\ DOMAIN out' = Workers /\ DOMAIN steps' = Workers
  BY <1>3, OthersRest
<1>5. config' = config /\ order' = order /\ old' = old /\ phase' = phase
  BY <1>4 DEF Still
<1>6. \A v \in Workers : FlowInv(v)
  BY <1>2 DEF DataInv
<1>7. ASSUME NEW v \in Workers PROVE FlowInv(v)'
  <2>1. CASE v = w
    BY <1>1, <2>1, WorkFlow
  <2>2. CASE v # w
    BY <1>4, <1>6, <2>2, RestsFlow
  <2>. QED  BY <2>1, <2>2
<1>8. \A v \in Workers : TokenInv(v)' /\ MaxInv(v)'
  BY <1>2, <1>3, WorkOps
<1>9. phase = "computing" => \A v \in Workers : steps'[v] = << >>
  <2>1. \A v \in Workers : phase = "computing" => steps'[v] = << >>
    BY <1>5, <1>7 DEF FlowInv, WholeInv
  <2>. QED  BY <2>1
<1>10. /\ Workers' = Workers /\ InCall' = InCall /\ SkipsReplay' = SkipsReplay /\ Rows' = Rows
       /\ phase \in {"computing", "updating"}
  BY <1>2, <1>4, StillSame DEF InCall
<1>. QED  BY <1>4, <1>5, <1>7, <1>8, <1>9, <1>10 DEF DataInv

-----------------------------------------------------------------------------
(* The driver.  The invariant holds at first,                              *)
LEMMA InitData ==
  ASSUME Init
  PROVE  DataInv
<1>1. PICK s \in Shapes, m \in Minis, b \in BOOLEAN, d \in BOOLEAN, l \in {"ppo", "opd", "slqp"} :
        /\ l = "opd" => m = s.rows
        /\ config = [rows |-> s.rows, dp |-> s.dp, sp |-> s.sp, mini |-> m,
                     balance |-> b, dynamic |-> d, loss |-> l]
  BY DEF Init
<1>2. config.loss \in {"ppo", "opd", "slqp"} /\ (config.loss = "opd" => config.mini = config.rows)
  BY <1>1
<1>3. phase = "balance" /\ old = [i \in Rows |-> 0]
  BY DEF Init, Rows
<1>4. old \in [Rows -> Rows \cup {0}]
  BY <1>3
<1>5. /\ DOMAIN out = Workers /\ DOMAIN index = Workers /\ DOMAIN steps = Workers
      /\ \A w \in Workers : steps[w] = << >>
  BY DEF Init
<1>. QED  BY <1>2, <1>3, <1>4, <1>5 DEF DataInv, InCall

(* and outside a call nothing of it changes but the order of the batch and,*)
(* once they have been computed, the old log probs;                        *)
LEMMA IdleData ==
  ASSUME DataInv, config' = config, out' = out, index' = index, steps' = steps,
         phase \notin {"updating", "done"},
         phase' \in {"balancing", "log_prob", "update"},
         old' \in [Rows -> Rows \cup {0}], phase' = "update" => old' = order' \/ SkipsReplay
  PROVE  DataInv'
<1>1. Workers' = Workers /\ Rows' = Rows /\ SkipsReplay' = SkipsReplay
  BY DEF Workers, World, Rows, SkipsReplay
<1>2. ~InCall' /\ phase' \notin {"updating", "done"}
  BY DEF InCall
<1>. QED  BY <1>1, <1>2 DEF DataInv

(* The driver's steps of balancing and of replaying change nothing of a    *)
(* call.                                                                   *)
LEMMA BalanceData ==
  ASSUME DataInv, Balance \/ MergeDriver \/ Reorder \/ (CallLogProb /\ SkipsReplay)
  PROVE  DataInv'
<1>1. /\ config' = config /\ out' = out /\ index' = index /\ steps' = steps /\ old' = old
      /\ phase \in {"balance", "balancing", "log_prob"}
      /\ phase' \in {"balancing", "log_prob", "update"}
      /\ phase' = "update" => SkipsReplay
  BY DEF Balance, MergeDriver, Reorder, CallLogProb, driver, call
<1>2. old \in [Rows -> Rows \cup {0}]
  BY DEF DataInv
<1>. QED  BY <1>1, <1>2, IdleData

-----------------------------------------------------------------------------

(* Quotient and remainder of the next number.                              *)
LEMMA NextDiv ==
  ASSUME NEW x \in Nat, NEW s \in Nat \ {0}
  PROVE  \E q \in Nat : \E e \in 0 .. s - 1 :
           /\ x \div s = q /\ x % s = e /\ x = q * s + e
           /\ (x + 1) \div s = IF e = s - 1 THEN q + 1 ELSE q
           /\ (x + 1) % s = IF e = s - 1 THEN 0 ELSE e + 1
<1>1. PICK q \in Nat, e \in 0 .. s - 1 : q = x \div s /\ e = x % s /\ x = q * s + e
  <2>1. x = s * (x \div s) + (x % s) /\ x \div s \in Nat /\ x % s \in 0 .. s - 1
    OBVIOUS
  <2>. QED  BY <2>1
<1>2. PICK r \in Nat, f \in 0 .. s - 1 : r = (x + 1) \div s /\ f = (x + 1) % s /\ x + 1 = r * s + f
  <2>1. x + 1 = s * ((x + 1) \div s) + ((x + 1) % s) /\ (x + 1) \div s \in Nat /\ (x + 1) % s \in 0 .. s - 1
    OBVIOUS
  <2>. QED  BY <2>1
<1>3. r * s + f = q * s + e + 1
  BY <1>1, <1>2
<1>4. CASE e = s - 1
  <2>1. r * s + f = (q + 1) * s
    BY <1>3, <1>4
  <2>2. ~(r <= q)
    <3>1. r <= q => r * s <= q * s
      OBVIOUS
    <3>2. (q + 1) * s = q * s + s
      OBVIOUS
    <3>. QED  BY <2>1, <3>1, <3>2
  <2>3. ~(r >= q + 2)
    <3>1. r >= q + 2 => r * s >= (q + 2) * s
      OBVIOUS
    <3>2. (q + 2) * s = (q + 1) * s + s
      OBVIOUS
    <3>. QED  BY <2>1, <3>1, <3>2
  <2>4. r = q + 1
    BY ONLY <2>2, <2>3, r \in Nat, q \in Nat
  <2>5. f = 0
    <3>1. PICK z \in Nat : z = (q + 1) * s
      OBVIOUS
    <3>2. z + f = z
      BY ONLY <2>1, <2>4, <3>1
    <3>. QED  BY ONLY <3>2, z \in Nat, f \in 0 .. s - 1
  <2>. QED  BY ONLY <1>1, <1>2, <1>4, <2>4, <2>5, q \in Nat, e \in 0 .. s - 1
<1>5. CASE e # s - 1
  <2>1. ~(r < q)
    <3>1. r < q => r * s + s <= q * s
      <4>1. r < q => (r + 1) * s <= q * s
        OBVIOUS
      <4>2. (r + 1) * s = r * s + s
        OBVIOUS
      <4>. QED  BY <4>1, <4>2
    <3>. QED  BY <1>3, <3>1
  <2>2. ~(r > q)
    <3>1. r > q => q * s + s <= r * s
      <4>1. r > q => (q + 1) * s <= r * s
        OBVIOUS
      <4>2. (q + 1) * s = q * s + s
        OBVIOUS
      <4>. QED  BY <4>1, <4>2
    <3>. QED  BY <1>3, <1>5, <3>1
  <2>3. r = q
    BY ONLY <2>1, <2>2, r \in Nat, q \in Nat
  <2>4. f = e + 1
    <3>1. PICK z \in Nat : z = q * s
      OBVIOUS
    <3>2. z + f = z + e + 1
      BY ONLY <1>3, <2>3, <3>1
    <3>. QED  BY ONLY <3>2, z \in Nat, f \in 0 .. s - 1, e \in 0 .. s - 1, s \in Nat \ {0}
  <2>. QED  BY ONLY <1>1, <1>2, <1>5, <2>3, <2>4, q \in Nat, e \in 0 .. s - 1
<1>. QED  BY <1>1, <1>2, <1>4, <1>5

(* Where the results of a worker come in those of all, when every s-th     *)
(* worker is listened to.                                                  *)
Heard(m, s, a) == IF (m - 1) % s = 0 THEN ((m - 1) \div s) * a ELSE ((m - 1) \div s) * a + a

HeardOf(ss, k, s, a) == \A m \in 1 .. k : Len(ss[m]) = IF (m - 1) % s = 0 THEN a ELSE 0

(* Where the reply of worker m begins, when only the workers that collect  *)
(* are heard.                                                              *)
LEMMA CollectOffsets ==
  ASSUME NEW k \in Nat \ {0}, NEW s \in Nat \ {0}, NEW a \in Nat, NEW ss, NEW off,
         Offsets(off, ss, k), HeardOf(ss, k, s, a)
  PROVE  \A m \in 1 .. k + 1 : off[m] = Heard(m, s, a)
<1>1. off[1] = 0 /\ \A m \in 1 .. k : off[m + 1] = off[m] + Len(ss[m])
  BY DEF Offsets
<1>2. ASSUME NEW m \in 1 .. k, off[m] = Heard(m, s, a) PROVE off[m + 1] = Heard(m + 1, s, a)
  <2>1. PICK x \in Nat : x = m - 1
    OBVIOUS
  <2>2. PICK q \in Nat : \E e \in 0 .. s - 1 :
           /\ x \div s = q /\ x % s = e /\ x = q * s + e
           /\ (x + 1) \div s = IF e = s - 1 THEN q + 1 ELSE q
           /\ (x + 1) % s = IF e = s - 1 THEN 0 ELSE e + 1
    BY NextDiv
  <2>3. PICK e \in 0 .. s - 1 :
           /\ x \div s = q /\ x % s = e
           /\ (x + 1) \div s = IF e = s - 1 THEN q + 1 ELSE q
           /\ (x + 1) % s = IF e = s - 1 THEN 0 ELSE e + 1
    BY <2>2
  <2>4. (m + 1) - 1 = x + 1
    BY <2>1
  <2>5. PICK g \in Nat : g = q * a /\ (q + 1) * a = g + a
    OBVIOUS
  <2>6. off[m] = IF e = 0 THEN g ELSE g + a
    BY <1>2, <2>1, <2>3, <2>5 DEF Heard
  <2>7. Len(ss[m]) = IF e = 0 THEN a ELSE 0
    BY <2>1, <2>3 DEF HeardOf
  <2>8. off[m + 1] = g + a
    BY <1>1, <2>5, <2>6, <2>7
  <2>9. Heard(m + 1, s, a) = g + a
    <3>1. CASE e = s - 1
      BY <2>3, <2>4, <2>5, <3>1 DEF Heard
    <3>2. CASE e # s - 1
      <4>1. (x + 1) % s = e + 1 /\ (x + 1) \div s = q /\ e + 1 # 0
        BY <2>3, <3>2
      <4>. QED  BY <2>4, <2>5, <4>1 DEF Heard
    <3>. QED  BY <3>1, <3>2
  <2>. QED  BY <2>8, <2>9
<1>3. off[1] = Heard(1, s, a)
  <2>1. 0 % s = 0 /\ 0 \div s = 0
    OBVIOUS
  <2>2. 1 - 1 = 0 /\ 0 * a = 0
    OBVIOUS
  <2>. QED  BY <1>1, <2>1, <2>2 DEF Heard
<1>. DEFINE Bad == {m \in Nat : m \in 1 .. k + 1 /\ ~(off[m] = Heard(m, s, a))}
<1>4. ASSUME Bad # {} PROVE FALSE
  <2>1. PICK m \in Bad : \A y \in Bad : m <= y
    <3>1. Bad \in SUBSET Nat
      OBVIOUS
    <3>. HIDE DEF Bad
    <3>. QED  BY <1>4, <3>1, LeastNat
  <2>2. m # 1 /\ m \in 1 .. k + 1
    BY <1>3
  <2>3. PICK l \in 1 .. k : m = l + 1
    <3>1. m - 1 \in 1 .. k /\ m = (m - 1) + 1
      BY <2>2
    <3>. QED  BY <3>1
  <2>4. l \notin Bad
    BY <2>1, <2>3
  <2>5. off[l] = Heard(l, s, a)
    BY <2>4
  <2>6. off[m] = Heard(m, s, a)
    BY <1>2, <2>3, <2>5
  <2>. QED  BY <2>1, <2>6
<1>. QED  BY <1>4

(* The results of the workers that are listened to, one after the other,   *)
(* are those of the batch.                                                 *)
LEMMA Collected ==
  ASSUME ConfigInv, DriverInv, NEW ss,
         ss = [w \in Workers |-> IF IsCollect(w) THEN out[w] ELSE << >>],
         \A w \in Workers : out[w] = [i \in 1 .. Size |-> order[DpRank(w) * Size + i]]
  PROVE  FlattenSeq(ss) = order
<1>1. PICK n \in Nat \ {0}, d \in Nat \ {0}, s \in Nat \ {0} :
        n = config.rows /\ d = config.dp /\ s = config.sp /\ Rows = 1 .. n
  BY DEF ConfigInv, Rows
<1>2. PICK k \in Nat \ {0}, a \in Nat \ {0} :
        /\ k = World /\ k = d * s /\ a = Size /\ n = d * a /\ Workers = 1 .. k
        /\ \A w \in 1 .. k : DpRank(w) \in Nat /\ \A i \in 1 .. a : DpRank(w) * a + i \in Rows
  <2>1. World = d * s /\ World \in Nat \ {0} /\ Size \in Nat \ {0}
    BY <1>1, Numbers DEF World
  <2>2. n % (d * s) = 0
    BY <1>1, <2>1 DEF ConfigInv
  <2>3. PICK q \in Nat : n = (d * s) * q
    <3>1. n = (d * s) * (n \div (d * s)) /\ n \div (d * s) \in Nat
      BY <2>1, <2>2
    <3>. QED  BY <3>1
  <2>4. PICK z \in Nat : z = s * q /\ n = d * z
    <3>1. n = d * (s * q) /\ s * q \in Nat
      BY <2>3
    <3>. QED  BY <3>1
  <2>5. n \div d = z
    BY <2>4
  <2>6. n = d * Size /\ Workers = 1 .. World
    BY <1>1, <2>4, <2>5 DEF Workers, Size
  <2>7. \A w \in Workers : DpRank(w) \in Nat /\ \A i \in 1 .. Size : DpRank(w) * Size + i \in Rows
    BY Numbers
  <2>. QED  BY <2>1, <2>6, <2>7
<1>3. order \in [1 .. n -> 1 .. n]
  BY <1>1 DEF DriverInv, Bijection, Injection
<1>3a. ASSUME NEW w \in 1 .. k
      PROVE  (IsCollect(w) <=> (w - 1) % s = 0) /\ DpRank(w) = (w - 1) \div s
  BY <1>1 DEF IsCollect, DpRank
<1>4. ASSUME NEW w \in 1 .. k
      PROVE  /\ ss[w] \in Seq(1 .. n) /\ Len(ss[w]) = IF IsCollect(w) THEN a ELSE 0
             /\ IsCollect(w) => \A i \in 1 .. a : ss[w][i] = order[DpRank(w) * a + i]
  <2>1. ss[w] = IF IsCollect(w) THEN out[w] ELSE << >>
    BY <1>2
  <2>2. PICK f : f = [i \in 1 .. a |-> order[DpRank(w) * a + i]]
    OBVIOUS
  <2>3. out[w] = f
    BY <1>2, <2>2
  <2>4. f \in [1 .. a -> 1 .. n]
    BY <1>1, <1>2, <1>3, <2>2
  <2>5. f \in Seq(1 .. n) /\ Len(f) = a
    BY <2>4
  <2>6. \A i \in 1 .. a : f[i] = order[DpRank(w) * a + i]
    BY <2>2
  <2>7. << >> \in Seq(1 .. n) /\ Len(<< >>) = 0
    OBVIOUS
  <2>8. CASE IsCollect(w)
    BY ONLY <2>1, <2>3, <2>5, <2>6, <2>8
  <2>9. CASE ~IsCollect(w)
    BY ONLY <2>1, <2>7, <2>9
  <2>. QED  BY <2>8, <2>9
<1>5. Len(ss) = k
  BY <1>2
<1>6. PICK off : Offsets(off, ss, k) /\ FlatAt(FlattenSeq(ss), ss, 1 .. n, k, off)
  BY <1>4, <1>5, FlattenAt
<1>7. PICK r : r = FlattenSeq(ss)
  OBVIOUS
<1>8. \A m \in 1 .. k + 1 : off[m] = Heard(m, s, a)
  <2>1. HeardOf(ss, k, s, a)
    BY <1>3a, <1>4 DEF HeardOf
  <2>2. Offsets(off, ss, k) /\ a \in Nat
    BY <1>6
  <2>. QED  BY <2>1, <2>2, CollectOffsets
<1>9. off[k + 1] = n
  <2>1. (k + 1) - 1 = d * s /\ k + 1 \in 1 .. k + 1
    BY <1>2
  <2>2. (d * s) % s = 0 /\ (d * s) \div s = d
    OBVIOUS
  <2>. QED  BY <1>2, <1>8, <2>1, <2>2 DEF Heard
<1>10. r \in [1 .. n -> 1 .. n]
  <2>1. r \in Seq(1 .. n) /\ Len(r) = n
    BY <1>6, <1>7, <1>9 DEF FlatAt
  <2>. QED  BY <2>1
<1>11. ASSUME NEW p \in 1 .. n PROVE r[p] = order[p]
  <2>0. p \in 1 .. off[k + 1] /\ k \in Nat
    BY <1>9
  <2>1. PICK m \in 1 .. k : \E i \in 1 .. Len(ss[m]) : p = off[m] + i
    <3>1. Offsets(off, ss, k)
      BY <1>6
    <3>. QED  BY ONLY <3>1, <2>0, OffsetsPlace
  <2>2. PICK i \in 1 .. Len(ss[m]) : p = off[m] + i
    BY <2>1
  <2>3. r[p] = ss[m][i]
    BY <1>6, <1>7, <2>2 DEF FlatAt
  <2>4. IsCollect(m) /\ i \in 1 .. a
    <3>1. Len(ss[m]) = IF IsCollect(m) THEN a ELSE 0
      BY <1>4
    <3>2. i \in 1 .. Len(ss[m])
      OBVIOUS
    <3>. QED  BY ONLY <3>1, <3>2
  <2>5. off[m] = DpRank(m) * a
    <3>1. m \in 1 .. k + 1
      OBVIOUS
    <3>2. off[m] = Heard(m, s, a) /\ (m - 1) \div s = DpRank(m) /\ (m - 1) % s = 0
      BY <1>3a, <1>8, <2>4, <3>1
    <3>. QED  BY ONLY <3>2 DEF Heard
  <2>. QED  BY <1>4, <2>2, <2>3, <2>4, <2>5
<1>. QED  BY <1>3, <1>7, <1>10, <1>11

(* Collecting the replies keeps the invariant about rows,                  *)
LEMMA CollectData ==
  ASSUME IInv, DataInv, Collect
  PROVE  DataInv'
<1>1. /\ config' = config /\ out' = out /\ index' = index /\ steps' = steps /\ order' = order
      /\ phase = "computing" /\ phase' = "update" /\ AllReplied
  BY DEF Collect, call
<1>2. \A w \in Workers : out[w] = [i \in 1 .. Size |-> order[DpRank(w) * Size + i]]
  BY <1>1 DEF DataInv, InCall, FlowInv, ReplyInv, AllReplied
<1>3. PICK ss : ss = [w \in Workers |-> IF IsCollect(w) THEN out[w] ELSE << >>]
  OBVIOUS
<1>4. ConfigInv /\ DriverInv
  BY DEF IInv
<1>5. old' = order
  <2>1. FlattenSeq(ss) = order
    BY <1>2, <1>3, <1>4, Collected
  <2>. QED  BY <1>3, <2>1 DEF Collect
<1>6. old' \in [Rows -> Rows \cup {0}]
  BY <1>4, <1>5 DEF DriverInv, Bijection, Injection
<1>. QED  BY <1>1, <1>5, <1>6, IdleData

-----------------------------------------------------------------------------
(* a call begins with nothing done;                                        *)
LEMMA DispatchData ==
  ASSUME DataInv, IInv', NEW work, Dispatch(work), phase \in {"log_prob", "update"},
         phase' \in {"computing", "updating"}, DOMAIN work = Workers,
         \A w \in Workers : work[w] = Whole(w)',
         phase' = "computing" => config.loss # "slqp",
         phase' = "updating" => old = order \/ SkipsReplay
  PROVE  DataInv'
<1>1. /\ config' = config /\ order' = order /\ old' = old /\ slices' = work
      /\ pc' = [w \in Workers |-> Begin] /\ out' = [w \in Workers |-> << >>]
      /\ index' = index /\ steps' = steps
  BY DEF Dispatch
<1>2. Workers' = Workers /\ Rows' = Rows /\ SkipsReplay' = SkipsReplay
  BY <1>1 DEF Workers, World, Rows, SkipsReplay
<1>3. /\ old \in [Rows -> Rows \cup {0}]
      /\ DOMAIN out' = Workers /\ DOMAIN index' = Workers
      /\ DOMAIN steps' = Workers /\ \A w \in Workers : steps'[w] = << >>
      /\ config'.loss \in {"ppo", "opd", "slqp"}
      /\ config'.loss = "opd" => config'.mini = config'.rows
      /\ phase' = "updating" => old' = order' \/ SkipsReplay'
  <2>5. \A w \in Workers : steps[w] = << >>
    BY DEF DataInv
  <2>1. /\ old \in [Rows -> Rows \cup {0}] /\ DOMAIN index = Workers /\ DOMAIN steps = Workers
        /\ config.loss \in {"ppo", "opd", "slqp"}
        /\ config.loss = "opd" => config.mini = config.rows
    BY DEF DataInv
  <2>2. phase' = "updating" => old' = order' \/ SkipsReplay'
    BY <1>1, <1>2
  <2>3. DOMAIN out' = Workers /\ DOMAIN index' = Workers /\ DOMAIN steps' = Workers
    BY <1>1, <2>1
  <2>4. \A w \in Workers : steps'[w] = << >>
    BY <1>1, <2>5
  <2>. QED  BY <1>1, <2>1, <2>2, <2>3, <2>4
<1>4. InCall' /\ phase' # "done"
  BY DEF InCall
<1>5. ASSUME NEW w \in Workers
      PROVE  /\ pc'[w] = Begin /\ Begin \in {"tokens", "count", "split"}
             /\ Begin = "tokens" <=> config.loss = "slqp"
             /\ Begin = "count" => config.dynamic
             /\ Begin = "split" => ~config.dynamic
  BY <1>1 DEF Begin, Cutting
<1>6. ASSUME NEW w \in Workers PROVE FlowInv(w)'
  <2>1. steps'[w] = << >> /\ out'[w] = << >> /\ slices'[w] = work[w] /\ work[w] = Whole(w)'
    BY <1>1, <1>3
  <2>2. steps'[w] \in Seq(SUBSET Used)' /\ out'[w] \in Seq(Product)'
    BY <2>1
  <2>3. PICK s \in Seq(Seq(Rec))' : s = slices'[w]
    BY <1>2, <1>4 DEF IInv, CallInv, WorkerInv, SliceInv, Filled
  <2>4. Len(s) \in Nat /\ Len(<< >>) = 0 /\ \A i \in 1 .. Len(s) : 0 + i = i
    OBVIOUS
  <2>5. WholeInv(w)'
    <3>1. Len(steps'[w]) = 0 /\ Whole(w)' = s
      BY <2>1, <2>3
    <3>2. Len(steps'[w]) + Len(slices'[w]) = Len(Whole(w)')
      BY <2>3, <2>4, <3>1
    <3>3. \A i \in 1 .. Len(slices'[w]) : slices'[w][i] = (Whole(w)')[Len(steps'[w]) + i]
      BY <2>3, <2>4, <3>1
    <3>. QED  BY <2>1, <3>1, <3>2, <3>3 DEF WholeInv
  <2>6. PlaceInv(w)'
    BY <1>1, <1>5 DEF PlaceInv
  <2>7. ReplyInv(w)' /\ RunInv(w)' /\ pc'[w] # "merge"
    BY <1>5 DEF ReplyInv, RunInv, Running
  <2>. QED  BY <2>1, <2>2, <2>5, <2>6, <2>7 DEF FlowInv
<1>7. \A w \in Workers : TokenInv(w)' /\ MaxInv(w)'
  BY <1>1, <1>5 DEF TokenInv, MaxInv
<1>. QED  BY <1>1, <1>2, <1>3, <1>4, <1>6, <1>7 DEF DataInv

(* and so does calling the workers.                                        *)
LEMMA CallData ==
  ASSUME IInv, DataInv, CallLogProb \/ CallUpdate
  PROVE  DataInv'
<1>1. CASE CallLogProb /\ SkipsReplay
  BY <1>1, BalanceData
<1>2. CASE CallLogProb /\ ~SkipsReplay
  <2>1. PICK work : work = [w \in Workers |-> <<Chunk(w)>>]
    OBVIOUS
  <2>2. Dispatch(work) /\ phase' = "computing" /\ phase = "log_prob"
    BY <1>2, <2>1 DEF CallLogProb
  <2>3. config' = config /\ order' = order /\ old' = old
    BY <2>2 DEF Dispatch
  <2>4. \A w \in Workers : Chunk(w)' = Chunk(w)
    BY <2>3 DEF Chunk, DpRank
  <2>5. \A w \in Workers : work[w] = Whole(w)'
    BY <2>1, <2>2, <2>4 DEF Whole
  <2>6. config.loss # "slqp" /\ DOMAIN work = Workers
    BY <1>2, <2>1 DEF SkipsReplay
  <2>7. IInv'
    BY CallKeeps
  <2>. QED  BY <2>2, <2>5, <2>6, <2>7, DispatchData
<1>3. CASE CallUpdate
  <2>1. PICK work : work = [w \in Workers |-> Split(Chunk(w), Mini)]
    OBVIOUS
  <2>2. Dispatch(work) /\ phase' = "updating" /\ phase = "update"
    BY <1>3, <2>1 DEF CallUpdate
  <2>3. config' = config /\ order' = order /\ old' = old
    BY <2>2 DEF Dispatch
  <2>4. Mini' = Mini /\ \A w \in Workers : Chunk(w)' = Chunk(w)
    BY <2>3 DEF Chunk, DpRank, Mini
  <2>5. \A w \in Workers : work[w] = Whole(w)'
    BY <2>1, <2>2, <2>4 DEF Whole
  <2>6. (old = order \/ SkipsReplay) /\ DOMAIN work = Workers
    BY <2>1, <2>2 DEF DataInv
  <2>7. IInv'
    BY CallKeeps
  <2>. QED  BY <2>2, <2>5, <2>6, <2>7, DispatchData
<1>. QED  BY <1>1, <1>2, <1>3

(* and at the end of the update everything is done.                        *)
LEMMA FinishData ==
  ASSUME DataInv, Finish
  PROVE  DataInv'
<1>1. /\ config' = config /\ len' = len /\ order' = order /\ old' = old
      /\ pc' = pc /\ slices' = slices /\ out' = out /\ steps' = steps /\ index' = index
      /\ phase = "updating" /\ phase' = "done" /\ AllReplied
  BY DEF Finish, call
<1>2. /\ Workers' = Workers /\ Rows' = Rows /\ SkipsReplay' = SkipsReplay
      /\ Used' = Used /\ Product' = Product
      /\ \A w : Whole(w)' = Whole(w)
      /\ \A S, c, s : StepOf(S, c, s)' = StepOf(S, c, s)
  BY <1>1, SameBatch
<1>3. ASSUME NEW w \in Workers PROVE FlowInv(w)'
  <2>1. FlowInv(w) /\ pc[w] = "replied"
    BY <1>1 DEF DataInv, InCall, AllReplied
  <2>2. WholeInv(w)'
    <3>1. WholeInv(w)
      BY <2>1 DEF FlowInv
    <3>2. \A s \in 1 .. Len(steps[w]) : StepOf(steps[w][s], Whole(w)[s], s)'
      <4>1. \A S, c, s : StepOf(S, c, s)' = StepOf(S, c, s)
        BY <1>2
      <4>2. Whole(w)' = Whole(w)
        BY <1>2
      <4>. QED  BY <1>1, <3>1, <4>1, <4>2 DEF WholeInv
    <3>3. \A s \in 1 .. Len(steps'[w]) : StepOf(steps[w][s], Whole(w)[s], s)'
      BY <1>1, <3>2
    <3>. QED  BY <1>1, <1>2, <3>1, <3>3 DEF WholeInv
  <2>3. ReplyInv(w)'
    BY <1>1, <2>1 DEF FlowInv, ReplyInv
  <2>4. PlaceInv(w)' /\ RunInv(w)' /\ pc'[w] \notin AtStart /\ pc'[w] # "merge"
    BY <1>1, <2>1 DEF PlaceInv, RunInv, Running, AtStart
  <2>5. steps'[w] \in Seq(SUBSET Used)' /\ out'[w] \in Seq(Product)'
    BY <1>1, <1>2, <2>1 DEF FlowInv
  <2>. QED  BY <2>2, <2>3, <2>4, <2>5 DEF FlowInv
<1>4. ~InCall' /\ AllReplied'
  BY <1>1, <1>2 DEF InCall, AllReplied
<1>. QED  BY <1>1, <1>2, <1>3, <1>4 DEF DataInv

(* It is an invariant.                                                     *)
LEMMA SpecData == Spec => [](IInv /\ DataInv)
<1>1. ASSUME DataInv, UNCHANGED vars PROVE DataInv'
  <2>1. Still /\ pc' = pc /\ slices' = slices /\ ops' = ops /\ micros' = micros
        /\ index' = index /\ out' = out /\ steps' = steps /\ heap' = heap
    BY <1>1 DEF vars, driver, call, Still
  <2>2. /\ Workers' = Workers /\ Rows' = Rows /\ SkipsReplay' = SkipsReplay /\ InCall' = InCall
    BY <2>1, StillSame
  <2>3. config' = config /\ phase' = phase /\ old' = old /\ order' = order
    BY <2>1 DEF Still
  <2>4. InCall \/ phase = "done" => \A w \in Workers : FlowInv(w)'
    <3>1. ASSUME NEW w \in Workers, FlowInv(w) PROVE FlowInv(w)'
      <4>1. Rests(w)
        BY <2>1 DEF Rests
      <4>. QED  BY <2>1, <3>1, <4>1, RestsFlow
    <3>. QED  BY <1>1, <3>1 DEF DataInv
  <2>5. InCall => \A w \in Workers : TokenInv(w)' /\ MaxInv(w)'
    <3>1. ASSUME NEW w \in Workers, TokenInv(w), MaxInv(w) PROVE TokenInv(w)' /\ MaxInv(w)'
      BY <2>1, <3>1, MoveData
    <3>. QED  BY <1>1, <3>1 DEF DataInv
  <2>6. AllReplied' <=> AllReplied
    BY <2>1, <2>2 DEF AllReplied
  <2>. QED  BY <1>1, <2>1, <2>2, <2>3, <2>4, <2>5, <2>6 DEF DataInv
<1>2. ASSUME IInv, DataInv, [Next]_vars PROVE DataInv'
  <2>1. CASE UNCHANGED vars
    BY <1>1, <1>2, <2>1
  <2>2. CASE Done
    BY <1>1, <1>2, <2>2 DEF Done
  <2>3. CASE Drive
    <3>1. CASE Balance \/ MergeDriver \/ Reorder
      BY <1>2, <3>1, BalanceData
    <3>2. CASE CallLogProb \/ CallUpdate
      BY <1>2, <3>2, CallData
    <3>3. CASE Collect
      BY <1>2, <3>3, CollectData
    <3>4. CASE Finish
      BY <1>2, <3>4, FinishData
    <3>. QED  BY <2>3, <3>1, <3>2, <3>3, <3>4 DEF Drive
  <2>4. CASE \E w \in Workers : Work(w)
    BY <1>2, <2>4, WorkData
  <2>. QED  BY <1>2, <2>1, <2>2, <2>3, <2>4 DEF Next
<1>3. IInv /\ DataInv /\ [Next]_vars => DataInv'
  BY <1>2
<1>. QED  BY <1>3, InitData, SpecIInv, PTL DEF Spec

-----------------------------------------------------------------------------
(* An optimizer step has what every row of its slice yields, and nothing   *)
(* else;                                                                   *)
Holding(r) == {micro \in Seq(Rec) : \E j \in 1 .. Len(micro) : micro[j] = r}
StepHas(S, c, s) ==
  /\ \A x \in S : \E i \in 1 .. Len(c) : \E micro \in Holding(c[i]) : x = Made(c[i], micro, Tot(s))
  /\ \A i \in 1 .. Len(c) : \E micro \in Holding(c[i]) : Made(c[i], micro, Tot(s)) \in S

(* The rows of a step are those of the slice it was made of.               *)
LEMMA StepRows ==
  ASSUME NEW S, NEW c \in Seq(Rec), NEW s, StepOf(S, c, s)
  PROVE  StepHas(S, c, s)
<1>1. PICK M \in Seq(Seq(Rec)) : (\E ix : \E off : CutOf(M, ix, off, c)) /\ Yielded(S, M, Tot(s))
  BY DEF StepOf
<1>2. PICK ix : \E off : CutOf(M, ix, off, c)
  BY <1>1
<1>3. PICK off : CutOf(M, ix, off, c)
  BY <1>2
<1>4. PICK k \in Nat : k = Len(M) /\ Offsets(off, M, k) /\ off[k + 1] = Len(c)
  BY <1>3 DEF CutOf
<1>5. PICK l \in Nat : l = Len(c)
  OBVIOUS
<1>6. ix \in Bijection(1 .. l, 1 .. l)
  BY <1>3, <1>5 DEF CutOf
<1>7. \A m \in 1 .. k : M[m] \in Seq(Rec)
  BY <1>4
<1>8. ASSUME NEW m \in 1 .. k, NEW i \in 1 .. Len(M[m])
      PROVE  off[m] + i \in 1 .. l /\ ix[off[m] + i] \in 1 .. l /\ M[m][i] = c[ix[off[m] + i]]
  <2>1. off[m] + i \in 1 .. l
    BY <1>4, <1>5, OffsetsApart
  <2>2. ix[off[m] + i] \in 1 .. l
    BY <1>6, <2>1 DEF Bijection, Injection
  <2>. QED  BY <1>3, <1>4, <2>1, <2>2 DEF CutOf
<1>9. ASSUME NEW x \in S
      PROVE  \E i \in 1 .. l : \E micro \in Holding(c[i]) : x = Made(c[i], micro, Tot(s))
  <2>1. PICK m \in 1 .. k : \E i \in 1 .. Len(M[m]) : x = Made(M[m][i], M[m], Tot(s))
    BY <1>1, <1>4 DEF Yielded
  <2>2. PICK i \in 1 .. Len(M[m]) : x = Made(M[m][i], M[m], Tot(s))
    BY <2>1
  <2>3. M[m][i] = c[ix[off[m] + i]] /\ ix[off[m] + i] \in 1 .. l
    BY <1>8
  <2>4. M[m] \in Holding(M[m][i])
    BY <1>7 DEF Holding
  <2>. QED  BY <2>2, <2>3, <2>4
<1>10. ASSUME NEW j \in 1 .. l PROVE \E micro \in Holding(c[j]) : Made(c[j], micro, Tot(s)) \in S
  <2>1. PICK p \in 1 .. l : ix[p] = j
    BY <1>6 DEF Bijection, Surjection
  <2>2. p \in 1 .. off[k + 1] /\ k \in Nat
    BY <1>4, <1>5
  <2>3. PICK m \in 1 .. k : \E i \in 1 .. Len(M[m]) : p = off[m] + i
    <3>1. Offsets(off, M, k)
      BY <1>4
    <3>. QED  BY <2>2, <3>1, OffsetsPlace
  <2>4. PICK i \in 1 .. Len(M[m]) : p = off[m] + i
    BY <2>3
  <2>5. M[m][i] = c[j]
    BY <1>8, <2>1, <2>4
  <2>6. Made(M[m][i], M[m], Tot(s)) \in S
    BY <1>1, <1>4 DEF Yielded
  <2>7. M[m] \in Holding(M[m][i])
    BY <1>7 DEF Holding
  <2>. QED  BY <2>5, <2>6, <2>7
<1>. QED  BY <1>5, <1>9, <1>10 DEF StepHas

(* and a row of a slice is a row of the chunk.                             *)
LEMMA RowOfChunk ==
  ASSUME ConfigInv, DriverInv, NEW w \in Workers, NEW s \in 1 .. Turns,
         NEW i \in 1 .. Len(Whole(w)[s])
  PROVE  /\ Whole(w)[s] \in Seq(Rec)
         /\ \E p \in 1 .. Size : Whole(w)[s][i] = [id |-> order[DpRank(w) * Size + p],
                                                   old |-> old[DpRank(w) * Size + p]]
<1>1. PICK k \in Nat : k = Turns /\ WholeOf(Whole(w), Chunk(w), k)
  BY Wholes
<1>2. PICK r \in Seq(Seq(Rec)) : r = Whole(w) /\ Len(r) = k
  BY <1>1 DEF WholeOf
<1>3. PICK off : Pieces(r, Chunk(w), k, off)
  BY <1>1, <1>2 DEF WholeOf
<1>4. s \in 1 .. k /\ i \in 1 .. Len(r[s]) /\ r[s] \in Seq(Rec)
  BY <1>1, <1>2
<1>5. Offsets(off, r, k) /\ off[k + 1] = Len(Chunk(w)) /\ Len(Chunk(w)) = Size
  BY <1>3, Chunks DEF Pieces, ChunkOf
<1>6. off[s] + i \in 1 .. Size
  <2>1. off[s] + i \in 1 .. off[k + 1]
    BY <1>4, <1>5, OffsetsApart
  <2>. QED  BY <1>5, <2>1
<1>7. r[s][i] = Chunk(w)[off[s] + i]
  BY <1>3, <1>4 DEF Pieces
<1>8. Chunk(w)[off[s] + i] = [id |-> order[DpRank(w) * Size + (off[s] + i)],
                              old |-> old[DpRank(w) * Size + (off[s] + i)]]
  BY <1>6 DEF Chunk, Size
<1>. QED  BY <1>2, <1>4, <1>6, <1>7, <1>8

(* What a worker has done of an update.                                    *)
LEMMA StepsDone ==
  ASSUME IInv, DataInv, NEW w \in Workers, NEW s \in DOMAIN steps[w]
  PROVE  /\ phase \in {"updating", "done"} /\ s \in 1 .. Turns /\ s \in 1 .. Len(steps[w])
         /\ Whole(w)[s] \in Seq(Rec) /\ StepHas(steps[w][s], Whole(w)[s], s)
<1>1. phase \in {"updating", "done"}
  <2>1. phase \notin {"updating", "done"} => DOMAIN steps[w] = {}
    BY DEF DataInv
  <2>. QED  BY <2>1
<1>2. FlowInv(w) /\ ConfigInv /\ DriverInv
  BY <1>1 DEF DataInv, InCall, IInv
<1>3. PICK f \in Seq(SUBSET Used) : f = steps[w]
  BY <1>2 DEF FlowInv
<1>4. PICK k \in Nat : k = Turns /\ WholeOf(Whole(w), Chunk(w), k)
  BY <1>2, Wholes
<1>5. PICK r \in Seq(Seq(Rec)) : r = Whole(w) /\ Len(r) = k
  BY <1>4 DEF WholeOf
<1>6. Len(f) <= k
  <2>1. Len(slices[w]) \in Nat
    <3>1. Len(f) + Len(slices[w]) = Len(r)
      BY <1>2, <1>3, <1>5 DEF FlowInv, WholeInv
    <3>2. slices[w] = << >> \/ InCall
      BY <1>1, <1>2 DEF DataInv, AllReplied, FlowInv, ReplyInv, InCall
    <3>3. InCall => slices[w] \in Seq(Seq(Rec))
      BY DEF IInv, CallInv, WorkerInv, SliceInv, Filled
    <3>. QED  BY <3>2, <3>3
  <2>2. Len(f) + Len(slices[w]) = k
    BY <1>2, <1>3, <1>5 DEF FlowInv, WholeInv
  <2>. QED  BY <2>1, <2>2
<1>7. s \in 1 .. Len(f) /\ s \in 1 .. k
  BY <1>3, <1>6
<1>8. r[s] \in Seq(Rec)
  BY <1>5, <1>7
<1>9. StepOf(steps[w][s], Whole(w)[s], s)
  <2>1. s \in 1 .. Len(steps[w])
    BY <1>3, <1>7
  <2>. QED  BY <1>2, <2>1 DEF FlowInv, WholeInv
<1>10. StepHas(steps[w][s], Whole(w)[s], s)
  BY <1>5, <1>8, <1>9, StepRows
<1>. QED  BY <1>1, <1>3, <1>4, <1>5, <1>7, <1>8, <1>10

(* Through balancing, chunks, micro-batches, restore_dynamic_batch and the *)
(* collection every result stays with its row: the old log prob an update  *)
(* compares a row with is the row's own.                                   *)
THEOREM SpecAligned == Spec => []Aligned
<1>1. ASSUME IInv, DataInv, config.loss # "slqp", NEW w \in Workers, NEW s \in DOMAIN steps[w],
             NEW x \in steps[w][s]
      PROVE  x.old = x.id
  <2>1. /\ phase \in {"updating", "done"} /\ s \in 1 .. Turns
        /\ Whole(w)[s] \in Seq(Rec) /\ StepHas(steps[w][s], Whole(w)[s], s)
    BY <1>1, StepsDone
  <2>2. PICK i \in 1 .. Len(Whole(w)[s]) :
          \E micro \in Holding(Whole(w)[s][i]) : x = Made(Whole(w)[s][i], micro, Tot(s))
    BY <2>1 DEF StepHas
  <2>3. PICK r : r = Whole(w)[s][i]
    OBVIOUS
  <2>4. x = [id |-> r.id, old |-> IF OnPolicy THEN r.id ELSE r.old]
    BY <1>1, <2>1, <2>2, <2>3 DEF Made
  <2>5. CASE OnPolicy
    BY <2>4, <2>5
  <2>6. CASE ~OnPolicy
    <3>1. ~SkipsReplay
      <4>1. config.loss = "opd" /\ config.mini = config.rows => OnPolicy
        <5>1. PICK n \in Nat \ {0}, d \in Nat \ {0}, p \in Nat \ {0} :
                n = config.rows /\ d = config.dp /\ p = config.sp /\ n % (d * p) = 0
          BY <1>1 DEF IInv, ConfigInv, World
        <5>2. PICK q \in Nat : n = (d * p) * q
          <6>1. d * p \in Nat \ {0}
            OBVIOUS
          <6>2. n = (d * p) * (n \div (d * p)) /\ n \div (d * p) \in Nat
            BY <5>1, <6>1
          <6>. QED  BY <6>2
        <5>3. PICK a \in Nat : a = p * q /\ n = d * a
          <6>1. n = d * (p * q) /\ p * q \in Nat
            BY <5>2
          <6>. QED  BY <6>1
        <5>4. n \div d = a /\ a * d = n
          BY <5>3
        <5>. QED  BY <5>1, <5>4 DEF OnPolicy, Mini
      <4>. QED  BY <1>1, <2>6, <4>1 DEF SkipsReplay
    <3>2. old = order
      BY <1>1, <2>1, <3>1 DEF DataInv
    <3>3. PICK p \in 1 .. Size : r = [id |-> order[DpRank(w) * Size + p],
                                      old |-> old[DpRank(w) * Size + p]]
      BY <1>1, <2>1, <2>3, RowOfChunk DEF IInv
    <3>4. r.old = r.id
      BY <3>2, <3>3
    <3>. QED  BY <2>4, <2>6, <3>4
  <2>. QED  BY <2>5, <2>6
<1>2. IInv /\ DataInv => Aligned
  BY <1>1 DEF Aligned, DataInv
<1>. QED  BY <1>2, SpecData, PTL

-----------------------------------------------------------------------------
(* Among sets of a finite set, of which some are bad, one is with nothing  *)
(* bad below it.                                                           *)
LEMMA LeastSet ==
  ASSUME NEW S, IsFiniteSet(S), NEW Bad \in SUBSET (SUBSET S), Bad # {}
  PROVE  \E s \in Bad : \A t \in Bad : ~(t \subseteq s /\ t # s)
<1>1. IsWellFoundedOn(StrictSubsetOrdering(S), SUBSET S)
  BY FS_StrictSubsetOrderingWellFounded, FS_FiniteSubsetsOfFinite
<1>2. PICK s \in Bad : \A t \in Bad : ~(<<t, s>> \in StrictSubsetOrdering(S))
  BY <1>1, WFMin
<1>3. \A t \in Bad : t \subseteq s /\ t # s => <<t, s>> \in StrictSubsetOrdering(S)
  BY DEF StrictSubsetOrdering
<1>4. \A t \in Bad : ~(t \subseteq s /\ t # s)
  BY ONLY <1>2, <1>3
<1>. QED  BY ONLY <1>4

(* A sum is one element and the sum of the others,                         *)
LEMMA TotalFirst ==
  ASSUME NEW S, IsFiniteSet(S), NEW f
  PROVE  Total(S, f) = IF S = {} THEN 0 ELSE f[First(S)] + Total(S \ {First(S)}, f)
<1>1. PICK g : Total(S, f) = g[S] /\ Sums(S, f, g)
  BY TotalSteps
<1>2. ASSUME NEW s \in SUBSET S PROVE Total(s, f) = g[s]
  <2>1. IsFiniteSet(s)
    BY FS_Subset
  <2>2. PICK h : Total(s, f) = h[s] /\ Sums(s, f, h)
    BY <2>1, TotalSteps
  <2>. DEFINE Bad == {t \in SUBSET s : ~(h[t] = g[t])}
  <2>3. ASSUME Bad # {} PROVE FALSE
    <3>1. PICK t \in Bad : \A u \in Bad : ~(u \subseteq t /\ u # t)
      <4>1. Bad \in SUBSET (SUBSET s)
        OBVIOUS
      <4>. HIDE DEF Bad
      <4>. QED  BY <2>1, <2>3, <4>1, LeastSet
    <3>2. t \in SUBSET s /\ t \in SUBSET S /\ h[t] # g[t]
      OBVIOUS
    <3>3. /\ h[t] = IF t = {} THEN 0 ELSE f[First(t)] + h[t \ {First(t)}]
          /\ g[t] = IF t = {} THEN 0 ELSE f[First(t)] + g[t \ {First(t)}]
      BY <1>1, <2>2, <3>2 DEF Sums
    <3>4. t # {}
      BY <3>2, <3>3
    <3>5. PICK x \in t : x = First(t)
      BY <3>4 DEF First
    <3>6. t \ {x} \in SUBSET s /\ t \ {x} \subseteq t /\ t \ {x} # t
      BY <3>2, <3>5
    <3>7. t \ {x} \notin Bad
      BY <3>1, <3>6
    <3>8. h[t \ {x}] = g[t \ {x}]
      BY <3>6, <3>7
    <3>. QED  BY <3>2, <3>3, <3>4, <3>5, <3>8
  <2>4. s \notin Bad
    BY <2>3
  <2>. QED  BY <2>2, <2>4
<1>3. S \ {First(S)} \in SUBSET S /\ S \in SUBSET S
  OBVIOUS
<1>4. g[S] = IF S = {} THEN 0 ELSE f[First(S)] + g[S \ {First(S)}]
  BY <1>1, <1>3 DEF Sums
<1>. QED  BY <1>1, <1>2, <1>3, <1>4

(* any of them.                                                            *)
LEMMA TotalRemove ==
  ASSUME NEW S, IsFiniteSet(S), NEW f, \A i \in S : f[i] \in Nat, NEW x \in S
  PROVE  Total(S, f) = f[x] + Total(S \ {x}, f)
<1>. DEFINE Good(s) == \A y \in s : Total(s, f) = f[y] + Total(s \ {y}, f)
            Bad == {s \in SUBSET S : ~Good(s)}
<1>0. ASSUME NEW s \in SUBSET S PROVE IsFiniteSet(s) /\ Total(s, f) \in Nat
  <2>1. IsFiniteSet(s)
    BY FS_Subset
  <2>. QED  BY <2>1, TotalNat
<1>1. ASSUME Bad # {} PROVE FALSE
  <2>1. PICK s \in Bad : \A u \in Bad : ~(u \subseteq s /\ u # s)
    <3>1. Bad \in SUBSET (SUBSET S)
      OBVIOUS
    <3>. HIDE DEF Bad
    <3>. QED  BY <1>1, <3>1, LeastSet
  <2>2. PICK y \in s : s \in SUBSET S /\ Total(s, f) # f[y] + Total(s \ {y}, f)
    OBVIOUS
  <2>3. PICK z \in s : z = First(s)
    BY DEF First
  <2>4. Total(s, f) = f[z] + Total(s \ {z}, f)
    BY <1>0, <2>2, <2>3, TotalFirst
  <2>5. z # y
    BY <2>2, <2>4
  <2>6. PICK a \in SUBSET S, b \in SUBSET S, c \in SUBSET S :
          a = s \ {z} /\ b = s \ {y} /\ c = s \ {y, z}
    BY <2>2
  <2>7. a \notin Bad /\ b \notin Bad
    BY <2>1, <2>3, <2>6
  <2>8. y \in a /\ z \in b /\ a \ {y} = c /\ b \ {z} = c
    BY <2>3, <2>5, <2>6
  <2>9. Total(a, f) = f[y] + Total(c, f)
    BY <2>7, <2>8
  <2>10. Total(b, f) = f[z] + Total(c, f)
    BY <2>7, <2>8
  <2>11. f[y] \in Nat /\ f[z] \in Nat /\ Total(c, f) \in Nat
    BY <1>0, <2>2, <2>3
  <2>. HIDE DEF Bad
  <2>. QED  BY <2>2, <2>4, <2>6, <2>9, <2>10, <2>11
<1>2. S \notin Bad
  BY <1>1
<1>. QED  BY <1>2

(* Nothing adds up to 0.                                                   *)
LEMMA TotalEmpty == \A f : Total({}, f) = 0
  BY TotalFirst, FS_EmptySet

(* The image of a finite set is finite and no larger.                      *)
LEMMA ImageFinite ==
  ASSUME NEW S, IsFiniteSet(S), NEW h
  PROVE  /\ IsFiniteSet({h[x] : x \in S}) /\ Cardinality({h[x] : x \in S}) \in Nat
         /\ Cardinality({h[x] : x \in S}) <= Cardinality(S)
<1>1. PICK T : T = {h[x] : x \in S}
  OBVIOUS
<1>2. PICK f : f = [x \in S |-> h[x]]
  OBVIOUS
<1>3. f \in Surjection(S, T)
  BY <1>1, <1>2 DEF Surjection
<1>. QED  BY <1>1, <1>3, FS_Surjection, FS_CardinalityType

(* Renaming the elements does not change a sum.                            *)
LEMMA TotalRenamed ==
  ASSUME NEW S, IsFiniteSet(S), NEW T, NEW h \in Bijection(S, T), NEW f, NEW g,
         \A x \in S : f[x] \in Nat /\ f[x] = g[h[x]]
  PROVE  Total(S, f) = Total(T, g)
<1>. DEFINE Of(s) == {h[x] : x \in s}
            Bad == {s \in SUBSET S : ~(Total(s, f) = Total(Of(s), g))}
<1>1. /\ \A x, y \in S : h[x] = h[y] => x = y
      /\ \A x \in S : h[x] \in T
      /\ \A y \in T : \E z \in S : h[z] = y
  BY DEF Bijection, Injection, Surjection, IsInjective
<1>2. ASSUME Bad # {} PROVE FALSE
  <2>1. PICK s \in Bad : \A u \in Bad : ~(u \subseteq s /\ u # s)
    <3>1. Bad \in SUBSET (SUBSET S)
      OBVIOUS
    <3>. HIDE DEF Bad
    <3>. QED  BY <1>2, <3>1, LeastSet
  <2>2. s \in SUBSET S /\ Total(s, f) # Total(Of(s), g)
    OBVIOUS
  <2>3. s # {}
    <3>1. Of({}) = {}
      OBVIOUS
    <3>. QED  BY <2>2, <3>1, TotalEmpty
  <2>4. PICK x \in s : TRUE
    BY <2>3
  <2>5. s \ {x} \notin Bad
    BY <2>1
  <2>6. Total(s \ {x}, f) = Total(Of(s \ {x}), g)
    BY <2>2, <2>5
  <2>7. Of(s \ {x}) = Of(s) \ {h[x]} /\ h[x] \in Of(s)
    BY <1>1, <2>2
  <2>8. IsFiniteSet(s) /\ IsFiniteSet(Of(s))
    <3>1. IsFiniteSet(s)
      BY <2>2, FS_Subset
    <3>. QED  BY <3>1, ImageFinite
  <2>9. Total(s, f) = f[x] + Total(s \ {x}, f)
    BY <2>2, <2>8, TotalRemove
  <2>10. Total(Of(s), g) = g[h[x]] + Total(Of(s) \ {h[x]}, g)
    <3>1. \A y \in Of(s) : g[y] \in Nat
      BY <2>2
    <3>. HIDE DEF Of
    <3>. QED  BY <2>7, <2>8, <3>1, TotalRemove
  <2>11. f[x] = g[h[x]]
    BY <2>2
  <2>. HIDE DEF Of, Bad
  <2>. QED  BY <2>2, <2>6, <2>7, <2>9, <2>10, <2>11
<1>3. S \notin Bad
  BY <1>2
<1>4. Of(S) = T
  <2>1. \A y \in T : y \in Of(S)
    BY <1>1
  <2>2. \A y \in Of(S) : y \in T
    BY <1>1
  <2>. QED  BY <2>1, <2>2
<1>. QED  BY <1>3, <1>4

-----------------------------------------------------------------------------
(* Zeros add up to 0.                                                      *)
LEMMA TotalZero ==
  ASSUME NEW S, IsFiniteSet(S), NEW f, \A x \in S : f[x] = 0
  PROVE  Total(S, f) = 0
<1>. DEFINE Bad == {s \in SUBSET S : ~(Total(s, f) = 0)}
<1>1. ASSUME Bad # {} PROVE FALSE
  <2>1. PICK s \in Bad : \A u \in Bad : ~(u \subseteq s /\ u # s)
    <3>1. Bad \in SUBSET (SUBSET S)
      OBVIOUS
    <3>. HIDE DEF Bad
    <3>. QED  BY <1>1, <3>1, LeastSet
  <2>2. s \in SUBSET S /\ Total(s, f) # 0 /\ s # {}
    BY TotalEmpty
  <2>3. PICK x \in s : x = First(s)
    BY <2>2 DEF First
  <2>4. Total(s, f) = f[x] + Total(s \ {x}, f)
    BY <2>2, <2>3, FS_Subset, TotalFirst
  <2>5. s \ {x} \notin Bad
    BY <2>1, <2>3
  <2>6. Total(s \ {x}, f) = 0 /\ f[x] = 0
    BY <2>2, <2>5
  <2>. QED  BY <2>2, <2>4, <2>6
<1>. QED  BY <1>1

(* Some elements have c more.                                              *)
More(S, f, g, B, c) ==
  \A x \in S : g[x] \in Nat /\ f[x] = g[x] + (IF x \in B THEN c ELSE 0)

(* Adding c to the numbers of the members of B adds c for every member of  *)
(* B.                                                                      *)
LEMMA TotalMore ==
  ASSUME NEW S, IsFiniteSet(S), NEW f, NEW g, NEW B, NEW c \in Nat, More(S, f, g, B, c)
  PROVE  Total(S, f) = Total(S, g) + Cardinality(B \cap S) * c
<1>0. \A x \in S : g[x] \in Nat /\ f[x] = g[x] + (IF x \in B THEN c ELSE 0)
  BY DEF More
<1>. DEFINE Good(s) == Total(s, f) = Total(s, g) + Cardinality(B \cap s) * c
            Bad == {s \in SUBSET S : ~Good(s)}
<1>1. ASSUME Bad # {} PROVE FALSE
  <2>1. PICK s \in Bad : \A u \in Bad : ~(u \subseteq s /\ u # s)
    <3>1. Bad \in SUBSET (SUBSET S)
      OBVIOUS
    <3>. HIDE DEF Bad
    <3>. QED  BY <1>1, <3>1, LeastSet
  <2>2. s \in SUBSET S /\ ~Good(s)
    OBVIOUS
  <2>3. s # {}
    <3>1. B \cap {} = {} /\ Cardinality({}) = 0 /\ 0 * c = 0
      BY FS_EmptySet
    <3>2. Good({})
      BY <3>1, TotalEmpty
    <3>. HIDE DEF Good
    <3>. QED  BY <2>2, <3>2
  <2>4. PICK x \in s : TRUE
    BY <2>3
  <2>5. PICK t \in SUBSET S : t = s \ {x}
    BY <2>2
  <2>6. t \notin Bad
    BY <2>1, <2>4, <2>5
  <2>7. Total(t, f) = Total(t, g) + Cardinality(B \cap t) * c
    BY <2>6
  <2>8. IsFiniteSet(s) /\ IsFiniteSet(t) /\ IsFiniteSet(B \cap t)
    BY <2>2, FS_Subset
  <2>9. \A y \in s : g[y] \in Nat /\ f[y] \in Nat
    BY <1>0, <2>2
  <2>10. Total(s, f) = f[x] + Total(t, f) /\ Total(s, g) = g[x] + Total(t, g)
    BY <2>5, <2>8, <2>9, TotalRemove
  <2>11. Total(t, g) \in Nat
    BY <2>5, <2>8, <2>9, TotalNat
  <2>12. PICK n \in Nat : n = Cardinality(B \cap t)
    BY <2>8, FS_CardinalityType
  <2>13. CASE x \in B
    <3>1. B \cap s = (B \cap t) \cup {x} /\ x \notin B \cap t
      BY <2>5, <2>13
    <3>2. Cardinality(B \cap s) = n + 1
      BY <2>8, <2>12, <3>1, FS_AddElement
    <3>3. f[x] = g[x] + c /\ g[x] \in Nat
      BY <1>0, <2>2, <2>13
    <3>4. (n + 1) * c = n * c + c /\ n * c \in Nat
      OBVIOUS
    <3>. QED  BY <2>2, <2>7, <2>10, <2>11, <2>12, <3>2, <3>3, <3>4
  <2>14. CASE x \notin B
    <3>1. B \cap s = B \cap t
      BY <2>5, <2>14
    <3>2. f[x] = g[x] /\ g[x] \in Nat
      BY <1>0, <2>2, <2>14
    <3>3. PICK z \in Nat, a \in Nat, b \in Nat : z = n * c /\ a = g[x] /\ b = Total(t, g)
      BY <2>11, <3>2
    <3>4. Total(t, f) = b + z /\ Total(s, f) = a + Total(t, f) /\ Total(s, g) = a + b
      BY <2>7, <2>10, <2>12, <3>2, <3>3
    <3>5. Total(s, f) = Total(s, g) + z
      BY <3>4
    <3>6. Good(s)
      BY <2>12, <3>1, <3>3, <3>5
    <3>. HIDE DEF Good
    <3>. QED  BY <2>2, <3>6
  <2>. QED  BY <2>13, <2>14
<1>2. S \notin Bad
  BY <1>1
<1>. QED  BY <1>2

(* Sets that have every element of I together N times.                     *)
Portions(W, A, f, J) == [v \in W |-> Total(A[v] \cap J, f)]
Holders(W, A, x) == {v \in W : x \in A[v]}

(* What is held by N holders each is counted N times by the holders        *)
(* together.                                                               *)
LEMMA TotalCounted ==
  ASSUME NEW W, IsFiniteSet(W), NEW I, IsFiniteSet(I), NEW A, \A v \in W : A[v] \subseteq I,
         NEW f, \A x \in I : f[x] \in Nat, NEW N \in Nat,
         \A x \in I : Cardinality(Holders(W, A, x)) = N
  PROVE  Total(W, Portions(W, A, f, I)) = N * Total(I, f)
<1>. DEFINE Good(J) == Total(W, Portions(W, A, f, J)) = N * Total(J, f)
            Bad == {J \in SUBSET I : ~Good(J)}
<1>0. ASSUME NEW J \in SUBSET I
      PROVE  /\ IsFiniteSet(J) /\ Total(J, f) \in Nat
             /\ \A v \in W : Portions(W, A, f, J)[v] = Total(A[v] \cap J, f)
             /\ \A v \in W : IsFiniteSet(A[v] \cap J) /\ Total(A[v] \cap J, f) \in Nat
  <2>1. IsFiniteSet(J) /\ Total(J, f) \in Nat
    BY FS_Subset, TotalNat
  <2>2. ASSUME NEW v \in W PROVE IsFiniteSet(A[v] \cap J) /\ Total(A[v] \cap J, f) \in Nat
    <3>1. IsFiniteSet(A[v] \cap J)
      BY <2>1, FS_Subset
    <3>. QED  BY <3>1, TotalNat
  <2>. QED  BY <2>1, <2>2 DEF Portions
<1>1. ASSUME Bad # {} PROVE FALSE
  <2>1. PICK J \in Bad : \A u \in Bad : ~(u \subseteq J /\ u # J)
    <3>1. Bad \in SUBSET (SUBSET I)
      OBVIOUS
    <3>. HIDE DEF Bad
    <3>. QED  BY <1>1, <3>1, LeastSet
  <2>2. J \in SUBSET I /\ ~Good(J)
    OBVIOUS
  <2>3. J # {}
    <3>1. \A v \in W : A[v] \cap {} = {}
      OBVIOUS
    <3>2. \A v \in W : Portions(W, A, f, {})[v] = 0
      BY <3>1, TotalEmpty DEF Portions
    <3>3. Total(W, Portions(W, A, f, {})) = 0
      BY <3>2, TotalZero
    <3>4. Good({})
      BY <3>3, TotalEmpty
    <3>. HIDE DEF Good
    <3>. QED  BY <2>2, <3>4
  <2>4. PICK x \in J : TRUE
    BY <2>3
  <2>5. PICK K \in SUBSET I : K = J \ {x}
    BY <2>2
  <2>6. K \notin Bad
    BY <2>1, <2>4, <2>5
  <2>7. Total(W, Portions(W, A, f, K)) = N * Total(K, f)
    BY <2>6
  <2>8. Total(J, f) = f[x] + Total(K, f) /\ f[x] \in Nat /\ x \in I
    BY <1>0, <2>2, <2>5, TotalRemove
  <2>9. PICK p, q, B : p = Portions(W, A, f, J) /\ q = Portions(W, A, f, K) /\ B = Holders(W, A, x)
    OBVIOUS
  <2>10. ASSUME NEW v \in W
         PROVE  q[v] \in Nat /\ p[v] = q[v] + (IF v \in B THEN f[x] ELSE 0)
    <3>1. /\ p[v] = Total(A[v] \cap J, f) /\ q[v] = Total(A[v] \cap K, f)
          /\ q[v] \in Nat /\ IsFiniteSet(A[v] \cap J)
      BY <1>0, <2>2, <2>9
    <3>2. CASE v \in B
      <4>1. x \in A[v] \cap J /\ (A[v] \cap J) \ {x} = A[v] \cap K
        BY <2>5, <2>9, <3>2 DEF Holders
      <4>2. Total(A[v] \cap J, f) = f[x] + Total((A[v] \cap J) \ {x}, f)
        <5>1. \A y \in A[v] \cap J : f[y] \in Nat
          BY <2>2
        <5>. QED  BY <3>1, <4>1, <5>1, TotalRemove
      <4>3. p[v] = f[x] + q[v]
        BY <3>1, <4>1, <4>2
      <4>. QED  BY <2>8, <3>1, <3>2, <4>3
    <3>3. CASE v \notin B
      <4>1. A[v] \cap J = A[v] \cap K
        BY <2>5, <2>9, <3>3 DEF Holders
      <4>2. p[v] = q[v]
        BY <3>1, <4>1
      <4>. QED  BY <3>1, <3>3, <4>2
    <3>. QED  BY <3>2, <3>3
  <2>11. Total(W, p) = Total(W, q) + Cardinality(B \cap W) * f[x]
    <3>1. More(W, p, q, B, f[x])
      BY <2>10 DEF More
    <3>2. f[x] \in Nat
      BY <2>8
    <3>. HIDE DEF Bad
    <3>. QED  BY <3>1, <3>2, TotalMore
  <2>12. Cardinality(B \cap W) = N
    <3>1. B \cap W = B
      BY <2>9 DEF Holders
    <3>. QED  BY <2>8, <2>9, <3>1
  <2>13. PICK a \in Nat, b \in Nat : a = f[x] /\ b = Total(K, f)
    BY <1>0, <2>8
  <2>14. N * (a + b) = N * b + N * a
    OBVIOUS
  <2>. QED  BY <2>2, <2>7, <2>8, <2>9, <2>11, <2>12, <2>13, <2>14
<1>2. I \notin Bad
  BY <1>1
<1>. QED  BY <1>2

-----------------------------------------------------------------------------
(* Where the rows of the slices of a worker are in the batch.              *)
Row(w, p) == order[DpRank(w) * Size + p]
ChunkAt(w, k, off) ==
  /\ Offsets(off, Whole(w), k) /\ off[k + 1] = Size /\ Whole(w) \in Seq(Seq(Rec))
  /\ \A s \in 1 .. k : Whole(w)[s] \in Seq(Rec) /\ Whole(w)[s] # << >>
  /\ \A s \in 1 .. k : \A i \in 1 .. Len(Whole(w)[s]) : Whole(w)[s][i].id = Row(w, off[s] + i)

(* Which rows of the order the slices of a worker hold.                    *)
LEMMA WholeAt ==
  ASSUME ConfigInv, DriverInv, NEW w \in Workers
  PROVE  \E off : ChunkAt(w, Turns, off)
<1>1. PICK k \in Nat \ {0} : k = Turns /\ WholeOf(Whole(w), Chunk(w), k)
  BY Wholes
<1>2. PICK r \in Seq(Seq(Rec)) : r = Whole(w) /\ Len(r) = k
  BY <1>1 DEF WholeOf
<1>3. PICK off : Pieces(r, Chunk(w), k, off)
  BY <1>1, <1>2 DEF WholeOf
<1>4. Offsets(off, r, k) /\ off[k + 1] = Size
  BY <1>3, Chunks DEF Pieces, ChunkOf
<1>5. ASSUME NEW s \in 1 .. k, NEW i \in 1 .. Len(r[s]) PROVE r[s][i].id = Row(w, off[s] + i)
  <2>1. off[s] + i \in 1 .. Size
    <3>1. off[s] + i \in 1 .. off[k + 1]
      BY <1>4, OffsetsApart
    <3>. QED  BY <1>4, <3>1
  <2>2. r[s][i] = Chunk(w)[off[s] + i]
    BY <1>3 DEF Pieces
  <2>3. Chunk(w)[off[s] + i] = [id |-> order[DpRank(w) * Size + (off[s] + i)],
                                old |-> old[DpRank(w) * Size + (off[s] + i)]]
    BY <2>1 DEF Chunk, Size
  <2>. QED  BY <2>2, <2>3 DEF Row
<1>6. ASSUME NEW s \in 1 .. k PROVE r[s] \in Seq(Rec) /\ r[s] # << >>
  BY <1>1, <1>2 DEF WholeOf
<1>7. ChunkAt(w, k, off)
  BY <1>2, <1>4, <1>5, <1>6 DEF ChunkAt
<1>. QED  BY <1>1, <1>7

(* The ranks share the batch between them.                                 *)
LEMMA RowRank ==
  ASSUME ConfigInv, DriverInv, NEW v \in Workers, NEW w \in Workers,
         NEW p \in 1 .. Size, NEW q \in 1 .. Size, Row(v, p) = Row(w, q)
  PROVE  DpRank(v) = DpRank(w) /\ p = q
<1>1. PICK a \in Nat \ {0}, x \in Nat, y \in Nat :
        /\ a = Size /\ x = DpRank(v) /\ y = DpRank(w)
        /\ x * a + p \in Rows /\ y * a + q \in Rows
  BY Numbers
<1>2. x * a + p = y * a + q
  <2>1. \A i, j \in Rows : order[i] = order[j] => i = j
    BY DEF DriverInv, Bijection, Injection, IsInjective
  <2>2. order[x * a + p] = order[y * a + q]
    BY <1>1 DEF Row
  <2>. QED  BY <1>1, <2>1, <2>2
<1>3. PICK b \in Nat, c \in Nat : b = x * a /\ c = y * a
  OBVIOUS
<1>4. b + p = c + q /\ p \in 1 .. a /\ q \in 1 .. a
  BY <1>1, <1>2, <1>3
<1>5. ~(x < y)
  <2>1. x < y => b + a <= c
    <3>1. x < y => (x + 1) * a <= y * a
      OBVIOUS
    <3>2. (x + 1) * a = x * a + a
      OBVIOUS
    <3>. QED  BY <1>3, <3>1, <3>2
  <2>. QED  BY <1>4, <2>1
<1>6. ~(y < x)
  <2>1. y < x => c + a <= b
    <3>1. y < x => (y + 1) * a <= x * a
      OBVIOUS
    <3>2. (y + 1) * a = y * a + a
      OBVIOUS
    <3>. QED  BY <1>3, <3>1, <3>2
  <2>. QED  BY <1>4, <2>1
<1>7. x = y
  BY <1>5, <1>6
<1>. QED  BY <1>1, <1>3, <1>4, <1>7

(* A rank has sp workers.                                                  *)
OfRank(w) == {v \in Workers : DpRank(v) = DpRank(w)}

(* A data-parallel rank has as many workers as a sequence-parallel group.  *)
LEMMA RankSize ==
  ASSUME ConfigInv, NEW w \in Workers
  PROVE  Cardinality(OfRank(w)) = config.sp
<1>1. PICK d \in Nat \ {0}, s \in Nat \ {0} : d = config.dp /\ s = config.sp /\ World = d * s
  BY DEF ConfigInv, World
<1>2. PICK k \in Nat : k = d * s /\ Workers = 1 .. k
  BY <1>1 DEF Workers
<1>3. w \in 1 .. k
  BY <1>2
<1>4. PICK q \in Nat, e \in 0 .. s - 1 : q = (w - 1) \div s /\ w - 1 = q * s + e
  <2>1. w - 1 \in Nat
    BY <1>3
  <2>2. PICK x \in Nat : x = w - 1
    BY <2>1
  <2>3. x = s * (x \div s) + (x % s) /\ x \div s \in Nat /\ x % s \in 0 .. s - 1
    OBVIOUS
  <2>. QED  BY <2>2, <2>3
<1>5. PICK g \in Nat : g = q * s
  OBVIOUS
<1>6. g + s <= k
  <2>1. q < d
    <3>1. q >= d => q * s >= d * s
      OBVIOUS
    <3>. QED  BY <1>2, <1>3, <1>4, <3>1
  <2>2. (q + 1) * s <= d * s
    BY <2>1
  <2>3. (q + 1) * s = q * s + s
    OBVIOUS
  <2>. QED  BY <1>2, <1>5, <2>2, <2>3
<1>7. ASSUME NEW v \in 1 .. k PROVE DpRank(v) = q <=> v \in g + 1 .. g + s
  <2>1. PICK x \in Nat : x = v - 1
    OBVIOUS
  <2>2. PICK y \in Nat, z \in 0 .. s - 1 : y = x \div s /\ x = y * s + z
    <3>1. x = s * (x \div s) + (x % s) /\ x \div s \in Nat /\ x % s \in 0 .. s - 1
      OBVIOUS
    <3>. QED  BY <3>1
  <2>3. PICK h \in Nat : h = y * s
    OBVIOUS
  <2>4. y < q => h + s <= g
    <3>1. y < q => (y + 1) * s <= q * s
      OBVIOUS
    <3>2. (y + 1) * s = y * s + s
      OBVIOUS
    <3>. QED  BY <1>5, <2>3, <3>1, <3>2
  <2>5. q < y => g + s <= h
    <3>1. q < y => (q + 1) * s <= y * s
      OBVIOUS
    <3>2. (q + 1) * s = q * s + s
      OBVIOUS
    <3>. QED  BY <1>5, <2>3, <3>1, <3>2
  <2>6. y = q => h = g
    BY <1>5, <2>3
  <2>7. DpRank(v) = y
    BY <1>1, <2>1, <2>2 DEF DpRank
  <2>8. v = h + z + 1
    BY <2>1, <2>2, <2>3
  <2>. QED  BY <2>4, <2>5, <2>6, <2>7, <2>8
<1>8. DpRank(w) = q
  BY <1>1, <1>4 DEF DpRank
<1>9. OfRank(w) = g + 1 .. g + s
  <2>1. \A v \in g + 1 .. g + s : v \in 1 .. k
    BY <1>6
  <2>. QED  BY <1>2, <1>7, <1>8, <2>1 DEF OfRank
<1>10. Cardinality(g + 1 .. g + s) = s
  <2>1. Cardinality(g + 1 .. g + s) = IF g + 1 > g + s THEN 0 ELSE (g + s) - (g + 1) + 1
    BY FS_Interval
  <2>. QED  BY <2>1
<1>. QED  BY <1>1, <1>9, <1>10

-----------------------------------------------------------------------------
(* The rows of a slice, and those of all the slices of a mini-batch.       *)
IdsOf(c) == {c[i].id : i \in 1 .. Len(c)}
Parcels(s) == [v \in Workers |-> IdsOf(Whole(v)[s])]
AllIds(s) == UNION {IdsOf(Whole(v)[s]) : v \in Workers}
RowTokens == [i \in Rows |-> Tokens(i)]

(* The rows are finite in number.                                          *)
LEMMA RowsFinite ==
  ASSUME ConfigInv PROVE IsFiniteSet(Rows)
<1>1. PICK n \in Nat : n = config.rows
  BY DEF ConfigInv
<1>2. IsFiniteSet(1 .. n)
  BY FS_Interval
<1>. QED  BY <1>1, <1>2 DEF Rows

(* A slice has a row once, so its tokens are those of its rows.            *)
LEMMA SliceTokens ==
  ASSUME ConfigInv, DriverInv, NEW w \in Workers, NEW s \in 1 .. Turns
  PROVE  /\ IdsOf(Whole(w)[s]) \in SUBSET Rows /\ IsFiniteSet(IdsOf(Whole(w)[s]))
         /\ TokensOf(Whole(w)[s]) = Total(IdsOf(Whole(w)[s]), RowTokens)
         /\ \A i \in 1 .. Len(Whole(w)[s]) : \E p \in 1 .. Size : Whole(w)[s][i].id = Row(w, p)
<1>1. PICK k \in Nat \ {0}, a \in Nat \ {0} : k = Turns /\ a = Size
  BY Wholes, Numbers
<1>2. PICK off : ChunkAt(w, k, off)
  BY <1>1, WholeAt
<1>3. PICK r \in Seq(Seq(Rec)) : r = Whole(w) /\ Offsets(off, r, k) /\ off[k + 1] = a
  BY <1>1, <1>2 DEF ChunkAt
<1>4. s \in 1 .. k
  BY <1>1
<1>5. PICK c \in Seq(Rec) : c = r[s] /\ \A i \in 1 .. Len(c) : c[i].id = Row(w, off[s] + i)
  BY <1>2, <1>3, <1>4 DEF ChunkAt
<1>6. PICK l \in Nat : l = Len(c) /\ DOMAIN c = 1 .. l
  OBVIOUS
<1>7. \A i \in 1 .. l : off[s] + i \in 1 .. a
  <2>1. \A i \in 1 .. Len(r[s]) : off[s] + i \in 1 .. off[k + 1]
    BY <1>3, <1>4, OffsetsApart
  <2>. QED  BY <1>3, <1>5, <1>6, <2>1
<1>8. off[s] \in Nat
  BY <1>3, <1>4 DEF Offsets
<1>9. PICK I : I = IdsOf(c)
  OBVIOUS
<1>10. PICK h : h = [i \in 1 .. l |-> c[i].id]
  OBVIOUS
<1>11. \A i \in 1 .. l : c[i] \in Rec /\ h[i] = c[i].id /\ h[i] \in Rows
  <2>1. \A r1 \in Rec : r1.id \in Rows
    BY DEF Rec
  <2>. QED  BY <1>6, <1>10, <2>1
<1>12. ASSUME NEW i \in 1 .. l, NEW j \in 1 .. l, h[i] = h[j] PROVE i = j
  <2>1. Row(w, off[s] + i) = Row(w, off[s] + j)
    BY <1>5, <1>6, <1>11, <1>12
  <2>2. off[s] + i = off[s] + j
    BY <1>1, <1>7, <2>1, RowRank
  <2>. QED  BY <1>8, <2>2
<1>13. h \in Bijection(1 .. l, I)
  <2>1. h \in [1 .. l -> I]
    BY <1>6, <1>9, <1>10 DEF IdsOf
  <2>2. \A x \in I : \E i \in 1 .. l : h[i] = x
    BY <1>6, <1>9, <1>11 DEF IdsOf
  <2>. QED  BY <1>12, <2>1, <2>2 DEF Bijection, Injection, Surjection, IsInjective
<1>14. I \in SUBSET Rows /\ IsFiniteSet(I)
  <2>1. I \subseteq Rows
    BY <1>6, <1>9, <1>11 DEF IdsOf
  <2>2. IsFiniteSet(Rows)
    BY RowsFinite
  <2>. QED  BY <2>1, <2>2, FS_Subset
<1>15. PICK f : f = [i \in 1 .. l |-> Tokens(c[i].id)]
  OBVIOUS
<1>16. TokensOf(c) = Total(1 .. l, f)
  BY <1>6, <1>15 DEF TokensOf
<1>17. \A i \in 1 .. l : f[i] \in Nat /\ f[i] = RowTokens[h[i]]
  <2>1. \A i \in Rows : Tokens(i) \in Nat
    BY TokensType
  <2>. QED  BY <1>11, <1>15, <2>1 DEF RowTokens
<1>18. Total(1 .. l, f) = Total(I, RowTokens)
  <2>1. IsFiniteSet(1 .. l)
    BY FS_Interval
  <2>2. PICK S : S = 1 .. l
    OBVIOUS
  <2>3. PICK g : g = RowTokens
    OBVIOUS
  <2>4. IsFiniteSet(S) /\ h \in Bijection(S, I) /\ \A x \in S : f[x] \in Nat /\ f[x] = g[h[x]]
    BY <1>13, <1>17, <2>1, <2>2, <2>3
  <2>5. Total(S, f) = Total(I, g)
    BY ONLY <2>4, TotalRenamed
  <2>. QED  BY <2>2, <2>3, <2>5
<1>19. \A i \in 1 .. l : \E p \in 1 .. a : c[i].id = Row(w, p)
  BY <1>5, <1>6, <1>7
<1>. QED  BY <1>1, <1>3, <1>5, <1>6, <1>9, <1>14, <1>16, <1>18, <1>19

(* The tokens that are summed over all workers are those of all rows of    *)
(* the mini-batch, once for each worker of a rank.                         *)
LEMMA TotIs ==
  ASSUME ConfigInv, DriverInv, NEW s \in 1 .. Turns
  PROVE  /\ AllIds(s) \in SUBSET Rows /\ IsFiniteSet(AllIds(s))
         /\ Tot(s) = config.sp * Total(AllIds(s), RowTokens)
<1>1. PICK I : I = AllIds(s)
  OBVIOUS
<1>2. PICK A : A = Parcels(s)
  OBVIOUS
<1>3. PICK f : f = RowTokens
  OBVIOUS
<1>4. ASSUME NEW v \in Workers
      PROVE  /\ A[v] = IdsOf(Whole(v)[s]) /\ A[v] \subseteq Rows /\ A[v] \subseteq I
             /\ TokensOf(Whole(v)[s]) = Total(A[v], f)
  <2>1. A[v] = IdsOf(Whole(v)[s])
    BY <1>2 DEF Parcels
  <2>2. IdsOf(Whole(v)[s]) \in SUBSET Rows /\ TokensOf(Whole(v)[s]) = Total(IdsOf(Whole(v)[s]), f)
    BY <1>3, SliceTokens
  <2>. QED  BY <1>1, <2>1, <2>2 DEF AllIds
<1>5. I \subseteq Rows
  BY <1>1, <1>4 DEF AllIds
<1>6. IsFiniteSet(I)
  <2>. QED  BY <1>5, RowsFinite, FS_Subset
<1>7. IsFiniteSet(Workers) /\ config.sp \in Nat
  <2>1. PICK n \in Nat : n = World
    BY Numbers
  <2>2. IsFiniteSet(1 .. n)
    BY FS_Interval
  <2>. QED  BY <2>1, <2>2 DEF Workers, ConfigInv
<1>8. \A x \in I : f[x] \in Nat
  <2>1. \A i \in Rows : Tokens(i) \in Nat
    BY TokensType
  <2>. QED  BY <1>3, <1>5, <2>1 DEF RowTokens
<1>9. ASSUME NEW x \in I PROVE Cardinality(Holders(Workers, A, x)) = config.sp
  <2>1. PICK w \in Workers : x \in IdsOf(Whole(w)[s])
    BY <1>1 DEF AllIds
  <2>2. ASSUME NEW v \in Workers, x \in IdsOf(Whole(v)[s]) PROVE DpRank(v) = DpRank(w)
    <3>1. PICK i \in 1 .. Len(Whole(w)[s]), j \in 1 .. Len(Whole(v)[s]) :
            x = Whole(w)[s][i].id /\ x = Whole(v)[s][j].id
      BY <2>1, <2>2 DEF IdsOf
    <3>2. PICK p \in 1 .. Size : x = Row(w, p)
      BY <3>1, SliceTokens
    <3>3. PICK q \in 1 .. Size : x = Row(v, q)
      BY <3>1, SliceTokens
    <3>4. Row(v, q) = Row(w, p)
      BY <3>2, <3>3
    <3>. QED  BY <3>4, RowRank
  <2>3. ASSUME NEW v \in Workers, DpRank(v) = DpRank(w) PROVE Whole(v) = Whole(w)
    <3>1. Chunk(v) = Chunk(w)
      BY <2>3 DEF Chunk
    <3>. QED  BY <3>1 DEF Whole
  <2>4. Holders(Workers, A, x) = OfRank(w)
    <3>1. ASSUME NEW v \in Workers PROVE x \in A[v] <=> DpRank(v) = DpRank(w)
      <4>1. DpRank(v) = DpRank(w) => x \in A[v]
        BY <1>4, <2>1, <2>3
      <4>2. x \in A[v] => DpRank(v) = DpRank(w)
        BY <1>4, <2>2
      <4>. QED  BY <4>1, <4>2
    <3>. QED  BY <3>1 DEF Holders, OfRank
  <2>. QED  BY <2>4, RankSize
<1>10. Total(Workers, Portions(Workers, A, f, I)) = config.sp * Total(I, f)
  <2>1. \A v \in Workers : A[v] \subseteq I
    BY <1>4
  <2>2. \A x \in I : Cardinality(Holders(Workers, A, x)) = config.sp
    BY <1>9
  <2>. QED  BY <1>6, <1>7, <1>8, <2>1, <2>2, TotalCounted
<1>11. Portions(Workers, A, f, I) = [v \in Workers |-> TokensOf(Whole(v)[s])]
  <2>1. ASSUME NEW v \in Workers PROVE Total(A[v] \cap I, f) = TokensOf(Whole(v)[s])
    <3>1. A[v] \cap I = A[v]
      BY <1>4
    <3>. QED  BY <1>4, <3>1
  <2>. QED  BY <2>1 DEF Portions
<1>12. Tot(s) = config.sp * Total(I, f)
  BY <1>10, <1>11 DEF Tot
<1>. QED  BY <1>1, <1>3, <1>5, <1>6, <1>12

-----------------------------------------------------------------------------
(* A micro-batch has the tokens of its rows.                               *)
LEMMA HeldTokens ==
  ASSUME ConfigInv, NEW r \in Rec, NEW micro \in Holding(r)
  PROVE  TokensOf(micro) \in Nat /\ Tokens(r.id) \in Nat /\ Tokens(r.id) <= TokensOf(micro)
<1>1. micro \in Seq(Rec)
  BY DEF Holding
<1>2. PICK j \in 1 .. Len(micro) : micro[j] = r
  BY DEF Holding
<1>3. PICK l \in Nat : l = Len(micro) /\ DOMAIN micro = 1 .. l
  BY <1>1
<1>4. PICK S, f : S = 1 .. l /\ f = [i \in 1 .. l |-> Tokens(micro[i].id)]
  OBVIOUS
<1>5. TokensOf(micro) = Total(S, f)
  BY <1>3, <1>4 DEF TokensOf
<1>6. \A i \in S : f[i] \in Nat
  <2>1. ASSUME NEW i \in 1 .. l PROVE Tokens(micro[i].id) \in Nat
    <3>1. micro[i] \in Rec
      BY <1>1, <1>3
    <3>2. micro[i].id \in Rows
      BY <3>1 DEF Rec
    <3>. QED  BY <3>2, TokensType
  <2>. QED  BY <1>4, <2>1
<1>7. j \in S /\ f[j] = Tokens(r.id)
  BY <1>2, <1>3, <1>4
<1>8. IsFiniteSet(S)
  BY <1>4, FS_Interval
<1>9. Total(S, f) = f[j] + Total(S \ {j}, f)
  BY <1>6, <1>7, <1>8, TotalRemove
<1>10. Total(S \ {j}, f) \in Nat
  <2>1. IsFiniteSet(S \ {j})
    BY <1>8, FS_Subset
  <2>. QED  BY <1>6, <2>1, TotalNat
<1>11. f[j] \in Nat
  BY <1>6, <1>7
<1>. QED  BY <1>5, <1>7, <1>9, <1>10, <1>11

(* The share of a row, with the tokens tok of its own, mc of its           *)
(* micro-batch and all of the mini-batch, which sp workers each run.       *)
Fair(sh, tok, all, sp, world) == sh.up * sp * all = tok * sh.down * world
Times(tot, sp, all) == tot = sp * all

(* The share of a row, from the tokens of its micro-batch and of the slice *)
(* on all workers, is the row's tokens by those of the slice's rows.       *)
LEMMA Shares ==
  ASSUME NEW tok \in Nat, NEW mc \in Nat, NEW all \in Nat, NEW sp \in Nat \ {0}, NEW world \in Nat,
         NEW tot, tok <= mc, tok <= all, Times(tot, sp, all), NEW sh, sh = Share(tok, mc, tot, world)
  PROVE  Fair(sh, tok, all, sp, world)
<1>1. tot \in Nat /\ tot = sp * all
  BY DEF Times
<1>2. sh = Share(tok, mc, tot, world)
  OBVIOUS
<1>3. sh.up = tok * world * mc /\ sh.down = Max({mc, 1}) * Max({tot, 1})
  BY <1>2 DEF Share
<1>4. PICK x \in Nat, y \in Nat : x = Max({mc, 1}) /\ y = Max({tot, 1})
  BY <1>1, MaxTwo
<1>5. CASE tok = 0
  <2>1. tok * world * mc = 0
    BY <1>5
  <2>2. 0 * sp * all = 0
    OBVIOUS
  <2>3. tok * (x * y) * world = 0
    BY <1>5
  <2>. QED  BY <1>1, <1>2, <1>3, <1>4, <2>1, <2>2, <2>3 DEF Fair
<1>6. CASE tok > 0
  <2>1. x = mc
    BY <1>4, <1>6, MaxTwo
  <2>2. tot >= 1
    <3>1. sp * all >= 1 * all
      OBVIOUS
    <3>. QED  BY <1>1, <1>6, <3>1
  <2>3. y = tot
    BY <1>1, <1>4, <2>2, MaxTwo
  <2>4. (tok * world * mc) * sp * all = tok * (mc * (sp * all)) * world
    OBVIOUS
  <2>. QED  BY <1>1, <1>2, <1>3, <1>4, <2>1, <2>3, <2>4 DEF Fair
<1>. QED  BY <1>5, <1>6

(* The rows of a step with the quality loss.                               *)
StepShare(x, r, micro, s) ==
  /\ x.id = r.id
  /\ x.share = Share(Tokens(r.id), TokensOf(micro), Tot(s), World)

(* The rows of a step and the shares they got.                             *)
LEMMA StepShares ==
  ASSUME IInv, DataInv, config.loss = "slqp", NEW w \in Workers, NEW s \in DOMAIN steps[w]
  PROVE  /\ s \in 1 .. Turns
         /\ \A x \in steps[w][s] : \E i \in 1 .. Len(Whole(w)[s]) :
              \E micro \in Holding(Whole(w)[s][i]) : StepShare(x, Whole(w)[s][i], micro, s)
         /\ {x.id : x \in steps[w][s]} = IdsOf(Whole(w)[s])
<1>1. /\ phase \in {"updating", "done"} /\ s \in 1 .. Turns
      /\ StepHas(steps[w][s], Whole(w)[s], s)
  BY StepsDone
<1>2. PICK c, S : c = Whole(w)[s] /\ S = steps[w][s]
  OBVIOUS
<1>3. \A r : \A micro : LET x == Made(r, micro, Tot(s)) IN StepShare(x, r, micro, s)
  BY <1>1 DEF Made, StepShare
<1>4. ASSUME NEW x \in S
      PROVE  \E i \in 1 .. Len(c) : \E micro \in Holding(c[i]) : StepShare(x, c[i], micro, s)
  <2>1. PICK i \in 1 .. Len(c) : \E micro \in Holding(c[i]) : x = Made(c[i], micro, Tot(s))
    BY <1>1, <1>2 DEF StepHas
  <2>. QED  BY <1>3, <2>1
<1>5. \A x \in S : x.id \in IdsOf(c)
  BY <1>4 DEF IdsOf, StepShare
<1>6. ASSUME NEW i \in 1 .. Len(c) PROVE \E x \in S : x.id = c[i].id
  <2>1. PICK micro \in Holding(c[i]) : Made(c[i], micro, Tot(s)) \in S
    BY <1>1, <1>2 DEF StepHas
  <2>. QED  BY <1>3, <2>1 DEF StepShare
<1>7. {x.id : x \in S} = IdsOf(c)
  BY <1>5, <1>6 DEF IdsOf
<1>. QED  BY <1>1, <1>2, <1>4, <1>7

(* dp_actor.py:581-583: the averaged gradient is exactly the one weighted  *)
(* by tokens over the whole mini-batch: however rows are spread over       *)
(* workers and micro-batches of any size, the share of a row is its valid  *)
(* tokens by those of all rows.                                            *)
THEOREM SpecTokenWeighted == Spec => []TokenWeighted
<1>. DEFINE Ids(s) == {r.id : r \in UNION {steps[w][s] : w \in Workers}}
            All(s) == Total(Ids(s), [i \in Ids(s) |-> Tokens(i)])
<1>1. ASSUME IInv, DataInv, config.loss = "slqp", NEW s \in 1 .. config.rows,
             \A w \in Workers : s <= Len(steps[w]), NEW w \in Workers, NEW x \in steps[w][s]
      PROVE  x.share.up * config.sp * All(s) = Tokens(x.id) * x.share.down * World
  <2>. PICK ids : ids = Ids(s)
    OBVIOUS
  <2>. PICK all : all = All(s)
    OBVIOUS
  <2>0. ids = {y.id : y \in UNION {steps[v][s] : v \in Workers}} /\ all = Total(ids, [i \in ids |-> Tokens(i)])
    OBVIOUS
  <2>. HIDE DEF Ids, All
  <2>1. ConfigInv /\ DriverInv
    BY <1>1 DEF IInv
  <2>2. \A v \in Workers : s \in DOMAIN steps[v]
    <3>1. ASSUME NEW v \in Workers PROVE s \in DOMAIN steps[v]
      <4>1. steps[v] = << >> \/ steps[v] \in Seq(SUBSET Used)
        BY <1>1 DEF DataInv, FlowInv, InCall
      <4>2. PICK l \in Nat : l = Len(steps[v]) /\ DOMAIN steps[v] = 1 .. l
        BY <4>1
      <4>3. s <= l /\ s \in Nat /\ s >= 1
        BY <1>1, <4>2
      <4>. QED  BY <4>2, <4>3
    <3>. QED  BY <3>1
  <2>3. s \in 1 .. Turns
    BY <1>1, <2>2, StepShares
  <2>4. ids = AllIds(s)
    <3>1. \A v \in Workers : {y.id : y \in steps[v][s]} = IdsOf(Whole(v)[s])
      BY <1>1, <2>2, StepShares
    <3>2. \A i : i \in ids <=> \E v \in Workers : i \in {y.id : y \in steps[v][s]}
      BY <2>0
    <3>3. \A i : i \in AllIds(s) <=> \E v \in Workers : i \in IdsOf(Whole(v)[s])
      BY DEF AllIds
    <3>4. ASSUME NEW i PROVE i \in ids <=> i \in AllIds(s)
      BY <3>1, <3>2, <3>3
    <3>. QED  BY <2>0, <3>4 DEF AllIds
  <2>5. ids \in SUBSET Rows /\ IsFiniteSet(ids) /\ Tot(s) = config.sp * Total(ids, RowTokens)
    BY <2>1, <2>3, <2>4, TotIs
  <2>6. all = Total(ids, RowTokens) /\ all \in Nat /\ \A i \in ids : Tokens(i) \in Nat /\ Tokens(i) <= all
    <3>1. PICK f, g : f = [i \in ids |-> Tokens(i)] /\ g = RowTokens
      OBVIOUS
    <3>2. \A i \in ids : f[i] \in Nat /\ f[i] = g[i] /\ f[i] = Tokens(i)
      <4>1. \A i \in Rows : Tokens(i) \in Nat
        BY <2>1, TokensType
      <4>. QED  BY <2>5, <3>1, <4>1 DEF RowTokens
    <3>3. PICK h : h = [i \in ids |-> i]
      OBVIOUS
    <3>4. h \in Bijection(ids, ids) /\ \A i \in ids : f[i] \in Nat /\ f[i] = g[h[i]]
      BY <3>2, <3>3 DEF Bijection, Injection, Surjection, IsInjective
    <3>5. Total(ids, f) = Total(ids, g)
      BY <2>5, <3>4, TotalRenamed
    <3>6. ASSUME NEW i \in ids PROVE Total(ids, f) \in Nat /\ f[i] <= Total(ids, f)
      <4>1. Total(ids, f) = f[i] + Total(ids \ {i}, f)
        BY <2>5, <3>2, TotalRemove
      <4>2. IsFiniteSet(ids \ {i})
        BY <2>5, FS_Subset
      <4>3. Total(ids \ {i}, f) \in Nat
        BY <3>2, <4>2, TotalNat
      <4>. QED  BY <3>2, <4>1, <4>3
    <3>7. Total(ids, f) \in Nat
      BY <2>5, <3>2, TotalNat
    <3>. QED  BY <2>0, <3>1, <3>2, <3>5, <3>6, <3>7
  <2>7. PICK c \in Seq(Rec) : c = Whole(w)[s]
    BY <1>1, <2>2, StepsDone
  <2>8. PICK i \in 1 .. Len(c) : \E micro \in Holding(c[i]) : StepShare(x, c[i], micro, s)
    BY <1>1, <2>2, <2>7, StepShares
  <2>9. PICK micro \in Holding(c[i]) : StepShare(x, c[i], micro, s)
    BY <2>8
  <2>10. c[i] \in Rec
    BY <2>7
  <2>11. PICK mc \in Nat, tok \in Nat :
           /\ mc = TokensOf(micro) /\ tok = Tokens(x.id) /\ tok <= mc
           /\ x.share = Share(tok, mc, Tot(s), World)
    BY <2>1, <2>9, <2>10, HeldTokens DEF StepShare
  <2>12. x.id \in ids
    BY <1>1, <2>0
  <2>13. config.sp \in Nat \ {0} /\ World \in Nat
    BY <2>1, Numbers DEF ConfigInv
  <2>14. PICK p : p = config.sp
    OBVIOUS
  <2>15. PICK sh : sh = Share(tok, mc, p * all, World)
    OBVIOUS
  <2>16. sh.up * p * all = tok * sh.down * World
    <3>1. /\ tok \in Nat /\ mc \in Nat /\ all \in Nat /\ p \in Nat \ {0} /\ World \in Nat
          /\ tok <= mc /\ tok <= all /\ sh = Share(tok, mc, p * all, World)
      BY <2>6, <2>11, <2>12, <2>13, <2>14, <2>15
    <3>2. PICK tot : Times(tot, p, all) /\ sh = Share(tok, mc, tot, World)
      BY <3>1 DEF Times
    <3>3. Fair(sh, tok, all, p, World)
      BY ONLY <3>1, <3>2, Shares
    <3>. QED  BY <3>3 DEF Fair
  <2>17. x.share = sh
    BY <2>5, <2>6, <2>11, <2>14, <2>15
  <2>. QED  BY <2>11, <2>14, <2>16, <2>17
<1>2. IInv /\ DataInv => TokenWeighted
  BY <1>1 DEF TokenWeighted
<1>. QED  BY <1>2, SpecData, PTL

-----------------------------------------------------------------------------
(* karmarkar_karp decides: the order of sets is total, for each set that   *)
(* is not empty has its head among its items.                              *)
Headed(a) == IF a.items = {} THEN a = NoItems ELSE a.head \in a.items
SetOf(a, D) == a.items \subseteq D /\ a.sum \in Nat /\ (a.sum = 0 <=> a.items = {}) /\ Headed(a)
Apart(u, D, k) ==
  /\ DOMAIN u = 1 .. k /\ \A i \in 1 .. k : SetOf(u[i], D)
  /\ \A i, j \in 1 .. k : \A x \in D : x \in u[i].items /\ x \in u[j].items => i = j

(* The smallest row of two sets is the smaller of theirs.                  *)
LEMMA UnionHeaded ==
  ASSUME NEW a, NEW b, Headed(a), Headed(b)
  PROVE  Headed(Union(a, b))
<1>1. CASE a.items = {} /\ b.items = {}
  <2>1. a = NoItems /\ b = NoItems
    BY <1>1 DEF Headed
  <2>2. Union(NoItems, NoItems) = NoItems
    BY DEF Union, NoItems
  <2>3. NoItems.items = {}
    BY DEF NoItems
  <2>. QED  BY <2>1, <2>2, <2>3 DEF Headed
<1>2. CASE a.items = {} /\ b.items # {}
  BY <1>2 DEF Headed, Union
<1>3. CASE a.items # {}
  BY <1>3 DEF Headed, Union
<1>. QED  BY <1>1, <1>2, <1>3

(* Two sets neither of which is below the other have the same smallest     *)
(* row.                                                                    *)
LEMMA BelowTotal ==
  ASSUME NEW D \in SUBSET Nat, IsFiniteSet(D), NEW a, NEW b, SetOf(a, D), SetOf(b, D),
         ~Below(a, b), ~Below(b, a)
  PROVE  IF a.items = {} THEN a = b ELSE a.head \in a.items /\ a.head \in b.items
<1>1. a.sum \in Nat /\ b.sum \in Nat /\ a.items \in SUBSET D /\ b.items \in SUBSET D
  BY DEF SetOf
<1>2. a.sum = b.sum
  BY <1>1 DEF Below
<1>3. Cardinality(a.items) \in Nat /\ Cardinality(b.items) \in Nat
  BY <1>1, FS_Subset, FS_CardinalityType
<1>4. Cardinality(a.items) = Cardinality(b.items)
  BY <1>2, <1>3 DEF Below
<1>5. ~(a.head < b.head) /\ ~(b.head < a.head)
  BY <1>2, <1>4 DEF Below
<1>6. CASE a.items = {}
  <2>1. b.items = {}
    BY <1>2, <1>6 DEF SetOf
  <2>. QED  BY <1>6, <2>1 DEF SetOf, Headed
<1>7. CASE a.items # {}
  <2>1. b.items # {}
    BY <1>2, <1>7 DEF SetOf
  <2>2. a.head \in a.items /\ b.head \in b.items
    BY <1>7, <2>1 DEF SetOf, Headed
  <2>3. a.head \in Nat /\ b.head \in Nat
    BY <1>1, <2>2
  <2>. QED  BY <1>5, <1>7, <2>2, <2>3
<1>. QED  BY <1>6, <1>7

(* So sets can be sorted in one way,                                       *)
Arrangement(m, u, f, k) == /\ f \in Bijection(1 .. k, 1 .. k) /\ m = [i \in 1 .. k |-> u[f[i]]]
                           /\ \A i, j \in 1 .. k : i < j => ~Below(m[i], m[j])

(* A sorted state is an arrangement of the state it was sorted from.       *)
LEMMA SortedBy ==
  ASSUME NEW k \in Nat, NEW u, DOMAIN u = 1 .. k, NEW m \in Sorted(u)
  PROVE  \E f : Arrangement(m, u, f, k)
<1>1. PICK f \in Bijection(1 .. k, 1 .. k) : m = [i \in 1 .. k |-> u[f[i]]]
  BY DEF Sorted
<1>2. \A i, j \in 1 .. k : i < j => ~Below(m[i], m[j])
  BY <1>1 DEF Sorted, Decreasing
<1>. QED  BY <1>1, <1>2 DEF Arrangement

(* Two sorted arrangements of one state do not differ first at a place     *)
(* where one holds a set that is not empty,                                *)
LEMMA SortedPrefix ==
  ASSUME NEW D \in SUBSET Nat, IsFiniteSet(D), NEW k \in Nat, NEW u, Apart(u, D, k),
         NEW m, NEW f, Arrangement(m, u, f, k), NEW n, NEW g, Arrangement(n, u, g, k),
         NEW i \in 1 .. k, \A j \in 1 .. k : j < i => m[j] = n[j], m[i].items # {}
  PROVE  ~Below(n[i], m[i])
<1>1. f[i] \in 1 .. k /\ m[i] = u[f[i]]
  BY DEF Arrangement, Bijection, Injection
<1>2. PICK e \in 1 .. k : g[e] = f[i]
  BY <1>1 DEF Arrangement, Bijection, Surjection
<1>3. n[e] = m[i]
  BY <1>1, <1>2 DEF Arrangement
<1>4. ~(e < i)
  <2>1. ASSUME e < i PROVE FALSE
    <3>1. m[e] = m[i] /\ m[e] = u[f[e]] /\ f[e] \in 1 .. k
      BY <1>3, <2>1 DEF Arrangement, Bijection, Injection
    <3>2. PICK x \in u[f[i]].items : x \in D
      BY <1>1 DEF Apart, SetOf
    <3>3. f[e] = f[i]
      BY <1>1, <3>1, <3>2 DEF Apart
    <3>4. e = i
      BY <3>3 DEF Arrangement, Bijection, Injection, IsInjective
    <3>. QED  BY <2>1, <3>4
  <2>. QED  BY <2>1
<1>5. CASE e = i
  <2>1. n[i] = m[i] /\ m[i].sum \in Nat /\ Cardinality(m[i].items) \in Nat /\ m[i].head \in Nat
    <3>1. SetOf(m[i], D)
      BY <1>1 DEF Apart
    <3>2. m[i].head \in m[i].items /\ m[i].items \in SUBSET D
      BY <3>1 DEF SetOf, Headed
    <3>3. Cardinality(m[i].items) \in Nat
      BY <3>2, FS_Subset, FS_CardinalityType
    <3>. QED  BY <1>3, <1>5, <3>1, <3>2, <3>3 DEF SetOf
  <2>. QED  BY <2>1 DEF Below
<1>6. CASE i < e
  BY <1>3, <1>6 DEF Arrangement
<1>. QED  BY <1>4, <1>5, <1>6

(* so there is one sorted arrangement.                                     *)
LEMMA SortedOne ==
  ASSUME NEW D \in SUBSET Nat, IsFiniteSet(D), NEW k \in Nat, NEW u, Apart(u, D, k),
         NEW m \in Sorted(u), NEW n \in Sorted(u)
  PROVE  m = n
<1>1. DOMAIN u = 1 .. k
  BY DEF Apart
<1>2. PICK f : Arrangement(m, u, f, k)
  BY <1>1, SortedBy
<1>3. PICK g : Arrangement(n, u, g, k)
  BY <1>1, SortedBy
<1>4. \A i \in 1 .. k : /\ m[i] = u[f[i]] /\ f[i] \in 1 .. k /\ SetOf(m[i], D)
                        /\ n[i] = u[g[i]] /\ g[i] \in 1 .. k /\ SetOf(n[i], D)
  <2>1. ASSUME NEW i \in 1 .. k PROVE m[i] = u[f[i]] /\ f[i] \in 1 .. k
    BY <1>2 DEF Arrangement, Bijection, Injection
  <2>2. ASSUME NEW i \in 1 .. k PROVE n[i] = u[g[i]] /\ g[i] \in 1 .. k
    BY <1>3 DEF Arrangement, Bijection, Injection
  <2>. QED  BY <2>1, <2>2 DEF Apart
<1>. DEFINE Bad == {i \in Nat : i \in 1 .. k /\ ~(m[i] = n[i])}
<1>5. ASSUME Bad # {} PROVE FALSE
  <2>1. PICK i \in Bad : \A y \in Bad : i <= y
    BY <1>5, LeastNat
  <2>2. i \in 1 .. k /\ m[i] # n[i]
    OBVIOUS
  <2>3. \A j \in 1 .. k : j < i => m[j] = n[j]
    BY <2>1
  <2>. HIDE DEF Bad
  <2>4. m[i].items # {} => ~Below(n[i], m[i])
    BY <1>2, <1>3, <2>2, <2>3, SortedPrefix
  <2>5. n[i].items # {} => ~Below(m[i], n[i])
    <3>1. \A j \in 1 .. k : j < i => n[j] = m[j]
      BY <2>3
    <3>. QED  BY <1>2, <1>3, <2>2, <3>1, SortedPrefix
  <2>6. SetOf(m[i], D) /\ SetOf(n[i], D)
    BY <1>4, <2>2
  <2>7. CASE m[i].items = {}
    <3>1. n[i].items # {}
      BY <2>2, <2>6, <2>7 DEF SetOf, Headed
    <3>2. m[i].sum = 0 /\ n[i].sum \in Nat \ {0}
      BY <2>6, <2>7, <3>1 DEF SetOf
    <3>. QED  BY <2>5, <3>1, <3>2 DEF Below
  <2>8. CASE m[i].items # {} /\ n[i].items = {}
    <3>1. n[i].sum = 0 /\ m[i].sum \in Nat \ {0}
      BY <2>6, <2>8 DEF SetOf
    <3>. QED  BY <2>4, <2>8, <3>1 DEF Below
  <2>9. CASE m[i].items # {} /\ n[i].items # {}
    <3>1. m[i].head \in m[i].items /\ m[i].head \in n[i].items
      BY <2>4, <2>5, <2>6, <2>9, BelowTotal
    <3>2. m[i].head \in D
      BY <2>6, <3>1 DEF SetOf
    <3>3. PICK a \in 1 .. k, b \in 1 .. k : a = f[i] /\ b = g[i] /\ m[i] = u[a] /\ n[i] = u[b]
      BY <1>4, <2>2
    <3>4. a = b
      BY <3>1, <3>2, <3>3 DEF Apart
    <3>. QED  BY <2>2, <3>3, <3>4
  <2>. QED  BY <2>7, <2>8, <2>9
<1>6. \A i \in 1 .. k : m[i] = n[i]
  BY <1>5
<1>. QED  BY <1>2, <1>3, <1>6 DEF Arrangement

-----------------------------------------------------------------------------
(* a state leaves the heap in one way,                                     *)
Karp(H, D, k) ==
  /\ HeapOf(H, D, k)
  /\ \A s \in H : s[1].items # {} /\ \A i \in 1 .. k : Headed(s[i])

(* The sets of the states of the heap are sets of rows with their sums.    *)
LEMMA KarpSet ==
  ASSUME NEW D, NEW k \in Nat, NEW H, Karp(H, D, k), NEW s \in H, NEW i \in 1 .. k
  PROVE  SetOf(s[i], D)
BY DEF Karp, HeapOf, StateOf, SetOf

(* One state is popped.                                                    *)
LEMMA PoppedOne ==
  ASSUME NEW D \in SUBSET Nat, IsFiniteSet(D), NEW k \in Nat \ {0}, NEW H, Karp(H, D, k),
         NEW G \in SUBSET H, NEW s \in Popped(G, k), NEW t \in Popped(G, k)
  PROVE  s = t
<1>1. s \in G /\ t \in G /\ s \in H /\ t \in H /\ ~Before(s, t, k) /\ ~Before(t, s, k)
  BY DEF Popped
<1>2. 1 \in 1 .. k /\ k \in 1 .. k
  OBVIOUS
<1>3. SetOf(s[1], D) /\ SetOf(t[1], D) /\ SetOf(s[k], D) /\ SetOf(t[k], D)
  BY <1>1, <1>2, KarpSet
<1>4. PICK x \in Int, y \in Int : x = Spread(s, k) /\ y = Spread(t, k)
  BY <1>3 DEF Spread, SetOf
<1>5. x = y
  BY <1>1, <1>4 DEF Before
<1>6. ~Below(s[1], t[1]) /\ ~Below(t[1], s[1])
  BY <1>1, <1>4, <1>5 DEF Before
<1>7. s[1].items # {}
  BY <1>1 DEF Karp
<1>8. s[1].head \in s[1].items /\ s[1].head \in t[1].items
  BY <1>3, <1>6, <1>7, BelowTotal
<1>9. s[1].head \in D
  BY <1>3, <1>8 DEF SetOf
<1>10. \A p, q \in H : \A i, j \in 1 .. k : \A x1 \in D :
         x1 \in p[i].items /\ x1 \in q[j].items => p = q
  BY DEF Karp, HeapOf
<1>. QED  BY <1>1, <1>2, <1>8, <1>9, <1>10

(* two of them are merged in one way,                                      *)
LEMMA JoinedApart ==
  ASSUME NEW D, NEW k \in Nat \ {0}, NEW H, Karp(H, D, k), NEW s \in H, NEW t \in H, s # t
  PROVE  Apart(Joined(s, t, k), D, k)
<1>. PICK u : u = Joined(s, t, k)
  OBVIOUS
<1>1. DOMAIN u = 1 .. k /\ \A i \in 1 .. k : u[i] = Union(s[i], t[k + 1 - i])
  BY DEF Joined
<1>2. \A i \in 1 .. k : k + 1 - i \in 1 .. k
  OBVIOUS
<1>3. ASSUME NEW i \in 1 .. k PROVE SetOf(u[i], D)
  <2>1. PICK j \in 1 .. k : j = k + 1 - i
    BY <1>2
  <2>2. PICK a, b : a = s[i] /\ b = t[j]
    OBVIOUS
  <2>3. SetOf(a, D) /\ SetOf(b, D)
    BY <2>2, KarpSet
  <2>4. u[i] = Union(a, b)
    BY <1>1, <2>1, <2>2
  <2>5. Headed(Union(a, b))
    BY <2>3, UnionHeaded DEF SetOf
  <2>6. Union(a, b).sum = a.sum + b.sum /\ Union(a, b).items = a.items \cup b.items
    BY DEF Union
  <2>7. a.sum + b.sum \in Nat /\ (a.sum + b.sum = 0 <=> a.sum = 0 /\ b.sum = 0)
    BY <2>3 DEF SetOf
  <2>8. a.items \cup b.items \subseteq D /\ (a.items \cup b.items = {} <=> a.sum = 0 /\ b.sum = 0)
    BY <2>3 DEF SetOf
  <2>. QED  BY <2>4, <2>5, <2>6, <2>7, <2>8 DEF SetOf
<1>4. ASSUME NEW i \in 1 .. k, NEW j \in 1 .. k, NEW x \in D, x \in u[i].items, x \in u[j].items
      PROVE  i = j
  <2>1. PICK a \in 1 .. k, b \in 1 .. k : a = k + 1 - i /\ b = k + 1 - j
    BY <1>2
  <2>2. x \in s[i].items \cup t[a].items /\ x \in s[j].items \cup t[b].items
    BY <1>1, <1>4, <2>1 DEF Union
  <2>3. \A p, q \in H : \A i1, j1 \in 1 .. k : \A x1 \in D :
          x1 \in p[i1].items /\ x1 \in q[j1].items => p = q /\ i1 = j1
    BY DEF Karp, HeapOf
  <2>4. i = j \/ a = b
    BY <2>2, <2>3
  <2>. QED  BY <2>1, <2>4
<1>. QED  BY <1>1, <1>3, <1>4 DEF Apart

HeadsOf(m, s, k) ==
  /\ m[1].items # {} /\ \A i \in 1 .. k : Headed(m[i])
  /\ \E i \in 1 .. k : s[1].items \subseteq m[i].items

(* The sets of two states merged have the heads they had.                  *)
LEMMA MergedHead ==
  ASSUME NEW D, NEW k \in Nat \ {0}, NEW H, Karp(H, D, k), NEW s \in H, NEW t \in H, s # t,
         NEW m \in Merged(s, t, k)
  PROVE  HeadsOf(m, s, k)
<1>1. PICK u : u = Joined(s, t, k) /\ m \in Sorted(u) /\ Apart(u, D, k)
  BY JoinedApart DEF Merged, Joined
<1>2. PICK f : Arrangement(m, u, f, k)
  BY <1>1, SortedBy DEF Apart
<1>3. \A i \in 1 .. k : m[i] = u[f[i]] /\ f[i] \in 1 .. k
  BY <1>2 DEF Arrangement, Bijection, Injection
<1>4. \A i \in 1 .. k : SetOf(m[i], D)
  BY <1>1, <1>3 DEF Apart
<1>5. 1 \in 1 .. k
  OBVIOUS
<1>6. PICK p \in 1 .. k : f[p] = 1
  BY <1>2, <1>5 DEF Arrangement, Bijection, Surjection
<1>7. s[1].items # {} /\ s[1].items \subseteq m[p].items
  <2>1. u[1] = Union(s[1], t[k + 1 - 1])
    BY <1>1, <1>5 DEF Joined
  <2>2. s[1].items \subseteq u[1].items
    BY <2>1 DEF Union
  <2>. QED  BY <1>3, <1>6, <2>2 DEF Karp
<1>8. m[p].sum > 0 /\ m[1].sum \in Nat
  BY <1>4, <1>5, <1>7 DEF SetOf
<1>9. m[1].sum > 0
  <2>1. CASE p = 1
    BY <1>8, <2>1
  <2>2. CASE p # 1
    <3>1. ~Below(m[1], m[p])
      BY <1>2, <1>5, <2>2 DEF Arrangement
    <3>. QED  BY <1>4, <1>8, <3>1 DEF Below, SetOf
  <2>. QED  BY <2>1, <2>2
<1>. QED  BY <1>4, <1>5, <1>7, <1>9 DEF SetOf, HeadsOf

(* Two states are merged in one way.                                       *)
LEMMA MergedOne ==
  ASSUME NEW D \in SUBSET Nat, IsFiniteSet(D), NEW k \in Nat \ {0}, NEW H, Karp(H, D, k),
         NEW s \in H, NEW t \in H, s # t, NEW m \in Merged(s, t, k), NEW n \in Merged(s, t, k)
  PROVE  m = n
<1>1. PICK u : u = Joined(s, t, k) /\ m \in Sorted(u) /\ n \in Sorted(u) /\ Apart(u, D, k)
  BY JoinedApart DEF Merged, Joined
<1>. QED  BY <1>1, SortedOne

(* and so a round of the loop has one outcome, with one state less.        *)
Round(h, H, s, t, m, k) ==
  /\ s \in Popped(H, k) /\ t \in Popped(H \ {s}, k) /\ m \in Merged(s, t, k)
  /\ h = (H \ {s, t}) \cup {m} /\ s \in H /\ t \in H /\ s # t

(* A merge pops two states and puts their merge in.                        *)
LEMMA RoundOf ==
  ASSUME NEW H, NEW k, NEW h \in Merges(H, k)
  PROVE  \E s, t, m : Round(h, H, s, t, m, k)
<1>1. PICK s \in Popped(H, k) : \E t \in Popped(H \ {s}, k) : \E m \in Merged(s, t, k) :
        h = (H \ {s, t}) \cup {m}
  BY DEF Merges
<1>2. PICK t \in Popped(H \ {s}, k) : \E m \in Merged(s, t, k) : h = (H \ {s, t}) \cup {m}
  BY <1>1
<1>3. PICK m \in Merged(s, t, k) : h = (H \ {s, t}) \cup {m}
  BY <1>2
<1>4. s \in H /\ t \in H /\ s # t
  BY DEF Popped
<1>. QED  BY <1>3, <1>4 DEF Round

(* A round of merges has one outcome, and keeps what makes it so.          *)
LEMMA MergesOne ==
  ASSUME NEW D \in SUBSET Nat, IsFiniteSet(D), NEW k \in Nat \ {0}, NEW H, Karp(H, D, k),
         NEW h \in Merges(H, k)
  PROVE  /\ \A g \in Merges(H, k) : g = h
         /\ Karp(h, D, k) /\ Cardinality(H) = Cardinality(h) + 1
<1>1. PICK s, t, m : Round(h, H, s, t, m, k)
  BY RoundOf
<1>2. m \in Merged(s, t, k) /\ h = (H \ {s, t}) \cup {m} /\ s \in H /\ t \in H /\ s # t
  BY <1>1 DEF Round
<1>3. ASSUME NEW g \in Merges(H, k) PROVE g = h
  <2>1. PICK a, b, n : Round(g, H, a, b, n, k)
    BY RoundOf
  <2>2. a = s
    BY <1>1, <2>1, PoppedOne DEF Round
  <2>3. H \ {s} \in SUBSET H
    OBVIOUS
  <2>4. b = t
    BY <1>1, <2>1, <2>2, <2>3, PoppedOne DEF Round
  <2>5. n = m
    BY <1>1, <2>1, <2>2, <2>4, MergedOne DEF Round
  <2>. QED  BY <1>1, <2>1, <2>2, <2>4, <2>5 DEF Round
<1>4. /\ m[1].items # {} /\ \A i \in 1 .. k : Headed(m[i])
      /\ \E i \in 1 .. k : s[1].items \subseteq m[i].items
  <2>1. HeadsOf(m, s, k)
    BY <1>2, MergedHead
  <2>. QED  BY <2>1 DEF HeadsOf
<1>5. Karp(h, D, k)
  <2>1. HeapOf(h, D, k)
    BY MergesHeap DEF Karp
  <2>. QED  BY <1>2, <1>4, <2>1 DEF Karp
<1>6. m \notin H \ {s, t}
  <2>1. PICK i \in 1 .. k : s[1].items \subseteq m[i].items
    BY <1>4
  <2>2. PICK x \in s[1].items : x \in D
    <3>0. 1 \in 1 .. k
      OBVIOUS
    <3>1. SetOf(s[1], D) /\ s[1].items # {}
      BY <1>2, <3>0, KarpSet DEF Karp
    <3>. QED  BY <3>1 DEF SetOf
  <2>3. \A p, q \in H : \A i1, j1 \in 1 .. k : \A x1 \in D :
          x1 \in p[i1].items /\ x1 \in q[j1].items => p = q
    BY DEF Karp, HeapOf
  <2>4. 1 \in 1 .. k
    OBVIOUS
  <2>. QED  BY <1>2, <2>1, <2>2, <2>3, <2>4
<1>7. Cardinality(H) = Cardinality(h) + 1
  <2>1. IsFiniteSet(H) /\ Cardinality(H) \in Nat
    BY FS_CardinalityType DEF Karp, HeapOf
  <2>2. IsFiniteSet(H \ {s}) /\ Cardinality(H \ {s}) = Cardinality(H) - 1
    BY <1>2, <2>1, FS_RemoveElement
  <2>3. PICK G : G = H \ {s} /\ G \ {t} = H \ {s, t} /\ t \in G
    BY <1>2
  <2>4. IsFiniteSet(H \ {s, t}) /\ Cardinality(H \ {s, t}) = Cardinality(H) - 2
    <3>1. IsFiniteSet(G \ {t}) /\ Cardinality(G \ {t}) = Cardinality(G) - 1
      BY <2>2, <2>3, FS_RemoveElement
    <3>. QED  BY <2>1, <2>2, <2>3, <3>1
  <2>5. Cardinality(h) = Cardinality(H \ {s, t}) + 1
    BY <1>2, <1>6, <2>4, FS_AddElement
  <2>. QED  BY <2>1, <2>4, <2>5
<1>. QED  BY <1>3, <1>5, <1>7

-----------------------------------------------------------------------------
(* The loop has one outcome.                                               *)
LEMMA SinglesKarp ==
  ASSUME NEW D, IsFiniteSet(D), D # {}, NEW k \in Nat \ {0},
         NEW load, DOMAIN load = D, \A i \in D : load[i] \in Nat \ {0}
  PROVE  Karp(Singles(load, k), D, k)
<1>1. HeapOf(Singles(load, k), D, k)
  BY SinglesHeap
<1>2. ASSUME NEW s \in Singles(load, k)
      PROVE  s[1].items # {} /\ \A i \in 1 .. k : Headed(s[i])
  <2>1. PICK r \in D : s = [i \in 1 .. k |-> IF i = 1 THEN Item(r, load[r]) ELSE NoItems]
    BY DEF Singles
  <2>2. s[1] = Item(r, load[r]) /\ \A i \in 1 .. k : i = 1 \/ s[i] = NoItems
    BY <2>1
  <2>3. Headed(Item(r, load[r])) /\ Item(r, load[r]).items # {}
    BY DEF Headed, Item
  <2>4. Headed(NoItems)
    BY DEF Headed, NoItems
  <2>. QED  BY <2>2, <2>3, <2>4
<1>. QED  BY <1>1, <1>2 DEF Karp

Rounds(f, m, load, k, h) ==
  f[0] = Singles(load, k) /\ f[m] = h /\ \A i \in 1 .. m : f[i] \in Merges(f[i - 1], k)

(* So every round has one outcome,                                         *)
LEMMA RoundsKeep ==
  ASSUME NEW D \in SUBSET Nat, IsFiniteSet(D), D # {}, NEW k \in Nat \ {0},
         NEW load, DOMAIN load = D, \A i \in D : load[i] \in Nat \ {0},
         NEW h, NEW m \in Nat, NEW f, Rounds(f, m, load, k, h)
  PROVE  \A i \in 0 .. m : /\ Karp(f[i], D, k) /\ Cardinality(f[i]) \in Nat
                           /\ Cardinality(f[i]) + i = Cardinality(Singles(load, k))
<1>. DEFINE Good(i) == /\ Karp(f[i], D, k) /\ Cardinality(f[i]) \in Nat
                       /\ Cardinality(f[i]) + i = Cardinality(Singles(load, k))
            Bad == {i \in Nat : i \in 0 .. m /\ ~Good(i)}
<1>1. \A H : Karp(H, D, k) => Cardinality(H) \in Nat
  BY FS_CardinalityType DEF Karp, HeapOf
<1>2. Good(0)
  <2>1. Karp(f[0], D, k) /\ f[0] = Singles(load, k)
    BY SinglesKarp DEF Rounds
  <2>2. PICK n \in Nat : n = Cardinality(f[0])
    BY <1>1, <2>1
  <2>. QED  BY <2>1, <2>2
<1>3. ASSUME Bad # {} PROVE FALSE
  <2>1. PICK i \in Bad : \A y \in Bad : i <= y
    <3>1. Bad \in SUBSET Nat
      OBVIOUS
    <3>. HIDE DEF Bad
    <3>. QED  BY <1>3, <3>1, LeastNat
  <2>2. i \in 0 .. m /\ ~Good(i)
    OBVIOUS
  <2>3. i # 0
    <3>. HIDE DEF Good
    <3>. QED  BY <1>2, <2>2
  <2>4. PICK j \in Nat : j = i - 1 /\ j \in 0 .. m /\ i \in 1 .. m
    BY <2>2, <2>3
  <2>5. j \notin Bad
    <3>. HIDE DEF Bad
    <3>. QED  BY <2>1, <2>4
  <2>6. Good(j)
    <3>. HIDE DEF Good
    <3>. QED  BY <2>4, <2>5
  <2>7. f[i] \in Merges(f[j], k)
    BY <2>4 DEF Rounds
  <2>8. Karp(f[i], D, k) /\ Cardinality(f[j]) = Cardinality(f[i]) + 1
    BY <2>6, <2>7, MergesOne
  <2>9. PICK n \in Nat : n = Cardinality(f[i])
    BY <1>1, <2>8
  <2>. QED  BY <2>2, <2>4, <2>6, <2>8, <2>9
<1>. QED  BY <1>3

Weighs(load, D) == DOMAIN load = D /\ \A i \in D : load[i] \in Nat \ {0}

(* and karmarkar_karp has one result: two workers that balance the same    *)
(* slice cut it alike.                                                     *)
LEMMA ChainOne ==
  ASSUME NEW D \in SUBSET Nat, IsFiniteSet(D), D # {}, NEW k \in Nat \ {0},
         NEW load, Weighs(load, D),
         NEW h, Chain(load, k, h), Cardinality(h) = 1,
         NEW g, Chain(load, k, g), Cardinality(g) = 1
  PROVE  g = h
<1>0. DOMAIN load = D /\ \A i \in D : load[i] \in Nat \ {0}
  BY DEF Weighs
<1>1. PICK m \in Nat : \E f : Rounds(f, m, load, k, h)
  BY DEF Chain, Rounds
<1>2. PICK f : Rounds(f, m, load, k, h)
  BY <1>1
<1>3. PICK n \in Nat : \E e : Rounds(e, n, load, k, g)
  BY DEF Chain, Rounds
<1>4. PICK e : Rounds(e, n, load, k, g)
  BY <1>3
<1>5. \A i \in 0 .. m : /\ Karp(f[i], D, k) /\ Cardinality(f[i]) \in Nat
                        /\ Cardinality(f[i]) + i = Cardinality(Singles(load, k))
  BY <1>0, <1>2, RoundsKeep
<1>6. \A i \in 0 .. n : /\ Karp(e[i], D, k) /\ Cardinality(e[i]) \in Nat
                        /\ Cardinality(e[i]) + i = Cardinality(Singles(load, k))
  BY <1>0, <1>4, RoundsKeep
<1>7. m = n
  <2>1. f[m] = h /\ e[n] = g /\ m \in 0 .. m /\ n \in 0 .. n
    BY <1>2, <1>4 DEF Rounds
  <2>2. 1 + m = Cardinality(Singles(load, k)) /\ 1 + n = Cardinality(Singles(load, k))
    BY <1>5, <1>6, <2>1
  <2>. QED  BY <2>2
<1>. DEFINE Bad == {i \in Nat : i \in 0 .. m /\ ~(f[i] = e[i])}
<1>8. ASSUME Bad # {} PROVE FALSE
  <2>1. PICK i \in Bad : \A y \in Bad : i <= y
    <3>1. Bad \in SUBSET Nat
      OBVIOUS
    <3>. HIDE DEF Bad
    <3>. QED  BY <1>8, <3>1, LeastNat
  <2>2. i \in 0 .. m /\ f[i] # e[i] /\ f[0] = e[0]
    BY <1>2, <1>4 DEF Rounds
  <2>3. PICK j \in Nat : j = i - 1 /\ j \in 0 .. m /\ i \in 1 .. m /\ i \in 1 .. n
    BY <1>7, <2>2
  <2>4. j \notin Bad
    BY <2>1, <2>3
  <2>5. f[j] = e[j]
    BY <2>3, <2>4
  <2>6. f[i] \in Merges(f[j], k) /\ e[i] \in Merges(f[j], k)
    BY <1>2, <1>4, <2>3, <2>5 DEF Rounds
  <2>7. Karp(f[j], D, k)
    BY <1>5, <2>3
  <2>8. f[i] = e[i]
    BY <2>6, <2>7, MergesOne
  <2>. QED  BY <2>2, <2>8
<1>9. f[m] = e[m]
  <2>1. m \in 0 .. m
    OBVIOUS
  <2>. QED  BY <1>8, <2>1
<1>. QED  BY <1>2, <1>4, <1>7, <1>9 DEF Rounds

(* How many micro-batches are cut.                                         *)
LEMMA NeededIn ==
  ASSUME ConfigInv, NEW c \in Seq(Rec), c # << >>
  PROVE  /\ NeededOf(c) \in 1 .. Len(c) /\ DOMAIN LoadsOf(c) = 1 .. Len(c)
         /\ \A i \in 1 .. Len(c) : LoadsOf(c)[i] \in Nat \ {0}
<1>1. PICK n \in Nat \ {0} : n = Len(c)
  OBVIOUS
<1>2. PICK f : f = LensOf(c)
  OBVIOUS
<1>3. DOMAIN f = 1 .. n /\ \A i \in 1 .. n : f[i] = len[c[i].id]
  BY <1>1, <1>2 DEF LensOf
<1>4. \A i \in 1 .. n : f[i] \in Nat \ {0}
  <2>1. \A i \in Rows : len[i] \in Nat \ {0}
    BY TokensType
  <2>2. \A i \in 1 .. n : c[i] \in Rec
    BY <1>1
  <2>3. \A i \in 1 .. n : c[i].id \in Rows
    BY <2>2 DEF Rec
  <2>. QED  BY <1>3, <2>1, <2>3
<1>5. PICK t \in Nat \ {0} : t = Total(DOMAIN f, f)
  <2>1. IsFiniteSet(1 .. n)
    BY FS_Interval
  <2>2. Total(1 .. n, f) \in Nat /\ \A i \in 1 .. n : f[i] <= Total(1 .. n, f)
    BY <1>4, <2>1, TotalNat
  <2>3. f[1] <= Total(1 .. n, f) /\ f[1] \in Nat \ {0}
    BY <1>4, <2>2
  <2>. QED  BY <1>3, <2>2, <2>3
<1>6. PICK l \in Nat \ {0} : l = Limit
  BY Numbers
<1>7. PICK p \in Nat \ {0} : p = Ceil(t, l)
  <2>1. (t + l - 1) \div l \in Nat
    OBVIOUS
  <2>2. (t + l - 1) \div l # 0
    <3>1. t + l - 1 < l * ((t + l - 1) \div l) + l
      OBVIOUS
    <3>. QED  BY <2>1, <3>1
  <2>. QED  BY <2>1, <2>2 DEF Ceil
<1>8. NeededOf(c) = IF p < n THEN p ELSE n
  BY <1>1, <1>2, <1>5, <1>6, <1>7 DEF NeededOf
<1>9. NeededOf(c) \in 1 .. n
  BY <1>8
<1>10. DOMAIN LoadsOf(c) = 1 .. n /\ \A i \in 1 .. n : LoadsOf(c)[i] = Workload(f[i])
  BY <1>1, <1>2 DEF LoadsOf
<1>11. \A x \in Nat \ {0} : Workload(x) \in Nat \ {0}
  BY DEF Workload
<1>. QED  BY <1>1, <1>4, <1>9, <1>10, <1>11

(* The number of micro-batches all workers agree on.                       *)
LEMMA SharedIn ==
  ASSUME ConfigInv, DriverInv, phase # "computing", NEW s \in 1 .. Turns
  PROVE  Shared(s) \in Nat \ {0}
<1>1. PICK n \in Nat \ {0} : n = Mini
  BY DEF ConfigInv
<1>2. ASSUME NEW v \in Workers PROVE NeededOf(Whole(v)[s]) \in 1 .. n
  <2>1. PICK k \in Nat \ {0} : k = Turns /\ WholeOf(Whole(v), Chunk(v), k)
    BY Wholes
  <2>2. PICK r \in Seq(Seq(Rec)) : r = Whole(v) /\ Len(r) = k
    BY <2>1 DEF WholeOf
  <2>3. s \in 1 .. k
    BY <2>1
  <2>4. PICK c \in Seq(Rec) : c = r[s]
    BY <2>2, <2>3
  <2>5. c # << >> /\ Len(c) <= n
    BY <1>1, <2>1, <2>2, <2>3, <2>4 DEF WholeOf
  <2>6. NeededOf(c) \in 1 .. Len(c)
    BY <2>5, NeededIn
  <2>. QED  BY <2>2, <2>4, <2>5, <2>6
<1>3. PICK S : S = {NeededOf(Whole(v)[s]) : v \in Workers}
  OBVIOUS
<1>4. S \in SUBSET (1 .. n)
  BY <1>2, <1>3
<1>5. S # {}
  <2>1. 1 \in Workers
    <3>1. PICK x \in Nat \ {0} : x = World
      BY Numbers
    <3>. QED  BY <3>1 DEF Workers
  <2>. QED  BY <1>3, <2>1
<1>6. Max(S) \in S
  BY <1>4, <1>5, MaxIn
<1>. QED  BY <1>3, <1>4, <1>6 DEF Shared

-----------------------------------------------------------------------------
(* So a slice is cut in one way, and workers that run the same slice make  *)
(* the same step of it.                                                    *)
LEMMA CutOne ==
  ASSUME ConfigInv, DriverInv, phase # "computing", NEW s \in 1 .. Turns,
         NEW c \in Seq(Rec), c # << >>, NEW M, CutAs(M, c, s), NEW N, CutAs(N, c, s)
  PROVE  M = N
<1>1. CASE ~config.dynamic
  BY <1>1 DEF CutAs
<1>2. CASE config.dynamic
  <2>1. PICK k \in Nat \ {0} : k = Shared(s)
    BY SharedIn
  <2>2. PICK load : load = LoadsOf(c)
    OBVIOUS
  <2>3. PICK h : Chain(load, k, h) /\ Cardinality(h) = 1 /\ M = MicrosOf(c, k, h)
    BY <1>2, <2>1, <2>2 DEF CutAs
  <2>4. PICK g : Chain(load, k, g) /\ Cardinality(g) = 1 /\ N = MicrosOf(c, k, g)
    BY <1>2, <2>1, <2>2 DEF CutAs
  <2>5. PICK n \in Nat \ {0} : n = Len(c)
    OBVIOUS
  <2>6. PICK D : D = 1 .. n
    OBVIOUS
  <2>7. DOMAIN load = D /\ \A i \in D : load[i] \in Nat \ {0}
    BY <2>2, <2>5, <2>6, NeededIn
  <2>8. D \in SUBSET Nat /\ IsFiniteSet(D) /\ D # {}
    <3>1. IsFiniteSet(1 .. n)
      BY FS_Interval
    <3>2. 1 \in D /\ \A x \in D : x \in Nat
      BY <2>6
    <3>3. IsFiniteSet(D)
      BY <2>6, <3>1
    <3>. QED  BY ONLY <3>2, <3>3
  <2>9. g = h
    <3>1. Weighs(load, D)
      BY <2>7 DEF Weighs
    <3>. QED  BY <2>3, <2>4, <2>8, <3>1, ChainOne
  <2>. QED  BY <2>3, <2>4, <2>9
<1>. QED  BY <1>1, <1>2

(* Two steps made of one slice are the same.                               *)
LEMMA StepOne ==
  ASSUME ConfigInv, DriverInv, phase # "computing", NEW s \in 1 .. Turns,
         NEW c \in Seq(Rec), c # << >>, NEW S, StepOf(S, c, s), NEW T, StepOf(T, c, s)
  PROVE  S = T
<1>1. PICK M : CutAs(M, c, s) /\ Yielded(S, M, Tot(s))
  BY DEF StepOf
<1>2. PICK N : CutAs(N, c, s) /\ Yielded(T, N, Tot(s))
  BY DEF StepOf
<1>3. M = N
  BY <1>1, <1>2, CutOne
<1>4. ASSUME NEW x \in S PROVE x \in T
  <2>1. PICK m \in 1 .. Len(M) : \E i \in 1 .. Len(M[m]) : x = Made(M[m][i], M[m], Tot(s))
    BY <1>1 DEF Yielded
  <2>2. PICK i \in 1 .. Len(M[m]) : x = Made(M[m][i], M[m], Tot(s))
    BY <2>1
  <2>. QED  BY <1>2, <1>3, <2>2 DEF Yielded
<1>5. ASSUME NEW x \in T PROVE x \in S
  <2>1. PICK m \in 1 .. Len(N) : \E i \in 1 .. Len(N[m]) : x = Made(N[m][i], N[m], Tot(s))
    BY <1>2 DEF Yielded
  <2>2. PICK i \in 1 .. Len(N[m]) : x = Made(N[m][i], N[m], Tot(s))
    BY <2>1
  <2>. QED  BY <1>1, <1>3, <2>2 DEF Yielded
<1>. QED  BY <1>4, <1>5

(* A step has no more rows than its slice.                                 *)
LEMMA StepSize ==
  ASSUME NEW c \in Seq(Rec), c # << >>, NEW s, NEW S, StepOf(S, c, s)
  PROVE  Cardinality(S) \in 1 .. Len(c)
<1>1. PICK M \in Seq(Seq(Rec)) : (\E ix : \E off : CutOf(M, ix, off, c)) /\ Yielded(S, M, Tot(s))
  BY DEF StepOf
<1>2. PICK ix : \E off : CutOf(M, ix, off, c)
  BY <1>1
<1>3. PICK off : CutOf(M, ix, off, c)
  BY <1>2
<1>4. PICK k \in Nat, l \in Nat \ {0} :
        k = Len(M) /\ Offsets(off, M, k) /\ off[k + 1] = l /\ l = Len(c)
  BY <1>3 DEF CutOf
<1>. DEFINE Found(p, m, i) == m \in 1 .. k /\ i \in 1 .. Len(M[m]) /\ p = off[m] + i
            From(p, x) == \E m : \E i : Found(p, m, i) /\ x = Made(M[m][i], M[m], Tot(s))
            F == [x \in S |-> CHOOSE p \in 1 .. l : From(p, x)]
<1>5. ASSUME NEW x \in S PROVE F[x] \in 1 .. l /\ From(F[x], x)
  <2>1. PICK m \in 1 .. k : \E i \in 1 .. Len(M[m]) : x = Made(M[m][i], M[m], Tot(s))
    BY <1>1, <1>4 DEF Yielded
  <2>2. PICK i \in 1 .. Len(M[m]) : x = Made(M[m][i], M[m], Tot(s))
    BY <2>1
  <2>3. off[m] + i \in 1 .. l
    BY <1>4, OffsetsApart
  <2>4. PICK p \in 1 .. l : p = off[m] + i
    BY <2>3
  <2>5. From(p, x)
    BY <2>2, <2>4
  <2>6. F[x] = CHOOSE q \in 1 .. l : From(q, x)
    OBVIOUS
  <2>. HIDE DEF From, F
  <2>. QED  BY <2>5, <2>6
<1>6. ASSUME NEW x \in S, NEW y \in S, F[x] = F[y] PROVE x = y
  <2>1. PICK p : p = F[x] /\ From(p, x) /\ From(p, y)
    <3>. HIDE DEF From, F
    <3>. QED  BY <1>5, <1>6
  <2>2. PICK m : \E i : Found(p, m, i) /\ x = Made(M[m][i], M[m], Tot(s))
    BY <2>1
  <2>3. PICK i : Found(p, m, i) /\ x = Made(M[m][i], M[m], Tot(s))
    BY <2>2
  <2>4. PICK n : \E j : Found(p, n, j) /\ y = Made(M[n][j], M[n], Tot(s))
    BY <2>1
  <2>5. PICK j : Found(p, n, j) /\ y = Made(M[n][j], M[n], Tot(s))
    BY <2>4
  <2>6. m = n /\ i = j
    <3>1. Offsets(off, M, k)
      BY <1>4
    <3>2. m \in 1 .. k /\ i \in 1 .. Len(M[m]) /\ n \in 1 .. k /\ j \in 1 .. Len(M[n])
          /\ off[m] + i = off[n] + j
      BY <2>3, <2>5
    <3>. QED  BY ONLY <3>1, <3>2, OffsetsApart, k \in Nat
  <2>. QED  BY <2>3, <2>5, <2>6
<1>7. F \in Injection(S, 1 .. l)
  <2>1. F \in [S -> 1 .. l]
    BY <1>5
  <2>. HIDE DEF F
  <2>. QED  BY <1>6, <2>1 DEF Injection, IsInjective
<1>8. IsFiniteSet(1 .. l) /\ Cardinality(1 .. l) = l
  BY FS_Interval
<1>9. IsFiniteSet(S) /\ Cardinality(S) <= l
  <2>. HIDE DEF F
  <2>. QED  BY <1>7, <1>8, FS_Injection
<1>10. S # {}
  <2>1. 1 \in 1 .. off[k + 1] /\ Offsets(off, M, k) /\ k \in Nat
    BY <1>4
  <2>2. PICK m \in 1 .. k : \E i \in 1 .. Len(M[m]) : 1 = off[m] + i
    BY ONLY <2>1, OffsetsPlace
  <2>3. PICK i \in 1 .. Len(M[m]) : 1 = off[m] + i
    BY <2>2
  <2>. QED  BY <1>1, <1>4, <2>3 DEF Yielded
<1>11. Cardinality(S) \in Nat /\ Cardinality(S) # 0
  BY <1>9, <1>10, FS_CardinalityType, FS_EmptySet
<1>. QED  BY <1>4, <1>9, <1>11

-----------------------------------------------------------------------------
(* When the update is done a worker has made a step of each of its slices. *)
LEMMA AllDone ==
  ASSUME IInv, DataInv, phase = "done", NEW w \in Workers
  PROVE  /\ ConfigInv /\ DriverInv /\ Turns \in Nat \ {0}
         /\ steps[w] \in Seq(SUBSET Used) /\ Len(steps[w]) = Turns
         /\ \A s \in 1 .. Turns : /\ Whole(w)[s] \in Seq(Rec) /\ Whole(w)[s] # << >>
                                  /\ Len(Whole(w)[s]) <= Mini
                                  /\ StepOf(steps[w][s], Whole(w)[s], s)
                                  /\ StepHas(steps[w][s], Whole(w)[s], s)
<1>1. ConfigInv /\ DriverInv /\ FlowInv(w) /\ pc[w] = "replied"
  BY DEF IInv, DataInv, AllReplied
<1>2. PICK k \in Nat \ {0} : k = Turns /\ WholeOf(Whole(w), Chunk(w), k)
  BY <1>1, Wholes
<1>3. PICK r \in Seq(Seq(Rec)) : r = Whole(w) /\ Len(r) = k
  BY <1>2 DEF WholeOf
<1>4. slices[w] = << >>
  BY <1>1 DEF FlowInv, ReplyInv
<1>5. PICK f \in Seq(SUBSET Used) : f = steps[w]
  BY <1>1 DEF FlowInv
<1>6. Len(f) + 0 = k
  <2>1. Len(f) + Len(slices[w]) = Len(r)
    BY <1>1, <1>3, <1>5 DEF FlowInv, WholeInv
  <2>2. Len(slices[w]) = 0
    BY <1>4
  <2>. QED  BY <1>3, <2>1, <2>2
<1>7. Len(f) = k
  BY <1>5, <1>6
<1>8. ASSUME NEW s \in 1 .. k
      PROVE  /\ r[s] \in Seq(Rec) /\ r[s] # << >> /\ Len(r[s]) <= Mini
             /\ StepOf(f[s], r[s], s) /\ StepHas(f[s], r[s], s)
  <2>1. r[s] \in Seq(Rec)
    BY <1>3
  <2>2. r[s] # << >> /\ Len(r[s]) <= Mini
    BY <1>2, <1>3 DEF WholeOf
  <2>3. \A t \in 1 .. Len(f) : StepOf(f[t], r[t], t)
    BY <1>1, <1>3, <1>5 DEF FlowInv, WholeInv
  <2>4. StepOf(f[s], r[s], s)
    BY <1>7, <2>3
  <2>. QED  BY <2>1, <2>2, <2>4, StepRows
<1>. QED  BY <1>1, <1>2, <1>3, <1>5, <1>7, <1>8

(* What a step has of a row is the row's.                                  *)
LEMMA MadeRow ==
  ASSUME phase # "computing", NEW r, NEW micro, NEW tot
  PROVE  Made(r, micro, tot).id = r.id
BY DEF Made

(* Where a row of the batch is among the chunks: its rank, the first       *)
(* worker of it and its place in the chunk.                                *)
LEMMA RowPlace ==
  ASSUME ConfigInv, DriverInv, NEW i \in Rows
  PROVE  \E w \in Workers : IsCollect(w) /\ \E p \in 1 .. Size : i = Row(w, p)
<1>1. PICK n \in Nat \ {0}, d \in Nat \ {0}, s \in Nat \ {0} :
        n = config.rows /\ d = config.dp /\ s = config.sp /\ World = d * s /\ n % (d * s) = 0
  BY DEF ConfigInv, World
<1>2. PICK a \in Nat \ {0} : a = Size /\ n = d * a
  <2>1. PICK b \in Nat \ {0} : b = d * s
    OBVIOUS
  <2>2. PICK q \in Nat : n = b * q
    <3>1. n = b * (n \div b) + (n % b) /\ n \div b \in Nat
      OBVIOUS
    <3>. QED  BY <1>1, <2>1, <3>1
  <2>3. PICK y \in Nat : y = s * q
    OBVIOUS
  <2>4. n = d * y
    BY <2>1, <2>2, <2>3
  <2>5. n \div d = y
    BY <2>4
  <2>6. Size \in Nat \ {0}
    BY Numbers
  <2>. QED  BY <1>1, <2>4, <2>5, <2>6 DEF Size
<1>3. PICK at \in 1 .. n : order[at] = i
  BY <1>1 DEF DriverInv, Bijection, Surjection, Rows
<1>4. PICK q \in Nat, p \in 1 .. a : at = q * a + p /\ q < d
  <2>1. PICK x \in Nat : x = at - 1 /\ x < n
    BY <1>3
  <2>2. x = a * (x \div a) + (x % a) /\ x \div a \in Nat /\ x % a \in 0 .. a - 1
    OBVIOUS
  <2>3. PICK y \in Nat, e \in 0 .. a - 1 : y = x \div a /\ x = a * y + e
    BY <2>2
  <2>4. PICK g \in Nat : g = y * a
    OBVIOUS
  <2>5. x = g + e
    BY <2>3, <2>4
  <2>6. y < d
    <3>1. y >= d => y * a >= d * a
      OBVIOUS
    <3>. QED  BY <1>2, <2>1, <2>3, <2>4, <2>5, <3>1
  <2>7. e + 1 \in 1 .. a /\ at = g + (e + 1)
    BY <2>1, <2>5
  <2>. QED  BY <2>4, <2>6, <2>7
<1>5. PICK g \in Nat : g = q * s
  OBVIOUS
<1>6. g + 1 \in Workers
  <2>1. (q + 1) * s <= d * s
    BY <1>4
  <2>2. (q + 1) * s = q * s + s
    OBVIOUS
  <2>3. PICK k \in Nat : k = d * s
    OBVIOUS
  <2>4. g + 1 \in 1 .. k
    BY <1>5, <2>1, <2>2, <2>3
  <2>. QED  BY <1>1, <2>3, <2>4 DEF Workers
<1>7. DpRank(g + 1) = q /\ IsCollect(g + 1)
  <2>1. g + 1 - 1 = q * s
    BY <1>5
  <2>2. (q * s) \div s = q /\ (q * s) % s = 0
    OBVIOUS
  <2>. QED  BY <1>1, <2>1, <2>2 DEF DpRank, IsCollect
<1>8. Row(g + 1, p) = i
  BY <1>2, <1>3, <1>4, <1>7 DEF Row
<1>. QED  BY <1>2, <1>6, <1>7, <1>8

(* The first worker of a rank is one.                                      *)
LEMMA CollectOne ==
  ASSUME ConfigInv, NEW v \in Workers, NEW w \in Workers, IsCollect(v), IsCollect(w),
         DpRank(v) = DpRank(w)
  PROVE  v = w
<1>1. PICK s \in Nat \ {0} : s = config.sp
  BY DEF ConfigInv
<1>2. PICK x \in Nat, y \in Nat : x = v - 1 /\ y = w - 1
  <2>1. PICK k \in Nat : k = World
    BY Numbers
  <2>. QED  BY <2>1 DEF Workers
<1>3. x % s = 0 /\ y % s = 0 /\ x \div s = y \div s
  BY <1>1, <1>2 DEF IsCollect, DpRank
<1>4. x = s * (x \div s) + (x % s) /\ y = s * (y \div s) + (y % s)
  OBVIOUS
<1>5. x = y
  BY <1>3, <1>4
<1>6. v \in Int /\ w \in Int
  BY DEF Workers
<1>. QED  BY <1>2, <1>5, <1>6

-----------------------------------------------------------------------------
(* Pieces that are not empty are no more than what they are pieces of.     *)
LEMMA PiecesMany ==
  ASSUME NEW k \in Nat, NEW ss, NEW off, Offsets(off, ss, k), \A m \in 1 .. k : Len(ss[m]) # 0
  PROVE  off[k + 1] >= k
<1>. DEFINE Bad == {m \in Nat : m \in 1 .. k + 1 /\ ~(off[m] >= m - 1)}
<1>0. \A m \in 1 .. k + 1 : off[m] \in Nat
  BY DEF Offsets
<1>1. ASSUME Bad # {} PROVE FALSE
  <2>1. PICK m \in Bad : \A y \in Bad : m <= y
    <3>1. Bad \in SUBSET Nat
      OBVIOUS
    <3>. HIDE DEF Bad
    <3>. QED  BY <1>1, <3>1, LeastNat
  <2>2. m \in 1 .. k + 1 /\ ~(off[m] >= m - 1)
    OBVIOUS
  <2>3. m # 1
    BY <1>0, <2>2
  <2>4. PICK l \in 1 .. k : l = m - 1
    BY <2>2, <2>3
  <2>5. l \notin Bad
    BY <2>1, <2>4
  <2>6. off[l] >= l - 1 /\ off[l] \in Nat
    BY <1>0, <2>4, <2>5
  <2>7. off[m] = off[l] + Len(ss[l]) /\ Len(ss[l]) \in Nat \ {0}
    BY <2>4 DEF Offsets
  <2>. QED  BY <2>2, <2>4, <2>6, <2>7
<1>2. k + 1 \in 1 .. k + 1
  OBVIOUS
<1>. QED  BY <1>0, <1>1, <1>2

(* Who has a row in which step.                                            *)
Users(i) ==
  {p \in {v \in Workers : IsCollect(v)} \X Rows :
     p[2] <= Len(steps[p[1]]) /\ \E r \in steps[p[1]][p[2]] : r.id = i}

(* Every row is in the steps of the workers of one rank.                   *)
LEMMA UserOne ==
  ASSUME IInv, DataInv, phase = "done", NEW i \in Rows
  PROVE  Cardinality(Users(i)) = 1
<1>1. ConfigInv /\ DriverInv
  BY DEF IInv
<1>2. PICK w \in Workers : IsCollect(w) /\ \E p \in 1 .. Size : i = Row(w, p)
  BY <1>1, RowPlace
<1>3. PICK p \in 1 .. Size : i = Row(w, p)
  BY <1>2
<1>4. PICK k \in Nat \ {0} : k = Turns
  BY AllDone
<1>5. PICK off : ChunkAt(w, k, off)
  BY <1>1, <1>4, WholeAt
<1>6. Offsets(off, Whole(w), k) /\ off[k + 1] = Size
  BY <1>5 DEF ChunkAt
<1>7. PICK s \in 1 .. k : \E j \in 1 .. Len(Whole(w)[s]) : p = off[s] + j
  <2>1. p \in 1 .. off[k + 1] /\ k \in Nat
    BY <1>6
  <2>. QED  BY ONLY <1>6, <2>1, OffsetsPlace
<1>8. PICK j \in 1 .. Len(Whole(w)[s]) : p = off[s] + j
  BY <1>7
<1>9. Whole(w)[s][j].id = i
  BY <1>3, <1>5, <1>8 DEF ChunkAt
<1>10. \E r \in steps[w][s] : r.id = i
  <2>1. StepHas(steps[w][s], Whole(w)[s], s)
    BY <1>4, AllDone
  <2>2. PICK micro : Made(Whole(w)[s][j], micro, Tot(s)) \in steps[w][s]
    BY <2>1 DEF StepHas
  <2>. QED  BY <1>9, <2>2, MadeRow
<1>11. s \in Rows /\ s <= Len(steps[w])
  <2>1. Len(steps[w]) = k
    BY <1>4, AllDone
  <2>2. off[k + 1] >= k
    <3>1. ASSUME NEW m \in 1 .. k PROVE Len(Whole(w)[m]) # 0
      <4>1. Whole(w)[m] \in Seq(Rec) /\ Whole(w)[m] # << >>
        BY <1>5 DEF ChunkAt
      <4>. QED  BY <4>1
    <3>. QED  BY <1>6, <3>1, PiecesMany
  <2>3. PICK a \in Nat \ {0}, n \in Nat \ {0} : a = Size /\ n = config.rows
    BY <1>1, Numbers DEF ConfigInv
  <2>4. a <= n
    <3>1. 1 \in Workers
      <4>1. PICK x \in Nat \ {0} : x = World
        BY <1>1, Numbers
      <4>. QED  BY <4>1 DEF Workers
    <3>2. PICK y \in Nat : y = DpRank(1) * a /\ y + a \in Rows
      <4>1. a \in 1 .. a
        OBVIOUS
      <4>2. DpRank(1) \in Nat /\ DpRank(1) * a + a \in Rows
        BY <1>1, <2>3, <3>1, <4>1, Numbers
      <4>. QED  BY <4>2
    <3>. QED  BY <2>3, <3>2 DEF Rows
  <2>. QED  BY <1>6, <2>1, <2>2, <2>3, <2>4 DEF Rows
<1>12. <<w, s>> \in Users(i)
  BY <1>2, <1>10, <1>11 DEF Users
<1>13. ASSUME NEW v \in Workers, IsCollect(v), NEW t \in Rows, t <= Len(steps[v]),
              NEW r \in steps[v][t], r.id = i
       PROVE  v = w /\ t = s
  <2>1. t \in 1 .. k
    <3>1. Len(steps[v]) = k
      BY <1>4, AllDone
    <3>. QED  BY <1>13, <3>1 DEF Rows
  <2>2. StepHas(steps[v][t], Whole(v)[t], t)
    BY <1>4, <2>1, AllDone
  <2>3. PICK l \in 1 .. Len(Whole(v)[t]) :
          \E micro \in Holding(Whole(v)[t][l]) : r = Made(Whole(v)[t][l], micro, Tot(t))
    BY <2>2 DEF StepHas
  <2>4. Whole(v)[t][l].id = i
    BY <1>13, <2>3, MadeRow
  <2>5. PICK o : ChunkAt(v, k, o)
    BY <1>1, <1>4, WholeAt
  <2>6. Offsets(o, Whole(v), k) /\ o[k + 1] = Size /\ Whole(v)[t][l].id = Row(v, o[t] + l)
    BY <2>1, <2>5 DEF ChunkAt
  <2>7. o[t] + l \in 1 .. Size
    <3>1. o[t] + l \in 1 .. o[k + 1]
      BY <2>1, <2>6, OffsetsApart
    <3>. QED  BY <2>6, <3>1
  <2>8. DpRank(v) = DpRank(w)
    BY <1>1, <1>3, <2>4, <2>6, <2>7, RowRank
  <2>9. v = w
    BY <1>1, <1>2, <1>13, <2>8, CollectOne
  <2>10. off[t] + l \in 1 .. Size /\ i = Row(w, off[t] + l)
    <3>1. off[t] + l \in 1 .. off[k + 1]
      BY <1>6, <2>1, <2>9, OffsetsApart
    <3>. QED  BY <1>5, <1>6, <2>1, <2>4, <2>9, <3>1 DEF ChunkAt
  <2>11. off[t] + l = p
    <3>1. PICK e \in 1 .. Size : e = off[t] + l /\ i = Row(w, e)
      BY <2>10
    <3>2. Row(w, e) = Row(w, p)
      BY <1>3, <3>1
    <3>3. e = p
      BY <1>1, <3>2, RowRank
    <3>. QED  BY <3>1, <3>3
  <2>12. t = s
    <3>1. l \in 1 .. Len(Whole(w)[t]) /\ off[s] + j = off[t] + l
      BY <1>8, <2>9, <2>11
    <3>. QED  BY <1>6, <1>8, <2>1, <3>1, OffsetsApart
  <2>. QED  BY <2>9, <2>12
<1>14. Users(i) = {<<w, s>>}
  <2>1. ASSUME NEW q \in Users(i) PROVE q = <<w, s>>
    <3>1. PICK v \in Workers, t \in Rows : q = <<v, t>> /\ IsCollect(v) /\ t <= Len(steps[v])
                                           /\ \E r \in steps[v][t] : r.id = i
      BY <2>1 DEF Users
    <3>. QED  BY <1>13, <3>1
  <2>. QED  BY <1>12, <2>1
<1>. QED  BY <1>14, FS_Singleton

(* An update uses every row once: the steps are the same in number on all  *)
(* workers, none exceeds its mini-batch, workers of one rank agree, and    *)
(* the ranks share the rows between them.                                  *)
THEOREM SpecEachRowOnce == Spec => []EachRowOnce
<1>1. ASSUME IInv, DataInv, phase = "done" PROVE EachRowOnce
  <2>1. ConfigInv /\ DriverInv
    BY <1>1 DEF IInv
  <2>2. ASSUME NEW v \in Workers, NEW w \in Workers
        PROVE  Len(steps[v]) = Len(steps[w])
    BY <1>1, AllDone
  <2>3. ASSUME NEW v \in Workers, NEW w \in Workers, DpRank(v) = DpRank(w)
        PROVE  steps[v] = steps[w]
    <3>1. Whole(v) = Whole(w)
      <4>1. Chunk(v) = Chunk(w)
        BY <2>3 DEF Chunk
      <4>. QED  BY <4>1 DEF Whole
    <3>2. PICK k \in Nat \ {0} : k = Turns
      BY <1>1, AllDone
    <3>3. PICK f \in Seq(SUBSET Used), g \in Seq(SUBSET Used) :
            f = steps[v] /\ g = steps[w] /\ Len(f) = k /\ Len(g) = k
      <4>1. steps[v] \in Seq(SUBSET Used) /\ Len(steps[v]) = k
        BY <1>1, <3>2, AllDone
      <4>2. steps[w] \in Seq(SUBSET Used) /\ Len(steps[w]) = k
        BY <1>1, <3>2, AllDone
      <4>. QED  BY <4>1, <4>2
    <3>4. ASSUME NEW s \in 1 .. k PROVE f[s] = g[s]
      <4>1. PICK c \in Seq(Rec) : c = Whole(v)[s] /\ c # << >> /\ StepOf(f[s], c, s)
        BY <1>1, <3>2, <3>3, AllDone
      <4>2. StepOf(g[s], c, s)
        BY <1>1, <3>1, <3>2, <3>3, <4>1, AllDone
      <4>. QED  BY <1>1, <2>1, <3>2, <4>1, <4>2, StepOne
    <3>. QED  BY <3>3, <3>4
  <2>4. ASSUME NEW w \in Workers, NEW s \in DOMAIN steps[w]
        PROVE  Cardinality(steps[w][s]) \in 1 .. Mini
    <3>1. s \in 1 .. Turns
      BY <1>1, <2>4, AllDone
    <3>2. PICK c \in Seq(Rec) : c = Whole(w)[s] /\ c # << >> /\ Len(c) <= Mini
                                /\ StepOf(steps[w][s], c, s)
      BY <1>1, <3>1, AllDone
    <3>3. Cardinality(steps[w][s]) \in 1 .. Len(c)
      BY <3>2, StepSize
    <3>4. Mini \in Nat /\ Len(c) \in Nat
      BY <2>1 DEF ConfigInv
    <3>. QED  BY <3>2, <3>3, <3>4
  <2>5. ASSUME NEW i \in Rows PROVE Cardinality(Users(i)) = 1
    BY <1>1, UserOne
  <2>. QED  BY <2>2, <2>3, <2>4, <2>5 DEF EachRowOnce, Users
<1>2. IInv /\ DataInv => EachRowOnce
  BY <1>1 DEF EachRowOnce
<1>. QED  BY <1>2, SpecData, PTL

-----------------------------------------------------------------------------
(* No number of a set is above its largest.                                *)
LEMMA MaxAbove ==
  ASSUME NEW n \in Int, NEW S \in SUBSET Int, S # {}, \A y \in S : y <= n
  PROVE  Max(S) \in S /\ \A y \in S : y <= Max(S)
<1>1. PICK D : D = {n - x : x \in S}
  OBVIOUS
<1>2. D \in SUBSET Nat /\ D # {}
  <2>1. \A x \in S : n - x \in Nat
    OBVIOUS
  <2>. QED  BY <1>1, <2>1
<1>3. PICK m \in D : \A y \in D : m <= y
  BY <1>2, LeastNat
<1>4. PICK x \in S : m = n - x
  BY <1>1
<1>5. ASSUME NEW y \in S PROVE x >= y
  <2>1. n - y \in D /\ n - y \in Nat /\ m \in Nat /\ x \in Int /\ y \in Int
    BY <1>1, <1>2
  <2>. QED  BY <1>3, <1>4, <2>1
<1>6. \A y \in S : y \in Int
  OBVIOUS
<1>7. PICK u : u = Max(S)
  OBVIOUS
<1>8. u = CHOOSE a \in S : \A b \in S : a >= b
  BY <1>7 DEF Max
<1>9. u \in S /\ \A b \in S : u >= b
  BY <1>5, <1>8
<1>. QED  BY <1>6, <1>7, <1>9

(* Where numbers stand in a proportion at most, so do their totals.        *)
LEMMA TotalScaled ==
  ASSUME NEW S, IsFiniteSet(S), NEW f, NEW g, NEW b \in Nat, NEW c \in Nat,
         \A x \in S : f[x] \in Nat /\ g[x] \in Nat /\ b * f[x] <= c * g[x]
  PROVE  b * Total(S, f) <= c * Total(S, g)
<1>. DEFINE Good(s) == b * Total(s, f) <= c * Total(s, g)
            Bad == {s \in SUBSET S : ~Good(s)}
<1>1. ASSUME Bad # {} PROVE FALSE
  <2>1. PICK s \in Bad : \A u \in Bad : ~(u \subseteq s /\ u # s)
    <3>1. Bad \in SUBSET (SUBSET S)
      OBVIOUS
    <3>. HIDE DEF Bad
    <3>. QED  BY <1>1, <3>1, LeastSet
  <2>2. s \in SUBSET S /\ ~Good(s)
    OBVIOUS
  <2>3. s # {}
    <3>1. c * 0 = 0 /\ b * 0 = 0
      OBVIOUS
    <3>2. Good({})
      BY <3>1, TotalEmpty
    <3>. HIDE DEF Good
    <3>. QED  BY <2>2, <3>2
  <2>4. PICK x \in s : TRUE
    BY <2>3
  <2>5. PICK t \in SUBSET S : t = s \ {x}
    BY <2>2
  <2>6. t \notin Bad
    BY <2>1, <2>4, <2>5
  <2>7. b * Total(t, f) <= c * Total(t, g)
    BY <2>6
  <2>8. IsFiniteSet(s) /\ IsFiniteSet(t)
    BY <2>2, FS_Subset
  <2>9. \A y \in s : g[y] \in Nat /\ f[y] \in Nat
    BY <2>2
  <2>10. Total(s, f) = f[x] + Total(t, f) /\ Total(s, g) = g[x] + Total(t, g)
    BY <2>5, <2>8, <2>9, TotalRemove
  <2>11. Total(t, g) \in Nat /\ Total(t, f) \in Nat
    BY <2>5, <2>8, <2>9, TotalNat
  <2>12. f[x] \in Nat /\ g[x] \in Nat /\ b * f[x] <= c * g[x]
    BY <2>2
  <2>13. PICK m \in Nat, n \in Nat, d \in Nat, e \in Nat :
           m = f[x] /\ n = g[x] /\ d = Total(t, f) /\ e = Total(t, g)
    BY <2>11, <2>12
  <2>14. /\ c * (n + e) = c * n + c * e /\ c * n \in Nat /\ c * e \in Nat
         /\ b * (m + d) = b * m + b * d /\ b * m \in Nat /\ b * d \in Nat
    OBVIOUS
  <2>15. b * (m + d) <= c * (n + e)
    <3>1. b * m <= c * n /\ b * d <= c * e
      BY <2>7, <2>12, <2>13
    <3>. QED  BY ONLY <2>14, <3>1
  <2>16. Good(s)
    BY <2>10, <2>13, <2>15
  <2>. HIDE DEF Good, Bad
  <2>. QED  BY <2>2, <2>16
<1>2. S \notin Bad
  BY <1>1
<1>. QED  BY <1>2

(* The same with one number for each of the others.                        *)
LEMMA TotalScale ==
  ASSUME NEW S, IsFiniteSet(S), NEW f, NEW g, NEW c \in Nat,
         \A x \in S : f[x] \in Nat /\ g[x] \in Nat /\ f[x] <= c * g[x]
  PROVE  Total(S, f) <= c * Total(S, g)
<1>1. \A x \in S : f[x] \in Nat /\ g[x] \in Nat /\ 1 * f[x] <= c * g[x]
  OBVIOUS
<1>2. 1 * Total(S, f) <= c * Total(S, g)
  BY <1>1, TotalScaled
<1>3. Total(S, f) \in Nat
  BY TotalNat
<1>4. 1 * Total(S, f) = Total(S, f)
  BY <1>3
<1>. QED  BY ONLY <1>2, <1>4

(* Two sets apart from each other together have both their totals.         *)
LEMMA TotalJoined ==
  ASSUME NEW S, IsFiniteSet(S), NEW f, \A x \in S : f[x] \in Nat,
         NEW A \in SUBSET S, NEW B \in SUBSET S, A \cap B = {}
  PROVE  Total(A \cup B, f) = Total(A, f) + Total(B, f)
<1>. DEFINE Good(s) == Total(s \cup B, f) = Total(s, f) + Total(B, f)
            Bad == {s \in SUBSET A : ~Good(s)}
<1>0. ASSUME NEW s \in SUBSET S PROVE IsFiniteSet(s) /\ Total(s, f) \in Nat
  <2>1. IsFiniteSet(s)
    BY FS_Subset
  <2>. QED  BY <2>1, TotalNat
<1>1. ASSUME Bad # {} PROVE FALSE
  <2>1. PICK s \in Bad : \A u \in Bad : ~(u \subseteq s /\ u # s)
    <3>1. Bad \in SUBSET (SUBSET A) /\ IsFiniteSet(A)
      BY <1>0
    <3>. HIDE DEF Bad
    <3>. QED  BY <1>1, <3>1, LeastSet
  <2>2. s \in SUBSET A /\ ~Good(s)
    OBVIOUS
  <2>3. s # {}
    <3>1. {} \cup B = B /\ Total(B, f) \in Nat
      BY <1>0
    <3>2. Good({})
      BY <3>1, TotalEmpty
    <3>. HIDE DEF Good
    <3>. QED  BY <2>2, <3>2
  <2>4. PICK x \in s : TRUE
    BY <2>3
  <2>5. PICK t \in SUBSET A : t = s \ {x}
    BY <2>2
  <2>6. t \notin Bad
    BY <2>1, <2>4, <2>5
  <2>7. Total(t \cup B, f) = Total(t, f) + Total(B, f)
    BY <2>6
  <2>8. PICK u \in SUBSET S, v \in SUBSET S : u = s \cup B /\ v = t \cup B
    BY <2>2
  <2>9. x \in u /\ u \ {x} = v /\ s \in SUBSET S /\ t \in SUBSET S /\ t = s \ {x} /\ x \in s
    BY <2>2, <2>4, <2>5, <2>8
  <2>10. Total(u, f) = f[x] + Total(v, f)
    BY <1>0, <2>9, TotalRemove
  <2>11. Total(s, f) = f[x] + Total(t, f)
    BY <1>0, <2>9, TotalRemove
  <2>12. f[x] \in Nat /\ Total(t, f) \in Nat /\ Total(B, f) \in Nat
    BY <1>0, <2>9
  <2>13. Good(s)
    BY <2>7, <2>8, <2>10, <2>11, <2>12
  <2>. HIDE DEF Good, Bad
  <2>. QED  BY <2>2, <2>13
<1>2. A \notin Bad
  BY <1>1
<1>. QED  BY <1>2

-----------------------------------------------------------------------------
(* karmarkar_karp keeps the sets of a state about even: they are in the    *)
(* order of their sums, and none is above another by more than e says of   *)
(* one of its own rows.                                                    *)
Descends(s, k) == \A i, j \in 1 .. k : i < j => s[j].sum <= s[i].sum
Summed(s, f, k) == \A i \in 1 .. k : s[i].sum = Total(s[i].items, f)
Above(a, b, e) == a.sum <= b.sum \/ \E x \in a.items : a.sum <= b.sum + e[x]
Level(s, f, e, k) ==
  Descends(s, k) /\ Summed(s, f, k) /\ \A i, j \in 1 .. k : Above(s[i], s[j], e)
Numbered(f, D) == \A x \in D : f[x] \in Nat

(* The heaviest sets of one state and the lightest of the other even out.  *)
LEMMA UnionAbove ==
  ASSUME NEW D, NEW e, Numbered(e, D), NEW a, NEW b, NEW c, NEW d,
         a.items \subseteq D, c.items \subseteq D,
         {a.sum, b.sum, c.sum, d.sum} \subseteq Nat,
         Above(a, b, e), Above(c, d, e),
         a.sum <= b.sum \/ c.sum <= d.sum
  PROVE  Above(Union(a, c), Union(b, d), e)
<1>1. PICK u : u = Union(a, c)
  OBVIOUS
<1>2. u.sum = a.sum + c.sum /\ u.items = a.items \cup c.items
  BY <1>1 DEF Union
<1>3. PICK v : v = Union(b, d)
  OBVIOUS
<1>4. v.sum = b.sum + d.sum
  BY <1>3 DEF Union
<1>5. PICK p \in Nat, q \in Nat, r \in Nat, s \in Nat : p = a.sum /\ q = b.sum /\ r = c.sum /\ s = d.sum
  OBVIOUS
<1>6. u.sum = p + r /\ v.sum = q + s
  BY <1>2, <1>4, <1>5
<1>7. p <= q \/ r <= s
  BY <1>5
<1>8. CASE p <= q /\ r <= s
  BY <1>6, <1>8, <1>1, <1>3 DEF Above
<1>9. CASE p <= q /\ ~(r <= s)
  <2>1. PICK x \in c.items : r <= s + e[x]
    BY <1>5, <1>9 DEF Above
  <2>2. e[x] \in Nat /\ x \in u.items
    BY <1>2, <2>1 DEF Numbered
  <2>3. u.sum <= v.sum + e[x]
    BY <1>6, <1>9, <2>1, <2>2
  <2>. QED  BY <1>1, <1>3, <2>2, <2>3 DEF Above
<1>10. CASE r <= s /\ ~(p <= q)
  <2>1. PICK x \in a.items : p <= q + e[x]
    BY <1>5, <1>10 DEF Above
  <2>2. e[x] \in Nat /\ x \in u.items
    BY <1>2, <2>1 DEF Numbered
  <2>3. u.sum <= v.sum + e[x]
    BY <1>6, <1>10, <2>1, <2>2
  <2>. QED  BY <1>1, <1>3, <2>2, <2>3 DEF Above
<1>. QED  BY <1>7, <1>8, <1>9, <1>10

Separate(s, t, k) == \A i, j \in 1 .. k : s[i].items \cap t[j].items = {}

(* So a merge of two even states is even,                                  *)
LEMMA MergedLevel ==
  ASSUME NEW D, IsFiniteSet(D), NEW k \in Nat, NEW f, Numbered(f, D), NEW e, Numbered(e, D),
         NEW s, NEW t, StateOf(s, D, k), StateOf(t, D, k), Level(s, f, e, k), Level(t, f, e, k),
         Separate(s, t, k), NEW m \in Merged(s, t, k)
  PROVE  Level(m, f, e, k)
<1>1. PICK u : u = [i \in 1 .. k |-> Union(s[i], t[k + 1 - i])]
  OBVIOUS
<1>2. m \in Sorted(u) /\ DOMAIN u = 1 .. k
  BY <1>1 DEF Merged
<1>3. PICK g \in Bijection(1 .. k, 1 .. k) : \A i \in 1 .. k : m[i] = u[g[i]]
  BY <1>2, SortedIs
<1>4. \A i, j \in 1 .. k : i < j => ~Below(m[i], m[j])
  BY <1>2, SortedIs
<1>5. \A i \in 1 .. k : g[i] \in 1 .. k
  BY <1>3 DEF Bijection, Injection
<1>6. \A i \in 1 .. k : k + 1 - i \in 1 .. k /\ u[i] = Union(s[i], t[k + 1 - i])
  BY <1>1
<1>7. ASSUME NEW i \in 1 .. k
      PROVE  /\ s[i].items \in SUBSET D /\ t[i].items \in SUBSET D
             /\ s[i].sum \in Nat /\ t[i].sum \in Nat
             /\ s[i].sum = Total(s[i].items, f) /\ t[i].sum = Total(t[i].items, f)
  BY DEF StateOf, Level, Summed
<1>8. ASSUME NEW i \in 1 .. k
      PROVE  /\ u[i].sum = Total(u[i].items, f) /\ u[i].sum \in Nat
  <2>1. PICK j \in 1 .. k : j = k + 1 - i
    BY <1>6
  <2>11. u[i] = Union(s[i], t[j])
    BY <1>6, <2>1
  <2>2. u[i].items = s[i].items \cup t[j].items /\ u[i].sum = s[i].sum + t[j].sum
    BY ONLY <2>11 DEF Union
  <2>3. s[i].items \cap t[j].items = {}
    BY DEF Separate
  <2>4. Total(s[i].items \cup t[j].items, f) = Total(s[i].items, f) + Total(t[j].items, f)
    <3>1. s[i].items \in SUBSET D /\ t[j].items \in SUBSET D
      BY <1>7
    <3>2. \A x \in D : f[x] \in Nat
      BY DEF Numbered
    <3>. QED  BY ONLY <2>3, <3>1, <3>2, IsFiniteSet(D), TotalJoined
  <2>. QED  BY <1>7, <2>2, <2>4
<1>9. ASSUME NEW i \in 1 .. k, NEW j \in 1 .. k PROVE Above(u[i], u[j], e)
  <2>1. PICK a \in 1 .. k, b \in 1 .. k : a = k + 1 - i /\ b = k + 1 - j
    BY <1>6
  <2>2. s[i].sum <= s[j].sum \/ t[a].sum <= t[b].sum
    <3>1. CASE i = j
      BY <1>7, <3>1
    <3>2. CASE j < i
      BY <3>2 DEF Level, Descends
    <3>3. CASE i < j
      <4>1. b < a
        BY <2>1, <3>3
      <4>. QED  BY <4>1 DEF Level, Descends
    <3>. QED  BY <3>1, <3>2, <3>3
  <2>3. Above(s[i], s[j], e) /\ Above(t[a], t[b], e)
    BY DEF Level
  <2>4. {s[i].sum, s[j].sum, t[a].sum, t[b].sum} \subseteq Nat
    BY <1>7
  <2>5. Above(Union(s[i], t[a]), Union(s[j], t[b]), e)
    BY <1>7, <2>2, <2>3, <2>4, UnionAbove
  <2>. QED  BY <1>6, <2>1, <2>5
<1>10. Summed(m, f, k)
  BY <1>3, <1>5, <1>8 DEF Summed
<1>11. \A i, j \in 1 .. k : Above(m[i], m[j], e)
  BY <1>3, <1>5, <1>9
<1>12. Descends(m, k)
  <2>1. ASSUME NEW i \in 1 .. k, NEW j \in 1 .. k, i < j PROVE m[j].sum <= m[i].sum
    <3>1. m[i].sum \in Nat /\ m[j].sum \in Nat
      BY <1>3, <1>5, <1>8
    <3>2. ~(m[i].sum < m[j].sum)
      BY <1>4, <2>1 DEF Below
    <3>. QED  BY <3>1, <3>2
  <2>. QED  BY <2>1 DEF Descends
<1>. QED  BY <1>10, <1>11, <1>12 DEF Level

(* and so is every state after a round of the loop.                        *)
LEMMA MergesLevel ==
  ASSUME NEW D, IsFiniteSet(D), NEW k \in Nat, NEW f, Numbered(f, D), NEW e, Numbered(e, D),
         NEW H, HeapOf(H, D, k), \A s \in H : Level(s, f, e, k), NEW h \in Merges(H, k)
  PROVE  \A s \in h : Level(s, f, e, k)
<1>1. PICK s : \E t, m : Round(h, H, s, t, m, k)
  BY RoundOf
<1>2. PICK t : \E m : Round(h, H, s, t, m, k)
  BY <1>1
<1>3. PICK m : Round(h, H, s, t, m, k)
  BY <1>2
<1>4. /\ s \in H /\ t \in H /\ s # t /\ m \in Merged(s, t, k) /\ h = (H \ {s, t}) \cup {m}
  BY <1>3 DEF Round
<1>5. StateOf(s, D, k) /\ StateOf(t, D, k)
  BY <1>4 DEF HeapOf
<1>6. Separate(s, t, k)
  <2>1. ASSUME NEW i \in 1 .. k, NEW j \in 1 .. k, NEW x \in s[i].items, x \in t[j].items PROVE FALSE
    <3>1. x \in D
      BY <1>5 DEF StateOf
    <3>. QED  BY <1>4, <2>1, <3>1 DEF HeapOf
  <2>. QED  BY <2>1 DEF Separate
<1>7. Level(m, f, e, k)
  BY <1>4, <1>5, <1>6, MergedLevel
<1>. QED  BY <1>4, <1>7

-----------------------------------------------------------------------------
(* The total of one element is its number.                                 *)
LEMMA TotalOne ==
  ASSUME NEW x, NEW f, f[x] \in Nat
  PROVE  Total({x}, f) = f[x]
<1>1. PICK S : S = {x}
  OBVIOUS
<1>2. IsFiniteSet(S) /\ x \in S /\ S \ {x} = {} /\ \A y \in S : f[y] \in Nat
  BY <1>1, FS_Singleton
<1>3. Total(S, f) = f[x] + Total(S \ {x}, f)
  BY <1>2, TotalRemove
<1>. QED  BY <1>1, <1>2, <1>3, TotalEmpty

(* The states of one row each are even up to that row.                     *)
LEMMA SinglesLevel ==
  ASSUME NEW D, NEW k \in Nat \ {0}, NEW load, Weighs(load, D), NEW s \in Singles(load, k)
  PROVE  Level(s, load, load, k)
<1>0. DOMAIN load = D /\ \A x \in D : load[x] \in Nat
  BY DEF Weighs
<1>1. PICK r \in D : s = [i \in 1 .. k |-> IF i = 1 THEN Item(r, load[r]) ELSE NoItems]
  BY <1>0 DEF Singles
<1>2. ASSUME NEW i \in 1 .. k
      PROVE  /\ i = 1 => s[i].sum = load[r] /\ s[i].items = {r}
             /\ i # 1 => s[i].sum = 0 /\ s[i].items = {}
  <2>1. s[i] = IF i = 1 THEN Item(r, load[r]) ELSE NoItems
    BY <1>1
  <2>. QED  BY <2>1 DEF Item, NoItems
<1>3. load[r] \in Nat
  BY <1>0
<1>4. Descends(s, k)
  <2>1. ASSUME NEW i \in 1 .. k, NEW j \in 1 .. k, i < j PROVE s[j].sum <= s[i].sum
    <3>1. j # 1
      BY <2>1
    <3>2. s[j].sum = 0 /\ s[i].sum \in Nat
      BY <1>2, <1>3, <3>1
    <3>. QED  BY <3>2
  <2>. QED  BY <2>1 DEF Descends
<1>5. Summed(s, load, k)
  <2>1. ASSUME NEW i \in 1 .. k PROVE s[i].sum = Total(s[i].items, load)
    <3>1. CASE i = 1
      <4>1. Total({r}, load) = load[r]
        BY <1>3, TotalOne
      <4>. QED  BY <1>2, <3>1, <4>1
    <3>2. CASE i # 1
      BY <1>2, <3>2, TotalEmpty
    <3>. QED  BY <3>1, <3>2
  <2>. QED  BY <2>1 DEF Summed
<1>6. ASSUME NEW i \in 1 .. k, NEW j \in 1 .. k PROVE Above(s[i], s[j], load)
  <2>1. s[j].sum \in Nat
    BY <1>2, <1>3
  <2>2. CASE i = 1
    <3>1. r \in s[i].items /\ s[i].sum <= s[j].sum + load[r]
      BY <1>2, <1>3, <2>1, <2>2
    <3>. QED  BY <3>1 DEF Above
  <2>3. CASE i # 1
    BY <1>2, <2>1, <2>3 DEF Above
  <2>. QED  BY <2>2, <2>3
<1>. QED  BY <1>4, <1>5, <1>6 DEF Level

(* A row comes at its place when rows are sorted by load.                  *)
LEMMA PlaceOf ==
  ASSUME NEW n \in Nat, NEW load, DOMAIN load = 1 .. n, \A i \in 1 .. n : load[i] \in Nat,
         NEW b, b = InOrder(DOMAIN load, ByLoad(DOMAIN load, load))
  PROVE  /\ b \in Bijection(1 .. n, 1 .. n)
         /\ \A p \in 1 .. n : Place(b[p], load) = p
         /\ \A p, q \in 1 .. n : p < q => load[b[p]] <= load[b[q]]
<1>1. PICK D : D = 1 .. n /\ DOMAIN load = D
  OBVIOUS
<1>2. IsFiniteSet(D) /\ Cardinality(D) = n
  BY <1>1, FS_Interval
<1>3. PICK B : B = ByLoad(D, load)
  OBVIOUS
<1>4. StrictTotal(D, B)
  <2>1. D \in SUBSET Int /\ \A i \in D : load[i] \in Int
    BY <1>1
  <2>. QED  BY <1>3, <2>1, ByLoadTotal
<1>5. b \in Bijection(1 .. n, D) /\ \A i, j \in 1 .. n : i < j => <<b[i], b[j]>> \in B
  <2>1. b = InOrder(D, B)
    BY <1>1, <1>3
  <2>. QED  BY <1>2, <1>4, <2>1, InOrderSorted
<1>6. /\ \A p \in 1 .. n : b[p] \in D
      /\ \A p, q \in 1 .. n : b[p] = b[q] => p = q
      /\ \A x \in D : \E p \in 1 .. n : b[p] = x
  BY <1>5 DEF Bijection, Injection, Surjection, IsInjective
<1>7. ASSUME NEW p \in 1 .. n PROVE Place(b[p], load) = p
  <2>1. PICK S : S = {j \in D : <<b[p], j>> \notin B}
    OBVIOUS
  <2>2. Place(b[p], load) = Cardinality(S)
    BY <1>1, <1>3, <2>1 DEF Place
  <2>3. ASSUME NEW q \in 1 .. n PROVE b[q] \in S <=> q <= p
    <3>1. CASE q = p
      BY <1>4, <1>6, <2>1, <3>1 DEF StrictTotal
    <3>2. CASE p < q
      BY <1>5, <2>1, <3>2
    <3>3. CASE q < p
      <4>1. <<b[q], b[p]>> \in B /\ b[p] \in D /\ b[q] \in D
        BY <1>5, <1>6, <3>3
      <4>2. <<b[p], b[q]>> \notin B
        BY <1>4, <4>1 DEF StrictTotal
      <4>. QED  BY <2>1, <3>3, <4>1, <4>2
    <3>. QED  BY <3>1, <3>2, <3>3
  <2>4. PICK c : c = [q \in 1 .. p |-> b[q]]
    OBVIOUS
  <2>5. c \in Bijection(1 .. p, S)
    <3>1. \A q \in 1 .. p : q \in 1 .. n /\ c[q] = b[q] /\ q <= p
      BY <2>4
    <3>2. c \in [1 .. p -> S]
      BY <2>3, <2>4, <3>1
    <3>3. \A x \in S : \E q \in 1 .. p : c[q] = x
      <4>1. ASSUME NEW x \in S PROVE \E q \in 1 .. p : c[q] = x
        <5>1. PICK q \in 1 .. n : b[q] = x
          BY <1>6, <2>1
        <5>2. q \in 1 .. p
          BY <2>3, <5>1
        <5>. QED  BY <3>1, <5>1, <5>2
      <4>. QED  BY <4>1
    <3>4. \A q, r \in 1 .. p : c[q] = c[r] => q = r
      BY <1>6, <3>1
    <3>. QED  BY <3>2, <3>3, <3>4 DEF Bijection, Injection, Surjection, IsInjective
  <2>6. Cardinality(S) = p
    <3>1. IsFiniteSet(1 .. p) /\ Cardinality(1 .. p) = p
      BY FS_Interval
    <3>2. ExistsBijection(1 .. p, S)
      BY <2>5 DEF ExistsBijection
    <3>. QED  BY ONLY <3>1, <3>2, FS_Bijection
  <2>. QED  BY <2>2, <2>6
<1>8. ASSUME NEW p \in 1 .. n, NEW q \in 1 .. n, p < q PROVE load[b[p]] <= load[b[q]]
  <2>1. <<b[p], b[q]>> \in B /\ load[b[p]] \in Nat /\ load[b[q]] \in Nat
    BY <1>1, <1>5, <1>6, <1>8
  <2>2. PICK x, y : x = b[p] /\ y = b[q]
    OBVIOUS
  <2>3. <<x, y>> \in ByLoad(D, load) /\ load[x] \in Nat /\ load[y] \in Nat
    BY <1>3, <2>1, <2>2
  <2>4. load[x] < load[y] \/ load[x] = load[y]
    BY ONLY <2>3 DEF ByLoad
  <2>. QED  BY ONLY <2>2, <2>3, <2>4
<1>. QED  BY <1>1, <1>5, <1>7, <1>8

-----------------------------------------------------------------------------
(* A place of group g is of group g again when it is divided by the size.  *)
LEMMA GroupAgain ==
  ASSUME NEW k \in Nat \ {0}, NEW g \in Nat \ {0}, NEW i \in 1 .. k
  PROVE  ((g * k - i + 1) - 1) \div k = g - 1
<1>1. PICK z \in Nat : z = g * k /\ z >= k
  OBVIOUS
<1>2. PICK x \in Nat : x = (g * k - i + 1) - 1 /\ x = z - i
  BY <1>1
<1>3. PICK c \in Nat : c = x \div k /\ k * c <= x /\ x < k * c + k
  OBVIOUS
<1>4. ~(c >= g)
  <2>1. c >= g => k * c >= g * k
    OBVIOUS
  <2>. QED  BY <1>1, <1>2, <1>3, <2>1
<1>5. ~(c + 2 <= g)
  <2>1. c + 2 <= g => k * c + 2 * k <= g * k
    OBVIOUS
  <2>2. k * c \in Nat
    OBVIOUS
  <2>. QED  BY <1>1, <1>2, <1>3, <2>1, <2>2
<1>. QED  BY <1>2, <1>3, <1>4, <1>5

(* Rows that are neighbours by load, and how far they are apart at most.   *)
Neighbours(load, k) ==
  {p \in (DOMAIN load) \X (DOMAIN load) :
     (Place(p[1], load) - 1) \div k = (Place(p[2], load) - 1) \div k}
Gap(load, k) == Max({load[p[1]] - load[p[2]] : p \in Neighbours(load, k)})

(* Neighbours by load are no more than the gap apart.                      *)
LEMMA GapIs ==
  ASSUME NEW n \in Nat \ {0}, NEW k \in Nat \ {0},
         NEW load, DOMAIN load = 1 .. n, \A i \in 1 .. n : load[i] \in Nat
  PROVE  /\ Gap(load, k) \in Nat
         /\ \A x, y \in 1 .. n : <<x, y>> \in Neighbours(load, k) => load[x] <= load[y] + Gap(load, k)
<1>1. PICK N : N = Neighbours(load, k)
  OBVIOUS
<1>2. PICK S : S = {load[p[1]] - load[p[2]] : p \in N}
  OBVIOUS
<1>3. PICK u \in Nat : \A i \in 1 .. n : load[i] <= u
  <2>1. IsFiniteSet(1 .. n)
    BY FS_Interval
  <2>. QED  BY <2>1, TotalNat
<1>4. ASSUME NEW p \in N PROVE p[1] \in 1 .. n /\ p[2] \in 1 .. n /\ p = <<p[1], p[2]>>
  BY <1>1 DEF Neighbours
<1>5. S \in SUBSET Int /\ \A y \in S : y <= u
  <2>1. ASSUME NEW y \in S PROVE y \in Int /\ y <= u
    <3>1. PICK p \in N : y = load[p[1]] - load[p[2]]
      BY <1>2
    <3>2. load[p[1]] \in Nat /\ load[p[2]] \in Nat /\ load[p[1]] <= u
      BY <1>3, <1>4
    <3>. QED  BY <3>1, <3>2
  <2>. QED  BY <2>1
<1>6. ASSUME NEW x \in 1 .. n, NEW y \in 1 .. n, <<x, y>> \in N PROVE load[x] - load[y] \in S
  BY <1>2, <1>6
<1>7. <<1, 1>> \in N /\ 1 \in 1 .. n
  BY <1>1 DEF Neighbours
<1>8. 0 \in S
  <2>1. load[1] - load[1] \in S /\ load[1] \in Nat
    BY <1>6, <1>7
  <2>. QED  BY <2>1
<1>9. PICK m : m = Max(S)
  OBVIOUS
<1>10. m \in S /\ \A y \in S : y <= m
  <2>1. S # {} /\ u \in Int
    BY <1>8
  <2>2. Max(S) \in S /\ \A y \in S : y <= Max(S)
    BY ONLY <1>5, <2>1, MaxAbove
  <2>. QED  BY ONLY <1>9, <2>2
<1>11. m = Gap(load, k)
  BY <1>1, <1>2, <1>9 DEF Gap
<1>12. m \in Nat
  <2>1. m \in Int /\ 0 <= m
    BY ONLY <1>5, <1>8, <1>10
  <2>. QED  BY ONLY <2>1
<1>13. ASSUME NEW x \in 1 .. n, NEW y \in 1 .. n, <<x, y>> \in N PROVE load[x] <= load[y] + m
  <2>1. load[x] - load[y] <= m /\ load[x] \in Nat /\ load[y] \in Nat
    BY <1>6, <1>10, <1>13
  <2>. QED  BY <1>12, <2>1
<1>. QED  BY <1>1, <1>11, <1>12, <1>13

(* The groups of the driver are even up to the gap between neighbours.     *)
Same(n, c) == [x \in 1 .. n |-> c]

(* The groups of neighbours the driver starts from are even up to the gap. *)
LEMMA GroupsLevel ==
  ASSUME NEW n \in Nat \ {0}, NEW k \in Nat \ {0}, n % k = 0,
         NEW load, DOMAIN load = 1 .. n, \A i \in 1 .. n : load[i] \in Nat \ {0},
         NEW s \in Groups(load, k)
  PROVE  Level(s, load, Same(n, Gap(load, k)), k)
<1>1. PICK b : b = InOrder(DOMAIN load, ByLoad(DOMAIN load, load))
  OBVIOUS
<1>2. /\ b \in Bijection(1 .. n, 1 .. n)
      /\ \A p \in 1 .. n : Place(b[p], load) = p
      /\ \A p, q \in 1 .. n : p < q => load[b[p]] <= load[b[q]]
  BY <1>1, PlaceOf
<1>3. \A p \in 1 .. n : b[p] \in 1 .. n
  BY <1>2 DEF Bijection, Injection
<1>4. PICK q : q = Cardinality(DOMAIN load) \div k
  OBVIOUS
<1>5. q \in Nat /\ n = q * k
  <2>1. Cardinality(1 .. n) = n
    BY FS_Interval
  <2>2. q = n \div k
    BY <1>4, <2>1
  <2>. QED  BY <2>2
<1>6. PICK g \in 1 .. q :
        s = [i \in 1 .. k |-> LET r == b[g * k - i + 1] IN Item(r, load[r])]
  BY <1>1, <1>4 DEF Groups
<1>7. PICK gap \in Nat : gap = Gap(load, k)
  BY GapIs
<1>8. ASSUME NEW i \in 1 .. k
      PROVE  \E p \in 1 .. n : \E r \in 1 .. n :
               /\ p = At(g, i, k) /\ r = b[p]
               /\ s[i].items = {r} /\ s[i].sum = load[r] /\ (Place(r, load) - 1) \div k = g - 1
  <2>1. PICK p \in 1 .. n : p = g * k - i + 1
    BY <1>5, InGroup
  <2>2. PICK r \in 1 .. n : r = b[p]
    BY <1>3
  <2>3. s[i] = Item(r, load[r])
    BY <1>6, <2>1, <2>2
  <2>4. ((g * k - i + 1) - 1) \div k = g - 1
    BY GroupAgain
  <2>5. Place(r, load) = g * k - i + 1
    BY <1>2, <2>1, <2>2
  <2>6. (Place(r, load) - 1) \div k = g - 1
    BY ONLY <2>4, <2>5
  <2>7. s[i].items = {r} /\ s[i].sum = load[r]
    BY ONLY <2>3 DEF Item
  <2>8. p = At(g, i, k)
    BY ONLY <2>1 DEF At
  <2>. QED  BY ONLY <2>2, <2>6, <2>7, <2>8
<1>9. Descends(s, k)
  <2>1. ASSUME NEW i \in 1 .. k, NEW j \in 1 .. k, i < j PROVE s[j].sum <= s[i].sum
    <3>1. PICK p \in 1 .. n : p = At(g, i, k) /\ s[i].sum = load[b[p]]
      BY ONLY <1>8, i \in 1 .. k
    <3>2. PICK o \in 1 .. n : o = At(g, j, k) /\ s[j].sum = load[b[o]]
      BY ONLY <1>8, j \in 1 .. k
    <3>3. o < p
      <4>1. PICK z \in Nat : z = g * k
        OBVIOUS
      <4>. QED  BY <2>1, <3>1, <3>2, <4>1 DEF At
    <3>. QED  BY ONLY <1>2, <3>1, <3>2, <3>3
  <2>. QED  BY ONLY <2>1 DEF Descends
<1>10. Summed(s, load, k)
  <2>1. ASSUME NEW i \in 1 .. k PROVE s[i].sum = Total(s[i].items, load)
    <3>1. PICK r \in 1 .. n : s[i].items = {r} /\ s[i].sum = load[r]
      BY <1>8
    <3>. QED  BY <3>1, TotalOne
  <2>. QED  BY <2>1 DEF Summed
<1>11. ASSUME NEW i \in 1 .. k, NEW j \in 1 .. k PROVE Above(s[i], s[j], Same(n, gap))
  <2>1. PICK x \in 1 .. n : /\ s[i].items = {x} /\ s[i].sum = load[x]
                            /\ (Place(x, load) - 1) \div k = g - 1
    BY <1>8
  <2>2. PICK y \in 1 .. n : /\ s[j].items = {y} /\ s[j].sum = load[y]
                            /\ (Place(y, load) - 1) \div k = g - 1
    BY <1>8
  <2>3. <<x, y>> \in Neighbours(load, k)
    BY <2>1, <2>2 DEF Neighbours
  <2>4. load[x] <= load[y] + gap
    BY <1>7, <2>3, GapIs
  <2>5. Same(n, gap)[x] = gap
    BY DEF Same
  <2>. QED  BY <2>1, <2>2, <2>4, <2>5 DEF Above
<1>. QED  BY <1>7, <1>9, <1>10, <1>11 DEF Level

-----------------------------------------------------------------------------
(* The rows of a worker's stretch of the order weigh what its part does.   *)
OnBlock(o, s, w, a, n) == \A j \in 1 .. a : Spot(w, j, a) \in 1 .. n /\ o[Spot(w, j, a)] = s[j]
BlockLoad(o, load, n, a, w) == Total((w - 1) * a + 1 .. w * a, [i \in 1 .. n |-> load[o[i]]])

(* The load of the rows of one part, in the order of the batch, is the     *)
(* load of the part.                                                       *)
LEMMA BlockTotal ==
  ASSUME NEW n \in Nat \ {0}, NEW a \in Nat \ {0}, NEW w \in Nat \ {0},
         NEW p \in SUBSET (1 .. n), NEW s, SmallOf(s, p, a),
         NEW load, \A i \in 1 .. n : load[i] \in Nat,
         NEW o, OnBlock(o, s, w, a, n)
  PROVE  BlockLoad(o, load, n, a, w) = Total(p, load)
<1>1. PICK z \in Nat : z = (w - 1) * a /\ w * a = z + a
  OBVIOUS
<1>2. PICK B : B = z + 1 .. z + a
  OBVIOUS
<1>3. PICK f : f = [i \in 1 .. n |-> load[o[i]]]
  OBVIOUS
<1>4. BlockLoad(o, load, n, a, w) = Total(B, f)
  BY <1>1, <1>2, <1>3 DEF BlockLoad
<1>5. ASSUME NEW x \in B
      PROVE  /\ x - z \in 1 .. a /\ x \in 1 .. n /\ o[x] = s[x - z] /\ s[x - z] \in p
             /\ f[x] = load[s[x - z]]
  <2>1. PICK j \in 1 .. a : j = x - z
    BY <1>2
  <2>2. Spot(w, j, a) = x
    BY <1>1, <1>2, <2>1 DEF Spot
  <2>3. x \in 1 .. n /\ o[x] = s[j]
    BY <2>2 DEF OnBlock
  <2>4. s[j] \in p
    BY DEF SmallOf, Bijection, Injection
  <2>. QED  BY <1>3, <2>1, <2>3, <2>4
<1>6. PICK h : h = [x \in B |-> s[x - z]]
  OBVIOUS
<1>7. h \in Bijection(B, p)
  <2>1. h \in [B -> p]
    BY <1>5, <1>6
  <2>2. \A i, j \in 1 .. a : s[i] = s[j] => i = j
    BY DEF SmallOf, Bijection, Injection, IsInjective
  <2>3. ASSUME NEW x \in B, NEW y \in B, h[x] = h[y] PROVE x = y
    <3>1. x - z = y - z
      BY <1>5, <1>6, <2>2, <2>3
    <3>. QED  BY <1>2, <3>1
  <2>4. ASSUME NEW y \in p PROVE \E x \in B : h[x] = y
    <3>1. PICK j \in 1 .. a : s[j] = y
      BY DEF SmallOf, Bijection, Surjection
    <3>2. PICK x \in B : x = z + j
      BY <1>2
    <3>3. x - z = j
      BY <3>2
    <3>. QED  BY <1>6, <3>1, <3>2, <3>3
  <2>. QED  BY <2>1, <2>3, <2>4 DEF Bijection, Injection, Surjection, IsInjective
<1>8. ASSUME NEW x \in B PROVE f[x] \in Nat /\ f[x] = load[h[x]]
  BY <1>5, <1>6
<1>9. IsFiniteSet(B)
  BY <1>2, FS_Interval
<1>10. Total(B, f) = Total(p, load)
  BY <1>7, <1>8, <1>9, TotalRenamed
<1>. QED  BY <1>4, <1>10

(* The parts of the driver and the order it makes of them.                 *)
Blocks(P, n, k, a) ==
  /\ k = World /\ n = config.rows /\ n = k * a /\ Rows = 1 .. n
  /\ \A w \in 1 .. k : P[w] \in SUBSET (1 .. n) /\ SmallOf(SmallAtEnds(P[w]), P[w], a)
  /\ \A w \in 1 .. k :
       OnBlock(FlattenSeq([v \in 1 .. k |-> SmallAtEnds(P[v])]), SmallAtEnds(P[w]), w, a, n)

(* Reorder puts the parts one after the other, so that every worker has    *)
(* one.                                                                    *)
LEMMA PartsBlocks ==
  ASSUME IInv, phase = "balancing", Cardinality(heap[0]) = 1
  PROVE  \E n, k, a \in Nat \ {0} : Blocks(Parts(heap[0], k), n, k, a)
<1>1. PICK n \in Nat \ {0}, k \in Nat \ {0} : Balanced(Parts(heap[0], k), n, k)
  BY BalancedParts
<1>2. PICK P : P = Parts(heap[0], k)
  OBVIOUS
<1>3. k = World /\ n = config.rows /\ Rows = 1 .. n /\ \A p \in Range(P) : Cardinality(p) * k = n
  BY <1>1, <1>2 DEF Balanced
<1>4. Partition(P, 1 .. n, k)
  <2>1. HeapOf(heap[0], 1 .. n, k)
    BY <1>3 DEF IInv, DriverInv
  <2>. QED  BY <1>2, <2>1, LastPartition
<1>5. ASSUME NEW w \in 1 .. k
      PROVE  /\ P[w] \in SUBSET (1 .. n) /\ Cardinality(P[w]) \in Nat
             /\ Cardinality(P[w]) * k = n /\ SmallOf(SmallAtEnds(P[w]), P[w], Cardinality(P[w]))
  <2>1. P[w] \in SUBSET (1 .. n) /\ P[w] \in Range(P)
    BY <1>4 DEF Partition, Range
  <2>2. PICK p \in SUBSET Rows : p = P[w]
    BY <1>3, <2>1
  <2>3. Cardinality(p) \in Nat /\ SmallOf(SmallAtEnds(p), p, Cardinality(p))
    BY SmallAtEndsPart DEF IInv
  <2>. QED  BY <1>3, <2>1, <2>2, <2>3
<1>6. PICK a \in Nat : a = Cardinality(P[1])
  BY <1>5
<1>7. a * k = n /\ a # 0 /\ n = k * a
  <2>1. 1 \in 1 .. k
    OBVIOUS
  <2>2. a * k = n
    BY <1>5, <1>6, <2>1
  <2>. QED  BY <2>2
<1>8. ASSUME NEW w \in 1 .. k PROVE Cardinality(P[w]) = a
  <2>1. PICK c \in Nat : c = Cardinality(P[w]) /\ c * k = n
    BY <1>5
  <2>2. c > a => c * k > a * k
    OBVIOUS
  <2>3. c < a => c * k < a * k
    OBVIOUS
  <2>4. c * k = a * k
    BY <1>7, <2>1
  <2>. QED  BY <2>1, <2>2, <2>3, <2>4
<1>9. PICK ss : ss = [v \in 1 .. k |-> SmallAtEnds(P[v])]
  OBVIOUS
<1>10. ASSUME NEW w \in 1 .. k PROVE SmallOf(ss[w], P[w], a) /\ ss[w] = SmallAtEnds(P[w])
  BY <1>5, <1>8, <1>9
<1>11. FlatOf(FlattenSeq(ss), ss, 1 .. n, k, a)
  <2>1. Len(ss) = k
    BY <1>9
  <2>2. ASSUME NEW i \in 1 .. k PROVE ss[i] \in Seq(1 .. n) /\ Len(ss[i]) = a
    <3>1. ss[i] \in Seq(P[i]) /\ Len(ss[i]) = a /\ P[i] \subseteq 1 .. n
      BY <1>5, <1>10 DEF SmallOf
    <3>. QED  BY <3>1
  <2>. QED  BY <2>1, <2>2, FlattenEqual
<1>12. ASSUME NEW w \in 1 .. k PROVE OnBlock(FlattenSeq(ss), ss[w], w, a, n)
  <2>1. ASSUME NEW j \in 1 .. a PROVE Spot(w, j, a) \in 1 .. n /\ FlattenSeq(ss)[Spot(w, j, a)] = ss[w][j]
    <3>1. FlattenSeq(ss)[Spot(w, j, a)] = ss[w][j]
      BY <1>11 DEF FlatOf
    <3>2. (w - 1) * a + j \in 1 .. k * a
      <4>1. PICK z \in Nat : z = (w - 1) * a /\ w * a = z + a
        OBVIOUS
      <4>2. w * a <= k * a
        OBVIOUS
      <4>3. k * a \in Nat
        OBVIOUS
      <4>. QED  BY <4>1, <4>2, <4>3
    <3>. QED  BY <1>7, <3>1, <3>2 DEF Spot
  <2>. QED  BY <2>1 DEF OnBlock
<1>13. Blocks(P, n, k, a)
  BY <1>3, <1>5, <1>7, <1>9, <1>10, <1>12 DEF Blocks
<1>. QED  BY <1>2, <1>7, <1>13

-----------------------------------------------------------------------------
(* What EvenBatch says after the batch is ordered.                         *)
Levelled(o, f, n, k, a) ==
  /\ Range(o) = 1 .. n
  /\ \A v, w \in 1 .. k : BlockLoad(o, f, n, a, v) - BlockLoad(o, f, n, a, w) <= Gap(f, k)

(* EvenBatch after a step, from what it says of the new order.             *)
LEMMA EvenIs ==
  ASSUME NEW n, NEW k, NEW a, NEW f, NEW o,
         config'.rows = n, World' = k, Rows' = 1 .. n, Workers' = 1 .. k, n \div k = a,
         Loads' = f, DOMAIN f = 1 .. n, order' = o, Levelled(o, f, n, k, a)
  PROVE  EvenBatch'
<1>1. PICK place : place = [i \in 1 .. n |-> Place(i, f)]
  OBVIOUS
<1>2. PICK near : near = {p \in (1 .. n) \X (1 .. n) :
                            (place[p[1]] - 1) \div k = (place[p[2]] - 1) \div k}
  OBVIOUS
<1>3. near = Neighbours(f, k)
  <2>1. \A p \in (1 .. n) \X (1 .. n) :
          place[p[1]] = Place(p[1], f) /\ place[p[2]] = Place(p[2], f)
    BY <1>1
  <2>. QED  BY <1>2, <2>1 DEF Neighbours
<1>4. Max({f[p[1]] - f[p[2]] : p \in near}) = Gap(f, k)
  BY <1>3 DEF Gap
<1>5. ASSUME NEW v \in 1 .. k, NEW w \in 1 .. k
      PROVE  Total((v - 1) * a + 1 .. v * a, [i \in 1 .. n |-> f[o[i]]])
               - Total((w - 1) * a + 1 .. w * a, [i \in 1 .. n |-> f[o[i]]])
               <= Max({f[p[1]] - f[p[2]] : p \in near})
  BY <1>4 DEF Levelled, BlockLoad
<1>6. Range(o) = 1 .. n
  BY DEF Levelled
<1>. QED  BY <1>1, <1>2, <1>5, <1>6 DEF EvenBatch

(* The load of a row is a number that is not zero.                         *)
LEMMA LoadsAre ==
  ASSUME ConfigInv
  PROVE  /\ DOMAIN Loads = 1 .. config.rows /\ Rows = 1 .. config.rows
         /\ \A i \in 1 .. config.rows : Loads[i] \in Nat \ {0}
<1>1. Rows = 1 .. config.rows /\ \A i \in 1 .. config.rows : len[i] \in Nat \ {0}
  BY Numbers DEF ConfigInv, Rows
<1>2. \A x \in Nat \ {0} : Workload(x) \in Nat \ {0}
  BY DEF Workload
<1>. QED  BY <1>1, <1>2 DEF Loads

(* The driver's states are even up to the gap while it balances, and so is *)
(* the batch when it is balanced.                                          *)
EvenHeap ==
  phase = "balancing" =>
    \A s \in heap[0] : Level(s, Loads, Same(config.rows, Gap(Loads, World)), World)
EvenInv == EvenHeap /\ EvenBatch

(* Reorder leaves the batch even:                                          *)
LEMMA EvenReorder ==
  ASSUME IInv, EvenInv, Reorder
  PROVE  EvenBatch'
<1>1. /\ phase = "balancing" /\ Cardinality(heap[0]) = 1 /\ config' = config /\ len' = len
  BY DEF Reorder
<1>2. PICK n \in Nat \ {0} : \E k, a \in Nat \ {0} : Blocks(Parts(heap[0], k), n, k, a)
  BY <1>1, PartsBlocks
<1>3. PICK k \in Nat \ {0} : \E a \in Nat \ {0} : Blocks(Parts(heap[0], k), n, k, a)
  BY <1>2
<1>4. PICK a \in Nat \ {0} : Blocks(Parts(heap[0], k), n, k, a)
  BY <1>3
<1>5. PICK P : P = Parts(heap[0], k)
  OBVIOUS
<1>6. PICK o : o = FlattenSeq([v \in 1 .. k |-> SmallAtEnds(P[v])])
  OBVIOUS
<1>7. /\ k = World /\ n = config.rows /\ n = k * a /\ Rows = 1 .. n
      /\ \A w \in 1 .. k : P[w] \in SUBSET (1 .. n) /\ SmallOf(SmallAtEnds(P[w]), P[w], a)
      /\ \A w \in 1 .. k : OnBlock(o, SmallAtEnds(P[w]), w, a, n)
  BY <1>4, <1>5, <1>6 DEF Blocks
<1>8. order' = o
  BY <1>1, <1>5, <1>6, <1>7 DEF Reorder, Workers
<1>9. PICK f : f = Loads
  OBVIOUS
<1>10. DOMAIN f = 1 .. n /\ \A i \in 1 .. n : f[i] \in Nat
  BY <1>7, <1>9, LoadsAre DEF IInv
<1>11. PICK s \in heap[0] : P = [i \in 1 .. k |-> s[i].items]
  <2>1. HeapOf(heap[0], 1 .. n, k)
    BY <1>1, <1>7 DEF IInv, DriverInv
  <2>2. PICK s \in heap[0] : OnlyState(s, heap[0], k)
    BY <1>1, <2>1, LastState
  <2>. QED  BY <1>5, <2>2 DEF OnlyState
<1>12. PICK gap \in Nat : gap = Gap(f, k)
  BY <1>10, GapIs
<1>13. Level(s, f, Same(n, gap), k)
  BY <1>1, <1>7, <1>9, <1>11, <1>12 DEF EvenInv, EvenHeap
<1>14. ASSUME NEW w \in 1 .. k
       PROVE  BlockLoad(o, f, n, a, w) = s[w].sum /\ s[w].sum \in Nat /\ s[w].items \in SUBSET (1 .. n)
  <2>1. PICK p \in SUBSET (1 .. n) : p = P[w] /\ p = s[w].items
    BY <1>7, <1>11
  <2>2. PICK r : r = SmallAtEnds(P[w])
    OBVIOUS
  <2>3. SmallOf(r, p, a) /\ OnBlock(o, r, w, a, n)
    BY <1>7, <2>1, <2>2
  <2>4. BlockLoad(o, f, n, a, w) = Total(p, f)
    BY <1>10, <2>3, BlockTotal
  <2>5. s[w].sum = Total(p, f)
    BY <1>13, <2>1 DEF Level, Summed
  <2>6. IsFiniteSet(p)
    <3>1. IsFiniteSet(1 .. n)
      BY FS_Interval
    <3>. QED  BY <3>1, FS_Subset
  <2>7. Total(p, f) \in Nat
    BY <1>10, <2>6, TotalNat
  <2>. QED  BY <2>1, <2>4, <2>5, <2>7
<1>15. ASSUME NEW v \in 1 .. k, NEW w \in 1 .. k
       PROVE  BlockLoad(o, f, n, a, v) - BlockLoad(o, f, n, a, w) <= gap
  <2>1. Above(s[v], s[w], Same(n, gap))
    BY <1>13 DEF Level
  <2>2. s[v].sum <= s[w].sum \/ s[v].sum <= s[w].sum + gap
    <3>1. \A x \in s[v].items : Same(n, gap)[x] = gap
      BY <1>14 DEF Same
    <3>. QED  BY <2>1, <3>1 DEF Above
  <2>. QED  BY <1>12, <1>14, <2>2
<1>16. Range(o) = 1 .. n
  <2>1. order' \in Bijection(Rows', Rows')
    BY ReorderKeeps DEF IInv, DriverInv
  <2>2. Rows' = 1 .. n
    BY <1>1, <1>7 DEF Rows
  <2>3. o \in Bijection(1 .. n, 1 .. n)
    BY <1>8, <2>1, <2>2
  <2>4. /\ DOMAIN o = 1 .. n /\ \A i \in 1 .. n : o[i] \in 1 .. n
        /\ \A x \in 1 .. n : \E i \in 1 .. n : o[i] = x
    BY ONLY <2>3 DEF Bijection, Injection, Surjection
  <2>. QED  BY ONLY <2>4 DEF Range
<1>17. /\ config'.rows = n /\ World' = k /\ Rows' = 1 .. n /\ Workers' = 1 .. k /\ Loads' = f
  BY <1>1, <1>7, <1>9 DEF World, Rows, Workers, Loads
<1>18. n \div k = a
  BY <1>7
<1>19. Levelled(o, f, n, k, a)
  BY <1>12, <1>15, <1>16 DEF Levelled
<1>. QED  BY <1>8, <1>10, <1>17, <1>18, <1>19, EvenIs

-----------------------------------------------------------------------------
(* the parts it is made of were even from the first groups on.             *)
LEMMA EvenBalance ==
  ASSUME IInv, EvenInv, Balance \/ MergeDriver
  PROVE  EvenInv'
<1>1. /\ config' = config /\ len' = len /\ order' = order
      /\ phase \in {"balance", "balancing"} /\ phase' \in {"balancing", "log_prob"}
  BY DEF Balance, MergeDriver, driver
<1>2. PICK n \in Nat \ {0}, k \in Nat \ {0} :
        n = config.rows /\ k = World /\ n % k = 0 /\ Rows = 1 .. n
  BY Numbers DEF IInv, ConfigInv, Rows
<1>3. World' = k /\ Loads' = Loads /\ config'.rows = n
  BY <1>1, <1>2 DEF World, Loads
<1>4. PICK f : f = Loads
  OBVIOUS
<1>5. DOMAIN f = 1 .. n /\ \A i \in 1 .. n : f[i] \in Nat \ {0}
  BY <1>2, <1>4, LoadsAre DEF IInv
<1>6. PICK gap \in Nat : gap = Gap(f, k)
  <2>1. \A i \in 1 .. n : f[i] \in Nat
    BY <1>5
  <2>. QED  BY <1>5, <2>1, GapIs
<1>7. PICK e : e = Same(n, gap)
  OBVIOUS
<1>8. DOMAIN heap = 0 .. k
  BY <1>2 DEF IInv, DriverInv
<1>9. ASSUME phase' = "balancing", NEW s \in heap'[0] PROVE Level(s, f, e, k)
  <2>1. CASE Balance
    <3>1. heap'[0] = Groups(f, k)
      BY <1>2, <1>4, <1>8, <1>9, <2>1 DEF Balance
    <3>2. s \in Groups(f, k)
      BY <1>9, <3>1
    <3>. QED  BY <1>2, <1>5, <1>6, <1>7, <3>2, GroupsLevel
  <2>2. CASE MergeDriver
    <3>1. PICK h \in Merges(heap[0], k) : heap'[0] = h
      BY <1>2, <1>8, <2>2 DEF MergeDriver
    <3>2. PICK H : H = heap[0]
      OBVIOUS
    <3>3. HeapOf(H, 1 .. n, k)
      BY <1>2, <2>2, <3>2 DEF MergeDriver, IInv, DriverInv
    <3>4. \A t \in H : Level(t, f, e, k)
      BY <1>2, <1>4, <1>6, <1>7, <2>2, <3>2 DEF MergeDriver, EvenInv, EvenHeap
    <3>5. IsFiniteSet(1 .. n)
      BY FS_Interval
    <3>6. Numbered(f, 1 .. n)
      BY <1>5 DEF Numbered
    <3>7. Numbered(e, 1 .. n)
      BY <1>7 DEF Numbered, Same
    <3>8. \A t \in h : Level(t, f, e, k)
      BY <3>1, <3>2, <3>3, <3>4, <3>5, <3>6, <3>7, MergesLevel
    <3>. QED  BY <1>9, <3>1, <3>8
  <2>. QED  BY <2>1, <2>2
<1>10. EvenHeap'
  BY <1>3, <1>4, <1>6, <1>7, <1>9 DEF EvenHeap
<1>11. ~(config'.balance /\ phase' = "log_prob")
  BY <1>1 DEF Balance, MergeDriver, driver
<1>12. EvenBatch'
  BY <1>11 DEF EvenBatch
<1>. QED  BY <1>10, <1>12 DEF EvenInv

(* Steps that leave the driver's heap and order alone keep it,             *)
LEMMA EvenRest ==
  ASSUME EvenInv, config' = config, len' = len, order' = order, phase' = phase, heap'[0] = heap[0]
  PROVE  EvenInv'
<1>1. Loads' = Loads /\ World' = World /\ Rows' = Rows /\ Workers' = Workers
  BY DEF Loads, World, Rows, Workers
<1>2. EvenHeap'
  BY <1>1 DEF EvenInv, EvenHeap
<1>3. EvenBatch'
  BY <1>1 DEF EvenInv, EvenBatch
<1>. QED  BY <1>2, <1>3 DEF EvenInv

(* and those of a worker do.                                               *)
LEMMA EvenWork ==
  ASSUME IInv, EvenInv, NEW w \in Workers, Work(w)
  PROVE  EvenInv'
<1>1. UNCHANGED <<config, len, driver>> /\ (heap' = heap \/ \E h : heap' = [heap EXCEPT ![w] = h])
  <2>1. CASE CountTokens(w) \/ SumTokens(w) \/ Count(w)
    BY <2>1 DEF CountTokens, SumTokens, Count
  <2>2. CASE Reduce(w) \/ Merge(w) \/ Cut(w)
    BY <2>2 DEF Reduce, Merge, Cut
  <2>3. CASE SplitMicro(w) \/ Forward(w) \/ Run(w)
    BY <2>3 DEF SplitMicro, Forward, Run
  <2>4. CASE Restore(w) \/ EnterStep(w) \/ OptimizerStep(w)
    BY <2>4 DEF Restore, EnterStep, OptimizerStep
  <2>. QED  BY <2>1, <2>2, <2>3, <2>4 DEF Work
<1>2. w # 0 /\ 0 \in DOMAIN heap
  <2>1. PICK k \in Nat \ {0} : k = World
    BY Numbers DEF IInv
  <2>. QED  BY <2>1 DEF IInv, DriverInv, Workers
<1>3. heap'[0] = heap[0]
  BY <1>1, <1>2
<1>. QED  BY <1>1, <1>3, EvenRest DEF driver

(* It is kept by every step,                                               *)
LEMMA EvenNext ==
  ASSUME IInv, EvenInv, [Next]_vars
  PROVE  EvenInv'
<1>1. CASE UNCHANGED vars
  BY <1>1, EvenRest DEF vars, driver
<1>2. CASE Balance \/ MergeDriver
  BY <1>2, EvenBalance
<1>3. CASE Reorder
  <2>1. EvenHeap'
    BY <1>3 DEF Reorder, EvenHeap
  <2>. QED  BY <1>3, <2>1, EvenReorder DEF EvenInv
<1>4. CASE CallLogProb \/ Collect \/ CallUpdate \/ Finish
  <2>1. phase' \notin {"balancing", "log_prob"}
    BY <1>4 DEF CallLogProb, Collect, CallUpdate, Finish, Dispatch
  <2>. QED  BY <2>1 DEF EvenInv, EvenHeap, EvenBatch
<1>5. CASE \E w \in Workers : Work(w)
  BY <1>5, EvenWork
<1>6. CASE Done
  BY <1>1, <1>6 DEF Done
<1>. QED  BY <1>1, <1>2, <1>3, <1>4, <1>5, <1>6 DEF Next, Drive

(* and holds in every state.                                               *)
LEMMA SpecEvenInv == Spec => []EvenInv
<1>1. Init => EvenInv
  BY DEF Init, EvenInv, EvenHeap, EvenBatch
<1>2. IInv /\ EvenInv /\ [Next]_vars => EvenInv'
  BY EvenNext
<1>. QED  BY <1>1, <1>2, SpecIInv, PTL DEF Spec

-----------------------------------------------------------------------------
(* karmarkar_karp leaves its sets filled and level.                        *)
Evened(H, D, load, k) ==
  /\ HeapOf(H, D, k)
  /\ \A s \in H : Filling(s, k) /\ Level(s, load, load, k)

(* Every state of the loop is even, from the first to the last.            *)
LEMMA ChainEvened ==
  ASSUME NEW D \in SUBSET Nat, IsFiniteSet(D), D # {}, NEW k \in Nat \ {0},
         NEW load, Weighs(load, D), NEW h, Chain(load, k, h)
  PROVE  Evened(h, D, load, k)
<1>1. PICK m \in Nat : \E f : Rounds(f, m, load, k, h)
  BY DEF Chain, Rounds
<1>2. PICK f : Rounds(f, m, load, k, h)
  BY <1>1
<1>3. /\ f[0] = Singles(load, k) /\ f[m] = h
      /\ \A i \in 1 .. m : f[i] \in Merges(f[i - 1], k)
  BY <1>2 DEF Rounds
<1>4. DOMAIN load = D /\ Numbered(load, D) /\ \A i \in D : load[i] \in Nat \ {0}
  BY DEF Weighs, Numbered
<1>. DEFINE Bad == {i \in 0 .. m : ~Evened(f[i], D, load, k)}
<1>5. ASSUME Bad # {} PROVE FALSE
  <2>1. Bad \in SUBSET Nat
    OBVIOUS
  <2>2. PICK i \in Bad : \A j \in Bad : i <= j
    BY <1>5, <2>1, LeastNat
  <2>3. i \in 0 .. m /\ ~Evened(f[i], D, load, k)
    BY <2>2
  <2>4. CASE i = 0
    <3>1. HeapOf(Singles(load, k), D, k) /\ \A s \in Singles(load, k) : Filling(s, k)
      BY <1>4, SinglesHeap
    <3>2. \A s \in Singles(load, k) : Level(s, load, load, k)
      BY SinglesLevel
    <3>. QED  BY <1>3, <2>3, <2>4, <3>1, <3>2 DEF Evened
  <2>5. CASE i # 0
    <3>1. i - 1 \in 0 .. m /\ i \in 1 .. m /\ ~(i <= i - 1)
      BY <2>3, <2>5
    <3>2. i - 1 \notin Bad
      BY <2>2, <3>1
    <3>3. Evened(f[i - 1], D, load, k)
      BY <3>1, <3>2
    <3>4. PICK H : H = f[i - 1]
      OBVIOUS
    <3>5. HeapOf(H, D, k) /\ \A s \in H : Filling(s, k) /\ Level(s, load, load, k)
      BY <3>3, <3>4 DEF Evened
    <3>6. PICK g : g = f[i] /\ g \in Merges(H, k)
      BY <1>3, <3>1, <3>4
    <3>7. HeapOf(g, D, k) /\ \A s \in g : Filling(s, k)
      BY <3>5, <3>6, MergesHeap
    <3>8. \A s \in g : Level(s, load, load, k)
      BY <1>4, <3>5, <3>6, MergesLevel
    <3>. QED  BY <2>3, <3>6, <3>7, <3>8 DEF Evened
  <2>. QED  BY <2>4, <2>5
<1>6. m \notin Bad /\ m \in 0 .. m
  BY <1>5
<1>. QED  BY <1>3, <1>6
-----------------------------------------------------------------------------

(* A total of equal numbers is a product.                                  *)
LEMMA TotalConst ==
  ASSUME NEW S, IsFiniteSet(S), NEW f, NEW c \in Nat, \A x \in S : f[x] = c
  PROVE  Total(S, f) = Cardinality(S) * c
<1>1. PICK g : g = [x \in S |-> 0]
  OBVIOUS
<1>2. \A x \in S : g[x] = 0
  BY <1>1
<1>3. More(S, f, g, S, c)
  <2>1. ASSUME NEW x \in S PROVE g[x] \in Nat /\ f[x] = g[x] + (IF x \in S THEN c ELSE 0)
    BY <1>2
  <2>. QED  BY <2>1 DEF More
<1>4. Total(S, f) = Total(S, g) + Cardinality(S \cap S) * c
  BY <1>3, TotalMore
<1>5. Total(S, g) = 0 /\ S \cap S = S
  BY <1>2, TotalZero
<1>6. Cardinality(S) \in Nat
  BY FS_CardinalityType
<1>. QED  BY <1>4, <1>5, <1>6

(* The sums of the sets of a partition are the sum of all.                 *)
LEMMA PartitionTotal ==
  ASSUME NEW D, IsFiniteSet(D), NEW k \in Nat, NEW P, Partition(P, D, k),
         NEW f, Numbered(f, D)
  PROVE  Total(1 .. k, [i \in 1 .. k |-> Total(P[i], f)]) = Total(D, f)
<1>1. IsFiniteSet(1 .. k)
  BY FS_Interval
<1>2. \A i \in 1 .. k : P[i] \subseteq D
  BY DEF Partition
<1>3. \A x \in D : f[x] \in Nat
  BY DEF Numbered
<1>4. ASSUME NEW x \in D PROVE Cardinality(Holders(1 .. k, P, x)) = 1
  <2>1. PICK i \in 1 .. k : x \in P[i]
    BY DEF Partition
  <2>2. \A j \in 1 .. k : x \in P[j] => i = j
    BY <2>1 DEF Partition
  <2>3. Holders(1 .. k, P, x) = {i}
    BY <2>1, <2>2 DEF Holders
  <2>. QED  BY <2>3, FS_Singleton
<1>5. Total(1 .. k, Portions(1 .. k, P, f, D)) = 1 * Total(D, f)
  BY <1>1, <1>2, <1>3, <1>4, TotalCounted
<1>6. Portions(1 .. k, P, f, D) = [i \in 1 .. k |-> Total(P[i], f)]
  <2>1. \A i \in 1 .. k : P[i] \cap D = P[i]
    BY <1>2
  <2>. QED  BY <2>1 DEF Portions
<1>7. Total(D, f) \in Nat
  BY <1>3, TotalNat
<1>. QED  BY <1>5, <1>6, <1>7

-----------------------------------------------------------------------------
(* Products keep the order of numbers.                                     *)
LEMMA Multiplied ==
  ASSUME NEW c \in Nat, NEW a \in Nat, NEW b \in Nat, a <= b
  PROVE  c * a <= c * b
<1>1. PICK d \in Nat : b = a + d
  <2>1. b - a \in Nat /\ b = a + (b - a)
    OBVIOUS
  <2>. QED  BY <2>1
<1>2. c * b = c * a + c * d
  BY <1>1
<1>3. c * d \in Nat /\ c * a \in Nat
  OBVIOUS
<1>. QED  BY <1>2, <1>3

BelowMean(k, q, t) == k * q < t

(* Without its heaviest row no part weighs more than the average.          *)
LEMMA PartLoad ==
  ASSUME NEW D, IsFiniteSet(D), NEW k \in Nat \ {0}, NEW P, Partition(P, D, k),
         NEW load, Numbered(load, D), NEW s, Level(s, load, load, k),
         \A j \in 1 .. k : P[j] = s[j].items,
         NEW i \in 1 .. k, NEW x \in P[i], load[x] # 0, \A y \in P[i] : load[y] <= load[x]
  PROVE  BelowMean(k, Total(P[i] \ {x}, load), Total(D, load))
<1>1. \A j \in 1 .. k : P[j] \subseteq D /\ IsFiniteSet(P[j])
  <2>1. \A j \in 1 .. k : P[j] \subseteq D
    BY DEF Partition
  <2>. QED  BY <2>1, FS_Subset
<1>2. \A j \in 1 .. k : \A y \in P[j] : load[y] \in Nat
  BY <1>1 DEF Numbered
<1>3. PICK h : h = [j \in 1 .. k |-> Total(P[j], load)]
  OBVIOUS
<1>4. ASSUME NEW j \in 1 .. k PROVE h[j] \in Nat /\ h[j] = s[j].sum
  <2>1. Total(P[j], load) \in Nat
    BY <1>1, <1>2, TotalNat
  <2>. QED  BY <1>3, <2>1 DEF Level, Summed
<1>5. PICK q \in Nat, l \in Nat : q = Total(P[i] \ {x}, load) /\ l = load[x] /\ h[i] = l + q
  <2>1. Total(P[i], load) = load[x] + Total(P[i] \ {x}, load)
    BY <1>1, <1>2, TotalRemove
  <2>2. IsFiniteSet(P[i] \ {x}) /\ \A y \in P[i] \ {x} : load[y] \in Nat
    BY <1>1, <1>2, FS_Subset
  <2>3. Total(P[i] \ {x}, load) \in Nat
    BY <2>2, TotalNat
  <2>. QED  BY <1>2, <1>3, <2>1, <2>3
<1>6. ASSUME NEW j \in 1 .. k PROVE q <= h[j]
  <2>1. Above(s[i], s[j], load)
    BY DEF Level
  <2>2. s[i].sum <= s[j].sum + l
    <3>1. PICK a \in Nat, b \in Nat : a = s[i].sum /\ b = s[j].sum
      BY <1>4
    <3>2. CASE a <= b
      BY <3>1, <3>2
    <3>3. ASSUME NEW y \in s[i].items, a <= b + load[y] PROVE a <= b + l
      <4>1. load[y] <= l /\ load[y] \in Nat
        BY <1>2, <1>5, <3>3
      <4>. QED  BY <3>3, <4>1
    <3>4. a <= b \/ \E y \in s[i].items : a <= b + load[y]
      BY <2>1, <3>1 DEF Above
    <3>. QED  BY <3>1, <3>2, <3>3, <3>4
  <2>3. h[i] <= h[j] + l /\ h[j] \in Nat
    BY <1>4, <2>2
  <2>. QED  BY <1>5, <2>3
<1>7. PICK u : u = [j \in 1 .. k |-> q]
  OBVIOUS
<1>8. PICK v : v = [j \in 1 .. k |-> q + (IF j \in {i} THEN l ELSE 0)]
  OBVIOUS
<1>9. IsFiniteSet(1 .. k) /\ Cardinality(1 .. k) = k
  BY FS_Interval
<1>10. Total(1 .. k, u) = k * q
  <2>1. \A j \in 1 .. k : u[j] = q
    BY <1>7
  <2>2. Total(1 .. k, u) = Cardinality(1 .. k) * q
    BY <1>9, <2>1, TotalConst
  <2>. QED  BY ONLY <1>9, <2>2
<1>11. Total(1 .. k, v) = Total(1 .. k, u) + l
  <2>1. More(1 .. k, v, u, {i}, l)
    <3>1. ASSUME NEW j \in 1 .. k
          PROVE  u[j] \in Nat /\ v[j] = u[j] + (IF j \in {i} THEN l ELSE 0)
      BY <1>7, <1>8
    <3>. QED  BY <3>1 DEF More
  <2>2. PICK n : n = Cardinality({i} \cap (1 .. k)) /\ n = 1
    <3>1. {i} \cap (1 .. k) = {i}
      OBVIOUS
    <3>. QED  BY <3>1, FS_Singleton
  <2>3. Total(1 .. k, v) = Total(1 .. k, u) + Cardinality({i} \cap (1 .. k)) * l
    BY <1>9, <2>1, TotalMore
  <2>4. Total(1 .. k, v) = Total(1 .. k, u) + n * l
    BY ONLY <2>2, <2>3
  <2>5. n * l = l
    BY <2>2
  <2>. QED  BY ONLY <2>4, <2>5
<1>12. Total(1 .. k, v) <= Total(1 .. k, h)
  <2>1. ASSUME NEW j \in 1 .. k PROVE v[j] \in Nat /\ h[j] \in Nat /\ v[j] <= 1 * h[j]
    <3>1. h[j] \in Nat /\ q <= h[j]
      BY <1>4, <1>6
    <3>2. CASE j = i
      BY <1>5, <1>8, <3>1, <3>2
    <3>3. CASE j # i
      BY <1>8, <3>1, <3>3
    <3>. QED  BY <3>2, <3>3
  <2>2. Total(1 .. k, v) <= 1 * Total(1 .. k, h)
    BY <1>9, <2>1, TotalScale
  <2>3. Total(1 .. k, h) \in Nat
    BY <1>4, <1>9, TotalNat
  <2>. QED  BY <2>2, <2>3
<1>13. Total(1 .. k, h) = Total(D, load)
  BY <1>3, PartitionTotal
<1>14. l > 0
  BY <1>5
<1>15. k * q < Total(D, load)
  <2>1. PICK a \in Nat : a = k * q
    OBVIOUS
  <2>2. PICK b \in Nat : b = Total(D, load)
    BY TotalNat DEF Numbered
  <2>3. a + l <= b
    BY <1>10, <1>11, <1>12, <1>13, <2>1, <2>2
  <2>. QED  BY <1>14, <2>1, <2>2, <2>3
<1>. QED  BY <1>5, <1>15 DEF BelowMean

(* Tokens weigh 24576 each and the length of their row.                    *)
Heavy(a, t, lm) == a <= (24576 + lm) * t
Room(t, k, L) == t <= k * L
Light(r, q) == 24576 * r <= q
Excess(r, L, lm) == 24576 * (r - L) < L * lm

(* A part that is lighter than the average without its heaviest row is     *)
(* little above the limit without it: the average is no more than what the *)
(* limit weighs.                                                           *)
LEMMA ExcessOf ==
  ASSUME NEW k \in Nat \ {0}, NEW q \in Nat, NEW r \in Nat, NEW a \in Nat, NEW t \in Nat,
         NEW L \in Nat, NEW lm \in Nat,
         BelowMean(k, q, a), Heavy(a, t, lm), Room(t, k, L), Light(r, q)
  PROVE  Excess(r, L, lm)
<1>1. PICK c \in Nat : c = 24576 + lm
  OBVIOUS
<1>2. PICK p \in Nat : p = c * L
  OBVIOUS
<1>3. k * L \in Nat /\ c * (k * L) = k * p
  BY <1>2
<1>4. a <= c * t
  BY <1>1 DEF Heavy
<1>5. c * t <= c * (k * L)
  <2>1. t <= k * L
    BY DEF Room
  <2>. QED  BY <1>3, <2>1, Multiplied
<1>6. k * q < k * p
  <2>1. PICK d \in Nat : d = c * t
    OBVIOUS
  <2>2. PICK e \in Nat : e = k * p
    OBVIOUS
  <2>3. PICK f \in Nat : f = k * q
    OBVIOUS
  <2>4. f < a
    BY <2>3 DEF BelowMean
  <2>. QED  BY <1>3, <1>4, <1>5, <2>1, <2>2, <2>3, <2>4
<1>7. q < p
  <2>1. ASSUME p <= q PROVE FALSE
    <3>1. k * p <= k * q
      BY <2>1, Multiplied
    <3>2. PICK e \in Nat : e = k * p
      OBVIOUS
    <3>3. PICK f \in Nat : f = k * q
      OBVIOUS
    <3>. QED  BY <1>6, <3>1, <3>2, <3>3
  <2>. QED  BY <2>1
<1>8. p = 24576 * L + L * lm
  BY <1>1, <1>2
<1>9. PICK g \in Nat : g = L * lm
  OBVIOUS
<1>10. 24576 * r < 24576 * L + g
  BY <1>7, <1>8, <1>9 DEF Light
<1>. QED  BY <1>9, <1>10 DEF Excess

-----------------------------------------------------------------------------
(* The slices of a mini-batch have the same number of rows on all workers, *)
LEMMA WholeLen ==
  ASSUME ConfigInv, DriverInv, NEW s \in 1 .. Turns
  PROVE  \E n \in Nat \ {0} : \A w \in Workers :
           Whole(w)[s] \in Seq(Rec) /\ Len(Whole(w)[s]) = n
<1>1. PICK l \in Nat \ {0} : l = Size
  BY Numbers
<1>2. \A w \in Workers : Chunk(w) \in Seq(Rec) /\ Len(Chunk(w)) = l
  BY <1>1, Chunks DEF ChunkOf
<1>3. CASE phase = "computing"
  <2>1. s = 1
    BY <1>3 DEF Turns
  <2>2. \A w \in Workers : Whole(w)[s] = Chunk(w)
    BY <1>3, <2>1 DEF Whole
  <2>. QED  BY <1>2, <2>2
<1>4. CASE phase # "computing"
  <2>1. PICK b \in Nat \ {0} : b = Mini
    BY DEF ConfigInv
  <2>2. PICK n : n = PartLen(l, b, s)
    OBVIOUS
  <2>3. s \in 1 .. Ceil(l, b)
    BY <1>1, <1>4, <2>1 DEF Turns
  <2>4. ASSUME NEW w \in Workers
        PROVE  Whole(w)[s] \in Seq(Rec) /\ Len(Whole(w)[s]) = n /\ n \in Nat \ {0}
    <3>1. PICK c \in Seq(Rec) : c = Chunk(w) /\ Len(c) = l
      BY <1>2
    <3>2. PICK r : r = Split(c, b)
      OBVIOUS
    <3>3. Whole(w) = r
      BY <1>4, <2>1, <3>1, <3>2 DEF Whole
    <3>4. SplitOf(r, Rec, l, b)
      BY <3>1, <3>2, SplitParts
    <3>5. r \in Seq(Seq(Rec)) /\ Len(r) = Ceil(l, b) /\ Len(r[s]) = n /\ r[s] # << >>
      BY <2>2, <2>3, <3>4 DEF SplitOf
    <3>6. PICK q \in Seq(Seq(Rec)) : q = r /\ s \in 1 .. Len(q)
      BY <2>3, <3>5
    <3>7. PICK d \in Seq(Rec) : d = r[s]
      BY <3>6
    <3>8. Len(d) = n /\ Len(d) \in Nat \ {0}
      BY <3>5, <3>7
    <3>. QED  BY <3>3, <3>7, <3>8
  <2>5. \E w : w \in Workers
    <3>1. PICK x \in Nat \ {0} : x = World
      BY Numbers
    <3>2. 1 \in Workers
      BY <3>1 DEF Workers
    <3>. QED  BY <3>2
  <2>. QED  BY <2>4, <2>5
<1>. QED  BY <1>3, <1>4

(* so none needs more micro-batches than they agree on, and none is made   *)
(* to cut more than it has rows.                                           *)
LEMMA SharedCovers ==
  ASSUME ConfigInv, DriverInv, NEW s \in 1 .. Turns, NEW w \in Workers,
         NEW c \in Seq(Rec), c = Whole(w)[s], c # << >>
  PROVE  Shared(s) \in 1 .. Len(c) /\ NeededOf(c) <= Shared(s)
<1>1. PICK n \in Nat \ {0} : \A v \in Workers : Whole(v)[s] \in Seq(Rec) /\ Len(Whole(v)[s]) = n
  BY WholeLen
<1>2. ASSUME NEW v \in Workers PROVE NeededOf(Whole(v)[s]) \in 1 .. n
  <2>1. PICK d \in Seq(Rec) : d = Whole(v)[s] /\ Len(d) = n
    BY <1>1
  <2>2. d # << >>
    BY <2>1
  <2>. QED  BY <2>1, <2>2, NeededIn
<1>3. PICK S : S = {NeededOf(Whole(v)[s]) : v \in Workers}
  OBVIOUS
<1>4. S \in SUBSET (1 .. n) /\ NeededOf(c) \in S
  BY <1>2, <1>3
<1>5. S \in SUBSET Int /\ S # {} /\ \A y \in S : y <= n
  BY <1>4
<1>6. Max(S) \in S /\ \A y \in S : y <= Max(S)
  <2>1. n \in Int
    OBVIOUS
  <2>. QED  BY ONLY <1>5, <2>1, MaxAbove
<1>7. Len(c) = n
  BY <1>1
<1>8. PICK m : m = Max(S) /\ Shared(s) = m
  BY <1>3 DEF Shared
<1>9. m \in 1 .. n /\ NeededOf(c) <= m
  BY <1>4, <1>6, <1>8
<1>. QED  BY <1>7, <1>8, <1>9

-----------------------------------------------------------------------------

(* So many micro-batches have room for all tokens of the slice.            *)
LEMMA NeededLimit ==
  ASSUME ConfigInv, NEW c \in Seq(Rec), c # << >>, NEW k \in Nat \ {0}, NeededOf(c) <= k
  PROVE  Total(1 .. Len(c), LensOf(c)) <= k * Limit
<1>1. PICK n \in Nat \ {0} : n = Len(c)
  OBVIOUS
<1>2. PICK f : f = LensOf(c)
  OBVIOUS
<1>3. DOMAIN f = 1 .. n /\ \A i \in 1 .. n : f[i] = len[c[i].id]
  BY <1>1, <1>2 DEF LensOf
<1>4. PICK l \in Nat \ {0} : l = Limit
  BY Numbers
<1>5. \A i \in 1 .. n : f[i] \in 1 .. l
  <2>1. \A i \in Rows : len[i] \in 1 .. l
    BY <1>4 DEF ConfigInv
  <2>2. \A i \in 1 .. n : c[i] \in Rec
    BY <1>1
  <2>3. \A i \in 1 .. n : c[i].id \in Rows
    BY <2>2 DEF Rec
  <2>. QED  BY <1>3, <2>1, <2>3
<1>6. IsFiniteSet(1 .. n) /\ Cardinality(1 .. n) = n
  BY FS_Interval
<1>7. PICK t \in Nat : t = Total(1 .. n, f)
  <2>1. \A i \in 1 .. n : f[i] \in Nat
    BY <1>5
  <2>. QED  BY <1>6, <2>1, TotalNat
<1>8. t <= n * l
  <2>1. PICK g : g = [i \in 1 .. n |-> l]
    OBVIOUS
  <2>2. \A i \in 1 .. n : g[i] = l
    BY <2>1
  <2>3. \A i \in 1 .. n : f[i] \in Nat /\ g[i] \in Nat /\ f[i] <= 1 * g[i]
    BY <1>5, <2>2
  <2>4. Total(1 .. n, f) <= 1 * Total(1 .. n, g)
    BY <1>6, <2>3, TotalScale
  <2>5. Total(1 .. n, g) = Cardinality(1 .. n) * l
    BY <1>6, <2>2, TotalConst
  <2>6. Total(1 .. n, g) = n * l
    BY ONLY <1>6, <2>5
  <2>7. PICK e \in Nat : e = n * l
    OBVIOUS
  <2>. QED  BY <1>7, <2>4, <2>6, <2>7
<1>9. PICK p \in Nat : p = Ceil(t, l) /\ t <= p * l
  <2>1. PICK p \in Nat : p = (t + l - 1) \div l
    OBVIOUS
  <2>2. t + l - 1 < p * l + l
    BY <2>1
  <2>3. PICK e \in Nat : e = p * l
    OBVIOUS
  <2>4. t <= e
    BY <2>2, <2>3
  <2>. QED  BY <2>1, <2>3, <2>4 DEF Ceil
<1>10. NeededOf(c) = IF p < n THEN p ELSE n
  BY <1>1, <1>2, <1>3, <1>4, <1>7, <1>9 DEF NeededOf
<1>11. ASSUME NEW m \in Nat, t <= m * l, m <= k PROVE t <= k * l
  <2>1. l * m <= l * k
    BY <1>11, Multiplied
  <2>2. PICK e \in Nat : e = m * l /\ e = l * m
    OBVIOUS
  <2>3. PICK d \in Nat : d = k * l /\ d = l * k
    OBVIOUS
  <2>. QED  BY <1>11, <2>1, <2>2, <2>3
<1>12. t <= k * l
  <2>1. CASE p < n
    <3>1. p <= k
      BY <1>10, <2>1
    <3>. QED  BY <1>9, <1>11, <3>1
  <2>2. CASE ~(p < n)
    <3>1. n <= k
      BY <1>10, <2>2
    <3>. QED  BY <1>8, <1>11, <3>1
  <2>. QED  BY <2>1, <2>2
<1>. QED  BY <1>1, <1>2, <1>4, <1>7, <1>12

-----------------------------------------------------------------------------
(* The load of a row of n tokens, and how it grows with n.                 *)
Costs(w, n, m) == w \in Nat /\ 24576 * n <= w /\ w <= (24576 + m) * n

(* A row weighs 24576 for each of its tokens and its tokens squared.       *)
LEMMA WorkloadBounds ==
  ASSUME NEW n \in Nat, NEW m \in Nat, n <= m
  PROVE  Costs(Workload(n), n, m) /\ Workload(n) <= Workload(m)
<1>1. n * n <= n * m /\ m * n <= m * m
  BY Multiplied
<1>2. PICK a \in Nat, b \in Nat, d \in Nat : a = n * n /\ b = n * m /\ b = m * n /\ d = m * m
  OBVIOUS
<1>3. Workload(n) = 24576 * n + a /\ Workload(m) = 24576 * m + d
  BY <1>2 DEF Workload
<1>4. (24576 + m) * n = 24576 * n + b
  BY <1>2
<1>5. a <= b /\ b <= d
  BY ONLY <1>1, <1>2
<1>6. Workload(n) <= Workload(m) /\ 24576 * n <= Workload(n) /\ Workload(n) \in Nat
  BY <1>2, <1>3, <1>5
<1>7. Workload(n) <= (24576 + m) * n
  BY ONLY <1>2, <1>3, <1>4, <1>5
<1>. QED  BY <1>6, <1>7 DEF Costs

(* A part is not empty, and without its longest row it is little above the *)
(* limit at most.                                                          *)
Tight(p, f, L, lm) ==
  p # {} /\ \A x \in p : (\A y \in p : f[y] <= f[x]) => Excess(Total(p \ {x}, f), L, lm)

Weighed(load, f, n) ==
  /\ DOMAIN load = 1 .. n
  /\ \A i \in 1 .. n : f[i] \in Nat \ {0} /\ load[i] = Workload(f[i])

(* A part of an even state is tight.                                       *)
LEMMA PartTight ==
  ASSUME NEW n \in Nat \ {0}, NEW k \in Nat \ {0}, NEW f, NEW load, Weighed(load, f, n),
         NEW lm \in Nat, \A i \in 1 .. n : f[i] <= lm,
         NEW L \in Nat, Room(Total(1 .. n, f), k, L),
         NEW P, Partition(P, 1 .. n, k), NEW s, Level(s, load, load, k),
         \A j \in 1 .. k : P[j] = s[j].items, NEW i \in 1 .. k, P[i] # {}
  PROVE  Tight(P[i], f, L, lm)
<1>1. IsFiniteSet(1 .. n) /\ Numbered(load, 1 .. n) /\ \A j \in 1 .. n : f[j] \in Nat /\ load[j] \in Nat
  <2>1. \A j \in 1 .. n : f[j] \in Nat /\ load[j] \in Nat
    <3>1. ASSUME NEW j \in 1 .. n PROVE f[j] \in Nat /\ load[j] \in Nat
      <4>1. PICK m \in Nat : m = f[j]
        BY DEF Weighed
      <4>2. Workload(m) \in Nat
        <5>1. m <= m
          OBVIOUS
        <5>2. Costs(Workload(m), m, m)
          BY <5>1, WorkloadBounds
        <5>. QED  BY <5>2 DEF Costs
      <4>. QED  BY <4>1, <4>2 DEF Weighed
    <3>. QED  BY <3>1
  <2>2. IsFiniteSet(1 .. n)
    BY ONLY FS_Interval, n \in Nat \ {0}
  <2>. QED  BY <2>1, <2>2 DEF Numbered
<1>2. P[i] \in SUBSET (1 .. n)
  BY DEF Partition
<1>3. ASSUME NEW x \in P[i], \A y \in P[i] : f[y] <= f[x]
      PROVE  Excess(Total(P[i] \ {x}, f), L, lm)
  <2>1. \A y \in P[i] : load[y] <= load[x]
    <3>1. ASSUME NEW y \in P[i] PROVE load[y] <= load[x]
      <4>1. PICK a \in Nat, b \in Nat : a = f[y] /\ b = f[x] /\ a <= b
        BY <1>1, <1>2, <1>3
      <4>2. Workload(a) <= Workload(b)
        BY ONLY <4>1, WorkloadBounds, a \in Nat, b \in Nat
      <4>3. load[y] = Workload(a) /\ load[x] = Workload(b)
        BY <1>2, <4>1 DEF Weighed
      <4>. QED  BY <4>2, <4>3
    <3>. QED  BY <3>1
  <2>2. load[x] # 0
    <3>1. PICK a \in Nat \ {0} : a = f[x] /\ load[x] = Workload(a)
      BY <1>2 DEF Weighed
    <3>2. 24576 * a <= Workload(a) /\ Workload(a) \in Nat
      <4>1. a <= a
        OBVIOUS
      <4>2. Costs(Workload(a), a, a)
        BY <4>1, WorkloadBounds
      <4>. QED  BY <4>2 DEF Costs
    <3>. QED  BY <3>1, <3>2
  <2>3. BelowMean(k, Total(P[i] \ {x}, load), Total(1 .. n, load))
    BY <1>1, <2>1, <2>2, PartLoad
  <2>4. PICK Q \in SUBSET (1 .. n) : Q = P[i] \ {x}
    BY <1>2
  <2>5. IsFiniteSet(Q)
    BY <1>1, FS_Subset
  <2>6. PICK q \in Nat, r \in Nat, a \in Nat, t \in Nat :
          /\ q = Total(Q, load) /\ r = Total(Q, f)
          /\ a = Total(1 .. n, load) /\ t = Total(1 .. n, f)
    <3>1. (\A j \in Q : f[j] \in Nat /\ load[j] \in Nat)
      BY <1>1
    <3>2. Total(Q, load) \in Nat /\ Total(Q, f) \in Nat
      BY <2>5, <3>1, TotalNat
    <3>3. Total(1 .. n, load) \in Nat /\ Total(1 .. n, f) \in Nat
      BY <1>1, TotalNat
    <3>. QED  BY <3>2, <3>3
  <2>7. ASSUME NEW j \in 1 .. n
        PROVE  /\ f[j] \in Nat /\ load[j] \in Nat
               /\ 24576 * f[j] <= 1 * load[j] /\ 1 * load[j] <= (24576 + lm) * f[j]
    <3>1. PICK m \in Nat : m = f[j] /\ m <= lm /\ load[j] = Workload(m)
      BY DEF Weighed
    <3>2. /\ Workload(m) \in Nat /\ 24576 * m <= Workload(m)
          /\ Workload(m) <= (24576 + lm) * m
      <4>1. Costs(Workload(m), m, lm)
        BY <3>1, WorkloadBounds
      <4>. QED  BY <4>1 DEF Costs
    <3>3. PICK z \in Nat : z = Workload(m)
      BY <3>2
    <3>4. 1 * z = z
      OBVIOUS
    <3>. QED  BY ONLY <3>1, <3>2, <3>3, <3>4
  <2>8. 24576 * Total(Q, f) <= 1 * Total(Q, load)
    <3>1. PICK b \in Nat, c \in Nat : b = 24576 /\ c = 1
      OBVIOUS
    <3>2. \A j \in Q : f[j] \in Nat /\ load[j] \in Nat /\ b * f[j] <= c * load[j]
      BY <2>7, <3>1
    <3>3. b * Total(Q, f) <= c * Total(Q, load)
      BY ONLY <2>5, <3>2, TotalScaled, b \in Nat, c \in Nat
    <3>. QED  BY ONLY <3>1, <3>3
  <2>9. 1 * Total(1 .. n, load) <= (24576 + lm) * Total(1 .. n, f)
    <3>1. 24576 + lm \in Nat /\ 1 \in Nat
      OBVIOUS
    <3>2. \A j \in 1 .. n : load[j] \in Nat /\ f[j] \in Nat /\ 1 * load[j] <= (24576 + lm) * f[j]
      BY <2>7
    <3>. QED  BY <1>1, <3>1, <3>2, TotalScaled
  <2>10. Light(r, q)
    BY <2>6, <2>8 DEF Light
  <2>11. Heavy(a, t, lm)
    <3>1. 1 * a <= (24576 + lm) * t
      BY ONLY <2>6, <2>9
    <3>2. 1 * a = a
      OBVIOUS
    <3>. QED  BY ONLY <3>1, <3>2 DEF Heavy
  <2>12. BelowMean(k, q, a) /\ Room(t, k, L)
    BY ONLY <2>3, <2>4, <2>6, Room(Total(1 .. n, f), k, L)
  <2>13. Excess(r, L, lm)
    BY ONLY <2>10, <2>11, <2>12, ExcessOf, k \in Nat \ {0}, lm \in Nat, L \in Nat,
            q \in Nat, r \in Nat, a \in Nat, t \in Nat
  <2>. QED  BY ONLY <2>4, <2>6, <2>13
<1>. QED  BY <1>3 DEF Tight

-----------------------------------------------------------------------------
(* The lengths of the rows of a slice.                                     *)
LEMMA RowLens ==
  ASSUME ConfigInv, NEW c \in Seq(Rec), NEW n \in Nat, n = Len(c)
  PROVE  /\ DOMAIN LensOf(c) = 1 .. n
         /\ \A i \in 1 .. n : /\ LensOf(c)[i] \in 1 .. Limit /\ LensOf(c)[i] \in Nat \ {0}
                              /\ LensOf(c)[i] = len[c[i].id]
<1>1. PICK f : f = LensOf(c)
  OBVIOUS
<1>2. DOMAIN f = 1 .. n /\ \A i \in 1 .. n : f[i] = len[c[i].id]
  BY <1>1 DEF LensOf
<1>3. PICK l \in Nat \ {0} : l = Limit
  BY Numbers
<1>4. \A i \in Rows : len[i] \in 1 .. l
  BY <1>3 DEF ConfigInv
<1>5. \A i \in 1 .. n : c[i] \in Rec
  OBVIOUS
<1>6. \A i \in 1 .. n : c[i].id \in Rows
  BY <1>5 DEF Rec
<1>7. \A i \in 1 .. n : f[i] \in 1 .. l
  BY <1>2, <1>4, <1>6
<1>. QED  BY <1>1, <1>2, <1>3, <1>7

(* The parts of the last state.                                            *)
LEMMA PartsTight ==
  ASSUME ConfigInv, NEW c \in Seq(Rec), NEW n \in Nat \ {0}, n = Len(c),
         NEW k \in 1 .. n, NeededOf(c) <= k,
         NEW h, Chain(LoadsOf(c), k, h), Cardinality(h) = 1,
         NEW lm \in Nat, \A i \in 1 .. n : LensOf(c)[i] <= lm
  PROVE  /\ Partition(Parts(h, k), 1 .. n, k)
         /\ \A i \in 1 .. k : Tight(Parts(h, k)[i], LensOf(c), Limit, lm)
<1>0. c # << >> /\ k \in Nat \ {0} /\ 1 .. n \in SUBSET Nat /\ 1 .. n # {}
  OBVIOUS
<1>1. IsFiniteSet(1 .. n) /\ Cardinality(1 .. n) = n
  BY ONLY FS_Interval, n \in Nat \ {0}
<1>2. PICK load : load = LoadsOf(c)
  OBVIOUS
<1>3. PICK f : f = LensOf(c)
  OBVIOUS
<1>4. DOMAIN f = 1 .. n /\ \A i \in 1 .. n : f[i] \in Nat \ {0}
  BY <1>3, RowLens
<1>5. Weighed(load, f, n)
  <2>1. DOMAIN load = 1 .. n /\ \A i \in 1 .. n : load[i] = Workload(f[i])
    BY <1>2, <1>3 DEF LoadsOf
  <2>. QED  BY <1>4, <2>1 DEF Weighed
<1>6. Weighs(load, 1 .. n)
  <2>1. DOMAIN load = 1 .. n /\ \A i \in 1 .. n : load[i] \in Nat \ {0}
    BY <1>0, <1>2, NeededIn
  <2>. QED  BY <2>1 DEF Weighs
<1>7. Evened(h, 1 .. n, load, k)
  BY <1>0, <1>1, <1>2, <1>6, ChainEvened
<1>8. PICK s : s \in h /\ OnlyState(s, h, k)
  BY <1>0, <1>7, LastState DEF Evened
<1>9. PICK P : P = Parts(h, k)
  OBVIOUS
<1>10. \A i \in 1 .. k : P[i] = s[i].items
  BY <1>8, <1>9 DEF OnlyState
<1>11. Level(s, load, load, k)
  BY ONLY <1>7, <1>8 DEF Evened
<1>12. Partition(P, 1 .. n, k)
  BY <1>0, <1>7, <1>9, LastPartition DEF Evened
<1>13. \A i \in 1 .. k : P[i] # {}
  <2>1. HeapOf(h, 1 .. n, k) /\ \A t \in h : Filling(t, k)
    BY <1>7 DEF Evened
  <2>2. k <= Cardinality(1 .. n)
    BY <1>1
  <2>. QED  BY <1>0, <1>1, <1>9, <2>1, <2>2, LastFilled
<1>14. PICK L \in Nat : L = Limit
  BY Numbers
<1>15. Room(Total(1 .. n, f), k, L)
  <2>1. Total(1 .. n, f) <= k * L
    BY <1>0, <1>3, <1>14, NeededLimit
  <2>. QED  BY <2>1 DEF Room
<1>16. \A i \in 1 .. n : f[i] <= lm
  BY <1>3
<1>17. ASSUME NEW i \in 1 .. k PROVE Tight(P[i], f, L, lm)
  BY <1>0, <1>5, <1>10, <1>11, <1>12, <1>13, <1>15, <1>16, PartTight
<1>. QED  BY <1>3, <1>9, <1>12, <1>14, <1>17

-----------------------------------------------------------------------------

(* A micro-batch made of such a part.                                      *)
Little(m, L, lm) ==
  24576 * ((Length(m) - L) - Max({len[r.id] : r \in Range(m)})) < L * lm

MicroOf(m, c, b, a) == m = [j \in 1 .. a |-> c[b[j]]]

(* A micro-batch made of a tight part exceeds the limit by little.         *)
LEMMA MicroLittle ==
  ASSUME ConfigInv, NEW c \in Seq(Rec), NEW n \in Nat, n = Len(c),
         NEW p \in SUBSET (1 .. n), NEW lm \in Nat, Tight(p, LensOf(c), Limit, lm),
         NEW a \in Nat, NEW b \in Bijection(1 .. a, p), NEW m, MicroOf(m, c, b, a)
  PROVE  Little(m, Limit, lm)
<1>1. PICK f : f = LensOf(c)
  OBVIOUS
<1>2. PICK L \in Nat \ {0} : L = Limit
  BY Numbers
<1>3. \A i \in 1 .. n : f[i] \in 1 .. L /\ f[i] \in Nat /\ f[i] = len[c[i].id]
  BY <1>1, <1>2, RowLens
<1>4. /\ \A j \in 1 .. a : b[j] \in p /\ b[j] \in 1 .. n
      /\ \A x \in p : \E j \in 1 .. a : b[j] = x
  BY DEF Bijection, Injection, Surjection
<1>5. DOMAIN m = 1 .. a /\ \A j \in 1 .. a : m[j] = c[b[j]] /\ len[m[j].id] = f[b[j]]
  BY <1>3, <1>4 DEF MicroOf
<1>6. PICK X : X = {len[r.id] : r \in Range(m)}
  OBVIOUS
<1>7. X = {f[x] : x \in p}
  <2>1. \A r : r \in Range(m) <=> \E j \in 1 .. a : r = m[j]
    BY <1>5 DEF Range
  <2>2. ASSUME NEW z \in X PROVE \E x \in p : z = f[x]
    <3>1. PICK r \in Range(m) : z = len[r.id]
      BY <1>6
    <3>2. PICK j \in 1 .. a : r = m[j]
      BY <2>1
    <3>. QED  BY <1>4, <1>5, <3>1, <3>2
  <2>3. ASSUME NEW x \in p PROVE f[x] \in X
    <3>1. PICK j \in 1 .. a : b[j] = x
      BY <1>4
    <3>2. m[j] \in Range(m) /\ len[m[j].id] = f[x]
      BY <1>5, <2>1, <3>1
    <3>. QED  BY <1>6, <3>2
  <2>. QED  BY <2>2, <2>3
<1>8. PICK x \in p : Max(X) = f[x] /\ \A y \in p : f[y] <= f[x]
  <2>1. L \in Int /\ X \in SUBSET Int /\ X # {} /\ \A y \in X : y <= L
    <3>1. p # {}
      BY DEF Tight
    <3>2. \A x \in p : f[x] \in Int /\ f[x] <= L
      BY <1>3
    <3>3. X \in SUBSET Int /\ X # {} /\ \A y \in X : y <= L
      BY ONLY <1>7, <3>1, <3>2
    <3>. QED  BY <3>3
  <2>2. Max(X) \in X /\ \A y \in X : y <= Max(X)
    BY <2>1, MaxAbove
  <2>3. PICK u : u = Max(X)
    OBVIOUS
  <2>. QED  BY <1>7, <2>2, <2>3
<1>9. IsFiniteSet(p) /\ \A y \in p : f[y] \in Nat
  <2>1. IsFiniteSet(1 .. n)
    BY ONLY FS_Interval, n \in Nat
  <2>. QED  BY <1>3, <2>1, FS_Subset
<1>10. Length(m) = Total(p, f)
  <2>1. PICK g : g = [i \in DOMAIN m |-> len[m[i].id]]
    OBVIOUS
  <2>2. Length(m) = Total(1 .. a, g)
    BY <1>5, <2>1 DEF Length
  <2>3. \A j \in 1 .. a : g[j] \in Nat /\ g[j] = f[b[j]]
    BY <1>4, <1>5, <1>9, <2>1
  <2>4. IsFiniteSet(1 .. a)
    BY FS_Interval
  <2>5. Total(1 .. a, g) = Total(p, f)
    BY ONLY <2>3, <2>4, b \in Bijection(1 .. a, p), TotalRenamed
  <2>. QED  BY <2>2, <2>5
<1>11. PICK r \in Nat, l \in Nat : r = Total(p \ {x}, f) /\ l = f[x] /\ Length(m) = l + r
  <2>1. Total(p, f) = f[x] + Total(p \ {x}, f)
    BY <1>9, TotalRemove
  <2>2. IsFiniteSet(p \ {x}) /\ \A y \in p \ {x} : f[y] \in Nat
    BY <1>9, FS_Subset
  <2>3. Total(p \ {x}, f) \in Nat /\ f[x] \in Nat
    BY <1>9, <2>2, TotalNat
  <2>. QED  BY <1>10, <2>1, <2>3
<1>12. Excess(r, L, lm)
  BY <1>1, <1>2, <1>8, <1>11 DEF Tight
<1>13. PICK g \in Nat : g = L * lm
  OBVIOUS
<1>14. 24576 * (r - L) < g
  BY <1>12, <1>13 DEF Excess
<1>15. (Length(m) - L) - Max(X) = r - L
  BY <1>8, <1>11
<1>. QED  BY <1>2, <1>6, <1>13, <1>14, <1>15 DEF Little

-----------------------------------------------------------------------------
(* The micro-batches that are cut from a slice.                            *)
LEMMA MicrosLittle ==
  ASSUME ConfigInv, NEW c \in Seq(Rec), NEW n \in Nat \ {0}, n = Len(c),
         NEW k \in 1 .. n, NeededOf(c) <= k,
         NEW h, Chain(LoadsOf(c), k, h), Cardinality(h) = 1,
         NEW lm \in Nat, \A i \in 1 .. n : LensOf(c)[i] <= lm,
         NEW M \in Seq(Seq(Rec)), M = MicrosOf(c, k, h), NEW m \in 1 .. Len(M)
  PROVE  Little(M[m], Limit, lm)
<1>0. c # << >> /\ k \in Nat
  OBVIOUS
<1>1. PICK P : P = Parts(h, k)
  OBVIOUS
<1>2. Partition(P, 1 .. n, k) /\ \A i \in 1 .. k : Tight(P[i], LensOf(c), Limit, lm)
  BY <1>1, PartsTight
<1>3. \A i \in 1 .. k : P[i] # {}
  BY <1>2 DEF Tight
<1>4. PICK load : load = LoadsOf(c)
  OBVIOUS
<1>5. \A i \in 1 .. n : load[i] \in Nat
  BY <1>0, <1>4, NeededIn
<1>6. PICK A : A = Arranged(Range(P), load)
  OBVIOUS
<1>7. ArrangedOf(A, P, k)
  BY <1>0, <1>2, <1>3, <1>5, <1>6, ArrangedParts
<1>8. DOMAIN A = 1 .. k /\ \A l \in 1 .. k : A[l] \in Range(P)
  <2>1. A \in Seq(Range(P)) /\ Len(A) = k
    BY <1>7 DEF ArrangedOf
  <2>. QED  BY <2>1
<1>9. PICK lists : lists = [l \in DOMAIN A |-> Ascending(A[l])]
  OBVIOUS
<1>10. M = Picked(lists, c)
  <2>1. lists = ListsOf(c, k, h)
    BY <1>1, <1>4, <1>6, <1>9 DEF ListsOf
  <2>. QED  BY <2>1 DEF MicrosOf
<1>11. m \in 1 .. k /\ M[m] = [i \in DOMAIN lists[m] |-> c[lists[m][i]]]
  <2>1. DOMAIN M = DOMAIN lists /\ DOMAIN lists = 1 .. k
    BY <1>8, <1>9, <1>10 DEF Picked
  <2>2. m \in DOMAIN M
    OBVIOUS
  <2>. QED  BY <1>10, <2>1, <2>2 DEF Picked
<1>12. PICK i \in 1 .. k : A[m] = P[i]
  BY <1>2, <1>8, <1>11 DEF Range, Partition
<1>13. PICK p \in SUBSET (1 .. n) : p = P[i]
  BY <1>2 DEF Partition
<1>14. PICK a \in Nat : Ascending(p) \in Bijection(1 .. a, p)
  BY AscendingPart
<1>15. PICK b : b = Ascending(p) /\ b \in Bijection(1 .. a, p)
  BY <1>14
<1>16. lists[m] = b /\ DOMAIN b = 1 .. a
  <2>1. lists[m] = b
    BY <1>8, <1>9, <1>11, <1>12, <1>13, <1>15
  <2>. QED  BY <1>15, <2>1 DEF Bijection, Injection
<1>17. PICK q : q = M[m] /\ MicroOf(q, c, b, a)
  BY <1>11, <1>16 DEF MicroOf
<1>18. Tight(p, LensOf(c), Limit, lm)
  BY <1>2, <1>13
<1>19. Little(q, Limit, lm)
  BY ONLY <1>15, <1>17, <1>18, MicroLittle, ConfigInv, c \in Seq(Rec), n \in Nat, n = Len(c),
          p \in SUBSET (1 .. n), lm \in Nat, a \in Nat
<1>. QED  BY <1>17, <1>19

-----------------------------------------------------------------------------

(* The longest row of a slice.                                             *)
LEMMA LongestRow ==
  ASSUME ConfigInv, NEW c \in Seq(Rec), c # << >>, NEW n \in Nat \ {0}, n = Len(c)
  PROVE  /\ Max(Range(LensOf(c))) \in Nat
         /\ \A i \in 1 .. n : LensOf(c)[i] <= Max(Range(LensOf(c)))
<1>1. PICK f : f = LensOf(c)
  OBVIOUS
<1>2. PICK L \in Nat \ {0} : L = Limit
  BY Numbers
<1>3. DOMAIN f = 1 .. n /\ \A i \in 1 .. n : f[i] \in 1 .. L
  BY <1>1, <1>2, RowLens
<1>4. PICK X : X = Range(f)
  OBVIOUS
<1>5. (\A i \in 1 .. n : f[i] \in X) /\ (\A y \in X : \E i \in 1 .. n : y = f[i])
  BY <1>3, <1>4 DEF Range
<1>6. L \in Int /\ X \in SUBSET Int /\ X # {} /\ \A y \in X : y <= L
  <2>1. 1 \in 1 .. n
    OBVIOUS
  <2>. QED  BY <1>3, <1>5, <2>1
<1>7. Max(X) \in X /\ \A y \in X : y <= Max(X)
  BY <1>6, MaxAbove
<1>8. PICK u : u = Max(X)
  OBVIOUS
<1>9. u \in Nat
  BY <1>3, <1>5, <1>7, <1>8
<1>. QED  BY <1>1, <1>4, <1>5, <1>7, <1>8, <1>9

(* Every micro-batch a worker has still to run was cut so.                 *)
LEMMA SmallExcess ==
  ASSUME IInv, DataInv
  PROVE  LittleExcess
<1>1. SUFFICES ASSUME NEW w \in Workers, config.dynamic, pc[w] = "forward",
                      NEW m \in DOMAIN micros[w]
               PROVE  Little(micros[w][m], Limit, Max(Range(SliceLen(w))))
  BY DEF LittleExcess, Little
<1>2. InCall /\ AtWork(w) /\ ConfigInv /\ DriverInv
  BY <1>1, IsAtWork DEF IInv, AtWork
<1>3. FlowInv(w)
  BY <1>2 DEF DataInv
<1>4. PICK c \in Seq(Rec) : c = Slice(w) /\ c # << >>
  BY <1>2, <1>3, SliceIs
<1>5. PICK s \in 1 .. Turns : s = Turn(w) /\ c = Whole(w)[s]
  BY <1>2, <1>3, <1>4, SliceIs
<1>6. PICK k : k = Shared(s)
  OBVIOUS
<1>7. k \in 1 .. Len(c) /\ NeededOf(c) <= k
  BY <1>2, <1>4, <1>5, <1>6, SharedCovers
<1>8. PICK M \in Seq(Seq(Rec)) : \E off : \E d :
        CutAs(M, Slice(w), Turn(w)) /\ Ran(w, M, off, d)
  BY <1>1, <1>3 DEF FlowInv, RunInv, Running
<1>9. PICK off : \E d : CutAs(M, Slice(w), Turn(w)) /\ Ran(w, M, off, d)
  BY <1>8
<1>10. PICK d : CutAs(M, Slice(w), Turn(w)) /\ Ran(w, M, off, d)
  BY <1>9
<1>11. PICK h : Chain(LoadsOf(c), k, h) /\ Cardinality(h) = 1 /\ M = MicrosOf(c, k, h)
  BY <1>1, <1>4, <1>5, <1>6, <1>10 DEF CutAs
<1>12. PICK l \in 1 .. Len(M) : micros[w][m] = M[l]
  <2>1. /\ d \in 0 .. Len(M) /\ micros[w] \in Seq(Seq(Rec)) /\ Len(micros[w]) = Len(M) - d
        /\ \A j \in 1 .. Len(M) - d : micros[w][j] = M[d + j]
    BY <1>10 DEF Ran
  <2>2. PICK t \in Seq(Seq(Rec)) : t = micros[w]
    BY <2>1
  <2>3. m \in 1 .. Len(t)
    BY <2>2
  <2>4. PICK q \in Nat : q = Len(M)
    OBVIOUS
  <2>5. d \in 0 .. q /\ Len(t) = q - d
    BY ONLY <2>1, <2>2, <2>4
  <2>6. m \in 1 .. q - d /\ d + m \in 1 .. q
    BY ONLY <2>3, <2>5, q \in Nat
  <2>. QED  BY ONLY <2>1, <2>4, <2>6
<1>13. PICK n \in Nat \ {0} : n = Len(c)
  BY <1>4
<1>14. PICK lm : lm = Max(Range(LensOf(c)))
  OBVIOUS
<1>15. lm \in Nat /\ \A i \in 1 .. n : LensOf(c)[i] <= lm
  BY <1>2, <1>4, <1>13, <1>14, LongestRow
<1>16. Little(M[l], Limit, lm)
  BY <1>2, <1>7, <1>11, <1>13, <1>15, MicrosLittle
<1>17. SliceLen(w) = LensOf(c)
  BY <1>4, SliceNames
<1>. QED  BY <1>12, <1>14, <1>16, <1>17

(* Both partitions are even: the driver's parts differ by no more than     *)
(* rows that are neighbours by load, and a worker's micro-batches exceed   *)
(* the token limit by less than their longest row and what the squares in  *)
(* calculate_workload can make of it.                                      *)
THEOREM SpecEvenLoads == Spec => []EvenLoads
<1>1. IInv /\ DataInv /\ EvenInv => EvenLoads
  BY SmallExcess DEF EvenInv, EvenLoads
<1>. QED  BY <1>1, SpecData, SpecEvenInv, PTL

=============================================================================
