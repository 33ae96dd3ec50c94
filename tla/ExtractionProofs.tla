-------------------------- MODULE ExtractionProofs --------------------------
(***************************************************************************)
(* Proofs about Extraction, for any PDF within the bounds and any          *)
(* thresholds.  First what the operators of DocumentStructure do with the  *)
(* segments: a filter, the stable sort and the concatenation of sequences  *)
(* each match the positions of what they take with those of what they      *)
(* make, and the scan that cuts a page into lines covers it run by run.    *)
(* Then what structure returns, and at last the lines are counted, from    *)
(* the PDF to the chunks: each step is a bijection.                        *)
(***************************************************************************)
EXTENDS Extraction, ChunkingProofs, FiniteSetTheorems, FunctionTheorems, SequenceTheorems
-----------------------------------------------------------------------------
(* Sequences, and finite sets in order. *)

LEMMA FunctionIsSeq ==
    ASSUME NEW S, NEW n \in Nat, NEW f \in [1..n -> S]
    PROVE  f \in Seq(S) /\ Len(f) = n /\ DOMAIN f = 1..n
<1>1. f \in UNION {[1..k -> S] : k \in Nat}
  OBVIOUS
<1>2. f \in Seq(S)
  BY <1>1, SeqDef
<1> QED BY <1>2

\* R is a linear order of K.
Linear(K, R) ==
    /\ \A i, j \in K : <<i, j>> \in R \/ <<j, i>> \in R
    /\ \A i, j \in K : <<i, j>> \in R /\ <<j, i>> \in R => i = j
    /\ \A i, j, k \in K : <<i, j>> \in R /\ <<j, k>> \in R => <<i, k>> \in R

\* InOrder lists every member of a finite set once, in the order: the rank of a
\* member is how many come before it, itself included.
LEMMA InOrderLists ==
    ASSUME NEW K, IsFiniteSet(K), NEW R, Linear(K, R)
    PROVE  /\ Cardinality(K) \in Nat
           /\ InOrder(K, R) \in Bijection(1..Cardinality(K), K)
           /\ \A k, m \in 1..Cardinality(K) :
                 k <= m => <<InOrder(K, R)[k], InOrder(K, R)[m]>> \in R
<1> DEFINE n == Cardinality(K)
           Upto(i) == {j \in K : <<j, i>> \in R}
           rank == [i \in K |-> Cardinality(Upto(i))]
           order == InOrder(K, R)
<1>1. n \in Nat /\ IsFiniteSet(1..n) /\ Cardinality(1..n) = n
  BY FS_CardinalityType, FS_Interval
<1>2. ASSUME NEW i \in K
      PROVE  /\ IsFiniteSet(Upto(i)) /\ i \in Upto(i)
             /\ Cardinality(Upto(i)) \in 1..n
  <2>1. Upto(i) \in SUBSET K /\ i \in Upto(i)
    BY DEF Linear
  <2> HIDE DEF Upto
  <2>2. IsFiniteSet(Upto(i)) /\ Cardinality(Upto(i)) <= n
    BY <2>1, FS_Subset
  <2>3. Cardinality(Upto(i)) \in Nat /\ Cardinality(Upto(i)) # 0
    BY <2>1, <2>2, FS_CardinalityType, FS_EmptySet
  <2> QED BY <1>1, <2>1, <2>2, <2>3
<1>3. ASSUME NEW i \in K, NEW j \in K, <<i, j>> \in R, i # j
      PROVE  rank[i] < rank[j]
  <2>1. Upto(i) \in SUBSET Upto(j) /\ j \in Upto(j) /\ j \notin Upto(i)
    BY <1>3 DEF Linear
  <2>2. /\ IsFiniteSet(Upto(j))
        /\ Cardinality(Upto(i)) \in Nat /\ Cardinality(Upto(j)) \in Nat
    <3> HIDE DEF Upto
    <3> QED BY <1>1, <1>2
  <2>3. rank[i] = Cardinality(Upto(i)) /\ rank[j] = Cardinality(Upto(j))
    OBVIOUS
  <2> HIDE DEF Upto, rank
  <2>4. Cardinality(Upto(i)) <= Cardinality(Upto(j)) /\ Cardinality(Upto(i)) # Cardinality(Upto(j))
    BY <2>1, <2>2, FS_Subset
  <2> QED BY <2>2, <2>3, <2>4
<1>4. rank \in [K -> 1..n] /\ \A i \in K : rank[i] = Cardinality(Upto(i))
  <2> HIDE DEF Upto
  <2> QED BY <1>2
<1>5. \A i, j \in K : rank[i] = rank[j] => i = j
  <2> SUFFICES ASSUME NEW i \in K, NEW j \in K, i # j PROVE rank[i] # rank[j]
    OBVIOUS
  <2>1. <<i, j>> \in R \/ <<j, i>> \in R
    BY DEF Linear
  <2>2. rank[i] \in Nat /\ rank[j] \in Nat
    BY <1>1, <1>4
  <2> HIDE DEF rank
  <2> QED BY <1>3, <2>1, <2>2
<1> HIDE DEF rank, n
<1>6. rank \in Injection(K, 1..n)
  BY <1>4, <1>5, Fun_IsInj
<1>7. rank \in Surjection(K, 1..n)
  BY <1>1, <1>6, FS_Injection DEF n
<1>8. order = [k \in 1..n |-> CHOOSE i \in K : Cardinality(Upto(i)) = k]
  BY DEF InOrder, n
<1>9. ASSUME NEW k \in 1..n
      PROVE  order[k] \in K /\ rank[order[k]] = k
  <2>1. \E i \in K : Cardinality(Upto(i)) = k
    <3> HIDE DEF Upto
    <3>1. PICK i \in K : rank[i] = k
      BY <1>7 DEF Surjection
    <3> QED BY <1>4, <3>1
  <2> HIDE DEF Upto
  <2>2. order[k] = CHOOSE i \in K : Cardinality(Upto(i)) = k
    BY <1>8
  <2> HIDE DEF order
  <2> QED BY <1>4, <2>1, <2>2
<1> HIDE DEF order, Upto
<1>10. order \in [1..n -> K]
  BY <1>8, <1>9
<1>11. order \in Bijection(1..n, K)
  <2>1. \A k, m \in 1..n : order[k] = order[m] => k = m
    BY <1>9
  <2>2. ASSUME NEW i \in K PROVE \E k \in 1..n : order[k] = i
    BY <1>4, <1>5, <1>9
  <2> QED BY <1>10, <2>1, <2>2, Fun_IsBij
<1>12. ASSUME NEW k \in 1..n, NEW m \in 1..n, k <= m
       PROVE  <<order[k], order[m]>> \in R
  <2>1. order[k] \in K /\ order[m] \in K /\ rank[order[k]] = k /\ rank[order[m]] = m
    BY <1>9
  <2>2. CASE order[k] = order[m]
    BY <2>1, <2>2 DEF Linear
  <2>3. CASE order[k] # order[m]
    <3>1. <<order[m], order[k]>> \notin R
      <4> SUFFICES ASSUME <<order[m], order[k]>> \in R PROVE FALSE
        OBVIOUS
      <4>1. rank[order[m]] < rank[order[k]]
        BY <1>3, <2>1, <2>3
      <4> QED BY <1>1, <1>12, <2>1, <4>1
    <3> QED BY <2>1, <3>1 DEF Linear
  <2> QED BY <2>2, <2>3
<1> QED BY <1>1, <1>11, <1>12 DEF n, order

\* The positions that a selection keeps, in order.
Kept(K) == InOrder(K, {r \in K \X K : r[1] <= r[2]})

LEMMA KeptInOrder ==
    ASSUME NEW n \in Nat, NEW K \in SUBSET (1..n)
    PROVE  /\ IsFiniteSet(K) /\ Cardinality(K) \in 0..n
           /\ Kept(K) \in Bijection(1..Cardinality(K), K)
           /\ \A k, m \in 1..Cardinality(K) : k < m => Kept(K)[k] < Kept(K)[m]
<1> DEFINE R == {r \in K \X K : r[1] <= r[2]}
<1>1. IsFiniteSet(K) /\ Cardinality(K) <= n
  <2>1. IsFiniteSet(1..n) /\ Cardinality(1..n) = n
    BY FS_Interval
  <2> HIDE DEF R
  <2> QED BY <2>1, FS_Subset
<1>2. \A i, j \in K : <<i, j>> \in R <=> i <= j
  OBVIOUS
<1>3. \A i \in K : i \in Nat
  OBVIOUS
<1> HIDE DEF R
<1>4. Linear(K, R)
  BY <1>2, <1>3 DEF Linear
<1>5. /\ Cardinality(K) \in Nat
      /\ Kept(K) \in Bijection(1..Cardinality(K), K)
      /\ \A k, m \in 1..Cardinality(K) : k <= m => <<Kept(K)[k], Kept(K)[m]>> \in R
  BY <1>1, <1>4, InOrderLists DEF Kept, R
<1>6. ASSUME NEW k \in 1..Cardinality(K), NEW m \in 1..Cardinality(K), k < m
      PROVE  Kept(K)[k] < Kept(K)[m]
  <2>1. /\ Kept(K)[k] \in K /\ Kept(K)[m] \in K
        /\ Kept(K)[k] # Kept(K)[m]
    BY <1>5, <1>6, Fun_BijectionProperties
  <2>2. <<Kept(K)[k], Kept(K)[m]>> \in R
    BY <1>5, <1>6
  <2>3. Kept(K)[k] <= Kept(K)[m]
    BY <1>2, <2>1, <2>2
  <2>4. Kept(K)[k] \in Nat /\ Kept(K)[m] \in Nat
    BY <1>3, <2>1
  <2>5. \A i, j \in Nat : i <= j /\ i # j => i < j
    OBVIOUS
  <2> QED BY <2>1, <2>3, <2>4, <2>5
<1> QED BY <1>1, <1>5, <1>6

\* What a filter keeps of a sequence is a sequence: those elements, in order.
LEMMA Selected ==
    ASSUME NEW V, NEW s \in Seq(V), NEW K \in SUBSET (DOMAIN s)
    PROVE  /\ Selection(s, K) \in Seq(V)
           /\ Len(Selection(s, K)) = Cardinality(K)
           /\ Selection(s, K) = [k \in 1..Cardinality(K) |-> s[Kept(K)[k]]]
<1>1. Len(s) \in Nat /\ K \in SUBSET (1..Len(s))
  OBVIOUS
<1>2. Cardinality(K) \in Nat /\ Kept(K) \in [1..Cardinality(K) -> K]
  BY <1>1, KeptInOrder, Fun_BijectionProperties
<1>3. Selection(s, K) = [k \in 1..Cardinality(K) |-> s[Kept(K)[k]]]
  <2>1. DOMAIN Kept(K) = 1..Cardinality(K)
    BY <1>2
  <2> QED BY <2>1 DEF Selection, Kept
<1>4. \A k \in 1..Cardinality(K) : s[Kept(K)[k]] \in V
  BY <1>1, <1>2
<1>5. Selection(s, K) \in [1..Cardinality(K) -> V]
  BY <1>3, <1>4
<1>6. Selection(s, K) \in Seq(V)
  BY <1>2, <1>5, FunctionIsSeq
<1>7. DOMAIN Selection(s, K) = 1..Cardinality(K)
  BY <1>5
<1>8. Len(Selection(s, K)) = Cardinality(K)
  BY <1>2, <1>6, <1>7
<1> QED BY <1>3, <1>6, <1>8
-----------------------------------------------------------------------------
(* Flattening. *)

\* FlattenSeq, as the growing sequence that computes it.
LEMMA FlattenDef ==
    ASSUME NEW V, NEW rows \in Seq(Seq(V))
    PROVE  \E flat \in [0..Len(rows) -> Seq(V)] :
              /\ flat[0] = <<>>
              /\ \A i \in 1..Len(rows) : flat[i] = flat[i - 1] \o rows[i]
              /\ FlattenSeq(rows) = flat[Len(rows)]
<1> DEFINE n == Len(rows)
           Row(i) == IF i \in 1..n THEN rows[i] ELSE <<>>
           step == [i \in Nat |-> [s \in Seq(V) |-> s \o Row(i)]]
           Is(f) == f = [i \in 1..n |-> IF i = 1 THEN rows[i] ELSE f[i - 1] \o rows[i]]
           sum == CHOOSE f : Is(f)
<1>0. n \in Nat /\ DOMAIN rows = 1..n /\ \A i \in 1..n : rows[i] \in Seq(V)
  OBVIOUS
<1>1. step \in [Nat -> [Seq(V) -> Seq(V)]]
  <2>1. \A i \in Nat : Row(i) \in Seq(V)
    <3>1. <<>> \in Seq(V)
      OBVIOUS
    <3> QED BY <1>0, <3>1
  <2> HIDE DEF Row
  <2> DEFINE Adds(i) == [s \in Seq(V) |-> s \o Row(i)]
  <2>2. ASSUME NEW i \in Nat PROVE Adds(i) \in [Seq(V) -> Seq(V)]
    BY <2>1
  <2>3. step = [i \in Nat |-> Adds(i)]
    OBVIOUS
  <2> HIDE DEF step, Adds
  <2> QED BY <2>2, <2>3
<1>2. PICK flat \in [0..n -> Seq(V)] : Solves(flat, n, <<>>, step)
  <2> HIDE DEF step, n
  <2>1. <<>> \in Seq(V)
    OBVIOUS
  <2> QED BY <1>0, <1>1, <2>1, Recursion
<1>3. ASSUME NEW i \in 1..n PROVE flat[i] = flat[i - 1] \o rows[i]
  <2>0. i \in Nat /\ i - 1 \in 0..n /\ Row(i) = rows[i]
    BY <1>0
  <2> HIDE DEF Row
  <2>1. flat[i - 1] \in Seq(V)
    <3> HIDE DEF n
    <3> QED BY <2>0
  <2>2. step[i][flat[i - 1]] = flat[i - 1] \o rows[i]
    BY <2>0, <2>1
  <2> HIDE DEF step
  <2> QED BY <1>2, <2>2 DEF Solves
<1>4. flat[0] = <<>>
  BY <1>2 DEF Solves
<1>5. CASE n = 0
  <2>1. rows = <<>>
    BY <1>0, <1>5
  <2> QED BY <1>3, <1>4, <1>5, <2>1 DEF FlattenSeq
<1>6. CASE n # 0
  <2> DEFINE first == [i \in 1..n |-> flat[i]]
  <2>1. \A i \in 1..n : first[i] = IF i = 1 THEN rows[i] ELSE first[i - 1] \o rows[i]
    <3> SUFFICES ASSUME NEW i \in 1..n
                 PROVE  first[i] = IF i = 1 THEN rows[i] ELSE first[i - 1] \o rows[i]
      OBVIOUS
    <3>1. first[i] = flat[i - 1] \o rows[i]
      BY <1>3
    <3>2. CASE i = 1
      <4>1. rows[i] \in Seq(V)
        BY <1>0
      <4>2. <<>> \o rows[i] = rows[i]
        BY <4>1
      <4>3. flat[i - 1] = <<>>
        BY <1>4, <3>2
      <4> HIDE DEF first
      <4> QED BY <3>1, <3>2, <4>2, <4>3
    <3>3. CASE i # 1
      <4>1. i - 1 \in 1..n
        BY <1>0, <3>3
      <4>2. first[i - 1] = flat[i - 1]
        BY <4>1
      <4> HIDE DEF first
      <4> QED BY <3>1, <3>3, <4>2
    <3> QED BY <3>2, <3>3
  <2>2. Is(first)
    <3> HIDE DEF first
    <3>1. first = [i \in 1..n |-> first[i]]
      BY DEF first
    <3> QED BY <2>1, <3>1
  <2>3. Is(sum)
    <3> HIDE DEF Is, first
    <3> QED BY <2>2
  <2>4. FlattenSeq(rows) = sum[n]
    BY <1>6 DEF FlattenSeq
  <2> HIDE DEF sum
  <2> DEFINE S == {i \in Nat : i \in 1..n => sum[i] = flat[i]}
  <2>5. 0 \in S
    OBVIOUS
  <2>6. ASSUME NEW i \in S PROVE i + 1 \in S
    <3> SUFFICES ASSUME i + 1 \in 1..n PROVE sum[i + 1] = flat[i + 1]
      OBVIOUS
    <3>1. sum[i + 1] = IF i + 1 = 1 THEN rows[i + 1] ELSE sum[(i + 1) - 1] \o rows[i + 1]
      BY <2>3
    <3>0. i \in Nat /\ (i + 1) - 1 = i
      OBVIOUS
    <3>2. i \in Nat /\ (i + 1) - 1 = i /\ flat[i + 1] = flat[i] \o rows[i + 1]
      <4>1. flat[i + 1] = flat[(i + 1) - 1] \o rows[i + 1]
        BY <1>3
      <4> HIDE DEF S, n
      <4> QED BY <3>0, <4>1
    <3>3. CASE i = 0
      <4>1. rows[i + 1] \in Seq(V)
        BY <1>0
      <4>2. <<>> \o rows[i + 1] = rows[i + 1]
        BY <4>1
      <4>3. sum[i + 1] = rows[i + 1]
        BY <3>1, <3>3
      <4>4. flat[i + 1] = <<>> \o rows[i + 1]
        <5> HIDE DEF S, n
        <5> QED BY <1>4, <3>2, <3>3
      <4> HIDE DEF S, n
      <4> QED BY <4>2, <4>3, <4>4
    <3>4. CASE i # 0
      <4>1. i \in 1..n /\ i + 1 # 1
        BY <3>2, <3>4
      <4> QED BY <3>1, <3>2, <4>1
    <3> QED BY <3>3, <3>4
  <2>7. S = Nat
    <3>1. S \in SUBSET Nat
      OBVIOUS
    <3> HIDE DEF S
    <3> QED BY <2>5, <2>6, <3>1, PositionInduction
  <2>8. n \in 1..n
    BY <1>0, <1>6
  <2>9. sum[n] = flat[n]
    BY <1>0, <2>7, <2>8
  <2> QED BY <1>3, <1>4, <2>4, <2>9
<1> QED BY <1>5, <1>6

\* Element k of flat is element col[k] of rows[row[k]]; each element of the first n
\* rows is there once, row by row.
Flattens(flat, rows, n, row, col) ==
    /\ row \in [1..Len(flat) -> 1..n]
    /\ col \in [1..Len(flat) -> Nat]
    /\ \A k \in 1..Len(flat) : col[k] \in 1..Len(rows[row[k]]) /\ flat[k] = rows[row[k]][col[k]]
    /\ \A p \in 1..n : \A c \in 1..Len(rows[p]) :
          \E k \in 1..Len(flat) : row[k] = p /\ col[k] = c
    /\ \A k, m \in 1..Len(flat) :
          k < m => row[k] < row[m] \/ (row[k] = row[m] /\ col[k] < col[m])

IsFlat(flat, rows, n) == \E row, col : Flattens(flat, rows, n, row, col)

LEMMA FlattenOneMore ==
    ASSUME NEW V, NEW rows \in Seq(Seq(V)), NEW n \in Nat, n + 1 \in 1..Len(rows),
           NEW flat \in Seq(V), IsFlat(flat, rows, n)
    PROVE  IsFlat(flat \o rows[n + 1], rows, n + 1)
<1> DEFINE more == flat \o rows[n + 1]
           a == Len(flat)
           b == Len(rows[n + 1])
<1>1. /\ a \in Nat /\ b \in Nat /\ Len(more) = a + b
      /\ \A k \in 1..a : more[k] = flat[k]
      /\ \A k \in a + 1..a + b : more[k] = rows[n + 1][k - a]
  <2>1. rows[n + 1] \in Seq(V)
    OBVIOUS
  <2> QED BY <2>1
<1>2. PICK row, col : Flattens(flat, rows, n, row, col)
  BY DEF IsFlat
<1> DEFINE r == [k \in 1..a + b |-> IF k <= a THEN row[k] ELSE n + 1]
           c == [k \in 1..a + b |-> IF k <= a THEN col[k] ELSE k - a]
<1> HIDE DEF a, b, more
<1>3. ASSUME NEW k \in 1..a
      PROVE  /\ k \in 1..a + b /\ r[k] = row[k] /\ c[k] = col[k]
             /\ row[k] \in 1..n /\ col[k] \in Nat
  <2>1. row[k] \in 1..n /\ col[k] \in Nat
    BY <1>2 DEF Flattens, a
  <2>2. k \in 1..a + b /\ k <= a
    BY <1>1
  <2> QED BY <2>1, <2>2
<1>4. ASSUME NEW k \in a + 1..a + b
      PROVE  k \in 1..a + b /\ r[k] = n + 1 /\ c[k] = k - a /\ k - a \in 1..b
  BY <1>1
<1>5. \A k \in 1..a + b : k \in 1..a \/ k \in a + 1..a + b
  BY <1>1
<1>6. r \in [1..a + b -> 1..n + 1] /\ c \in [1..a + b -> Nat]
  <2>1. ASSUME NEW k \in 1..a + b PROVE r[k] \in 1..n + 1 /\ c[k] \in Nat
    <3>1. CASE k \in 1..a
      <4>1. r[k] = row[k] /\ c[k] = col[k] /\ row[k] \in 1..n /\ col[k] \in Nat
        BY <1>3, <3>1
      <4> HIDE DEF r, c
      <4> QED BY <4>1
    <3>2. CASE k \in a + 1..a + b
      <4>1. r[k] = n + 1 /\ c[k] = k - a /\ k - a \in 1..b
        BY <1>4, <3>2
      <4> HIDE DEF r, c
      <4> QED BY <1>1, <4>1
    <3> QED BY <1>5, <3>1, <3>2
  <2>2. r = [k \in 1..a + b |-> r[k]] /\ c = [k \in 1..a + b |-> c[k]]
    OBVIOUS
  <2> HIDE DEF r, c
  <2> QED BY <2>1, <2>2
<1> HIDE DEF r, c
<1>7. ASSUME NEW k \in 1..a + b
      PROVE  c[k] \in 1..Len(rows[r[k]]) /\ more[k] = rows[r[k]][c[k]]
  <2>1. CASE k \in 1..a
    BY <1>1, <1>2, <1>3, <2>1 DEF Flattens, a
  <2>2. CASE k \in a + 1..a + b
    BY <1>1, <1>4, <2>2 DEF b
  <2> QED BY <1>5, <2>1, <2>2
<1>8. ASSUME NEW p \in 1..n + 1, NEW g \in 1..Len(rows[p])
      PROVE  \E k \in 1..a + b : r[k] = p /\ c[k] = g
  <2>1. CASE p \in 1..n
    <3>1. PICK k \in 1..a : row[k] = p /\ col[k] = g
      BY <1>2, <2>1 DEF Flattens, a
    <3> QED BY <1>3, <3>1
  <2>2. CASE p = n + 1
    <3>1. g \in 1..b
      BY <2>2 DEF b
    <3>2. a + g \in a + 1..a + b /\ (a + g) - a = g
      BY <1>1, <3>1
    <3> QED BY <1>4, <2>2, <3>2
  <2>3. p \in 1..n \/ p = n + 1
    OBVIOUS
  <2> QED BY <2>1, <2>2, <2>3
<1>9. ASSUME NEW k \in 1..a + b, NEW m \in 1..a + b, k < m
      PROVE  r[k] < r[m] \/ (r[k] = r[m] /\ c[k] < c[m])
  <2>1. CASE k \in 1..a /\ m \in 1..a
    BY <1>2, <1>3, <1>9, <2>1 DEF Flattens, a
  <2>2. CASE k \in 1..a /\ m \in a + 1..a + b
    <3>1. r[k] \in 1..n /\ r[m] = n + 1
      BY <1>3, <1>4, <2>2
    <3> QED BY <3>1
  <2>3. CASE k \in a + 1..a + b /\ m \in a + 1..a + b
    <3>1. r[k] = r[m] /\ c[k] = k - a /\ c[m] = m - a
      BY <1>4, <2>3
    <3>2. k - a < m - a
      BY <1>1, <1>9
    <3> QED BY <3>1, <3>2
  <2>4. ~(k \in a + 1..a + b /\ m \in 1..a)
    BY <1>1, <1>9
  <2> QED BY <1>5, <2>1, <2>2, <2>3, <2>4
<1>10. Flattens(more, rows, n + 1, r, c)
  BY <1>1, <1>6, <1>7, <1>8, <1>9 DEF Flattens
<1> QED BY <1>10 DEF IsFlat, more

\* Flattening keeps every element of every row, in order.
LEMMA Flattened ==
    ASSUME NEW V, NEW rows \in Seq(Seq(V))
    PROVE  FlattenSeq(rows) \in Seq(V) /\ IsFlat(FlattenSeq(rows), rows, Len(rows))
<1> DEFINE n == Len(rows)
<1>1. PICK flat \in [0..n -> Seq(V)] :
          /\ flat[0] = <<>>
          /\ \A i \in 1..n : flat[i] = flat[i - 1] \o rows[i]
          /\ FlattenSeq(rows) = flat[n]
  BY FlattenDef
<1>2. n \in Nat
  OBVIOUS
<1> DEFINE S == {i \in Nat : i <= n => IsFlat(flat[i], rows, i)}
<1>3. 0 \in S
  <2> DEFINE none == [k \in 1..0 |-> 0]
  <2>1. Len(flat[0]) = 0
    BY <1>1
  <2>2. Flattens(flat[0], rows, 0, none, none)
    BY <2>1 DEF Flattens
  <2> QED BY <2>2 DEF IsFlat
<1>4. ASSUME NEW i \in S PROVE i + 1 \in S
  <2> SUFFICES ASSUME i + 1 <= n PROVE IsFlat(flat[i + 1], rows, i + 1)
    OBVIOUS
  <2>1. /\ i \in Nat /\ i \in 0..n /\ i + 1 \in 1..n /\ (i + 1) - 1 = i
        /\ IsFlat(flat[i], rows, i)
    BY <1>2
  <2>2. flat[i + 1] = flat[i] \o rows[i + 1] /\ flat[i] \in Seq(V)
    BY <1>1, <2>1
  <2> HIDE DEF S
  <2> QED BY <2>1, <2>2, FlattenOneMore
<1>5. S = Nat
  <2>1. S \in SUBSET Nat
    OBVIOUS
  <2> HIDE DEF S
  <2> QED BY <1>3, <1>4, <2>1, PositionInduction
<1>6. IsFlat(flat[n], rows, n) /\ flat[n] \in Seq(V)
  <2>1. n \in 0..n /\ n <= n
    BY <1>2
  <2> QED BY <1>1, <1>2, <1>5, <2>1
<1> QED BY <1>1, <1>6
-----------------------------------------------------------------------------
(* The lines of a page. *)

Base == [lines |-> <<>>, start |-> 1]

CutAt(scan, i, segments) ==
    [lines |-> Append(scan.lines, SubSeq(segments, scan.start, i - 1)), start |-> i]

\* LineScan is what its recursion says: the segments are seen one by one.
LEMMA ScanDef ==
    ASSUME NEW S, NEW segments \in Seq(S)
    PROVE  /\ LineScan(segments)[0] = Base
           /\ Len(segments) > 0 => LineScan(segments)[1] = Base
           /\ \A i \in 2..Len(segments) :
                 LineScan(segments)[i] =
                     IF Apart(segments[i - 1], segments[i])
                     THEN CutAt(LineScan(segments)[i - 1], i, segments)
                     ELSE LineScan(segments)[i - 1]
<1> DEFINE n == Len(segments)
           V == [lines : Seq(Seq(S)), start : Nat \ {0}]
           Turn(i, x) == IF i \in 2..n
                         THEN IF Apart(segments[i - 1], segments[i]) THEN CutAt(x, i, segments) ELSE x
                         ELSE Base
           step == [i \in Nat |-> [x \in V |-> Turn(i, x)]]
           Is(f) == f = [i \in 0..n |->
                            IF i <= 1 THEN Base
                            ELSE IF Apart(segments[i - 1], segments[i])
                            THEN CutAt(f[i - 1], i, segments) ELSE f[i - 1]]
           scan == CHOOSE f : Is(f)
<1>0. n \in Nat /\ DOMAIN segments = 1..n /\ \A i \in 1..n : segments[i] \in S
  OBVIOUS
<1>1. step \in [Nat -> [V -> V]]
  <2>0. Base \in V
    BY DEF Base
  <2>1. ASSUME NEW i \in Nat, NEW x \in V PROVE Turn(i, x) \in V
    <3>1. ASSUME i \in 2..n PROVE CutAt(x, i, segments) \in V
      <4>1. x.start \in Nat \ {0} /\ x.lines \in Seq(Seq(S))
        OBVIOUS
      <4>2. \A j \in x.start..i - 1 : segments[j] \in S
        BY <1>0, <3>1, <4>1
      <4>3. SubSeq(segments, x.start, i - 1) \in Seq(S)
        BY <3>1, <4>1, <4>2, SubSeqProperties
      <4>4. Append(x.lines, SubSeq(segments, x.start, i - 1)) \in Seq(Seq(S))
        BY <4>1, <4>3
      <4>5. i \in Nat \ {0}
        BY <3>1
      <4> QED BY <4>4, <4>5 DEF CutAt
    <3> HIDE DEF n, V
    <3> QED BY <2>0, <3>1
  <2> HIDE DEF V, Turn
  <2> DEFINE Turns(i) == [x \in V |-> Turn(i, x)]
  <2>2. ASSUME NEW i \in Nat PROVE Turns(i) \in [V -> V]
    BY <2>1
  <2>3. step = [i \in Nat |-> Turns(i)]
    OBVIOUS
  <2> HIDE DEF step, Turns
  <2> QED BY <2>2, <2>3
<1>2. PICK f \in [0..n -> V] : Solves(f, n, Base, step)
  <2> HIDE DEF step, n
  <2>1. Base \in V
    BY DEF Base
  <2> HIDE DEF V
  <2> QED BY <1>0, <1>1, <2>1, Recursion
<1>3. f[0] = Base
  BY <1>2 DEF Solves
<1>4. ASSUME NEW i \in 1..n PROVE f[i] = Turn(i, f[i - 1])
  <2>1. i \in Nat /\ i - 1 \in 0..n
    BY <1>0
  <2> HIDE DEF n, V, Turn
  <2>2. f[i - 1] \in V
    BY <2>1
  <2>3. step[i][f[i - 1]] = Turn(i, f[i - 1])
    BY <2>1, <2>2
  <2> HIDE DEF step
  <2> QED BY <1>2, <2>3 DEF Solves
<1>5. ASSUME NEW i \in 0..n
      PROVE  f[i] = IF i <= 1 THEN Base
                    ELSE IF Apart(segments[i - 1], segments[i])
                    THEN CutAt(f[i - 1], i, segments) ELSE f[i - 1]
  <2>1. CASE i = 0
    BY <1>3, <2>1
  <2>2. CASE i = 1
    BY <1>4, <2>2
  <2>3. CASE i \notin {0, 1}
    <3>1. i \in 2..n /\ i \in 1..n /\ ~(i <= 1)
      BY <1>0, <2>3
    <3>2. f[i] = Turn(i, f[i - 1])
      BY <1>4, <3>1
    <3> HIDE DEF n
    <3> QED BY <3>1, <3>2
  <2> QED BY <2>1, <2>2, <2>3
<1>6. Is(f)
  <2>1. f = [i \in 0..n |-> f[i]]
    BY <1>2
  <2> HIDE DEF n
  <2> QED BY <1>5, <2>1
<1>7. Is(scan)
  <2> HIDE DEF Is
  <2> QED BY <1>6
<1>8. LineScan(segments) = scan
  BY DEF LineScan, Base, CutAt
<1> HIDE DEF scan
<1>9. ASSUME NEW i \in 0..n
      PROVE  scan[i] = IF i <= 1 THEN Base
                       ELSE IF Apart(segments[i - 1], segments[i])
                       THEN CutAt(scan[i - 1], i, segments) ELSE scan[i - 1]
  BY <1>7
<1>10. scan[0] = Base /\ (n > 0 => scan[1] = Base)
  BY <1>0, <1>9
<1>11. ASSUME NEW i \in 2..n
       PROVE  scan[i] = IF Apart(segments[i - 1], segments[i])
                        THEN CutAt(scan[i - 1], i, segments) ELSE scan[i - 1]
  <2>1. i \in 0..n /\ ~(i <= 1)
    BY <1>0
  <2> HIDE DEF n
  <2> QED BY <1>9, <2>1
<1> QED BY <1>8, <1>10, <1>11

\* Line g is the run of segments from first[g] to last[g], which begins where a
\* line begins and ends before the next one does.
Cuts(lines, first, last, segments) ==
    /\ first \in [1..Len(lines) -> Nat]
    /\ last \in [1..Len(lines) -> Nat]
    /\ \A g \in 1..Len(lines) :
          /\ first[g] \in LineStarts(segments)
          /\ last[g] \in first[g]..Len(segments)
          /\ lines[g] = SubSeq(segments, first[g], last[g])
          /\ \A j \in first[g] + 1..last[g] : j \notin LineStarts(segments)
          /\ last[g] < Len(segments) => last[g] + 1 \in LineStarts(segments)
    /\ \A g, h \in 1..Len(lines) : g < h => first[g] < first[h]

\* They are the lines that begin before segment end.
CutsUpTo(lines, end, segments) ==
    \E first, last :
        /\ Cuts(lines, first, last, segments)
        /\ \A g \in 1..Len(lines) : first[g] < end
        /\ \A s \in LineStarts(segments) : s < end => \E g \in 1..Len(lines) : first[g] = s

LEMMA OneMoreLine ==
    ASSUME NEW S, NEW segments \in Seq(S), NEW lines \in Seq(Seq(S)),
           NEW start \in LineStarts(segments), NEW end \in start..Len(segments),
           \A j \in start + 1..end : j \notin LineStarts(segments),
           end < Len(segments) => end + 1 \in LineStarts(segments),
           CutsUpTo(lines, start, segments)
    PROVE  /\ Append(lines, SubSeq(segments, start, end)) \in Seq(Seq(S))
           /\ CutsUpTo(Append(lines, SubSeq(segments, start, end)), end + 1, segments)
<1> DEFINE run == SubSeq(segments, start, end)
           more == Append(lines, run)
           n == Len(lines)
<1>0. /\ start \in 1..Len(segments) /\ end \in 1..Len(segments) /\ Len(segments) \in Nat
      /\ start <= end
  BY DEF LineStarts
<1>1. run \in Seq(S)
  <2>1. \A j \in start..end : segments[j] \in S
    BY <1>0
  <2> QED BY <1>0, <2>1, SubSeqProperties
<1> HIDE DEF run
<1>2. /\ more \in Seq(Seq(S)) /\ n \in Nat /\ Len(more) = n + 1
      /\ \A g \in 1..n : more[g] = lines[g]
      /\ more[n + 1] = run
  BY <1>1
<1>3. PICK first, last :
          /\ Cuts(lines, first, last, segments)
          /\ \A g \in 1..n : first[g] < start
          /\ \A s \in LineStarts(segments) : s < start => \E g \in 1..n : first[g] = s
  BY DEF CutsUpTo
<1> DEFINE f == [g \in 1..n + 1 |-> IF g <= n THEN first[g] ELSE start]
           l == [g \in 1..n + 1 |-> IF g <= n THEN last[g] ELSE end]
<1> HIDE DEF n, more
<1>4. ASSUME NEW g \in 1..n
      PROVE  /\ g \in 1..n + 1 /\ f[g] = first[g] /\ l[g] = last[g]
             /\ first[g] \in Nat /\ last[g] \in Nat
  <2>1. g \in 1..n + 1 /\ g <= n
    BY <1>2
  <2>2. first[g] \in Nat /\ last[g] \in Nat
    BY <1>3 DEF Cuts, n
  <2> QED BY <2>1, <2>2
<1>5. n + 1 \in 1..n + 1 /\ f[n + 1] = start /\ l[n + 1] = end
  BY <1>2
<1>6. \A g \in 1..n + 1 : g \in 1..n \/ g = n + 1
  BY <1>2
<1>7. f \in [1..n + 1 -> Nat] /\ l \in [1..n + 1 -> Nat]
  <2>1. ASSUME NEW g \in 1..n + 1 PROVE f[g] \in Nat /\ l[g] \in Nat
    <3>1. CASE g \in 1..n
      <4>1. f[g] = first[g] /\ l[g] = last[g] /\ first[g] \in Nat /\ last[g] \in Nat
        BY <1>4, <3>1
      <4> HIDE DEF f, l
      <4> QED BY <4>1
    <3>2. CASE g = n + 1
      <4> HIDE DEF f, l
      <4> QED BY <1>0, <1>5, <3>2
    <3> QED BY <1>6, <3>1, <3>2
  <2>2. f = [g \in 1..n + 1 |-> f[g]] /\ l = [g \in 1..n + 1 |-> l[g]]
    OBVIOUS
  <2> HIDE DEF f, l
  <2> QED BY <2>1, <2>2
<1> HIDE DEF f, l
<1>8. ASSUME NEW g \in 1..n + 1
      PROVE  /\ f[g] \in LineStarts(segments)
             /\ l[g] \in f[g]..Len(segments)
             /\ more[g] = SubSeq(segments, f[g], l[g])
             /\ \A j \in f[g] + 1..l[g] : j \notin LineStarts(segments)
             /\ l[g] < Len(segments) => l[g] + 1 \in LineStarts(segments)
  <2>1. CASE g \in 1..n
    <3>1. f[g] = first[g] /\ l[g] = last[g] /\ more[g] = lines[g]
      BY <1>2, <1>4, <2>1
    <3> QED BY <1>3, <2>1, <3>1 DEF Cuts, n
  <2>2. CASE g = n + 1
    BY <1>2, <1>5, <2>2 DEF run
  <2> QED BY <1>6, <2>1, <2>2
<1>9. ASSUME NEW g \in 1..n + 1, NEW h \in 1..n + 1, g < h
      PROVE  f[g] < f[h]
  <2>1. g \in 1..n
    BY <1>2, <1>9
  <2>2. CASE h \in 1..n
    BY <1>3, <1>4, <1>9, <2>1, <2>2 DEF Cuts, n
  <2>3. CASE h = n + 1
    BY <1>3, <1>4, <1>5, <2>1, <2>3
  <2> QED BY <1>6, <2>2, <2>3
<1>10. ASSUME NEW g \in 1..n + 1
       PROVE  f[g] < end + 1
  <2>1. f[g] \in Nat
    BY <1>7
  <2>2. f[g] <= start
    <3>1. CASE g \in 1..n
      <4>1. first[g] < start /\ f[g] = first[g]
        BY <1>3, <1>4, <3>1
      <4> QED BY <1>0, <2>1, <4>1
    <3>2. CASE g = n + 1
      BY <1>0, <1>5, <3>2
    <3> QED BY <1>6, <3>1, <3>2
  <2> QED BY <1>0, <2>1, <2>2
<1>11. ASSUME NEW s \in LineStarts(segments), s < end + 1
       PROVE  \E g \in 1..n + 1 : f[g] = s
  <2>1. s \in Nat
    BY DEF LineStarts
  <2>2. s <= start
    BY <1>0, <1>11, <2>1
  <2>3. CASE s = start
    BY <1>5, <2>3
  <2>4. CASE s < start
    BY <1>3, <1>4, <2>4
  <2> QED BY <1>0, <2>1, <2>2, <2>3, <2>4
<1>12. Cuts(more, f, l, segments)
  BY <1>2, <1>7, <1>8, <1>9 DEF Cuts
<1>13. CutsUpTo(more, end + 1, segments)
  BY <1>2, <1>10, <1>11, <1>12 DEF CutsUpTo
<1> QED BY <1>2, <1>13 DEF more, run

\* What the loop keeps true of its lines and start.
ScanOK(scan, i, segments, S) ==
    /\ scan.lines \in Seq(Seq(S))
    /\ scan.start \in 1..i /\ scan.start \in LineStarts(segments)
    /\ \A j \in scan.start + 1..i : j \notin LineStarts(segments)
    /\ CutsUpTo(scan.lines, scan.start, segments)

LEMMA NoLines ==
    ASSUME NEW S, NEW segments \in Seq(S)
    PROVE  CutsUpTo(<<>>, 1, segments)
<1> DEFINE none == [g \in 1..0 |-> 0]
<1>1. Cuts(<<>>, none, none, segments)
  BY DEF Cuts
<1>2. \A s \in LineStarts(segments) : ~(s < 1)
  BY DEF LineStarts
<1> QED BY <1>1, <1>2 DEF CutsUpTo

\* group_into_lines makes a line of every run of segments that share a baseline.
LEMMA LinesCut ==
    ASSUME NEW S, NEW segments \in Seq(S)
    PROVE  /\ GroupIntoLines(segments) \in Seq(Seq(S))
           /\ CutsUpTo(GroupIntoLines(segments), Len(segments) + 1, segments)
<1> DEFINE n == Len(segments)
           scan == LineScan(segments)
           end == scan[n]
<1>0. n \in Nat /\ DOMAIN segments = 1..n
  OBVIOUS
<1>1. /\ scan[0] = Base
      /\ n > 0 => scan[1] = Base
      /\ \A i \in 2..n : scan[i] = IF Apart(segments[i - 1], segments[i])
                                   THEN CutAt(scan[i - 1], i, segments)
                                   ELSE scan[i - 1]
  BY ScanDef
<1>2. GroupIntoLines(segments) =
          IF end.start <= n THEN Append(end.lines, SubSeq(segments, end.start, n)) ELSE end.lines
  BY DEF GroupIntoLines
<1>3. /\ Base.lines = <<>> /\ Base.start = 1 /\ <<>> \in Seq(Seq(S))
      /\ CutsUpTo(<<>>, 1, segments)
  BY NoLines DEF Base
<1> HIDE DEF scan
<1>4. CASE n = 0
  <2>1. GroupIntoLines(segments) = <<>>
    BY <1>1, <1>2, <1>3, <1>4
  <2> QED BY <1>3, <1>4, <2>1
<1>5. CASE n # 0
  <2> DEFINE T == {i \in Nat : i \in 1..n => ScanOK(scan[i], i, segments, S)}
  <2>1. 0 \in T
    OBVIOUS
  <2>2. ASSUME NEW i \in T, i + 1 \in 1..n PROVE ScanOK(scan[i + 1], i + 1, segments, S)
    <3>0. i \in Nat /\ (i + 1) - 1 = i
      OBVIOUS
    <3>1. CASE i = 0
      <4>1. scan[i + 1] = Base /\ i + 1 = 1
        BY <1>1, <1>5, <1>0, <3>1
      <4>2. 1 \in LineStarts(segments)
        BY <1>0, <1>5 DEF LineStarts
      <4>3. scan[i + 1].lines = <<>> /\ scan[i + 1].start = 1
        BY <1>3, <4>1
      <4>4. 1 \in 1..1 /\ \A j \in 1 + 1..1 : FALSE
        OBVIOUS
      <4> HIDE DEF T
      <4> QED BY <1>3, <4>1, <4>2, <4>3, <4>4 DEF ScanOK
    <3>2. CASE i # 0
      <4>1. i + 1 \in 2..n /\ i \in 1..n
        BY <1>0, <2>2, <3>0, <3>2
      <4>2. ScanOK(scan[i], i, segments, S)
        BY <4>1
      <4>3. scan[i + 1] = IF Apart(segments[i], segments[i + 1])
                          THEN CutAt(scan[i], i + 1, segments) ELSE scan[i]
        BY <1>1, <3>0, <4>1
      <4>4. i + 1 \in LineStarts(segments) <=> Apart(segments[i], segments[i + 1])
        BY <1>0, <3>0, <4>1 DEF LineStarts
      <4>5. scan[i].start \in 1..i /\ scan[i].start \in LineStarts(segments)
            /\ scan[i].lines \in Seq(Seq(S))
        BY <4>2 DEF ScanOK
      <4> HIDE DEF T
      <4>6. CASE Apart(segments[i], segments[i + 1])
        <5> DEFINE run == SubSeq(segments, scan[i].start, i)
        <5>1. /\ Append(scan[i].lines, run) \in Seq(Seq(S))
              /\ CutsUpTo(Append(scan[i].lines, run), i + 1, segments)
          <6>1. i \in scan[i].start..n
            BY <1>0, <4>1, <4>5
          <6>2. /\ \A j \in scan[i].start + 1..i : j \notin LineStarts(segments)
                /\ CutsUpTo(scan[i].lines, scan[i].start, segments)
            BY <4>2 DEF ScanOK
          <6>3. i + 1 \in LineStarts(segments)
            BY <4>4, <4>6
          <6> HIDE DEF n
          <6> QED BY <4>5, <6>1, <6>2, <6>3, OneMoreLine DEF n
        <5>2. scan[i + 1] = [lines |-> Append(scan[i].lines, run), start |-> i + 1]
          BY <3>0, <4>3, <4>6 DEF CutAt
        <5> HIDE DEF run
        <5>3. /\ scan[i + 1].lines = Append(scan[i].lines, run)
              /\ scan[i + 1].start = i + 1
          BY <5>2
        <5>4. i + 1 \in 1..i + 1 /\ \A j \in (i + 1) + 1..i + 1 : FALSE
          BY <3>0
        <5> QED BY <4>4, <4>6, <5>1, <5>3, <5>4 DEF ScanOK
      <4>7. CASE ~Apart(segments[i], segments[i + 1])
        <5>1. scan[i + 1] = scan[i]
          BY <4>3, <4>7
        <5>4. \A a \in 1..i : /\ a \in 1..i + 1
                             /\ \A j \in a + 1..i + 1 : j \in a + 1..i \/ j = i + 1
          BY <3>0
        <5>2. \A j \in scan[i].start + 1..i + 1 : j \in scan[i].start + 1..i \/ j = i + 1
          BY <4>5, <5>4
        <5>3. scan[i].start \in 1..i + 1
          BY <4>5, <5>4
        <5> QED BY <4>2, <4>4, <4>7, <5>1, <5>2, <5>3 DEF ScanOK
      <4> QED BY <4>6, <4>7
    <3> QED BY <3>1, <3>2
  <2>3. T = Nat
    <3>1. T \in SUBSET Nat
      OBVIOUS
    <3> HIDE DEF T
    <3>2. ASSUME NEW i \in T PROVE i + 1 \in T
      <4>1. i + 1 \in 1..n => ScanOK(scan[i + 1], i + 1, segments, S)
        BY <2>2
      <4>2. i + 1 \in Nat
        BY <3>1
      <4> QED BY <4>1, <4>2 DEF T
    <3> QED BY <2>1, <3>1, <3>2, PositionInduction
  <2>4. n \in 1..n
    BY <1>0, <1>5
  <2>5. ScanOK(end, n, segments, S)
    BY <1>0, <2>3, <2>4
  <2> HIDE DEF T, end
  <2>6. /\ end.start \in 1..n /\ end.start \in LineStarts(segments)
        /\ end.lines \in Seq(Seq(S))
        /\ \A j \in end.start + 1..n : j \notin LineStarts(segments)
        /\ CutsUpTo(end.lines, end.start, segments)
    BY <2>5 DEF ScanOK
  <2>7. n \in end.start..n /\ end.start <= n /\ ~(n < n)
    BY <1>0, <2>6
  <2>8. GroupIntoLines(segments) = Append(end.lines, SubSeq(segments, end.start, n))
    BY <1>2, <2>7
  <2> HIDE DEF n
  <2> QED BY <2>6, <2>7, <2>8, OneMoreLine DEF n
<1> QED BY <1>4, <1>5
-----------------------------------------------------------------------------
(* The text of a line. *)

LEMMA Least ==
    ASSUME NEW S \in SUBSET Nat, S # {}
    PROVE  Min(S) \in S /\ \A x \in S : Min(S) <= x
<1> DEFINE R == OpToRel(<, Nat)
<1>1. IsWellFoundedOn(R, Nat)
  BY NatLessThanWellFounded
<1> HIDE DEF R
<1>0. S \subseteq Nat
  OBVIOUS
<1>2. PICK x \in S : \A y \in S : ~(<<y, x>> \in R)
  BY <1>0, <1>1, WFMin
<1>3. ASSUME NEW y \in S PROVE x <= y
  <2>1. x \in Nat /\ y \in Nat
    OBVIOUS
  <2>2. y < x => <<y, x>> \in R
    BY <2>1 DEF R, OpToRel
  <2>3. ~(y < x)
    BY <1>2, <2>2
  <2> QED BY <2>1, <2>3
<1>4. \E y \in S : \A z \in S : y <= z
  BY <1>3
<1> QED BY <1>4 DEF Min

\* A character of a segment's text that stands before any line break.
Said(text, c) == text[c] \notin White /\ \A b \in 1..c : text[b] # "break"

\* clean_segment_text cuts a text off at its first line break.
LEMMA CleanText ==
    ASSUME NEW text \in Seq(Chars)
    PROVE  LET clean == CleanSegmentText(text)
           IN  /\ clean \in Seq(Chars) /\ Len(clean) <= Len(text)
               /\ \A c \in 1..Len(clean) : clean[c] = text[c]
               /\ \A c \in DOMAIN text :
                     c <= Len(clean) <=> \A b \in 1..c : text[b] # "break"
<1> DEFINE clean == CleanSegmentText(text)
           breaks == {i \in DOMAIN text : text[i] = "break"}
           cut == Min(breaks)
           n == Len(text)
<1>0. n \in Nat /\ DOMAIN text = 1..n /\ \A c \in 1..n : text[c] \in Chars
  OBVIOUS
<1>1. CASE breaks = {}
  <2>1. clean = text
    BY <1>1 DEF CleanSegmentText
  <2>2. \A c \in DOMAIN text : \A b \in 1..c : text[b] # "break"
    BY <1>0, <1>1
  <2> HIDE DEF clean, breaks
  <2> QED BY <1>0, <2>1, <2>2 DEF clean
<1>2. CASE breaks # {}
  <2>1. breaks \in SUBSET Nat
    BY <1>0
  <2>2. cut \in breaks /\ \A b \in breaks : cut <= b
    <3> HIDE DEF breaks
    <3> QED BY <1>2, <2>1, Least
  <2>3. clean = SubSeq(text, 1, cut - 1)
    BY <1>2 DEF CleanSegmentText
  <2>4. cut \in 1..n /\ text[cut] = "break"
    BY <1>0, <2>2
  <2>5. \A b \in 1..n : text[b] = "break" => cut <= b
    BY <1>0, <2>2
  <2> HIDE DEF clean, cut, breaks
  <2>6. /\ clean \in Seq(Chars) /\ Len(clean) = cut - 1
        /\ \A c \in 1..cut - 1 : clean[c] = text[c]
    <3>1. \A c \in 1..cut - 1 : text[c] \in Chars
      BY <1>0, <2>4
    <3>2. 1 \in Int /\ cut - 1 \in Int /\ (cut - 1) - 1 + 1 = cut - 1 /\ cut - 1 \in Nat
      BY <1>0, <2>4
    <3>3. /\ clean \in Seq(Chars)
          /\ Len(clean) = IF 1 <= cut - 1 THEN (cut - 1) - 1 + 1 ELSE 0
          /\ \A c \in 1..(cut - 1) - 1 + 1 : clean[c] = text[1 + c - 1]
      BY <2>3, <3>1, <3>2, SubSeqProperties
    <3>4. \A c \in 1..cut - 1 : 1 + c - 1 = c
      OBVIOUS
    <3> QED BY <3>2, <3>3, <3>4
  <2>7. ASSUME NEW c \in 1..n
        PROVE  c <= cut - 1 <=> \A b \in 1..c : text[b] # "break"
    <3>1. ASSUME c <= cut - 1, NEW b \in 1..c PROVE text[b] # "break"
      BY <1>0, <2>4, <2>5, <3>1
    <3>2. ASSUME ~(c <= cut - 1) PROVE cut \in 1..c
      BY <1>0, <2>4, <3>2
    <3> QED BY <2>4, <3>1, <3>2
  <2> QED BY <1>0, <2>4, <2>6, <2>7 DEF clean
<1> QED BY <1>1, <1>2

\* What is left of a text after normalize_whitespace is empty only if the text is
\* white.
LEMMA NormalText ==
    ASSUME NEW text \in Seq(Chars)
    PROVE  /\ NormalizeWhitespace(text) \in Seq(Chars)
           /\ NormalizeWhitespace(text) # <<>> <=> \E i \in DOMAIN text : text[i] \notin White
<1> DEFINE n == Len(text)
           keep == {i \in DOMAIN text :
                       \/ text[i] \notin White
                       \/ /\ i > 1 /\ text[i - 1] \notin White
                          /\ \E k \in i + 1..Len(text) : text[k] \notin White}
           shown == [i \in DOMAIN text |-> IF text[i] \notin White THEN text[i] ELSE "space"]
           normal == NormalizeWhitespace(text)
<1>0. n \in Nat /\ DOMAIN text = 1..n /\ \A i \in 1..n : text[i] \in Chars
  OBVIOUS
<1>1. normal = Selection(shown, keep)
  BY DEF NormalizeWhitespace
<1>2. shown \in Seq(Chars) /\ DOMAIN shown = 1..n
  <2>1. "space" \in Chars
    BY DEF Chars, White
  <2>2. \A i \in 1..n : (IF text[i] \notin White THEN text[i] ELSE "space") \in Chars
    BY <1>0, <2>1
  <2>3. shown \in [1..n -> Chars]
    BY <1>0, <2>2
  <2> HIDE DEF shown
  <2> QED BY <1>0, <2>3, FunctionIsSeq
<1>3. keep \in SUBSET (1..n)
  BY <1>0
<1>4. (\E i \in DOMAIN text : text[i] \notin White) <=> keep # {}
  <2>1. ASSUME NEW i \in DOMAIN text, text[i] \notin White PROVE i \in keep
    BY <2>1
  <2>2. ASSUME NEW i \in keep PROVE \E j \in DOMAIN text : text[j] \notin White
    <3>1. CASE text[i] \notin White
      BY <3>1
    <3>2. CASE i > 1 /\ text[i - 1] \notin White
      <4>1. i - 1 \in 1..n
        BY <1>0, <3>2
      <4> QED BY <1>0, <3>2, <4>1
    <3> QED BY <3>1, <3>2
  <2> QED BY <2>1, <2>2
<1> HIDE DEF keep, shown, normal
<1>5. normal \in Seq(Chars) /\ Len(normal) = Cardinality(keep)
  BY <1>1, <1>2, <1>3, Selected
<1>6. IsFiniteSet(keep)
  BY <1>0, <1>3, KeptInOrder
<1>7. Cardinality(keep) = 0 <=> keep = {}
  BY <1>6, FS_EmptySet
<1>8. normal = <<>> <=> Len(normal) = 0
  BY <1>5
<1> QED BY <1>4, <1>5, <1>7, <1>8 DEF normal

\* A line has text if one of its segments says something before a line break: the
\* sort and the joining lose no segment.
LEMMA LineText ==
    ASSUME NEW group \in Seq(RawSegment)
    PROVE  /\ AssembleText(group) \in Seq(Chars)
           /\ AssembleText(group) # <<>> <=>
                 \E i \in DOMAIN group : \E c \in DOMAIN group[i].text : Said(group[i].text, c)
<1> DEFINE n == Len(group)
           inPlace == {r \in (DOMAIN group) \X (DOMAIN group) :
                          \/ group[r[1]].left < group[r[2]].left
                          \/ group[r[1]].left = group[r[2]].left /\ r[1] <= r[2]}
           order == InOrder(DOMAIN group, inPlace)
           pieces == [k \in DOMAIN order |-> CleanSegmentText(group[order[k]].text)]
           joined == FlattenSeq(pieces)
<1>0. n \in Nat /\ DOMAIN group = 1..n
  OBVIOUS
<1>1. \A i \in 1..n : group[i].text \in Seq(Chars) /\ group[i].left \in Int
  <2>1. \A i \in 1..n : group[i] \in RawSegment
    OBVIOUS
  <2> QED BY <2>1 DEF RawSegment
<1>2. AssembleText(group) = NormalizeWhitespace(joined)
  BY DEF AssembleText
<1>3. Linear(1..n, inPlace)
  <2>1. \A i, j \in 1..n : <<i, j>> \in inPlace <=>
                              \/ group[i].left < group[j].left
                              \/ group[i].left = group[j].left /\ i <= j
    BY <1>0
  <2> HIDE DEF inPlace, n
  <2>2. \A i \in 1..n : i \in Int
    OBVIOUS
  <2> DEFINE Left(i) == group[i].left
  <2>3. \A i \in 1..n : Left(i) \in Int
    BY <1>1
  <2>4. \A i, j \in 1..n : <<i, j>> \in inPlace <=>
                              Left(i) < Left(j) \/ (Left(i) = Left(j) /\ i <= j)
    BY <2>1
  <2> HIDE DEF Left
  <2>5. ASSUME NEW i \in 1..n, NEW j \in 1..n
        PROVE  <<i, j>> \in inPlace \/ <<j, i>> \in inPlace
    <3>1. Left(i) \in Int /\ Left(j) \in Int /\ i \in Int /\ j \in Int
      BY <2>2, <2>3
    <3>2. \/ Left(i) < Left(j) \/ (Left(i) = Left(j) /\ i <= j)
          \/ Left(j) < Left(i) \/ (Left(j) = Left(i) /\ j <= i)
      BY <3>1
    <3> QED BY <2>4, <3>2
  <2>6. ASSUME NEW i \in 1..n, NEW j \in 1..n, <<i, j>> \in inPlace, <<j, i>> \in inPlace
        PROVE  i = j
    <3>1. Left(i) \in Int /\ Left(j) \in Int /\ i \in Int /\ j \in Int
      BY <2>2, <2>3
    <3>2. /\ Left(i) < Left(j) \/ (Left(i) = Left(j) /\ i <= j)
          /\ Left(j) < Left(i) \/ (Left(j) = Left(i) /\ j <= i)
      BY <2>4, <2>6
    <3> QED BY <3>1, <3>2
  <2>7. \A i, j, k \in 1..n :
           <<i, j>> \in inPlace /\ <<j, k>> \in inPlace => <<i, k>> \in inPlace
    BY <2>2, <2>3, <2>4
  <2> QED BY <2>5, <2>6, <2>7 DEF Linear
<1> HIDE DEF inPlace
<1>4. order \in Bijection(1..n, 1..n)
  <2>1. IsFiniteSet(1..n) /\ Cardinality(1..n) = n
    BY <1>0, FS_Interval
  <2>2. order = InOrder(1..n, inPlace)
    BY <1>0
  <2> HIDE DEF n, order
  <2> QED BY <1>0, <1>3, <2>1, <2>2, InOrderLists
<1> HIDE DEF order
<1>5. order \in [1..n -> 1..n] /\ \A i \in 1..n : \E k \in 1..n : order[k] = i
  <2> HIDE DEF n
  <2> QED BY <1>4 DEF Bijection, Surjection
<1>6. ASSUME NEW k \in 1..n
      PROVE  /\ order[k] \in 1..n /\ pieces[k] = CleanSegmentText(group[order[k]].text)
             /\ pieces[k] \in Seq(Chars)
  <2>1. order[k] \in 1..n /\ pieces[k] = CleanSegmentText(group[order[k]].text)
    BY <1>5
  <2>2. group[order[k]].text \in Seq(Chars)
    BY <1>1, <2>1
  <2> HIDE DEF pieces
  <2> QED BY <2>1, <2>2, CleanText
<1>7. pieces \in Seq(Seq(Chars)) /\ Len(pieces) = n
  <2>1. DOMAIN pieces = 1..n /\ pieces = [k \in 1..n |-> pieces[k]]
    BY <1>5
  <2> HIDE DEF pieces, n
  <2>2. pieces \in [1..n -> Seq(Chars)]
    BY <1>6, <2>1
  <2> QED BY <1>0, <2>1, <2>2, FunctionIsSeq
<1> HIDE DEF pieces
<1>8. joined \in Seq(Chars) /\ IsFlat(joined, pieces, n)
  BY <1>7, Flattened
<1> HIDE DEF joined
<1>9. PICK row, col : Flattens(joined, pieces, n, row, col)
  BY <1>8 DEF IsFlat
<1>10. ASSUME NEW q \in DOMAIN joined, joined[q] \notin White
       PROVE  \E i \in 1..n : \E c \in DOMAIN group[i].text : Said(group[i].text, c)
  <2>1. q \in 1..Len(joined)
    BY <1>8
  <2> DEFINE k == row[q]
             c == col[q]
             text == group[order[k]].text
  <2>2. k \in 1..n /\ c \in 1..Len(pieces[k]) /\ joined[q] = pieces[k][c]
    BY <1>9, <2>1 DEF Flattens
  <2> HIDE DEF k, c
  <2>3. order[k] \in 1..n /\ pieces[k] = CleanSegmentText(text) /\ text \in Seq(Chars)
    BY <1>1, <1>6, <2>2
  <2> HIDE DEF text
  <2>4. c \in DOMAIN text /\ text[c] = joined[q] /\ \A b \in 1..c : text[b] # "break"
    <3>1. /\ Len(pieces[k]) <= Len(text) /\ Len(pieces[k]) \in Nat
          /\ pieces[k][c] = text[c]
          /\ \A d \in DOMAIN text : d <= Len(pieces[k]) => \A b \in 1..d : text[b] # "break"
      BY <2>2, <2>3, CleanText
    <3>2. Len(text) \in Nat /\ DOMAIN text = 1..Len(text)
      BY <2>3
    <3>3. c \in DOMAIN text /\ c <= Len(pieces[k])
      BY <2>2, <3>1, <3>2
    <3> QED BY <2>2, <3>1, <3>3
  <2> QED BY <1>10, <2>3, <2>4 DEF Said, text
<1>11. ASSUME NEW i \in 1..n, NEW c \in DOMAIN group[i].text, Said(group[i].text, c)
       PROVE  \E q \in DOMAIN joined : joined[q] \notin White
  <2>1. PICK k \in 1..n : order[k] = i
    BY <1>5
  <2>2. group[i].text \in Seq(Chars) /\ pieces[k] = CleanSegmentText(group[i].text)
    BY <1>1, <1>6, <2>1
  <2>3. c \in 1..Len(pieces[k]) /\ pieces[k][c] \notin White
    <3> DEFINE text == group[i].text
    <3>0. text \in Seq(Chars) /\ c \in DOMAIN text /\ Said(text, c)
          /\ pieces[k] = CleanSegmentText(text)
      BY <1>11, <2>2
    <3> HIDE DEF text
    <3>1. /\ pieces[k] \in Seq(Chars)
          /\ \A d \in 1..Len(pieces[k]) : pieces[k][d] = text[d]
          /\ c <= Len(pieces[k])
      BY <3>0, CleanText DEF Said
    <3>2. c \in Nat \ {0} /\ Len(pieces[k]) \in Nat
      BY <3>0, <3>1
    <3>3. c \in 1..Len(pieces[k])
      BY <3>1, <3>2
    <3> QED BY <3>0, <3>1, <3>3 DEF Said
  <2>4. PICK q \in 1..Len(joined) : row[q] = k /\ col[q] = c
    BY <1>9, <2>3 DEF Flattens
  <2>5. joined[q] = pieces[k][c]
    BY <1>9, <2>4 DEF Flattens
  <2> QED BY <1>8, <2>3, <2>4, <2>5
<1> QED BY <1>0, <1>2, <1>8, <1>10, <1>11, NormalText
-----------------------------------------------------------------------------
(* The lines of a document. *)

\* pages as read: a sequence of the pages' segments.
LEMMA PagesRead ==
    ASSUME NEW pdf \in Pdfs
    PROVE  ReadPages(pdf) \in Seq(Seq(RawSegment)) /\ Len(ReadPages(pdf)) = MaxPdfPages
<1> DEFINE Contents == UNION {[1..k -> Segments] : k \in 0..MaxSegments}
           read == ReadPages(pdf)
<1>1. pdf \in [1..MaxPdfPages -> Contents]
  BY DEF Pdfs
<1>2. ASSUME NEW content \in Contents PROVE ReadPage(content) \in Seq(RawSegment)
  <2>1. PICK k \in 0..MaxSegments : content \in [1..k -> Segments]
    OBVIOUS
  <2>2. content \in [1..k -> RawSegment] /\ k \in Nat
    BY <2>1, ExtractionAssumption
  <2>3. content \in Seq(RawSegment)
    BY <2>2, FunctionIsSeq
  <2> DEFINE kept == {i \in DOMAIN content : Count(content[i].text, Chars \ White) > 0}
  <2>4. ReadPage(content) = Selection(content, kept) /\ kept \in SUBSET (DOMAIN content)
    BY DEF ReadPage
  <2> HIDE DEF kept
  <2> QED BY <2>3, <2>4, Selected
<1> HIDE DEF Contents
<1>3. read = [p \in 1..MaxPdfPages |-> ReadPage(pdf[p])]
  BY <1>1 DEF ReadPages
<1>4. \A p \in 1..MaxPdfPages : read[p] \in Seq(RawSegment)
  BY <1>1, <1>2, <1>3
<1> HIDE DEF read
<1>5. read \in [1..MaxPdfPages -> Seq(RawSegment)] /\ MaxPdfPages \in Nat
  BY <1>3, <1>4, ExtractionAssumption
<1>6. read \in Seq(Seq(RawSegment))
  BY <1>5, FunctionIsSeq
<1> QED BY <1>5, <1>6 DEF read

VisualLine == [page : Nat \ {0}, group : Seq(RawSegment), text : Seq(Chars)]

\* The visual lines of page p.
Row(ps, p) ==
    LET groups == GroupIntoLines(ps[p])
    IN  [g \in DOMAIN groups |->
            [page |-> p, group |-> groups[g], text |-> AssembleText(groups[g])]]

LEMMA RowIs ==
    ASSUME NEW ps \in Seq(Seq(RawSegment)), NEW p \in 1..Len(ps)
    PROVE  LET groups == GroupIntoLines(ps[p])
           IN  /\ groups \in Seq(Seq(RawSegment))
               /\ CutsUpTo(groups, Len(ps[p]) + 1, ps[p])
               /\ Row(ps, p) \in Seq(VisualLine) /\ Len(Row(ps, p)) = Len(groups)
               /\ \A g \in 1..Len(groups) :
                     Row(ps, p)[g] = [page |-> p, group |-> groups[g],
                                      text |-> AssembleText(groups[g])]
<1> DEFINE groups == GroupIntoLines(ps[p])
           Shown(g) == [page |-> p, group |-> groups[g], text |-> AssembleText(groups[g])]
<1>1. ps[p] \in Seq(RawSegment) /\ p \in Nat \ {0}
  OBVIOUS
<1>2. groups \in Seq(Seq(RawSegment)) /\ CutsUpTo(groups, Len(ps[p]) + 1, ps[p])
  BY <1>1, LinesCut
<1>3. Row(ps, p) = [g \in DOMAIN groups |-> Shown(g)]
  BY DEF Row
<1> HIDE DEF groups
<1>4. DOMAIN groups = 1..Len(groups) /\ Len(groups) \in Nat
  BY <1>2
<1>5. ASSUME NEW g \in 1..Len(groups) PROVE Shown(g) \in VisualLine
  <2>1. groups[g] \in Seq(RawSegment)
    BY <1>2, <1>4
  <2>2. AssembleText(groups[g]) \in Seq(Chars)
    BY <2>1, LineText
  <2> QED BY <1>1, <2>1, <2>2 DEF VisualLine
<1>6. \A g \in 1..Len(groups) : Row(ps, p)[g] = Shown(g)
  BY <1>3, <1>4
<1>7. Row(ps, p) \in [1..Len(groups) -> VisualLine]
  <2>1. Row(ps, p) = [g \in 1..Len(groups) |-> Row(ps, p)[g]]
    BY <1>3, <1>4
  <2>2. \A g \in 1..Len(groups) : Row(ps, p)[g] \in VisualLine
    BY <1>5, <1>6
  <2> HIDE DEF Shown
  <2> QED BY <2>1, <2>2
<1>8. Row(ps, p) \in Seq(VisualLine)
  BY <1>4, <1>7, FunctionIsSeq
<1>9. Len(Row(ps, p)) = Len(groups)
  BY <1>4, <1>7, <1>8
<1> QED BY <1>2, <1>6, <1>8, <1>9 DEF groups, Shown

Rows(ps) == [p \in DOMAIN ps |-> Row(ps, p)]

LEMMA VisualLinesFlat ==
    ASSUME NEW ps \in Seq(Seq(RawSegment))
    PROVE  /\ Rows(ps) \in Seq(Seq(VisualLine)) /\ Len(Rows(ps)) = Len(ps)
           /\ \A p \in 1..Len(ps) : Rows(ps)[p] = Row(ps, p)
           /\ VisualLines(ps) \in Seq(VisualLine)
           /\ IsFlat(VisualLines(ps), Rows(ps), Len(ps))
<1>1. DOMAIN ps = 1..Len(ps) /\ Len(ps) \in Nat
  OBVIOUS
<1>2. Rows(ps) = [p \in 1..Len(ps) |-> Row(ps, p)]
  BY <1>1 DEF Rows
<1>3. \A p \in 1..Len(ps) : Rows(ps)[p] = Row(ps, p) /\ Row(ps, p) \in Seq(VisualLine)
  BY <1>2, RowIs
<1>4. Rows(ps) \in [1..Len(ps) -> Seq(VisualLine)]
  <2>1. Rows(ps) = [p \in 1..Len(ps) |-> Rows(ps)[p]]
    BY <1>2
  <2>2. \A p \in 1..Len(ps) : Rows(ps)[p] \in Seq(VisualLine)
    BY <1>3
  <2> QED BY <2>1, <2>2
<1>5. Rows(ps) \in Seq(Seq(VisualLine))
  BY <1>1, <1>4, FunctionIsSeq
<1>6. Len(Rows(ps)) = Len(ps)
  BY <1>1, <1>4, <1>5
<1>7. VisualLines(ps) = FlattenSeq(Rows(ps))
  BY DEF VisualLines, Rows, Row
<1>8. /\ FlattenSeq(Rows(ps)) \in Seq(VisualLine)
      /\ IsFlat(FlattenSeq(Rows(ps)), Rows(ps), Len(Rows(ps)))
  BY <1>5, Flattened
<1> QED BY <1>3, <1>5, <1>6, <1>7, <1>8

\* The lines with text, as structure finds them.
Found(ps) ==
    Selection(VisualLines(ps), {i \in DOMAIN VisualLines(ps) : HasText(VisualLines(ps)[i])})

LEMMA FoundIs ==
    ASSUME NEW ps \in Seq(Seq(RawSegment))
    PROVE  /\ Found(ps) \in Seq(VisualLine)
           /\ \A i \in 1..Len(Found(ps)) : Found(ps)[i].text # <<>>
           /\ \A i, j \in 1..Len(Found(ps)) : i < j => Found(ps)[i].page <= Found(ps)[j].page
<1> DEFINE lines == VisualLines(ps)
           K == {i \in DOMAIN lines : HasText(lines[i])}
           n == Cardinality(K)
<1>1. lines \in Seq(VisualLine) /\ IsFlat(lines, Rows(ps), Len(ps))
  BY VisualLinesFlat
<1>2. K \in SUBSET (DOMAIN lines) /\ DOMAIN lines = 1..Len(lines) /\ Len(lines) \in Nat
  BY <1>1
<1>3. \A i \in K : lines[i].text # <<>>
  BY DEF HasText
<1>4. Found(ps) = Selection(lines, K)
  BY DEF Found
<1> HIDE DEF lines, K
<1>5. /\ Found(ps) \in Seq(VisualLine) /\ Len(Found(ps)) = n
      /\ Found(ps) = [k \in 1..n |-> lines[Kept(K)[k]]]
  BY <1>1, <1>2, <1>4, Selected
<1>6. /\ n \in Nat /\ Kept(K) \in Bijection(1..n, K)
      /\ \A k, m \in 1..n : k < m => Kept(K)[k] < Kept(K)[m]
  BY <1>2, KeptInOrder
<1>7. \A k \in 1..n : Kept(K)[k] \in K
  BY <1>6, Fun_BijectionProperties
<1>8. ASSUME NEW i \in 1..Len(lines), NEW j \in 1..Len(lines), i < j
      PROVE  lines[i].page <= lines[j].page
  <2>1. PICK row, col : Flattens(lines, Rows(ps), Len(ps), row, col)
    BY <1>1 DEF IsFlat
  <2>2. ASSUME NEW k \in 1..Len(lines)
        PROVE  row[k] \in 1..Len(ps) /\ lines[k].page = row[k]
    <3>1. /\ row[k] \in 1..Len(ps)
          /\ col[k] \in 1..Len(Rows(ps)[row[k]]) /\ lines[k] = Rows(ps)[row[k]][col[k]]
      BY <2>1 DEF Flattens
    <3>2. Rows(ps)[row[k]] = Row(ps, row[k])
      <4>1. \A p \in 1..Len(ps) : Rows(ps)[p] = Row(ps, p)
        BY VisualLinesFlat
      <4> QED BY <3>1, <4>1
    <3>3. Row(ps, row[k])[col[k]].page = row[k]
      <4>1. ASSUME NEW p \in 1..Len(ps), NEW g \in 1..Len(Row(ps, p))
            PROVE  Row(ps, p)[g].page = p
        <5> DEFINE groups == GroupIntoLines(ps[p])
        <5>1. /\ Len(Row(ps, p)) = Len(groups)
              /\ \A h \in 1..Len(groups) :
                    Row(ps, p)[h] = [page |-> p, group |-> groups[h],
                                     text |-> AssembleText(groups[h])]
          BY RowIs
        <5> HIDE DEF groups
        <5>2. g \in 1..Len(groups)
          BY <5>1
        <5>3. Row(ps, p)[g] = [page |-> p, group |-> groups[g], text |-> AssembleText(groups[g])]
          BY <5>1, <5>2
        <5> QED BY <5>3
      <4>2. row[k] \in 1..Len(ps) /\ col[k] \in 1..Len(Row(ps, row[k]))
        BY <3>1, <3>2
      <4> QED BY <4>1, <4>2
    <3> QED BY <3>1, <3>2, <3>3
  <2>3. row[i] < row[j] \/ row[i] = row[j]
    BY <1>8, <2>1 DEF Flattens
  <2>4. row[i] \in Nat /\ row[j] \in Nat
    BY <2>2
  <2>5. row[i] <= row[j]
    BY <2>3, <2>4
  <2> QED BY <2>2, <2>5
<1>9. \A k \in 1..n : Found(ps)[k] = lines[Kept(K)[k]] /\ Kept(K)[k] \in 1..Len(lines)
  BY <1>2, <1>5, <1>7
<1> HIDE DEF n
<1>10. \A i \in 1..n : Found(ps)[i].text # <<>>
  BY <1>3, <1>7, <1>9
<1>11. \A i, j \in 1..n : i < j => Found(ps)[i].page <= Found(ps)[j].page
  BY <1>6, <1>8, <1>9
<1> QED BY <1>5, <1>10, <1>11 DEF n
-----------------------------------------------------------------------------
(* What structure returns. *)

\* Whether a line is one of icons does not depend on the family of the body.
LEMMA IconsDecided ==
    ASSUME NEW group, NEW body, NEW kind \in Classify(group, body)
    PROVE  kind = "icons" <=> MostlyIcons(RawText(group))
<1>1. CASE MostlyIcons(RawText(group))
  BY <1>1 DEF Classify
<1>2. CASE ~MostlyIcons(RawText(group))
  <2>1. kind \in {"heading", "body"}
    BY <1>2 DEF Classify
  <2> QED BY <1>2, <2>1
<1> QED BY <1>1, <1>2

\* The kinds structure may give to the lines it finds.
Kinds(found) ==
    {kinds \in [DOMAIN found -> LineKinds] :
        \A i \in DOMAIN found : kinds[i] = "icons" <=> MostlyIcons(RawText(found[i].group))}

LEMMA StructureIs ==
    ASSUME NEW ps, NEW document \in Structure(ps)
    PROVE  \E kinds \in Kinds(Found(ps)) : document = Outcome(Found(ps), kinds)
<1>1. PICK body \in BodyFamilies(ps),
           kinds \in [DOMAIN Found(ps) -> LineKinds] :
             /\ \A i \in DOMAIN Found(ps) : kinds[i] \in Classify(Found(ps)[i].group, body)
             /\ document = Outcome(Found(ps), kinds)
  BY DEF Structure, Found
<1>2. kinds \in Kinds(Found(ps))
  BY <1>1, IconsDecided DEF Kinds
<1> QED BY <1>1, <1>2

\* The lines that are not garbled.
Clean(found, kinds) ==
    {i \in DOMAIN found : ~(GarbleChecked(kinds[i]) /\ IsGarbled(found[i].text))}

OutLine == [page : Nat \ {0}, kind : LineKinds, text : Seq(Chars)]

LEMMA OutcomeIs ==
    ASSUME NEW found \in Seq(VisualLine), NEW kinds \in Kinds(found)
    PROVE  LET K == Clean(found, kinds)
               document == Outcome(found, kinds)
           IN  /\ K \in SUBSET (1..Len(found)) /\ Cardinality(K) \in 0..Len(found)
               /\ document.lines \in Seq(OutLine) /\ Len(document.lines) = Cardinality(K)
               /\ document.report = [kept |-> Cardinality(K),
                                     dropped_garbled |-> Len(found) - Cardinality(K)]
               /\ \A k \in 1..Cardinality(K) :
                     /\ Kept(K)[k] \in K
                     /\ document.lines[k] = [page |-> found[Kept(K)[k]].page,
                                             kind |-> kinds[Kept(K)[k]],
                                             text |-> found[Kept(K)[k]].text]
               /\ \A k, m \in 1..Cardinality(K) : k < m => Kept(K)[k] < Kept(K)[m]
<1> DEFINE K == Clean(found, kinds)
           n == Cardinality(K)
           Out(i) == [page |-> found[i].page, kind |-> kinds[i], text |-> found[i].text]
           lines == [i \in DOMAIN found |-> Out(i)]
           document == Outcome(found, kinds)
<1>0. DOMAIN found = 1..Len(found) /\ Len(found) \in Nat
  OBVIOUS
<1>1. K \in SUBSET (1..Len(found))
  BY <1>0 DEF Clean
<1>2. document = [lines |-> Selection(lines, K),
                  report |-> [kept |-> n, dropped_garbled |-> Len(found) - n]]
  BY DEF Outcome, Clean
<1>3. ASSUME NEW i \in 1..Len(found) PROVE Out(i) \in OutLine
  <2>1. found[i] \in VisualLine /\ kinds[i] \in LineKinds
    BY <1>0 DEF Kinds
  <2> QED BY <2>1 DEF VisualLine, OutLine
<1>4. \A i \in 1..Len(found) : lines[i] = Out(i)
  BY <1>0
<1> HIDE DEF Out
<1>5. lines \in [1..Len(found) -> OutLine]
  BY <1>0, <1>3
<1> HIDE DEF K, lines, n
<1>6. lines \in Seq(OutLine) /\ DOMAIN lines = 1..Len(found)
  BY <1>0, <1>5, FunctionIsSeq
<1>7. /\ Selection(lines, K) \in Seq(OutLine) /\ Len(Selection(lines, K)) = n
      /\ Selection(lines, K) = [k \in 1..n |-> lines[Kept(K)[k]]]
  <2>1. K \in SUBSET (DOMAIN lines)
    BY <1>1, <1>6
  <2> QED BY <1>6, <2>1, Selected DEF n
<1>8. /\ n \in 0..Len(found) /\ Kept(K) \in Bijection(1..n, K)
      /\ \A k, m \in 1..n : k < m => Kept(K)[k] < Kept(K)[m]
  BY <1>0, <1>1, KeptInOrder DEF n
<1>9. \A k \in 1..n : Kept(K)[k] \in K
  BY <1>8, Fun_BijectionProperties
<1>10. \A k \in 1..n : Selection(lines, K)[k] = Out(Kept(K)[k])
  BY <1>1, <1>4, <1>7, <1>9
<1> QED BY <1>1, <1>2, <1>7, <1>8, <1>9, <1>10 DEF K, n, Out
-----------------------------------------------------------------------------
(* Extraction. *)

\* The document is one that structure may make of the PDF.
Extracted ==
    /\ pages \in Pdfs
    /\ \E document \in Structure(ReadPages(pages)) :
          /\ doc = [i \in DOMAIN document.lines |-> AsDocLine(document.lines[i])]
          /\ report = document.report

LEMMA InitExtracted == ExtractionInit => Extracted
BY DEF ExtractionInit, Extracted

LEMMA NextExtracted == Extracted /\ [ExtractionNext]_extractionVars => Extracted'
<1> SUFFICES ASSUME Extracted, [ExtractionNext]_extractionVars PROVE Extracted'
  OBVIOUS
<1>1. UNCHANGED <<doc, pages, report>>
  BY DEF ExtractionNext, extractionVars, Next, RenderLine, Edit, ScanLine, Finish, vars
<1> QED BY <1>1 DEF Extracted

\* Two extractions of a PDF keep the same lines.
LEMMA SameLinesKept ==
    ASSUME NEW found \in Seq(VisualLine), NEW k1 \in Kinds(found), NEW k2 \in Kinds(found)
    PROVE  LET one == Outcome(found, k1)
               other == Outcome(found, k2)
           IN  /\ one.report = other.report
               /\ Len(one.lines) = Len(other.lines)
               /\ \A i \in DOMAIN one.lines :
                     /\ one.lines[i].page = other.lines[i].page
                     /\ one.lines[i].text = other.lines[i].text
                     /\ one.lines[i].kind = "icons" <=> other.lines[i].kind = "icons"
<1> DEFINE one == Outcome(found, k1)
           other == Outcome(found, k2)
           K == Clean(found, k1)
           n == Cardinality(K)
<1>1. \A i \in DOMAIN found : k1[i] = "icons" <=> k2[i] = "icons"
  BY DEF Kinds
<1>2. Clean(found, k2) = K
  BY <1>1 DEF Clean, GarbleChecked
<1>3. /\ K \in SUBSET (1..Len(found))
      /\ one.lines \in Seq(OutLine) /\ Len(one.lines) = n
      /\ one.report = [kept |-> n, dropped_garbled |-> Len(found) - n]
      /\ \A k \in 1..n :
            /\ Kept(K)[k] \in K
            /\ one.lines[k] = [page |-> found[Kept(K)[k]].page, kind |-> k1[Kept(K)[k]],
                               text |-> found[Kept(K)[k]].text]
  BY OutcomeIs
<1>4. /\ other.lines \in Seq(OutLine) /\ Len(other.lines) = n
      /\ other.report = [kept |-> n, dropped_garbled |-> Len(found) - n]
      /\ \A k \in 1..n :
            /\ other.lines[k] = [page |-> found[Kept(K)[k]].page, kind |-> k2[Kept(K)[k]],
                                 text |-> found[Kept(K)[k]].text]
  BY <1>2, OutcomeIs
<1> HIDE DEF one, other, K, n
<1>5. DOMAIN found = 1..Len(found) /\ DOMAIN one.lines = 1..n
  BY <1>3
<1>6. ASSUME NEW i \in 1..n
      PROVE  /\ one.lines[i].page = other.lines[i].page
             /\ one.lines[i].text = other.lines[i].text
             /\ one.lines[i].kind = "icons" <=> other.lines[i].kind = "icons"
  <2> DEFINE j == Kept(K)[i]
  <2>1. j \in DOMAIN found
    BY <1>3, <1>5
  <2>2. /\ one.lines[i] = [page |-> found[j].page, kind |-> k1[j], text |-> found[j].text]
        /\ other.lines[i] = [page |-> found[j].page, kind |-> k2[j], text |-> found[j].text]
    BY <1>3, <1>4
  <2> HIDE DEF j
  <2> QED BY <1>1, <2>1, <2>2
<1> QED BY <1>3, <1>4, <1>5, <1>6 DEF one, other

LEMMA ExtractedTies == Extracted => TiesOnlyMoveHeadings
<1> SUFFICES ASSUME Extracted,
                    NEW one \in Structure(ReadPages(pages)),
                    NEW other \in Structure(ReadPages(pages))
             PROVE  /\ one.report = other.report
                    /\ Len(one.lines) = Len(other.lines)
                    /\ \A i \in DOMAIN one.lines :
                          /\ one.lines[i].page = other.lines[i].page
                          /\ one.lines[i].text = other.lines[i].text
                          /\ one.lines[i].kind = "icons" <=> other.lines[i].kind = "icons"
  BY DEF TiesOnlyMoveHeadings
<1> DEFINE found == Found(ReadPages(pages))
<1>1. found \in Seq(VisualLine)
  BY PagesRead, FoundIs DEF Extracted
<1>2. PICK k1 \in Kinds(found) : one = Outcome(found, k1)
  BY StructureIs
<1>3. PICK k2 \in Kinds(found) : other = Outcome(found, k2)
  BY StructureIs
<1> HIDE DEF found
<1> QED BY <1>1, <1>2, <1>3, SameLinesKept

\* What structure makes is a document that Chunking starts from.
LEMMA ExtractedDocument ==
    ASSUME NEW pdf \in Pdfs, NEW document \in Structure(ReadPages(pdf))
    PROVE  [i \in DOMAIN document.lines |-> AsDocLine(document.lines[i])] \in Documents
<1> DEFINE found == Found(ReadPages(pdf))
           d == [i \in DOMAIN document.lines |-> AsDocLine(document.lines[i])]
<1>1. /\ found \in Seq(VisualLine)
      /\ \A i \in 1..Len(found) : found[i].text # <<>>
      /\ \A i, j \in 1..Len(found) : i < j => found[i].page <= found[j].page
  BY PagesRead, FoundIs
<1>2. PICK kinds \in Kinds(found) : document = Outcome(found, kinds)
  BY StructureIs
<1> HIDE DEF found
<1> DEFINE K == Clean(found, kinds)
           n == Cardinality(K)
<1>3. /\ K \in SUBSET (1..Len(found)) /\ n \in 0..Len(found)
      /\ document.lines \in Seq(OutLine) /\ Len(document.lines) = n
      /\ \A k \in 1..n :
            /\ Kept(K)[k] \in K
            /\ document.lines[k] = [page |-> found[Kept(K)[k]].page, kind |-> kinds[Kept(K)[k]],
                                    text |-> found[Kept(K)[k]].text]
      /\ \A k, m \in 1..n : k < m => Kept(K)[k] < Kept(K)[m]
  BY <1>1, <1>2, OutcomeIs
<1> HIDE DEF K, n
<1>4. DOMAIN document.lines = 1..n /\ n \in Nat /\ d = [i \in 1..n |-> AsDocLine(document.lines[i])]
  BY <1>3
<1> HIDE DEF d
<1>5. ASSUME NEW i \in 1..n
      PROVE  d[i] \in DocLine /\ d[i].page = found[Kept(K)[i]].page
  <2> DEFINE line == document.lines[i]
  <2>1. line \in OutLine
    BY <1>3
  <2>2. line.page = found[Kept(K)[i]].page /\ line.text = found[Kept(K)[i]].text
    <3>1. line = [page |-> found[Kept(K)[i]].page, kind |-> kinds[Kept(K)[i]],
                  text |-> found[Kept(K)[i]].text]
      BY <1>3
    <3> HIDE DEF line
    <3> QED BY <3>1
  <2>3. line.text # <<>>
    BY <1>1, <1>3, <2>2
  <2>4. d[i] = AsDocLine(line)
    BY <1>4
  <2> HIDE DEF line
  <2>5. line.page \in Pages \ {0} /\ Len(line.text) \in Nat \ {0}
    BY <2>1, <2>3 DEF OutLine, Pages
  <2> DEFINE kind == IF line.kind = "heading" THEN "heading" ELSE "body"
             size == Len(line.text)
  <2>6. kind \in {"heading", "body"}
    OBVIOUS
  <2>7. AsDocLine(line) = [page |-> line.page, n |-> size, kind |-> kind]
    BY DEF AsDocLine
  <2>8. size \in Headings /\ size \in Lengths
    BY <2>5 DEF Headings, Lengths
  <2> HIDE DEF kind, size
  <2>9. AsDocLine(line) \in DocLine
    BY <2>5, <2>6, <2>7, <2>8 DEF DocLine
  <2> QED BY <2>2, <2>4, <2>7, <2>9
<1>6. d \in Seq(DocLine) /\ DOMAIN d = 1..n
  <2>1. d \in [1..n -> DocLine]
    <3>1. d = [i \in 1..n |-> d[i]]
      BY <1>4
    <3> QED BY <1>5, <3>1
  <2> QED BY <1>4, <2>1, FunctionIsSeq
<1>7. ASSUME NEW i \in 1..n, NEW j \in 1..n, i < j
      PROVE  d[i].page <= d[j].page
  <2>1. /\ Kept(K)[i] \in 1..Len(found) /\ Kept(K)[j] \in 1..Len(found)
        /\ Kept(K)[i] < Kept(K)[j]
    BY <1>3, <1>7
  <2> QED BY <1>1, <1>5, <2>1
<1> QED BY <1>6, <1>7 DEF Documents, d

\* However the font families tie: the text that is kept, its pages and the report are
\* the same in every extraction of a PDF (dominant_family's max_by_key over a HashMap).
THEOREM TiesAreHarmless == ExtractionSpec => []TiesOnlyMoveHeadings
<1>1. Extracted => TiesOnlyMoveHeadings
  BY ExtractedTies
<1> QED BY <1>1, InitExtracted, NextExtracted, PTL DEF ExtractionSpec

LEMMA ExtractedInit == ExtractionInit => Init
<1> SUFFICES ASSUME ExtractionInit PROVE Init
  OBVIOUS
<1>1. doc \in Documents
  BY ExtractedDocument DEF ExtractionInit
<1> QED BY <1>1 DEF ExtractionInit, Init

\* For every PDF, classification and budget: what structure makes is a document that
\* to_markdown and split are proved right for.
THEOREM ExtractionImplementsChunking == ExtractionSpec => ImplementsChunking
<1>1. ExtractionInit => Init
  BY ExtractedInit
<1>2. [ExtractionNext]_extractionVars => [Next]_vars
  BY DEF ExtractionNext, extractionVars, vars
<1> QED BY <1>1, <1>2, PTL DEF ExtractionSpec, Spec, ImplementsChunking
-----------------------------------------------------------------------------
(* Counting what a PDF says. *)

\* A run of segments has text if and only if its first segment begins a line that
\* can be read.
LEMMA RunReadable ==
    ASSUME NEW segments \in Seq(RawSegment), NEW first \in LineStarts(segments),
           NEW last \in first..Len(segments),
           \A j \in first + 1..last : j \notin LineStarts(segments),
           last < Len(segments) => last + 1 \in LineStarts(segments)
    PROVE  AssembleText(SubSeq(segments, first, last)) # <<>> <=> Readable(segments, first)
<1> DEFINE n == Len(segments)
           group == SubSeq(segments, first, last)
           Says(s) == \E c \in DOMAIN s.text : Said(s.text, c)
<1>0. /\ n \in Nat /\ first \in 1..n /\ last \in 1..n /\ first <= last
      /\ \A k \in 1..n : segments[k] \in RawSegment
  BY DEF LineStarts
<1>1. /\ group \in Seq(RawSegment) /\ Len(group) = last - first + 1
      /\ \A m \in 1..last - first + 1 : group[m] = segments[first + m - 1]
  <2>1. \A k \in first..last : segments[k] \in RawSegment
    BY <1>0
  <2>2. first \in Int /\ last \in Int
    BY <1>0
  <2> HIDE DEF n
  <2> QED BY <1>0, <2>1, <2>2, SubSeqProperties
<1>2. AssembleText(group) # <<>> <=> \E m \in DOMAIN group : Says(group[m])
  <2> HIDE DEF group
  <2> QED BY <1>1, LineText
<1>3. Readable(segments, first) <=>
          \E k \in first..n : /\ \A j \in first + 1..k : j \notin LineStarts(segments)
                              /\ Says(segments[k])
  BY DEF Readable, Said
<1> HIDE DEF group, Says, n
<1>4. ASSUME NEW m \in DOMAIN group, Says(group[m]) PROVE Readable(segments, first)
  <2>1. m \in 1..last - first + 1
    BY <1>1
  <2> DEFINE k == first + m - 1
  <2>2. k \in first..last /\ k \in first..n
    BY <1>0, <2>1
  <2>3. \A j \in first + 1..k : j \in first + 1..last
    BY <1>0, <2>2
  <2>4. Says(segments[k])
    BY <1>1, <1>4, <2>1
  <2> HIDE DEF k
  <2> QED BY <1>3, <2>2, <2>3, <2>4
<1>5. ASSUME NEW k \in first..n, \A j \in first + 1..k : j \notin LineStarts(segments),
             Says(segments[k])
      PROVE  \E m \in DOMAIN group : Says(group[m])
  <2>1. k <= last
    <3> SUFFICES ASSUME k > last PROVE FALSE
      BY <1>0
    <3>1. last < n /\ last + 1 \in first + 1..k
      BY <1>0
    <3> QED BY <1>5, <3>1 DEF n
  <2> DEFINE m == k - first + 1
  <2>2. m \in 1..last - first + 1 /\ first + m - 1 = k
    BY <1>0, <2>1
  <2> HIDE DEF m
  <2>3. m \in DOMAIN group
    BY <1>1, <2>2
  <2>4. group[m] = segments[k]
    BY <1>1, <2>2
  <2> QED BY <1>5, <2>3, <2>4
<1> QED BY <1>2, <1>3, <1>4, <1>5 DEF group

\* The segments that begin the lines of a page.
Begin(first, groups, segments) ==
    /\ first \in [1..Len(groups) -> Nat]
    /\ \A g \in 1..Len(groups) :
          /\ first[g] \in LineStarts(segments)
          /\ AssembleText(groups[g]) # <<>> <=> Readable(segments, first[g])
    /\ \A g, h \in 1..Len(groups) : g < h => first[g] < first[h]
    /\ \A s \in LineStarts(segments) : \E g \in 1..Len(groups) : first[g] = s

First(segments) == CHOOSE first : Begin(first, GroupIntoLines(segments), segments)

LEMMA FirstIs ==
    ASSUME NEW segments \in Seq(RawSegment)
    PROVE  Begin(First(segments), GroupIntoLines(segments), segments)
<1> DEFINE groups == GroupIntoLines(segments)
<1>1. groups \in Seq(Seq(RawSegment)) /\ CutsUpTo(groups, Len(segments) + 1, segments)
  BY LinesCut
<1> HIDE DEF groups
<1>2. PICK first, last :
          /\ Cuts(groups, first, last, segments)
          /\ \A s \in LineStarts(segments) :
                s < Len(segments) + 1 => \E g \in 1..Len(groups) : first[g] = s
  BY <1>1 DEF CutsUpTo
<1>3. \A s \in LineStarts(segments) : s < Len(segments) + 1
  BY DEF LineStarts
<1>4. ASSUME NEW g \in 1..Len(groups)
      PROVE  AssembleText(groups[g]) # <<>> <=> Readable(segments, first[g])
  <2>1. /\ first[g] \in LineStarts(segments)
        /\ last[g] \in first[g]..Len(segments)
        /\ groups[g] = SubSeq(segments, first[g], last[g])
        /\ \A j \in first[g] + 1..last[g] : j \notin LineStarts(segments)
        /\ last[g] < Len(segments) => last[g] + 1 \in LineStarts(segments)
    BY <1>2 DEF Cuts
  <2> QED BY <2>1, RunReadable
<1>5. Begin(first, groups, segments)
  BY <1>2, <1>3, <1>4 DEF Cuts, Begin
<1> QED BY <1>5 DEF First, groups

\* The lines of all pages that can be read.
Texts(ps) ==
    UNION {{<<p, i>> : i \in {s \in LineStarts(ps[p]) : Readable(ps[p], s)}} : p \in DOMAIN ps}

\* structure finds as many lines with text as there are on the pages.
LEMMA TextsFound ==
    ASSUME NEW ps \in Seq(Seq(RawSegment))
    PROVE  Cardinality(Texts(ps)) = Len(Found(ps))
<1> DEFINE lines == VisualLines(ps)
           K == {i \in DOMAIN lines : HasText(lines[i])}
           P == 1..Len(ps)
           Starts(p) == First(ps[p])
<1>1. /\ lines \in Seq(VisualLine) /\ IsFlat(lines, Rows(ps), Len(ps))
      /\ \A p \in P : Rows(ps)[p] = Row(ps, p)
  BY VisualLinesFlat
<1>2. K \in SUBSET (1..Len(lines)) /\ Len(lines) \in Nat
  BY <1>1
<1>3. Len(Found(ps)) = Cardinality(K) /\ IsFiniteSet(K)
  <2>1. K \in SUBSET (DOMAIN lines)
    OBVIOUS
  <2>2. Found(ps) = Selection(lines, K)
    BY DEF Found
  <2> HIDE DEF lines, K
  <2> QED BY <1>1, <1>2, <2>1, <2>2, Selected, KeptInOrder
<1>4. \A i \in 1..Len(lines) : i \in K <=> lines[i].text # <<>>
  BY <1>1 DEF HasText
<1>5. \A p \in P : ps[p] \in Seq(RawSegment)
  OBVIOUS
<1> HIDE DEF lines, K
<1>6. PICK row, col : Flattens(lines, Rows(ps), Len(ps), row, col)
  BY <1>1 DEF IsFlat
<1>7. ASSUME NEW p \in P
      PROVE  /\ Begin(Starts(p), GroupIntoLines(ps[p]), ps[p])
             /\ Len(Row(ps, p)) = Len(GroupIntoLines(ps[p]))
             /\ \A g \in 1..Len(Row(ps, p)) :
                   Row(ps, p)[g].text # <<>> <=> Readable(ps[p], Starts(p)[g])
  <2> DEFINE groups == GroupIntoLines(ps[p])
  <2>1. Begin(Starts(p), groups, ps[p])
    BY <1>5, FirstIs
  <2>2. /\ Len(Row(ps, p)) = Len(groups)
        /\ \A g \in 1..Len(groups) :
              Row(ps, p)[g] = [page |-> p, group |-> groups[g], text |-> AssembleText(groups[g])]
    BY RowIs
  <2> HIDE DEF groups, Starts
  <2>3. ASSUME NEW g \in 1..Len(groups) PROVE Row(ps, p)[g].text = AssembleText(groups[g])
    <3>1. Row(ps, p)[g] = [page |-> p, group |-> groups[g], text |-> AssembleText(groups[g])]
      BY <2>2
    <3> QED BY <3>1
  <2>4. \A g \in 1..Len(groups) : AssembleText(groups[g]) # <<>> <=> Readable(ps[p], Starts(p)[g])
    BY <2>1 DEF Begin
  <2> QED BY <2>1, <2>2, <2>3, <2>4 DEF groups
<1> HIDE DEF Starts
<1>8. ASSUME NEW k \in 1..Len(lines)
      PROVE  /\ row[k] \in P /\ col[k] \in 1..Len(Row(ps, row[k]))
             /\ lines[k] = Row(ps, row[k])[col[k]]
  <2>1. /\ row[k] \in P
        /\ col[k] \in 1..Len(Rows(ps)[row[k]]) /\ lines[k] = Rows(ps)[row[k]][col[k]]
    BY <1>6 DEF Flattens
  <2> QED BY <1>1, <2>1
<1> DEFINE Place(k) == <<row[k], Starts(row[k])[col[k]]>>
           place == [k \in K |-> Place(k)]
           T == Texts(ps)
<1>9. \A p, s : <<p, s>> \in T <=> p \in P /\ s \in LineStarts(ps[p]) /\ Readable(ps[p], s)
  BY DEF Texts
<1>10. ASSUME NEW k \in K PROVE Place(k) \in T
  <2>1. k \in 1..Len(lines) /\ lines[k].text # <<>>
    BY <1>2, <1>4
  <2>2. Readable(ps[row[k]], Starts(row[k])[col[k]])
    BY <1>7, <1>8, <2>1
  <2>3. Starts(row[k])[col[k]] \in LineStarts(ps[row[k]])
    BY <1>7, <1>8, <2>1 DEF Begin
  <2> QED BY <1>8, <1>9, <2>1, <2>2, <2>3
<1>11. ASSUME NEW k \in K, NEW m \in K, Place(k) = Place(m) PROVE k = m
  <2>0. k \in 1..Len(lines) /\ m \in 1..Len(lines) /\ k \in Nat /\ m \in Nat
    BY <1>2
  <2>1. row[k] = row[m] /\ Starts(row[k])[col[k]] = Starts(row[k])[col[m]]
    BY <1>11
  <2> HIDE DEF Place
  <2>2. \A g, h \in 1..Len(Row(ps, row[k])) :
           g < h => /\ Starts(row[k])[g] < Starts(row[k])[h]
                    /\ Starts(row[k])[g] \in Nat /\ Starts(row[k])[h] \in Nat
    BY <1>7, <1>8, <2>0 DEF Begin
  <2>3. col[k] \in 1..Len(Row(ps, row[k])) /\ col[m] \in 1..Len(Row(ps, row[k]))
    BY <1>8, <2>0, <2>1
  <2>4. ~(col[k] < col[m]) /\ ~(col[m] < col[k])
    <3>1. \A a \in Nat : ~(a < a)
      OBVIOUS
    <3> QED BY <2>1, <2>2, <2>3, <3>1
  <2>5. ~(row[k] < row[m]) /\ ~(row[m] < row[k])
    <3>1. row[k] \in P
      BY <1>8, <2>0
    <3> QED BY <2>1, <3>1
  <2>6. ~(k < m) /\ ~(m < k)
    BY <1>6, <2>0, <2>4, <2>5 DEF Flattens
  <2> QED BY <2>0, <2>6
<1>12. ASSUME NEW t \in T PROVE \E k \in K : Place(k) = t
  <2>1. PICK p \in P, s \in Nat :
           s \in LineStarts(ps[p]) /\ t = <<p, s>> /\ Readable(ps[p], s)
    <3>1. PICK p \in DOMAIN ps :
             t \in {<<p, s>> : s \in {x \in LineStarts(ps[p]) : Readable(ps[p], x)}}
      BY DEF T, Texts
    <3>2. PICK s \in LineStarts(ps[p]) : t = <<p, s>> /\ Readable(ps[p], s)
      BY <3>1
    <3>3. p \in P /\ s \in Nat
      BY <1>5, <3>1, <3>2 DEF LineStarts
    <3> QED BY <3>2, <3>3
  <2>2. PICK g \in 1..Len(Row(ps, p)) : Starts(p)[g] = s
    BY <1>7, <2>1 DEF Begin
  <2>3. PICK k \in 1..Len(lines) : row[k] = p /\ col[k] = g
    <3>1. g \in 1..Len(Rows(ps)[p])
      BY <1>1, <2>2
    <3> QED BY <1>6, <3>1 DEF Flattens
  <2>4. lines[k].text # <<>>
    <3>1. lines[k] = Row(ps, p)[g]
      BY <1>8, <2>3
    <3> QED BY <1>7, <2>1, <2>2, <3>1
  <2>5. k \in K /\ Place(k) = t
    BY <1>4, <2>1, <2>2, <2>3, <2>4
  <2> QED BY <2>5
<1> HIDE DEF Place, T
<1>13. place \in [K -> T] /\ \A k \in K : place[k] = Place(k)
  BY <1>10
<1> HIDE DEF place
<1>14. place \in Bijection(K, T)
  <2>1. \A k, m \in K : place[k] = place[m] => k = m
    BY <1>11, <1>13
  <2>2. \A t \in T : \E k \in K : place[k] = t
    BY <1>12, <1>13
  <2> QED BY <1>13, <2>1, <2>2, Fun_IsBij
<1>15. Cardinality(T) = Cardinality(K)
  <2>1. ExistsBijection(K, T)
    BY <1>14 DEF ExistsBijection
  <2> QED BY <1>3, <2>1, FS_Bijection
<1> QED BY <1>3, <1>15 DEF T

\* Each of them is kept as a line of the document or counted as garbled.
LEMMA TextsKept ==
    ASSUME Extracted
    PROVE  /\ report.dropped_garbled \in Nat /\ Len(doc) \in Nat
           /\ Cardinality(Texts(ReadPages(pages))) = report.dropped_garbled + Len(doc)
<1> DEFINE ps == ReadPages(pages)
           found == Found(ps)
<1>1. ps \in Seq(Seq(RawSegment)) /\ found \in Seq(VisualLine)
  BY PagesRead, FoundIs DEF Extracted
<1>2. PICK document \in Structure(ps) :
         /\ doc = [i \in DOMAIN document.lines |-> AsDocLine(document.lines[i])]
         /\ report = document.report
  BY DEF Extracted
<1>3. PICK kinds \in Kinds(found) : document = Outcome(found, kinds)
  BY StructureIs
<1>4. Cardinality(Texts(ps)) = Len(found)
  BY <1>1, TextsFound
<1> HIDE DEF ps, found
<1> DEFINE n == Cardinality(Clean(found, kinds))
<1>5. /\ n \in 0..Len(found) /\ document.lines \in Seq(OutLine) /\ Len(document.lines) = n
      /\ document.report = [kept |-> n, dropped_garbled |-> Len(found) - n]
  BY <1>1, <1>3, OutcomeIs
<1> HIDE DEF n
<1>6. Len(doc) = n
  <2>1. DOMAIN document.lines = 1..n /\ n \in Nat
    BY <1>5
  <2>2. doc = [i \in 1..n |-> AsDocLine(document.lines[i])]
    BY <1>2, <2>1
  <2>3. doc \in [1..n -> {AsDocLine(document.lines[i]) : i \in 1..n}]
    BY <2>2
  <2> QED BY <2>1, <2>3, FunctionIsSeq
<1>7. report.dropped_garbled = Len(found) - n
  BY <1>2, <1>5
<1>8. Len(found) \in Nat
  BY <1>1
<1> QED BY <1>4, <1>5, <1>6, <1>7, <1>8 DEF ps

\* The lines of one kind.
Of(lines, kind) == {i \in DOMAIN lines : lines[i].kind = kind}

\* to_markdown has written each heading and each line of text once.
LEMMA KindRendered ==
    ASSUME TypeOK, rendered = Len(doc), NEW where, Located(where),
           NEW kind \in {"heading", "body"}
    PROVE  Cardinality(Of(transcript, kind)) = Cardinality(Of(doc, kind))
<1> DEFINE D == Of(doc, kind)
           T == Of(transcript, kind)
           place == [i \in D |-> where[i]]
<1>1. /\ DOMAIN doc = 1..rendered /\ DOMAIN transcript = 1..Len(transcript)
      /\ rendered \in Nat /\ Len(transcript) \in Nat
  BY DEF TypeOK
<1>2. /\ \A i \in D : i \in 1..rendered /\ doc[i].kind = kind
      /\ \A k : k \in T <=> k \in 1..Len(transcript) /\ transcript[k].kind = kind
      /\ \A i \in 1..rendered : doc[i].kind = kind => i \in D
  BY <1>1 DEF Of
<1>3. \A i \in D : where[i] \in T
  BY <1>2 DEF Located
<1>4. \A i, j \in D : where[i] = where[j] => i = j
  <2> SUFFICES ASSUME NEW i \in D, NEW j \in D, where[i] = where[j] PROVE i = j
    OBVIOUS
  <2>1. i \in 1..rendered /\ j \in 1..rendered /\ where[i] \in 1..Len(transcript)
    BY <1>2 DEF Located
  <2>2. ~(i < j) /\ ~(j < i)
    BY <2>1 DEF Located
  <2> QED BY <1>1, <2>1, <2>2
<1>5. ASSUME NEW k \in T PROVE \E i \in D : where[i] = k
  <2>1. k \in 1..Len(transcript) /\ transcript[k].kind = kind
    BY <1>2
  <2>2. PICK i \in 1..rendered : where[i] = k
    BY <2>1 DEF Located
  <2>3. doc[i].kind = kind
    BY <2>1, <2>2 DEF Located
  <2> QED BY <1>2, <2>2, <2>3
<1>6. IsFiniteSet(D)
  <2>1. D \subseteq 1..rendered /\ IsFiniteSet(1..rendered)
    BY <1>1, <1>2, FS_Interval
  <2> QED BY <2>1, FS_Subset
<1> HIDE DEF D, T
<1>7. place \in [D -> T] /\ \A i \in D : place[i] = where[i]
  BY <1>3
<1> HIDE DEF place
<1>8. place \in Bijection(D, T)
  <2>1. \A i, j \in D : place[i] = place[j] => i = j
    BY <1>4, <1>7
  <2>2. \A k \in T : \E i \in D : place[i] = k
    BY <1>5, <1>7
  <2> QED BY <1>7, <2>1, <2>2, Fun_IsBij
<1>9. ExistsBijection(D, T)
  BY <1>8 DEF ExistsBijection
<1>10. Cardinality(T) = Cardinality(D)
  BY <1>6, <1>9, FS_Bijection
<1> QED BY <1>10 DEF D, T

\* The places of the chunks.
Chunked == UNION {{<<c, i>> : i \in DOMAIN Chunks[c].lines} : c \in DOMAIN Chunks}

\* split has put each line of text into one place of one chunk.
LEMMA BodyChunked ==
    ASSUME IInv, NothingLost, pos = Len(transcript)
    PROVE  Cardinality(Chunked) = Cardinality(Of(transcript, "body"))
<1> DEFINE B == Of(transcript, "body")
           At(r) == Chunks[r[1]].lines[r[2]]
           at == [r \in Chunked |-> At(r)]
<1>0. DOMAIN transcript = 1..pos /\ pos \in Nat /\ B = BodyLines(transcript)
  BY DEF IInv, TypeOK, BodyLines, Of
<1>1. B \cap 1..pos = B
  BY <1>0 DEF BodyLines
<1>2. \A c, i : <<c, i>> \in Chunked <=> c \in DOMAIN Chunks /\ i \in DOMAIN Chunks[c].lines
  BY DEF Chunked
<1>3. ASSUME NEW r \in Chunked
      PROVE  /\ r = <<r[1], r[2]>> /\ r[1] \in DOMAIN Chunks
             /\ r[2] \in DOMAIN Chunks[r[1]].lines
  <2>1. PICK c \in DOMAIN Chunks : r \in {<<c, i>> : i \in DOMAIN Chunks[c].lines}
    BY DEF Chunked
  <2>2. PICK i \in DOMAIN Chunks[c].lines : r = <<c, i>>
    BY <2>1
  <2> QED BY <2>2
<1>4. UNION {Range(Chunks[c].lines) : c \in DOMAIN Chunks} = B
  BY <1>0, <1>1 DEF NothingLost
<1>5. ASSUME NEW r \in Chunked PROVE At(r) \in B
  <2>1. At(r) \in Range(Chunks[r[1]].lines)
    BY <1>3 DEF Range
  <2> QED BY <1>3, <1>4, <2>1
<1>6. ASSUME NEW k \in B PROVE \E r \in Chunked : At(r) = k
  <2>1. PICK c \in DOMAIN Chunks : k \in Range(Chunks[c].lines)
    BY <1>4
  <2>2. PICK i \in DOMAIN Chunks[c].lines : Chunks[c].lines[i] = k
    BY <2>1 DEF Range
  <2> DEFINE r == <<c, i>>
  <2>3. r \in Chunked /\ At(r) = k
    BY <1>2, <2>2
  <2> QED BY <2>3
<1>7. ASSUME NEW r \in Chunked, NEW s \in Chunked, At(r) = At(s) PROVE r = s
  <2> DEFINE c == r[1]
             i == r[2]
             d == s[1]
             j == s[2]
  <2>1. /\ c \in DOMAIN Chunks /\ i \in DOMAIN Chunks[c].lines
        /\ d \in DOMAIN Chunks /\ j \in DOMAIN Chunks[d].lines
        /\ r = <<c, i>> /\ s = <<d, j>>
    BY <1>3
  <2>2. Chunks[c].lines[i] = Chunks[d].lines[j] /\ Chunks[c].lines[i] \in Nat
    <3>1. Chunks[c].lines[i] \in 1..pos
      BY <2>1, LinesRead
    <3> QED BY <1>7, <3>1
  <2>3. c \in Nat /\ d \in Nat /\ i \in Nat /\ j \in Nat
    <3>1. Chunks \in Seq(Chunk)
      BY BuilderFlushed DEF IInv, TypeOK
    <3>2. Chunks[c].lines \in Seq(Nat \ {0}) /\ Chunks[d].lines \in Seq(Nat \ {0})
      BY <2>1, LinesRead
    <3> HIDE DEF c, d, i, j
    <3>3. \A T, q, x : q \in Seq(T) /\ x \in DOMAIN q => x \in Nat
      OBVIOUS
    <3>4. c \in Nat /\ d \in Nat
      BY <2>1, <3>1, <3>3
    <3>5. i \in Nat /\ j \in Nat
      BY <2>1, <3>2, <3>3
    <3> QED BY <3>4, <3>5
  <2> HIDE DEF c, d, i, j
  <2>4. /\ ~(c < d \/ (c = d /\ i < j))
        /\ ~(d < c \/ (d = c /\ j < i))
    <3>1. \A a \in Nat : ~(a < a)
      OBVIOUS
    <3> QED BY <2>1, <2>2, <3>1 DEF NothingLost
  <2>5. c = d /\ i = j
    BY <2>3, <2>4
  <2> QED BY <2>1, <2>5
<1>8. IsFiniteSet(B)
  <2>1. B \subseteq 1..pos /\ IsFiniteSet(1..pos)
    BY <1>0, <1>1, FS_Interval
  <2> QED BY <2>1, FS_Subset
<1> HIDE DEF B, At
<1>9. at \in [Chunked -> B] /\ \A r \in Chunked : at[r] = At(r)
  BY <1>5
<1> HIDE DEF at
<1>10. at \in Bijection(Chunked, B)
  <2>1. \A r, s \in Chunked : at[r] = at[s] => r = s
    BY <1>7, <1>9
  <2>2. \A k \in B : \E r \in Chunked : at[r] = k
    BY <1>6, <1>9
  <2> QED BY <1>9, <2>1, <2>2, Fun_IsBij
<1>11. ExistsBijection(B, Chunked)
  <2>1. ExistsBijection(Chunked, B)
    BY <1>10 DEF ExistsBijection
  <2> QED BY <2>1, Fun_ExistsBijSymmetric
<1>12. Cardinality(Chunked) = Cardinality(B)
  BY <1>8, <1>11, FS_Bijection
<1> QED BY <1>12 DEF B

LEMMA EachAccountedFor ==
    IInv /\ NothingLost /\ Faithful /\ Extracted => PdfAccountedFor
<1> SUFFICES ASSUME IInv, NothingLost, Faithful, Extracted, finished, edits = 0
             PROVE  Cardinality(Texts(ReadPages(pages))) =
                        report.dropped_garbled + Cardinality(Of(transcript, "heading"))
                            + Cardinality(Chunked)
  BY DEF PdfAccountedFor, Texts, Of, Chunked
<1>1. /\ rendered = Len(doc) /\ pos = Len(transcript)
      /\ DOMAIN doc = 1..Len(doc) /\ Len(doc) \in Nat /\ \A i \in 1..Len(doc) : doc[i] \in DocLine
  BY DEF IInv, Phases, TypeOK
<1>2. PICK where : Located(where)
  BY DEF Faithful
<1> DEFINE H == Of(doc, "heading")
           B == Of(doc, "body")
<1>3. /\ Cardinality(Of(transcript, "heading")) = Cardinality(H)
      /\ Cardinality(Of(transcript, "body")) = Cardinality(B)
  BY <1>1, <1>2, KindRendered DEF IInv
<1>4. Cardinality(Chunked) = Cardinality(B)
  BY <1>1, <1>3, BodyChunked
<1>5. H \cup B = 1..Len(doc) /\ H \cap B = {}
  <2>1. \A i \in 1..Len(doc) : doc[i].kind = "heading" \/ doc[i].kind = "body"
    BY <1>1 DEF DocLine
  <2> QED BY <1>1, <2>1 DEF Of
<1> HIDE DEF H, B
<1>6. IsFiniteSet(1..Len(doc)) /\ Cardinality(1..Len(doc)) = Len(doc)
  <2> DEFINE n == Len(doc)
  <2>1. n \in Nat /\ 1 \in Int /\ n \in Int
    BY <1>1
  <2> HIDE DEF n
  <2>2. IsFiniteSet(1..n) /\ Cardinality(1..n) = IF 1 > n THEN 0 ELSE n - 1 + 1
    BY <2>1, FS_Interval
  <2>3. Cardinality(1..n) = n
    BY <2>1, <2>2
  <2> QED BY <2>2, <2>3 DEF n
<1>7. IsFiniteSet(H) /\ IsFiniteSet(B)
  <2>1. H \subseteq 1..Len(doc) /\ B \subseteq 1..Len(doc)
    BY <1>5
  <2> QED BY <1>6, <2>1, FS_Subset
<1>8. Len(doc) = Cardinality(H) + Cardinality(B)
  <2>1. Cardinality(H \cup B) = Cardinality(H) + Cardinality(B) - Cardinality(H \cap B)
    BY <1>7, FS_Union
  <2>2. Cardinality(H \cap B) = 0
    BY <1>5, FS_EmptySet
  <2>3. Cardinality(H) \in Nat /\ Cardinality(B) \in Nat
    BY <1>7, FS_CardinalityType
  <2>4. Cardinality(H \cup B) = Len(doc)
    BY <1>5, <1>6
  <2> QED BY <2>1, <2>2, <2>3, <2>4
<1>9. /\ report.dropped_garbled \in Nat
      /\ Cardinality(Texts(ReadPages(pages))) = report.dropped_garbled + Len(doc)
  BY TextsKept
<1>10. Cardinality(H) \in Nat /\ Cardinality(B) \in Nat
  BY <1>7, FS_CardinalityType
<1> QED BY <1>3, <1>4, <1>8, <1>9, <1>10

\* For every PDF, every budget and however the font families tie: each visual line
\* with text is counted as garbled, is a heading of the transcript or is in exactly
\* one chunk, when nobody edits the transcript.  No step of reading, structuring,
\* rendering and splitting loses a line or makes one up.
THEOREM EveryLineIsAccountedFor == ExtractionSpec => []PdfAccountedFor
<1> DEFINE Inv == IInv /\ NothingLost /\ Faithful /\ Extracted
<1>1. ExtractionInit => Inv
  <2> SUFFICES ASSUME ExtractionInit PROVE Inv
    OBVIOUS
  <2>1. Init
    BY ExtractedInit
  <2> QED BY <2>1, InitIInv, InitKeepsLines, InitFaithful, InitExtracted
<1>2. Inv /\ [ExtractionNext]_extractionVars => Inv'
  <2> SUFFICES ASSUME Inv, [ExtractionNext]_extractionVars PROVE Inv'
    OBVIOUS
  <2>1. [Next]_vars
    BY DEF ExtractionNext, extractionVars, vars
  <2> QED BY <2>1, NextIInv, NextKeepsLines, NextFaithful, NextExtracted
<1>3. Inv => PdfAccountedFor
  BY EachAccountedFor
<1> QED BY <1>1, <1>2, <1>3, PTL DEF ExtractionSpec
=============================================================================
