-------------------------- MODULE Contests_proofs --------------------------
(***************************************************************************)
(* Proofs about the four programs of MCPrograms that compute an answer     *)
(* from their input, for inputs of any size: quicksort of any array (K),   *)
(* the shortest path in any graph with costs that are not negative (E),    *)
(* the contest solutions with any lines, days and numbers (C), and the     *)
(* blood groups of any lines (B).                                          *)
(***************************************************************************)
EXTENDS MCPrograms, Lemmas, TLAPS

----------

-----------------------------------------------------------------------------
(* The shortest path *)

LEMMA NodesCounted == \A s : E!Cardinality(s) = Cardinality(s)
    BY DEF E!Cardinality, Cardinality

(* A set of numbers has a smallest one. *)
LEMMA Smallest ==
    ASSUME NEW s \in SUBSET Nat, s # {}
    PROVE  \E n \in s : \A m \in s : n <= m
<1> SUFFICES ASSUME \A n \in s : \E m \in s : m < n PROVE FALSE
    OBVIOUS
<1> DEFINE X == {n \in Nat : \A k \in s : n <= k}
<1>1. 0 \in X
    OBVIOUS
<1>2. ASSUME NEW n \in Nat, n \in X PROVE n + 1 \in X
    BY <1>2
<1> HIDE DEF X
<1>3. \A n \in Nat : n \in X
    BY <1>1, <1>2, Induct
<1>4. PICK k \in s : TRUE
    OBVIOUS
<1>5. k + 1 \in X
    BY <1>3
<1> QED BY <1>5 DEF X

(* How many elements of a set are greater than n. *)
Rank(s, n) == Cardinality({m \in s : m > n})

LEMMA RankBounds ==
    ASSUME NEW s, IsFiniteSet(s), NEW n \in s, ~(n > n)
    PROVE  Rank(s, n) \in 0 .. Cardinality(s) - 1
<1> DEFINE g == {m \in s : m > n}
<1>1. IsFiniteSet(s \ {n}) /\ Cardinality(s \ {n}) = Cardinality(s) - 1
    BY FS_RemoveElement
<1>2. g \in SUBSET (s \ {n})
    OBVIOUS
<1>3. IsFiniteSet(g) /\ Cardinality(g) <= Cardinality(s \ {n})
    BY <1>1, <1>2, FS_Subset
<1>4. Cardinality(g) \in Nat /\ Cardinality(s) \in Nat
    BY <1>3, FS_CardinalityType
<1> QED BY <1>1, <1>3, <1>4 DEF Rank

(* In a finite set of numbers each rank is that of one of them. *)
LEMMA Ranks ==
    ASSUME NEW s \in SUBSET Nat, IsFiniteSet(s)
    PROVE  /\ \A n, m \in s : Rank(s, n) = Rank(s, m) => n = m
           /\ \A k \in 1 .. Cardinality(s) : \E n \in s : Rank(s, n) = k - 1
<1>1. ASSUME NEW n \in s PROVE Rank(s, n) \in 0 .. Cardinality(s) - 1
  <2>1. ~(n > n)
    OBVIOUS
  <2> QED BY <2>1, RankBounds
<1>2. ASSUME NEW n \in s, NEW m \in s, n < m PROVE Rank(s, m) < Rank(s, n)
  <2> DEFINE g == {k \in s : k > n}
             h == {k \in s : k > m}
  <2>0. m \in g /\ m \notin h /\ \A k \in h : k \in g
    BY <1>2
  <2>1. h \in SUBSET g /\ h # g
    BY <2>0
  <2>2. IsFiniteSet(g)
    BY FS_Subset
  <2>3. Cardinality(h) <= Cardinality(g) /\ Cardinality(h) # Cardinality(g)
    BY <2>1, <2>2, FS_Subset
  <2>4. Cardinality(g) \in Nat /\ Cardinality(h) \in Nat
    BY <2>1, <2>2, FS_Subset, FS_CardinalityType
  <2> QED BY <2>3, <2>4 DEF Rank
<1>3. ASSUME NEW n \in s, NEW m \in s, Rank(s, n) = Rank(s, m) PROVE n = m
  <2>1. Rank(s, n) \in Int
    BY <1>1, FS_CardinalityType
  <2>2. ~(n < m) /\ ~(m < n)
    BY <1>2, <1>3, <2>1
  <2> QED BY <2>2
<1>4. ASSUME NEW k \in 1 .. Cardinality(s) PROVE \E n \in s : Rank(s, n) = k - 1
  <2> DEFINE c == Cardinality(s)
             r == [n \in s |-> Rank(s, n)]
  <2>1. c \in Nat
    BY FS_CardinalityType
  <2>2. IsFiniteSet(0 .. c - 1) /\ Cardinality(0 .. c - 1) = c
    <3>1. 0 \in Int /\ c - 1 \in Int /\ c = (IF 0 > c - 1 THEN 0 ELSE (c - 1) - 0 + 1)
      BY <2>1
    <3> QED BY <3>1, FS_Interval
  <2>3. r \in [s -> 0 .. c - 1]
    BY <1>1
  <2>4. r \in Injection(s, 0 .. c - 1)
    BY <2>3, <1>3, Fun_IsInj
  <2>5. r \in Surjection(s, 0 .. c - 1)
    BY <2>2, <2>4, FS_Injection
  <2>6. k - 1 \in 0 .. c - 1
    BY <2>1
  <2>7. \E n \in s : r[n] = k - 1
    <3> HIDE DEF r, c
    <3>1. \A i \in 0 .. c - 1 : \E n \in s : r[n] = i
      BY <2>5 DEF Surjection
    <3> QED BY <2>6, <3>1
  <2> QED BY <2>7
<1> QED BY <1>3, <1>4

LEMMA Joined ==
    ASSUME NEW set, NEW s \in Seq(set), NEW t \in Seq(set), NoRepeat(s), NoRepeat(t),
           Elems(s) \cap Elems(t) = {}
    PROVE  s \o t \in Seq(set) /\ NoRepeat(s \o t) /\ Elems(s \o t) = Elems(s) \cup Elems(t)
<1> DEFINE r == s \o t
<1>1. /\ r \in Seq(set) /\ Len(r) = Len(s) + Len(t) /\ Len(s) \in Nat /\ Len(t) \in Nat
      /\ \A i \in 1 .. Len(s) + Len(t) : r[i] = IF i <= Len(s) THEN s[i] ELSE t[i - Len(s)]
    BY ConcatProperties
<1> HIDE DEF r
<1>2. /\ \A i \in 1 .. Len(s) : i \in 1 .. Len(r) /\ r[i] = s[i]
      /\ \A i \in 1 .. Len(t) : Len(s) + i \in 1 .. Len(r) /\ r[Len(s) + i] = t[i]
    BY <1>1
<1>3. \A i \in 1 .. Len(r) : \/ i \in 1 .. Len(s) /\ r[i] = s[i]
                             \/ i - Len(s) \in 1 .. Len(t) /\ r[i] = t[i - Len(s)]
    BY <1>1
<1>4. Elems(r) = Elems(s) \cup Elems(t)
  <2>1. ASSUME NEW i \in 1 .. Len(r) PROVE r[i] \in Elems(s) \cup Elems(t)
    BY <1>3 DEF Elems
  <2>2. ASSUME NEW i \in 1 .. Len(s) PROVE s[i] \in Elems(r)
    BY <1>2 DEF Elems
  <2>3. ASSUME NEW i \in 1 .. Len(t) PROVE t[i] \in Elems(r)
    BY <1>2 DEF Elems
  <2> QED BY <2>1, <2>2, <2>3, Zenon DEF Elems
<1>5. NoRepeat(r)
  <2> SUFFICES ASSUME NEW i \in 1 .. Len(r), NEW j \in 1 .. Len(r), r[i] = r[j] PROVE i = j
    BY DEF NoRepeat
  <2>1. CASE i \in 1 .. Len(s) /\ r[i] = s[i] /\ j \in 1 .. Len(s) /\ r[j] = s[j]
    BY <2>1 DEF NoRepeat
  <2>2. CASE /\ i - Len(s) \in 1 .. Len(t) /\ r[i] = t[i - Len(s)]
             /\ j - Len(s) \in 1 .. Len(t) /\ r[j] = t[j - Len(s)]
    <3>1. i - Len(s) = j - Len(s)
      BY <2>2 DEF NoRepeat
    <3> QED BY <1>1, <3>1
  <2>3. CASE \/ i \in 1 .. Len(s) /\ r[i] = s[i] /\ j - Len(s) \in 1 .. Len(t) /\ r[j] = t[j - Len(s)]
             \/ j \in 1 .. Len(s) /\ r[j] = s[j] /\ i - Len(s) \in 1 .. Len(t) /\ r[i] = t[i - Len(s)]
    BY <2>3 DEF Elems
  <2> QED BY <1>3, <2>1, <2>2, <2>3
<1> QED BY <1>1, <1>4, <1>5 DEF r

(* What insert_into_dijks_list and pop_from_dijks_list do to the list. *)
LEMMA Inserted ==
    ASSUME MaxNode \in Nat, NEW s \in Seq(E!Nodes), NoRepeat(s), NEW u \in SUBSET E!Nodes
    PROVE  LET r == E!insert_into_dijks_list(s, u)
           IN  r \in Seq(E!Nodes) /\ NoRepeat(r) /\ Elems(r) = Elems(s) \cup u
<1> DEFINE fresh == {n \in u : \A i \in 1 .. Len(s) : s[i] # n}
           c == Cardinality(fresh)
           nth(k) == CHOOSE n \in fresh : Rank(fresh, n) = k - 1
           t == [k \in 1 .. c |-> nth(k)]
<1>1. E!insert_into_dijks_list(s, u) = t \o s
    BY Zenon DEF E!insert_into_dijks_list, E!Cardinality, Rank, Cardinality
<1>2. fresh \in SUBSET E!Nodes /\ fresh \in SUBSET Nat /\ IsFiniteSet(fresh) /\ c \in Nat
  <2>1. fresh \in SUBSET E!Nodes /\ fresh \in SUBSET Nat
    <3>1. \A n \in E!Nodes : n \in Nat
      BY DEF E!Nodes
    <3> QED BY <3>1
  <2>2. IsFiniteSet(E!Nodes)
    BY FS_Interval DEF E!Nodes
  <2>3. IsFiniteSet(fresh)
    BY <2>1, <2>2, FS_Subset
  <2> QED BY <2>1, <2>3, FS_CardinalityType
<1>3. fresh \cap Elems(s) = {} /\ Elems(s) \cup fresh = Elems(s) \cup u
    BY DEF Elems
<1> HIDE DEF fresh
<1>4. ASSUME NEW k \in 1 .. c PROVE nth(k) \in fresh /\ Rank(fresh, nth(k)) = k - 1
    BY <1>2, Ranks
<1>5. \A k \in 1 .. c : t[k] \in fresh /\ Rank(fresh, t[k]) = k - 1
    BY <1>4
<1>6. t \in Seq(E!Nodes) /\ Len(t) = c
  <2>1. t \in [1 .. c -> E!Nodes]
    BY <1>2, <1>4
  <2> HIDE DEF t
  <2> QED BY <1>2, <2>1
<1> HIDE DEF nth, t
<1>7. Elems(t) = fresh
  <2>1. ASSUME NEW n \in fresh PROVE \E k \in 1 .. c : t[k] = n
    <3>1. Rank(fresh, n) \in 0 .. c - 1
      <4>1. ~(n > n)
        BY <1>2
      <4> QED BY <1>2, <4>1, RankBounds
    <3>2. Rank(fresh, n) + 1 \in 1 .. c /\ (Rank(fresh, n) + 1) - 1 = Rank(fresh, n)
      BY <1>2, <3>1
    <3>3. /\ t[Rank(fresh, n) + 1] \in fresh
          /\ Rank(fresh, t[Rank(fresh, n) + 1]) = Rank(fresh, n)
      BY <1>5, <3>2
    <3>4. \A j, m \in fresh : Rank(fresh, j) = Rank(fresh, m) => j = m
      BY <1>2, Ranks, Zenon
    <3>5. t[Rank(fresh, n) + 1] = n
      BY <3>3, <3>4, Zenon
    <3> QED BY <3>2, <3>5
  <2> QED BY <1>5, <1>6, <2>1 DEF Elems
<1>8. NoRepeat(t)
  <2> SUFFICES ASSUME NEW i \in 1 .. c, NEW j \in 1 .. c, t[i] = t[j] PROVE i = j
    BY <1>6 DEF NoRepeat
  <2>1. i - 1 = j - 1
    BY <1>5
  <2> QED BY <1>2, <2>1
<1>9. LET r == t \o s
      IN  r \in Seq(E!Nodes) /\ NoRepeat(r) /\ Elems(r) = Elems(t) \cup Elems(s)
    BY <1>3, <1>6, <1>7, <1>8, Joined
<1> QED BY <1>1, <1>3, <1>7, <1>9

LEMMA Popped ==
    ASSUME NEW s \in Seq(E!Nodes), s = data_list, s # <<>>, temp_label \in [E!Nodes -> Nat]
    PROVE  LET i == E!pop_from_dijks_list
           IN  /\ i \in 1 .. Len(s)
               /\ \A j \in 1 .. Len(s) : temp_label[s[i]] <= temp_label[s[j]]
<1> DEFINE ls == {temp_label[s[i]] : i \in 1 .. Len(s)}
<1>1. \A i \in 1 .. Len(s) : s[i] \in E!Nodes /\ temp_label[s[i]] \in Nat
    OBVIOUS
<1>2. ls \in SUBSET Nat /\ ls # {}
  <2>1. 1 \in 1 .. Len(s)
    OBVIOUS
  <2> QED BY <1>1, <2>1
<1>3. PICK a \in ls : \A b \in ls : a <= b
    BY <1>2, Smallest
<1> DEFINE least == {i \in 1 .. Len(s) : temp_label[s[i]] = a}
<1>4. least \in SUBSET Nat /\ least # {}
    BY <1>3
<1>5. PICK i \in least : \A j \in least : i <= j
    BY <1>4, Smallest
<1> DEFINE First(k) == \A j \in 1 .. Len(s) : \/ temp_label[s[k]] < temp_label[s[j]]
                                              \/ temp_label[s[k]] = temp_label[s[j]] /\ k <= j
<1>6. First(i)
  <2> SUFFICES ASSUME NEW j \in 1 .. Len(s)
               PROVE  \/ temp_label[s[i]] < temp_label[s[j]]
                      \/ temp_label[s[i]] = temp_label[s[j]] /\ i <= j
    OBVIOUS
  <2>1. temp_label[s[i]] = a /\ a \in Nat /\ a <= temp_label[s[j]]
    BY <1>2, <1>3
  <2>2. temp_label[s[j]] = a => i <= j
    BY <1>5
  <2> HIDE DEF ls, least
  <2> QED BY <1>1, <2>1, <2>2
<1>7. E!pop_from_dijks_list = CHOOSE k \in 1 .. Len(s) : First(k)
    BY DEF E!pop_from_dijks_list
<1> DEFINE p == CHOOSE k \in 1 .. Len(s) : First(k)
<1>8. p \in 1 .. Len(s) /\ First(p)
  <2> HIDE DEF First
  <2> QED BY <1>5, <1>6
<1> HIDE DEF p
<1>9. \A j \in 1 .. Len(s) : temp_label[s[p]] <= temp_label[s[j]]
    BY <1>1, <1>8
<1> QED BY <1>7, <1>8, <1>9 DEF p

LEMMA Removed ==
    ASSUME NEW set, NEW s \in Seq(set), NoRepeat(s), NEW i \in 1 .. Len(s)
    PROVE  LET r == SubSeq(s, 1, i - 1) \o SubSeq(s, i + 1, Len(s))
           IN  r \in Seq(set) /\ NoRepeat(r) /\ Elems(r) = Elems(s) \ {s[i]}
<1> DEFINE a == SubSeq(s, 1, i - 1)
           b == SubSeq(s, i + 1, Len(s))
<1>0. Len(s) \in Nat /\ i \in Nat /\ i >= 1 /\ i <= Len(s) /\ \A j \in 1 .. Len(s) : s[j] \in set
    OBVIOUS
<1>1. a \in Seq(set) /\ Len(a) = i - 1 /\ \A j \in 1 .. i - 1 : a[j] = s[j]
    BY <1>0, SubSeqProperties
<1>2. b \in Seq(set) /\ Len(b) = Len(s) - i /\ \A j \in 1 .. Len(s) - i : b[j] = s[i + j]
  <2>1. /\ b \in Seq(set)
        /\ Len(b) = IF i + 1 <= Len(s) THEN Len(s) - (i + 1) + 1 ELSE 0
        /\ \A j \in 1 .. Len(s) - (i + 1) + 1 : b[j] = s[(i + 1) + j - 1]
    BY <1>0, SubSeqProperties
  <2> HIDE DEF b
  <2> QED BY <1>0, <2>1
<1> HIDE DEF a, b
<1>3. NoRepeat(a) /\ NoRepeat(b)
  <2>1. ASSUME NEW j \in 1 .. Len(a), NEW k \in 1 .. Len(a), a[j] = a[k] PROVE j = k
    BY <1>0, <1>1, <2>1 DEF NoRepeat
  <2>2. ASSUME NEW j \in 1 .. Len(b), NEW k \in 1 .. Len(b), b[j] = b[k] PROVE j = k
    <3>1. i + j \in 1 .. Len(s) /\ i + k \in 1 .. Len(s) /\ s[i + j] = s[i + k]
      BY <1>0, <1>2, <2>2
    <3>2. i + j = i + k
      BY <3>1 DEF NoRepeat
    <3> QED BY <1>0, <3>2
  <2> QED BY <2>1, <2>2 DEF NoRepeat
<1>4. ASSUME NEW j \in 1 .. Len(s) 
      PROVE  \/ j = i
             \/ j \in 1 .. Len(a) /\ s[j] = a[j]
             \/ j - i \in 1 .. Len(b) /\ s[j] = b[j - i]
    BY <1>0, <1>1, <1>2
<1>5. ASSUME NEW j \in 1 .. Len(a) PROVE j \in 1 .. Len(s) /\ j # i /\ a[j] = s[j]
    BY <1>0, <1>1
<1>6. ASSUME NEW j \in 1 .. Len(b) PROVE i + j \in 1 .. Len(s) /\ i + j # i /\ b[j] = s[i + j]
    BY <1>0, <1>2
<1>7. Elems(a) \cap Elems(b) = {}
  <2> SUFFICES ASSUME NEW j \in 1 .. Len(a), NEW k \in 1 .. Len(b), a[j] = b[k] PROVE FALSE
    BY DEF Elems
  <2>1. j = i + k
    BY <1>5, <1>6 DEF NoRepeat
  <2> QED BY <1>0, <1>1, <2>1
<1>8. Elems(a) \cup Elems(b) = Elems(s) \ {s[i]}
  <2>1. ASSUME NEW j \in 1 .. Len(s), s[j] # s[i] PROVE s[j] \in Elems(a) \cup Elems(b)
    BY <1>4, <2>1 DEF Elems
  <2>2. ASSUME NEW j \in 1 .. Len(a) PROVE a[j] \in Elems(s) \ {s[i]}
    BY <1>5 DEF Elems, NoRepeat
  <2>3. ASSUME NEW j \in 1 .. Len(b) PROVE b[j] \in Elems(s) \ {s[i]}
    BY <1>6 DEF Elems, NoRepeat
  <2> QED BY <2>1, <2>2, <2>3, Zenon DEF Elems
<1>9. a \o b \in Seq(set) /\ NoRepeat(a \o b) /\ Elems(a \o b) = Elems(a) \cup Elems(b)
    BY <1>1, <1>2, <1>3, <1>7, Joined
<1> QED BY <1>8, <1>9 DEF a, b

(* The matrix of an undirected graph, and two of its nodes. *)
Graph ==
    /\ MaxNode \in Nat
    /\ cost_matrix \in [E!Nodes -> [E!Nodes -> Nat]]
    /\ \A n, m \in E!Nodes : cost_matrix[n][m] = cost_matrix[m][n]
    /\ \A n \in E!Nodes : cost_matrix[n][n] = 0
    /\ from \in E!Nodes /\ to \in E!Nodes

(* What the cost of a walk up to its k-th node is. *)
Costed(p, n, f) ==
    f = [k \in 1 .. n |-> IF k = 1 THEN 0 ELSE f[k - 1] + cost_matrix[p[k - 1]][p[k]]]

LEMMA CostsExist == \A p : \A n \in Nat : \E f : Costed(p, n, f)
<1> TAKE p
<1> DEFINE X == {n \in Nat : \E f : Costed(p, n, f)}
           c(k) == cost_matrix[p[k - 1]][p[k]]
<1>1. 0 \in X
  <2> DEFINE g == [k \in 1 .. 0 |-> 0]
  <2>1. \A k \in 1 .. 0 : FALSE
    OBVIOUS
  <2>2. Costed(p, 0, g)
    BY <2>1 DEF Costed
  <2> HIDE DEF g
  <2> QED BY <2>2
<1>2. ASSUME NEW n \in Nat, n \in X PROVE n + 1 \in X
  <2>1. PICK f : Costed(p, n, f)
    BY <1>2
  <2> DEFINE g == [k \in 1 .. n + 1 |-> IF k <= n THEN f[k]
                                        ELSE IF k = 1 THEN 0 ELSE f[n] + c(k)]
  <2>2. ASSUME NEW k \in 1 .. n + 1
        PROVE  g[k] = IF k = 1 THEN 0 ELSE g[k - 1] + c(k)
    <3> HIDE DEF c
    <3>1. CASE k \in 1 .. n /\ k # 1
      <4>1. f[k] = f[k - 1] + c(k)
        BY <2>1, <3>1 DEF Costed, c
      <4>2. g[k] = f[k] /\ g[k - 1] = f[k - 1]
        BY <3>1
      <4> QED BY <3>1, <4>1, <4>2
    <3>2. CASE k \in 1 .. n /\ k = 1
      <4>1. f[k] = 0
        BY <2>1, <3>2 DEF Costed
      <4> QED BY <3>2, <4>1
    <3>3. CASE k = n + 1 /\ k = 1
      BY <3>3
    <3>4. CASE k = n + 1 /\ k # 1
      <4>1. g[k] = f[n] + c(k) /\ g[k - 1] = f[n]
        BY <3>4
      <4> QED BY <3>4, <4>1
    <3> QED BY <3>1, <3>2, <3>3, <3>4
  <2>3. Costed(p, n + 1, g)
    BY <2>2 DEF Costed
  <2> HIDE DEF g
  <2> QED BY <2>3
<1> HIDE DEF X
<1>3. \A n \in Nat : n \in X
    BY <1>1, <1>2, Induct
<1> QED BY <1>3 DEF X

LEMMA CostIs ==
    ASSUME Graph, NEW p \in Seq(E!Nodes)
    PROVE  \A k \in 1 .. Len(p) :
              /\ E!CostTo(p)[k] = IF k = 1 THEN 0
                                  ELSE E!CostTo(p)[k - 1] + cost_matrix[p[k - 1]][p[k]]
              /\ E!CostTo(p)[k] \in Nat
<1> DEFINE f == E!CostTo(p)
           c(k) == cost_matrix[p[k - 1]][p[k]]
<1>1. f = CHOOSE g : Costed(p, Len(p), g)
    BY DEF E!CostTo, Costed
<1>2. Len(p) \in Nat
    OBVIOUS
<1>3. Costed(p, Len(p), f)
    BY <1>1, <1>2, CostsExist
<1> HIDE DEF f
<1>4. \A k \in 1 .. Len(p) : f[k] = IF k = 1 THEN 0 ELSE f[k - 1] + c(k)
    BY <1>3 DEF Costed
<1>5. ASSUME NEW k \in 1 .. Len(p), k # 1 PROVE c(k) \in Nat
  <2>1. k - 1 \in 1 .. Len(p)
    BY <1>2, <1>5
  <2>2. p[k - 1] \in E!Nodes /\ p[k] \in E!Nodes
    BY <2>1
  <2> QED BY <2>2 DEF Graph
<1> HIDE DEF c
<1> DEFINE X == {n \in Nat : n + 1 \in 1 .. Len(p) => f[n + 1] \in Nat}
<1>6. 0 \in X
    BY <1>4
<1>7. ASSUME NEW n \in Nat, n \in X PROVE n + 1 \in X
  <2> SUFFICES ASSUME (n + 1) + 1 \in 1 .. Len(p) PROVE f[(n + 1) + 1] \in Nat
    OBVIOUS
  <2> DEFINE k == (n + 1) + 1
  <2>1. k \in 1 .. Len(p) /\ k # 1 /\ k - 1 = n + 1 /\ n + 1 \in 1 .. Len(p)
    BY <1>2
  <2>2. f[k] = f[n + 1] + c(k)
    BY <1>4, <2>1
  <2>3. f[n + 1] \in Nat /\ c(k) \in Nat
    BY <1>5, <1>7, <2>1
  <2> QED BY <2>2, <2>3
<1> HIDE DEF X
<1>8. \A n \in Nat : n \in X
    BY <1>6, <1>7, Induct
<1>9. ASSUME NEW k \in 1 .. Len(p) PROVE f[k] \in Nat
  <2>1. k - 1 \in Nat /\ (k - 1) + 1 = k
    OBVIOUS
  <2>2. k - 1 \in X
    BY <1>8, <2>1
  <2> QED BY <2>1, <2>2 DEF X
<1> QED BY <1>4, <1>9 DEF f, c

(* One more node adds the cost of one edge. *)
LEMMA CostAppended ==
    ASSUME Graph, NEW p \in Seq(E!Nodes), p # <<>>, NEW x \in E!Nodes
    PROVE  E!Cost(Append(p, x)) = E!Cost(p) + cost_matrix[p[Len(p)]][x]
<1> DEFINE q == Append(p, x)
           f == E!CostTo(p)
           g == E!CostTo(q)
           l == Len(p)
<1>1. /\ q \in Seq(E!Nodes) /\ l \in Nat /\ l >= 1 /\ Len(q) = l + 1
      /\ \A k \in 1 .. l : q[k] = p[k]
      /\ q[l + 1] = x
    OBVIOUS
<1>2. \A k \in 1 .. l : f[k] = IF k = 1 THEN 0 ELSE f[k - 1] + cost_matrix[p[k - 1]][p[k]]
    BY CostIs
<1>3. \A k \in 1 .. l + 1 : g[k] = IF k = 1 THEN 0 ELSE g[k - 1] + cost_matrix[q[k - 1]][q[k]]
    BY <1>1, CostIs
<1>4. E!Cost(q) = g[l + 1] /\ E!Cost(p) = f[l]
    BY <1>1 DEF E!Cost
<1> HIDE DEF f, g, q, l
<1> DEFINE X == {n \in Nat : n + 1 \in 1 .. l => g[n + 1] = f[n + 1]}
<1>5. 0 \in X
  <2>1. 1 \in 1 .. l /\ 1 \in 1 .. l + 1 /\ 0 + 1 = 1
    BY <1>1
  <2> QED BY <1>2, <1>3, <2>1
<1>6. ASSUME NEW n \in Nat, n \in X PROVE n + 1 \in X
  <2> SUFFICES ASSUME (n + 1) + 1 \in 1 .. l PROVE g[(n + 1) + 1] = f[(n + 1) + 1]
    OBVIOUS
  <2> DEFINE k == (n + 1) + 1
  <2>1. k \in 1 .. l /\ k \in 1 .. l + 1 /\ k # 1 /\ k - 1 = n + 1 /\ n + 1 \in 1 .. l
    BY <1>1
  <2> HIDE DEF k
  <2>2. g[n + 1] = f[n + 1]
    BY <1>6, <2>1
  <2>3. q[k] = p[k] /\ q[k - 1] = p[k - 1]
    BY <1>1, <2>1
  <2>4. f[k] = f[k - 1] + cost_matrix[p[k - 1]][p[k]]
    BY <1>2, <2>1
  <2>5. g[k] = g[k - 1] + cost_matrix[q[k - 1]][q[k]]
    BY <1>3, <2>1
  <2> QED BY <2>1, <2>2, <2>3, <2>4, <2>5 DEF k
<1> HIDE DEF X
<1>7. \A n \in Nat : n \in X
    BY <1>5, <1>6, Induct
<1>8. g[l] = f[l]
  <2>1. l - 1 \in Nat /\ (l - 1) + 1 = l /\ l \in 1 .. l
    BY <1>1
  <2>2. l - 1 \in X
    BY <1>7, <2>1
  <2> QED BY <2>1, <2>2 DEF X
<1>9. g[l + 1] = g[l] + cost_matrix[p[l]][x]
  <2>1. l + 1 \in 1 .. l + 1 /\ l + 1 # 1 /\ (l + 1) - 1 = l /\ l \in 1 .. l
    BY <1>1
  <2> QED BY <1>1, <1>3, <2>1
<1> QED BY <1>4, <1>8, <1>9 DEF q, l

(* Labels that grow by at most the cost along each edge undercut each walk. *)
LEMMA NoWalkUndercuts ==
    ASSUME Graph, NEW p \in Seq(E!Nodes), p # <<>>, NEW f \in [E!Nodes -> Nat], f[p[1]] = 0,
           \A i \in 1 .. Len(p) - 1 : p[i + 1] \in E!peers(p[i]),
           \A n \in E!Nodes : \A m \in E!peers(n) : f[m] <= f[n] + cost_matrix[n][m]
    PROVE  f[p[Len(p)]] <= E!Cost(p)
<1> DEFINE l == Len(p)
           g == E!CostTo(p)
           X == {n \in Nat : n + 1 \in 1 .. l => f[p[n + 1]] <= g[n + 1]}
<1>1. l \in Nat /\ l >= 1 /\ \A k \in 1 .. l : p[k] \in E!Nodes /\ f[p[k]] \in Nat
    OBVIOUS
<1>2. \A k \in 1 .. l : /\ g[k] = IF k = 1 THEN 0 ELSE g[k - 1] + cost_matrix[p[k - 1]][p[k]]
                        /\ g[k] \in Nat
    BY CostIs
<1> HIDE DEF g
<1>3. 0 \in X
  <2>1. 1 \in 1 .. l /\ 0 + 1 = 1
    BY <1>1
  <2> QED BY <1>2, <2>1
<1>4. ASSUME NEW n \in Nat, n \in X PROVE n + 1 \in X
  <2> SUFFICES ASSUME (n + 1) + 1 \in 1 .. l PROVE f[p[(n + 1) + 1]] <= g[(n + 1) + 1]
    OBVIOUS
  <2> DEFINE k == n + 1
  <2>1. k \in 1 .. l /\ k + 1 \in 1 .. l /\ k + 1 # 1 /\ (k + 1) - 1 = k /\ k \in 1 .. l - 1
    BY <1>1
  <2> HIDE DEF k
  <2>2. f[p[k]] <= g[k]
    BY <1>4, <2>1 DEF k
  <2>3. p[k + 1] \in E!peers(p[k]) /\ p[k] \in E!Nodes /\ p[k + 1] \in E!Nodes
    BY <1>1, <2>1
  <2>4. f[p[k + 1]] <= f[p[k]] + cost_matrix[p[k]][p[k + 1]]
    BY <2>3
  <2>5. g[k + 1] = g[k] + cost_matrix[p[k]][p[k + 1]]
    BY <1>2, <2>1
  <2>6. cost_matrix[p[k]][p[k + 1]] \in Nat
    BY <2>3 DEF Graph
  <2>7. f[p[k + 1]] \in Nat /\ f[p[k]] \in Nat /\ g[k] \in Nat
    BY <1>1, <1>2, <2>1
  <2>8. f[p[k + 1]] <= g[k + 1]
    BY <2>2, <2>4, <2>5, <2>6, <2>7
  <2> QED BY <2>8 DEF k
<1> HIDE DEF X
<1>5. \A n \in Nat : n \in X
    BY <1>3, <1>4, Induct
<1>6. l - 1 \in Nat /\ (l - 1) + 1 = l /\ l \in 1 .. l
    BY <1>1
<1>7. l - 1 \in X
    BY <1>5, <1>6
<1>8. f[p[l]] <= g[l]
    BY <1>6, <1>7 DEF X
<1> QED BY <1>8 DEF E!Cost, g

(* While nodes are visited: the candidates are the nodes that have a label   *)
(* and were not visited; a label exceeds that of a visited peer by at most   *)
(* the cost of their edge, and that of one of them by just this; what was    *)
(* visited has no larger label than what was not.                            *)
Labelled(n) == n \in E!Nodes /\ temp_label[n] # 0

ListInv ==
    /\ visited \in SUBSET E!Nodes /\ from \in visited
    /\ curr_order_id = Cardinality(visited)
    /\ data_list \in Seq(E!Nodes) /\ NoRepeat(data_list)
    /\ \A n : n \in Elems(data_list) <=> Labelled(n) /\ n \notin visited

LabelsInv ==
    /\ temp_label \in [E!Nodes -> Nat] /\ final_label \in [E!Nodes -> Nat]
    /\ temp_label[from] = 0
    /\ \A n \in visited : final_label[n] = temp_label[n] /\ (n # from => Labelled(n))
    /\ \A n \in visited : \A m \in E!peers(n) :
          /\ temp_label[m] <= temp_label[n] + cost_matrix[n][m]
          /\ m \notin visited => Labelled(m)
    /\ \A m : Labelled(m) =>
          \E n \in visited : /\ m \in E!peers(n)
                             /\ temp_label[m] = temp_label[n] + cost_matrix[n][m]
    /\ \A n \in visited : \A m : Labelled(m) /\ m \notin visited => temp_label[n] <= temp_label[m]

(* The first labels are the costs of the edges of the start. *)
LEMMA LabelsStart ==
    ASSUME Graph, E!StartLabels, start = from, curr_order_id = 1,
           final_label = [n \in E!Nodes |-> 0]
    PROVE  ListInv' /\ LabelsInv'
<1>1. /\ visited' = {from} /\ curr_order_id' = 1
      /\ temp_label' = [n \in E!Nodes |-> cost_matrix[from][n]]
      /\ final_label' = [n \in E!Nodes |-> 0]
      /\ data_list' = E!insert_into_dijks_list(<<>>, E!peers(from))
      /\ UNCHANGED <<cost_matrix, from>>
    BY DEF E!StartLabels, E!input
<1>2. /\ \A n, m \in E!Nodes : cost_matrix[n][m] \in Nat
      /\ from \in E!Nodes /\ cost_matrix[from][from] = 0
    BY DEF Graph
<1>3. E!peers(from) = {n \in E!Nodes : cost_matrix[from][n] # 0}
    BY DEF E!peers
<1>4. E!peers(from)' = E!peers(from)
    BY <1>1 DEF E!peers, E!Nodes
<1>5. ListInv'
  <2>1. /\ data_list' \in Seq(E!Nodes) /\ NoRepeat(data_list')
        /\ Elems(data_list') = E!peers(from)
    <3>1. <<>> \in Seq(E!Nodes) /\ NoRepeat(<<>>) /\ Elems(<<>>) = {}
      BY NoElems
    <3>2. E!peers(from) \in SUBSET E!Nodes /\ MaxNode \in Nat
      BY <1>3 DEF Graph
    <3> QED BY <1>1, <3>1, <3>2, Inserted
  <2>2. Cardinality({from}) = 1
    BY FS_Singleton
  <2>3. \A n : n \in Elems(data_list') <=>
                  (n \in E!Nodes /\ temp_label'[n] # 0) /\ n \notin visited'
    BY <1>1, <1>2, <1>3, <2>1
  <2> QED BY <1>1, <1>2, <2>1, <2>2, <2>3 DEF ListInv, Labelled, E!Nodes
<1>6. LabelsInv'
  <2>1. /\ \A n : Labelled(n)' <=> n \in E!peers(from)
        /\ \A n \in E!Nodes : temp_label'[n] = cost_matrix[from][n]
        /\ temp_label'[from] = 0 /\ final_label'[from] = 0
        /\ visited' = {from} /\ cost_matrix' = cost_matrix /\ from' = from
        /\ temp_label' \in [E!Nodes -> Nat] /\ final_label' \in [E!Nodes -> Nat]
    <3>1. temp_label' \in [E!Nodes -> Nat]
      BY <1>1, <1>2
    <3> QED BY <1>1, <1>2, <1>3, <3>1 DEF Labelled, E!Nodes
  <2>2. \A n \in E!peers(from) : n \in E!Nodes /\ cost_matrix[from][n] \in Nat
    BY <1>2, <1>3
  <2>3. E!peers(from)' = E!peers(from)
    BY <1>4
  <2> HIDE DEF Labelled
  <2>4. \A m \in E!peers(from) : /\ temp_label'[m] = 0 + cost_matrix[from][m]
                                 /\ temp_label'[m] \in Nat
    BY <2>1, <2>2
  <2>5. \A n \in visited' : n = from
    BY <2>1
  <2>6. \A n \in visited' : E!peers(n)' = E!peers(from)
    BY <1>1, <2>1 DEF E!peers, E!Nodes
  <2>7. \A n \in visited' : \A m \in E!peers(n)' :
          /\ temp_label'[m] <= temp_label'[n] + cost_matrix'[n][m]
          /\ m \notin visited' => Labelled(m)'
    BY <2>1, <2>4, <2>5, <2>6
  <2>8. \A m : Labelled(m)' =>
          \E n \in visited' : /\ m \in E!peers(n)'
                              /\ temp_label'[m] = temp_label'[n] + cost_matrix'[n][m]
    BY <2>1, <2>3, <2>4
  <2>9. \A n \in visited' : \A m : Labelled(m)' => temp_label'[n] <= temp_label'[m]
    BY <2>1, <2>4, <2>5
  <2> QED BY <2>1, <2>5, <2>7, <2>8, <2>9 DEF LabelsInv, E!Nodes
<1> QED BY <1>5, <1>6

(* A turn of the loop visits a candidate n with the smallest label. *)
LEMMA VisitDoes ==
    ASSUME Graph, ListInv, LabelsInv, E!Visit
    PROVE  \E n \in E!Nodes \ visited :
              LET fresh == E!peers(n) \ (visited \cup {n})
              IN  /\ Labelled(n)
                  /\ \A m : Labelled(m) /\ m \notin visited => temp_label[n] <= temp_label[m]
                  /\ visited' = visited \cup {n}
                  /\ curr_order_id' = curr_order_id + 1
                  /\ final_label' = [final_label EXCEPT ![n] = temp_label[n]]
                  /\ temp_label' = [m \in E!Nodes |-> IF m \in fresh THEN E!Relaxed(n, m)
                                                                   ELSE temp_label[m]]
                  /\ data_list' \in Seq(E!Nodes) /\ NoRepeat(data_list')
                  /\ Elems(data_list') = (Elems(data_list) \ {n}) \cup fresh
                  /\ UNCHANGED <<cost_matrix, from, to, start, epc, path, total_cost>>
<1> DEFINE i == E!pop_from_dijks_list
           n == data_list[i]
           fresh == E!peers(n) \ (visited \cup {n})
           rest == SubSeq(data_list, 1, i - 1) \o SubSeq(data_list, i + 1, Len(data_list))
<1>1. /\ data_list # <<>>
      /\ visited' = visited \cup {n}
      /\ curr_order_id' = curr_order_id + 1
      /\ final_label' = [final_label EXCEPT ![n] = temp_label[n]]
      /\ temp_label' = [m \in E!Nodes |-> IF m \in fresh THEN E!Relaxed(n, m)
                                                       ELSE temp_label[m]]
      /\ data_list' = E!insert_into_dijks_list(rest, fresh)
      /\ UNCHANGED <<cost_matrix, from, to, start, epc, path, total_cost>>
    BY DEF E!Visit, E!input
<1>2. /\ i \in 1 .. Len(data_list)
      /\ \A j \in 1 .. Len(data_list) : temp_label[data_list[i]] <= temp_label[data_list[j]]
    BY <1>1, Popped DEF ListInv, LabelsInv
<1>3. n \in Elems(data_list) /\ \A m \in Elems(data_list) : temp_label[n] <= temp_label[m]
    BY <1>2 DEF Elems
<1>4. /\ n \in E!Nodes \ visited /\ Labelled(n)
      /\ \A m : Labelled(m) /\ m \notin visited => temp_label[n] <= temp_label[m]
    BY <1>3, Zenon DEF ListInv, Labelled
<1>5. rest \in Seq(E!Nodes) /\ NoRepeat(rest) /\ Elems(rest) = Elems(data_list) \ {n}
    BY <1>2, Removed DEF ListInv
<1>6. fresh \in SUBSET E!Nodes /\ MaxNode \in Nat
    BY DEF E!peers, Graph
<1> HIDE DEF i, n, fresh, rest
<1>7. /\ data_list' \in Seq(E!Nodes) /\ NoRepeat(data_list')
      /\ Elems(data_list') = Elems(rest) \cup fresh
    BY <1>1, <1>5, <1>6, Inserted
<1> QED BY <1>1, <1>4, <1>5, <1>7, Zenon DEF fresh

LEMMA VisitKeeps ==
    ASSUME Graph, ListInv, LabelsInv, E!Visit
    PROVE  ListInv' /\ LabelsInv'
<1>1. PICK n \in E!Nodes \ visited :
              LET fresh == E!peers(n) \ (visited \cup {n})
              IN  /\ Labelled(n)
                  /\ \A m : Labelled(m) /\ m \notin visited => temp_label[n] <= temp_label[m]
                  /\ visited' = visited \cup {n}
                  /\ curr_order_id' = curr_order_id + 1
                  /\ final_label' = [final_label EXCEPT ![n] = temp_label[n]]
                  /\ temp_label' = [m \in E!Nodes |-> IF m \in fresh THEN E!Relaxed(n, m)
                                                                   ELSE temp_label[m]]
                  /\ data_list' \in Seq(E!Nodes) /\ NoRepeat(data_list')
                  /\ Elems(data_list') = (Elems(data_list) \ {n}) \cup fresh
                  /\ UNCHANGED <<cost_matrix, from, to, start, epc, path, total_cost>>
    BY VisitDoes
<1> DEFINE fresh == E!peers(n) \ (visited \cup {n})
           sum(m) == temp_label[n] + cost_matrix[n][m]
<1>2. /\ visited' = visited \cup {n} /\ visited \in SUBSET E!Nodes
      /\ n \in E!Nodes /\ n \notin visited /\ from \in visited /\ from' = from
      /\ cost_matrix' = cost_matrix /\ temp_label \in [E!Nodes -> Nat]
      /\ temp_label[from] = 0 /\ final_label \in [E!Nodes -> Nat]
    BY <1>1 DEF ListInv, LabelsInv
<1>3. \A k, m \in E!Nodes : cost_matrix[k][m] \in Nat /\ temp_label[m] \in Nat
    BY <1>2 DEF Graph
<1>4. /\ \A k : E!peers(k)' = E!peers(k)
      /\ \A k, m : m \in E!peers(k) => m \in E!Nodes
      /\ \A k \in E!Nodes : \A m \in E!peers(k) : cost_matrix[k][m] >= 1
    BY <1>2, <1>3 DEF E!peers, E!Nodes
<1>5. \A m : m \in fresh <=> m \in E!peers(n) /\ m \notin visited /\ m # n
    OBVIOUS
<1>6. /\ \A m \in E!Nodes \ fresh : temp_label'[m] = temp_label[m]
      /\ \A m \in fresh :
            /\ m \in E!Nodes /\ temp_label'[m] \in Nat /\ temp_label'[m] # 0
            /\ sum(m) \in Nat /\ sum(m) > temp_label[n]
            /\ temp_label'[m] <= sum(m)
            /\ \/ temp_label'[m] = sum(m)
               \/ temp_label'[m] = temp_label[m]
            /\ temp_label[m] # 0 => temp_label'[m] <= temp_label[m]
  <2>1. \A m \in E!Nodes \ fresh : temp_label'[m] = temp_label[m]
    BY <1>1
  <2>2. \A m \in fresh : m \in E!Nodes /\ temp_label'[m] = E!Relaxed(n, m)
    BY <1>1, <1>4
  <2>3. \A m \in fresh : sum(m) \in Nat /\ sum(m) > temp_label[n] /\ temp_label[m] \in Nat
    BY <1>2, <1>3, <1>4, <1>5, <2>2
  <2>4. \A m \in fresh : temp_label'[m] = IF temp_label[m] = 0 \/ sum(m) < temp_label[m]
                                          THEN sum(m) ELSE temp_label[m]
    BY <2>2 DEF E!Relaxed
  <2>5. temp_label[n] \in Nat
    BY <1>2
  <2> HIDE DEF fresh, sum
  <2> QED BY <2>1, <2>2, <2>3, <2>4, <2>5
<1>7. temp_label' \in [E!Nodes -> Nat] /\ final_label' \in [E!Nodes -> Nat]
  <2>1. \A m \in E!Nodes : temp_label'[m] \in Nat
    BY <1>3, <1>6
  <2>2. temp_label' = [m \in E!Nodes |-> temp_label'[m]]
    BY <1>1
  <2> QED BY <1>1, <1>2, <2>1, <2>2
<1>8. /\ \A m \in fresh : Labelled(m)'
      /\ \A m : m \notin fresh => (Labelled(m)' <=> Labelled(m))
      /\ \A m : Labelled(m) => Labelled(m)'
  <2>1. \A m : Labelled(m)' <=> m \in E!Nodes /\ temp_label'[m] # 0
    BY DEF Labelled, E!Nodes
  <2> HIDE DEF fresh
  <2> QED BY <1>6, <2>1 DEF Labelled
<1>9. Labelled(n) /\ \A m : Labelled(m) /\ m \notin visited => temp_label[n] <= temp_label[m]
    BY <1>1
<1>10. ListInv'
  <2>1. curr_order_id' = Cardinality(visited')
    <3>1. IsFiniteSet(E!Nodes)
      BY FS_Interval DEF Graph, E!Nodes
    <3>2. IsFiniteSet(visited)
      BY <1>2, <3>1, FS_Subset
    <3>3. Cardinality(visited \cup {n}) = Cardinality(visited) + 1
      BY <1>2, <3>2, FS_AddElement
    <3> QED BY <1>1, <3>3 DEF ListInv
  <2>2. \A m : m \in Elems(data_list') <=> Labelled(m)' /\ m \notin visited'
    <3>1. \A m : m \in Elems(data_list') <=> (Labelled(m) /\ m \notin visited /\ m # n) \/ m \in fresh
      BY <1>1 DEF ListInv
    <3> HIDE DEF fresh
    <3> QED BY <1>2, <1>5, <1>8, <3>1
  <2>3. visited' \in SUBSET E!Nodes /\ from \in visited'
    BY <1>2
  <2> QED BY <1>1, <1>2, <2>1, <2>2, <2>3 DEF ListInv, E!Nodes
<1> HIDE DEF fresh, sum
<1>11. \A k \in visited : k \notin fresh /\ k \in E!Nodes /\ temp_label'[k] = temp_label[k]
    BY <1>2, <1>5, <1>6
<1>12. n \notin fresh /\ temp_label'[n] = temp_label[n]
    BY <1>2, <1>5, <1>6
<1>13. LabelsInv'
  <2>1. \A k \in visited' : final_label'[k] = temp_label'[k] /\ (k # from => Labelled(k)')
    <3>1. final_label'[n] = temp_label[n] /\ \A k \in E!Nodes \ {n} : final_label'[k] = final_label[k]
      BY <1>1, <1>2
    <3> QED BY <1>2, <1>8, <1>9, <1>11, <1>12, <3>1 DEF LabelsInv
  <2>2. ASSUME NEW k \in visited', NEW m \in E!peers(k)
        PROVE  /\ temp_label'[m] <= temp_label'[k] + cost_matrix[k][m]
               /\ m \notin visited' => Labelled(m)'
    <3>0. k \in E!Nodes /\ m \in E!Nodes /\ cost_matrix[k][m] \in Nat
      BY <1>2, <1>3, <1>4
    <3>1. CASE k \in visited
      <4>1. /\ temp_label[m] <= temp_label[k] + cost_matrix[k][m]
            /\ m \notin visited => Labelled(m)
        BY <3>1 DEF LabelsInv
      <4>2. m \in fresh => temp_label'[m] <= temp_label[m] /\ temp_label'[m] \in Nat
        BY <1>5, <1>6, <4>1 DEF Labelled
      <4>3. temp_label'[k] = temp_label[k] /\ temp_label[k] \in Nat /\ temp_label[m] \in Nat
        BY <1>3, <1>11, <3>0, <3>1
      <4>4. m \notin fresh => temp_label'[m] = temp_label[m]
        BY <1>6, <3>0
      <4>5. temp_label'[m] <= temp_label'[k] + cost_matrix[k][m]
        BY <3>0, <4>1, <4>2, <4>3, <4>4
      <4>6. m \notin visited' => Labelled(m)'
        BY <1>2, <1>8, <4>1
      <4> QED BY <4>5, <4>6
    <3>2. CASE k = n /\ m \in fresh
      BY <1>6, <1>8, <1>12, <3>2 DEF sum
    <3>3. CASE k = n /\ m \in visited
      <4>1. temp_label[m] <= temp_label[n]
        BY <1>2, <1>9, <3>3 DEF LabelsInv
      <4>2. temp_label'[m] = temp_label[m] /\ temp_label'[k] = temp_label[n]
        BY <1>11, <1>12, <3>3
      <4>3. temp_label[m] \in Nat /\ temp_label[n] \in Nat /\ m \in visited'
        BY <1>2, <1>3, <3>0, <3>3
      <4> QED BY <3>0, <4>1, <4>2, <4>3
    <3>4. ~(k = n /\ m = n)
      BY <1>2 DEF Graph, E!peers
    <3> QED BY <1>2, <1>5, <3>1, <3>2, <3>3, <3>4
  <2>3. ASSUME NEW m, Labelled(m)'
        PROVE  \E k \in visited' : /\ m \in E!peers(k)
                                   /\ temp_label'[m] = temp_label'[k] + cost_matrix[k][m]
    <3>1. CASE m \in fresh /\ temp_label'[m] = sum(m)
      <4>1. n \in visited' /\ m \in E!peers(n)
        BY <1>2, <1>5, <3>1
      <4> QED BY <1>12, <3>1, <4>1 DEF sum
    <3>2. CASE temp_label'[m] = temp_label[m] /\ m \in E!Nodes
      <4>1. Labelled(m)
        BY <2>3, <3>2 DEF Labelled, E!Nodes
      <4>2. PICK k \in visited : /\ m \in E!peers(k)
                                 /\ temp_label[m] = temp_label[k] + cost_matrix[k][m]
        BY <4>1 DEF LabelsInv
      <4>3. k \in visited' /\ temp_label'[k] = temp_label[k]
        BY <1>2, <1>11
      <4> QED BY <3>2, <4>2, <4>3
    <3>3. m \in E!Nodes
      BY <2>3 DEF Labelled, E!Nodes
    <3> QED BY <1>6, <3>1, <3>2, <3>3
  <2>4. ASSUME NEW k \in visited', NEW m, Labelled(m)', m \notin visited'
        PROVE  temp_label'[k] <= temp_label'[m]
    <3>1. m \notin visited /\ m # n /\ m \in E!Nodes
      BY <1>2, <2>4 DEF Labelled, E!Nodes
    <3>2. k \in E!Nodes /\ temp_label'[k] = temp_label[k] /\ temp_label[k] \in Nat
      BY <1>2, <1>3, <1>11, <1>12
    <3>3. temp_label[k] <= temp_label[n]
      BY <1>2, <1>3, <1>9 DEF LabelsInv
    <3>4. temp_label[n] <= temp_label'[m]
      <4>1. CASE temp_label'[m] = temp_label[m]
        <5>1. Labelled(m)
          BY <2>4, <4>1 DEF Labelled, E!Nodes
        <5> QED BY <1>9, <3>1, <4>1, <5>1
      <4>2. CASE m \in fresh /\ temp_label'[m] = sum(m)
        BY <1>2, <1>3, <1>6, <4>2
      <4> QED BY <1>6, <3>1, <4>1, <4>2
    <3>5. temp_label[n] \in Nat /\ temp_label'[m] \in Nat
      BY <1>2, <1>3, <1>7, <3>1
    <3> QED BY <3>2, <3>3, <3>4, <3>5
  <2>5. temp_label'[from] = 0
    BY <1>2, <1>11
  <2> QED BY <1>2, <1>4, <1>7, <2>1, <2>2, <2>3, <2>4, <2>5 DEF LabelsInv, E!Nodes
<1> QED BY <1>10, <1>13

(* Where a graph is connected, a set of nodes with the start and without     *)
(* some node has an edge that leaves it.                                     *)
LEMMA EdgeLeaves ==
    ASSUME Graph, E!Connected, NEW set, from \in set, NEW u \in E!Nodes \ set
    PROVE  \E n \in set : n \in E!Nodes /\ \E m \in E!peers(n) : m \notin set
<1>1. E!Walks(from, u) # {}
    BY DEF E!Connected
<1>2. PICK l \in 2 .. E!node_count : \E p \in [1 .. l -> E!Nodes] :
          /\ p[1] = from /\ p[Len(p)] = u
          /\ \A i \in 1 .. Len(p) - 1 : p[i + 1] \in E!peers(p[i])
    BY <1>1 DEF E!Walks
<1>3. PICK p \in [1 .. l -> E!Nodes] :
          /\ p[1] = from /\ p[Len(p)] = u
          /\ \A i \in 1 .. Len(p) - 1 : p[i + 1] \in E!peers(p[i])
    BY <1>2
<1>4. Len(p) = l /\ l \in Nat /\ l >= 1
    BY DEF E!node_count, Graph
<1> SUFFICES ASSUME \A n \in set : n \in E!Nodes => \A m \in E!peers(n) : m \in set
             PROVE  FALSE
    OBVIOUS
<1> DEFINE X == {i \in Nat : i + 1 \in 1 .. l => p[i + 1] \in set}
<1>5. 0 \in X
    BY <1>3
<1>6. ASSUME NEW i \in Nat, i \in X PROVE i + 1 \in X
  <2> SUFFICES ASSUME (i + 1) + 1 \in 1 .. l PROVE p[(i + 1) + 1] \in set
    OBVIOUS
  <2>1. i + 1 \in 1 .. l /\ i + 1 \in 1 .. l - 1
    BY <1>4
  <2>2. p[i + 1] \in set /\ p[i + 1] \in E!Nodes
    BY <1>6, <2>1
  <2>3. p[(i + 1) + 1] \in E!peers(p[i + 1])
    BY <1>3, <1>4, <2>1
  <2> QED BY <2>2, <2>3
<1> HIDE DEF X
<1>7. \A i \in Nat : i \in X
    BY <1>5, <1>6, Induct
<1>8. l - 1 \in Nat /\ (l - 1) + 1 = l /\ l \in 1 .. l
    BY <1>4
<1>9. l - 1 \in X
    BY <1>7, <1>8
<1>10. p[l] \in set
    BY <1>8, <1>9 DEF X
<1> QED BY <1>3, <1>4, <1>10

(* Then build_graph takes the row of src, the search does not run out of     *)
(* candidates, and when it ends every node was visited.                      *)
LEMMA StartFound ==
    ASSUME Graph, E!Connected, from # to, E!build_graph
    PROVE  start' = from /\ epc' = "start"
<1>1. E!peers(from) # {}
  <2> DEFINE set == {from}
  <2>1. from \in set /\ to \in E!Nodes \ set
    BY DEF Graph
  <2>2. \E n \in set : n \in E!Nodes /\ \E m \in E!peers(n) : m \notin set
    BY <2>1, EdgeLeaves, Zenon
  <2> QED BY <2>2
<1> DEFINE full == {n \in 0 .. from : E!peers(n) # {}}
<1>2. from \in full /\ \A m \in full : m <= from /\ m \in Int
    BY <1>1 DEF Graph, E!Nodes
<1>3. epc' = "start" /\ start' = CHOOSE n \in full : \A m \in full : m <= n
    BY <1>2 DEF E!build_graph
<1>4. ASSUME NEW n \in full, \A m \in full : m <= n PROVE n = from
  <2> HIDE DEF full
  <2>1. n <= from /\ from <= n /\ n \in Int /\ from \in Int
    BY <1>2, <1>4
  <2> QED BY <2>1
<1> HIDE DEF full
<1> QED BY <1>2, <1>3, <1>4

LEMMA VisitedCounted ==
    ASSUME Graph, ListInv
    PROVE  /\ curr_order_id \in Nat /\ curr_order_id <= E!node_count
           /\ curr_order_id >= E!node_count => visited = E!Nodes
<1>1. IsFiniteSet(E!Nodes) /\ Cardinality(E!Nodes) = E!node_count
  <2>1. MaxNode \in Nat
    BY DEF Graph
  <2>2. IsFiniteSet(0 .. MaxNode) /\ Cardinality(0 .. MaxNode) = MaxNode - 0 + 1
    BY <2>1, FS_Interval
  <2> QED BY <2>1, <2>2 DEF E!Nodes, E!node_count
<1>2. visited \in SUBSET E!Nodes /\ curr_order_id = Cardinality(visited)
    BY DEF ListInv
<1>3. /\ IsFiniteSet(visited) /\ Cardinality(visited) <= Cardinality(E!Nodes)
      /\ Cardinality(E!Nodes) = Cardinality(visited) => E!Nodes = visited
    BY <1>1, <1>2, FS_Subset
<1>4. Cardinality(visited) \in Nat /\ E!node_count \in Nat
    BY <1>1, <1>3, FS_CardinalityType
<1> QED BY <1>1, <1>2, <1>3, <1>4

LEMMA NeverOut ==
    ASSUME Graph, E!Connected, ListInv, LabelsInv, curr_order_id < E!node_count
    PROVE  data_list # <<>>
<1>1. visited # E!Nodes
  <2> SUFFICES ASSUME visited = E!Nodes PROVE FALSE
    OBVIOUS
  <2>1. MaxNode \in Nat /\ E!Nodes = 0 .. MaxNode
    BY DEF Graph, E!Nodes
  <2>2. Cardinality(E!Nodes) = MaxNode - 0 + 1
    BY <2>1, FS_Interval
  <2> QED BY <2>1, <2>2 DEF ListInv, E!node_count
<1>2. PICK u \in E!Nodes : u \notin visited
    BY <1>1 DEF ListInv
<1>3. PICK n \in visited : \E m \in E!peers(n) : m \notin visited
    BY <1>2, EdgeLeaves DEF ListInv
<1>4. PICK m \in Elems(data_list) : TRUE
    BY <1>3 DEF LabelsInv, ListInv
<1> QED BY <1>4, NoElems

(* The way back: along it the labels fall by the costs of the edges.         *)
TrailInv ==
    /\ path \in Seq(E!Nodes) /\ path # <<>> /\ path[1] = to
    /\ \A i \in 1 .. Len(path) - 1 : path[i + 1] \in E!peers(path[i])
    /\ \A i, j \in 1 .. Len(path) : i < j => final_label[path[j]] < final_label[path[i]]
    /\ total_cost = E!Cost(path)
    /\ total_cost + final_label[path[Len(path)]] = final_label[to]

LEMMA StepBackKeeps ==
    ASSUME Graph, ListInv, LabelsInv, visited = E!Nodes, TrailInv, start = from, E!StepBack
    PROVE  TrailInv' /\ epc' = "print"
<1> DEFINE l == Len(path)
           n == path[l]
           back == E!Back(n)
           peer == CHOOSE x \in back : \A k \in back : x <= k
<1>1. /\ l \in Nat /\ l >= 1 /\ \A i \in 1 .. l : path[i] \in E!Nodes
      /\ n \in E!Nodes /\ n # from
    BY DEF TrailInv, E!StepBack
<1>2. \A k \in E!Nodes : /\ final_label[k] = temp_label[k] /\ final_label[k] \in Nat
                         /\ \A x \in E!Nodes : cost_matrix[k][x] = cost_matrix[x][k]
                                               /\ cost_matrix[k][x] \in Nat
    BY DEF LabelsInv, Graph
<1>3. back \in SUBSET Nat /\ back # {}
  <2>1. PICK k \in visited : /\ n \in E!peers(k)
                             /\ temp_label[n] = temp_label[k] + cost_matrix[k][n]
    BY <1>1 DEF LabelsInv
  <2>2. k \in E!Nodes /\ cost_matrix[k][n] # 0
    BY <2>1 DEF E!peers
  <2>3. k \in E!peers(n) /\ final_label[k] = final_label[n] - cost_matrix[n][k]
    <3>1. cost_matrix[k][n] = cost_matrix[n][k] /\ cost_matrix[n][k] \in Nat
      BY <1>1, <1>2, <2>2
    <3>2. final_label[n] = final_label[k] + cost_matrix[n][k]
      BY <1>1, <1>2, <2>1, <2>2, <3>1
    <3>3. final_label[k] \in Nat
      BY <1>2, <2>2
    <3>4. k \in E!peers(n)
      BY <2>2, <3>1 DEF E!peers
    <3> QED BY <3>1, <3>2, <3>3, <3>4
  <2>4. back \in SUBSET Nat
    BY DEF E!Back, E!peers, E!Nodes, Graph
  <2> QED BY <2>3, <2>4 DEF E!Back
<1>4. PICK x \in back : \A k \in back : x <= k
    BY <1>3, Smallest
<1> HIDE DEF back
<1>5. peer \in back
    BY <1>4
<1> HIDE DEF peer
<1>6. /\ peer \in E!peers(n) /\ peer \in E!Nodes /\ cost_matrix[n][peer] # 0
      /\ final_label[peer] = final_label[n] - cost_matrix[n][peer]
    BY <1>5 DEF back, E!Back, E!peers
<1>7. /\ path' = Append(path, peer) /\ total_cost' = total_cost + cost_matrix[n][peer]
      /\ epc' = "print"
      /\ UNCHANGED <<cost_matrix, from, to, start, visited, temp_label, final_label>>
    BY <1>3 DEF E!StepBack, back, peer, E!input, E!labels
<1>8. /\ path' \in Seq(E!Nodes) /\ Len(path') = l + 1 /\ path' # <<>>
      /\ \A i \in 1 .. l : path'[i] = path[i]
      /\ path'[l + 1] = peer
    BY <1>1, <1>6, <1>7 DEF TrailInv
<1>9. final_label[peer] < final_label[n]
    BY <1>1, <1>2, <1>6
<1>10. path'[1] = to
    BY <1>1, <1>8 DEF TrailInv
<1>11. ASSUME NEW i \in 1 .. Len(path') - 1 PROVE path'[i + 1] \in E!peers(path'[i])
  <2>1. CASE i \in 1 .. l - 1
    <3>1. i \in 1 .. l /\ i + 1 \in 1 .. l
      BY <1>1, <2>1
    <3>2. path[i + 1] \in E!peers(path[i])
      BY <2>1 DEF TrailInv
    <3> QED BY <1>8, <3>1, <3>2
  <2>2. CASE i = l
    <3>1. l \in 1 .. l
      BY <1>1
    <3> QED BY <1>6, <1>8, <2>2, <3>1
  <2> QED BY <1>1, <1>8, <2>1, <2>2
<1>12. ASSUME NEW i \in 1 .. Len(path'), NEW j \in 1 .. Len(path'), i < j
       PROVE  final_label[path'[j]] < final_label[path'[i]]
  <2>1. CASE j \in 1 .. l
    <3>1. i \in 1 .. l
      BY <1>1, <1>12, <2>1
    <3>2. final_label[path[j]] < final_label[path[i]]
      BY <1>12, <2>1, <3>1 DEF TrailInv
    <3> QED BY <1>8, <2>1, <3>1, <3>2
  <2>2. CASE j = l + 1
    <3>1. i \in 1 .. l /\ l \in 1 .. l /\ (i < l \/ i = l)
      BY <1>1, <1>8, <1>12, <2>2
    <3>2. path[i] \in E!Nodes /\ final_label[path[i]] \in Nat
      BY <1>1, <1>2, <3>1
    <3>3. final_label[n] <= final_label[path[i]]
      <4>1. i < l => final_label[n] < final_label[path[i]]
        BY <3>1 DEF TrailInv
      <4>2. final_label[n] \in Nat
        BY <1>1, <1>2
      <4> QED BY <3>1, <3>2, <4>1, <4>2
    <3>4. final_label[n] \in Nat /\ final_label[peer] \in Nat
      BY <1>1, <1>2, <1>6
    <3>5. final_label[peer] < final_label[path[i]]
      BY <1>9, <3>2, <3>3, <3>4
    <3> QED BY <1>8, <2>2, <3>1, <3>5
  <2> QED BY <1>1, <1>8, <2>1, <2>2
<1>13. total_cost' = E!Cost(path)'
  <2>1. E!Cost(Append(path, peer)) = E!Cost(path) + cost_matrix[n][peer]
    BY <1>6, CostAppended DEF TrailInv
  <2>2. E!Cost(path)' = E!Cost(path')
    BY <1>7 DEF E!Cost, E!CostTo
  <2> QED BY <1>7, <2>1, <2>2 DEF TrailInv
<1>14. total_cost' + final_label[path'[Len(path')]] = final_label[to]
  <2>1. total_cost + final_label[n] = final_label[to]
    BY DEF TrailInv
  <2>2. final_label[n] \in Nat /\ cost_matrix[n][peer] \in Nat
    BY <1>1, <1>2, <1>6
  <2>3. total_cost \in Int
    <3>1. l \in 1 .. Len(path)
      BY <1>1
    <3> QED BY <3>1, CostIs DEF TrailInv, E!Cost
  <2>4. final_label[path'[Len(path')]] = final_label[n] - cost_matrix[n][peer]
    BY <1>6, <1>8
  <2> QED BY <1>7, <2>1, <2>2, <2>3, <2>4
<1>15. TrailInv'
  <2>1. \A k : E!peers(k)' = E!peers(k)
    BY <1>7 DEF E!peers, E!Nodes
  <2> QED BY <1>7, <1>8, <1>10, <1>11, <1>12, <1>13, <1>14, <2>1 DEF TrailInv, E!Nodes
<1> QED BY <1>7, <1>15

(* The way back is shorter than the number of nodes, since none comes twice. *)
LEMMA TrailShort ==
    ASSUME Graph, LabelsInv, TrailInv
    PROVE  Len(path) <= E!node_count
<1> DEFINE l == Len(path)
<1>1. MaxNode \in Nat /\ E!Nodes = 0 .. MaxNode /\ E!node_count = MaxNode + 1
    BY DEF Graph, E!Nodes, E!node_count
<1>2. l \in Nat /\ path \in [1 .. l -> E!Nodes]
    BY DEF TrailInv
<1>3. IsFiniteSet(E!Nodes) /\ Cardinality(E!Nodes) = MaxNode + 1
  <2>1. Cardinality(0 .. MaxNode) = MaxNode - 0 + 1 /\ IsFiniteSet(0 .. MaxNode)
    BY <1>1, FS_Interval
  <2> QED BY <1>1, <2>1
<1>4. IsFiniteSet(1 .. l) /\ Cardinality(1 .. l) = l
  <2>1. /\ IsFiniteSet(1 .. l)
        /\ Cardinality(1 .. l) = IF 1 > l THEN 0 ELSE l - 1 + 1
    BY <1>2, FS_Interval
  <2> QED BY <1>2, <2>1
<1>5. ASSUME NEW i \in 1 .. l, NEW j \in 1 .. l, path[i] = path[j] PROVE i = j
  <2>1. final_label[path[i]] \in Nat /\ final_label[path[j]] = final_label[path[i]]
    BY <1>2, <1>5 DEF LabelsInv
  <2>2. ~(i < j) /\ ~(j < i)
    BY <2>1 DEF TrailInv
  <2> QED BY <1>2, <2>2
<1>6. path \in Injection(1 .. l, E!Nodes)
    BY <1>2, <1>5, Fun_IsInj
<1>7. Cardinality(1 .. l) <= Cardinality(E!Nodes)
    BY <1>3, <1>6, FS_Injection
<1> QED BY <1>1, <1>3, <1>4, <1>7

(* The program, where the graph is connected and the end points differ.      *)
PathInv ==
    /\ Graph
    /\ E!Connected /\ from # to =>
          /\ epc \in {"build", "start", "loop", "print", "done"}
          /\ epc \in {"build", "start"} =>
                curr_order_id = 1 /\ final_label = [n \in E!Nodes |-> 0]
          /\ epc # "build" => start = from
          /\ epc \in {"build", "start", "loop"} => total_cost = 0
          /\ epc \in {"loop", "print", "done"} => ListInv /\ LabelsInv
          /\ epc \in {"print", "done"} => visited = E!Nodes /\ TrailInv
          /\ epc = "done" => path[Len(path)] = from

LEMMA PathInvInit == E!Init => PathInv
<1> SUFFICES ASSUME E!Init PROVE PathInv
    OBVIOUS
<1> USE CostsAssumption
<1>1. Graph
  <2> DEFINE Edges == {e \in E!Nodes \X E!Nodes : e[1] < e[2]}
  <2>1. PICK c \in [Edges -> Costs] :
            cost_matrix = [n \in E!Nodes |-> [m \in E!Nodes |->
                             IF n = m THEN 0 ELSE IF n < m THEN c[<<n, m>>] ELSE c[<<m, n>>]]]
    BY DEF E!Init, E!Matrices
  <2>2. \A n, m \in E!Nodes : n < m => <<n, m>> \in Edges /\ c[<<n, m>>] \in Nat
    OBVIOUS
  <2> HIDE DEF Edges
  <2>3. \A n, m \in E!Nodes : n \in Int /\ m \in Int
    BY DEF E!Nodes
  <2>4. \A n, m \in E!Nodes : /\ cost_matrix[n][m] \in Nat
                              /\ cost_matrix[n][m] = cost_matrix[m][n]
                              /\ cost_matrix[n][n] = 0
    <3> TAKE n, m \in E!Nodes
    <3>1. \A k, x \in E!Nodes :
             cost_matrix[k][x] = IF k = x THEN 0 ELSE IF k < x THEN c[<<k, x>>] ELSE c[<<x, k>>]
      BY <2>1, Zenon
    <3>2. cost_matrix[n][n] = 0
      BY <3>1
    <3>3. CASE n < m
      <4>1. ~(m < n) /\ n # m
        BY <2>3, <3>3
      <4>2. cost_matrix[n][m] = c[<<n, m>>] /\ cost_matrix[m][n] = c[<<n, m>>]
        BY <3>1, <3>3, <4>1, Zenon
      <4> QED BY <2>2, <3>2, <3>3, <4>2
    <3>4. CASE m < n
      <4>1. ~(n < m) /\ n # m
        BY <2>3, <3>4
      <4>2. cost_matrix[n][m] = c[<<m, n>>] /\ cost_matrix[m][n] = c[<<m, n>>]
        BY <3>1, <3>4, <4>1, Zenon
      <4> QED BY <2>2, <3>2, <3>4, <4>2
    <3>5. n < m \/ m < n \/ n = m
      BY <2>3
    <3> QED BY <3>2, <3>3, <3>4, <3>5
  <2>5. cost_matrix \in [E!Nodes -> [E!Nodes -> Nat]]
    <3>1. \A n \in E!Nodes : cost_matrix[n] = [m \in E!Nodes |-> cost_matrix[n][m]]
      BY <2>1
    <3>2. \A n \in E!Nodes : cost_matrix[n] \in [E!Nodes -> Nat]
      BY <2>4, <3>1
    <3>3. cost_matrix = [n \in E!Nodes |-> cost_matrix[n]]
      BY <2>1
    <3> QED BY <3>2, <3>3
  <2> QED BY <2>4, <2>5 DEF Graph, E!Init
<1> QED BY <1>1 DEF PathInv, E!Init

LEMMA PathInvStep == PathInv /\ [E!Next]_(E!vars) => PathInv'
<1> SUFFICES ASSUME PathInv, [E!Next]_(E!vars) PROVE PathInv'
    OBVIOUS
<1>1. UNCHANGED <<cost_matrix, from, to>>
    BY DEF E!Next, E!vars, E!input, E!build_graph, E!StartLabels, E!Visit, E!VisitNothing,
           E!Found, E!StepBack, E!PrintPath
<1>2. Graph /\ Graph'
    BY <1>1 DEF PathInv, Graph, E!Nodes
<1>3. E!Connected' = E!Connected
    BY <1>1 DEF E!Connected, E!Walks, E!peers, E!Nodes, E!node_count
<1> SUFFICES ASSUME E!Connected, from # to
             PROVE  PathInv'
    BY <1>1, <1>2, <1>3 DEF PathInv
<1> USE DEF PathInv
<1>4. CASE E!build_graph
  <2>1. start' = from /\ epc' = "start"
    BY <1>2, <1>4, StartFound
  <2>2. epc = "build" /\ UNCHANGED <<curr_order_id, final_label, total_cost>>
    BY <1>4 DEF E!build_graph, E!labels
  <2> QED BY <1>1, <1>2, <2>1, <2>2 DEF E!Nodes
<1>5. CASE E!StartLabels
  <2>1. epc = "start" /\ epc' = "loop" /\ UNCHANGED <<start, total_cost>>
    BY <1>5 DEF E!StartLabels, E!input
  <2>2. ListInv' /\ LabelsInv'
    BY <1>2, <1>5, <2>1, LabelsStart
  <2> QED BY <1>1, <1>2, <2>1, <2>2
<1>6. CASE E!Visit
  <2>1. epc = "loop" /\ UNCHANGED <<start, total_cost, epc>>
    BY <1>6 DEF E!Visit, E!input
  <2>2. ListInv' /\ LabelsInv'
    BY <1>2, <1>6, <2>1, VisitKeeps
  <2> QED BY <1>1, <1>2, <2>1, <2>2
<1>7. CASE E!VisitNothing
  <2>1. epc = "loop" /\ curr_order_id < E!node_count /\ data_list = <<>>
    BY <1>7 DEF E!VisitNothing
  <2> QED BY <1>2, <2>1, NeverOut
<1>8. CASE E!Found
  <2>1. epc = "loop" /\ ListInv /\ LabelsInv /\ start = from /\ total_cost = 0
    BY <1>8 DEF E!Found
  <2>2. visited = E!Nodes /\ to \in visited \ {from}
    BY <1>2, <1>8, <2>1, VisitedCounted DEF E!Found, Graph
  <2>3. /\ epc' = "print" /\ path' = <<to>>
        /\ UNCHANGED <<visited, curr_order_id, temp_label, final_label, data_list, start,
                       total_cost>>
    BY <1>8, <2>1, <2>2 DEF E!Found, E!input, E!labels
  <2>4. ListInv' /\ LabelsInv'
    <3>1. \A k : E!peers(k)' = E!peers(k)
      BY <1>1 DEF E!peers, E!Nodes
    <3> QED BY <1>1, <2>1, <2>3, <3>1 DEF ListInv, LabelsInv, Labelled, E!Nodes
  <2>5. TrailInv'
    <3> DEFINE p == <<to>>
    <3>1. /\ p \in Seq(E!Nodes) /\ p # <<>> /\ Len(p) = 1 /\ p[1] = to
          /\ \A i \in 1 .. 0 : FALSE
          /\ \A i, j \in 1 .. 1 : ~(i < j)
      BY <1>2 DEF Graph
    <3>2. E!Cost(p) = 0
      <4>1. 1 \in 1 .. Len(p)
        BY <3>1
      <4>2. E!CostTo(p)[1] = 0
        BY <1>2, <3>1, <4>1, CostIs
      <4> QED BY <3>1, <4>2 DEF E!Cost
    <3>3. E!Cost(p)' = E!Cost(p)
      BY <1>1 DEF E!Cost, E!CostTo
    <3>4. final_label[to] \in Nat
      BY <1>2, <2>1 DEF LabelsInv, Graph
    <3> HIDE DEF p
    <3>5. E!Cost(path)' = 0
      BY <1>1, <2>3, <3>2, <3>3 DEF p, E!Cost, E!CostTo
    <3>6. path' = p /\ to' = to /\ final_label' = final_label /\ total_cost' = 0
      BY <1>1, <2>1, <2>3 DEF p
    <3>7. path' \in Seq(E!Nodes)
      BY <3>1, <3>6
    <3>8. Len(path') = 1 /\ path'[1] = to /\ Len(path') - 1 = 0
      BY <3>1, <3>6
    <3>9. /\ \A i \in 1 .. Len(path') - 1 : FALSE
          /\ \A i, j \in 1 .. Len(path') : ~(i < j)
      BY <3>1, <3>8
    <3>10. 0 + final_label[path'[Len(path')]] = final_label[to]
      BY <3>4, <3>8
    <3> QED BY <3>1, <3>5, <3>6, <3>7, <3>8, <3>9, <3>10 DEF TrailInv, E!Nodes
  <2>6. visited' = E!Nodes' /\ start' = from'
    BY <1>1, <2>1, <2>2, <2>3 DEF E!Nodes
  <2> QED BY <1>1, <1>2, <2>3, <2>4, <2>5, <2>6
<1>9. CASE E!StepBack
  <2>1. /\ epc = "print" /\ ListInv /\ LabelsInv /\ visited = E!Nodes /\ TrailInv
        /\ start = from
    BY <1>9 DEF E!StepBack
  <2>2. TrailInv' /\ epc' = "print"
    BY <1>2, <1>9, <2>1, StepBackKeeps
  <2>3. UNCHANGED <<visited, curr_order_id, temp_label, final_label, data_list, start>>
    BY <1>9 DEF E!StepBack, E!input, E!labels
  <2>4. ListInv' /\ LabelsInv'
    <3>1. \A k : E!peers(k)' = E!peers(k)
      BY <1>1 DEF E!peers, E!Nodes
    <3> QED BY <1>1, <2>1, <2>3, <3>1 DEF ListInv, LabelsInv, Labelled, E!Nodes
  <2> QED BY <1>1, <1>2, <2>1, <2>2, <2>3, <2>4 DEF E!Nodes
<1>10. CASE E!PrintPath \/ UNCHANGED E!vars
  <2>1. /\ UNCHANGED <<visited, curr_order_id, temp_label, final_label, data_list, start, path,
                       total_cost>>
        /\ \/ epc = "print" /\ epc' = "done" /\ path[Len(path)] = start
           \/ epc' = epc
    BY <1>10 DEF E!PrintPath, E!vars, E!input, E!labels
  <2>2. /\ ListInv => ListInv'
        /\ LabelsInv => LabelsInv'
        /\ TrailInv => TrailInv'
    <3>1. \A k : E!peers(k)' = E!peers(k)
      BY <1>1 DEF E!peers, E!Nodes
    <3>2. E!Cost(path)' = E!Cost(path)
      BY <1>1, <2>1 DEF E!Cost, E!CostTo
    <3>3. ListInv => ListInv'
      BY <1>1, <2>1 DEF ListInv, Labelled, E!Nodes
    <3>4. LabelsInv => LabelsInv'
      BY <1>1, <2>1, <3>1 DEF LabelsInv, Labelled, E!Nodes
    <3>5. TrailInv => TrailInv'
      BY <1>1, <2>1, <3>1, <3>2 DEF TrailInv, E!Nodes
    <3> QED BY <3>3, <3>4, <3>5
  <2> QED BY <1>1, <1>2, <2>1, <2>2 DEF E!Nodes
<1> QED BY <1>4, <1>5, <1>6, <1>7, <1>8, <1>9, <1>10 DEF E!Next

(* In a connected graph of any size and with any costs, elbonian.c ends with *)
(* a walk from one end point to the other that no walk undercuts.            *)
THEOREM PathIsShortest == E!Spec => []E!ShortestPath
<1>1. PathInv => E!ShortestPath
  <2> SUFFICES ASSUME PathInv, epc \in {"done", "crash"}, E!Connected, from # to
               PROVE  /\ epc = "done"
                      /\ path \in E!Walks(to, from)
                      /\ total_cost = E!Cost(path)
                      /\ \A p \in E!Walks(from, to) : total_cost <= E!Cost(p)
    BY DEF E!ShortestPath
  <2>1. /\ Graph /\ epc = "done" /\ ListInv /\ LabelsInv /\ visited = E!Nodes /\ TrailInv
        /\ path[Len(path)] = from
    BY DEF PathInv
  <2> HIDE DEF PathInv
  <2>2. path \in E!Walks(to, from)
    <3>1. /\ Len(path) \in Nat /\ path \in [1 .. Len(path) -> E!Nodes]
          /\ path[1] = to /\ Len(path) >= 1
      BY <2>1 DEF TrailInv
    <3>2. Len(path) <= E!node_count /\ E!node_count \in Int
      BY <2>1, TrailShort DEF E!node_count, Graph
    <3>3. Len(path) \in 2 .. E!node_count
      BY <2>1, <3>1, <3>2
    <3>4. \A i \in 1 .. Len(path) - 1 : path[i + 1] \in E!peers(path[i])
      BY <2>1 DEF TrailInv
    <3> QED BY <2>1, <3>1, <3>3, <3>4 DEF E!Walks
  <2>3. total_cost = final_label[to] /\ total_cost = E!Cost(path)
    <3>1. final_label[from] = 0
      BY <2>1 DEF LabelsInv, ListInv
    <3>2. Len(path) \in 1 .. Len(path)
      BY <2>1 DEF TrailInv
    <3>3. E!Cost(path) \in Nat
      BY <2>1, <3>2, CostIs DEF TrailInv, E!Cost
    <3> QED BY <2>1, <3>1, <3>3 DEF TrailInv
  <2>4. ASSUME NEW p \in E!Walks(from, to) PROVE final_label[to] <= E!Cost(p)
    <3>1. PICK l \in 2 .. E!node_count : p \in [1 .. l -> E!Nodes]
      BY DEF E!Walks
    <3>2. /\ p[1] = from /\ p[Len(p)] = to
          /\ \A i \in 1 .. Len(p) - 1 : p[i + 1] \in E!peers(p[i])
      BY DEF E!Walks
    <3>3. p \in Seq(E!Nodes) /\ p # <<>>
      <4>1. l \in Nat /\ l >= 1
        BY <2>1 DEF E!node_count, Graph
      <4> QED BY <3>1, <4>1
    <3>4. /\ final_label \in [E!Nodes -> Nat] /\ final_label[from] = 0
          /\ \A n \in E!Nodes : \A m \in E!peers(n) :
                final_label[m] <= final_label[n] + cost_matrix[n][m]
      <4>1. \A n \in E!Nodes : \A m \in E!peers(n) : m \in E!Nodes
        BY DEF E!peers
      <4> QED BY <2>1, <4>1 DEF LabelsInv, ListInv
    <3>5. final_label[p[Len(p)]] <= E!Cost(p)
      BY <2>1, <3>2, <3>3, <3>4, NoWalkUndercuts
    <3> QED BY <3>2, <3>5
  <2> QED BY <2>1, <2>2, <2>3, <2>4
<1> QED BY PathInvInit, PathInvStep, <1>1, PTL DEF E!Spec

-------------------------------------------------------------------
(* Quicksort *)

LEMMA SizeIs == \A set : K!Cardinality(set) = Cardinality(set)
    BY DEF K!Cardinality, Cardinality

(* Exchanging two elements keeps what there is. *)
Exchanged(x, a, b) == [x EXCEPT ![a] = x[b], ![b] = x[a]]

LEMMA SameValues ==
    ASSUME NEW n \in Nat, NEW x \in [0 .. n - 1 -> Int], NEW a \in 0 .. n - 1,
           NEW b \in 0 .. n - 1, NEW v
    PROVE  K!Count(Exchanged(x, a, b), v) = K!Count(x, v)
<1> DEFINE y == Exchanged(x, a, b)
           was == {i \in 0 .. n - 1 : x[i] = v}
           now == {i \in 0 .. n - 1 : y[i] = v}
<1>1. DOMAIN x = 0 .. n - 1 /\ DOMAIN y = 0 .. n - 1
    BY DEF Exchanged
<1>2. K!Count(x, v) = Cardinality(was) /\ K!Count(y, v) = Cardinality(now)
    BY <1>1, SizeIs, Zenon DEF K!Count
<1>3. IsFiniteSet(was) /\ IsFiniteSet(now)
  <2>1. IsFiniteSet(0 .. n - 1)
    BY FS_Interval
  <2> QED BY <2>1, FS_Subset
<1>4. /\ y[a] = x[b] /\ y[b] = x[a]
      /\ \A i \in 0 .. n - 1 : i # a /\ i # b => y[i] = x[i]
    BY DEF Exchanged
<1>5. CASE x[a] = v /\ x[b] # v
  <2>1. now = (was \ {a}) \cup {b} /\ a \in was /\ b \notin was \ {a}
    BY <1>4, <1>5
  <2> HIDE DEF was, now
  <2>2. IsFiniteSet(was \ {a}) /\ Cardinality(was \ {a}) = Cardinality(was) - 1
    BY <1>3, <2>1, FS_RemoveElement, Zenon
  <2>3. Cardinality(now) = Cardinality(was \ {a}) + 1
    BY <2>1, <2>2, FS_AddElement, Zenon
  <2>4. Cardinality(was) \in Nat
    BY <1>3, FS_CardinalityType, Zenon
  <2> QED BY <1>2, <2>2, <2>3, <2>4
<1>6. CASE x[b] = v /\ x[a] # v
  <2>1. now = (was \ {b}) \cup {a} /\ b \in was /\ a \notin was \ {b}
    BY <1>4, <1>6
  <2> HIDE DEF was, now
  <2>2. IsFiniteSet(was \ {b}) /\ Cardinality(was \ {b}) = Cardinality(was) - 1
    BY <1>3, <2>1, FS_RemoveElement, Zenon
  <2>3. Cardinality(now) = Cardinality(was \ {b}) + 1
    BY <2>1, <2>2, FS_AddElement, Zenon
  <2>4. Cardinality(was) \in Nat
    BY <1>3, FS_CardinalityType, Zenon
  <2> QED BY <1>2, <2>2, <2>3, <2>4
<1>7. CASE (x[a] = v) <=> (x[b] = v)
  <2>1. now = was
    BY <1>4, <1>7
  <2> QED BY <1>2, <2>1
<1> QED BY <1>5, <1>6, <1>7

(* The ranges still to be sorted and the one partition works on are apart    *)
(* and in ascending order; what is not in one of them together is in order.  *)
Size == Cardinality(DOMAIN input)
Partition == qpc \in {"up", "down", "while"}
Together(i, j) ==
    \/ Partition /\ first <= i /\ j <= last
    \/ \E k \in 1 .. Len(stack) : stack[k][1] <= i /\ j <= stack[k][2]

RangesInv ==
    /\ stack \in Seq(Int \X Int)
    /\ \A k \in 1 .. Len(stack) :
          0 <= stack[k][1] /\ stack[k][2] < Size /\ stack[k][1] <= stack[k][2] + 1
    /\ \A j, k \in 1 .. Len(stack) : j < k => stack[j][2] < stack[k][1]
    /\ Partition => /\ first \in 0 .. Size - 1 /\ last \in 0 .. Size - 1 /\ first < last
                    /\ \A k \in 1 .. Len(stack) : last < stack[k][1]

(* up and down: what they passed is on its side of the pivot. *)
PartInv ==
    /\ up \in first .. last /\ down \in first .. last /\ piv = array[first]
    /\ \A i \in first .. up - 1 : array[i] <= piv
    /\ \A i \in down + 1 .. last : array[i] > piv
    /\ qpc \in {"down", "while"} => up = last \/ array[up] > piv
    /\ qpc = "while" => array[down] <= piv

SortInv ==
    /\ Size \in Nat
    /\ input \in [0 .. Size - 1 -> Int] /\ array \in [0 .. Size - 1 -> Int]
    /\ qpc \in {"quicksort", "up", "down", "while", "done"}
    /\ \A v : K!Count(array, v) = K!Count(input, v)
    /\ RangesInv
    /\ Partition => PartInv
    /\ \A i, j \in 0 .. Size - 1 : i < j => array[i] <= array[j] \/ Together(i, j)
    /\ qpc = "done" => stack = <<>>

(* The head of the stack and the rest of it.                                 *)
LEMMA RangeTaken ==
    ASSUME RangesInv, stack # <<>>, NEW s, s = Tail(stack)
    PROVE  /\ Head(stack) = stack[1] /\ stack[1] \in Int \X Int /\ s \in Seq(Int \X Int)
           /\ Len(stack) \in Nat /\ Len(s) = Len(stack) - 1 /\ 1 \in 1 .. Len(stack)
           /\ 0 <= stack[1][1] /\ stack[1][2] < Size /\ stack[1][1] <= stack[1][2] + 1
           /\ \A k \in 1 .. Len(s) : /\ s[k] = stack[k + 1] /\ k + 1 \in 1 .. Len(stack)
                                     /\ s[k] \in Int \X Int /\ stack[1][2] < s[k][1]
           /\ \A k \in 1 .. Len(s) :
                 0 <= s[k][1] /\ s[k][2] < Size /\ s[k][1] <= s[k][2] + 1
           /\ \A j, k \in 1 .. Len(s) : j < k => s[j][2] < s[k][1]
<1>1. stack \in Seq(Int \X Int) /\ Len(stack) \in Nat
    BY DEF RangesInv
<1>2. /\ Head(stack) = stack[1] /\ stack[1] \in Int \X Int /\ s \in Seq(Int \X Int)
      /\ Len(s) = Len(stack) - 1 /\ 1 \in 1 .. Len(stack)
      /\ \A k \in 1 .. Len(s) : s[k] = stack[k + 1] /\ k + 1 \in 1 .. Len(stack)
    BY <1>1
<1>3. \A k \in 1 .. Len(stack) :
         0 <= stack[k][1] /\ stack[k][2] < Size /\ stack[k][1] <= stack[k][2] + 1
    BY DEF RangesInv
<1>4. \A j, k \in 1 .. Len(stack) : j < k => stack[j][2] < stack[k][1]
    BY DEF RangesInv
<1>5. \A k \in 1 .. Len(s) : s[k] \in Int \X Int /\ 1 < k + 1
  <2>1. \A k \in 1 .. Len(stack) : stack[k] \in Int \X Int
    BY <1>1
  <2>2. \A k \in 1 .. Len(s) : 1 < k + 1
    OBVIOUS
  <2> QED BY <1>2, <2>1, <2>2, Zenon
<1>6. \A k \in 1 .. Len(s) : stack[1][2] < s[k][1]
  <2> SUFFICES ASSUME NEW k \in 1 .. Len(s) PROVE stack[1][2] < s[k][1]
    OBVIOUS
  <2>1. s[k] = stack[k + 1] /\ k + 1 \in 1 .. Len(stack) /\ 1 < k + 1
    BY <1>2, <1>5
  <2> QED BY <1>2, <1>4, <2>1, Zenon
<1>7. \A k \in 1 .. Len(s) :
         0 <= s[k][1] /\ s[k][2] < Size /\ s[k][1] <= s[k][2] + 1
    BY <1>2, <1>3, Zenon
<1>8. \A j, k \in 1 .. Len(s) : j < k => s[j][2] < s[k][1]
  <2> SUFFICES ASSUME NEW j \in 1 .. Len(s), NEW k \in 1 .. Len(s), j < k
               PROVE  s[j][2] < s[k][1]
    OBVIOUS
  <2>1. s[j] = stack[j + 1] /\ s[k] = stack[k + 1] /\ j + 1 < k + 1
        /\ j + 1 \in 1 .. Len(stack) /\ k + 1 \in 1 .. Len(stack)
    BY <1>2
  <2> QED BY <1>4, <2>1, Zenon
<1> QED BY <1>1, <1>2, <1>3, <1>5, <1>6, <1>7, <1>8, Zenon

(* What is in a range to be sorted and what is not, both ends in it.         *)
LEMMA Outside ==
    ASSUME SortInv, Partition, NEW i \in 0 .. Size - 1, NEW j \in 0 .. Size - 1, i < j
    PROVE  /\ j \in first .. last /\ i < first => array[i] <= array[j]
           /\ i \in first .. last /\ j > last => array[i] <= array[j]
<1>1. first \in Int /\ last \in Int /\ Size \in Nat
    BY DEF SortInv, RangesInv
<1>2. ASSUME NEW k \in 1 .. Len(stack)
      PROVE  stack[k][1] \in Int /\ stack[k][2] \in Int /\ last < stack[k][1]
  <2>1. stack \in Seq(Int \X Int) /\ last < stack[k][1]
    BY DEF SortInv, RangesInv
  <2>2. stack[k] \in Int \X Int
    BY <2>1
  <2> QED BY <2>1, <2>2
<1>3. array[i] <= array[j] \/ Together(i, j)
    BY DEF SortInv
<1>4. CASE Together(i, j)
    BY <1>1, <1>2, <1>4 DEF Together
<1> QED BY <1>3, <1>4

LEMMA SortStep == SortInv /\ [K!Next]_(K!vars) => SortInv'
<1> SUFFICES ASSUME SortInv, [K!Next]_(K!vars) PROVE SortInv'
    OBVIOUS
<1>1. UNCHANGED input
    BY DEF K!Next, K!Trivial, K!Enter, K!Up, K!Down, K!Swap, K!Leave, K!Return, K!vars
<1>2. UNCHANGED Size
    BY <1>1 DEF Size
<1>3. Size \in Nat /\ array \in [0 .. Size - 1 -> Int] /\ RangesInv
    BY DEF SortInv
<1>4. \A i, j \in 0 .. Size - 1 : i < j => array[i] <= array[j] \/ Together(i, j)
    BY Zenon DEF SortInv
<1>5. \A v : Cardinality({i \in DOMAIN array : array[i] = v})
                = Cardinality({i \in DOMAIN input : input[i] = v})
    BY SizeIs, Zenon DEF SortInv, K!Count
<1>6. UNCHANGED array => \A v : K!Count(array, v)' = K!Count(input, v)'
  <2> SUFFICES ASSUME UNCHANGED array, NEW v PROVE K!Count(array, v)' = K!Count(input, v)'
    OBVIOUS
  <2>1. {i \in DOMAIN array' : array'[i] = v} = {i \in DOMAIN array : array[i] = v}
    OBVIOUS
  <2>2. {i \in DOMAIN input' : input'[i] = v} = {i \in DOMAIN input : input[i] = v}
    BY <1>1
  <2> QED BY <1>5, <2>1, <2>2, SizeIs, Zenon DEF K!Count
<1>7. CASE K!Trivial
  <2> DEFINE s == Tail(stack)
  <2>1. /\ qpc = "quicksort" /\ stack # <<>> /\ Head(stack)[1] >= Head(stack)[2]
        /\ stack' = s /\ UNCHANGED <<array, first, last, up, down, piv, qpc>>
    BY <1>7 DEF K!Trivial
  <2>2. /\ Head(stack) = stack[1] /\ stack[1] \in Int \X Int /\ s \in Seq(Int \X Int)
        /\ Len(stack) \in Nat /\ Len(s) = Len(stack) - 1 /\ 1 \in 1 .. Len(stack)
        /\ 0 <= stack[1][1] /\ stack[1][2] < Size /\ stack[1][1] <= stack[1][2] + 1
        /\ \A k \in 1 .. Len(s) : /\ s[k] = stack[k + 1] /\ k + 1 \in 1 .. Len(stack)
                                  /\ s[k] \in Int \X Int /\ stack[1][2] < s[k][1]
        /\ \A k \in 1 .. Len(s) :
              0 <= s[k][1] /\ s[k][2] < Size /\ s[k][1] <= s[k][2] + 1
        /\ \A j, k \in 1 .. Len(s) : j < k => s[j][2] < s[k][1]
    BY <1>3, <2>1, RangeTaken
  <2> HIDE DEF s
  <2>3. ~Partition /\ ~Partition'
    BY <2>1 DEF Partition
  <2>4. RangesInv'
    BY <1>2, <2>1, <2>2, <2>3 DEF RangesInv
  <2>5. ASSUME NEW i \in 0 .. Size - 1, NEW j \in 0 .. Size - 1, i < j
        PROVE  array[i] <= array[j] \/ Together(i, j)'
    <3>1. CASE array[i] <= array[j]
      BY <3>1
    <3>2. CASE Together(i, j)
      <4>1. PICK k \in 1 .. Len(stack) : stack[k][1] <= i /\ j <= stack[k][2]
        BY <2>3, <3>2 DEF Together
      <4>2. k # 1
        BY <2>1, <2>2, <2>5, <4>1
      <4>3. k - 1 \in 1 .. Len(s) /\ (k - 1) + 1 = k
        BY <2>2, <4>2
      <4>4. s[k - 1] = stack[k]
        BY <2>2, <4>3
      <4> QED BY <2>1, <4>1, <4>3, <4>4 DEF Together
    <3> QED BY <1>4, <2>5, <3>1, <3>2
  <2>6. \A v : K!Count(array, v)' = K!Count(input, v)'
    BY <1>6, <2>1
  <2> QED BY <1>1, <1>2, <2>1, <2>3, <2>4, <2>5, <2>6 DEF SortInv
<1>8. CASE K!Enter
  <2> DEFINE s == Tail(stack)
  <2>1. /\ qpc = "quicksort" /\ stack # <<>> /\ Head(stack)[1] < Head(stack)[2]
        /\ first' = Head(stack)[1] /\ last' = Head(stack)[2]
        /\ up' = first' /\ down' = last' /\ piv' = array[first']
        /\ stack' = s /\ qpc' = "up" /\ UNCHANGED array
    BY <1>8 DEF K!Enter
  <2>2. /\ Head(stack) = stack[1] /\ stack[1] \in Int \X Int /\ s \in Seq(Int \X Int)
        /\ Len(stack) \in Nat /\ Len(s) = Len(stack) - 1 /\ 1 \in 1 .. Len(stack)
        /\ 0 <= stack[1][1] /\ stack[1][2] < Size /\ stack[1][1] <= stack[1][2] + 1
        /\ \A k \in 1 .. Len(s) : /\ s[k] = stack[k + 1] /\ k + 1 \in 1 .. Len(stack)
                                  /\ s[k] \in Int \X Int /\ stack[1][2] < s[k][1]
        /\ \A k \in 1 .. Len(s) :
              0 <= s[k][1] /\ s[k][2] < Size /\ s[k][1] <= s[k][2] + 1
        /\ \A j, k \in 1 .. Len(s) : j < k => s[j][2] < s[k][1]
    BY <1>3, <2>1, RangeTaken
  <2> HIDE DEF s
  <2>3. ~Partition /\ Partition'
    BY <2>1 DEF Partition
  <2>4. /\ first' \in 0 .. Size - 1 /\ last' \in 0 .. Size - 1 /\ first' < last'
        /\ \A k \in 1 .. Len(s) : last' < s[k][1]
    <3>1. /\ stack[1][1] \in Int /\ stack[1][2] \in Int
          /\ stack[1][1] < stack[1][2] /\ 0 <= stack[1][1] /\ stack[1][2] < Size
      BY <2>1, <2>2
    <3>2. first' = stack[1][1] /\ last' = stack[1][2]
      BY <2>1, <2>2
    <3>3. \A k \in 1 .. Len(s) : last' < s[k][1]
      BY <2>2, <3>2, Zenon
    <3> QED BY <1>3, <3>1, <3>2, <3>3
  <2>5. RangesInv'
    BY <1>2, <2>1, <2>2, <2>4 DEF RangesInv
  <2>6. PartInv'
    <3>1. /\ first' \in Int /\ last' \in Int /\ first' < last'
          /\ up' = first' /\ down' = last' /\ piv' = array'[first'] /\ qpc' = "up"
      BY <1>3, <2>1, <2>4
    <3>2. up' \in first' .. last' /\ down' \in first' .. last'
      BY <3>1
    <3>3. \A i : i \notin first' .. up' - 1 /\ i \notin down' + 1 .. last'
      BY <3>1
    <3>4. qpc' \notin {"down", "while"}
      BY <3>1
    <3> QED BY <3>1, <3>2, <3>3, <3>4, Zenon DEF PartInv
  <2>7. ASSUME NEW i \in 0 .. Size - 1, NEW j \in 0 .. Size - 1, i < j
        PROVE  array[i] <= array[j] \/ Together(i, j)'
    <3>1. CASE array[i] <= array[j]
      BY <3>1
    <3>2. CASE Together(i, j)
      <4>1. PICK k \in 1 .. Len(stack) : stack[k][1] <= i /\ j <= stack[k][2]
        BY <2>3, <3>2 DEF Together
      <4>2. CASE k = 1
        BY <2>1, <2>2, <2>3, <4>1, <4>2 DEF Together
      <4>3. CASE k # 1
        <5>1. k - 1 \in 1 .. Len(s) /\ (k - 1) + 1 = k
          BY <2>2, <4>3
        <5>2. s[k - 1] = stack[k]
          BY <2>2, <5>1
        <5> QED BY <2>1, <4>1, <5>1, <5>2 DEF Together
      <4> QED BY <4>2, <4>3
    <3> QED BY <1>4, <2>7, <3>1, <3>2
  <2>8. \A v : K!Count(array, v)' = K!Count(input, v)'
    BY <1>6, <2>1
  <2> QED BY <1>1, <1>2, <2>1, <2>3, <2>5, <2>6, <2>7, <2>8 DEF SortInv
<1>9. CASE K!Up \/ K!Down
  <2>1. /\ Partition /\ qpc \in {"up", "down"} /\ UNCHANGED <<array, stack, first, last, piv>>
        /\ qpc' \in {"up", "down", "while"}
    BY <1>9 DEF K!Up, K!Down, Partition
  <2>2. Partition'
    BY <2>1 DEF Partition
  <2>3. RangesInv'
    BY <1>2, <1>3, <2>1, <2>2 DEF RangesInv
  <2>4. PartInv'
    <3>1. PartInv /\ first \in 0 .. Size - 1 /\ last \in 0 .. Size - 1 /\ first < last
      BY <2>1 DEF SortInv, RangesInv
    <3>2. CASE K!Up
      BY <1>3, <3>1, <3>2 DEF K!Up, PartInv
    <3>3. CASE K!Down
      BY <1>3, <3>1, <3>3 DEF K!Down, PartInv
    <3> QED BY <1>9, <3>2, <3>3
  <2>5. \A i, j : Together(i, j)' <=> Together(i, j)
    BY <2>1, <2>2 DEF Together
  <2>6. \A v : K!Count(array, v)' = K!Count(input, v)'
    BY <1>6, <2>1
  <2> QED BY <1>1, <1>2, <2>1, <2>2, <2>3, <2>4, <2>5, <2>6 DEF SortInv
<1>10. CASE K!Swap
  <2>1. /\ qpc = "while" /\ down > up /\ array' = Exchanged(array, up, down)
        /\ qpc' = "up" /\ UNCHANGED <<stack, first, last, up, down, piv>>
    BY <1>10 DEF K!Swap, Exchanged
  <2>2. Partition /\ Partition' /\ PartInv
    BY <2>1 DEF Partition, SortInv
  <2>3. first \in 0 .. Size - 1 /\ last \in 0 .. Size - 1 /\ first < last
    BY <1>3, <2>2 DEF RangesInv
  <2>4. /\ up \in 0 .. Size - 1 /\ down \in 0 .. Size - 1
        /\ array[up] > piv /\ array[down] <= piv /\ up > first
        /\ up \in first .. last /\ down \in first .. last
    BY <1>3, <2>1, <2>2, <2>3 DEF PartInv
  <2>5. /\ array'[up] = array[down] /\ array'[down] = array[up]
        /\ \A i \in 0 .. Size - 1 : i # up /\ i # down => array'[i] = array[i]
        /\ array' \in [0 .. Size - 1 -> Int]
    BY <1>3, <2>1, <2>4 DEF Exchanged
  <2>6. \A v : K!Count(array', v) = K!Count(array, v)
    BY <1>3, <2>1, <2>4, SameValues
  <2>7. RangesInv'
    BY <1>2, <1>3, <2>1, <2>2 DEF RangesInv
  <2>8. PartInv'
    BY <1>3, <2>1, <2>2, <2>3, <2>4, <2>5 DEF PartInv
  <2>9. \A i, j : Together(i, j)' <=> Together(i, j)
    BY <2>1, <2>2 DEF Together
  <2>10. ASSUME NEW i \in 0 .. Size - 1, NEW j \in 0 .. Size - 1, i < j
         PROVE  array'[i] <= array'[j] \/ Together(i, j)
    <3>1. CASE i \in first .. last /\ j \in first .. last
      BY <2>2, <3>1 DEF Together
    <3>2. CASE i \notin first .. last /\ j \notin first .. last
      <4>1. array'[i] = array[i] /\ array'[j] = array[j]
        BY <2>4, <2>5, <3>2
      <4> QED BY <2>10, <4>1 DEF SortInv
    <3>3. CASE i \notin first .. last /\ j \in first .. last
      <4>1. array'[i] = array[i] /\ i < first
        BY <2>3, <2>4, <2>5, <2>10, <3>3
      <4>2. PICK k \in first .. last : array'[j] = array[k] /\ k \in 0 .. Size - 1
        BY <2>3, <2>4, <2>5, <3>3
      <4>3. array[i] <= array[k]
        BY <2>2, <2>3, <4>1, <4>2, Outside
      <4> QED BY <4>1, <4>2, <4>3
    <3>4. CASE i \in first .. last /\ j \notin first .. last
      <4>1. array'[j] = array[j] /\ j > last
        BY <2>3, <2>4, <2>5, <2>10, <3>4
      <4>2. PICK k \in first .. last : array'[i] = array[k] /\ k \in 0 .. Size - 1
        BY <2>3, <2>4, <2>5, <3>4
      <4>3. array[k] <= array[j]
        BY <2>2, <2>3, <4>1, <4>2, Outside
      <4> QED BY <4>1, <4>2, <4>3
    <3> QED BY <3>1, <3>2, <3>3, <3>4
  <2>11. \A v : K!Count(array, v)' = K!Count(input, v)'
    BY <1>1, <1>5, <2>6, SizeIs, Zenon DEF K!Count
  <2> QED BY <1>1, <1>2, <2>1, <2>2, <2>5, <2>7, <2>8, <2>9, <2>10, <2>11 DEF SortInv
<1>11. CASE K!Leave
  <2> DEFINE t == <<<<first, down - 1>>, <<down + 1, last>>>>
             s == t \o stack
  <2>1. /\ qpc = "while" /\ down <= up /\ stack' = s /\ qpc' = "quicksort"
        /\ array' = [[array EXCEPT ![first] = array[down]] EXCEPT ![down] = piv]
    BY <1>11 DEF K!Leave
  <2>2. Partition /\ ~Partition' /\ PartInv
    BY <2>1 DEF Partition, SortInv
  <2>3. /\ first \in 0 .. Size - 1 /\ last \in 0 .. Size - 1 /\ first < last
        /\ \A k \in 1 .. Len(stack) : last < stack[k][1]
    BY <1>3, <2>2 DEF RangesInv
  <2>4. /\ down \in 0 .. Size - 1 /\ down \in first .. last /\ piv = array[first]
        /\ array[down] <= piv
        /\ \A i \in down + 1 .. last : array[i] > piv
        /\ \A i \in first .. down - 1 : array[i] <= piv
    BY <1>3, <2>1, <2>2, <2>3 DEF PartInv
  <2>5. /\ array' = Exchanged(array, first, down)
        /\ array'[first] = array[down] /\ array'[down] = piv
        /\ \A i \in 0 .. Size - 1 : i # first /\ i # down => array'[i] = array[i]
        /\ array' \in [0 .. Size - 1 -> Int]
    BY <1>3, <2>1, <2>3, <2>4 DEF Exchanged
  <2>6. \A v : K!Count(array', v) = K!Count(array, v)
    <3>1. array' = Exchanged(array, first, down) /\ first \in 0 .. Size - 1
          /\ down \in 0 .. Size - 1
      BY <2>3, <2>4, <2>5
    <3> QED BY <1>3, <3>1, SameValues
  <2>7. /\ stack \in Seq(Int \X Int) /\ Len(stack) \in Nat
        /\ \A k \in 1 .. Len(stack) : stack[k] \in Int \X Int
        /\ \A k \in 1 .. Len(stack) :
              0 <= stack[k][1] /\ stack[k][2] < Size /\ stack[k][1] <= stack[k][2] + 1
        /\ \A i, k \in 1 .. Len(stack) : i < k => stack[i][2] < stack[k][1]
    BY <1>3 DEF RangesInv
  <2>8. t \in Seq(Int \X Int) /\ Len(t) = 2 /\ t[1] = <<first, down - 1>>
         /\ t[2] = <<down + 1, last>>
    BY <2>3, <2>4
  <2> HIDE DEF t
  <2>9. /\ s \in Seq(Int \X Int) /\ Len(s) = Len(stack) + 2
        /\ s[1] = <<first, down - 1>> /\ s[2] = <<down + 1, last>>
        /\ \A k \in 3 .. Len(s) : s[k] = stack[k - 2] /\ k - 2 \in 1 .. Len(stack)
        /\ \A k \in 1 .. Len(stack) : s[k + 2] = stack[k] /\ k + 2 \in 1 .. Len(s)
    <3>1. /\ s \in Seq(Int \X Int) /\ Len(s) = Len(t) + Len(stack) /\ Len(t) \in Nat
          /\ \A k \in 1 .. Len(s) : s[k] = IF k <= Len(t) THEN t[k] ELSE stack[k - Len(t)]
      <4>1. \A p, q \in Seq(Int \X Int) :
               /\ p \o q \in Seq(Int \X Int) /\ Len(p \o q) = Len(p) + Len(q) /\ Len(p) \in Nat
               /\ \A k \in 1 .. Len(p \o q) :
                     (p \o q)[k] = IF k <= Len(p) THEN p[k] ELSE q[k - Len(p)]
        OBVIOUS
      <4> QED BY <2>7, <2>8, <4>1, Zenon
    <3> HIDE DEF s
    <3>2. Len(s) = Len(stack) + 2 /\ s[1] = t[1] /\ s[2] = t[2]
      BY <2>7, <2>8, <3>1
    <3>3. ASSUME NEW k \in 3 .. Len(s)
          PROVE  s[k] = stack[k - 2] /\ k - 2 \in 1 .. Len(stack)
      <4>1. k \in 1 .. Len(s) /\ ~(k <= Len(t)) /\ k - Len(t) = k - 2 /\ k - 2 \in 1 .. Len(stack)
        BY <2>7, <2>8, <3>2
      <4> QED BY <3>1, <4>1
    <3>4. ASSUME NEW k \in 1 .. Len(stack)
          PROVE  s[k + 2] = stack[k] /\ k + 2 \in 1 .. Len(s)
      <4>1. k + 2 \in 1 .. Len(s) /\ ~(k + 2 <= Len(t)) /\ (k + 2) - Len(t) = k
        BY <2>7, <2>8, <3>2
      <4> QED BY <3>1, <4>1
    <3> QED BY <2>8, <3>1, <3>2, <3>3, <3>4
  <2> HIDE DEF s
  <2>10. \A k \in 1 .. Len(s) : k = 1 \/ k = 2 \/ k \in 3 .. Len(s)
    BY <2>7, <2>9
  <2>11. \A k \in 1 .. Len(s) :
            0 <= s[k][1] /\ s[k][2] < Size /\ s[k][1] <= s[k][2] + 1
    <3> SUFFICES ASSUME NEW k \in 1 .. Len(s)
                 PROVE  0 <= s[k][1] /\ s[k][2] < Size /\ s[k][1] <= s[k][2] + 1
      OBVIOUS
    <3>1. CASE k = 1
      <4>1. s[k] = <<first, down - 1>>
        BY <2>9, <3>1, Zenon
      <4>2. 0 <= first /\ down - 1 < Size /\ first <= (down - 1) + 1
        BY <1>3, <2>3, <2>4
      <4> QED BY <4>1, <4>2
    <3>2. CASE k = 2
      <4>1. s[k] = <<down + 1, last>>
        BY <2>9, <3>2, Zenon
      <4>2. 0 <= down + 1 /\ last < Size /\ down + 1 <= last + 1
        BY <1>3, <2>3, <2>4
      <4> QED BY <4>1, <4>2
    <3>3. CASE k \in 3 .. Len(s)
      BY <2>7, <2>9, <3>3, Zenon
    <3> QED BY <2>10, <3>1, <3>2, <3>3
  <2>12. ASSUME NEW i \in 1 .. Len(s), NEW k \in 1 .. Len(s), i < k
         PROVE  s[i][2] < s[k][1]
    <3>1. CASE k = 2
      BY <2>4, <2>9, <2>10, <2>12, <3>1
    <3>2. CASE k \in 3 .. Len(s) /\ i \in {1, 2}
      <4>1. last < s[k][1] /\ s[k][1] \in Int
        <5>1. stack[k - 2] \in Int \X Int /\ last < stack[k - 2][1] /\ s[k] = stack[k - 2]
          BY <2>3, <2>7, <2>9, <3>2, Zenon
        <5> QED BY <5>1
      <4>2. s[i][2] \in Int /\ s[i][2] <= last
        <5>1. s[i] = <<first, down - 1>> \/ s[i] = <<down + 1, last>>
          BY <2>9, <3>2, Zenon
        <5> QED BY <2>3, <2>4, <5>1
      <4> QED BY <2>3, <4>1, <4>2
    <3>3. CASE k \in 3 .. Len(s) /\ i \in 3 .. Len(s)
      <4>1. /\ s[i] = stack[i - 2] /\ i - 2 \in 1 .. Len(stack)
            /\ s[k] = stack[k - 2] /\ k - 2 \in 1 .. Len(stack)
        BY <2>9, <3>3, Zenon
      <4>2. i - 2 < k - 2
        BY <2>12
      <4> QED BY <2>7, <4>1, <4>2, Zenon
    <3> QED BY <2>10, <2>12, <3>1, <3>2, <3>3
  <2>13. RangesInv'
    BY <1>2, <2>1, <2>2, <2>9, <2>11, <2>12 DEF RangesInv
  <2>14. ASSUME NEW i \in 0 .. Size - 1, NEW j \in 0 .. Size - 1, i < j
         PROVE  array'[i] <= array'[j] \/ Together(i, j)'
    <3>1. CASE Together(i, j) /\ ~(first <= i /\ j <= last)
      <4>1. PICK k \in 1 .. Len(stack) : stack[k][1] <= i /\ j <= stack[k][2]
        BY <3>1 DEF Together
      <4>2. s[k + 2] = stack[k] /\ k + 2 \in 1 .. Len(s)
        BY <2>9
      <4> QED BY <2>1, <4>1, <4>2 DEF Together
    <3>2. CASE first <= i /\ j <= last
      <4>1. CASE j < down
        <5>1. s[1][1] <= i /\ j <= s[1][2] /\ 1 \in 1 .. Len(s)
          BY <2>4, <2>7, <2>9, <3>2, <4>1
        <5> QED BY <2>1, <5>1 DEF Together
      <4>2. CASE i > down
        <5>1. s[2][1] <= i /\ j <= s[2][2] /\ 2 \in 1 .. Len(s)
          BY <2>4, <2>7, <2>9, <3>2, <4>2
        <5> QED BY <2>1, <5>1 DEF Together
      <4>3. CASE i <= down /\ j >= down
        <5>1. piv \in Int
          BY <1>3, <2>3, <2>4
        <5>2. array'[i] <= piv
          <6>1. i = first \/ i = down \/ (i # first /\ i # down /\ i \in first .. down - 1)
            BY <2>3, <2>4, <3>2, <4>3
          <6>2. i # first /\ i # down => array'[i] = array[i]
            BY <2>5
          <6> QED BY <2>4, <2>5, <5>1, <6>1, <6>2
        <5>3. array'[j] >= piv
          <6>1. j = down \/ (j # first /\ j # down /\ j \in down + 1 .. last)
            BY <2>3, <2>4, <3>2, <4>3
          <6>2. j # first /\ j # down => array'[j] = array[j] /\ array[j] \in Int
            BY <1>3, <2>5
          <6> QED BY <2>4, <2>5, <5>1, <6>1, <6>2
        <5>4. array'[i] \in Int /\ array'[j] \in Int
          BY <2>5
        <5> QED BY <5>1, <5>2, <5>3, <5>4
      <4> QED BY <2>3, <2>4, <4>1, <4>2, <4>3
    <3>3. CASE array[i] <= array[j] /\ ~(first <= i /\ j <= last)
      <4>1. CASE i \notin first .. last /\ j \notin first .. last
        <5>1. array'[i] = array[i] /\ array'[j] = array[j]
          BY <2>3, <2>4, <2>5, <4>1
        <5> QED BY <3>3, <5>1
      <4>2. CASE i \notin first .. last /\ j \in first .. last
        <5>1. array'[i] = array[i] /\ i < first
          BY <2>3, <2>4, <2>5, <2>14, <4>2
        <5>2. PICK k \in first .. last : array'[j] = array[k] /\ k \in 0 .. Size - 1
          BY <2>3, <2>4, <2>5, <4>2
        <5>3. array[i] <= array[k]
          BY <2>2, <2>3, <5>1, <5>2, Outside
        <5> QED BY <5>1, <5>2, <5>3
      <4>3. CASE i \in first .. last /\ j \notin first .. last
        <5>1. array'[j] = array[j] /\ j > last
          BY <2>3, <2>4, <2>5, <2>14, <4>3
        <5>2. PICK k \in first .. last : array'[i] = array[k] /\ k \in 0 .. Size - 1
          BY <2>3, <2>4, <2>5, <4>3
        <5>3. array[k] <= array[j]
          BY <2>2, <2>3, <5>1, <5>2, Outside
        <5> QED BY <5>1, <5>2, <5>3
      <4> QED BY <2>3, <2>14, <3>3, <4>1, <4>2, <4>3
    <3> QED BY <1>4, <2>14, <3>1, <3>2, <3>3, Zenon
  <2>15. \A v : K!Count(array, v)' = K!Count(input, v)'
    BY <1>1, <1>5, <2>6, SizeIs, Zenon DEF K!Count
  <2> QED BY <1>1, <1>2, <2>1, <2>2, <2>5, <2>13, <2>14, <2>15 DEF SortInv
<1>12. CASE K!Return
  <2>1. /\ stack = <<>> /\ qpc = "quicksort" /\ qpc' = "done"
        /\ UNCHANGED <<array, stack, first, last, up, down, piv>>
    BY <1>12 DEF K!Return
  <2>2. ~Partition /\ ~Partition'
    BY <2>1 DEF Partition
  <2>3. RangesInv' /\ \A i, j : Together(i, j)' <=> Together(i, j)
    BY <1>2, <1>3, <2>1, <2>2 DEF RangesInv, Together
  <2>4. \A v : K!Count(array, v)' = K!Count(input, v)'
    BY <1>6, <2>1
  <2> QED BY <1>1, <1>2, <2>1, <2>2, <2>3, <2>4 DEF SortInv
<1>13. CASE UNCHANGED K!vars
  <2>1. UNCHANGED <<input, array, stack, first, last, up, down, piv, qpc>>
    BY <1>13 DEF K!vars
  <2>2. UNCHANGED Partition
    BY <2>1 DEF Partition
  <2>3. RangesInv' /\ \A i, j : Together(i, j)' <=> Together(i, j)
    BY <1>2, <1>3, <2>1, <2>2 DEF RangesInv, Together
  <2>4. Partition => PartInv'
    BY <2>1 DEF SortInv, PartInv
  <2>5. \A v : K!Count(array, v)' = K!Count(input, v)'
    BY <1>6, <2>1
  <2> QED BY <1>2, <2>1, <2>2, <2>3, <2>4, <2>5 DEF SortInv
<1> QED BY <1>7, <1>8, <1>9, <1>10, <1>11, <1>12, <1>13 DEF K!Next

(* prog_quicksort.c with arrays of any length and any integers: partition    *)
(* stays in its range, and what is printed is what was given, in order.      *)
THEOREM SortsRight == K!Spec => []K!Sorted
<1>1. K!Init => SortInv
  <2> SUFFICES ASSUME K!Init PROVE SortInv
    OBVIOUS
  <2>1. /\ input \in Arrays /\ array = input /\ stack = <<<<0, Size - 1>>>>
        /\ qpc = "quicksort"
    BY SizeIs, Zenon DEF K!Init, Size
  <2>2. Size \in Nat /\ input \in [0 .. Size - 1 -> Int]
    BY <2>1, ArraysAssumption, FS_CardinalityType DEF Size
  <2>3. ~Partition
    BY <2>1 DEF Partition
  <2>4. /\ stack \in Seq(Int \X Int) /\ Len(stack) = 1 /\ stack[1][1] = 0
        /\ stack[1][2] = Size - 1 /\ 1 .. 1 = {1}
    BY <2>1, <2>2
  <2>5. RangesInv
    BY <2>2, <2>3, <2>4 DEF RangesInv
  <2>6. \A i, j \in 0 .. Size - 1 : Together(i, j)
    BY <2>2, <2>4 DEF Together
  <2> QED BY <2>1, <2>2, <2>3, <2>5, <2>6 DEF SortInv
<1>2. SortInv => K!Sorted
  <2> SUFFICES ASSUME SortInv PROVE K!Sorted
    OBVIOUS
  <2>1. qpc \in {"up", "down", "while"} => up \in first .. last /\ down \in first .. last
    BY DEF SortInv, Partition, PartInv
  <2>2. ASSUME qpc = "done" PROVE \A i, j \in DOMAIN array : i < j => array[i] <= array[j]
    <3>1. DOMAIN array = 0 .. Size - 1 /\ stack = <<>> /\ ~Partition
      BY <2>2 DEF SortInv, Partition
    <3>2. \A i, j : ~Together(i, j)
      BY <3>1 DEF Together
    <3> QED BY <3>1, <3>2 DEF SortInv
  <2> QED BY <2>1, <2>2 DEF SortInv, K!Sorted
<1> QED BY <1>1, <1>2, SortStep, PTL DEF K!Spec

-----------------------------------------------------------------------------
(* The contest solutions: coins and strikes *)

(* The multiples of h below i * h are those below (i + 1) * h but the last.  *)
LEMMA Multiples ==
    ASSUME NEW h \in Nat \ {0}, NEW i \in Nat \ {0}, NEW d \in Nat
    PROVE  /\ i * h \in Nat \ {0} /\ (i * h) % h = 0
           /\ (i + 1) * h > i * h
           /\ d % h = 0 /\ d < (i + 1) * h => d < i * h \/ d = i * h
<1> DEFINE q == d \div h
<1>1. d = h * q + (d % h) /\ q \in Int /\ d % h \in 0 .. h - 1
    OBVIOUS
<1>2. i * h \in Nat \ {0}
    OBVIOUS
<1>3. (i * h) % h = 0
    OBVIOUS
<1>4. (i + 1) * h = i * h + h
    OBVIOUS
<1> HIDE DEF q
<1>5. ASSUME d % h = 0, d < (i + 1) * h, ~(d < i * h)
      PROVE  d = i * h
  <2>1. h * q < h * (i + 1) /\ h * q >= h * i
    BY <1>1, <1>5
  <2>2. q < i + 1
    BY <1>1, <2>1
  <2>3. q >= i
    BY <1>1, <2>1
  <2> QED BY <1>1, <1>5, <2>2, <2>3
<1> QED BY <1>2, <1>3, <1>4, <1>5

LEMMA DayCount == \A set : C!Cardinality(set) = Cardinality(set)
    BY DEF C!Cardinality, Cardinality

(* The working days on which one of the parties before strikes, and those    *)
(* before day index * h on which the party h does.                           *)
Working(d) == d % 7 \notin {0, 6}
Struck == {d \in 1 .. daysCount : Working(d) /\ \E k \in 1 .. Len(cases) : d % cases[k] = 0}
Strikes(h, i) == {d \in 1 .. daysCount : Working(d) /\ d % h = 0 /\ d < i * h}

BandhInv ==
    /\ daysCount \in Nat /\ index \in Nat \ {0}
    /\ cases \in Seq(Nat \ {0}) /\ parties \in Seq(Nat \ {0})
    /\ workingSet = Struck \cup (IF parties = <<>> THEN {} ELSE Strikes(Head(parties), index))
    /\ cases # <<>> => shown[1] = Cardinality(Struck)

(* The first day a party strikes, one more of its days, and all of them.     *)
LEMMA StrikesAre ==
    ASSUME daysCount \in Nat, NEW h \in Nat \ {0}, NEW i \in Nat \ {0}
    PROVE  /\ Strikes(h, 1) = {}
           /\ i * h <= daysCount =>
                 Strikes(h, i + 1) = Strikes(h, i)
                     \cup (IF Working(i * h) THEN {i * h} ELSE {})
           /\ i * h > daysCount =>
                 Strikes(h, i) = {d \in 1 .. daysCount : Working(d) /\ d % h = 0}
<1>1. Strikes(h, 1) = {}
  <2>1. \A d \in 1 .. daysCount : d < h => d % h = d
    OBVIOUS
  <2>2. 1 * h = h
    OBVIOUS
  <2> QED BY <2>1, <2>2 DEF Strikes
<1> DEFINE p == i * h
           q == (i + 1) * h
<1>2. /\ p \in Nat \ {0} /\ p % h = 0 /\ q > p /\ q \in Nat
      /\ \A d \in 1 .. daysCount : d % h = 0 /\ d < q => d < p \/ d = p
  <2>1. \A d \in 1 .. daysCount : d \in Nat
    OBVIOUS
  <2>2. q \in Nat
    OBVIOUS
  <2> QED BY <2>1, <2>2, Multiples
<1>3. Strikes(h, i) = {d \in 1 .. daysCount : Working(d) /\ d % h = 0 /\ d < p}
    BY DEF Strikes
<1>4. Strikes(h, i + 1) = {d \in 1 .. daysCount : Working(d) /\ d % h = 0 /\ d < q}
    BY DEF Strikes
<1> HIDE DEF p, q
<1>5. ASSUME p <= daysCount
      PROVE  Strikes(h, i + 1) = Strikes(h, i) \cup (IF Working(p) THEN {p} ELSE {})
  <2>1. p \in 1 .. daysCount
    BY <1>2, <1>5
  <2>2. \A d \in 1 .. daysCount : d < p => d < q
    BY <1>2
  <2> QED BY <1>2, <1>3, <1>4, <2>1, <2>2
<1>6. ASSUME p > daysCount
      PROVE  Strikes(h, i) = {d \in 1 .. daysCount : Working(d) /\ d % h = 0}
  <2>1. \A d \in 1 .. daysCount : d < p
    BY <1>2, <1>6
  <2> QED BY <1>3, <2>1
<1> QED BY <1>1, <1>5, <1>6 DEF p

LEMMA BandhStep ==
    ASSUME BandhInv, C!BandhDay \/ C!NextParty
    PROVE  BandhInv'
<1> DEFINE h == Head(parties)
<1>1. /\ daysCount \in Nat /\ index \in Nat \ {0} /\ parties # <<>>
      /\ cases \in Seq(Nat \ {0}) /\ parties \in Seq(Nat \ {0})
      /\ workingSet = Struck \cup Strikes(h, index) /\ UNCHANGED daysCount
    BY DEF BandhInv, C!BandhDay, C!NextParty
<1>2. h \in Nat \ {0} /\ Tail(parties) \in Seq(Nat \ {0})
    BY <1>1
<1> HIDE DEF h
<1>3. CASE C!BandhDay
  <2>1. /\ index * h <= daysCount /\ index' = index + 1 /\ UNCHANGED <<cases, shown, parties>>
        /\ workingSet' = IF (index * h) % 7 > 0 /\ (index * h) % 7 < 6
                         THEN workingSet \cup {index * h} ELSE workingSet
    BY <1>3 DEF C!BandhDay, h
  <2>2. Working(index * h) <=> (index * h) % 7 > 0 /\ (index * h) % 7 < 6
    <3> DEFINE d == index * h
    <3>1. d \in Nat
      BY <1>1, <1>2
    <3> HIDE DEF d
    <3>2. Working(d) <=> d % 7 > 0 /\ d % 7 < 6
      BY <3>1 DEF Working
    <3> QED BY <3>2 DEF d
  <2>3. Strikes(h, index + 1) = Strikes(h, index)
                                   \cup (IF Working(index * h) THEN {index * h} ELSE {})
    BY <1>1, <1>2, <2>1, StrikesAre
  <2>4. Struck' = Struck
    BY <1>1, <2>1 DEF Struck
  <2>5. (IF parties = <<>> THEN {} ELSE Strikes(Head(parties), index))'
           = Strikes(h, index + 1)
    BY <1>1, <2>1 DEF Strikes, h
  <2>6. workingSet' = Struck \cup Strikes(h, index + 1)
    BY <1>1, <2>1, <2>2, <2>3
  <2> QED BY <1>1, <2>1, <2>4, <2>5, <2>6 DEF BandhInv
<1>4. CASE C!NextParty
  <2>1. /\ index * h > daysCount /\ index' = 1 /\ UNCHANGED workingSet
        /\ cases' = Append(cases, h) /\ parties' = Tail(parties)
        /\ shown' = <<C!Cardinality(workingSet)>>
    BY <1>4 DEF C!NextParty, h
  <2>2. /\ cases' \in Seq(Nat \ {0}) /\ cases' # <<>> /\ Len(cases') = Len(cases) + 1
        /\ Len(cases) \in Nat /\ cases'[Len(cases) + 1] = h
        /\ \A k \in 1 .. Len(cases) : cases'[k] = cases[k]
    <3>1. \A c \in Seq(Nat \ {0}), x \in Nat \ {0} :
             /\ Append(c, x) \in Seq(Nat \ {0}) /\ Append(c, x) # <<>>
             /\ Len(Append(c, x)) = Len(c) + 1 /\ Len(c) \in Nat
             /\ Append(c, x)[Len(c) + 1] = x
             /\ \A k \in 1 .. Len(c) : Append(c, x)[k] = c[k]
      OBVIOUS
    <3> QED BY <1>1, <1>2, <2>1, <3>1, Zenon
  <2>3. \A d : (\E k \in 1 .. Len(cases') : d % cases'[k] = 0) <=>
                  (\E k \in 1 .. Len(cases) : d % cases[k] = 0) \/ d % h = 0
    <3>1. 1 .. Len(cases') = 1 .. Len(cases) \cup {Len(cases) + 1}
      BY <2>2
    <3> QED BY <2>2, <3>1, Zenon
  <2>4. Struck' = Struck \cup {d \in 1 .. daysCount : Working(d) /\ d % h = 0}
    <3>1. Struck' = {d \in 1 .. daysCount :
                        Working(d) /\ \E k \in 1 .. Len(cases') : d % cases'[k] = 0}
      BY <1>1 DEF Struck, Working
    <3> QED BY <2>3, <3>1 DEF Struck
  <2>5. workingSet' = Struck'
    BY <1>1, <1>2, <2>1, <2>4, StrikesAre
  <2>6. (IF parties = <<>> THEN {} ELSE Strikes(Head(parties), index))' = {}
    <3>1. CASE parties' = <<>>
      BY <3>1
    <3>2. CASE parties' # <<>>
      <4>1. Head(parties') \in Nat \ {0} /\ 1 \in Nat \ {0}
        BY <1>2, <2>1, <3>2
      <4>2. Strikes(Head(parties'), 1) = {}
        BY <1>1, <4>1, StrikesAre
      <4>3. Strikes(Head(parties), index)' = Strikes(Head(parties'), 1)
        BY <1>1, <2>1 DEF Strikes, Working
      <4> QED BY <3>2, <4>2, <4>3
    <3> QED BY <3>1, <3>2
  <2>7. shown'[1] = Cardinality(Struck')
    BY <2>1, <2>5, DayCount
  <2>8. index' \in Nat \ {0} /\ daysCount' \in Nat /\ parties' \in Seq(Nat \ {0})
    BY <1>1, <1>2, <2>1
  <2>9. workingSet' = Struck' \cup (IF parties = <<>> THEN {} ELSE Strikes(Head(parties), index))'
    BY <2>5, <2>6
  <2> QED BY <2>2, <2>7, <2>8, <2>9, Zenon DEF BandhInv
<1> QED BY <1>3, <1>4

-----------------------------------------------------------------------------
(* A line of coins is answered with the last combination found, if any.      *)

LEMMA CandidatesAre ==
    ASSUME NEW coins \in Int
    PROVE  /\ C!Candidates(coins, 3) = C!Candidates(coins, 1)
           /\ C!Candidates(coins, 1) = {} <=> ~C!Solvable(coins)
           /\ \A p \in C!Candidates(coins, 1) :
                 /\ p[1] \in Nat /\ p[1] >= 1 /\ p[2] \in Nat /\ p[2] >= 1
                 /\ p[2] < coins - p[1] /\ 15 * p[1] + p[2] = 3 * coins
                 /\ C!Pays(coins, p[1], p[2])

<1> DEFINE all == C!Candidates(coins, 1)
<1>1. \A n \in 1 .. coins - 1, m \in 1 .. coins :
         C!Pays(coins, n, m) => 15 * n + m = 3 * coins /\ m % 3 = 0 /\ m % 1 = 0
  <2> SUFFICES ASSUME NEW n \in 1 .. coins - 1, NEW m \in 1 .. coins, C!Pays(coins, n, m)
               PROVE  15 * n + m = 3 * coins /\ m % 3 = 0 /\ m % 1 = 0
    OBVIOUS
  <2>1. 15 * n + m = 3 * coins
    BY DEF C!Pays
  <2> QED BY <2>1
<1>2. \A p : p \in all <=>
         /\ p \in (1 .. coins - 1) \X (1 .. coins)
         /\ p[2] < coins - p[1] /\ C!Pays(coins, p[1], p[2])
  <2>1. \A m \in 1 .. coins : m % 1 = 0
    OBVIOUS
  <2> QED BY <2>1 DEF C!Candidates
<1>3. C!Candidates(coins, 3) = all
  <2>1. \A p \in (1 .. coins - 1) \X (1 .. coins) :
           p[1] \in 1 .. coins - 1 /\ p[2] \in 1 .. coins
    OBVIOUS
  <2> QED BY <1>1, <2>1 DEF C!Candidates
<1> HIDE DEF all
<1>4. \A p \in all : /\ p[1] \in 1 .. coins - 1 /\ p[2] \in 1 .. coins
                     /\ p[2] < coins - p[1] /\ C!Pays(coins, p[1], p[2])
    BY <1>2
<1>5. ASSUME C!Solvable(coins) PROVE all # {}
  <2>1. PICK n \in 1 .. coins, m \in 1 .. coins : n + m < coins /\ C!Pays(coins, n, m)
    BY <1>5 DEF C!Solvable
  <2>2. n \in 1 .. coins - 1 /\ m < coins - n
    BY <2>1
  <2>3. <<n, m>> \in all
    BY <1>2, <2>1, <2>2
  <2> QED BY <2>3
<1>6. ASSUME NEW p \in all PROVE C!Solvable(coins)
  <2>1. /\ p[1] \in 1 .. coins - 1 /\ p[2] \in 1 .. coins
        /\ p[2] < coins - p[1] /\ C!Pays(coins, p[1], p[2])
    BY <1>4
  <2>2. p[1] \in 1 .. coins /\ p[1] + p[2] < coins
    BY <2>1
  <2> QED BY <2>1, <2>2 DEF C!Solvable
<1> QED BY <1>1, <1>3, <1>4, <1>5, <1>6 DEF all

(* The last one exists: the number of coins of 4 gives the others.           *)
LEMMA LastIs ==
    ASSUME NEW coins \in Int, C!Candidates(coins, 1) # {}
    PROVE  C!LastOf(C!Candidates(coins, 1)) \in C!Candidates(coins, 1)

<1> DEFINE all == C!Candidates(coins, 1)
           Above(n) == \A p \in all : p[1] <= n
           X == {n \in Nat : Above(n) => \E p \in all : \A q \in all : q[1] <= p[1]}
<1>1. \A p \in all : /\ p[1] \in Nat /\ p[1] >= 1 /\ p[2] \in Nat
                     /\ p[2] < coins - p[1] /\ 15 * p[1] + p[2] = 3 * coins
    BY CandidatesAre
<1>2. all # {} /\ all \subseteq (1 .. coins - 1) \X (1 .. coins)
    BY DEF C!Candidates
<1> HIDE DEF all
<1>3. 0 \in X
    BY <1>1, <1>2
<1>4. ASSUME NEW n \in Nat, n \in X PROVE n + 1 \in X
  <2>1. CASE Above(n)
    BY <1>4, <2>1
  <2>2. CASE ~Above(n)
    <3> SUFFICES ASSUME Above(n + 1)
                 PROVE  \E p \in all : \A q \in all : q[1] <= p[1]
      OBVIOUS
    <3>1. PICK p \in all : ~(p[1] <= n)
      BY <2>2
    <3>2. p[1] = n + 1
      BY <1>1, <3>1
    <3> QED BY <3>2
  <2> QED BY <2>1, <2>2
<1>5. \A n \in Nat : n \in X
  <2> HIDE DEF X
  <2> QED BY <1>3, <1>4, Induct
<1>6. PICK p \in all : \A q \in all : q[1] <= p[1]
  <2>1. PICK p \in all : TRUE
    BY <1>2
  <2>2. coins \in Nat
    BY <1>1, <2>1
  <2>3. Above(coins)
    BY <1>1
  <2> QED BY <1>5, <2>2, <2>3
<1>7. \A q \in all \ {p} : C!Later(p, q)
  <2> SUFFICES ASSUME NEW q \in all, q # p PROVE p[1] > q[1]
    BY DEF C!Later
  <2>1. q[1] <= p[1]
    BY <1>6
  <2>2. q[1] # p[1]
    <3>1. q = <<q[1], q[2]>> /\ p = <<p[1], p[2]>>
      BY <1>2
    <3>2. q[1] = p[1] => q[2] = p[2]
      BY <1>1
    <3> QED BY <2>1, <3>1, <3>2
  <2> QED BY <1>1, <2>1, <2>2
<1> QED BY <1>6, <1>7 DEF C!LastOf, all

CoinsInv ==
    /\ var \in Int /\ cases \in Seq(Int)
    /\ solution = C!None <=> \A k \in 1 .. Len(cases) : ~C!Solvable(cases[k])
    /\ cases # <<>> => C!CoinsRight

LEMMA CoinsStep ==
    ASSUME CoinsInv, task = "coins", NEW l \in CoinLines, C!CoinLine(l)
    PROVE  CoinsInv'
<1> DEFINE all == C!Candidates(var', 1)
           p == C!LastOf(all)
<1>1. /\ shown' = solution' /\ cases' = Append(cases, var') /\ UNCHANGED task
      /\ solution' = IF all = {} THEN solution ELSE C!Coins(var', p)
    BY DEF C!CoinLine, C!find_solution
<1>2. var' \in Int
    BY CoinLinesAssumption DEF C!CoinLine, CoinsInv
<1>3. all = {} <=> ~C!Solvable(var')
    BY <1>2, CandidatesAre
<1>4. all # {} => /\ p[1] \in Nat /\ p[1] >= 1 /\ p[2] \in Nat /\ p[2] >= 1
                  /\ p[2] < var' - p[1] /\ C!Pays(var', p[1], p[2])
    BY <1>2, CandidatesAre, LastIs
<1>5. /\ cases' \in Seq(Int) /\ cases' # <<>> /\ Len(cases') = Len(cases) + 1
      /\ Len(cases) \in Nat /\ cases'[Len(cases')] = var'
      /\ \A k \in 1 .. Len(cases) : cases'[k] = cases[k]
  <2>1. \A c \in Seq(Int), x \in Int :
           /\ Append(c, x) \in Seq(Int) /\ Append(c, x) # <<>>
           /\ Len(Append(c, x)) = Len(c) + 1 /\ Len(c) \in Nat
           /\ Append(c, x)[Len(Append(c, x))] = x
           /\ \A k \in 1 .. Len(c) : Append(c, x)[k] = c[k]
    OBVIOUS
  <2> QED BY <1>1, <1>2, <2>1, Zenon DEF CoinsInv
<1>6. (\A k \in 1 .. Len(cases') : ~C!Solvable(cases'[k])) <=>
           all = {} /\ \A k \in 1 .. Len(cases) : ~C!Solvable(cases[k])
  <2>1. 1 .. Len(cases') = 1 .. Len(cases) \cup {Len(cases')}
    BY <1>5
  <2> QED BY <1>3, <1>5, <2>1, Zenon
<1> HIDE DEF all, p
<1>7. all # {} => /\ solution' = <<p[1], p[2], var' - p[1] - p[2]>>
                  /\ solution' # C!None
    BY <1>1, <1>4 DEF C!Coins, C!None
<1>8. solution' = C!None <=> \A k \in 1 .. Len(cases') : ~C!Solvable(cases'[k])
    BY <1>1, <1>6, <1>7 DEF CoinsInv
<1>9. C!Solvable(var') =>
         /\ shown'[1] + shown'[2] + shown'[3] = var'
         /\ C!Pays(var', shown'[1], shown'[2])
         /\ \A k \in 1 .. 3 : shown'[k] >= 1
  <2> SUFFICES ASSUME C!Solvable(var')
               PROVE  /\ shown'[1] + shown'[2] + shown'[3] = var'
                      /\ C!Pays(var', shown'[1], shown'[2])
                      /\ \A k \in 1 .. 3 : shown'[k] >= 1
    OBVIOUS
  <2>1. shown'[1] = p[1] /\ shown'[2] = p[2] /\ shown'[3] = var' - p[1] - p[2]
    BY <1>1, <1>3, <1>7
  <2> QED BY <1>2, <1>3, <1>4, <2>1
<1>10. C!Optimized(var') = C!findAllCombinationsOfNIntoThreeBins(var')
    BY <1>2, CandidatesAre, Zenon DEF C!Optimized, C!findAllCombinationsOfNIntoThreeBins
<1>11. C!CoinsRight'
    BY <1>1, <1>5, <1>8, <1>9, <1>10, Zenon DEF C!CoinsRight
<1> QED BY <1>2, <1>5, <1>8, <1>11, Zenon DEF CoinsInv

-----------------------------------------------------------------------------
(* The drive *)

(* The products 1, h[1], h[1] * h[2], ... up to the n-th. *)
Products(h, n, f) == f = [k \in 0 .. n |-> IF k = 0 THEN 1 ELSE h[k] * f[k - 1]]

LEMMA ProductsExist == \A h : \A n \in Nat : \E f : Products(h, n, f)
<1> TAKE h
<1> DEFINE X == {n \in Nat : \E f : Products(h, n, f)}
<1>1. 0 \in X
  <2> DEFINE g == [k \in 0 .. 0 |-> 1]
  <2>1. Products(h, 0, g)
    BY DEF Products
  <2> HIDE DEF g
  <2> QED BY <2>1
<1>2. ASSUME NEW n \in Nat, n \in X PROVE n + 1 \in X
  <2>1. PICK f : Products(h, n, f)
    BY <1>2
  <2> DEFINE t == h[n + 1] * f[n]
             g == [k \in 0 .. n + 1 |-> IF k <= n THEN f[k] ELSE t]
  <2>2. ASSUME NEW k \in 0 .. n + 1
        PROVE  g[k] = IF k = 0 THEN 1 ELSE h[k] * g[k - 1]
    <3>1. CASE k = 0
      <4>1. f[k] = 1
        BY <2>1, <3>1 DEF Products
      <4> QED BY <3>1, <4>1
    <3>2. CASE k \in 1 .. n
      <4>1. f[k] = h[k] * f[k - 1]
        BY <2>1, <3>2 DEF Products
      <4>2. g[k] = f[k] /\ g[k - 1] = f[k - 1] /\ k # 0
        BY <3>2
      <4> QED BY <4>1, <4>2
    <3>3. CASE k = n + 1
      <4>1. k # 0 /\ g[k] = t /\ g[k - 1] = f[n]
        BY <3>3
      <4> QED BY <3>3, <4>1
    <3> QED BY <3>1, <3>2, <3>3
  <2>3. Products(h, n + 1, g)
    BY <2>2 DEF Products
  <2> HIDE DEF g
  <2> QED BY <2>3
<1> HIDE DEF X
<1>3. \A n \in Nat : n \in X
    BY <1>1, <1>2, Induct
<1> QED BY <1>3 DEF X

(* One more factor. *)
LEMMA ProductsGrow ==
    ASSUME NEW h, NEW n \in Nat, NEW f, NEW g, Products(h, n, f), Products(h, n + 1, g)
    PROVE  g[n + 1] = h[n + 1] * f[n] /\ f[0] = 1
<1>1. \A k \in 0 .. n : f[k] = IF k = 0 THEN 1 ELSE h[k] * f[k - 1]
    BY DEF Products
<1>2. \A k \in 0 .. n + 1 : g[k] = IF k = 0 THEN 1 ELSE h[k] * g[k - 1]
    BY DEF Products
<1> DEFINE X == {k \in Nat : k <= n => f[k] = g[k]}
<1>3. 0 \in X
    BY <1>1, <1>2
<1>4. ASSUME NEW k \in Nat, k \in X PROVE k + 1 \in X
  <2> SUFFICES ASSUME k + 1 <= n PROVE f[k + 1] = g[k + 1]
    OBVIOUS
  <2>1. f[k] = g[k] /\ k + 1 \in 0 .. n /\ k + 1 \in 0 .. n + 1 /\ k + 1 # 0 /\ (k + 1) - 1 = k
    BY <1>4
  <2>2. f[k + 1] = h[k + 1] * f[k]
    BY <1>1, <2>1
  <2>3. g[k + 1] = h[k + 1] * g[k]
    BY <1>2, <2>1
  <2> QED BY <2>1, <2>2, <2>3
<1> HIDE DEF X
<1>5. \A k \in Nat : k \in X
    BY <1>3, <1>4, Induct
<1>6. f[n] = g[n]
    BY <1>5 DEF X
<1>7. n + 1 \in 0 .. n + 1 /\ n + 1 # 0 /\ (n + 1) - 1 = n /\ 0 \in 0 .. n
    OBVIOUS
<1>8. g[n + 1] = h[n + 1] * g[n]
    BY <1>2, <1>7
<1>9. f[0] = 1
    BY <1>1, <1>7
<1> QED BY <1>6, <1>8, <1>9

LEMMA PowIs ==
    ASSUME NEW b \in {2, 3}
    PROVE  /\ C!pow(b, 0) = 1
           /\ \A n \in Nat : C!pow(b, n + 1) = b * C!pow(b, n) /\ C!pow(b, n) \in Nat \ {0}
<1> DEFINE h == [k \in Nat |-> b]
           Of(n, f) == f = [k \in 0 .. n |-> IF k = 0 THEN 1 ELSE b * f[k - 1]]
           table(n) == CHOOSE f : Of(n, f)
<1>1. ASSUME NEW n \in Nat, NEW f PROVE Of(n, f) <=> Products(h, n, f)
    BY DEF Products
<1>2. ASSUME NEW n \in Nat PROVE Products(h, n, table(n)) /\ C!pow(b, n) = table(n)[n]
  <2>1. \E f : Of(n, f)
    BY <1>1, ProductsExist
  <2>2. C!pow(b, n) = table(n)[n]
    BY DEF C!pow
  <2> HIDE DEF Of
  <2>3. Of(n, table(n))
    BY <2>1
  <2> QED BY <1>1, <2>2, <2>3
<1>3. \A k \in Nat : h[k] = b
    OBVIOUS
<1> HIDE DEF h, Of, table
<1>4. ASSUME NEW n \in Nat
      PROVE  C!pow(b, n + 1) = b * C!pow(b, n) /\ table(n)[0] = 1
  <2>1. n + 1 \in Nat
    OBVIOUS
  <2>2. table(n + 1)[n + 1] = h[n + 1] * table(n)[n] /\ table(n)[0] = 1
    BY <1>2, <2>1, ProductsGrow
  <2> QED BY <1>2, <1>3, <2>1, <2>2
<1>5. C!pow(b, 0) = 1
    BY <1>2, <1>4
<1> DEFINE X == {n \in Nat : C!pow(b, n) \in Nat \ {0}}
<1>6. 0 \in X
    BY <1>5
<1>7. ASSUME NEW n \in Nat, n \in X PROVE n + 1 \in X
  <2>1. C!pow(b, n + 1) = b * C!pow(b, n) /\ C!pow(b, n) \in Nat \ {0}
    BY <1>4, <1>7
  <2> QED BY <2>1
<1> HIDE DEF X
<1>8. \A n \in Nat : n \in X
    BY <1>6, <1>7, Induct
<1> QED BY <1>4, <1>5, <1>8 DEF X

LEMMA FactorialIs ==
    /\ C!Factorial(0) = 1
    /\ \A n \in Nat : /\ C!Factorial(n + 1) = (n + 1) * C!Factorial(n)
                      /\ C!Factorial(n) \in Nat \ {0}
<1> DEFINE h == [k \in Nat |-> k]
           Of(n, f) == f = [k \in 0 .. n |-> IF k = 0 THEN 1 ELSE k * f[k - 1]]
           table(n) == CHOOSE f : Of(n, f)
<1>1. ASSUME NEW n \in Nat, NEW f PROVE Of(n, f) <=> Products(h, n, f)
    BY DEF Products
<1>2. ASSUME NEW n \in Nat PROVE Products(h, n, table(n)) /\ C!Factorial(n) = table(n)[n]
  <2>1. \E f : Of(n, f)
    BY <1>1, ProductsExist
  <2>2. C!Factorial(n) = table(n)[n]
    BY DEF C!Factorial
  <2> HIDE DEF Of
  <2>3. Of(n, table(n))
    BY <2>1
  <2> QED BY <1>1, <2>2, <2>3
<1>3. \A k \in Nat : h[k] = k
    OBVIOUS
<1> HIDE DEF h, Of, table
<1>4. ASSUME NEW n \in Nat
      PROVE  C!Factorial(n + 1) = (n + 1) * C!Factorial(n) /\ table(n)[0] = 1
  <2>1. n + 1 \in Nat
    OBVIOUS
  <2>2. table(n + 1)[n + 1] = h[n + 1] * table(n)[n] /\ table(n)[0] = 1
    BY <1>2, <2>1, ProductsGrow
  <2> QED BY <1>2, <1>3, <2>1, <2>2
<1>5. C!Factorial(0) = 1
    BY <1>2, <1>4
<1> DEFINE X == {n \in Nat : C!Factorial(n) \in Nat \ {0}}
<1>6. 0 \in X
    BY <1>5
<1>7. ASSUME NEW n \in Nat, n \in X PROVE n + 1 \in X
  <2> DEFINE m == C!Factorial(n)
  <2>1. C!Factorial(n + 1) = (n + 1) * m /\ m \in Nat /\ m > 0
    BY <1>4, <1>7
  <2> HIDE DEF m
  <2>2. (n + 1) * m = n * m + m /\ n * m >= 0 /\ n * m \in Int
    BY <2>1
  <2> QED BY <2>1, <2>2
<1> HIDE DEF X
<1>8. \A n \in Nat : n \in X
    BY <1>6, <1>7, Induct
<1> QED BY <1>4, <1>5, <1>8 DEF X

(* How often p divides the numbers up to n. *)
Divided(p, n, f) ==
    f = [j \in 0 .. n |-> IF j = 0 \/ j % p # 0 THEN 0 ELSE 1 + f[j \div p]]

LEMMA Quotients ==
    ASSUME NEW p \in {2, 3}, NEW j \in Nat
    PROVE  /\ j # 0 => j \div p \in 0 .. j - 1
           /\ (p * j) % p = 0 /\ (p * j) \div p = j
<1>1. CASE p = 2
  <2>1. (2 * j) % 2 = 0 /\ (2 * j) \div 2 = j /\ (j # 0 => j \div 2 \in 0 .. j - 1)
    OBVIOUS
  <2> QED BY <1>1, <2>1
<1>2. CASE p = 3
  <2>1. (3 * j) % 3 = 0 /\ (3 * j) \div 3 = j /\ (j # 0 => j \div 3 \in 0 .. j - 1)
    OBVIOUS
  <2> QED BY <1>2, <2>1
<1> QED BY <1>1, <1>2

LEMMA DividedExist == \A p \in {2, 3} : \A n \in Nat : \E f : Divided(p, n, f)
<1> TAKE p \in {2, 3}
<1> DEFINE X == {n \in Nat : \E f : Divided(p, n, f)}
<1>1. 0 \in X
  <2> DEFINE g == [j \in 0 .. 0 |-> 0]
  <2>1. Divided(p, 0, g)
    BY DEF Divided
  <2> HIDE DEF g
  <2> QED BY <2>1
<1>2. ASSUME NEW n \in Nat, n \in X PROVE n + 1 \in X
  <2>1. PICK f : Divided(p, n, f)
    BY <1>2
  <2> DEFINE t == IF (n + 1) % p # 0 THEN 0 ELSE 1 + f[(n + 1) \div p]
             g == [j \in 0 .. n + 1 |-> IF j <= n THEN f[j] ELSE t]
  <2>2. ASSUME NEW j \in 0 .. n + 1
        PROVE  g[j] = IF j = 0 \/ j % p # 0 THEN 0 ELSE 1 + g[j \div p]
    <3>1. CASE j = 0
      <4>1. f[j] = 0
        BY <2>1, <3>1 DEF Divided
      <4> QED BY <3>1, <4>1
    <3>2. CASE j \in 1 .. n
      <4>1. f[j] = IF j % p # 0 THEN 0 ELSE 1 + f[j \div p]
        BY <2>1, <3>2 DEF Divided
      <4>2. j \div p \in 0 .. j - 1
        BY <3>2, Quotients
      <4>3. g[j] = f[j] /\ g[j \div p] = f[j \div p] /\ j # 0
        BY <3>2, <4>2
      <4> QED BY <4>1, <4>3
    <3>3. CASE j = n + 1
      <4>1. (n + 1) \div p \in 0 .. (n + 1) - 1
        <5>1. n + 1 \in Nat /\ n + 1 # 0
          OBVIOUS
        <5> QED BY <5>1, Quotients
      <4>2. g[j] = t /\ g[j \div p] = f[(n + 1) \div p] /\ j # 0
        BY <3>3, <4>1
      <4> QED BY <3>3, <4>2
    <3> QED BY <3>1, <3>2, <3>3
  <2>3. Divided(p, n + 1, g)
    BY <2>2 DEF Divided
  <2> HIDE DEF g
  <2> QED BY <2>3
<1> HIDE DEF X
<1>3. \A n \in Nat : n \in X
    BY <1>1, <1>2, Induct
<1> QED BY <1>3 DEF X

(* The exponent of a number is that of the table up to it. *)
LEMMA ExponentIs ==
    ASSUME NEW p \in {2, 3}, NEW k \in Nat
    PROVE  \E f : /\ C!Exponent(k, p) = f[k]
                  /\ \A j \in 0 .. k :
                        f[j] = IF j = 0 \/ j % p # 0 THEN 0 ELSE 1 + f[j \div p]
<1> DEFINE f == CHOOSE g : Divided(p, k, g)
<1>1. Divided(p, k, f)
    BY DividedExist
<1>2. C!Exponent(k, p) = f[k]
    BY DEF C!Exponent, Divided
<1> HIDE DEF f
<1>3. \A j \in 0 .. k : f[j] = IF j = 0 \/ j % p # 0 THEN 0 ELSE 1 + f[j \div p]
    BY <1>1 DEF Divided
<1> QED BY <1>2, <1>3

(* The primes asked for first and last. *)
Orders == {<<2, 3>>, <<3, 2>>}

LEMMA ExponentsAre ==
    ASSUME NEW o \in Orders, NEW m \in Nat
    PROVE  LET k == C!pow(o[1], m) * o[2]
           IN  C!Exponent(k, o[1]) = m /\ C!Exponent(k, o[2]) = 1
<1> DEFINE p == o[1]
           q == o[2]
           w(n) == C!pow(p, n)
           c(n) == w(n) * q
<1>1. p \in {2, 3} /\ q \in {2, 3} /\ q % p # 0 /\ (p = 2 => q = 3) /\ (p = 3 => q = 2)
    BY DEF Orders
<1>2. /\ w(0) = 1
      /\ \A n \in Nat : w(n + 1) = p * w(n) /\ w(n) \in Nat \ {0}
    BY <1>1, PowIs
<1> HIDE DEF p, q, w
<1>3. ASSUME NEW n \in Nat PROVE c(n + 1) = p * c(n) /\ c(n) \in Nat /\ c(n) # 0
  <2>1. w(n + 1) = p * w(n) /\ w(n) \in Nat /\ w(n) # 0
    BY <1>2
  <2> DEFINE v == w(n)
  <2> HIDE DEF v
  <2>2. CASE p = 2 /\ q = 3
    BY <2>1, <2>2 DEF v
  <2>3. CASE p = 3 /\ q = 2
    BY <2>1, <2>3 DEF v
  <2> QED BY <1>1, <2>2, <2>3
<1>4. c(0) = q /\ c(m) \in Nat /\ c(m) # 0
    BY <1>1, <1>2, <1>3
<1> DEFINE k == c(m)
<1>5. C!Exponent(k, p) = m
  <2>1. PICK f : /\ C!Exponent(k, p) = f[k]
                 /\ \A j \in 0 .. k :
                        f[j] = IF j = 0 \/ j % p # 0 THEN 0 ELSE 1 + f[j \div p]
    BY <1>1, <1>4, ExponentIs
  <2> DEFINE X == {n \in Nat : c(n) <= k => f[c(n)] = n}
  <2> HIDE DEF c
  <2>2. 0 \in X
    <3> SUFFICES ASSUME c(0) <= k PROVE f[c(0)] = 0
      OBVIOUS
    <3>1. q \in 0 .. k
      BY <1>1, <1>4
    <3> QED BY <1>1, <1>4, <2>1, <3>1
  <2>3. ASSUME NEW n \in Nat, n \in X PROVE n + 1 \in X
    <3> SUFFICES ASSUME c(n + 1) <= k PROVE f[c(n + 1)] = n + 1
      OBVIOUS
    <3>1. c(n + 1) = p * c(n) /\ c(n) \in Nat /\ c(n) # 0 /\ c(n + 1) \in Nat /\ c(n + 1) # 0
      BY <1>3
    <3>2. c(n + 1) % p = 0 /\ c(n + 1) \div p = c(n)
      BY <1>1, <3>1, Quotients
    <3>3. c(n) <= c(n + 1)
      BY <1>1, <3>1, <3>2, Quotients
    <3>4. c(n) <= k /\ c(n + 1) \in 0 .. k
      BY <1>4, <3>1, <3>3
    <3>5. f[c(n + 1)] = 1 + f[c(n)]
      BY <2>1, <3>1, <3>2, <3>4
    <3> QED BY <2>3, <3>4, <3>5
  <2> HIDE DEF X
  <2>4. \A n \in Nat : n \in X
    BY <2>2, <2>3, Induct
  <2>5. f[c(m)] = m
    BY <1>4, <2>4 DEF X
  <2> QED BY <2>1, <2>5
<1>6. C!Exponent(k, q) = 1
  <2>1. PICK f : /\ C!Exponent(k, q) = f[k]
                 /\ \A j \in 0 .. k :
                        f[j] = IF j = 0 \/ j % q # 0 THEN 0 ELSE 1 + f[j \div q]
    BY <1>1, <1>4, ExponentIs
  <2> DEFINE X == {n \in Nat : w(n) % q # 0}
  <2>2. 0 \in X
    BY <1>1, <1>2
  <2>3. ASSUME NEW n \in Nat, n \in X PROVE n + 1 \in X
    <3>1. w(n + 1) = p * w(n) /\ w(n) \in Nat /\ w(n) % q # 0
      BY <1>2, <2>3
    <3> DEFINE v == w(n)
    <3>2. CASE p = 2 /\ q = 3
      <4>1. v \in Nat /\ v % 3 # 0
        BY <3>1, <3>2
      <4> HIDE DEF v
      <4>2. (2 * v) % 3 # 0
        BY <4>1
      <4> QED BY <3>1, <3>2, <4>2 DEF v
    <3>3. CASE p = 3 /\ q = 2
      <4>1. v \in Nat /\ v % 2 # 0
        BY <3>1, <3>3
      <4> HIDE DEF v
      <4>2. (3 * v) % 2 # 0
        BY <4>1
      <4> QED BY <3>1, <3>3, <4>2 DEF v
    <3> QED BY <1>1, <3>2, <3>3
  <2> HIDE DEF X
  <2>4. \A n \in Nat : n \in X
    BY <2>2, <2>3, Induct
  <2>5. w(m) % q # 0 /\ w(m) \in Nat
    BY <1>2, <2>4 DEF X
  <2>6. k = q * w(m) /\ k # 0
    BY <1>1, <1>4, <2>5
  <2> HIDE DEF c
  <2>7. k % q = 0 /\ k \div q = w(m)
    BY <1>1, <2>5, <2>6, Quotients
  <2>8. w(m) \in 0 .. k /\ k \in 0 .. k
    BY <1>1, <1>4, <2>5, <2>6, <2>7, Quotients
  <2>9. f[k] = 1 + f[w(m)] /\ f[w(m)] = 0
    BY <2>1, <2>5, <2>6, <2>7, <2>8
  <2> QED BY <2>1, <2>9
<1> QED BY <1>5, <1>6 DEF p, q, w

LEMMA Arranged ==
    ASSUME NEW m \in Nat, NEW k, NEW a, NEW b, a + b = m + 1, {a, b} = {m, 1},
           C!Exponent(k, 2) = a, C!Exponent(k, 3) = b
    PROVE  C!Arrangements(k) = m + 1
<1> DEFINE n == C!Factorial(m)
<1>1. n \in Nat /\ n > 0 /\ C!Factorial(m + 1) = (m + 1) * n
  <2>1. \A j \in Nat : /\ C!Factorial(j + 1) = (j + 1) * C!Factorial(j)
                        /\ C!Factorial(j) \in Nat \ {0}
    BY FactorialIs, Zenon
  <2>2. /\ C!Factorial(m + 1) = (m + 1) * C!Factorial(m)
        /\ C!Factorial(m) \in Nat \ {0}
    BY <2>1, Zenon
  <2> QED BY <2>2
<1>2. C!Factorial(1) = 1
  <2>1. C!Factorial(0) = 1
    BY FactorialIs, Zenon
  <2>2. \A j \in Nat : C!Factorial(j + 1) = (j + 1) * C!Factorial(j)
    BY FactorialIs, Zenon
  <2>3. C!Factorial(0 + 1) = (0 + 1) * C!Factorial(0)
    BY <2>2
  <2>4. 0 + 1 = 1 /\ 1 * 1 = 1
    OBVIOUS
  <2> QED BY <2>1, <2>3, <2>4
<1>3. C!Arrangements(k) = C!Factorial(a + b) \div (C!Factorial(a) * C!Factorial(b))
    BY DEF C!Arrangements
<1> HIDE DEF n
<1>4. C!Factorial(a) * C!Factorial(b) = n
  <2>1. CASE a = m /\ b = 1
    BY <1>1, <1>2, <2>1 DEF n
  <2>2. CASE a = 1 /\ b = m
    BY <1>1, <1>2, <2>2 DEF n
  <2> QED BY <2>1, <2>2
<1>5. ((m + 1) * n) \div n = m + 1
    BY <1>1
<1> QED BY <1>1, <1>3, <1>4, <1>5

(* CodeWar2014/Solution1.cxx for every number up to Exact, where its doubles *)
(* are: the distance has as many arrangements of its prime factors as were   *)
(* asked for.                                                                *)
LEMMA DriveStep ==
    ASSUME NEW n \in Drives, C!DriveLine(n)
    PROVE  C!DriveRight'
<1>1. n \in Nat /\ n >= 1
    BY DrivesAssumption
<1>2. /\ var' = n
      /\ n <= C!Exact =>
            shown' \in IF n = 1 THEN {<<4>>}
                       ELSE {<<C!pow(2, n - 1) * 3>>, <<C!pow(3, n - 1) * 2>>}
  <2>1. 1 <= C!Exact /\ (n <= C!Exact => ~(n > C!Exact))
    BY <1>1 DEF C!Exact
  <2> QED BY <2>1, Zenon DEF C!DriveLine
<1>5. CASE n > C!Exact
    BY <1>1, <1>2, <1>5 DEF C!DriveRight, C!Exact
<1>3. CASE n = 1 /\ n <= C!Exact
  <2>1. C!Exponent(4, 2) = 2
    <3>1. PICK f : /\ C!Exponent(4, 2) = f[4]
                   /\ \A j \in 0 .. 4 :
                        f[j] = IF j = 0 \/ j % 2 # 0 THEN 0 ELSE 1 + f[j \div 2]
      BY ExponentIs
    <3>2. 4 % 2 = 0 /\ 4 \div 2 = 2 /\ 2 % 2 = 0 /\ 2 \div 2 = 1 /\ 1 % 2 = 1
      OBVIOUS
    <3>3. f[4] = 1 + f[2] /\ f[2] = 1 + f[1] /\ f[1] = 0
      BY <3>1, <3>2
    <3> QED BY <3>1, <3>3
  <2>2. C!Exponent(4, 3) = 0
    <3>1. PICK f : /\ C!Exponent(4, 3) = f[4]
                   /\ \A j \in 0 .. 4 :
                        f[j] = IF j = 0 \/ j % 3 # 0 THEN 0 ELSE 1 + f[j \div 3]
      BY ExponentIs
    <3>2. 4 % 3 = 1
      OBVIOUS
    <3> QED BY <3>1, <3>2
  <2>3. C!Arrangements(4) = C!Factorial(2) \div (C!Factorial(2) * C!Factorial(0))
    BY <2>1, <2>2 DEF C!Arrangements
  <2>4. C!Factorial(2) \in Nat /\ C!Factorial(2) > 0 /\ C!Factorial(0) = 1
    <3>1. (\A j \in Nat : C!Factorial(j) \in Nat \ {0}) /\ C!Factorial(0) = 1
      BY FactorialIs, Zenon
    <3>2. C!Factorial(2) \in Nat \ {0}
      BY <3>1
    <3> QED BY <3>1, <3>2
  <2>5. C!Arrangements(4) = 1
    BY <2>3, <2>4
  <2> QED BY <1>2, <1>3, <2>5 DEF C!DriveRight
<1>4. CASE n # 1 /\ n <= C!Exact
  <2> DEFINE m == n - 1
  <2>1. m \in Nat /\ m + 1 = n
    BY <1>1
  <2> HIDE DEF m
  <2>2. C!Arrangements(C!pow(2, m) * 3) = n
    <3>1. <<2, 3>> \in Orders /\ <<2, 3>>[1] = 2 /\ <<2, 3>>[2] = 3
      BY DEF Orders
    <3>2. C!Exponent(C!pow(2, m) * 3, 2) = m /\ C!Exponent(C!pow(2, m) * 3, 3) = 1
      BY <2>1, <3>1, ExponentsAre
    <3> QED BY <2>1, <3>2, Arranged
  <2>3. C!Arrangements(C!pow(3, m) * 2) = n
    <3>1. <<3, 2>> \in Orders /\ <<3, 2>>[1] = 3 /\ <<3, 2>>[2] = 2
      BY DEF Orders
    <3>2. C!Exponent(C!pow(3, m) * 2, 3) = m /\ C!Exponent(C!pow(3, m) * 2, 2) = 1
      BY <2>1, <3>1, ExponentsAre
    <3>3. 1 + m = m + 1 /\ {1, m} = {m, 1}
      BY <2>1
    <3> QED BY <2>1, <3>2, <3>3, Arranged
  <2>4. C!Arrangements(shown'[1]) = n
    BY <1>2, <1>4, <2>2, <2>3 DEF m
  <2> QED BY <1>2, <2>4 DEF C!DriveRight
<1>6. n <= C!Exact \/ n > C!Exact
    BY <1>1 DEF C!Exact
<1> QED BY <1>3, <1>4, <1>5, <1>6

(* Problem3, BandhAnalysis and Solution1.cxx with any lines, days, strikes   *)
(* and numbers: a line of coins that has a solution is answered with one     *)
(* whatever lines came before, and the lines before the first such line with *)
(* none; the faster search agrees, the days lost are counted once each, and  *)
(* the distance printed for a number up to Exact has the arrangements asked  *)
(* for, the smallest or not.                                                 *)
THEOREM SolutionsRight == C!Spec => []C!ContestRight
<1> DEFINE Inv == /\ task = "coins" => CoinsInv
                  /\ task = "bandh" => BandhInv
                  /\ task \in {"coins", "bandh", "drive"}
                  /\ C!DriveRight
<1>1. C!Init => Inv
  <2> SUFFICES ASSUME C!Init PROVE Inv
    OBVIOUS
  <2> USE DEF C!Init
  <2>1. task = "coins" => CoinsInv
    BY DEF CoinsInv
  <2>2. ASSUME task = "bandh" PROVE BandhInv
    <3>1. daysCount \in Nat /\ parties \in Seq(Nat \ {0}) /\ index = 1 /\ cases = <<>>
      <4>1. daysCount \in Days /\ parties \in UNION {[1 .. n -> Params] : n \in 1 .. 2}
        BY <2>2
      <4>2. PICK n \in 1 .. 2 : parties \in [1 .. n -> Params]
        BY <4>1
      <4>3. parties \in [1 .. n -> Nat \ {0}] /\ n \in Nat
        <5>1. \A x \in Params : x \in Nat \ {0}
          BY BandhAssumption, Zenon
        <5>2. \A k \in 1 .. n : parties[k] \in Params
          BY <4>2
        <5> QED BY <4>2, <5>1, <5>2
      <4>4. parties \in Seq(Nat \ {0})
        BY <4>3
      <4> QED BY <4>1, <4>4, BandhAssumption
    <3>2. Struck = {}
      BY <3>1 DEF Struck
    <3>3. parties # <<>> => Strikes(Head(parties), 1) = {}
      <4>1. parties # <<>> => Head(parties) \in Nat \ {0}
        BY <3>1
      <4> QED BY <3>1, <4>1, StrikesAre
    <3> QED BY <3>1, <3>2, <3>3 DEF BandhInv
  <2>3. C!DriveRight
    BY DEF C!DriveRight
  <2> QED BY <2>1, <2>2, <2>3
<1>2. Inv /\ [C!Next]_(C!vars) => Inv'
  <2> SUFFICES ASSUME Inv, [C!Next]_(C!vars) PROVE Inv'
    OBVIOUS
  <2>1. ASSUME NEW l \in CoinLines, C!CoinLine(l) PROVE Inv'
    <3>1. task = "coins" /\ UNCHANGED task
      BY <2>1 DEF C!CoinLine
    <3>2. C!DriveRight'
      BY <3>1, Zenon DEF C!DriveRight
    <3>3. task # "bandh"
      BY <3>1
    <3> QED BY <2>1, <3>1, <3>2, <3>3, CoinsStep
  <2>2. CASE C!BandhDay \/ C!NextParty
    <3>1. task = "bandh" /\ UNCHANGED task
      BY <2>2 DEF C!BandhDay, C!NextParty
    <3>2. C!DriveRight'
      BY <3>1, Zenon DEF C!DriveRight
    <3>3. task # "coins"
      BY <3>1
    <3> QED BY <2>2, <3>1, <3>2, <3>3, BandhStep
  <2>3. ASSUME NEW l \in Drives, C!DriveLine(l) PROVE Inv'
    <3>1. task = "drive" /\ UNCHANGED task
      BY <2>3 DEF C!DriveLine
    <3>2. C!DriveRight'
      BY <2>3, DriveStep
    <3> QED BY <3>1, <3>2
  <2>4. CASE UNCHANGED C!vars
    <3>1. UNCHANGED <<task, cases, var, solution, shown, daysCount, parties, index, workingSet>>
      BY <2>4 DEF C!vars, C!bandh
    <3>2. CoinsInv => CoinsInv'
      BY <3>1 DEF CoinsInv, C!CoinsRight
    <3>3. BandhInv => BandhInv'
      BY <3>1 DEF BandhInv, Struck, Strikes, Working
    <3>4. C!DriveRight'
      BY <3>1, Zenon DEF C!DriveRight
    <3> QED BY <3>1, <3>2, <3>3, <3>4
  <2> QED BY <2>1, <2>2, <2>3, <2>4 DEF C!Next
<1>3. Inv => C!ContestRight
  <2> SUFFICES ASSUME Inv PROVE C!CoinsRight /\ C!DaysRight /\ C!DriveRight
    BY DEF C!ContestRight
  <2>1. C!CoinsRight
    BY DEF CoinsInv, C!CoinsRight
  <2>2. ASSUME task = "bandh", cases # <<>>
        PROVE  shown[1] = C!Cardinality({d \in 1 .. daysCount :
                  d % 7 \notin {0, 6} /\ \E k \in 1 .. Len(cases) : d % cases[k] = 0})
    <3>1. Struck = {d \in 1 .. daysCount :
                  d % 7 \notin {0, 6} /\ \E k \in 1 .. Len(cases) : d % cases[k] = 0}
      BY DEF Struck, Working
    <3> QED BY <2>2, <3>1, DayCount DEF BandhInv
  <2> QED BY <2>1, <2>2, Zenon DEF C!DaysRight
<1> HIDE DEF Inv
<1> QED BY <1>1, <1>2, <1>3, PTL DEF C!Spec

-----------------------------------------------------------------------------
(* Blood groups *)

(* The alleles of some marker sets, and the marker sets built from two lists. *)
Alleles(s) == {p[i] : p \in s, i \in 1 .. 2}
Pairs(s, t) == (s \X t) \cup (t \X s)

(* Two alleles in some order stand in the table of the group they make.      *)
LEMMA GroupListed ==
    /\ \A x, y \in {"A", "B", "O"} :
          /\ B!Group(x, y) \in B!Groups /\ B!Group(x, y) = B!Group(y, x)
          /\ \/ <<x, y>> \in B!blood_group_table[B!Group(x, y)]
             \/ <<y, x>> \in B!blood_group_table[B!Group(x, y)]
    /\ \A g \in B!Groups : \A p \in B!blood_group_table[g] :
          /\ p \in {"A", "B", "O"} \X {"A", "B", "O"}
          /\ B!Group(p[1], p[2]) = g
<1>1. /\ B!blood_group_table["A"] = {<<"A", "A">>, <<"A", "O">>}
      /\ B!blood_group_table["AB"] = {<<"A", "B">>}
      /\ B!blood_group_table["B"] = {<<"B", "B">>, <<"B", "O">>}
      /\ B!blood_group_table["O"] = {<<"O", "O">>}
    BY DEF B!blood_group_table
<1>2. /\ B!Group("A", "A") = "A" /\ B!Group("A", "O") = "A" /\ B!Group("O", "A") = "A"
      /\ B!Group("A", "B") = "AB" /\ B!Group("B", "A") = "AB"
      /\ B!Group("B", "B") = "B" /\ B!Group("B", "O") = "B" /\ B!Group("O", "B") = "B"
      /\ B!Group("O", "O") = "O"
    BY DEF B!Group
<1>3. ASSUME NEW x \in {"A", "B", "O"}, NEW y \in {"A", "B", "O"}
      PROVE  /\ B!Group(x, y) \in B!Groups /\ B!Group(x, y) = B!Group(y, x)
             /\ \/ <<x, y>> \in B!blood_group_table[B!Group(x, y)]
                \/ <<y, x>> \in B!blood_group_table[B!Group(x, y)]
  <2>1. CASE x = "A"
    BY <1>1, <1>2, <2>1 DEF B!Groups
  <2>2. CASE x = "B"
    BY <1>1, <1>2, <2>2 DEF B!Groups
  <2>3. CASE x = "O"
    BY <1>1, <1>2, <2>3 DEF B!Groups
  <2> QED BY <2>1, <2>2, <2>3
<1>4. ASSUME NEW g \in B!Groups, NEW p \in B!blood_group_table[g]
      PROVE  p \in {"A", "B", "O"} \X {"A", "B", "O"} /\ B!Group(p[1], p[2]) = g
    BY <1>1, <1>2 DEF B!Groups
<1> QED BY <1>3, <1>4

(* The alleles the table lists for a group are the ones it may pass on.      *)
LEMMA AllelesAre ==
    /\ \A g \in B!Groups : Alleles(B!blood_group_table[g]) = B!Gametes(g)
    /\ \A f \in {"+", "-"} : Alleles(B!rrh_factor_table[f]) = B!RhGametes(f)
<1>1. ASSUME NEW g \in B!Groups
      PROVE  Alleles(B!blood_group_table[g]) = B!Gametes(g)
  <2>1. ASSUME NEW p \in B!blood_group_table[g], NEW i \in 1 .. 2
        PROVE  p[i] \in B!Gametes(g)
    <3>1. /\ p[1] \in {"A", "B", "O"} /\ p[2] \in {"A", "B", "O"}
          /\ B!Group(p[1], p[2]) = g /\ B!Group(p[2], p[1]) = g
      BY GroupListed
    <3>2. i = 1 \/ i = 2
      OBVIOUS
    <3> QED BY <3>1, <3>2, Zenon DEF B!Gametes
  <2>2. ASSUME NEW x \in B!Gametes(g)
        PROVE  \E p \in B!blood_group_table[g], i \in 1 .. 2 : x = p[i]
    <3>1. PICK y \in {"A", "B", "O"} : x \in {"A", "B", "O"} /\ B!Group(x, y) = g
      BY <2>2 DEF B!Gametes
    <3>2. <<x, y>> \in B!blood_group_table[g] \/ <<y, x>> \in B!blood_group_table[g]
      BY <3>1, GroupListed
    <3>3. <<x, y>>[1] = x /\ <<y, x>>[2] = x /\ 1 \in 1 .. 2 /\ 2 \in 1 .. 2
      OBVIOUS
    <3> QED BY <3>2, <3>3, Zenon
  <2> QED BY <2>1, <2>2 DEF Alleles
<1>2. ASSUME NEW f \in {"+", "-"}
      PROVE  Alleles(B!rrh_factor_table[f]) = B!RhGametes(f)
  <2>1. /\ B!rrh_factor_table["+"] = {<<"+", "+">>, <<"+", "-">>, <<"-", "+">>}
        /\ B!rrh_factor_table["-"] = {<<"-", "-">>}
    BY DEF B!rrh_factor_table
  <2>2. B!RhGametes("+") = {"+", "-"} /\ B!RhGametes("-") = {"-"}
    BY DEF B!RhGametes, B!Rh
  <2>3. /\ {p[i] : p \in {<<"+", "+">>, <<"+", "-">>, <<"-", "+">>}, i \in 1 .. 2} = {"+", "-"}
        /\ {p[i] : p \in {<<"-", "-">>}, i \in 1 .. 2} = {"-"}
    <3>1. 1 .. 2 = {1, 2}
      OBVIOUS
    <3> QED BY <3>1
  <2>4. CASE f = "+"
    BY <2>1, <2>2, <2>3, <2>4 DEF Alleles
  <2>5. CASE f = "-"
    BY <2>1, <2>2, <2>3, <2>5 DEF Alleles
  <2> QED BY <2>4, <2>5
<1> QED BY <1>1, <1>2

(* They are all pairs of alleles, in both orders.                            *)
LEMMA BuiltIs ==
    ASSUME NEW s, NEW t
    PROVE  /\ B!outlist(s, t) = Pairs(Alleles(s), Alleles(t))
           /\ B!outlist_rrh(s, t) = B!outlist(s, t)
<1>1. ASSUME NEW x \in B!outlist(s, t)
      PROVE  x \in Pairs(Alleles(s), Alleles(t))
  <2>1. PICK f \in s, m \in t : x \in B!get_all_possible_bmsets(f, m)
    BY DEF B!outlist
  <2>2. \A i \in 1 .. 2 : f[i] \in Alleles(s) /\ m[i] \in Alleles(t)
    BY DEF Alleles
  <2>3. CASE x \in B!FatherFirst(f, m)
    BY <2>2, <2>3 DEF B!FatherFirst, Pairs
  <2>4. CASE x \in B!MotherFirst(f, m)
    BY <2>2, <2>4 DEF B!MotherFirst, Pairs
  <2> QED BY <2>1, <2>3, <2>4 DEF B!get_all_possible_bmsets
<1>2. ASSUME NEW f \in s, NEW m \in t, NEW x \in B!get_all_possible_bmsets(f, m)
      PROVE  x \in B!outlist(s, t)
    BY DEF B!outlist
<1>3. ASSUME NEW x \in Alleles(s), NEW y \in Alleles(t)
      PROVE  <<x, y>> \in B!outlist(s, t) /\ <<y, x>> \in B!outlist(s, t)
  <2>1. PICK f \in s, i \in 1 .. 2 : x = f[i]
    BY DEF Alleles
  <2>2. PICK m \in t, j \in 1 .. 2 : y = m[j]
    BY DEF Alleles
  <2>3. /\ <<f[i], m[j]>> \in B!get_all_possible_bmsets(f, m)
        /\ <<m[j], f[i]>> \in B!get_all_possible_bmsets(f, m)
    BY DEF B!get_all_possible_bmsets, B!FatherFirst, B!MotherFirst
  <2> QED BY <1>2, <2>1, <2>2, <2>3, Zenon
<1>4. ASSUME NEW x \in Pairs(Alleles(s), Alleles(t))
      PROVE  x \in B!outlist(s, t)
  <2>1. CASE x \in Alleles(s) \X Alleles(t)
    <3>1. x = <<x[1], x[2]>> /\ x[1] \in Alleles(s) /\ x[2] \in Alleles(t)
      BY <2>1
    <3> QED BY <1>3, <3>1, Zenon
  <2>2. CASE x \in Alleles(t) \X Alleles(s)
    <3>1. x = <<x[1], x[2]>> /\ x[1] \in Alleles(t) /\ x[2] \in Alleles(s)
      BY <2>2
    <3> QED BY <1>3, <3>1, Zenon
  <2> QED BY <1>4, <2>1, <2>2 DEF Pairs
<1>5. B!outlist(s, t) = Pairs(Alleles(s), Alleles(t))
    BY <1>1, <1>4
<1>6. B!outlist_rrh(s, t) = B!outlist(s, t)
  <2>1. \A f, m : B!get_all_possible_rhasets(f, m) = B!get_all_possible_bmsets(f, m)
    BY DEF B!get_all_possible_rhasets, B!get_all_possible_bmsets
  <2> QED BY <2>1 DEF B!outlist_rrh, B!outlist
<1> QED BY <1>5, <1>6

(* The names found in the tables are those of the genetic rule.              *)
GroupsOf(a, b) == {B!Group(x, y) : x \in B!Gametes(a), y \in B!Gametes(b)}
RhsOf(e, f) == {B!Rh(x, y) : x \in B!RhGametes(e), y \in B!RhGametes(f)}

LEMMA NamesAre ==
    ASSUME NEW a \in B!Groups, NEW b \in B!Groups, NEW e \in {"+", "-"}, NEW f \in {"+", "-"}
    PROVE  /\ B!get_blood_group_name_from_table(Pairs(B!Gametes(a), B!Gametes(b)))
                 = GroupsOf(a, b)
           /\ B!get_rrh_factor_name_from_table(Pairs(B!RhGametes(e), B!RhGametes(f)))
                 = RhsOf(e, f)
<1> DEFINE pairs == Pairs(B!Gametes(a), B!Gametes(b))
           found == GroupsOf(a, b)
<1>1. B!Gametes(a) \subseteq {"A", "B", "O"} /\ B!Gametes(b) \subseteq {"A", "B", "O"}
    BY DEF B!Gametes
<1>2. ASSUME NEW g \in B!Groups, B!blood_group_table[g] \cap pairs # {} PROVE g \in found
  <2>1. PICK p \in B!blood_group_table[g] : p \in pairs
    BY <1>2
  <2>2. /\ B!Group(p[1], p[2]) = g /\ B!Group(p[2], p[1]) = g
    BY GroupListed
  <2>3. \/ p[1] \in B!Gametes(a) /\ p[2] \in B!Gametes(b)
        \/ p[2] \in B!Gametes(a) /\ p[1] \in B!Gametes(b)
    BY <2>1 DEF Pairs
  <2> QED BY <2>2, <2>3 DEF GroupsOf
<1>3. ASSUME NEW x \in B!Gametes(a), NEW y \in B!Gametes(b)
      PROVE  /\ B!Group(x, y) \in B!Groups
             /\ B!blood_group_table[B!Group(x, y)] \cap pairs # {}
  <2>1. <<x, y>> \in pairs /\ <<y, x>> \in pairs
    BY DEF Pairs
  <2> HIDE DEF pairs
  <2>2. /\ B!Group(x, y) \in B!Groups
        /\ \/ <<x, y>> \in B!blood_group_table[B!Group(x, y)]
           \/ <<y, x>> \in B!blood_group_table[B!Group(x, y)]
    BY <1>1, GroupListed, Zenon
  <2> QED BY <2>1, <2>2
<1>4. B!get_blood_group_name_from_table(pairs) = found
  <2> HIDE DEF pairs
  <2> QED BY <1>2, <1>3 DEF GroupsOf, B!get_blood_group_name_from_table
<1>5. B!RhGametes("+") = {"+", "-"} /\ B!RhGametes("-") = {"-"}
    BY DEF B!RhGametes, B!Rh
<1>6. /\ B!rrh_factor_table["+"] = {<<"+", "+">>, <<"+", "-">>, <<"-", "+">>}
      /\ B!rrh_factor_table["-"] = {<<"-", "-">>}
    BY DEF B!rrh_factor_table
<1>7. /\ B!Rh("+", "+") = "+" /\ B!Rh("+", "-") = "+" /\ B!Rh("-", "+") = "+"
      /\ B!Rh("-", "-") = "-"
    BY DEF B!Rh
<1> DEFINE rhs == Pairs(B!RhGametes(e), B!RhGametes(f))
           names == RhsOf(e, f)
<1>8. B!get_rrh_factor_name_from_table(rhs) = names
  <2>1. /\ "+" \in names <=> e = "+" \/ f = "+"
        /\ "-" \in names /\ names \subseteq {"+", "-"}
    BY <1>5, <1>7 DEF RhsOf
  <2>2. /\ <<"-", "-">> \in rhs /\ (e = "+" \/ f = "+" => <<"+", "-">> \in rhs \/ <<"-", "+">> \in rhs)
        /\ ~(e = "+" \/ f = "+") => rhs = {<<"-", "-">>}
    BY <1>5 DEF Pairs
  <2>3. /\ B!rrh_factor_table["+"] \cap rhs # {} <=> e = "+" \/ f = "+"
        /\ B!rrh_factor_table["-"] \cap rhs # {}
    <3> HIDE DEF rhs, names
    <3>1. CASE e = "+" \/ f = "+"
      BY <1>6, <2>2, <3>1
    <3>2. CASE ~(e = "+" \/ f = "+")
      BY <1>6, <2>2, <3>2
    <3> QED BY <3>1, <3>2
  <2> HIDE DEF rhs, names
  <2>4. \A g \in {"+", "-"} : B!rrh_factor_table[g] \cap rhs # {} <=> g \in names
    BY <2>1, <2>3
  <2> QED BY <2>1, <2>4 DEF B!get_rrh_factor_name_from_table
<1> QED BY <1>4, <1>8

(* The children the rule allows.                                             *)
Children(a, b, e, f) ==
    {<<B!Group(x, y), B!Rh(r, s)>> : x \in B!Gametes(a), y \in B!Gametes(b),
                                     r \in B!RhGametes(e), s \in B!RhGametes(f)}

(* The arguments of a line: a group and an rh of the tables, or none.        *)
Arguments ==
    [blood_group : B!Groups \cup {""}, rh_factor : {"+", "-", ""}, output_req : BOOLEAN]

(* A word that names a group other than O is what the argument says.         *)
Says(arg, w) ==
    w.group \in B!Groups \ {"O"} => arg.blood_group = w.group /\ arg.rh_factor = w.rh

BloodInv ==
    /\ input_args \in [1 .. 3 -> Arguments]
    /\ Len(line) \in 0 .. 3
    /\ \A i \in 1 .. Len(line) : Says(input_args[i], line[i])
    /\ out # {} =>
          out = GroupsOf(input_args[1].blood_group, input_args[2].blood_group)
                   \X RhsOf(input_args[1].rh_factor, input_args[2].rh_factor)

(* bloodgroup.c with any lines: a line that gives both parents, neither of   *)
(* group O, is answered with the groups the genetic rule allows their        *)
(* children, no more and no fewer, whatever lines came before.               *)
THEOREM ChildrenRight == B!Spec => []B!ChildrenMendelian
<1>1. B!Init => BloodInv
  <2> SUFFICES ASSUME B!Init PROVE BloodInv
    OBVIOUS
  <2>1. input_args = <<B!Empty, B!Empty, B!Empty>> /\ out = {} /\ line = <<>>
    BY DEF B!Init
  <2>2. B!Empty \in Arguments
    BY DEF B!Empty, Arguments
  <2>3. input_args \in [1 .. 3 -> Arguments]
    BY <2>1, <2>2
  <2> QED BY <2>1, <2>3 DEF BloodInv
<1>2. BloodInv /\ [B!Next]_(B!vars) => BloodInv'
  <2> SUFFICES ASSUME BloodInv, [B!Next]_(B!vars) PROVE BloodInv'
    OBVIOUS
  <2>1. input_args \in [1 .. 3 -> Arguments]
    BY DEF BloodInv
  <2>2. CASE B!process_each_input_line
    <3> DEFINE New(i) == IF i <= Len(line') THEN B!Word(input_args[i], line'[i]) ELSE input_args[i]
    <3>1. line' \in Lines /\ input_args' = [i \in 1 .. 3 |-> New(i)] /\ out' = {}
      BY <2>2, Zenon DEF B!process_each_input_line
    <3>2. Len(line') \in 0 .. 3
      BY <3>1, LinesAssumption, Zenon
    <3>9. \A k \in 0 .. 3 :
             /\ \A i \in 1 .. 3 : i <= k => i \in 1 .. k
             /\ \A i \in 1 .. k : i \in 1 .. 3 /\ i <= k
      OBVIOUS
    <3>3. ASSUME NEW i \in 1 .. Len(line')
          PROVE  /\ B!Word(input_args[i], line'[i]) \in Arguments
                 /\ Says(B!Word(input_args[i], line'[i]), line'[i])
      <4>1. input_args[i] \in Arguments
        <5>1. i \in 1 .. 3
          BY <3>2, <3>9, Zenon
        <5> QED BY <2>1, <5>1
      <4>2. \/ line'[i].group = "?"
            \/ line'[i].group \in B!Groups /\ line'[i].rh \in {"+", "-"}
        BY <3>1, LinesAssumption, Zenon DEF B!Groups
      <4>3. "?" \notin B!Groups
        BY DEF B!Groups
      <4> QED BY <4>1, <4>2, <4>3 DEF B!Word, Arguments, Says
    <3>4. ASSUME NEW i \in 1 .. 3 PROVE New(i) \in Arguments
      <4>1. input_args[i] \in Arguments
        BY <2>1
      <4>2. i <= Len(line') => i \in 1 .. Len(line')
        BY <3>2, <3>9, Zenon
      <4> QED BY <3>3, <4>1, <4>2
    <3>5. \A i \in 1 .. Len(line') : i \in 1 .. 3 /\ i <= Len(line')
      BY <3>2, <3>9, Zenon
    <3>6. \A i \in 1 .. Len(line') : input_args'[i] = B!Word(input_args[i], line'[i])
      BY <3>1, <3>5
    <3> HIDE DEF New
    <3>7. input_args' \in [1 .. 3 -> Arguments]
      BY <3>1, <3>4
    <3>8. \A i \in 1 .. Len(line') : Says(input_args'[i], line'[i])
      BY <3>3, <3>6
    <3> QED BY <3>1, <3>2, <3>7, <3>8 DEF BloodInv, Says
  <2>3. CASE B!child_blood_group_print
    <3> DEFINE a == input_args[1].blood_group b == input_args[2].blood_group
               e == input_args[1].rh_factor f == input_args[2].rh_factor
    <3>1. a \in B!Groups /\ b \in B!Groups /\ e \in {"+", "-"} /\ f \in {"+", "-"}
      <4>1. input_args[1] \in Arguments /\ input_args[2] \in Arguments
        BY <2>1
      <4>2. a # "" /\ b # "" /\ e # "" /\ f # ""
        <5>1. \A i \in 1 .. 2 : input_args[i].blood_group # "" /\ input_args[i].rh_factor # ""
          BY <2>3 DEF B!child_blood_group_print
        <5>2. 1 \in 1 .. 2 /\ 2 \in 1 .. 2
          OBVIOUS
        <5> QED BY <5>1, <5>2, Zenon
      <4> QED BY <4>1, <4>2 DEF Arguments
    <3>2. /\ out' = B!get_blood_group_name_from_table(
                       B!outlist(B!blood_group_table[a], B!blood_group_table[b]))
                 \X B!get_rrh_factor_name_from_table(
                       B!outlist_rrh(B!rrh_factor_table[e], B!rrh_factor_table[f]))
          /\ UNCHANGED input_args
      BY <2>3 DEF B!child_blood_group_print
    <3>3. /\ B!outlist(B!blood_group_table[a], B!blood_group_table[b])
                = Pairs(B!Gametes(a), B!Gametes(b))
          /\ B!outlist_rrh(B!rrh_factor_table[e], B!rrh_factor_table[f])
                = Pairs(B!RhGametes(e), B!RhGametes(f))
      <4> HIDE DEF a, b, e, f
      <4>1. /\ Alleles(B!blood_group_table[a]) = B!Gametes(a)
            /\ Alleles(B!blood_group_table[b]) = B!Gametes(b)
            /\ Alleles(B!rrh_factor_table[e]) = B!RhGametes(e)
            /\ Alleles(B!rrh_factor_table[f]) = B!RhGametes(f)
        BY <3>1, AllelesAre, Zenon
      <4> QED BY <4>1, BuiltIs, Zenon
    <3>4. out' = GroupsOf(a, b) \X RhsOf(e, f)
      <4> HIDE DEF a, b, e, f
      <4> QED BY <3>1, <3>2, <3>3, NamesAre, Zenon
    <3>5. UNCHANGED line
      BY <2>3 DEF B!child_blood_group_print
    <3> QED BY <2>1, <3>1, <3>2, <3>4, <3>5 DEF BloodInv, Says
  <2>4. CASE B!OutOfTable \/ B!parent_blood_group_print \/ UNCHANGED B!vars
    <3>1. UNCHANGED <<input_args, line, out>>
      BY <2>4 DEF B!OutOfTable, B!parent_blood_group_print, B!vars
    <3> QED BY <3>1, Zenon DEF BloodInv, Says
  <2> QED BY <2>2, <2>3, <2>4 DEF B!Next
<1>3. BloodInv => B!ChildrenMendelian
  <2>1. ASSUME NEW a, NEW b, NEW e, NEW f
        PROVE  GroupsOf(a, b) \X RhsOf(e, f) = Children(a, b, e, f)
    BY DEF GroupsOf, RhsOf, Children
  <2> SUFFICES ASSUME BloodInv, out # {}, B!ParentsGiven PROVE B!ChildrenMendelian
    BY DEF B!ChildrenMendelian
  <2>2. out = Children(input_args[1].blood_group, input_args[2].blood_group,
                       input_args[1].rh_factor, input_args[2].rh_factor)
    <3>1. out = GroupsOf(input_args[1].blood_group, input_args[2].blood_group)
                   \X RhsOf(input_args[1].rh_factor, input_args[2].rh_factor)
      BY DEF BloodInv
    <3> QED BY <2>1, <3>1
  <2>3. ASSUME NEW i \in 1 .. 2
        PROVE  input_args[i].blood_group = line[i].group /\ input_args[i].rh_factor = line[i].rh
    <3>1. i \in 1 .. Len(line)
      BY DEF BloodInv, B!ParentsGiven
    <3>2. line[i].group \in B!Groups \ {"O"}
      BY DEF B!ParentsGiven
    <3> QED BY <3>1, <3>2, Zenon DEF BloodInv, Says
  <2>4. /\ input_args[1].blood_group = line[1].group /\ input_args[1].rh_factor = line[1].rh
        /\ input_args[2].blood_group = line[2].group /\ input_args[2].rh_factor = line[2].rh
    BY <2>3
  <2> SUFFICES out = Children(line[1].group, line[2].group, line[1].rh, line[2].rh)
    BY DEF B!ChildrenMendelian, Children
  <2> QED BY <2>2, <2>4, Zenon
<1> QED BY <1>1, <1>2, <1>3, PTL DEF B!Spec

-----------------------------------------------------------------------------
(* The four programs *)

(* The algorithms, for all inputs of the four programs run side by side: the *)
(* children of parents that are given and not O have a group Mendel allows,  *)
(* a walk is a shortest one, the array is sorted, and a contest line is      *)
(* answered as ContestRight says.                                            *)
THEOREM AlgorithmsHold ==
    B!Spec /\ E!Spec /\ K!Spec /\ C!Spec => []AlgorithmsRight
BY ChildrenRight, PathIsShortest, SortsRight, SolutionsRight, PTL DEF AlgorithmsRight
=============================================================================
