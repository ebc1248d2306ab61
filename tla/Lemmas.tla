------------------------------- MODULE Lemmas -------------------------------
(***************************************************************************)
(* Facts that several proofs cite: what linking a job and unlinking the    *)
(* head do to the linked lists of prog_condV.c and prog_sem.c, which are   *)
(* kept as sequences with the head last, and induction over the naturals,  *)
(* for what a recursive function or a loop computes.                       *)
(***************************************************************************)
EXTENDS Integers, Sequences, SequenceTheorems, FunctionTheorems, FiniteSetTheorems,
        TLAPS

(* Unlinking the head of a list leaves a list, one shorter. *)
LEMMA Unlinked ==
    ASSUME NEW S, NEW s \in Seq(S), s # <<>>
    PROVE  /\ SubSeq(s, 1, Len(s) - 1) \in Seq(S)
           /\ Len(SubSeq(s, 1, Len(s) - 1)) = Len(s) - 1
           /\ Len(s) > 0
           /\ s[Len(s)] \in S
<1> DEFINE n == Len(s) - 1
<1>1. /\ n \in Int /\ n >= 0 /\ Len(s) = n + 1
      /\ s[Len(s)] \in S
      /\ \A i \in 1 .. n : s[i] \in S
    OBVIOUS
<1> HIDE DEF n
<1>2. SubSeq(s, 1, n) \in Seq(S)
    BY <1>1, SubSeqProperties
<1>3. Len(SubSeq(s, 1, n)) = IF 1 <= n THEN n - 1 + 1 ELSE 0
    BY <1>1, SubSeqProperties
<1> QED BY <1>1, <1>2, <1>3 DEF n

Elems(s) == {s[i] : i \in 1 .. Len(s)}
NoRepeat(s) == \A i, j \in 1 .. Len(s) : s[i] = s[j] => i = j

(* Linking a job that is not in the list adds that job. *)
LEMMA LinkOne ==
    ASSUME NEW S, NEW s \in Seq(S), NEW x \in S, x \notin Elems(s), NoRepeat(s)
    PROVE  Elems(Append(s, x)) = Elems(s) \cup {x} /\ NoRepeat(Append(s, x))
<1>1. /\ Len(s) \in Nat /\ Len(Append(s, x)) = Len(s) + 1
      /\ \A i \in 1 .. Len(s) : Append(s, x)[i] = s[i]
      /\ Append(s, x)[Len(s) + 1] = x
    OBVIOUS
<1> QED BY <1>1 DEF Elems, NoRepeat

(* Unlinking the head of a list without repetition removes one job. *)
LEMMA UnlinkOne ==
    ASSUME NEW S, NEW s \in Seq(S), s # <<>>, NoRepeat(s)
    PROVE  LET r == SubSeq(s, 1, Len(s) - 1)
           IN  /\ Elems(r) = Elems(s) \ {s[Len(s)]} /\ NoRepeat(r)
               /\ s[Len(s)] \in Elems(s)
<1> DEFINE r == SubSeq(s, 1, Len(s) - 1)
<1>1. /\ Len(s) \in Nat /\ Len(s) > 0 /\ Len(r) = Len(s) - 1
      /\ \A i \in 1 .. Len(s) - 1 : r[i] = s[i]
    BY Unlinked, SubSeqProperties
<1> HIDE DEF r
<1>2. Elems(r) = Elems(s) \ {s[Len(s)]} /\ NoRepeat(r) /\ s[Len(s)] \in Elems(s)
    BY <1>1 DEF Elems, NoRepeat
<1> QED BY <1>2 DEF r

(* The head of a sequence without repetition is not in its tail. *)
LEMMA HeadTaken ==
    ASSUME NEW S, NEW s \in Seq(S), s # <<>>, NoRepeat(s)
    PROVE  /\ Tail(s) \in Seq(S) /\ NoRepeat(Tail(s)) /\ Head(s) \in S
           /\ Head(s) \in Elems(s) /\ Elems(Tail(s)) = Elems(s) \ {Head(s)}
<1>1. /\ Len(s) \in Nat /\ Len(s) > 0 /\ Len(Tail(s)) = Len(s) - 1
      /\ Tail(s) \in Seq(S) /\ Head(s) = s[1] /\ Head(s) \in S
      /\ \A i \in 1 .. Len(s) - 1 : Tail(s)[i] = s[i + 1]
    OBVIOUS
<1>2. NoRepeat(Tail(s)) /\ Head(s) \in Elems(s)
    BY <1>1 DEF NoRepeat, Elems
<1>3. Elems(Tail(s)) = Elems(s) \ {Head(s)}
  <2>1. ASSUME NEW i \in 1 .. Len(s) - 1
        PROVE  Tail(s)[i] \in Elems(s) /\ Tail(s)[i] # Head(s)
    <3>1. i + 1 \in 1 .. Len(s) /\ 1 \in 1 .. Len(s) /\ i + 1 # 1
      BY <1>1
    <3> QED BY <1>1, <3>1 DEF NoRepeat, Elems
  <2>2. ASSUME NEW i \in 1 .. Len(s), s[i] # Head(s)
        PROVE  s[i] \in Elems(Tail(s))
    <3>1. i - 1 \in 1 .. Len(s) - 1 /\ (i - 1) + 1 = i
      BY <1>1, <2>2
    <3>2. Tail(s)[i - 1] = s[i] /\ i - 1 \in 1 .. Len(Tail(s))
      BY <1>1, <3>1
    <3> QED BY <3>2 DEF Elems
  <2>3. ASSUME NEW x \in Elems(Tail(s)) PROVE x \in Elems(s) \ {Head(s)}
    <3>1. PICK i \in 1 .. Len(Tail(s)) : x = Tail(s)[i]
      BY DEF Elems
    <3> QED BY <1>1, <2>1, <3>1
  <2>4. ASSUME NEW x \in Elems(s), x # Head(s) PROVE x \in Elems(Tail(s))
    <3>1. PICK i \in 1 .. Len(s) : x = s[i]
      BY DEF Elems
    <3> QED BY <2>2, <2>4, <3>1
  <2> QED BY <2>3, <2>4
<1> QED BY <1>1, <1>2, <1>3

(* Only the empty sequence has no elements. *)
LEMMA NoElems ==
    /\ Elems(<<>>) = {} /\ NoRepeat(<<>>)
    /\ \A S : \A s \in Seq(S) : s # <<>> => Elems(s) # {}
<1>1. Elems(<<>>) = {} /\ NoRepeat(<<>>)
    BY DEF Elems, NoRepeat
<1>2. ASSUME NEW S, NEW s \in Seq(S), s # <<>> PROVE Elems(s) # {}
  <2>1. 1 \in 1 .. Len(s)
    BY <1>2
  <2> QED BY <2>1 DEF Elems
<1> QED BY <1>1, <1>2

(* The elements of a sequence with one more at its end. *)
LEMMA AppendedElems ==
    ASSUME NEW S, NEW s \in Seq(S), NEW x \in S
    PROVE  Elems(Append(s, x)) = Elems(s) \cup {x}
<1>1. /\ Len(s) \in Nat /\ Len(Append(s, x)) = Len(s) + 1
      /\ \A i \in 1 .. Len(s) : Append(s, x)[i] = s[i]
      /\ Append(s, x)[Len(s) + 1] = x
    OBVIOUS
<1> QED BY <1>1 DEF Elems

Numbered(c, n) == {<<c, k>> : k \in 1 .. n}

(* Of a set of n elements, a sequence of n that does not repeat has all. *)
LEMMA AllOfThem ==
    ASSUME NEW c, NEW n \in Nat, NEW S, NEW s \in Seq(S), NoRepeat(s), Len(s) >= n,
           Elems(s) \subseteq Numbered(c, n)
    PROVE  Elems(s) = Numbered(c, n)
<1> DEFINE O == Numbered(c, n)
           f == [k \in 1 .. n |-> <<c, k>>]
<1>1. f \in Bijection(1 .. n, O)
  <2>1. f \in [1 .. n -> O]
    BY DEF Numbered
  <2>2. ASSUME NEW i \in 1 .. n, NEW j \in 1 .. n, f[i] = f[j] PROVE i = j
    BY <2>2
  <2>3. ASSUME NEW o \in O PROVE \E i \in 1 .. n : f[i] = o
    <3>1. PICK i \in 1 .. n : o = <<c, i>>
      BY DEF Numbered
    <3> QED BY <3>1
  <2> HIDE DEF f, O
  <2> QED BY <2>1, <2>2, <2>3, Fun_IsBij
<1>2. IsFiniteSet(1 .. n) /\ Cardinality(1 .. n) = n
    BY FS_Interval
<1>3. IsFiniteSet(O) /\ Cardinality(O) = n
    BY <1>1, <1>2, FS_Bijection DEF ExistsBijection
<1> HIDE DEF f, O
<1>4. Len(s) \in Nat /\ DOMAIN s = 1 .. Len(s) /\ s = [k \in 1 .. Len(s) |-> s[k]]
    OBVIOUS
<1>5. s \in Injection(1 .. Len(s), O)
  <2>1. \A k \in 1 .. Len(s) : s[k] \in O
    BY DEF Elems, O
  <2>2. s \in [1 .. Len(s) -> O]
    <3>1. [k \in 1 .. Len(s) |-> s[k]] \in [1 .. Len(s) -> O]
      BY <2>1
    <3> QED BY <1>4, <3>1, Zenon
  <2>3. \A i, j \in 1 .. Len(s) : s[i] = s[j] => i = j
    BY DEF NoRepeat
  <2> QED BY <2>2, <2>3, Fun_IsInj
<1>6. IsFiniteSet(1 .. Len(s)) /\ Cardinality(1 .. Len(s)) = Len(s)
  <2>1. \A k \in Nat : IsFiniteSet(1 .. k) /\ Cardinality(1 .. k) = k
    BY FS_Interval
  <2>2. Len(s) \in Nat
    BY <1>4
  <2> QED BY <2>1, <2>2, Zenon
<1>7. Cardinality(1 .. Len(s)) = Cardinality(O)
  <2>1. Cardinality(1 .. Len(s)) <= Cardinality(O)
    BY <1>3, <1>5, FS_Injection, Zenon
  <2> QED BY <1>3, <1>4, <1>6, <2>1
<1>8. s \in Surjection(1 .. Len(s), O)
    BY <1>3, <1>5, <1>7, FS_Injection
<1>9. O \subseteq Elems(s)
  <2>1. \A x \in O : \E k \in 1 .. Len(s) : s[k] = x
    BY <1>8, SMT DEF Surjection
  <2>2. ASSUME NEW x \in O PROVE x \in Elems(s)
    BY <2>1 DEF Elems, O
  <2> QED BY <2>2
<1> QED BY <1>9 DEF O

-----------------------------------------------------------------------------
(* Induction over the naturals, for a set: what holds of 0 and of the        *)
(* successor of whatever it holds of, holds of all.                          *)
LEMMA Induct ==
    ASSUME NEW T, 0 \in T, \A n \in Nat : n \in T => n + 1 \in T
    PROVE  \A n \in Nat : n \in T
<1> DEFINE U == Nat \ T
           W == {0 .. k : k \in U}
           R == StrictSubsetOrdering(Nat)
<1> SUFFICES ASSUME U # {} PROVE FALSE
    OBVIOUS
<1>1. W \subseteq FiniteSubsetsOf(Nat)
  <2>1. \A k \in Nat : 0 .. k \in SUBSET Nat /\ IsFiniteSet(0 .. k)
    BY FS_Interval
  <2> QED BY <2>1 DEF FiniteSubsetsOf
<1>2. W # {} /\ IsWellFoundedOn(R, FiniteSubsetsOf(Nat))
    BY FS_StrictSubsetOrderingWellFounded
<1>3. PICK w \in W : \A v \in W : ~ (<<v, w>> \in R)
    <2> HIDE DEF W, R
    <2> QED BY WFMin, <1>1, <1>2
<1>4. PICK m \in U : w = 0 .. m
    BY <1>3
<1>5. m \in Nat /\ m # 0 /\ m \notin T
    BY <1>4
<1>6. m - 1 \in Nat /\ (m - 1) + 1 = m
    BY <1>5
<1>7. <<0 .. m - 1, 0 .. m>> \in R
  <2>1. 0 .. m - 1 \subseteq 0 .. m /\ m \notin 0 .. m - 1 /\ m \in 0 .. m
    BY <1>5
  <2>2. 0 .. m - 1 \in SUBSET Nat /\ 0 .. m \in SUBSET Nat /\ 0 .. m - 1 # 0 .. m
    BY <2>1, <1>5
  <2> QED BY <2>1, <2>2 DEF StrictSubsetOrdering
<1>8. m - 1 \notin U
    BY <1>3, <1>4, <1>7
<1>9. (m - 1) + 1 \in T
    BY <1>6, <1>8
<1> QED BY <1>5, <1>6, <1>9
=============================================================================
