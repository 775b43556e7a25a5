----------------------------- MODULE PkiProofs -----------------------------
(***************************************************************************)
(* What the operators of Lists return, for every sequence; and what        *)
(* buildCertificateChain returns, for every set of certificates and every  *)
(* slice of them: the chain exists, starts with the leaf, stays within the *)
(* slice, repeats nothing, is linked, and cannot be continued.             *)
(***************************************************************************)
EXTENDS Pki, FiniteSetTheorems, SequenceTheorems, WellFoundedInduction, TLAPS

(***************************************************************************)
(* Lists.                                                                  *)
(***************************************************************************)

(* A non-empty set of naturals has a least member. *)
LEMMA LeastNatural ==
  ASSUME NEW T \in SUBSET Nat, T # {}
  PROVE  \E x \in T : \A y \in T : x <= y
<1>1. PICK x \in T : \A y \in T : <<y, x>> \notin OpToRel(<, Nat)
  BY NatLessThanWellFounded, WFMin
<1>2. ASSUME NEW y \in T, y < x  PROVE FALSE
  <2>1. <<y, x>> \in Nat \X Nat /\ <<y, x>>[1] < <<y, x>>[2]
    BY <1>2
  <2>2. <<y, x>> \in OpToRel(<, Nat)
    BY <2>1, Zenon DEF OpToRel
  <2> QED  BY <1>1, <2>2
<1> QED  BY <1>2

(* The positions of a sequence are a finite set of positive naturals. *)
LEMMA PositionsFinite ==
  ASSUME NEW S, NEW s \in Seq(S), NEW I \in SUBSET (DOMAIN s)
  PROVE  IsFiniteSet(I) /\ Cardinality(I) \in Nat /\ I \subseteq Nat \ {0}
<1>1. DOMAIN s = 1 .. Len(s) /\ Len(s) \in Nat
  OBVIOUS
<1>2. IsFiniteSet(1 .. Len(s))
  BY <1>1, FS_Interval
<1> QED  BY <1>1, <1>2, FS_Subset, FS_CardinalityType

(* Rank numbers the members of a finite set of naturals from 1, in order, and
   leaves no number out: Pick is defined everywhere. *)
LEMMA RankInjective ==
  ASSUME NEW I \in SUBSET Nat, IsFiniteSet(I), NEW i \in I, NEW k \in I, i < k
  PROVE  Rank(I, i) < Rank(I, k)
<1> DEFINE A == {x \in I : x <= i}
           B == {x \in I : x <= k}
<1>1. A \subseteq B /\ k \in B /\ k \notin A
  <2>1. i \in Nat /\ k \in Nat /\ \A x \in I : x \in Nat
    OBVIOUS
  <2>2. \A x \in I : x <= i => x <= k
    BY <2>1
  <2>3. ~(k <= i) /\ k <= k
    BY <2>1
  <2> QED  BY <2>2, <2>3
<1>2. B \in SUBSET I
  OBVIOUS
<1>3. IsFiniteSet(B)
  BY <1>2, FS_Subset
<1>4. IsFiniteSet(A) /\ Cardinality(A) <= Cardinality(B) /\ Cardinality(A) # Cardinality(B)
  BY <1>1, <1>3, FS_Subset
<1>5. Cardinality(A) \in Nat /\ Cardinality(B) \in Nat
  BY <1>3, <1>4, FS_CardinalityType
<1> QED  BY <1>4, <1>5 DEF Rank

(* The rank of a member of I is one of 1, ..., |I|. *)
LEMMA RankRange ==
  ASSUME NEW I \in SUBSET Nat, IsFiniteSet(I), NEW i \in I
  PROVE  Rank(I, i) \in 1 .. Cardinality(I)
<1> DEFINE A == {x \in I : x <= i}
<1>1. A \in SUBSET I /\ i \in A
  OBVIOUS
<1>2. IsFiniteSet(A) /\ Cardinality(A) <= Cardinality(I)
  BY <1>1, FS_Subset
<1>3. Cardinality(A) \in Nat /\ Cardinality(I) \in Nat
  BY <1>2, FS_CardinalityType
<1>4. Cardinality(A) # 0
  BY <1>1, <1>2, FS_EmptySet
<1> QED  BY <1>2, <1>3, <1>4 DEF Rank

(* Every number up to |I| is the rank of a member of I. *)
LEMMA RankSurjective ==
  ASSUME NEW I \in SUBSET Nat, IsFiniteSet(I), NEW j \in 1 .. Cardinality(I)
  PROVE  \E i \in I : Rank(I, i) = j
<1> DEFINE n == Cardinality(I)
           f == [i \in I |-> Rank(I, i)]
<1>1. n \in Nat
  BY FS_CardinalityType
<1>2. f \in [I -> 1 .. n]
  BY RankRange
<1>3. ASSUME NEW i \in I, NEW k \in I, f[i] = f[k]  PROVE i = k
  <2>1. f[i] = Rank(I, i) /\ f[k] = Rank(I, k)
    OBVIOUS
  <2>2. Rank(I, i) \in Int /\ Rank(I, k) \in Int
    BY RankRange
  <2>3. ~(i < k) /\ ~(k < i)
    BY <1>3, <2>1, <2>2, RankInjective
  <2> QED  BY <2>3
<1>4. f \in Injection(I, 1 .. n)
  BY <1>2, <1>3 DEF Injection, IsInjective
<1>5. IsFiniteSet(1 .. n) /\ Cardinality(1 .. n) = n
  BY <1>1, FS_Interval
<1>6. f \in Surjection(I, 1 .. n)
  BY <1>4, <1>5, FS_Injection
<1> QED  BY <1>6 DEF Surjection

(* Pick returns the elements at the chosen positions and nothing else. *)
LEMMA PickProperties ==
  ASSUME NEW S, NEW s \in Seq(S), NEW I \in SUBSET (DOMAIN s)
  PROVE  /\ Pick(s, I) \in Seq(S)
         /\ Len(Pick(s, I)) = Cardinality(I)
         /\ \A j \in 1 .. Cardinality(I) :
               \E i \in I : Rank(I, i) = j /\ Pick(s, I)[j] = s[i]
         /\ ToSet(Pick(s, I)) = {s[i] : i \in I}
<1> DEFINE n == Cardinality(I)
           at(j) == CHOOSE i \in I : Rank(I, i) = j
           p == [j \in 1 .. n |-> s[at(j)]]
<1>1. IsFiniteSet(I) /\ n \in Nat /\ I \in SUBSET Nat
  BY PositionsFinite
<1>2. \A j \in 1 .. n : at(j) \in I /\ Rank(I, at(j)) = j
  BY <1>1, RankSurjective
<1>3. \A j \in 1 .. n : s[at(j)] \in S
  BY <1>2
<1>4. p \in Seq(S) /\ Len(p) = n
  <2> HIDE DEF at, n
  <2> QED  BY <1>1, <1>3
<1>5. Pick(s, I) = p
  BY DEF Pick
<1>6. \A i \in I : at(Rank(I, i)) = i
  <2> SUFFICES ASSUME NEW i \in I  PROVE at(Rank(I, i)) = i
    OBVIOUS
  <2>1. Rank(I, i) \in 1 .. n
    BY <1>1, RankRange
  <2>2. at(Rank(I, i)) \in I /\ Rank(I, at(Rank(I, i))) = Rank(I, i)
    BY <1>2, <2>1
  <2>3. ~(at(Rank(I, i)) < i) /\ ~(i < at(Rank(I, i)))
    BY <1>1, <2>1, <2>2, RankInjective
  <2> QED  BY <1>1, <2>2, <2>3
<1>7. ToSet(p) \subseteq {s[i] : i \in I}
  BY <1>2, <1>4 DEF ToSet
<1>8. \A i \in I : s[i] \in ToSet(p)
  <2> SUFFICES ASSUME NEW i \in I  PROVE s[i] \in ToSet(p)
    OBVIOUS
  <2>1. Rank(I, i) \in 1 .. n
    BY <1>1, RankRange
  <2>2. p[Rank(I, i)] = s[i]
    BY <1>6, <2>1
  <2> QED  BY <1>4, <2>1, <2>2 DEF ToSet
<1>9. \A j \in 1 .. n : \E i \in I : Rank(I, i) = j /\ p[j] = s[i]
  BY <1>2
<1>10. ToSet(p) = {s[i] : i \in I}
  BY <1>7, <1>8
<1> HIDE DEF p
<1> QED  BY <1>4, <1>5, <1>9, <1>10

(* The range of a sequence, and of a concatenation. *)
LEMMA RangeOf ==
  ASSUME NEW S, NEW s \in Seq(S)
  PROVE  /\ ToSet(s) = {s[i] : i \in 1 .. Len(s)}
         /\ ToSet(s) \subseteq S
         /\ DOMAIN s = 1 .. Len(s) /\ Len(s) \in Nat
<1>1. DOMAIN s = 1 .. Len(s) /\ Len(s) \in Nat /\ \A i \in 1 .. Len(s) : s[i] \in S
  OBVIOUS
<1> QED  BY <1>1 DEF ToSet

(* A list that is not empty has its first element in its range. *)
LEMMA HeadInRange ==
  ASSUME NEW S, NEW s \in Seq(S), s # << >>
  PROVE  1 \in DOMAIN s /\ s[1] \in ToSet(s)
<1>1. 1 \in DOMAIN s
  OBVIOUS
<1> QED  BY <1>1 DEF ToSet

(* The range of a concatenation is the union of the ranges. *)
LEMMA ConcatRange ==
  ASSUME NEW S, NEW s \in Seq(S), NEW t \in Seq(S)
  PROVE  s \o t \in Seq(S) /\ ToSet(s \o t) = ToSet(s) \cup ToSet(t)
<1> DEFINE u == s \o t
<1>1. u \in Seq(S) /\ DOMAIN u = 1 .. (Len(s) + Len(t))
  OBVIOUS
<1>2. /\ DOMAIN s = 1 .. Len(s) /\ Len(s) \in Nat
      /\ DOMAIN t = 1 .. Len(t) /\ Len(t) \in Nat
  BY RangeOf
<1>3. \A i \in DOMAIN s : i \in DOMAIN u /\ u[i] = s[i]
  BY <1>1, <1>2
<1>4. \A i \in DOMAIN t : Len(s) + i \in DOMAIN u /\ u[Len(s) + i] = t[i]
  BY <1>1, <1>2
<1>5. \A i \in DOMAIN u : \/ i \in DOMAIN s /\ u[i] = s[i]
                          \/ i - Len(s) \in DOMAIN t /\ u[i] = t[i - Len(s)]
  BY <1>1, <1>2
<1> HIDE DEF u
<1>6. ToSet(u) = ToSet(s) \cup ToSet(t)
  BY <1>3, <1>4, <1>5 DEF ToSet
<1> QED  BY <1>1, <1>6 DEF u

(* Two lists without duplicates and without a common element have a
   concatenation without duplicates. *)
LEMMA ConcatDistinct ==
  ASSUME NEW S, NEW s \in Seq(S), NEW t \in Seq(S),
         NoDuplicates(s), NoDuplicates(t), ToSet(s) \cap ToSet(t) = {}
  PROVE  NoDuplicates(s \o t)
<1> DEFINE u == s \o t
<1>1. u \in Seq(S) /\ Len(u) = Len(s) + Len(t) /\ DOMAIN u = 1 .. (Len(s) + Len(t))
  OBVIOUS
<1>2. \A i \in 1 .. Len(s) : u[i] = s[i] /\ s[i] \in ToSet(s)
  BY RangeOf
<1>3. \A i \in DOMAIN u : i \notin 1 .. Len(s) =>
         /\ i - Len(s) \in 1 .. Len(t)
         /\ u[i] = t[i - Len(s)]
  BY <1>1
<1>4. \A i \in 1 .. Len(t) : t[i] \in ToSet(t)
  BY RangeOf
<1>5. ASSUME NEW i \in DOMAIN u, NEW k \in DOMAIN u, u[i] = u[k]  PROVE i = k
  <2>1. CASE i \in 1 .. Len(s) /\ k \in 1 .. Len(s)
    BY <1>2, <1>5, <2>1 DEF NoDuplicates
  <2>2. CASE i \notin 1 .. Len(s) /\ k \notin 1 .. Len(s)
    <3>1. i - Len(s) = k - Len(s)
      BY <1>3, <1>5, <2>2 DEF NoDuplicates
    <3> QED  BY <1>1, <3>1
  <2>3. CASE i \in 1 .. Len(s) /\ k \notin 1 .. Len(s)
    BY <1>2, <1>3, <1>4, <1>5, <2>3
  <2>4. CASE i \notin 1 .. Len(s) /\ k \in 1 .. Len(s)
    BY <1>2, <1>3, <1>4, <1>5, <2>4
  <2> QED  BY <2>1, <2>2, <2>3, <2>4
<1> QED  BY <1>5 DEF NoDuplicates

(* The filter loop keeps exactly the wanted elements. *)
LEMMA KeepProperties ==
  ASSUME NEW S, NEW s \in Seq(S), NEW T
  PROVE  Keep(s, T) \in Seq(S) /\ ToSet(Keep(s, T)) = ToSet(s) \cap T
<1> DEFINE I == {i \in DOMAIN s : s[i] \in T}
<1>1. I \in SUBSET (DOMAIN s)
  OBVIOUS
<1>2. Pick(s, I) \in Seq(S) /\ ToSet(Pick(s, I)) = {s[i] : i \in I}
  BY <1>1, PickProperties
<1>3. {s[i] : i \in I} = ToSet(s) \cap T
  BY DEF ToSet
<1> QED  BY <1>2, <1>3 DEF Keep

(* A sequence that is picked from positions with different elements holds no
   element twice. *)
LEMMA PickDistinct ==
  ASSUME NEW S, NEW s \in Seq(S), NEW I \in SUBSET (DOMAIN s),
         \A i, k \in I : s[i] = s[k] => i = k
  PROVE  NoDuplicates(Pick(s, I))
<1> DEFINE p == Pick(s, I)
<1>1. /\ p \in Seq(S) /\ Len(p) = Cardinality(I)
      /\ \A j \in 1 .. Cardinality(I) : \E i \in I : Rank(I, i) = j /\ p[j] = s[i]
  BY PickProperties
<1> HIDE DEF p
<1>2. DOMAIN p = 1 .. Cardinality(I)
  BY <1>1
<1>3. ASSUME NEW j \in DOMAIN p, NEW l \in DOMAIN p, p[j] = p[l]  PROVE j = l
  BY <1>1, <1>2, <1>3
<1> QED  BY <1>3 DEF NoDuplicates, p

(* The element at a chosen position comes at the rank of that position. *)
LEMMA PickAt ==
  ASSUME NEW S, NEW s \in Seq(S), NEW I \in SUBSET (DOMAIN s), NEW i \in I
  PROVE  Rank(I, i) \in 1 .. Cardinality(I) /\ Pick(s, I)[Rank(I, i)] = s[i]
<1>1. IsFiniteSet(I) /\ Cardinality(I) \in Nat /\ I \subseteq Nat \ {0}
  BY PositionsFinite
<1>2. Rank(I, i) \in 1 .. Cardinality(I)
  BY <1>1, RankRange
<1>3. PICK k \in I : Rank(I, k) = Rank(I, i) /\ Pick(s, I)[Rank(I, i)] = s[k]
  BY <1>2, PickProperties
<1>4. \A a, b \in I : a < b => Rank(I, a) < Rank(I, b)
  BY <1>1, RankInjective
<1>5. \A a \in I : Rank(I, a) \in Nat
  BY <1>1, RankRange
<1>6. k = i
  BY <1>1, <1>3, <1>4, <1>5
<1>7. QED  BY <1>2, <1>3, <1>6

(* The first positions, if all are chosen, keep their number. *)
LEMMA RankOfPrefix ==
  ASSUME NEW I \in SUBSET Nat, 0 \notin I, NEW m \in Nat, 1 .. m \subseteq I,
         NEW i \in 1 .. m
  PROVE  Rank(I, i) = i
<1>1. {k \in I : k <= i} = 1 .. i
  <2>1. \A k \in I : k \in Nat /\ k # 0
    OBVIOUS
  <2>2. \A k \in I : k <= i => k \in 1 .. i
    BY <2>1
  <2>3. \A k \in 1 .. i : k \in I /\ k <= i
    OBVIOUS
  <2>4. QED  BY <2>2, <2>3
<1>2. Cardinality(1 .. i) = i
  BY FS_Interval
<1>3. QED  BY <1>1, <1>2 DEF Rank

(* The first positions are kept in place, and the others come after them. *)
LEMMA PickPrefix ==
  ASSUME NEW S, NEW s \in Seq(S), NEW I \in SUBSET (DOMAIN s), NEW m \in Nat, 1 .. m \subseteq I
  PROVE  LET p == Pick(s, I)
         IN  /\ Len(p) \in Nat /\ m <= Len(p)
             /\ \A j \in 1 .. m : p[j] = s[j]
             /\ ToSet(SubSeq(p, m + 1, Len(p))) = {s[i] : i \in {k \in I : k > m}}
<1> DEFINE p == Pick(s, I)
<1>1. IsFiniteSet(I) /\ Cardinality(I) \in Nat /\ I \subseteq Nat \ {0}
  BY PositionsFinite
<1>2. p \in Seq(S) /\ Len(p) = Cardinality(I)
  BY PickProperties
<1>3. \A i \in 1 .. m : Rank(I, i) = i
  BY <1>1, RankOfPrefix
<1>4. \A j \in 1 .. m : j \in 1 .. Cardinality(I) /\ p[j] = s[j]
  BY <1>3, PickAt
<1>5. m <= Len(p)
  BY <1>1, <1>2, <1>4
<1>6. ToSet(SubSeq(p, m + 1, Len(p))) = {p[j] : j \in (m + 1) .. Len(p)}
  <2> HIDE DEF p
  <2>1. Len(p) \in Nat
    BY <1>1, <1>2
  <2> DEFINE t == SubSeq(p, m + 1, Len(p))
  <2>2. DOMAIN t = 1 .. (Len(p) - m) /\ \A k \in 1 .. (Len(p) - m) : t[k] = p[k + m]
    BY <1>2, <1>5, <2>1
  <2>3. \A j \in (m + 1) .. Len(p) : j - m \in 1 .. (Len(p) - m) /\ p[j] = t[j - m]
    BY <2>1, <2>2
  <2>4. \A k \in 1 .. (Len(p) - m) : k + m \in (m + 1) .. Len(p)
    BY <2>1
  <2> HIDE DEF t
  <2>5. ToSet(t) = {t[k] : k \in 1 .. (Len(p) - m)}
    BY <2>2 DEF ToSet
  <2>6. ToSet(t) = {p[j] : j \in (m + 1) .. Len(p)}
    BY <2>2, <2>3, <2>4, <2>5
  <2>7. QED  BY <2>6 DEF t
<1>7. ASSUME NEW j \in (m + 1) .. Len(p)
      PROVE  \E i \in I : i > m /\ p[j] = s[i]
  <2>1. PICK i \in I : Rank(I, i) = j /\ p[j] = s[i]
    BY <1>1, <1>2, PickProperties
  <2>2. i \in Nat \ {0} /\ ~(i <= m)
    BY <1>1, <1>3, <2>1
  <2>3. QED  BY <2>1, <2>2
<1>8. ASSUME NEW i \in I, i > m
      PROVE  \E j \in (m + 1) .. Len(p) : p[j] = s[i]
  <2>1. Rank(I, i) \in 1 .. Cardinality(I) /\ p[Rank(I, i)] = s[i]
    BY PickAt
  <2>2. Rank(I, i) > m
    <3>1. CASE m = 0
      BY <3>1, <2>1
    <3>2. CASE m # 0
      <4>1. m \in I /\ m \in Nat /\ i \in Nat
        BY <3>2, <1>1
      <4>2. Rank(I, m) < Rank(I, i)
        BY <4>1, <1>1, <1>8, RankInjective
      <4>3. QED  BY <3>2, <4>2, <1>3
    <3>3. QED  BY <3>1, <3>2
  <2>3. QED  BY <1>1, <1>2, <2>1, <2>2
<1>9. {p[j] : j \in (m + 1) .. Len(p)} = {s[i] : i \in {k \in I : k > m}}
  <2> HIDE DEF p
  <2>1. QED  BY <1>7, <1>8
<1>10. QED  BY <1>1, <1>2, <1>4, <1>5, <1>6, <1>9

(* One more position, after the others, is one more element. *)
LEMMA PickNext ==
  ASSUME NEW S, NEW s \in Seq(S), NEW I \in SUBSET (DOMAIN s), NEW n \in DOMAIN s,
         \A i \in I : i < n
  PROVE  Pick(s, I \cup {n}) = Append(Pick(s, I), s[n])
<1> DEFINE J == I \cup {n}
           p == Pick(s, I)
           q == Pick(s, J)
           m == Cardinality(I)
<1>1. /\ IsFiniteSet(I) /\ m \in Nat /\ I \subseteq Nat \ {0}
      /\ J \in SUBSET (DOMAIN s) /\ n \in Nat
  BY PositionsFinite
<1>2. Cardinality(J) = m + 1
  <2>1. n \notin I
    BY <1>1
  <2> QED  BY <1>1, <2>1, FS_AddElement
<1>3. p \in Seq(S) /\ Len(p) = m
  BY <1>1, PickProperties
<1>4. q \in Seq(S) /\ Len(q) = m + 1
  BY <1>1, <1>2, PickProperties
<1>5. ASSUME NEW j \in 1 .. m  PROVE q[j] = p[j]
  <2>1. PICK i \in I : Rank(I, i) = j /\ p[j] = s[i]
    BY <1>1, PickProperties
  <2>2. {k \in J : k <= i} = {k \in I : k <= i}
    BY <1>1, <2>1
  <2>3. Rank(J, i) = j
    BY <2>1, <2>2 DEF Rank
  <2>4. q[Rank(J, i)] = s[i]
    BY <1>1, <2>1, PickAt
  <2> QED  BY <2>1, <2>3, <2>4
<1>6. q[m + 1] = s[n]
  <2>1. {k \in J : k <= n} = J
    BY <1>1
  <2>2. Rank(J, n) = m + 1
    BY <1>2, <2>1 DEF Rank
  <2>3. q[Rank(J, n)] = s[n]
    BY <1>1, PickAt
  <2> QED  BY <2>2, <2>3
<1>7. s[n] \in S
  OBVIOUS
<1> HIDE DEF p, q, m
<1>8. q = Append(p, s[n])
  BY <1>1, <1>3, <1>4, <1>5, <1>6, <1>7
<1> QED  BY <1>8 DEF p, q

(* Appending what is missing adds the elements of t and nothing else, and
   never makes a slice hold an element twice. *)
LEMMA AppendNewProperties ==
  ASSUME NEW S, NEW s \in Seq(S), NEW t \in Seq(S)
  PROVE  /\ AppendNew(s, t) \in Seq(S)
         /\ ToSet(AppendNew(s, t)) = ToSet(s) \cup ToSet(t)
         /\ NoDuplicates(s) => NoDuplicates(AppendNew(s, t))
<1> DEFINE I == Fresh(s, t)
           p == Pick(t, I)
<1>1. I \in SUBSET (DOMAIN t)
  BY DEF Fresh
<1>2. p \in Seq(S) /\ ToSet(p) = {t[i] : i \in I}
  BY <1>1, PickProperties
<1>3. \A i \in I : t[i] \notin ToSet(s)
  BY DEF Fresh
<1>4. \A i, k \in I : t[i] = t[k] => i = k
  <2>1. \A i \in I : i \in Nat \ {0}
    BY <1>1, RangeOf
  <2>2. ASSUME NEW i \in I, NEW k \in I, i < k  PROVE t[i] # t[k]
    <3>1. i \in 1 .. (k - 1)
      BY <2>1, <2>2
    <3> QED  BY <3>1 DEF Fresh
  <2>3. ASSUME NEW i \in I, NEW k \in I, t[i] = t[k]  PROVE i = k
    <3>1. ~(i < k) /\ ~(k < i)
      BY <2>2, <2>3
    <3> QED  BY <2>1, <3>1
  <2> QED  BY <2>3
<1>5. NoDuplicates(p)
  BY <1>1, <1>4, PickDistinct
<1>6. ToSet(t) \subseteq ToSet(s) \cup ToSet(p)
  <2> SUFFICES ASSUME NEW i \in DOMAIN t, t[i] \notin ToSet(s)  PROVE t[i] \in ToSet(p)
    BY DEF ToSet
  <2> DEFINE E == {k \in DOMAIN t : t[k] = t[i]}
  <2>1. E \in SUBSET Nat /\ E # {}
    BY RangeOf
  <2>2. PICK k \in E : \A l \in E : k <= l
    BY <2>1, LeastNatural
  <2>3. \A l \in 1 .. (k - 1) : t[l] # t[k]
    <3> SUFFICES ASSUME NEW l \in 1 .. (k - 1), t[l] = t[k]  PROVE FALSE
      OBVIOUS
    <3>1. k \in 1 .. Len(t) /\ t[k] = t[i] /\ Len(t) \in Nat
      BY RangeOf
    <3>2. l \in 1 .. Len(t) /\ ~(k <= l)
      BY <3>1
    <3>3. l \in E
      BY <3>1, <3>2, RangeOf
    <3> QED  BY <2>2, <3>2, <3>3
  <2>4. k \in I
    BY <2>3 DEF Fresh
  <2> QED  BY <1>2, <2>4
<1>7. AppendNew(s, t) = s \o p
  BY DEF AppendNew
<1>8. AppendNew(s, t) \in Seq(S) /\ ToSet(AppendNew(s, t)) = ToSet(s) \cup ToSet(p)
  <2> HIDE DEF p
  <2> QED  BY <1>2, <1>7, ConcatRange
<1>9. ToSet(p) \subseteq ToSet(t)
  BY <1>1, <1>2 DEF ToSet
<1>10. ToSet(s) \cap ToSet(p) = {}
  BY <1>2, <1>3
<1>11. ASSUME NoDuplicates(s)  PROVE NoDuplicates(AppendNew(s, t))
  BY <1>2, <1>5, <1>7, <1>10, <1>11, ConcatDistinct
<1> QED  BY <1>6, <1>8, <1>9, <1>11

(* What appending adds, for the steps that need nothing else. *)
LEMMA AppendNewRange ==
  ASSUME NEW S, NEW s \in Seq(S), NEW t \in Seq(S)
  PROVE  ToSet(AppendNew(s, t)) = ToSet(s) \cup ToSet(t)
BY AppendNewProperties

(* A slice that a member of S was appended to holds members of S. *)
LEMMA AppendNewSeq ==
  ASSUME NEW S, NEW s \in Seq(S), NEW t \in Seq(S)
  PROVE  AppendNew(s, t) \in Seq(S)
BY AppendNewProperties

(* One element is appended. *)
LEMMA AppendOne ==
  ASSUME NEW S, NEW s \in Seq(S), NEW k \in S
  PROVE  ToSet(AppendNew(s, <<k>>)) = ToSet(s) \cup {k}
<1> DEFINE t == <<k>>
<1>1. t \in Seq(S) /\ ToSet(t) = {k}
  BY DEF ToSet
<1> HIDE DEF t
<1>2. ToSet(AppendNew(s, t)) = ToSet(s) \cup ToSet(t)
  BY <1>1, AppendNewRange
<1>3. ToSet(AppendNew(s, t)) = ToSet(s) \cup {k}
  BY <1>1, <1>2
<1> QED  BY <1>3 DEF t

(* Appending to a slice that is still empty. *)
LEMMA AppendToEmpty ==
  ASSUME NEW S, NEW t \in Seq(S)
  PROVE  AppendNew(<< >>, t) \in Seq(S) /\ ToSet(AppendNew(<< >>, t)) = ToSet(t)
<1> DEFINE s == << >>
<1>1. s \in Seq(S)
  OBVIOUS
<1>2. ToSet(s) = {}
  BY DEF ToSet
<1> HIDE DEF s
<1>3. AppendNew(s, t) \in Seq(S)
  BY <1>1, AppendNewSeq
<1>4. ToSet(AppendNew(s, t)) = ToSet(s) \cup ToSet(t)
  BY <1>1, AppendNewRange
<1>5. AppendNew(s, t) \in Seq(S) /\ ToSet(AppendNew(s, t)) = ToSet(t)
  BY <1>2, <1>3, <1>4
<1> QED  BY <1>5 DEF s

(* The first elements of a slice that starts empty are the first that were
   appended. *)
LEMMA FirstOfNew ==
  ASSUME NEW S, NEW t \in Seq(S), t # << >>
  PROVE  LET p == AppendNew(<< >>, t)
         IN  /\ p \in Seq(S) /\ Len(p) \in Nat /\ Len(p) >= 1
             /\ ToSet(p) = ToSet(t)
             /\ p[1] = t[1]
             /\ Len(p) >= 2 => Len(t) >= 2
             /\ Len(p) >= 2 /\ t[1] # t[2] => p[2] = t[2]
<1> DEFINE I == Fresh(<< >>, t)
           p == AppendNew(<< >>, t)
<1>1. Len(t) \in Nat /\ DOMAIN t = 1 .. Len(t) /\ Len(t) >= 1
  OBVIOUS
<1>2. ToSet(<< >>) = {} /\ << >> \in Seq(S)
  BY DEF ToSet
<1>3. I = {i \in DOMAIN t : \A k \in 1 .. (i - 1) : t[k] # t[i]}
  BY <1>2 DEF Fresh
<1>4. I \in SUBSET (DOMAIN t) /\ 1 \in I /\ (Len(t) >= 2 /\ t[1] # t[2] => 2 \in I)
  <2>1. 1 \in I
    BY <1>1, <1>3
  <2>2. ASSUME Len(t) >= 2, t[1] # t[2] PROVE 2 \in I
    <3>1. \A k \in 1 .. (2 - 1) : k = 1
      OBVIOUS
    <3>2. QED  BY <1>1, <1>3, <2>2, <3>1
  <2>3. QED  BY <1>3, <2>1, <2>2
<1> HIDE DEF I
<1>5. p = Pick(t, I)
  <2>1. Pick(t, I) \in Seq(S)
    BY <1>4, PickProperties
  <2>2. << >> \o Pick(t, I) = Pick(t, I)
    BY <2>1
  <2>3. QED  BY <2>2 DEF AppendNew, I
<1> HIDE DEF p
<1>6. p \in Seq(S) /\ Len(p) = Cardinality(I) /\ Len(p) \in Nat
  BY <1>4, <1>5, PickProperties
<1>7. ToSet(p) = ToSet(t)
  <2>1. ToSet(AppendNew(<< >>, t)) = ToSet(t)
    BY AppendToEmpty
  <2>2. QED  BY <2>1 DEF p
<1>8. Len(p) >= 1 /\ p[1] = t[1]
  <2>1. 1 .. 1 \subseteq I
    BY <1>4
  <2>2. QED  BY <1>4, <1>5, <2>1, PickPrefix
<1>9. Len(p) <= Len(t)
  <2>1. IsFiniteSet(1 .. Len(t)) /\ Cardinality(1 .. Len(t)) = Len(t)
    BY <1>1, FS_Interval
  <2>2. QED  BY <1>1, <1>4, <1>6, <2>1, FS_Subset
<1>10. ASSUME Len(p) >= 2, t[1] # t[2] PROVE p[2] = t[2]
  <2>1. Len(t) >= 2
    BY <1>1, <1>6, <1>9, <1>10
  <2>2. 1 .. 2 \subseteq I
    BY <1>4, <1>10, <2>1
  <2>3. QED  BY <1>4, <1>5, <2>2, PickPrefix
<1>11. QED  BY <1>1, <1>6, <1>7, <1>8, <1>9, <1>10 DEF p

(* A list without duplicates is as long as its range is large. *)
LEMMA DistinctLength ==
  ASSUME NEW S, NEW s \in Seq(S), NoDuplicates(s)
  PROVE  IsFiniteSet(ToSet(s)) /\ Cardinality(ToSet(s)) = Len(s)
<1>1. DOMAIN s = 1 .. Len(s) /\ Len(s) \in Nat /\ ToSet(s) = {s[i] : i \in 1 .. Len(s)}
  BY RangeOf
<1>2. IsFiniteSet(1 .. Len(s)) /\ Cardinality(1 .. Len(s)) = Len(s)
  BY <1>1, FS_Interval
<1> DEFINE f == [i \in 1 .. Len(s) |-> s[i]]
<1>3. f \in Bijection(1 .. Len(s), ToSet(s))
  <2>1. f \in [1 .. Len(s) -> ToSet(s)]
    BY <1>1
  <2>2. \A i, k \in 1 .. Len(s) : f[i] = f[k] => i = k
    BY <1>1 DEF NoDuplicates
  <2>3. \A x \in ToSet(s) : \E i \in 1 .. Len(s) : f[i] = x
    BY <1>1
  <2> HIDE DEF f
  <2> QED  BY <2>1, <2>2, <2>3 DEF Bijection, Injection, Surjection, IsInjective
<1> HIDE DEF f
<1>4. ExistsBijection(1 .. Len(s), ToSet(s))
  BY <1>3 DEF ExistsBijection
<1> QED  BY <1>2, <1>4, FS_Bijection

(* Who picks every element gets the list. *)
LEMMA PickAll ==
  ASSUME NEW S, NEW s \in Seq(S)
  PROVE  Pick(s, DOMAIN s) = s
<1> DEFINE p == Pick(s, DOMAIN s)
<1>1. DOMAIN s = 1 .. Len(s) /\ Len(s) \in Nat
  BY RangeOf
<1>2. IsFiniteSet(1 .. Len(s)) /\ Cardinality(1 .. Len(s)) = Len(s)
  BY <1>1, FS_Interval
<1>3. p \in Seq(S) /\ Len(p) = Len(s)
  BY <1>1, <1>2, PickProperties
<1>4. \A i \in 1 .. Len(s) : p[i] = s[i]
  <2>1. 1 .. Len(s) \subseteq DOMAIN s /\ DOMAIN s \in SUBSET (DOMAIN s)
    BY <1>1
  <2> QED  BY <1>1, <2>1, PickPrefix
<1> HIDE DEF p
<1>5. p = s
  BY <1>3, <1>4, SeqEqual
<1> QED  BY <1>5 DEF p

(* The filter loop that wants every element keeps the list, and what it keeps
   is repeated no more than before. *)
LEMMA KeepAll ==
  ASSUME NEW S, NEW s \in Seq(S), NEW T, ToSet(s) \subseteq T
  PROVE  Keep(s, T) = s
<1>1. {i \in DOMAIN s : s[i] \in T} = DOMAIN s
  BY DEF ToSet
<1> QED  BY <1>1, PickAll DEF Keep

LEMMA KeepDistinct ==
  ASSUME NEW S, NEW s \in Seq(S), NEW T, NoDuplicates(s)
  PROVE  NoDuplicates(Keep(s, T))
<1> DEFINE I == {i \in DOMAIN s : s[i] \in T}
<1>1. I \in SUBSET (DOMAIN s) /\ \A i, k \in I : s[i] = s[k] => i = k
  BY DEF NoDuplicates
<1> HIDE DEF I
<1>2. NoDuplicates(Pick(s, I))
  BY <1>1, PickDistinct
<1> QED  BY <1>2 DEF Keep, I

(* A slice that starts empty takes over a list without duplicates. *)
LEMMA NewDistinct ==
  ASSUME NEW S, NEW s \in Seq(S), NoDuplicates(s)
  PROVE  AppendNew(<< >>, s) = s
<1>1. ToSet(<< >>) = {} /\ << >> \in Seq(S)
  BY DEF ToSet
<1>2. Fresh(<< >>, s) = DOMAIN s
  <2>1. DOMAIN s = 1 .. Len(s) /\ Len(s) \in Nat
    BY RangeOf
  <2>2. ASSUME NEW i \in DOMAIN s, NEW k \in 1 .. (i - 1)  PROVE s[k] # s[i]
    <3>1. k \in DOMAIN s /\ k # i
      BY <2>1
    <3> QED  BY <3>1 DEF NoDuplicates
  <2> QED  BY <1>1, <2>2 DEF Fresh
<1> QED  BY <1>2, PickAll DEF AppendNew

(* The least member of a set of naturals. *)
LEMMA MinIsLeast ==
  ASSUME NEW T \in SUBSET Nat, T # {}
  PROVE  Min(T) \in T /\ \A y \in T : Min(T) <= y
<1>1. \E x \in T : \A y \in T : x <= y
  BY LeastNatural
<1> QED  BY <1>1 DEF Min

(* IndexOf finds an element that is there. *)
LEMMA IndexOfProperties ==
  ASSUME NEW S, NEW s \in Seq(S), NEW x \in ToSet(s)
  PROVE  IndexOf(s, x) \in DOMAIN s /\ s[IndexOf(s, x)] = x
<1> DEFINE E == {i \in DOMAIN s : s[i] = x}
<1>1. E \in SUBSET Nat /\ E # {} /\ DOMAIN s = 1 .. Len(s) /\ Len(s) \in Nat
  BY RangeOf DEF ToSet
<1>2. PICK i \in E : \A k \in E : i <= k
  BY <1>1, LeastNatural
<1>3. \A k \in 1 .. (i - 1) : s[k] # x
  BY <1>1, <1>2
<1> QED  BY <1>2, <1>3 DEF IndexOf

(* Removing the element at a position keeps the others. *)
LEMMA RemoveAtProperties ==
  ASSUME NEW S, NEW s \in Seq(S), NEW n \in DOMAIN s
  PROVE  /\ RemoveAt(s, n) \in Seq(S)
         /\ ToSet(RemoveAt(s, n)) = {s[i] : i \in (DOMAIN s) \ {n}}
         /\ NoDuplicates(s) => NoDuplicates(RemoveAt(s, n))
<1> DEFINE a == SubSeq(s, 1, n - 1)
           b == SubSeq(s, n + 1, Len(s))
<1>1. DOMAIN s = 1 .. Len(s) /\ Len(s) \in Nat /\ n \in 1 .. Len(s)
  BY RangeOf
<1>2. a \in Seq(S) /\ Len(a) = n - 1 /\ \A i \in 1 .. (n - 1) : a[i] = s[i]
  BY <1>1
<1>3. b \in Seq(S) /\ Len(b) = Len(s) - n /\ \A i \in 1 .. (Len(s) - n) : b[i] = s[n + i]
  BY <1>1
<1>4. RemoveAt(s, n) = a \o b
  BY DEF RemoveAt
<1> HIDE DEF a, b
<1>5. DOMAIN a = 1 .. (n - 1) /\ DOMAIN b = 1 .. (Len(s) - n)
  BY <1>1, <1>2, <1>3
<1>6. ToSet(a) = {s[i] : i \in 1 .. (n - 1)}
  BY <1>2, <1>5 DEF ToSet
<1>7. ToSet(b) = {s[i] : i \in (n + 1) .. Len(s)}
  <2>1. \A i \in 1 .. (Len(s) - n) : n + i \in (n + 1) .. Len(s) /\ b[i] = s[n + i]
    BY <1>1, <1>3
  <2>2. \A i \in (n + 1) .. Len(s) : i - n \in 1 .. (Len(s) - n) /\ b[i - n] = s[i]
    <3> SUFFICES ASSUME NEW i \in (n + 1) .. Len(s)
                 PROVE  i - n \in 1 .. (Len(s) - n) /\ b[i - n] = s[i]
      OBVIOUS
    <3>1. i - n \in 1 .. (Len(s) - n) /\ n + (i - n) = i
      BY <1>1
    <3> QED  BY <2>1, <3>1
  <2> QED  BY <1>5, <2>1, <2>2 DEF ToSet
<1>8. (1 .. (n - 1)) \cup ((n + 1) .. Len(s)) = (DOMAIN s) \ {n}
  BY <1>1
<1>9. ToSet(a \o b) = {s[i] : i \in (DOMAIN s) \ {n}}
  <2>1. ToSet(a \o b) = ToSet(a) \cup ToSet(b)
    BY <1>2, <1>3, ConcatRange
  <2> QED  BY <1>6, <1>7, <1>8, <2>1
<1>10. ASSUME NoDuplicates(s)  PROVE NoDuplicates(a \o b)
  <2>1. NoDuplicates(a)
    BY <1>1, <1>2, <1>5, <1>10 DEF NoDuplicates
  <2>2. ASSUME NEW i \in DOMAIN b, NEW k \in DOMAIN b, b[i] = b[k]  PROVE i = k
    <3>1. n + i \in DOMAIN s /\ n + k \in DOMAIN s /\ s[n + i] = s[n + k]
      BY <1>1, <1>3, <1>5, <2>2
    <3>2. n + i = n + k
      BY <1>10, <3>1 DEF NoDuplicates
    <3> QED  BY <1>1, <1>5, <3>2
  <2>3. ASSUME NEW i \in 1 .. (n - 1), NEW k \in (n + 1) .. Len(s)  PROVE s[i] # s[k]
    <3>1. i \in DOMAIN s /\ k \in DOMAIN s /\ i # k
      BY <1>1
    <3> QED  BY <1>10, <3>1 DEF NoDuplicates
  <2>4. ToSet(a) \cap ToSet(b) = {}
    BY <1>6, <1>7, <2>3
  <2>5. NoDuplicates(b)
    BY <2>2 DEF NoDuplicates
  <2> QED  BY <1>2, <1>3, <2>1, <2>4, <2>5, ConcatDistinct
<1> QED  BY <1>2, <1>3, <1>4, <1>9, <1>10, ConcatRange

(* In a slice without duplicates, removing the first occurrence of an element
   removes the element. *)
LEMMA RemoveElement ==
  ASSUME NEW S, NEW s \in Seq(S), NoDuplicates(s), NEW x \in ToSet(s)
  PROVE  /\ RemoveAt(s, IndexOf(s, x)) \in Seq(S)
         /\ ToSet(RemoveAt(s, IndexOf(s, x))) = ToSet(s) \ {x}
         /\ NoDuplicates(RemoveAt(s, IndexOf(s, x)))
<1> DEFINE n == IndexOf(s, x)
<1>1. n \in DOMAIN s /\ s[n] = x
  BY IndexOfProperties
<1> HIDE DEF n
<1>2. {s[i] : i \in (DOMAIN s) \ {n}} = ToSet(s) \ {x}
  BY <1>1 DEF ToSet, NoDuplicates
<1> QED  BY <1>1, <1>2, RemoveAtProperties DEF n
-----------------------------------------------------------------------------
(***************************************************************************)
(* Chains.                                                                 *)
(***************************************************************************)

(* There are finitely many certificates. *)
LEMMA CertCount == Cardinality(Cert) \in Nat
BY PkiFinite, FS_CardinalityType

(* A list without duplicates is no longer than the number of certificates. *)
LEMMA DistinctIsShort ==
  ASSUME NEW p \in Seq(Cert), NoDuplicates(p)
  PROVE  Len(p) <= Cardinality(Cert)
<1>1. p \in Injection(1 .. Len(p), Cert)
  <2>1. p \in [1 .. Len(p) -> Cert] /\ DOMAIN p = 1 .. Len(p)
    BY RangeOf
  <2> QED  BY <2>1 DEF Injection, IsInjective, NoDuplicates
<1>2. Len(p) \in Nat
  OBVIOUS
<1>3. Cardinality(1 .. Len(p)) <= Cardinality(Cert)
  BY <1>1, PkiFinite, FS_Injection
<1>4. Cardinality(1 .. Len(p)) = Len(p)
  <2>1. ASSUME NEW n \in Nat  PROVE Cardinality(1 .. n) = n
    BY FS_Interval
  <2> QED  BY <1>2, <2>1
<1> QED  BY <1>3, <1>4

LinkedList(p) == \A i \in 1 .. (Len(p) - 1) : IsParent(p[i], p[i + 1])

(* Paths has every list without duplicates. *)
LEMMA PathsAre ==
  ASSUME NEW p \in Seq(Cert), p # << >>, NoDuplicates(p)
  PROVE  p \in Paths
<1> DEFINE N == Cardinality(Cert)
           f == [i \in 1 .. N |-> IF i <= Len(p) THEN p[i] ELSE p[1]]
<1>1. N \in Nat /\ Len(p) \in 1 .. N
  BY CertCount, DistinctIsShort
<1>2. f \in [1 .. N -> Cert]
  BY <1>1
<1>3. SubSeq(f, 1, Len(p)) = p
  <2>1. \A i \in 1 .. Len(p) : f[i] = p[i] /\ f[i] \in Cert
    BY <1>1
  <2> HIDE DEF f
  <2>2. SubSeq(f, 1, Len(p)) \in Seq(Cert) /\ Len(SubSeq(f, 1, Len(p))) = Len(p)
    BY <1>1, <2>1, SubSeqProperties
  <2>3. \A i \in 1 .. Len(p) : SubSeq(f, 1, Len(p))[i] = p[i]
    BY <1>1, <2>1
  <2> QED  BY <2>2, <2>3, SeqEqual
<1> QED
  <2> HIDE DEF f
  <2>1. p \in {SubSeq(g, 1, Len(p)) : g \in [1 .. N -> Cert]}
    BY <1>2, <1>3
  <2> QED  BY <1>1, <2>1 DEF Paths

(* SignedPaths, without its bound on the length. *)
LEMMA SignedPathsAre ==
  ASSUME NEW p \in Seq(Cert), p # << >>, NoDuplicates(p), LinkedList(p)
  PROVE  p \in SignedPaths
BY PathsAre DEF SignedPaths, LinkedList

(* What membership in SignedPaths says, without the set of all paths. *)
LEMMA SignedPathType ==
  ASSUME NEW p \in SignedPaths
  PROVE  /\ p \in Seq(Cert) /\ p # << >> /\ Len(p) \in Nat \ {0}
         /\ NoDuplicates(p) /\ LinkedList(p)
<1>1. NoDuplicates(p) /\ LinkedList(p) /\ p \in Paths
  BY DEF SignedPaths, LinkedList
<1>2. PICK n \in 1 .. Cardinality(Cert) :
         \E f \in [1 .. Cardinality(Cert) -> Cert] : p = SubSeq(f, 1, n)
  BY <1>1 DEF Paths
<1>3. PICK f \in [1 .. Cardinality(Cert) -> Cert] : p = SubSeq(f, 1, n)
  BY <1>2
<1>4. \A i \in 1 .. n : f[i] \in Cert
  BY CertCount
<1>5. p \in Seq(Cert) /\ Len(p) = n
  BY CertCount, <1>3, <1>4, SubSeqProperties
<1> QED  BY CertCount, <1>1, <1>5

Walks(leaf, cs) == {p \in SignedPaths : IsWalk(p, leaf, cs)}

(* A walk that the loop can continue is one certificate longer after the next
   pass. *)
LEMMA WalkExtends ==
  ASSUME NEW cs \in Seq(Cert), NEW leaf \in Cert, NEW p \in Walks(leaf, cs),
         ~CannotExtend(p, cs)
  PROVE  \E q \in Walks(leaf, cs) : Len(q) = Len(p) + 1
<1> DEFINE n == Len(p)
           C == Candidates(p, n, cs)
<1>1. /\ p \in Seq(Cert) /\ p # << >> /\ n \in Nat \ {0}
      /\ NoDuplicates(p) /\ LinkedList(p) /\ IsWalk(p, leaf, cs)
  BY SignedPathType DEF Walks
<1>2. C \in SUBSET Nat /\ C # {} /\ ~IsRoot(p[n])
  BY RangeOf DEF CannotExtend, Candidates
<1>3. PICK j \in C : \A k \in C : j <= k
  BY <1>2, LeastNatural
<1>4. /\ j \in DOMAIN cs /\ IsParent(p[n], cs[j])
      /\ \A k \in 1 .. n : p[k] # cs[j]
  BY DEF Candidates
<1> DEFINE q == Append(p, cs[j])
<1>5. cs[j] \in Cert
  BY <1>4
<1>6. /\ q \in Seq(Cert) /\ q # << >> /\ Len(q) = n + 1
      /\ \A i \in 1 .. n : q[i] = p[i]
      /\ q[n + 1] = cs[j]
  BY <1>1, <1>5, AppendProperties
<1> HIDE DEF q
<1>7. NoDuplicates(q)
  <2>1. DOMAIN q = 1 .. (n + 1) /\ DOMAIN p = 1 .. n
    BY <1>1, <1>6
  <2>2. ASSUME NEW i \in 1 .. (n + 1), NEW k \in 1 .. (n + 1), q[i] = q[k]
        PROVE  i = k
    <3>1. CASE i \in 1 .. n /\ k \in 1 .. n
      BY <1>1, <1>6, <2>1, <2>2, <3>1 DEF NoDuplicates
    <3>2. CASE i = n + 1 \/ k = n + 1
      BY <1>1, <1>4, <1>6, <2>2, <3>2
    <3> QED  BY <1>1, <3>1, <3>2
  <2> QED  BY <2>1, <2>2 DEF NoDuplicates
<1>8. LinkedList(q)
  <2>1. ASSUME NEW i \in 1 .. n  PROVE IsParent(q[i], q[i + 1])
    <3>1. CASE i = n
      BY <1>4, <1>6, <3>1
    <3>2. CASE i # n
      <4>1. i \in 1 .. (n - 1) /\ i + 1 \in 1 .. n
        BY <1>1, <3>2
      <4> QED  BY <1>1, <1>6, <4>1 DEF LinkedList
    <3> QED  BY <3>1, <3>2
  <2>2. 1 .. (Len(q) - 1) = 1 .. n
    BY <1>1, <1>6
  <2> QED  BY <2>1, <2>2 DEF LinkedList
<1>9. ASSUME NEW i \in 1 .. n  PROVE Candidates(q, i, cs) = Candidates(p, i, cs)
  <2>1. q[i] = p[i] /\ \A k \in 1 .. i : q[k] = p[k]
    BY <1>1, <1>6
  <2> QED  BY <2>1 DEF Candidates
<1>10. ASSUME NEW i \in 1 .. n  PROVE TakesFirst(q, i, cs)
  <2>1. CASE i = n
    BY <1>2, <1>3, <1>6, <1>9, <2>1 DEF TakesFirst
  <2>2. CASE i # n
    <3>1. i \in 1 .. (n - 1) /\ i + 1 \in 1 .. n
      BY <1>1, <2>2
    <3>2. TakesFirst(p, i, cs)
      BY <1>1, <3>1 DEF IsWalk
    <3> QED  BY <1>6, <1>9, <3>1, <3>2 DEF TakesFirst
  <2> QED  BY <2>1, <2>2
<1>11. IsWalk(q, leaf, cs)
  <2>1. q[1] = leaf
    BY <1>1, <1>6 DEF IsWalk
  <2>2. 1 .. (Len(q) - 1) = 1 .. n
    BY <1>1, <1>6
  <2> QED  BY <1>10, <2>1, <2>2 DEF IsWalk
<1>12. q \in Walks(leaf, cs)
  BY <1>6, <1>7, <1>8, <1>11, SignedPathsAre DEF Walks
<1> QED  BY <1>6, <1>12

(* The loop ends: certificates are finite in number and the chain repeats
   none of them, so some walk cannot be continued. *)
LEMMA WalkEnds ==
  ASSUME NEW cs \in Seq(Cert), NEW leaf \in Cert
  PROVE  \E p \in Walks(leaf, cs) : CannotExtend(p, cs)
<1> DEFINE N == Cardinality(Cert)
           W == Walks(leaf, cs)
           G == {N - Len(p) : p \in W}
<1>1. <<leaf>> \in W
  <2>1. <<leaf>> \in Seq(Cert) /\ <<leaf>> # << >> /\ Len(<<leaf>>) = 1
    OBVIOUS
  <2>2. NoDuplicates(<<leaf>>) /\ LinkedList(<<leaf>>)
    BY DEF NoDuplicates, LinkedList
  <2>3. IsWalk(<<leaf>>, leaf, cs)
    BY DEF IsWalk
  <2> QED  BY <2>1, <2>2, <2>3, SignedPathsAre DEF Walks
<1>2. \A p \in W : Len(p) \in Nat /\ Len(p) <= N
  BY SignedPathType, DistinctIsShort DEF Walks
<1>3. G \in SUBSET Nat /\ G # {}
  BY <1>1, <1>2, CertCount
<1>4. PICK g \in G : \A h \in G : g <= h
  BY <1>3, LeastNatural
<1>5. PICK p \in W : g = N - Len(p)
  BY <1>4
<1>6. ASSUME ~CannotExtend(p, cs)  PROVE FALSE
  <2>1. PICK q \in W : Len(q) = Len(p) + 1
    BY <1>6, WalkExtends
  <2>2. N - Len(q) \in G
    BY <2>1
  <2>3. N - Len(p) <= N - Len(q)
    BY <1>4, <1>5, <2>2
  <2>4. Len(p) \in Nat /\ Len(q) \in Nat /\ N \in Nat
    BY <1>2, CertCount
  <2> HIDE DEF N
  <2> QED  BY <2>1, <2>3, <2>4
<1> QED  BY <1>6

(* p starts with the leaf, takes all others from the slice, and repeats
   nothing; each certificate is followed by the first parent in the slice, and
   the last one by none. *)
IsChain(p, leaf, cs) ==
  /\ p \in Seq(Cert) /\ Len(p) \in Nat \ {0} /\ p[1] = leaf
  /\ NoDuplicates(p) /\ LinkedList(p)
  /\ \A i \in 1 .. (Len(p) - 1) : TakesFirst(p, i, cs)
  /\ CannotExtend(p, cs)
  /\ ToSet(p) \subseteq ToSet(cs) \cup {leaf}

(* buildCertificateChain returns such a chain, whatever the slice holds and in
   whatever order: it neither loops nor stops early. *)
THEOREM BuildChainReturnsChain ==
  ASSUME NEW cs \in Seq(Cert), NEW leaf \in Cert
  PROVE  IsChain(BuildChain(leaf, cs), leaf, cs)
<1> DEFINE p == BuildChain(leaf, cs)
<1>1. p \in SignedPaths /\ IsWalk(p, leaf, cs) /\ CannotExtend(p, cs)
  BY WalkEnds DEF BuildChain, Walks
<1> HIDE DEF p
<1>2. /\ p \in Seq(Cert) /\ Len(p) \in Nat \ {0}
      /\ NoDuplicates(p) /\ LinkedList(p)
  BY <1>1, SignedPathType
<1>3. p[1] = leaf /\ \A i \in 1 .. (Len(p) - 1) : TakesFirst(p, i, cs)
  BY <1>1 DEF IsWalk
<1>4. ASSUME NEW i \in DOMAIN p  PROVE p[i] \in ToSet(cs) \cup {leaf}
  <2>1. CASE i = 1
    BY <1>3, <2>1
  <2>2. CASE i # 1
    <3>1. i - 1 \in 1 .. (Len(p) - 1) /\ (i - 1) + 1 = i
      BY <1>2, <2>2
    <3>2. TakesFirst(p, i - 1, cs)
      BY <1>3, <3>1
    <3>3. \E j \in DOMAIN cs : p[i] = cs[j]
      BY <3>1, <3>2 DEF TakesFirst, Candidates
    <3> QED  BY <3>3 DEF ToSet
  <2> QED  BY <2>1, <2>2
<1>5. ToSet(p) \subseteq ToSet(cs) \cup {leaf}
  BY <1>4 DEF ToSet
<1>6. IsChain(p, leaf, cs)
  BY <1>1, <1>2, <1>3, <1>5 DEF IsChain
<1> QED  BY <1>6 DEF p

(* The part of it that matters for references: a chain built from a stored
   certificate consists of stored certificates. *)
LEMMA BuildChainStaysInside ==
  ASSUME NEW cs \in Seq(Cert), NEW leaf \in ToSet(cs)
  PROVE  /\ BuildChain(leaf, cs) \in Seq(Cert) /\ BuildChain(leaf, cs) # << >>
         /\ ToSet(BuildChain(leaf, cs)) \subseteq ToSet(cs)
<1>1. leaf \in Cert
  BY RangeOf
<1>2. IsChain(BuildChain(leaf, cs), leaf, cs)
  BY <1>1, BuildChainReturnsChain
<1> QED  BY <1>2 DEF IsChain
=============================================================================
