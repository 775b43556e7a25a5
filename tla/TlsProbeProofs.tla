--------------------------- MODULE TlsProbeProofs ---------------------------
(***************************************************************************)
(* Theorems about InspectTLS: its results, and what its verdicts are worth *)
(* for every set of certificates, trust store and request.                 *)
(***************************************************************************)
EXTENDS TlsProbe, PkiProofs

(***************************************************************************)
(* Routes: certificates of any number that lead from a leaf to a root.     *)
(***************************************************************************)
Route(p, leaf, between, tops) ==
  /\ p \in Seq(Cert) /\ Len(p) >= 2
  /\ p[1] = leaf /\ p[Len(p)] \in tops
  /\ Issuing(p)
  /\ \A j \in 2 .. (Len(p) - 1) : p[j] \in between

(* p without the places after i up to j. *)
Cut(p, i, j) ==
  [k \in 1 .. (Len(p) - (j - i)) |-> IF k <= i THEN p[k] ELSE p[k + (j - i)]]

LEMMA CutRoute ==
  ASSUME NEW leaf, NEW between, NEW tops, NEW p, Route(p, leaf, between, tops),
         NEW i \in 1 .. Len(p), NEW j \in 1 .. Len(p), i < j, 2 <= Len(p) - (j - i),
         j < Len(p) => IssuedBy(p[i], p[j + 1]),
         j = Len(p) => p[i] \in tops
  PROVE  Route(Cut(p, i, j), leaf, between, tops) /\ Len(Cut(p, i, j)) < Len(p)
<1> DEFINE q == Cut(p, i, j)
           n == Len(p)
           m == Len(p) - (j - i)
<1>1. /\ p \in Seq(Cert) /\ n \in Nat /\ p[1] = leaf /\ p[n] \in tops
      /\ \A k \in 2 .. (n - 1) : p[k] \in between
      /\ \A k \in 1 .. (n - 1) : IssuedBy(p[k], p[k + 1])
      /\ \A k \in 1 .. n : p[k] \in Cert
  BY DEF Route, Issuing
<1>2. m \in Nat /\ m < n /\ m >= 2 /\ i \in Nat /\ j \in Nat /\ i >= 1 /\ j <= n
  BY <1>1
<1>3. \A k \in 1 .. m : /\ k <= i => q[k] = p[k] /\ k \in 1 .. n
                        /\ ~(k <= i) => q[k] = p[k + (j - i)] /\ k + (j - i) \in 1 .. n
  BY <1>2 DEF Cut
<1>4. q \in Seq(Cert) /\ Len(q) = m
  <2>1. q \in [1 .. m -> Cert]
    BY <1>1, <1>2, <1>3 DEF Cut
  <2>2. QED  BY <1>2, <2>1
<1> HIDE DEF q
<1>5. q[1] = leaf
  <2>1. 1 \in 1 .. m /\ 1 <= i
    BY <1>2
  <2>2. QED  BY <1>1, <1>3, <2>1
<1>6. q[m] \in tops
  <2>1. CASE m <= i
    <3>1. m = i /\ j = n
      BY <1>2, <2>1
    <3>2. m \in 1 .. m
      BY <1>2
    <3>3. QED  BY <1>3, <2>1, <3>1, <3>2
  <2>2. CASE ~(m <= i)
    <3>1. m \in 1 .. m /\ m + (j - i) = n
      BY <1>2
    <3>2. QED  BY <1>1, <1>3, <2>2, <3>1
  <2>3. QED  BY <2>1, <2>2
<1>7. ASSUME NEW k \in 2 .. (m - 1) PROVE q[k] \in between
  <2>1. k \in 1 .. m /\ k \in 2 .. (n - 1) /\ (~(k <= i) => k + (j - i) \in 2 .. (n - 1))
    BY <1>2
  <2>2. QED  BY <1>1, <1>3, <2>1
<1>8. ASSUME NEW k \in 1 .. (m - 1) PROVE IssuedBy(q[k], q[k + 1])
  <2>1. k \in 1 .. m /\ k + 1 \in 1 .. m
    BY <1>2
  <2>2. CASE k + 1 <= i
    <3>1. q[k] = p[k] /\ q[k + 1] = p[k + 1] /\ k \in 1 .. (n - 1)
      BY <1>2, <1>3, <2>1, <2>2
    <3>2. QED  BY <1>1, <3>1
  <2>3. CASE k = i
    <3>1. q[k] = p[i] /\ q[k + 1] = p[j + 1] /\ j < n
      BY <1>2, <1>3, <2>1, <2>3
    <3>2. QED  BY <3>1
  <2>4. CASE k > i
    <3>1. /\ q[k] = p[k + (j - i)] /\ q[k + 1] = p[k + (j - i) + 1]
          /\ k + (j - i) \in 1 .. (n - 1)
      BY <1>2, <1>3, <2>1, <2>4
    <3>2. QED  BY <1>1, <3>1
  <2>5. QED  BY <1>2, <2>2, <2>3, <2>4
<1>9. QED
  <2>1. Route(q, leaf, between, tops)
    BY <1>2, <1>4, <1>5, <1>6, <1>7, <1>8 DEF Route, Issuing
  <2>2. QED  BY <1>2, <1>4, <2>1 DEF q

(* A self-issued root in the middle of a route can be left out. *)
LEMMA RootSkips ==
  ASSUME NEW b, NEW c, NEW q, IsRoot(c), IssuedBy(b, c), IssuedBy(c, q)
  PROVE  IssuedBy(b, q)
  BY DEF IsRoot, IssuedBy, SignedBy

(* Where there is a route, there is one without detours. *)
LEMMA ShortRoute ==
  ASSUME NEW leaf, NEW between, NEW tops, \E p : Route(p, leaf, between, tops)
  PROVE  \E p : /\ Route(p, leaf, between, tops)
                /\ \A i, j \in 1 .. Len(p) : i < j /\ p[i] = p[j] => i = 1 /\ j = Len(p)
                /\ \A j \in 2 .. (Len(p) - 1) : ~IsRoot(p[j])
<1> DEFINE T == {n \in Nat : \E p : Route(p, leaf, between, tops) /\ Len(p) = n}
<1>1. T \in SUBSET Nat /\ T # {}
  <2>1. PICK p : Route(p, leaf, between, tops)
    OBVIOUS
  <2>2. Len(p) \in Nat
    BY <2>1 DEF Route
  <2>3. QED  BY <2>1, <2>2
<1>2. PICK n \in T : \A m \in T : n <= m
  BY <1>1, LeastNatural
<1>3. PICK p : Route(p, leaf, between, tops) /\ Len(p) = n
  OBVIOUS
<1>4. ASSUME NEW q, Route(q, leaf, between, tops), Len(q) < n PROVE FALSE
  <2>1. Len(q) \in T
    BY <1>4 DEF Route
  <2>2. QED  BY <1>2, <1>4, <2>1
<1>5. /\ p \in Seq(Cert) /\ n \in Nat /\ n >= 2 /\ p[n] \in tops
      /\ \A k \in 1 .. (n - 1) : IssuedBy(p[k], p[k + 1])
  BY <1>3 DEF Route, Issuing
<1>6. ASSUME NEW i \in 1 .. n, NEW j \in 1 .. n, i < j, p[i] = p[j]
      PROVE  i = 1 /\ j = n
  <2>1. SUFFICES ASSUME i # 1 \/ j # n PROVE FALSE
    OBVIOUS
  <2>2. 2 <= n - (j - i)
    BY <1>5, <1>6, <2>1
  <2>3. j < n => IssuedBy(p[i], p[j + 1])
    BY <1>5, <1>6
  <2>4. j = n => p[i] \in tops
    BY <1>5, <1>6
  <2>5. QED  BY <1>3, <1>4, <1>6, <2>2, <2>3, <2>4, CutRoute
<1>7. ASSUME NEW j \in 2 .. (n - 1), IsRoot(p[j]) PROVE FALSE
  <2>1. /\ j - 1 \in 1 .. n /\ j \in 1 .. n /\ j - 1 < j /\ 2 <= n - (j - (j - 1))
        /\ j < n /\ j # n
    BY <1>5
  <2>2. IssuedBy(p[j - 1], p[j]) /\ IssuedBy(p[j], p[j + 1])
    <3>1. j - 1 \in 1 .. (n - 1) /\ j \in 1 .. (n - 1) /\ j - 1 + 1 = j
      BY <1>5
    <3>2. QED  BY <1>5, <3>1
  <2>3. IssuedBy(p[j - 1], p[j + 1])
    BY <1>7, <2>2, RootSkips
  <2>4. QED  BY <1>3, <1>4, <2>1, <2>3, CutRoute
<1>8. QED  BY <1>3, <1>6, <1>7

(* What smx509 finds is a route. *)
LEMMA VerifiesHasRoute ==
  ASSUME NEW leaf \in Cert, NEW S \in SUBSET Cert, NEW pool \in SUBSET Cert, NEW named,
         Verifies(leaf, S, pool, named)
  PROVE  /\ leaf \in named \cap Acceptable
         /\ \/ leaf \in pool
            \/ \E p : Route(p, leaf, S \cap Acceptable, pool \cap Acceptable)
<1> DEFINE between == S \cap Acceptable
<1>1. /\ leaf \in named \cap Acceptable
      /\ \/ leaf \in pool
         \/ \E n \in 0 .. Cardinality(between) :
              \E ch \in [1 .. n -> between], root \in pool \cap Acceptable :
                 Issuing(<<leaf>> \o ch \o <<root>>)
  BY DEF Verifies
<1>2. IsFiniteSet(between) /\ Cardinality(between) \in Nat
  BY PkiFinite, FS_Subset, FS_CardinalityType
<1>3. ASSUME NEW n \in 0 .. Cardinality(between), NEW ch \in [1 .. n -> between],
             NEW root \in pool \cap Acceptable, Issuing(<<leaf>> \o ch \o <<root>>)
      PROVE  Route(<<leaf>> \o ch \o <<root>>, leaf, between, pool \cap Acceptable)
  <2> DEFINE p == <<leaf>> \o ch \o <<root>>
  <2>1. n \in Nat /\ ch \in Seq(Cert) /\ Len(ch) = n /\ \A k \in 1 .. n : ch[k] \in between
    BY <1>2
  <2>2. p \in Seq(Cert) /\ Len(p) = n + 2
    BY <2>1
  <2>3. p[1] = leaf /\ p[n + 2] = root /\ \A k \in 1 .. n : p[k + 1] = ch[k]
    BY <2>1
  <2> HIDE DEF p
  <2>4. ASSUME NEW j \in 2 .. (Len(p) - 1) PROVE p[j] \in between
    <3>1. j - 1 \in 1 .. n /\ j - 1 + 1 = j
      BY <2>1, <2>2
    <3>2. QED  BY <2>1, <2>3, <3>1
  <2>5. Issuing(p)
    BY <1>3 DEF p
  <2>6. Route(p, leaf, between, pool \cap Acceptable)
    BY <2>1, <2>2, <2>3, <2>4, <2>5 DEF Route
  <2>7. QED  BY <2>6 DEF p
<1>4. QED  BY <1>1, <1>3

(* smx509 finds a route wherever there is one, if the certificates on it are
   offered: those that are roots themselves need not be. *)
LEMMA RouteVerifies ==
  ASSUME NEW leaf, NEW named, leaf \in named \cap Acceptable,
         NEW between, NEW S \in SUBSET Cert, NEW pool,
         \A c \in between : ~IsRoot(c) => c \in S \cap Acceptable,
         \E p : Route(p, leaf, between, pool \cap Acceptable)
  PROVE  Verifies(leaf, S, pool, named)
<1> DEFINE offered == S \cap Acceptable
<1>1. PICK p : /\ Route(p, leaf, between, pool \cap Acceptable)
               /\ \A i, j \in 1 .. Len(p) : i < j /\ p[i] = p[j] => i = 1 /\ j = Len(p)
               /\ \A j \in 2 .. (Len(p) - 1) : ~IsRoot(p[j])
  BY ShortRoute
<1> DEFINE n  == Len(p) - 2
           ch == [k \in 1 .. n |-> p[k + 1]]
<1>2. /\ p \in Seq(Cert) /\ n \in Nat /\ Len(p) = n + 2
      /\ p[1] = leaf /\ p[n + 2] \in pool \cap Acceptable /\ Issuing(p)
  BY <1>1 DEF Route
<1>3. ASSUME NEW k \in 1 .. n
      PROVE  k + 1 \in 2 .. (Len(p) - 1) /\ p[k + 1] \in offered
  <2>1. k + 1 \in 2 .. (Len(p) - 1)
    BY <1>2
  <2>2. p[k + 1] \in between /\ ~IsRoot(p[k + 1])
    BY <1>1, <2>1 DEF Route
  <2>3. QED  BY <2>1, <2>2
<1>4. ch \in [1 .. n -> offered]
  BY <1>3
<1>5. n \in 0 .. Cardinality(offered)
  <2>1. IsFiniteSet(offered) /\ Cardinality(offered) \in Nat
    BY PkiFinite, FS_Subset, FS_CardinalityType
  <2>2. ASSUME NEW i \in 1 .. n, NEW j \in 1 .. n, i < j PROVE p[i + 1] # p[j + 1]
    <3>1. i + 1 \in 1 .. Len(p) /\ j + 1 \in 1 .. Len(p) /\ i + 1 < j + 1 /\ i + 1 # 1
      BY <1>2, <2>2
    <3>2. QED  BY <1>1, <3>1
  <2>3. \A i, j \in 1 .. n : ch[i] = ch[j] => i = j
    BY <1>2, <2>2
  <2>4. ch \in Injection(1 .. n, offered)
    BY <1>4, <2>3 DEF Injection, IsInjective
  <2>5. Cardinality(1 .. n) <= Cardinality(offered)
    BY <2>1, <2>4, FS_Injection
  <2>6. Cardinality(1 .. n) = n
    BY <1>2, FS_Interval
  <2>7. QED  BY <1>2, <2>1, <2>5, <2>6
<1>6. <<leaf>> \o ch \o <<p[n + 2]>> = p
  <2> DEFINE q == <<leaf>> \o ch \o <<p[n + 2]>>
  <2>1. leaf \in Cert /\ p[n + 2] \in Cert /\ ch \in Seq(Cert) /\ Len(ch) = n
    BY <1>2, <1>3
  <2>2. \A k \in 1 .. n : ch[k] = p[k + 1]
    OBVIOUS
  <2> HIDE DEF ch, n
  <2>3. q \in Seq(Cert) /\ Len(q) = n + 2
    BY <1>2, <2>1
  <2>4. q[1] = leaf /\ q[n + 2] = p[n + 2] /\ \A k \in 1 .. n : q[k + 1] = ch[k]
    BY <1>2, <2>1
  <2> HIDE DEF q
  <2>5. ASSUME NEW k \in 1 .. (n + 2) PROVE q[k] = p[k]
    <3>1. k = 1 \/ k = n + 2 \/ (k - 1 \in 1 .. n /\ k - 1 + 1 = k)
      BY <1>2
    <3>2. QED  BY <1>2, <2>2, <2>4, <3>1
  <2>6. q = p
    BY <1>2, <2>3, <2>5, SeqEqual
  <2>7. QED  BY <2>6 DEF q
<1>7. Issuing(<<leaf>> \o ch \o <<p[n + 2]>>)
  BY <1>2, <1>6
<1> HIDE DEF n, ch
<1>8. QED  BY <1>2, <1>4, <1>5, <1>7 DEF Verifies

(* More certificates and more roots to choose from do no harm, and less harm is
   done by leaving out intermediates that are roots. *)
LEMMA VerifiesWithMore ==
  ASSUME NEW leaf \in Cert, NEW S \in SUBSET Cert, NEW pool \in SUBSET Cert, NEW named,
         Verifies(leaf, S, pool, named),
         NEW S2 \in SUBSET Cert, \A c \in S : ~IsRoot(c) => c \in S2,
         NEW pool2, pool \subseteq pool2
  PROVE  Verifies(leaf, S2, pool2, named)
<1>1. leaf \in named \cap Acceptable
  BY VerifiesHasRoute
<1>2. CASE leaf \in pool
  BY <1>1, <1>2 DEF Verifies
<1>3. CASE \E p : Route(p, leaf, S \cap Acceptable, pool \cap Acceptable)
  <2>1. PICK p : Route(p, leaf, S \cap Acceptable, pool \cap Acceptable)
    BY <1>3
  <2>2. Route(p, leaf, S \cap Acceptable, pool2 \cap Acceptable)
    BY <2>1 DEF Route
  <2>3. \A c \in S \cap Acceptable : ~IsRoot(c) => c \in S2 \cap Acceptable
    OBVIOUS
  <2>4. QED  BY <1>1, <2>2, <2>3, RouteVerifies
<1>4. QED  BY <1>2, <1>3, VerifiesHasRoute

(* What a route without detours leads along. *)
LEMMA VerifiesHasPath ==
  ASSUME NEW leaf \in Cert, NEW S \in SUBSET Cert, NEW pool \in SUBSET Cert, NEW named,
         Verifies(leaf, S, pool, named)
  PROVE  \E p \in Paths :
            /\ p[1] = leaf /\ Issuing(p) /\ ToSet(p) \subseteq Current
            /\ p[Len(p)] \in pool
            /\ {p[j] : j \in 1 .. (Len(p) - 1)} \subseteq S \cup {leaf}
<1>1. leaf \in Acceptable
  BY VerifiesHasRoute
<1>2. CASE leaf \in pool
  <2> DEFINE p == <<leaf>>
  <2>1. /\ p \in Seq(Cert) /\ p # << >> /\ Len(p) = 1 /\ p[1] = leaf /\ DOMAIN p = {1}
    OBVIOUS
  <2> HIDE DEF p
  <2>2. p \in Paths
    BY <2>1, PathsAre DEF NoDuplicates
  <2>3. Issuing(p) /\ ToSet(p) \subseteq Current /\ {p[j] : j \in 1 .. (Len(p) - 1)} = {}
    BY <1>1, <2>1 DEF Issuing, ToSet, Acceptable
  <2>4. QED  BY <1>2, <2>1, <2>2, <2>3
<1>3. CASE leaf \notin pool
  <2>1. \E p : Route(p, leaf, S \cap Acceptable, pool \cap Acceptable)
    BY <1>3, VerifiesHasRoute
  <2>2. PICK p : /\ Route(p, leaf, S \cap Acceptable, pool \cap Acceptable)
                 /\ \A i, j \in 1 .. Len(p) : i < j /\ p[i] = p[j] => i = 1 /\ j = Len(p)
    BY <2>1, ShortRoute
  <2>3. /\ p \in Seq(Cert) /\ Len(p) \in Nat /\ Len(p) >= 2 /\ DOMAIN p = 1 .. Len(p)
        /\ p[1] = leaf /\ p[Len(p)] \in pool \cap Acceptable /\ Issuing(p)
        /\ \A j \in 2 .. (Len(p) - 1) : p[j] \in S \cap Acceptable
    BY <2>2 DEF Route
  <2>4. \A i, j \in 1 .. Len(p) : i < j => p[i] # p[j]
    BY <1>3, <2>2, <2>3
  <2>5. NoDuplicates(p)
    BY <2>3, <2>4 DEF NoDuplicates
  <2>6. p \in Paths
    BY <2>3, <2>5, PathsAre
  <2>7. ASSUME NEW j \in 1 .. Len(p), j # 1, j # Len(p) PROVE j \in 2 .. (Len(p) - 1)
    <3>1. Len(p) \in Nat
      BY <2>3
    <3>2. QED  BY <2>7, <3>1
  <2>8. ToSet(p) \subseteq Current
    BY <1>1, <2>3, <2>7 DEF ToSet, Acceptable
  <2>9. \A j \in 1 .. (Len(p) - 1) : j = 1 \/ j \in 2 .. (Len(p) - 1)
    BY <2>3
  <2>10. {p[j] : j \in 1 .. (Len(p) - 1)} \subseteq S \cup {leaf}
    BY <2>3, <2>9
  <2>11. QED  BY <2>3, <2>6, <2>8, <2>10
<1>4. QED  BY <1>2, <1>3
-----------------------------------------------------------------------------
(***************************************************************************)
(* Verdicts.                                                               *)
(***************************************************************************)

(* The certificates of the list from the place n on. *)
From(certs, n) == ToSet(SubSeq(certs, n, Len(certs)))

PeerTrusted(certs, pools, name, leafIndex, chainStart) ==
  /\ leafIndex <= Len(certs)
  /\ Trusts(pools, certs[leafIndex], From(certs, chainStart), Matching[name])

LEMMA PeerVerdictTrusted ==
  ASSUME NEW certs, NEW pools, NEW name, NEW leafIndex \in Nat, NEW chainStart \in Nat,
         Len(certs) \in Nat
  PROVE  /\ PeerVerdict(certs, pools, name, leafIndex, chainStart).trusted \in BOOLEAN
         /\ PeerVerdict(certs, pools, name, leafIndex, chainStart).trusted
              <=> PeerTrusted(certs, pools, name, leafIndex, chainStart)
<1> DEFINE v == PeerVerdict(certs, pools, name, leafIndex, chainStart)
<1>1. CASE leafIndex > Len(certs)
  BY <1>1 DEF PeerVerdict, NoVerdict, PeerTrusted
<1>2. CASE ~(leafIndex > Len(certs))
  <2>1. v.trusted = Trusts(pools, certs[leafIndex], From(certs, chainStart), Matching[name])
    BY <1>2 DEF PeerVerdict, From
  <2>2. Trusts(pools, certs[leafIndex], From(certs, chainStart), Matching[name]) \in BOOLEAN
    BY DEF Trusts, Verifies
  <2>3. PeerTrusted(certs, pools, name, leafIndex, chainStart)
          <=> Trusts(pools, certs[leafIndex], From(certs, chainStart), Matching[name])
    BY <1>2 DEF PeerTrusted
  <2>4. QED  BY <2>1, <2>2, <2>3
<1>3. QED  BY <1>1, <1>2

LEMMA VerdictTrusted ==
  ASSUME NEW version, NEW certs, NEW pools, NEW name, Len(certs) \in Nat
  PROVE  LET trusted == Verdict(version, certs, pools, name).trusted
         IN  /\ trusted \in BOOLEAN
             /\ version # "TLCP11" => (trusted <=> PeerTrusted(certs, pools, name, 1, 2))
             /\ version = "TLCP11" =>
                  (trusted <=> /\ Len(certs) >= 2
                               /\ PeerTrusted(certs, pools, name, 1, 3)
                               /\ PeerTrusted(certs, pools, name, 2, 3))
<1>1. CASE version # "TLCP11"
  BY <1>1, PeerVerdictTrusted DEF Verdict
<1>2. CASE version = "TLCP11" /\ Len(certs) < 2
  BY <1>2 DEF Verdict, NoVerdict
<1>3. CASE version = "TLCP11" /\ ~(Len(certs) < 2)
  <2> DEFINE a == PeerVerdict(certs, pools, name, 1, 3)
             b == PeerVerdict(certs, pools, name, 2, 3)
  <2>1. Verdict(version, certs, pools, name).trusted = (a.trusted /\ b.trusted)
    BY <1>3 DEF Verdict, Both
  <2>2. /\ a.trusted \in BOOLEAN /\ b.trusted \in BOOLEAN
        /\ a.trusted <=> PeerTrusted(certs, pools, name, 1, 3)
        /\ b.trusted <=> PeerTrusted(certs, pools, name, 2, 3)
    BY PeerVerdictTrusted
  <2> HIDE DEF a, b
  <2>3. QED  BY <1>3, <2>1, <2>2
<1>4. QED  BY <1>1, <1>2, <1>3

(* TrustStore.verify takes nothing away when pools grow. *)
LEMMA TrustsWithMore ==
  ASSUME NEW leaf \in Cert, NEW S \in SUBSET Cert, NEW pools \in Seq(SUBSET Cert), NEW named,
         Trusts(pools, leaf, S, named),
         NEW S2 \in SUBSET Cert, \A c \in S : ~IsRoot(c) => c \in S2,
         NEW pools2 \in Seq(SUBSET Cert), Len(pools2) = Len(pools),
         \A i \in DOMAIN pools : pools[i] \subseteq pools2[i]
  PROVE  Trusts(pools2, leaf, S2, named)
<1>1. CASE pools = << >>
  <2>1. pools2 = << >>
    BY <1>1
  <2>2. Verifies(leaf, S, SystemPool, named) /\ SystemPool \in SUBSET Cert
    BY <1>1, ProbeInputsWellFormed DEF Trusts, ProbeInputs
  <2>3. Verifies(leaf, S2, SystemPool, named)
    BY <2>2, VerifiesWithMore
  <2>4. QED  BY <2>1, <2>3 DEF Trusts
<1>2. CASE pools # << >>
  <2>1. PICK i \in DOMAIN pools : Verifies(leaf, S, pools[i], named)
    BY <1>2 DEF Trusts
  <2>2. pools2 # << >> /\ i \in DOMAIN pools2 /\ pools[i] \in SUBSET Cert
    BY <1>2
  <2>3. Verifies(leaf, S2, pools2[i], named)
    BY <2>1, <2>2, VerifiesWithMore
  <2>4. QED  BY <2>2, <2>3 DEF Trusts
<1>3. QED  BY <1>1, <1>2

LEMMA FromIs ==
  ASSUME NEW certs \in Seq(Cert), NEW n \in Nat \ {0}
  PROVE  From(certs, n) = {certs[i] : i \in {k \in DOMAIN certs : k >= n}}
<1> DEFINE t == SubSeq(certs, n, Len(certs))
<1>1. Len(certs) \in Nat /\ DOMAIN certs = 1 .. Len(certs)
  OBVIOUS
<1>2. /\ DOMAIN t = 1 .. (Len(certs) - n + 1)
      /\ \A k \in 1 .. (Len(certs) - n + 1) : t[k] = certs[k + n - 1]
  BY <1>1
<1> HIDE DEF t
<1>3. \A i \in 1 .. Len(certs) : i >= n =>
        i - n + 1 \in 1 .. (Len(certs) - n + 1) /\ t[i - n + 1] = certs[i]
  BY <1>1, <1>2
<1>4. \A k \in 1 .. (Len(certs) - n + 1) : k + n - 1 \in 1 .. Len(certs) /\ k + n - 1 >= n
  BY <1>1
<1>5. ToSet(t) = {t[k] : k \in 1 .. (Len(certs) - n + 1)}
  BY <1>2 DEF ToSet
<1>6. ToSet(t) = {certs[i] : i \in {k \in 1 .. Len(certs) : k >= n}}
  <2>1. ASSUME NEW x \in ToSet(t) PROVE x \in {certs[i] : i \in {k \in 1 .. Len(certs) : k >= n}}
    BY <1>2, <1>4, <1>5
  <2>2. ASSUME NEW i \in 1 .. Len(certs), i >= n PROVE certs[i] \in ToSet(t)
    BY <1>3, <1>5, <2>2
  <2>3. QED  BY <2>1, <2>2
<1>7. QED  BY <1>1, <1>6 DEF From, t
-----------------------------------------------------------------------------
(***************************************************************************)
(* The results of InspectTLS.                                              *)
(***************************************************************************)
Result == [version : TlsVersion \cup {"TLCP11", "unsupported"}, handshake : BOOLEAN,
           failure : {"none", "dial", "handshake", "parse"}, sent : Seq(Cert),
           certs : Seq(Cert), staple : Seq(Cert)]

ProbeTypes ==
  /\ roots = NoRoots \/ roots \in Seq(SUBSET Cert)
  /\ request \in Requests
  /\ sent \in Served \cup {NothingSent} /\ (stage = "inspect" => sent \in Served)
  /\ report \in Seq(Result)

(* How far the loop has come. *)
Progress ==
  /\ stage = "idle" => report = << >>
  /\ stage \in {"dial", "handshake", "inspect"} => Len(report) < Len(Versions)
  /\ stage \notin {"idle", "refused"} \/ report # << >> => roots \in Seq(SUBSET Cert)

(* The certificates of a successful attempt are those sent, each once. *)
ResultsAreOfSent ==
  \A i \in DOMAIN report : report[i].failure = "none" =>
     report[i].sent # << >> /\ report[i].certs = AppendNew(<< >>, report[i].sent)

ProbeInv == ProbeTypes /\ Progress /\ ResultsAreOfSent /\ OneResultEach

LEMMA VersionsTyped ==
  ASSUME request \in Requests
  PROVE  /\ Versions \in Seq(TlsVersion \cup {"TLCP11", "unsupported"}) /\ Versions # << >>
         /\ Len(Versions) \in Nat /\ Len(Versions) >= 1
<1>1. DefaultVersions \in Seq(TlsVersion \cup {"TLCP11", "unsupported"}) /\ DefaultVersions # << >>
  BY DEF DefaultVersions, TlsVersion
<1>2. request.versions \in Seq(TlsVersion \cup {"TLCP11", "unsupported"})
  BY ProbeInputsWellFormed DEF ProbeInputs
<1>3. Versions \in Seq(TlsVersion \cup {"TLCP11", "unsupported"}) /\ Versions # << >>
  BY <1>1, <1>2 DEF Versions
<1>4. QED  BY <1>3

LEMMA ProbeInitially == ProbeInit => ProbeInv
<1> SUFFICES ASSUME ProbeInit PROVE ProbeInv
  OBVIOUS
<1>1. roots = NoRoots \/ roots \in Seq(SUBSET Cert)
  BY ProbeInputsWellFormed DEF ProbeInputs, ProbeInit
<1>2. QED  BY <1>1 DEF ProbeInit, ProbeInv, ProbeTypes, Progress, ResultsAreOfSent, OneResultEach

(* A connection comes to its end with the result r. *)
LEMMA ConcludeStep ==
  ASSUME ProbeInv, stage \in {"dial", "handshake", "inspect"}, NEW r \in Result,
         Conclude(r), r.version = Version,
         r.failure = "none" => r.sent # << >> /\ r.certs = AppendNew(<< >>, r.sent)
  PROVE  ProbeInv'
<1> DEFINE n == Len(report)
<1>1. /\ report \in Seq(Result) /\ n \in Nat /\ n < Len(Versions) /\ DOMAIN report = 1 .. n
      /\ request \in Requests /\ roots \in Seq(SUBSET Cert) /\ Len(Versions) \in Nat
  BY VersionsTyped DEF ProbeInv, ProbeTypes, Progress
<1>2. /\ report' = Append(report, r) /\ sent' = NothingSent
      /\ stage' = IF n + 1 = Len(Versions) THEN "done" ELSE "dial"
      /\ roots' = roots /\ request' = request /\ cancelled' = cancelled
      /\ Versions' = Versions
  BY DEF Conclude, Versions
<1>3. /\ report' \in Seq(Result) /\ Len(report') = n + 1 /\ DOMAIN report' = 1 .. (n + 1)
      /\ report'[n + 1] = r /\ \A i \in 1 .. n : report'[i] = report[i]
      /\ report' # << >>
  BY <1>1, <1>2
<1>4. \A i \in 1 .. (n + 1) : i \in 1 .. n \/ i = n + 1
  BY <1>1
<1>5. ProbeTypes'
  BY <1>1, <1>2, <1>3 DEF ProbeTypes
<1>6. Progress'
  BY <1>1, <1>2, <1>3 DEF Progress
<1>7. ResultsAreOfSent'
  BY <1>1, <1>3, <1>4 DEF ProbeInv, ResultsAreOfSent
<1>8. OneResultEach'
  <2>1. r.version = Versions[n + 1]
    BY DEF Version
  <2>2. \A i \in DOMAIN report' : report'[i].version = Versions[i]
    BY <1>1, <1>3, <1>4, <2>1 DEF ProbeInv, OneResultEach
  <2>3. stage' = "done" => Len(report') = Len(Versions')
    BY <1>2, <1>3
  <2>4. QED  BY <1>2, <2>2, <2>3 DEF OneResultEach
<1>9. QED  BY <1>5, <1>6, <1>7, <1>8 DEF ProbeInv

(* The results of the connections that failed. *)
LEMMA FailureTyped ==
  ASSUME ProbeInv, stage \in {"dial", "handshake", "inspect"},
         NEW failure \in {"dial", "handshake", "parse"}
  PROVE  Failure(failure) \in Result /\ Failure(failure).version = Version
         /\ Failure(failure).failure = failure
<1>1. Version \in TlsVersion \cup {"TLCP11", "unsupported"}
  <2>1. Len(report) + 1 \in 1 .. Len(Versions)
    BY VersionsTyped DEF ProbeInv, ProbeTypes, Progress
  <2>2. QED  BY <2>1, VersionsTyped DEF Version, ProbeInv, ProbeTypes
<1>2. sent.certs \in Seq(Cert)
  <2>1. \A s \in Served : s.certs \in Seq(Cert)
    BY ProbeInputsWellFormed DEF ProbeInputs
  <2>2. NothingSent.certs = << >>
    BY DEF NothingSent
  <2>3. << >> \in Seq(Cert)
    OBVIOUS
  <2>4. QED  BY <2>1, <2>2, <2>3 DEF ProbeInv, ProbeTypes
<1>3. QED  BY <1>1, <1>2 DEF Failure, Result

LEMMA InspectStep ==
  ASSUME ProbeInv, Inspect
  PROVE  ProbeInv'
<1>1. stage = "inspect" /\ sent \in Served /\ sent.certs \in Seq(Cert) /\ sent.certs # << >>
  BY ProbeInputsWellFormed DEF Inspect, ProbeInv, ProbeTypes, ProbeInputs
<1>2. Version \in TlsVersion \cup {"TLCP11", "unsupported"}
  BY <1>1, FailureTyped DEF Failure, Result
<1> DEFINE certs == AppendNew(<< >>, sent.certs)
<1>3. certs \in Seq(Cert)
  <2>1. << >> \in Seq(Cert)
    OBVIOUS
  <2>2. QED  BY <1>1, <2>1, AppendNewSeq
<1>4. CASE sent.bad
  BY <1>1, <1>4, FailureTyped, ConcludeStep DEF Inspect
<1>5. CASE ~sent.bad
  <2> DEFINE staple == IF Version # "TLCP11" /\ sent.staple /\ Len(certs) > 1
                       THEN SubSeq(certs, 1, 2) ELSE << >>
             r == [version |-> Version, handshake |-> TRUE, failure |-> "none",
                   sent |-> sent.certs, certs |-> certs, staple |-> staple]
  <2>1. Conclude(r)
    BY <1>5 DEF Inspect
  <2>2. staple \in Seq(Cert)
    <3> HIDE DEF certs
    <3>1. Len(certs) > 1 => SubSeq(certs, 1, 2) \in Seq(Cert)
      BY <1>3
    <3>2. QED  BY <3>1
  <2> HIDE DEF staple
  <2>3. r \in Result
    BY <1>1, <1>2, <1>3, <2>2 DEF Result
  <2>4. r.version = Version /\ r.sent # << >> /\ r.certs = AppendNew(<< >>, r.sent)
    BY <1>1
  <2> HIDE DEF r
  <2>5. QED  BY <1>1, <2>1, <2>3, <2>4, ConcludeStep
<1>6. QED  BY <1>4, <1>5

LEMMA AddRootStep ==
  ASSUME ProbeInv, NEW c \in Added, AddRoot(c)
  PROVE  ProbeInv'
<1>1. roots \in Seq(SUBSET Cert) /\ c \in Cert
  BY ProbeInputsWellFormed DEF AddRoot, ProbeInv, ProbeTypes, ProbeInputs
<1>2. roots' \in Seq(SUBSET Cert)
  <2>1. CASE roots = << >>
    BY <1>1, <2>1 DEF AddRoot
  <2>2. CASE roots # << >>
    <3>1. roots' = [roots EXCEPT ![1] = roots[1] \cup {c}]
      BY <2>2 DEF AddRoot
    <3>2. 1 \in DOMAIN roots /\ roots[1] \cup {c} \in SUBSET Cert
      BY <1>1, <2>2
    <3>3. QED  BY <1>1, <3>1, <3>2
  <2>3. QED  BY <2>1, <2>2
<1>3. QED  BY <1>2 DEF AddRoot, ProbeInv, ProbeTypes, Progress, ResultsAreOfSent,
                   OneResultEach, Versions

LEMMA BeginStep ==
  ASSUME ProbeInv, Begin
  PROVE  ProbeInv'
<1>1. /\ stage = "idle" /\ report = << >> /\ report' = report /\ request' = request
      /\ sent' = sent /\ stage' \in {"dial", "refused"}
  BY DEF Begin, ProbeInv, Progress
<1>2. <<SystemPool>> \in Seq(SUBSET Cert)
  <2>1. SystemPool \in SUBSET Cert
    BY ProbeInputsWellFormed DEF ProbeInputs
  <2>2. QED  BY <2>1
<1>3. /\ roots' = NoRoots \/ roots' \in Seq(SUBSET Cert)
      /\ stage' = "dial" => roots' \in Seq(SUBSET Cert)
  BY <1>2 DEF Begin, ProbeInv, ProbeTypes
<1>4. Versions' = Versions /\ Len(Versions) \in Nat /\ Len(Versions) >= 1
  BY <1>1, VersionsTyped DEF Versions, ProbeInv, ProbeTypes
<1>5. QED  BY <1>1, <1>3, <1>4 DEF ProbeInv, ProbeTypes, Progress, ResultsAreOfSent,
                                 OneResultEach

LEMMA ProbeStep == ProbeInv /\ [ProbeNext]_probeVars => ProbeInv'
<1> SUFFICES ASSUME ProbeInv, [ProbeNext]_probeVars PROVE ProbeInv'
  OBVIOUS
<1>1. CASE \E c \in Added : AddRoot(c)
  BY <1>1, AddRootStep
<1>2. CASE Cancel
  BY <1>2 DEF Cancel, ProbeInv, ProbeTypes, Progress, ResultsAreOfSent, OneResultEach, Versions
<1>3. CASE Begin
  BY <1>3, BeginStep
<1>4. CASE RefuseVersion
  BY <1>4 DEF RefuseVersion, ProbeInv, ProbeTypes, Progress, ResultsAreOfSent, OneResultEach,
              Versions
<1>5. CASE FailDial
  BY <1>5, FailureTyped, ConcludeStep DEF FailDial
<1>6. CASE Dial
  BY <1>6 DEF Dial, ProbeInv, ProbeTypes, Progress, ResultsAreOfSent, OneResultEach, Versions
<1>7. CASE FailHandshake
  BY <1>7, FailureTyped, ConcludeStep DEF FailHandshake
<1>8. CASE Handshake
  BY <1>8 DEF Handshake, ProbeInv, ProbeTypes, Progress, ResultsAreOfSent, OneResultEach,
              Versions
<1>9. CASE Inspect
  BY <1>9, InspectStep
<1>10. CASE UNCHANGED probeVars
  BY <1>10 DEF probeVars, ProbeInv, ProbeTypes, Progress, ResultsAreOfSent, OneResultEach,
               Versions
<1>11. QED  BY <1>1, <1>2, <1>3, <1>4, <1>5, <1>6, <1>7, <1>8, <1>9, <1>10 DEF ProbeNext

(* There are results only after the roots were chosen. *)
LEMMA ReportedTyped ==
  ASSUME ProbeInv, NEW i \in DOMAIN report
  PROVE  /\ report[i] \in Result /\ report[i].sent \in Seq(Cert)
         /\ report[i].certs \in Seq(Cert) /\ roots \in Seq(SUBSET Cert)
<1>1. report \in Seq(Result)
  BY DEF ProbeInv, ProbeTypes
<1>2. report # << >> /\ report[i] \in Result
  BY <1>1
<1>3. roots \in Seq(SUBSET Cert)
  BY <1>2 DEF ProbeInv, Progress
<1>4. QED  BY <1>2, <1>3 DEF Result

LEMMA ProbeInvariant == ProbeSpec => []ProbeInv
  BY ProbeInitially, ProbeStep, PTL DEF ProbeSpec

(* However dials, handshakes and parsing fail, InspectTLS reports each requested
   version once and in order. *)
THEOREM ProbeOneResultEach == ProbeSpec => []OneResultEach
<1>1. ProbeInv => OneResultEach
  BY DEF ProbeInv
<1>2. QED  BY <1>1, ProbeInvariant, PTL
-----------------------------------------------------------------------------
(***************************************************************************)
(* What a verdict is worth.                                                *)
(***************************************************************************)

(* A trusted certificate has the name and leads to a root of one pool. *)
LEMMA TrustsHasPath ==
  ASSUME NEW pools \in Seq(SUBSET Cert), NEW leaf \in Cert, NEW S \in SUBSET Cert, NEW named,
         Trusts(pools, leaf, S, named)
  PROVE  /\ leaf \in named
         /\ \E p \in Paths :
               /\ p[1] = leaf
               /\ Issuing(p)
               /\ ToSet(p) \subseteq Current
               /\ \E pool \in ToSet(pools) \cup (IF pools = << >> THEN {SystemPool} ELSE {}) :
                     p[Len(p)] \in pool
               /\ {p[j] : j \in 1 .. (Len(p) - 1)} \subseteq S \cup {leaf}
<1>1. PICK pool \in ToSet(pools) \cup (IF pools = << >> THEN {SystemPool} ELSE {}) :
        pool \in SUBSET Cert /\ Verifies(leaf, S, pool, named)
  <2>1. SystemPool \in SUBSET Cert
    BY ProbeInputsWellFormed DEF ProbeInputs
  <2>2. \A i \in DOMAIN pools : pools[i] \in SUBSET Cert /\ pools[i] \in ToSet(pools)
    BY DEF ToSet
  <2>3. QED  BY <2>1, <2>2 DEF Trusts
<1>2. leaf \in named
  BY <1>1, VerifiesHasRoute
<1>3. PICK p \in Paths :
            /\ p[1] = leaf /\ Issuing(p) /\ ToSet(p) \subseteq Current
            /\ p[Len(p)] \in pool
            /\ {p[j] : j \in 1 .. (Len(p) - 1)} \subseteq S \cup {leaf}
  BY <1>1, VerifiesHasPath
<1>4. QED  BY <1>1, <1>2, <1>3

(* What TrustedIsEarned asks of each certificate that a server presents. *)
Earned(leaf, name, pools, sentCerts) ==
  /\ leaf \in Matching[name]
  /\ \E p \in Paths :
        /\ p[1] = leaf
        /\ Issuing(p)
        /\ ToSet(p) \subseteq Current
        /\ \E pool \in ToSet(pools) \cup (IF pools = << >> THEN {SystemPool} ELSE {}) :
              p[Len(p)] \in pool
        /\ {p[j] : j \in 1 .. (Len(p) - 1)} \subseteq ToSet(sentCerts)

LEMMA PeerTrustedIsEarned ==
  ASSUME NEW pools \in Seq(SUBSET Cert), NEW certs \in Seq(Cert), NEW name,
         NEW leafIndex \in 1 .. 2, NEW chainStart \in {2, 3},
         PeerTrusted(certs, pools, name, leafIndex, chainStart)
  PROVE  Earned(certs[leafIndex], name, pools, certs)
<1> DEFINE leaf == certs[leafIndex]
           S    == From(certs, chainStart)
<1>1. leafIndex \in DOMAIN certs /\ leaf \in Cert /\ leaf \in ToSet(certs)
  BY DEF PeerTrusted, ToSet
<1>2. S \subseteq ToSet(certs) /\ S \in SUBSET Cert
  BY FromIs DEF ToSet
<1>3. Trusts(pools, leaf, S, Matching[name])
  BY DEF PeerTrusted
<1> HIDE DEF leaf, S
<1>4. leaf \in Matching[name]
  BY <1>1, <1>2, <1>3, TrustsHasPath
<1>5. PICK p \in Paths :
               /\ p[1] = leaf
               /\ Issuing(p)
               /\ ToSet(p) \subseteq Current
               /\ \E pool \in ToSet(pools) \cup (IF pools = << >> THEN {SystemPool} ELSE {}) :
                     p[Len(p)] \in pool
               /\ {p[j] : j \in 1 .. (Len(p) - 1)} \subseteq S \cup {leaf}
  BY <1>1, <1>2, <1>3, TrustsHasPath
<1>6. {p[j] : j \in 1 .. (Len(p) - 1)} \subseteq ToSet(certs)
  BY <1>1, <1>2, <1>5
<1>7. QED  BY <1>4, <1>5, <1>6 DEF Earned, leaf

(* Trusted is a verdict on each of the server's own certificates, whatever it
   sends and in whatever order: none is trusted without the name, and none
   without a path of valid certificates, sent by the server, to a root. *)
THEOREM ProbeTrustedIsEarned == ProbeSpec => []TrustedIsEarned
<1>1. ASSUME ProbeInv PROVE TrustedIsEarned
  <2>1. SUFFICES ASSUME NEW i \in DOMAIN report, Validation(report[i]).trusted,
                        NEW leaf \in Leaves(report[i])
                 PROVE  Earned(leaf, ServerName, roots, report[i].sent)
    BY DEF TrustedIsEarned, Earned
  <2> DEFINE r == report[i]
  <2>2. r \in Result /\ r.sent \in Seq(Cert) /\ roots \in Seq(SUBSET Cert)
    BY <1>1, ReportedTyped
  <2>3. r.failure = "none" /\ Verdict(r.version, r.certs, roots, ServerName).trusted
    BY <2>1 DEF Validation, NoVerdict
  <2>4. r.sent # << >> /\ r.certs = AppendNew(<< >>, r.sent)
    BY <1>1, <2>3 DEF ProbeInv, ResultsAreOfSent
  <2>5. leaf \in {r.sent[k] : k \in 1 .. (IF r.version = "TLCP11" THEN 2 ELSE 1)}
    BY DEF Leaves
  <2> HIDE DEF r
  <2>6. /\ r.certs \in Seq(Cert) /\ Len(r.certs) \in Nat
        /\ ToSet(r.certs) = ToSet(r.sent) /\ r.certs[1] = r.sent[1]
        /\ Len(r.certs) >= 2 /\ r.sent[1] # r.sent[2] => r.certs[2] = r.sent[2]
    BY <2>2, <2>4, FirstOfNew
  <2>7. \A n \in 1 .. 2, start \in {2, 3} : PeerTrusted(r.certs, roots, ServerName, n, start) =>
          Earned(r.certs[n], ServerName, roots, r.sent)
    <3>1. \A l : Earned(l, ServerName, roots, r.certs) => Earned(l, ServerName, roots, r.sent)
      BY <2>6 DEF Earned
    <3>2. QED  BY <2>2, <2>6, <3>1, PeerTrustedIsEarned
  <2>8. CASE r.version # "TLCP11"
    <3>1. PeerTrusted(r.certs, roots, ServerName, 1, 2)
      BY <2>3, <2>6, <2>8, VerdictTrusted
    <3>2. leaf = r.sent[1]
      BY <2>5, <2>8
    <3>3. Earned(r.certs[1], ServerName, roots, r.sent)
      BY <2>7, <3>1
    <3>4. QED  BY <2>6, <3>2, <3>3 DEF r
  <2>9. CASE r.version = "TLCP11"
    <3>1. /\ Len(r.certs) >= 2
          /\ PeerTrusted(r.certs, roots, ServerName, 1, 3)
          /\ PeerTrusted(r.certs, roots, ServerName, 2, 3)
      BY <2>3, <2>6, <2>9, VerdictTrusted
    <3>2. leaf = r.sent[1] \/ leaf = r.sent[2]
      BY <2>5, <2>9
    <3>3. Earned(r.certs[1], ServerName, roots, r.sent)
            /\ Earned(r.certs[2], ServerName, roots, r.sent)
      BY <2>7, <3>1
    <3>4. leaf = r.certs[1] \/ leaf = r.certs[2]
      BY <2>6, <3>1, <3>2
    <3>5. QED  BY <3>3, <3>4 DEF r
  <2>10. QED  BY <2>8, <2>9
<1>2. QED  BY <1>1, ProbeInvariant, PTL

(* TrustStore.Add makes no verdict worse, for any server, version and name. *)
THEOREM ProbeAddOnlyExtendsTrust == ProbeSpec => AddOnlyExtendsTrust
<1>1. ASSUME ProbeInv, [ProbeNext]_probeVars, stage = "idle", roots \notin {NoRoots, << >>}
      PROVE  /\ roots \in Seq(SUBSET Cert) /\ roots' \in Seq(SUBSET Cert)
             /\ Len(roots') = Len(roots)
             /\ \A i \in DOMAIN roots : roots[i] \subseteq roots'[i]
  <2>1. roots \in Seq(SUBSET Cert)
    BY <1>1 DEF ProbeInv, ProbeTypes
  <2>2. CASE \E c \in Added : AddRoot(c)
    <3>1. PICK c \in Added : roots' = [roots EXCEPT ![1] = roots[1] \cup {c}]
      BY <1>1, <2>2 DEF AddRoot
    <3>2. c \in Cert
      BY ProbeInputsWellFormed DEF ProbeInputs
    <3>3. 1 \in DOMAIN roots /\ roots[1] \cup {c} \in SUBSET Cert
      BY <1>1, <2>1, <3>2
    <3>4. roots' \in Seq(SUBSET Cert) /\ Len(roots') = Len(roots)
      BY <2>1, <3>1, <3>3
    <3>5. \A i \in DOMAIN roots : roots[i] \subseteq roots'[i]
      BY <2>1, <3>1
    <3>6. QED  BY <2>1, <3>4, <3>5
  <2>3. CASE ~\E c \in Added : AddRoot(c)
    <3>1. roots' = roots
      BY <1>1, <2>3 DEF ProbeNext, probeVars, Cancel, Begin, RefuseVersion, FailDial, Dial,
         FailHandshake, Handshake, Inspect, Conclude
    <3>2. QED  BY <2>1, <3>1
  <2>4. QED  BY <2>2, <2>3
<1>2. ASSUME NEW pools \in Seq(SUBSET Cert), NEW pools2 \in Seq(SUBSET Cert),
             Len(pools2) = Len(pools), \A i \in DOMAIN pools : pools[i] \subseteq pools2[i],
             NEW version, NEW certs \in Seq(Cert), NEW name,
             Verdict(version, certs, pools, name).trusted
      PROVE  Verdict(version, certs, pools2, name).trusted
  <2>1. Len(certs) \in Nat
    OBVIOUS
  <2>2. ASSUME NEW n \in 1 .. 2, NEW start \in {2, 3}, PeerTrusted(certs, pools, name, n, start)
        PROVE  PeerTrusted(certs, pools2, name, n, start)
    <3>1. /\ n <= Len(certs) /\ certs[n] \in Cert
          /\ Trusts(pools, certs[n], From(certs, start), Matching[name])
      BY <2>2 DEF PeerTrusted
    <3>2. From(certs, start) \in SUBSET Cert
      BY FromIs
    <3>3. Trusts(pools2, certs[n], From(certs, start), Matching[name])
      BY <1>2, <3>1, <3>2, TrustsWithMore
    <3>4. QED  BY <3>1, <3>3 DEF PeerTrusted
  <2>3. CASE version # "TLCP11"
    <3>1. PeerTrusted(certs, pools, name, 1, 2)
      BY <1>2, <2>1, <2>3, VerdictTrusted
    <3>2. PeerTrusted(certs, pools2, name, 1, 2)
      BY <2>2, <3>1
    <3>3. QED  BY <2>1, <2>3, <3>2, VerdictTrusted
  <2>4. CASE version = "TLCP11"
    <3>1. /\ Len(certs) >= 2
          /\ PeerTrusted(certs, pools, name, 1, 3) /\ PeerTrusted(certs, pools, name, 2, 3)
      BY <1>2, <2>1, <2>4, VerdictTrusted
    <3>2. PeerTrusted(certs, pools2, name, 1, 3) /\ PeerTrusted(certs, pools2, name, 2, 3)
      BY <2>2, <3>1
    <3>3. QED  BY <2>1, <2>4, <3>1, <3>2, VerdictTrusted
  <2>5. QED  BY <2>3, <2>4
<1>3. \A s \in Served : AppendNew(<< >>, s.certs) \in Seq(Cert)
  BY FirstOfNew, ProbeInputsWellFormed DEF ProbeInputs
<1>4. ASSUME ProbeInv, [ProbeNext]_probeVars, stage = "idle", roots \notin {NoRoots, << >>},
             NEW s \in Served, NEW v \in {"TLCP11", "TLS12"}, NEW n \in Name,
             Verdict(v, AppendNew(<< >>, s.certs), roots, n).trusted
      PROVE  Verdict(v, AppendNew(<< >>, s.certs), roots', n).trusted
  BY <1>1, <1>2, <1>3, <1>4
<1>5. ProbeInv /\ [ProbeNext]_probeVars =>
        [stage = "idle" /\ roots \notin {NoRoots, << >>} =>
           \A s \in Served, v \in {"TLCP11", "TLS12"}, n \in Name :
              LET certs == AppendNew(<< >>, s.certs)
              IN  Verdict(v, certs, roots, n).trusted
                    => Verdict(v, certs, roots', n).trusted]_probeVars
  BY <1>4
<1>6. QED  BY <1>5, ProbeInvariant, PTL DEF ProbeSpec, AddOnlyExtendsTrust

(* A certificate is trusted with and without the roots that were sent. *)
LEMMA TrustsWithoutRoots ==
  ASSUME NEW pools \in Seq(SUBSET Cert), NEW leaf \in Cert, NEW named,
         NEW S \in SUBSET Cert, NEW S2, S2 = {c \in S : ~IsRoot(c)}
  PROVE  Trusts(pools, leaf, S, named) <=> Trusts(pools, leaf, S2, named)
<1>1. S2 \in SUBSET Cert /\ \A i \in DOMAIN pools : pools[i] \subseteq pools[i]
  OBVIOUS
<1>2. Trusts(pools, leaf, S, named) => Trusts(pools, leaf, S2, named)
  BY <1>1, TrustsWithMore
<1>3. Trusts(pools, leaf, S2, named) => Trusts(pools, leaf, S, named)
  BY <1>1, TrustsWithMore
<1>4. QED  BY <1>2, <1>3

(* What is left of a list when the roots after its first "leaves" certificates
   are dropped. *)
LEMMA WithoutRoots ==
  ASSUME NEW certs \in Seq(Cert), NEW leaves \in 1 .. 2
  PROVE  LET rest == Pick(certs, {j \in DOMAIN certs : j <= leaves \/ ~IsRoot(certs[j])})
         IN  /\ Len(rest) \in Nat /\ rest \in Seq(Cert)
             /\ \A n \in 1 .. leaves : /\ n <= Len(rest) <=> n <= Len(certs)
                                       /\ n <= Len(certs) => rest[n] = certs[n]
             /\ leaves <= Len(certs) =>
                  From(rest, leaves + 1) = {c \in From(certs, leaves + 1) : ~IsRoot(c)}
<1> DEFINE I == {j \in DOMAIN certs : j <= leaves \/ ~IsRoot(certs[j])}
           rest == Pick(certs, I)
<1>1. I \in SUBSET (DOMAIN certs) /\ DOMAIN certs = 1 .. Len(certs) /\ Len(certs) \in Nat
  OBVIOUS
<1>2. rest \in Seq(Cert) /\ Len(rest) \in Nat
  BY <1>1, PickProperties
<1>3. Len(rest) <= Len(certs)
  <2>1. IsFiniteSet(1 .. Len(certs)) /\ Cardinality(1 .. Len(certs)) = Len(certs)
    <3>1. Len(certs) \in Nat
      BY <1>1
    <3> HIDE DEF rest, I
    <3>2. QED  BY <3>1, FS_Interval
  <2>2. Len(rest) = Cardinality(I)
    BY <1>1, PickProperties
  <2>3. QED  BY <1>1, <2>1, <2>2, FS_Subset
<1>4. ASSUME NEW m \in 0 .. leaves, m <= Len(certs)
      PROVE  m <= Len(rest) /\ \A n \in 1 .. m : rest[n] = certs[n]
  <2>1. 1 .. m \subseteq I /\ m \in Nat
    BY <1>1, <1>4
  <2> HIDE DEF I
  <2>2. QED  BY <1>1, <2>1, PickPrefix
<1>5. ASSUME NEW n \in 1 .. leaves
      PROVE  (n <= Len(rest) <=> n <= Len(certs)) /\ (n <= Len(certs) => rest[n] = certs[n])
  <2>1. n <= Len(certs) => n <= Len(rest) /\ rest[n] = certs[n]
    BY <1>4
  <2>2. n <= Len(rest) => n <= Len(certs)
    BY <1>1, <1>2, <1>3
  <2>3. QED  BY <2>1, <2>2
<1>6. ASSUME leaves <= Len(certs)
      PROVE  From(rest, leaves + 1) = {c \in From(certs, leaves + 1) : ~IsRoot(c)}
  <2>1. 1 .. leaves \subseteq I /\ leaves \in Nat
    BY <1>1, <1>6
  <2>2. From(rest, leaves + 1) = {certs[i] : i \in {k \in I : k > leaves}}
    <3> HIDE DEF I
    <3>1. QED  BY <1>1, <2>1, PickPrefix DEF From
  <2>3. From(certs, leaves + 1) = {certs[i] : i \in {k \in DOMAIN certs : k >= leaves + 1}}
    BY FromIs
  <2>4. \A i \in DOMAIN certs : i > leaves <=> i >= leaves + 1
    BY <1>1
  <2>5. \A i \in DOMAIN certs : i > leaves => (i \in I <=> ~IsRoot(certs[i]))
    BY <1>1
  <2> HIDE DEF I, rest
  <2>6. QED  BY <1>1, <2>2, <2>3, <2>4, <2>5
<1>7. QED  BY <1>2, <1>5, <1>6

(* Servers that send their root and servers that leave it out are treated
   alike, for every version and pool: an intermediate that is itself a root only
   lengthens a route. *)
THEOREM ProbeRootsMakeNoDifference == ProbeSpec => []RootsMakeNoDifference
<1>1. ASSUME ProbeInv PROVE RootsMakeNoDifference
  <2>1. SUFFICES ASSUME NEW i \in DOMAIN report, report[i].failure = "none"
                 PROVE  LET r == report[i]
                            leaves == IF r.version = "TLCP11" THEN 2 ELSE 1
                            rootless == Pick(r.certs, {j \in DOMAIN r.certs :
                                                j <= leaves \/ ~IsRoot(r.certs[j])})
                        IN  Verdict(r.version, rootless, roots, ServerName).trusted
                              = Validation(r).trusted
    BY DEF RootsMakeNoDifference
  <2> DEFINE r == report[i]
             leaves == IF r.version = "TLCP11" THEN 2 ELSE 1
             rest == Pick(r.certs, {j \in DOMAIN r.certs : j <= leaves \/ ~IsRoot(r.certs[j])})
             name == ServerName
  <2>2. r.certs \in Seq(Cert) /\ Len(r.certs) \in Nat /\ roots \in Seq(SUBSET Cert)
    BY <1>1, ReportedTyped
  <2>3. Validation(r).trusted = Verdict(r.version, r.certs, roots, name).trusted
    BY <2>1 DEF Validation
  <2>4. leaves \in 1 .. 2
    OBVIOUS
  <2>5. /\ Len(rest) \in Nat /\ rest \in Seq(Cert)
        /\ \A n \in 1 .. leaves : /\ n <= Len(rest) <=> n <= Len(r.certs)
                                  /\ n <= Len(r.certs) => rest[n] = r.certs[n]
        /\ leaves <= Len(r.certs) =>
             From(rest, leaves + 1) = {c \in From(r.certs, leaves + 1) : ~IsRoot(c)}
    <3> HIDE DEF leaves
    <3>1. QED  BY <2>2, <2>4, WithoutRoots
  <2> HIDE DEF rest, r, leaves, name
  <2>6. ASSUME NEW n \in 1 .. leaves, leaves <= Len(r.certs)
        PROVE  PeerTrusted(rest, roots, name, n, leaves + 1)
                 <=> PeerTrusted(r.certs, roots, name, n, leaves + 1)
    <3>1. n <= Len(r.certs) /\ n <= Len(rest) /\ rest[n] = r.certs[n] /\ r.certs[n] \in Cert
      <4>1. n \in 1 .. Len(r.certs)
        BY <2>2, <2>4, <2>6
      <4>2. QED  BY <2>2, <2>5, <4>1
    <3>2. From(r.certs, leaves + 1) \in SUBSET Cert
      <4>1. leaves + 1 \in Nat \ {0}
        BY <2>4
      <4>2. QED  BY <2>2, <4>1, FromIs
    <3>3. From(rest, leaves + 1) = {c \in From(r.certs, leaves + 1) : ~IsRoot(c)}
      BY <2>5, <2>6
    <3> DEFINE S == From(r.certs, leaves + 1)
               S2 == From(rest, leaves + 1)
    <3> HIDE DEF S, S2
    <3>4. Trusts(roots, r.certs[n], S, Matching[name])
            <=> Trusts(roots, r.certs[n], S2, Matching[name])
      <4>1. S \in SUBSET Cert /\ S2 = {c \in S : ~IsRoot(c)}
        BY <3>2, <3>3 DEF S, S2
      <4>2. QED  BY <2>2, <3>1, <4>1, TrustsWithoutRoots
    <3>5. QED  BY <3>1, <3>4 DEF PeerTrusted, S, S2
  <2>7. CASE r.version # "TLCP11"
    <3>1. leaves = 1
      BY <2>7 DEF leaves, r
    <3>2. PeerTrusted(rest, roots, name, 1, 2) <=> PeerTrusted(r.certs, roots, name, 1, 2)
      <4>1. CASE 1 <= Len(r.certs)
        BY <2>6, <3>1, <4>1
      <4>2. CASE ~(1 <= Len(r.certs))
        BY <2>5, <3>1, <4>2 DEF PeerTrusted
      <4>3. QED  BY <4>1, <4>2
    <3>3. QED  BY <2>2, <2>3, <2>5, <2>7, <3>2, VerdictTrusted DEF rest, r, leaves, name
  <2>8. CASE r.version = "TLCP11"
    <3>1. leaves = 2
      BY <2>8 DEF leaves, r
    <3>2. (/\ Len(rest) >= 2
           /\ PeerTrusted(rest, roots, name, 1, 3) /\ PeerTrusted(rest, roots, name, 2, 3))
            <=> (/\ Len(r.certs) >= 2
                 /\ PeerTrusted(r.certs, roots, name, 1, 3)
                 /\ PeerTrusted(r.certs, roots, name, 2, 3))
      <4>1. Len(rest) >= 2 <=> Len(r.certs) >= 2
        BY <2>2, <2>5, <3>1
      <4>2. CASE Len(r.certs) >= 2
        BY <2>2, <2>6, <3>1, <4>1, <4>2
      <4>3. CASE ~(Len(r.certs) >= 2)
        BY <4>1, <4>3
      <4>4. QED  BY <4>2, <4>3
    <3>3. QED  BY <2>2, <2>3, <2>5, <2>8, <3>2, VerdictTrusted DEF rest, r, leaves, name
  <2>9. QED  BY <2>7, <2>8
<1>2. QED  BY <1>1, ProbeInvariant, PTL
=============================================================================
