---------------------------- MODULE ObjectProofs ----------------------------
(***************************************************************************)
(* Entries that refer to the objects of their store, and what re-matching, *)
(* looking up and appending do to them.                                    *)
(***************************************************************************)
EXTENDS Objects, PkiProofs

(* The entries that refer to certificates of cs and keys of ks only, and are
   "available" exactly when they have a key. *)
Sound(cs, ks) ==
  {e \in Entry : /\ ToSet(e.chain) \subseteq ToSet(cs)
                 /\ e.key \in ToSet(ks) \cup {NoKey}
                 /\ e.status = "available" <=> e.key # NoKey}

(* An entry that refers to some objects refers to any more objects as well. *)
LEMMA SoundMonotonic ==
  ASSUME NEW cs, NEW ks, NEW ds, NEW ls,
         ToSet(cs) \subseteq ToSet(ds), ToSet(ks) \subseteq ToSet(ls)
  PROVE  Sound(cs, ks) \subseteq Sound(ds, ls)
BY DEF Sound

(* The chain matched to a key consists of stored certificates. *)
LEMMA MatchedChainProperties ==
  ASSUME NEW cs \in Seq(Cert), NEW k
  PROVE  /\ MatchedChain(k, cs) \in Seq(Cert)
         /\ ToSet(MatchedChain(k, cs)) \subseteq ToSet(cs)
         /\ MatchedChain(k, cs) = << >> => \A c \in ToSet(cs) : ~Matches(k, c)
         /\ MatchedChain(k, cs) # << >> =>
               \E leaf \in Cert : Matches(k, leaf) /\ MatchedChain(k, cs) = BuildChain(leaf, cs)
<1> DEFINE M == {i \in DOMAIN cs : Matches(k, cs[i])}
<1>1. CASE M = {}
  <2>1. MatchedChain(k, cs) = << >>
    BY <1>1 DEF MatchedChain
  <2>2. \A c \in ToSet(cs) : ~Matches(k, c)
    BY <1>1 DEF ToSet
  <2>3. ToSet(<< >>) = {} /\ << >> \in Seq(Cert)
    BY DEF ToSet
  <2> QED  BY <2>1, <2>2, <2>3
<1>2. CASE M # {}
  <2>1. M \in SUBSET Nat
    BY RangeOf
  <2>2. \E x \in M : \A y \in M : x <= y
    BY <1>2, <2>1, LeastNatural
  <2>3. Min(M) \in M
    BY <2>2 DEF Min
  <2> PICK leaf \in Cert : leaf = cs[Min(M)] /\ leaf \in ToSet(cs) /\ Matches(k, leaf)
    <3>1. cs[Min(M)] \in ToSet(cs) /\ Matches(k, cs[Min(M)])
      BY <2>3 DEF ToSet
    <3> QED  BY <3>1, RangeOf
  <2>4. leaf \in Cert /\ leaf \in ToSet(cs) /\ Matches(k, leaf)
    OBVIOUS
  <2>5. MatchedChain(k, cs) = BuildChain(leaf, cs)
    BY <1>2 DEF MatchedChain
  <2>6. /\ BuildChain(leaf, cs) \in Seq(Cert) /\ BuildChain(leaf, cs) # << >>
        /\ ToSet(BuildChain(leaf, cs)) \subseteq ToSet(cs) \cup {leaf}
    BY <2>4, BuildChainStaysInside
  <2> QED  BY <2>4, <2>5, <2>6
<1> QED  BY <1>1, <1>2

(* What buildCertificateChain and the matching of a key put at the head. *)
LEMMA HeadOfChain ==
  ASSUME NEW cs \in Seq(Cert)
  PROVE  /\ \A leaf \in Cert : BuildChain(leaf, cs)[1] = leaf
         /\ \A k : MatchedChain(k, cs) # << >> => Matches(k, MatchedChain(k, cs)[1])
<1>1. \A leaf \in Cert : BuildChain(leaf, cs)[1] = leaf
  BY BuildChainReturnsChain DEF IsChain
<1>2. ASSUME NEW k, MatchedChain(k, cs) # << >>
      PROVE  Matches(k, MatchedChain(k, cs)[1])
  <2>1. PICK leaf \in Cert : Matches(k, leaf) /\ MatchedChain(k, cs) = BuildChain(leaf, cs)
    BY <1>2, MatchedChainProperties
  <2> QED  BY <1>1, <2>1
<1> QED  BY <1>1, <1>2

(* The chain of a sound entry may be replaced by any stored certificates. *)
LEMMA ChainReplaced ==
  ASSUME NEW cs, NEW ks, NEW e \in Sound(cs, ks),
         NEW ch \in Seq(Cert), ToSet(ch) \subseteq ToSet(cs)
  PROVE  [e EXCEPT !.chain = ch] \in Sound(cs, ks)
<1> DEFINE f == [e EXCEPT !.chain = ch]
<1>1. e \in Entry
  BY DEF Sound
<1>2. /\ f \in Entry /\ f.chain = ch
      /\ f.key = e.key /\ f.status = e.status
  BY <1>1 DEF Entry
<1> HIDE DEF f
<1>3. f \in Sound(cs, ks)
  BY <1>2 DEF Sound
<1> QED  BY <1>3 DEF f

(* Re-matching an entry changes nothing but its chain, which stays within the
   store. *)
LEMMA RechainedIsSound ==
  ASSUME NEW cs \in Seq(Cert), NEW ks \in Seq(Key), NEW e \in Sound(cs, ks)
  PROVE  Rechained(e, cs) \in Sound(cs, ks) /\ Rechained(e, cs).key = e.key
<1>1. e \in Entry /\ ToSet(e.chain) \subseteq ToSet(cs)
  BY DEF Sound
<1>2. CASE e.key = NoKey
  BY <1>2 DEF Rechained
<1>3. ASSUME NEW ch \in Seq(Cert), ToSet(ch) \subseteq ToSet(cs),
             Rechained(e, cs) = [e EXCEPT !.chain = ch]
      PROVE  Rechained(e, cs) \in Sound(cs, ks) /\ Rechained(e, cs).key = e.key
  <2>1. [e EXCEPT !.chain = ch].key = e.key
    BY <1>1 DEF Entry
  <2>2. [e EXCEPT !.chain = ch] \in Sound(cs, ks)
    BY <1>3, ChainReplaced
  <2> QED  BY <1>3, <2>1, <2>2
<1>4. CASE e.key # NoKey /\ e.chain = << >>
  <2>1. Rechained(e, cs) = [e EXCEPT !.chain = MatchedChain(e.key, cs)]
    BY <1>1, <1>4 DEF Rechained, Entry
  <2> QED  BY <1>3, <2>1, MatchedChainProperties
<1>5. CASE e.key # NoKey /\ e.chain # << >>
  <2>1. Rechained(e, cs) = [e EXCEPT !.chain = BuildChain(e.chain[1], cs)]
    BY <1>1, <1>5 DEF Rechained, Entry
  <2>2. e.chain \in Seq(Cert)
    BY <1>1 DEF Entry
  <2>3. e.chain[1] \in ToSet(cs)
    BY <1>1, <1>5, <2>2, HeadInRange
  <2>4. /\ BuildChain(e.chain[1], cs) \in Seq(Cert)
        /\ ToSet(BuildChain(e.chain[1], cs)) \subseteq ToSet(cs)
    BY <2>3, BuildChainStaysInside
  <2> QED  BY <1>3, <2>1, <2>4
<1> QED  BY <1>2, <1>4, <1>5

(* The entry that reconcileEntries makes for a stored key is sound. *)
LEMMA KeyEntryIsSound ==
  ASSUME NEW cs \in Seq(Cert), NEW ks \in Seq(Key), NEW k \in ToSet(ks)
  PROVE  KeyEntry(k, cs) \in Sound(cs, ks)
<1>1. k \in Key /\ Synthetic[k] \in Alias /\ k # NoKey
  BY RangeOf, AliasFunctions, Sentinels
<1>2. MatchedChain(k, cs) \in Seq(Cert) /\ ToSet(MatchedChain(k, cs)) \subseteq ToSet(cs)
  BY MatchedChainProperties
<1>3. KeyEntry(k, cs) \in Entry
  BY <1>1, <1>2 DEF KeyEntry, Entry, Statuses
<1>4. /\ KeyEntry(k, cs).chain = MatchedChain(k, cs)
      /\ KeyEntry(k, cs).key = k /\ KeyEntry(k, cs).status = "available"
  BY DEF KeyEntry
<1> QED  BY <1>1, <1>2, <1>3, <1>4 DEF Sound

Orphans(es, ks) == Keep(ks, Key \ {es[i].key : i \in DOMAIN es})

(* The elements that reconcileEntries leaves: the old entries, re-matched, and
   one for each key without entry. *)
LEMMA ReconcileRange ==
  ASSUME NEW cs, NEW ks \in Seq(Key), NEW S, NEW es \in Seq(S)
  PROVE  ToSet(Reconcile(es, cs, ks))
           = {Rechained(es[i], cs) : i \in DOMAIN es}
               \cup {KeyEntry(k, cs) : k \in ToSet(ks) \ {es[i].key : i \in DOMAIN es}}
<1> DEFINE os == Orphans(es, ks)
           A == [i \in DOMAIN es |-> Rechained(es[i], cs)]
           B == [j \in DOMAIN os |-> KeyEntry(os[j], cs)]
           V == {Rechained(es[i], cs) : i \in DOMAIN es}
           \cup {KeyEntry(os[j], cs) : j \in DOMAIN os}
<1>1. os \in Seq(Key) /\ ToSet(os) = ToSet(ks) \cap (Key \ {es[i].key : i \in DOMAIN es})
  BY KeepProperties DEF Orphans
<1>2. Reconcile(es, cs, ks) = A \o B
  BY DEF Reconcile, Orphans
<1>3. ToSet(ks) \subseteq Key
  BY RangeOf
<1> HIDE DEF os
<1>4. DOMAIN es = 1 .. Len(es) /\ Len(es) \in Nat /\ DOMAIN os = 1 .. Len(os) /\ Len(os) \in Nat
  BY <1>1, RangeOf
<1>5. /\ \A i \in DOMAIN es : Rechained(es[i], cs) \in V
      /\ \A j \in DOMAIN os : KeyEntry(os[j], cs) \in V
  OBVIOUS
<1>6. A \in Seq(V) /\ B \in Seq(V)
  <2> HIDE DEF V
  <2> QED  BY <1>4, <1>5
<1>7. ToSet(A) = {Rechained(es[i], cs) : i \in DOMAIN es}
  BY DEF ToSet
<1>8. ToSet(B) = {KeyEntry(k, cs) : k \in ToSet(os)}
  BY DEF ToSet
<1> HIDE DEF A, B, V
<1>9. ToSet(A \o B) = ToSet(A) \cup ToSet(B)
  BY <1>6, ConcatRange
<1>10. ToSet(os) = ToSet(ks) \ {es[i].key : i \in DOMAIN es}
  BY <1>1, <1>3
<1> QED  BY <1>2, <1>7, <1>8, <1>9, <1>10

(* The entry at each place of a re-matched list is the re-matched old one. *)
LEMMA ReconcileInPlace ==
  ASSUME NEW cs, NEW ks \in Seq(Key), NEW S, NEW es \in Seq(S), NEW i \in DOMAIN es
  PROVE  Reconcile(es, cs, ks)[i] = Rechained(es[i], cs)
<1> DEFINE os == Orphans(es, ks)
           A == [n \in DOMAIN es |-> Rechained(es[n], cs)]
           B == [j \in DOMAIN os |-> KeyEntry(os[j], cs)]
           V == {Rechained(es[n], cs) : n \in DOMAIN es}
           \cup {KeyEntry(os[j], cs) : j \in DOMAIN os}
<1>1. os \in Seq(Key)
  BY KeepProperties DEF Orphans
<1>2. Reconcile(es, cs, ks) = A \o B
  BY DEF Reconcile, Orphans
<1> HIDE DEF os
<1>3. DOMAIN es = 1 .. Len(es) /\ Len(es) \in Nat /\ DOMAIN os = 1 .. Len(os) /\ Len(os) \in Nat
  BY <1>1, RangeOf
<1>4. /\ \A n \in DOMAIN es : Rechained(es[n], cs) \in V
      /\ \A j \in DOMAIN os : KeyEntry(os[j], cs) \in V
  OBVIOUS
<1>5. A \in Seq(V) /\ B \in Seq(V)
  <2> HIDE DEF V
  <2> QED  BY <1>3, <1>4
<1>6. DOMAIN A = DOMAIN es /\ A[i] = Rechained(es[i], cs)
  OBVIOUS
<1> HIDE DEF A, B, V
<1>7. (A \o B)[i] = A[i]
  BY <1>5, <1>6
<1> QED  BY <1>2, <1>6, <1>7

(* reconcileEntries leaves entries that refer to the store only, the old ones
   in their places with their keys, the new ones for the keys without entry. *)
LEMMA ReconcileIsSound ==
  ASSUME NEW cs \in Seq(Cert), NEW ks \in Seq(Key), NEW es \in Seq(Sound(cs, ks))
  PROVE  Reconcile(es, cs, ks) \in Seq(Sound(cs, ks))
<1> DEFINE os == Orphans(es, ks)
           A == [i \in DOMAIN es |-> Rechained(es[i], cs)]
           B == [j \in DOMAIN os |-> KeyEntry(os[j], cs)]
<1>1. A \in Seq(Sound(cs, ks))
  <2>1. DOMAIN es = 1 .. Len(es) /\ Len(es) \in Nat
    BY RangeOf
  <2>2. \A i \in DOMAIN es : Rechained(es[i], cs) \in Sound(cs, ks)
    BY RechainedIsSound
  <2> QED  BY <2>1, <2>2
<1>2. os \in Seq(Key) /\ ToSet(os) \subseteq ToSet(ks)
  BY KeepProperties DEF Orphans
<1> HIDE DEF os
<1>3. B \in Seq(Sound(cs, ks))
  <2>1. DOMAIN os = 1 .. Len(os) /\ Len(os) \in Nat
    BY <1>2, RangeOf
  <2>2. \A j \in DOMAIN os : os[j] \in ToSet(ks)
    BY <1>2 DEF ToSet
  <2>3. \A j \in DOMAIN os : KeyEntry(os[j], cs) \in Sound(cs, ks)
    BY <2>2, KeyEntryIsSound
  <2> QED  BY <2>1, <2>3
<1>4. Reconcile(es, cs, ks) = A \o B
  BY DEF Reconcile, Orphans, os
<1> HIDE DEF A, B
<1> QED  BY <1>1, <1>3, <1>4, ConcatRange

(* Every key has an entry after reconcileEntries. *)
LEMMA ReconcileNamesKeys ==
  ASSUME NEW cs \in Seq(Cert), NEW ks \in Seq(Key), NEW es \in Seq(Sound(cs, ks)),
         NEW k \in ToSet(ks)
  PROVE  \E e \in ToSet(Reconcile(es, cs, ks)) : e.key = k
<1> DEFINE new == ToSet(ks) \ {es[i].key : i \in DOMAIN es}
<1>0. ToSet(Reconcile(es, cs, ks))
        = {Rechained(es[i], cs) : i \in DOMAIN es} \cup {KeyEntry(n, cs) : n \in new}
  BY ReconcileRange
<1>1. CASE \E i \in DOMAIN es : es[i].key = k
  <2>1. PICK i \in DOMAIN es : es[i].key = k
    BY <1>1
  <2>2. Rechained(es[i], cs).key = k
    BY <2>1, RechainedIsSound
  <2>3. Rechained(es[i], cs) \in ToSet(Reconcile(es, cs, ks))
    BY <1>0
  <2> QED  BY <2>2, <2>3
<1>2. CASE ~\E i \in DOMAIN es : es[i].key = k
  <2>1. KeyEntry(k, cs) \in ToSet(Reconcile(es, cs, ks))
    <3>1. k \in new
      BY <1>2
    <3> HIDE DEF new
    <3> QED  BY <1>0, <3>1
  <2> QED  BY <2>1 DEF KeyEntry
<1> QED  BY <1>1, <1>2

(* An entry with the chain that is matched to its key is left alone. *)
LEMMA MatchedIsRechained ==
  ASSUME NEW cs \in Seq(Cert), NEW r, r.key \in Key, r.chain = MatchedChain(r.key, cs),
         r = [r EXCEPT !.chain = r.chain]
  PROVE  Rechained(r, cs) = r
<1>1. r.key # NoKey
  BY Sentinels
<1>2. CASE r.chain = << >>
  BY <1>1, <1>2 DEF Rechained
<1>3. CASE r.chain # << >>
  <2>1. PICK leaf \in Cert : MatchedChain(r.key, cs) = BuildChain(leaf, cs)
    BY <1>3, MatchedChainProperties
  <2>2. BuildChain(r.chain[1], cs) = r.chain
    BY <1>3, <2>1, HeadOfChain
  <2> QED  BY <1>1, <1>3, <2>2 DEF Rechained
<1> QED  BY <1>2, <1>3

(* An entry that was re-matched is left alone by the next re-match. *)
LEMMA RechainedTwice ==
  ASSUME NEW cs \in Seq(Cert)
  PROVE  /\ \A e \in Entry : Rechained(Rechained(e, cs), cs) = Rechained(e, cs)
         /\ \A k \in Key : Rechained(KeyEntry(k, cs), cs) = KeyEntry(k, cs)
<1>2. ASSUME NEW e \in Entry  PROVE Rechained(Rechained(e, cs), cs) = Rechained(e, cs)
  <2> DEFINE r == Rechained(e, cs)
  <2>1. CASE e.key = NoKey
    BY <2>1 DEF Rechained
  <2>2. CASE e.key # NoKey /\ e.chain = << >>
    <3>1. /\ r.key = e.key /\ e.key \in Key /\ r.chain = MatchedChain(e.key, cs)
          /\ r = [r EXCEPT !.chain = r.chain]
      BY <2>2 DEF Rechained, Entry
    <3> HIDE DEF r
    <3>2. Rechained(r, cs) = r
      BY <3>1, MatchedIsRechained
    <3> QED  BY <3>2 DEF r
  <2>3. CASE e.key # NoKey /\ e.chain # << >>
    <3>1. /\ r.key = e.key /\ r.chain = BuildChain(e.chain[1], cs)
          /\ r = [r EXCEPT !.chain = r.chain]
      BY <2>3 DEF Rechained, Entry
    <3>2. e.chain[1] \in Cert
      BY <2>3, HeadInRange, RangeOf DEF Entry
    <3> HIDE DEF r
    <3>3. r.chain # << >> /\ r.chain[1] = e.chain[1]
      <4>1. IsChain(r.chain, e.chain[1], cs)
        BY <3>1, <3>2, BuildChainReturnsChain
      <4> QED  BY <4>1 DEF IsChain
    <3>4. Rechained(r, cs) = r
      BY <2>3, <3>1, <3>3 DEF Rechained
    <3> QED  BY <3>4 DEF r
  <2> QED  BY <2>1, <2>2, <2>3
<1>3. ASSUME NEW k \in Key  PROVE Rechained(KeyEntry(k, cs), cs) = KeyEntry(k, cs)
  <2> DEFINE r == KeyEntry(k, cs)
  <2>1. r.key = k /\ r.chain = MatchedChain(k, cs) /\ r = [r EXCEPT !.chain = r.chain]
    BY DEF KeyEntry
  <2> HIDE DEF r
  <2>2. Rechained(r, cs) = r
    BY <2>1, MatchedIsRechained
  <2> QED  BY <2>2 DEF r
<1> QED  BY <1>2, <1>3

(* reconcileEntries changes nothing when every entry is re-matched and every
   key has one. *)
LEMMA ReconcileFixed ==
  ASSUME NEW cs \in Seq(Cert), NEW ks \in Seq(Key), NEW S, NEW es \in Seq(S),
         \A i \in DOMAIN es : Rechained(es[i], cs) = es[i],
         ToSet(ks) \subseteq {es[i].key : i \in DOMAIN es}
  PROVE  Reconcile(es, cs, ks) = es
<1> DEFINE os == Orphans(es, ks)
           A == [i \in DOMAIN es |-> Rechained(es[i], cs)]
           B == [j \in DOMAIN os |-> KeyEntry(os[j], cs)]
<1>1. Reconcile(es, cs, ks) = A \o B
  BY DEF Reconcile, Orphans
<1>2. A = es
  OBVIOUS
<1>3. os = << >>
  <2>1. os \in Seq(Key) /\ ToSet(os) = ToSet(ks) \cap (Key \ {es[i].key : i \in DOMAIN es})
    BY KeepProperties DEF Orphans
  <2> HIDE DEF os
  <2>2. ToSet(os) = {}
    BY <2>1
  <2> QED  BY <2>1, <2>2, HeadInRange
<1>4. B = << >>
  BY <1>3
<1> HIDE DEF A, B
<1>5. A \o B = es
  BY <1>2, <1>4, ConcatEmptySeq
<1> QED  BY <1>1, <1>5

(* Re-matching what was re-matched changes nothing. *)
LEMMA ReconcileIsIdempotent ==
  ASSUME NEW cs \in Seq(Cert), NEW ks \in Seq(Key), NEW es \in Seq(Sound(cs, ks))
  PROVE  Reconcile(Reconcile(es, cs, ks), cs, ks) = Reconcile(es, cs, ks)
<1> DEFINE r == Reconcile(es, cs, ks)
<1>1. r \in Seq(Sound(cs, ks))
  BY ReconcileIsSound
<1>2. \A e \in ToSet(r) : Rechained(e, cs) = e
  <2> DEFINE new == ToSet(ks) \ {es[i].key : i \in DOMAIN es}
  <2>1. ToSet(r) = {Rechained(es[i], cs) : i \in DOMAIN es} \cup {KeyEntry(n, cs) : n \in new}
    BY ReconcileRange
  <2>2. \A i \in DOMAIN es : es[i] \in Entry
    BY DEF Sound
  <2>3. ToSet(ks) \subseteq Key
    BY RangeOf
  <2> HIDE DEF r
  <2> QED  BY <2>1, <2>2, <2>3, RechainedTwice
<1>3. \A k \in ToSet(ks) : \E e \in ToSet(r) : e.key = k
  BY ReconcileNamesKeys
<1> HIDE DEF r
<1>4. \A i \in DOMAIN r : Rechained(r[i], cs) = r[i]
  BY <1>2 DEF ToSet
<1>5. ToSet(ks) \subseteq {r[i].key : i \in DOMAIN r}
  BY <1>3 DEF ToSet
<1>6. Reconcile(r, cs, ks) = r
  BY <1>1, <1>4, <1>5, ReconcileFixed
<1> QED  BY <1>6 DEF r

(* References to objects that the store holds resolve to these objects. *)
LEMMA CanonicalIsIdentity ==
  ASSUME NEW cs \in Seq(Cert), NEW ks \in Seq(Key)
  PROVE  /\ \A ch \in Seq(Cert) : ToSet(ch) \subseteq ToSet(cs) => CanonicalChain(ch, cs) = ch
         /\ \A k \in ToSet(ks) \cup {NoKey} : CanonicalKey(k, ks) = k
<1>1. ASSUME NEW ch \in Seq(Cert), ToSet(ch) \subseteq ToSet(cs)
      PROVE  CanonicalChain(ch, cs) = ch
  <2>1. \A i \in DOMAIN ch : ch[i] \in ToSet(cs)
    BY <1>1 DEF ToSet
  <2>2. CanonicalChain(ch, cs) = [i \in DOMAIN ch |-> ch[i]]
    BY <2>1 DEF CanonicalChain
  <2> QED  BY <2>2
<1>2. \A k \in ToSet(ks) \cup {NoKey} : CanonicalKey(k, ks) = k
  BY DEF CanonicalKey
<1> QED  BY <1>1, <1>2

(* An entry of stored objects is its own canonical form: the merge of a store
   and AddEntry look every object up and find it. *)
LEMMA CanonicalEntry ==
  ASSUME NEW cs \in Seq(Cert), NEW ks \in Seq(Key), NEW e \in Sound(cs, ks)
  PROVE  [e EXCEPT !.key = CanonicalKey(@, ks), !.chain = CanonicalChain(@, cs)] = e
<1>1. /\ e \in Entry /\ e.chain \in Seq(Cert) /\ ToSet(e.chain) \subseteq ToSet(cs)
      /\ e.key \in ToSet(ks) \cup {NoKey}
  BY DEF Sound, Entry
<1>2. CanonicalKey(e.key, ks) = e.key /\ CanonicalChain(e.chain, cs) = e.chain
  BY <1>1, CanonicalIsIdentity
<1>3. [e EXCEPT !.key = e.key, !.chain = e.chain] = e
  BY <1>1 DEF Entry
<1> QED  BY <1>2, <1>3

-----------------------------------------------------------------------------
(* The slices of a store whose entries refer to objects of that store. *)
SoundStore(cs, ks, es, org) ==
  /\ cs \in Seq(Cert) /\ NoDuplicates(cs)
  /\ ks \in Seq(Key) /\ NoDuplicates(ks)
  /\ es \in Seq(Sound(cs, ks))
  /\ org \in [Cert -> Alias]

(* Appending nothing changes nothing. *)
LEMMA NothingAppended ==
  ASSUME NEW S, NEW s \in Seq(S)
  PROVE  AppendNew(s, << >>) = s
<1>1. Fresh(s, << >>) = {}
  BY DEF Fresh
<1>2. Pick(<< >>, {}) \in Seq(S) /\ Len(Pick(<< >>, {})) = 0
  BY PickProperties, FS_EmptySet
<1>3. Pick(<< >>, {}) = << >>
  BY <1>2
<1>4. AppendNew(s, << >>) = s \o << >>
  BY <1>1, <1>3 DEF AppendNew
<1> QED  BY <1>4, ConcatEmptySeq

(* In a store that grows, the old entries stay sound, and more sound entries
   may follow them. *)
LEMMA Grown ==
  ASSUME NEW cs, NEW ks, NEW es, NEW org, SoundStore(cs, ks, es, org),
         NEW ds \in Seq(Cert), NoDuplicates(ds), ToSet(cs) \subseteq ToSet(ds),
         NEW ls \in Seq(Key), NoDuplicates(ls), ToSet(ks) \subseteq ToSet(ls),
         NEW new \in Seq(Sound(ds, ls)), NEW src \in [Cert -> Alias]
  PROVE  SoundStore(ds, ls, es \o new, src)
<1>1. Sound(cs, ks) \subseteq Sound(ds, ls)
  BY SoundMonotonic
<1>2. es \in Seq(Sound(ds, ls))
  BY <1>1, SeqMonotonic DEF SoundStore
<1>3. es \o new \in Seq(Sound(ds, ls))
  BY <1>2, ConcatRange
<1> QED  BY <1>3 DEF SoundStore

(* AddKeyPair, AddTrustedCertificate and AddEntry append one entry for objects
   that they have just stored. *)
LEMMA EntryAppended ==
  ASSUME NEW cs, NEW ks, NEW es, NEW org, SoundStore(cs, ks, es, org),
         NEW ds \in Seq(Cert), NoDuplicates(ds), ToSet(cs) \subseteq ToSet(ds),
         NEW ls \in Seq(Key), NoDuplicates(ls), ToSet(ks) \subseteq ToSet(ls),
         NEW e \in Sound(ds, ls), NEW src \in [Cert -> Alias]
  PROVE  SoundStore(ds, ls, Append(es, e), src)
<1>1. <<e>> \in Seq(Sound(ds, ls))
  OBVIOUS
<1>2. SoundStore(ds, ls, es \o <<e>>, src)
  BY <1>1, Grown
<1>3. Append(es, e) = es \o <<e>>
  <2>1. es \in Seq(Sound(ds, ls))
    BY SoundMonotonic, SeqMonotonic DEF SoundStore
  <2> QED  BY <2>1, AppendIsConcat
<1> QED  BY <1>2, <1>3

(* A record of such slices is what an opener has to hand to Open. *)
LEMMA SoundIsOpened ==
  ASSUME NEW cs, NEW ks, NEW es, NEW org, SoundStore(cs, ks, es, org),
         NEW b \in BOOLEAN
  PROVE  IsOpened([certs |-> cs, keys |-> ks, entries |-> es, origin |-> org, failed |-> b])
<1> DEFINE f == [certs |-> cs, keys |-> ks, entries |-> es, origin |-> org, failed |-> b]
<1>1. es \in Seq(Entry)
  <2>1. Sound(cs, ks) \subseteq Entry
    BY DEF Sound
  <2> QED  BY <2>1, SeqMonotonic DEF SoundStore
<1>2. f \in [certs : Seq(Cert), keys : Seq(Key), entries : Seq(Entry),
             origin : [Cert -> Alias], failed : BOOLEAN]
  BY <1>1 DEF SoundStore
<1>3. \A i \in DOMAIN es : es[i] \in Sound(cs, ks)
  BY DEF SoundStore
<1>4. f.certs = cs /\ f.keys = ks /\ f.entries = es
  OBVIOUS
<1> HIDE DEF f
<1>5. IsOpened(f)
  BY <1>2, <1>3, <1>4 DEF IsOpened, SoundStore, Sound
<1> QED  BY <1>5 DEF f
=============================================================================
