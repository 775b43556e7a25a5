---------------------------- MODULE StoreProofs ----------------------------
(***************************************************************************)
(* The store keeps its references, whatever the constants: every entry     *)
(* refers to certificates and a key that the store holds, no object is     *)
(* stored twice, and the calls that re-match leave nothing to re-match.    *)
(***************************************************************************)
EXTENDS Store, ObjectProofs

-----------------------------------------------------------------------------
(* The stores that Open returns. *)
IsSoundStore(s) ==
  /\ s.certs \in Seq(Cert) /\ NoDuplicates(s.certs)
  /\ s.keys \in Seq(Key) /\ NoDuplicates(s.keys)
  /\ s.entries \in Seq(Sound(s.certs, s.keys))
  /\ s.origin \in [Cert -> Alias]

(* The entries that an opener makes refer to objects of its store. *)
LEMMA FileEntries ==
  ASSUME NEW f \in Files
  PROVE  f.entries \in Seq(Sound(f.certs, f.keys)) /\ f.certs \in Seq(Cert) /\ f.keys \in Seq(Key)
<1>1. IsOpened(f)
  BY OpenedFiles
<1>2. f \in [certs : Seq(Cert), keys : Seq(Key), entries : Seq(Entry),
             origin : [Cert -> Alias], failed : BOOLEAN]
  BY <1>1 DEF IsOpened
<1>3. DOMAIN f.entries = 1 .. Len(f.entries) /\ Len(f.entries) \in Nat
  BY <1>2, RangeOf
<1>4. \A i \in DOMAIN f.entries : f.entries[i] \in Sound(f.certs, f.keys)
  BY <1>1, <1>2 DEF IsOpened, Sound
<1> QED  BY <1>2, <1>3, <1>4

(* Open returns stores whose entries refer to objects of that store. *)
LEMMA LibraryIsSound == \A s \in Library : IsSoundStore(s)
<1> SUFFICES ASSUME NEW f \in Files  PROVE IsSoundStore(Opened(f))
  BY DEF Library
<1> DEFINE es == Reconcile(f.entries, f.certs, f.keys)
<1>1. IsOpened(f)
  BY OpenedFiles
<1>2. f \in [certs : Seq(Cert), keys : Seq(Key), entries : Seq(Entry),
             origin : [Cert -> Alias], failed : BOOLEAN]
  BY <1>1 DEF IsOpened
<1>3. f.entries \in Seq(Sound(f.certs, f.keys))
  BY FileEntries
<1>4. es \in Seq(Sound(f.certs, f.keys))
  BY <1>2, <1>3, ReconcileIsSound
<1>5. Opened(f) = [f EXCEPT !.entries = es]
  BY DEF Opened
<1> HIDE DEF es
<1>6. /\ Opened(f).certs = f.certs /\ Opened(f).keys = f.keys
      /\ Opened(f).entries = es /\ Opened(f).origin = f.origin
  BY <1>2, <1>5
<1> QED  BY <1>1, <1>2, <1>4, <1>6 DEF IsSoundStore, IsOpened

(* OpenEntry returns an entry that refers to the certificates of the one store
   and the key of the other. *)
LEMMA OpenEntryIsSound ==
  ASSUME NEW cs \in Library, NEW ks \in Library, NEW e \in OpenEntry(cs, ks)
  PROVE  e \in Sound(cs.certs, ks.keys)
<1> DEFINE k == ks.keys[1]
           M == {i \in DOMAIN cs.certs : Matches(k, cs.certs[i])}
           ch == MatchedChain(k, cs.certs)
           a == DefaultAlias[cs.certs[Min(M)]]
<1>1. IsSoundStore(cs) /\ IsSoundStore(ks)
  BY LibraryIsSound
<1>2. /\ Len(ks.keys) = 1 /\ M # {}
      /\ e = [alias |-> a, key |-> k, status |-> "available", chain |-> ch, trusted |-> FALSE]
  BY DEF OpenEntry
<1>3. k \in ToSet(ks.keys) /\ k \in Key /\ k # NoKey
  <2>1. ks.keys \in Seq(Key) /\ ks.keys # << >>
    BY <1>1, <1>2 DEF IsSoundStore
  <2> QED  BY <2>1, HeadInRange, RangeOf, Sentinels
<1>4. ch \in Seq(Cert) /\ ToSet(ch) \subseteq ToSet(cs.certs)
  BY <1>1, MatchedChainProperties DEF IsSoundStore
<1>5. a \in Alias
  <2>1. M \in SUBSET Nat
    BY <1>1, RangeOf DEF IsSoundStore
  <2>2. \E x \in M : \A y \in M : x <= y
    BY <1>2, <2>1, LeastNatural
  <2>3. Min(M) \in M
    BY <2>2 DEF Min
  <2>4. cs.certs[Min(M)] \in Cert
    <3>1. Min(M) \in DOMAIN cs.certs
      BY <2>3
    <3> HIDE DEF M
    <3> QED  BY <1>1, <3>1 DEF IsSoundStore
  <2> QED  BY <2>4, AliasFunctions
<1> HIDE DEF k, M, ch, a
<1>6. e \in Entry
  BY <1>2, <1>3, <1>4, <1>5 DEF Entry, Statuses
<1>7. e.chain = ch /\ e.key = k /\ e.status = "available"
  BY <1>2
<1> QED  BY <1>3, <1>4, <1>6, <1>7 DEF Sound

-----------------------------------------------------------------------------
(* The inductive invariant is the conjunction of the invariants that speak of
   references.  None of them is inductive alone: a call finds the objects to
   re-match and to remove by following the references of the others. *)
References == TypeOK /\ ObjectsAreUnique /\ ChainsResolve /\ KeysResolve

(* The same as facts about each slice: the form in which the steps use it. *)
LEMMA ReferencesEquivalent == References <=> SoundStore(certs, keys, entries, origin)
<1>1. ASSUME References  PROVE SoundStore(certs, keys, entries, origin)
  <2>1. entries \in Seq(Entry)
    BY <1>1 DEF References, TypeOK
  <2>2. DOMAIN entries = 1 .. Len(entries) /\ Len(entries) \in Nat
    BY <2>1, RangeOf
  <2>3. \A i \in DOMAIN entries : entries[i] \in Sound(certs, keys)
    BY <1>1, <2>1 DEF References, ChainsResolve, KeysResolve, Sound
  <2>4. entries \in Seq(Sound(certs, keys))
    BY <2>1, <2>2, <2>3
  <2> QED  BY <1>1, <2>4 DEF References, TypeOK, ObjectsAreUnique, SoundStore
<1>2. ASSUME SoundStore(certs, keys, entries, origin)  PROVE References
  <2>1. entries \in Seq(Sound(certs, keys))
    BY <1>2 DEF SoundStore
  <2>2. Sound(certs, keys) \subseteq Entry
    BY DEF Sound
  <2>3. entries \in Seq(Entry)
    BY <2>1, <2>2, SeqMonotonic
  <2>4. \A i \in DOMAIN entries : entries[i] \in Sound(certs, keys)
    BY <2>1
  <2>5. ChainsResolve /\ KeysResolve
    BY <2>4 DEF ChainsResolve, KeysResolve, Sound
  <2> QED  BY <1>2, <2>3, <2>5 DEF References, TypeOK, ObjectsAreUnique, SoundStore
<1> QED  BY <1>1, <1>2

(* NewStore returns a sound store. *)
LEMMA InitSound == Init => SoundStore(certs, keys, entries, origin)
<1> SUFFICES ASSUME Init  PROVE SoundStore(certs, keys, entries, origin)
  OBVIOUS
<1>1. certs = << >> /\ keys = << >> /\ entries = << >>
  BY DEF Init
<1>2. NoDuplicates(<< >>)
  BY DEF NoDuplicates
<1>3. origin \in [Cert -> Alias]
  BY AliasFunctions DEF Init
<1> QED  BY <1>1, <1>2, <1>3 DEF SoundStore

(* What the calls that add objects do to the two object slices. *)
LEMMA Appended ==
  ASSUME SoundStore(certs, keys, entries, origin),
         NEW cs \in Seq(Cert), NEW ks \in Seq(Key),
         NEW ds, ds = AppendNew(certs, cs), NEW ls, ls = AppendNew(keys, ks)
  PROVE  /\ ds \in Seq(Cert) /\ NoDuplicates(ds)
         /\ ToSet(certs) \subseteq ToSet(ds) /\ ToSet(cs) \subseteq ToSet(ds)
         /\ ls \in Seq(Key) /\ NoDuplicates(ls)
         /\ ToSet(keys) \subseteq ToSet(ls) /\ ToSet(ks) \subseteq ToSet(ls)
<1>1. certs \in Seq(Cert) /\ NoDuplicates(certs) /\ keys \in Seq(Key) /\ NoDuplicates(keys)
  BY DEF SoundStore
<1>2. /\ AppendNew(certs, cs) \in Seq(Cert) /\ NoDuplicates(AppendNew(certs, cs))
      /\ ToSet(AppendNew(certs, cs)) = ToSet(certs) \cup ToSet(cs)
  BY <1>1, AppendNewProperties
<1>3. /\ AppendNew(keys, ks) \in Seq(Key) /\ NoDuplicates(AppendNew(keys, ks))
      /\ ToSet(AppendNew(keys, ks)) = ToSet(keys) \cup ToSet(ks)
  BY <1>1, AppendNewProperties
<1> QED  BY <1>2, <1>3

(* AddCertificate preserves the inductive invariant. *)
LEMMA AddCertificateSound ==
  ASSUME SoundStore(certs, keys, entries, origin), NEW c \in Cert, AddCertificate(c)
  PROVE  SoundStore(certs, keys, entries, origin)'
<1>1. <<c>> \in Seq(Cert)
  OBVIOUS
<1>2. certs' \in Seq(Cert) /\ NoDuplicates(certs') /\ ToSet(certs) \subseteq ToSet(certs')
  <2>1. certs \in Seq(Cert) /\ NoDuplicates(certs)
    BY DEF SoundStore
  <2>2. certs' = AppendNew(certs, <<c>>)
    BY DEF AddCertificate
  <2>3. /\ AppendNew(certs, <<c>>) \in Seq(Cert)
        /\ ToSet(AppendNew(certs, <<c>>)) = ToSet(certs) \cup ToSet(<<c>>)
        /\ NoDuplicates(AppendNew(certs, <<c>>))
    BY <1>1, <2>1, AppendNewProperties
  <2> QED  BY <2>2, <2>3
<1>3. Sound(certs, keys) \subseteq Sound(certs', keys)
  BY <1>2, SoundMonotonic
<1>4. entries \in Seq(Sound(certs', keys)) /\ keys \in Seq(Key)
  BY <1>3, SeqMonotonic DEF SoundStore
<1>5. entries' \in Seq(Sound(certs', keys))
  BY <1>2, <1>4, ReconcileIsSound DEF AddCertificate
<1> QED  BY <1>2, <1>5 DEF AddCertificate, SoundStore

(* AddPrivateKey preserves the inductive invariant. *)
LEMMA AddPrivateKeySound ==
  ASSUME SoundStore(certs, keys, entries, origin), NEW k \in Key, AddPrivateKey(k)
  PROVE  SoundStore(certs, keys, entries, origin)'
<1>1. <<k>> \in Seq(Key)
  OBVIOUS
<1>2. keys' \in Seq(Key) /\ NoDuplicates(keys') /\ ToSet(keys) \subseteq ToSet(keys')
  <2>1. keys \in Seq(Key) /\ NoDuplicates(keys)
    BY DEF SoundStore
  <2>2. keys' = AppendNew(keys, <<k>>)
    BY DEF AddPrivateKey
  <2>3. /\ AppendNew(keys, <<k>>) \in Seq(Key)
        /\ ToSet(AppendNew(keys, <<k>>)) = ToSet(keys) \cup ToSet(<<k>>)
        /\ NoDuplicates(AppendNew(keys, <<k>>))
    BY <1>1, <2>1, AppendNewProperties
  <2> QED  BY <2>2, <2>3
<1>3. Sound(certs, keys) \subseteq Sound(certs, keys')
  BY <1>2, SoundMonotonic
<1>4. entries \in Seq(Sound(certs, keys')) /\ certs \in Seq(Cert)
  BY <1>3, SeqMonotonic DEF SoundStore
<1>5. entries' \in Seq(Sound(certs, keys'))
  BY <1>2, <1>4, ReconcileIsSound DEF AddPrivateKey
<1> QED  BY <1>2, <1>5 DEF AddPrivateKey, SoundStore

(* AddKeyPair preserves the inductive invariant. *)
LEMMA AddKeyPairSound ==
  ASSUME SoundStore(certs, keys, entries, origin),
         NEW a \in Alias, NEW k \in Key, NEW ch \in Seq(Cert), AddKeyPair(a, k, ch)
  PROVE  SoundStore(certs, keys, entries, origin)'
<1> DEFINE e == [alias |-> Trim[a], key |-> k, status |-> "available",
                 chain |-> ch, trusted |-> FALSE]
<1>1. <<k>> \in Seq(Key) /\ ToSet(<<k>>) = {k}
  BY DEF ToSet
<1>2. certs' = AppendNew(certs, ch) /\ keys' = AppendNew(keys, <<k>>)
  BY DEF AddKeyPair
<1>3. /\ certs' \in Seq(Cert) /\ NoDuplicates(certs')
      /\ ToSet(certs) \subseteq ToSet(certs') /\ ToSet(ch) \subseteq ToSet(certs')
      /\ keys' \in Seq(Key) /\ NoDuplicates(keys')
      /\ ToSet(keys) \subseteq ToSet(keys') /\ k \in ToSet(keys')
  <2>1. /\ certs \in Seq(Cert) /\ NoDuplicates(certs)
        /\ keys \in Seq(Key) /\ NoDuplicates(keys)
    BY DEF SoundStore
  <2>2. /\ AppendNew(certs, ch) \in Seq(Cert) /\ NoDuplicates(AppendNew(certs, ch))
        /\ ToSet(AppendNew(certs, ch)) = ToSet(certs) \cup ToSet(ch)
    BY <2>1, AppendNewProperties
  <2> DEFINE t == <<k>>
  <2>3. /\ AppendNew(keys, t) \in Seq(Key) /\ NoDuplicates(AppendNew(keys, t))
        /\ ToSet(AppendNew(keys, t)) = ToSet(keys) \cup ToSet(t)
    <3>1. t \in Seq(Key)
      BY <1>1
    <3> HIDE DEF t
    <3> QED  BY <2>1, <3>1, AppendNewProperties
  <2> QED  BY <1>1, <1>2, <2>2, <2>3
<1>4. CanonicalKey(k, keys') = k /\ CanonicalChain(ch, certs') = ch
  BY <1>3, CanonicalIsIdentity
<1>5. e \in Sound(certs', keys')
  <2>1. k # NoKey
    BY Sentinels
  <2>2. e \in Entry
    BY AliasFunctions DEF Entry, Statuses
  <2> QED  BY <1>3, <2>1, <2>2 DEF Sound
<1>6. entries' = Append(entries, e) /\ origin' = origin
  BY <1>4 DEF AddKeyPair
<1>7. origin \in [Cert -> Alias]
  BY DEF SoundStore
<1> HIDE DEF e
<1> QED  BY <1>3, <1>5, <1>6, <1>7, EntryAppended

(* AddTrustedCertificate preserves the inductive invariant. *)
LEMMA AddTrustedCertificateSound ==
  ASSUME SoundStore(certs, keys, entries, origin),
         NEW a \in Alias, NEW c \in Cert, AddTrustedCertificate(a, c)
  PROVE  SoundStore(certs, keys, entries, origin)'
<1> DEFINE e == [alias |-> Trim[a], key |-> NoKey, status |-> "none",
                 chain |-> <<c>>, trusted |-> TRUE]
<1>1. <<c>> \in Seq(Cert) /\ << >> \in Seq(Key)
  OBVIOUS
<1>2. certs' = AppendNew(certs, <<c>>) /\ keys' = AppendNew(keys, << >>)
  BY NothingAppended DEF AddTrustedCertificate, SoundStore
<1>3. /\ certs' \in Seq(Cert) /\ NoDuplicates(certs')
      /\ ToSet(certs) \subseteq ToSet(certs') /\ ToSet(<<c>>) \subseteq ToSet(certs')
      /\ keys' \in Seq(Key) /\ NoDuplicates(keys') /\ ToSet(keys) \subseteq ToSet(keys')
  BY <1>1, <1>2, Appended
<1>4. CanonicalChain(<<c>>, certs') = <<c>>
  BY <1>1, <1>3, CanonicalIsIdentity
<1>5. e \in Sound(certs', keys')
  <2>1. e \in Entry
    BY <1>1, AliasFunctions DEF Entry, Statuses
  <2> QED  BY <1>3, <2>1 DEF Sound
<1>6. entries' = Append(entries, e) /\ origin' = origin
  BY <1>4 DEF AddTrustedCertificate
<1>7. origin \in [Cert -> Alias]
  BY DEF SoundStore
<1> HIDE DEF e
<1> QED  BY <1>3, <1>5, <1>6, <1>7, EntryAppended

(* Source aliases stay aliases when certificates of a file are added. *)
LEMMA OriginTyped ==
  ASSUME origin \in [Cert -> Alias], NEW source \in [Cert -> Alias], NEW ch
  PROVE  OriginWith(ch, source) \in [Cert -> Alias]
BY DEF OriginWith

(* AddEntry preserves the inductive invariant, for an entry of any objects
   that are sound among themselves. *)
LEMMA AddEntrySound ==
  ASSUME SoundStore(certs, keys, entries, origin),
         NEW cs, NEW ks, NEW e \in Sound(cs, ks),
         NEW source \in [Cert -> Alias], AddEntry(e, source)
  PROVE  SoundStore(certs, keys, entries, origin)'
<1> DEFINE new == IF e.key = NoKey THEN << >> ELSE <<e.key>>
<1>1. /\ e \in Entry /\ e.chain \in Seq(Cert) /\ e.key \in Key \cup {NoKey}
      /\ e.status = "available" <=> e.key # NoKey
  BY DEF Sound, Entry
<1>2. new \in Seq(Key) /\ ToSet(new) = {e.key} \ {NoKey}
  BY <1>1 DEF ToSet
<1>3. certs' = AppendNew(certs, e.chain) /\ keys' = AppendNew(keys, new)
  BY NothingAppended DEF AddEntry, SoundStore
<1> HIDE DEF new
<1>4. /\ certs' \in Seq(Cert) /\ NoDuplicates(certs')
      /\ ToSet(certs) \subseteq ToSet(certs') /\ ToSet(e.chain) \subseteq ToSet(certs')
      /\ keys' \in Seq(Key) /\ NoDuplicates(keys')
      /\ ToSet(keys) \subseteq ToSet(keys') /\ e.key \in ToSet(keys') \cup {NoKey}
  BY <1>1, <1>2, <1>3, Appended
<1>5. e \in Sound(certs', keys')
  BY <1>1, <1>4 DEF Sound
<1>6. entries' = Append(entries, e)
  BY <1>4, <1>5, CanonicalEntry DEF AddEntry
<1>7. origin' \in [Cert -> Alias]
  BY OriginTyped DEF AddEntry, SoundStore
<1> QED  BY <1>4, <1>5, <1>6, <1>7, EntryAppended

(* A merge finds every object that the entries of the other store refer to, so
   that it appends these entries as they are. *)
LEMMA Merged ==
  ASSUME SoundStore(certs, keys, entries, origin), NEW other, IsSoundStore(other), Add(other)
  PROVE  /\ certs' \in Seq(Cert) /\ NoDuplicates(certs') /\ ToSet(certs) \subseteq ToSet(certs')
         /\ keys' \in Seq(Key) /\ NoDuplicates(keys') /\ ToSet(keys) \subseteq ToSet(keys')
         /\ ToSet(keys') = ToSet(keys) \cup ToSet(other.keys)
         /\ other.entries \in Seq(Sound(certs', keys'))
         /\ entries' = entries \o other.entries
<1>1. /\ other.certs \in Seq(Cert) /\ other.keys \in Seq(Key)
      /\ other.entries \in Seq(Sound(other.certs, other.keys))
      /\ other.origin \in [Cert -> Alias]
  BY DEF IsSoundStore
<1>2. certs' = AppendNew(certs, other.certs) /\ keys' = AppendNew(keys, other.keys)
  BY DEF Add
<1>3. /\ certs' \in Seq(Cert) /\ NoDuplicates(certs')
      /\ ToSet(certs) \subseteq ToSet(certs') /\ ToSet(other.certs) \subseteq ToSet(certs')
      /\ keys' \in Seq(Key) /\ NoDuplicates(keys')
      /\ ToSet(keys) \subseteq ToSet(keys') /\ ToSet(other.keys) \subseteq ToSet(keys')
  BY <1>1, <1>2, Appended
<1>4. other.entries \in Seq(Sound(certs', keys'))
  BY <1>1, <1>3, SoundMonotonic, SeqMonotonic
<1>5. \A i \in DOMAIN other.entries :
         [other.entries[i] EXCEPT !.key = CanonicalKey(@, keys'),
                                  !.chain = CanonicalChain(@, certs')] = other.entries[i]
  <2> SUFFICES ASSUME NEW i \in DOMAIN other.entries
               PROVE  [other.entries[i] EXCEPT !.key = CanonicalKey(@, keys'),
                                               !.chain = CanonicalChain(@, certs')]
                         = other.entries[i]
    OBVIOUS
  <2>1. other.entries[i] \in Sound(certs', keys')
    BY <1>4
  <2> QED  BY <1>3, <2>1, CanonicalEntry
<1>6. [i \in DOMAIN other.entries |->
          [other.entries[i] EXCEPT !.key = CanonicalKey(@, keys'),
                                   !.chain = CanonicalChain(@, certs')]] = other.entries
  <2>1. other.entries = [i \in DOMAIN other.entries |-> other.entries[i]]
    BY <1>4
  <2> QED  BY <1>5, <2>1, Zenon
<1>7. entries' = entries \o other.entries
  BY <1>6 DEF Add
<1>8. ToSet(keys') = ToSet(keys) \cup ToSet(other.keys)
  BY <1>1, <1>2, AppendNewRange DEF SoundStore
<1> QED  BY <1>3, <1>4, <1>7, <1>8

(* Merging a sound store preserves the inductive invariant. *)
LEMMA AddSound ==
  ASSUME SoundStore(certs, keys, entries, origin), NEW other, IsSoundStore(other), Add(other)
  PROVE  SoundStore(certs, keys, entries, origin)'
<1>1. other.origin \in [Cert -> Alias]
  BY DEF IsSoundStore
<1>2. origin' \in [Cert -> Alias]
  BY <1>1, OriginTyped DEF Add, SoundStore
<1>3. /\ certs' \in Seq(Cert) /\ NoDuplicates(certs') /\ ToSet(certs) \subseteq ToSet(certs')
      /\ keys' \in Seq(Key) /\ NoDuplicates(keys') /\ ToSet(keys) \subseteq ToSet(keys')
      /\ other.entries \in Seq(Sound(certs', keys')) /\ entries' = entries \o other.entries
  BY Merged
<1> QED  BY <1>2, <1>3, Grown

(* RemoveCertificate preserves the inductive invariant: it takes the only
   occurrence of the certificate, and every reference to it. *)
LEMMA RemoveCertificateSound ==
  ASSUME SoundStore(certs, keys, entries, origin), NEW c \in Cert, RemoveCertificate(c)
  PROVE  SoundStore(certs, keys, entries, origin)'
<1> DEFINE wanted == (Cert \cup {NoCert}) \ {c}
           pruned(e) == [e EXCEPT !.chain = Keep(@, wanted)]
<1>1. /\ certs \in Seq(Cert) /\ NoDuplicates(certs) /\ c \in ToSet(certs)
      /\ certs' = RemoveAt(certs, IndexOf(certs, c))
  BY DEF SoundStore, RemoveCertificate
<1>2. certs' \in Seq(Cert) /\ NoDuplicates(certs') /\ ToSet(certs') = ToSet(certs) \ {c}
  BY <1>1, RemoveElement
<1>3. ASSUME NEW e \in Sound(certs, keys)  PROVE pruned(e) \in Sound(certs', keys)
  <2> DEFINE ch == Keep(e.chain, wanted)
  <2>1. /\ e \in Entry /\ e.chain \in Seq(Cert) /\ ToSet(e.chain) \subseteq ToSet(certs)
        /\ e.key \in ToSet(keys) \cup {NoKey}
        /\ e.status = "available" <=> e.key # NoKey
    BY DEF Sound, Entry
  <2>2. ch \in Seq(Cert) /\ ToSet(ch) = ToSet(e.chain) \cap wanted
    BY <2>1, KeepProperties
  <2>3. ToSet(ch) \subseteq ToSet(certs')
    BY <1>2, <2>1, <2>2
  <2> HIDE DEF ch
  <2>4. /\ [e EXCEPT !.chain = ch] \in Entry /\ [e EXCEPT !.chain = ch].chain = ch
        /\ [e EXCEPT !.chain = ch].key = e.key /\ [e EXCEPT !.chain = ch].status = e.status
    BY <2>1, <2>2 DEF Entry
  <2>5. [e EXCEPT !.chain = ch] \in Sound(certs', keys)
    BY <2>1, <2>3, <2>4 DEF Sound
  <2> QED  BY <2>5 DEF ch
<1>4. entries' = [i \in DOMAIN entries |-> pruned(entries[i])]
  BY DEF RemoveCertificate
<1>5. entries \in Seq(Sound(certs, keys))
  BY DEF SoundStore
<1> HIDE DEF pruned
<1>6. entries' \in Seq(Sound(certs', keys))
  <2>1. DOMAIN entries = 1 .. Len(entries) /\ Len(entries) \in Nat
    BY <1>5, RangeOf
  <2>2. \A i \in DOMAIN entries : pruned(entries[i]) \in Sound(certs', keys)
    BY <1>3, <1>5
  <2> QED  BY <1>4, <2>1, <2>2
<1>7. keys' = keys /\ origin' \in [Cert -> Alias]
  BY AliasFunctions DEF RemoveCertificate, SoundStore
<1> QED  BY <1>2, <1>6, <1>7 DEF SoundStore

(* RemovePrivateKey preserves the inductive invariant: it takes the only
   occurrence of the key, and frees every entry of it. *)
LEMMA RemovePrivateKeySound ==
  ASSUME SoundStore(certs, keys, entries, origin), NEW k \in Key, RemovePrivateKey(k)
  PROVE  SoundStore(certs, keys, entries, origin)'
<1> DEFINE freed(e) == IF e.key = k
                       THEN [e EXCEPT !.key = NoKey, !.status = "unavailable"]
                       ELSE e
<1>1. /\ keys \in Seq(Key) /\ NoDuplicates(keys) /\ k \in ToSet(keys)
      /\ keys' = RemoveAt(keys, IndexOf(keys, k))
  BY DEF SoundStore, RemovePrivateKey
<1>2. keys' \in Seq(Key) /\ NoDuplicates(keys') /\ ToSet(keys') = ToSet(keys) \ {k}
  BY <1>1, RemoveElement
<1>3. ASSUME NEW e \in Sound(certs, keys)  PROVE freed(e) \in Sound(certs, keys')
  <2>1. /\ e \in Entry /\ ToSet(e.chain) \subseteq ToSet(certs)
        /\ e.key \in ToSet(keys) \cup {NoKey}
        /\ e.status = "available" <=> e.key # NoKey
    BY DEF Sound
  <2>2. CASE e.key = k
    <3> DEFINE f == [e EXCEPT !.key = NoKey, !.status = "unavailable"]
    <3>1. f \in Entry /\ f.chain = e.chain /\ f.key = NoKey /\ f.status = "unavailable"
      BY <2>1 DEF Entry, Statuses
    <3> HIDE DEF f
    <3>2. f \in Sound(certs, keys')
      BY <2>1, <3>1 DEF Sound
    <3> QED  BY <2>2, <3>2 DEF f
  <2>3. CASE e.key # k
    BY <1>2, <2>1, <2>3 DEF Sound
  <2> QED  BY <2>2, <2>3
<1>4. entries' = [i \in DOMAIN entries |-> freed(entries[i])]
  BY DEF RemovePrivateKey
<1>5. entries \in Seq(Sound(certs, keys))
  BY DEF SoundStore
<1> HIDE DEF freed
<1>6. entries' \in Seq(Sound(certs, keys'))
  <2>1. DOMAIN entries = 1 .. Len(entries) /\ Len(entries) \in Nat
    BY <1>5, RangeOf
  <2>2. \A i \in DOMAIN entries : freed(entries[i]) \in Sound(certs, keys')
    BY <1>3, <1>5
  <2> QED  BY <1>4, <2>1, <2>2
<1>7. certs' = certs /\ origin' = origin
  BY DEF RemovePrivateKey
<1> QED  BY <1>2, <1>6, <1>7 DEF SoundStore

(* RemoveEntry preserves the inductive invariant. *)
LEMMA RemoveEntrySound ==
  ASSUME SoundStore(certs, keys, entries, origin), NEW a, RemoveEntry(a)
  PROVE  SoundStore(certs, keys, entries, origin)'
<1>1. PICK i \in DOMAIN entries :
         entries' = RemoveAt(entries, i) /\ UNCHANGED <<certs, keys, origin>>
  BY DEF RemoveEntry
<1>2. entries \in Seq(Sound(certs, keys))
  BY DEF SoundStore
<1>3. entries' \in Seq(Sound(certs, keys))
  BY <1>1, <1>2, RemoveAtProperties
<1> QED  BY <1>1, <1>3 DEF SoundStore

(* Every step preserves the inductive invariant. *)
LEMMA NextSound ==
  ASSUME SoundStore(certs, keys, entries, origin), [Next]_vars
  PROVE  SoundStore(certs, keys, entries, origin)'
<1>1. ASSUME NEW c \in Cert, AddCertificate(c)
      PROVE  SoundStore(certs, keys, entries, origin)'
  BY <1>1, AddCertificateSound
<1>2. ASSUME NEW k \in CallerKeys, AddPrivateKey(k)
      PROVE  SoundStore(certs, keys, entries, origin)'
  BY <1>2, CallerInputs, AddPrivateKeySound
<1>3. ASSUME NEW a \in CallerAliases, NEW k \in CallerKeys, NEW ch \in CallerChains,
             AddKeyPair(a, k, ch)
      PROVE  SoundStore(certs, keys, entries, origin)'
  BY <1>3, CallerInputs, AddKeyPairSound
<1>4. ASSUME NEW a \in CallerAliases, NEW c \in Cert, AddTrustedCertificate(a, c)
      PROVE  SoundStore(certs, keys, entries, origin)'
  BY <1>4, CallerInputs, AddTrustedCertificateSound
<1>5. ASSUME NEW s \in Library, NEW i \in DOMAIN s.entries, AddEntry(s.entries[i], s.origin)
      PROVE  SoundStore(certs, keys, entries, origin)'
  <2>1. s.entries \in Seq(Sound(s.certs, s.keys)) /\ s.origin \in [Cert -> Alias]
    BY LibraryIsSound DEF IsSoundStore
  <2>2. s.entries[i] \in Sound(s.certs, s.keys)
    BY <2>1
  <2> QED  BY <1>5, <2>1, <2>2, AddEntrySound
<1>6. ASSUME NEW cs \in Library, NEW ks \in Library, NEW e \in OpenEntry(cs, ks),
             AddEntry(e, cs.origin)
      PROVE  SoundStore(certs, keys, entries, origin)'
  <2>1. e \in Sound(cs.certs, ks.keys) /\ cs.origin \in [Cert -> Alias]
    BY LibraryIsSound, OpenEntryIsSound DEF IsSoundStore
  <2> QED  BY <1>6, <2>1, AddEntrySound
<1>7. ASSUME NEW s \in Library, Add(s)
      PROVE  SoundStore(certs, keys, entries, origin)'
  BY <1>7, LibraryIsSound, AddSound
<1>8. ASSUME NEW c \in Cert, RemoveCertificate(c)
      PROVE  SoundStore(certs, keys, entries, origin)'
  BY <1>8, RemoveCertificateSound
<1>9. ASSUME NEW k \in Key, RemovePrivateKey(k)
      PROVE  SoundStore(certs, keys, entries, origin)'
  BY <1>9, RemovePrivateKeySound
<1>10. ASSUME NEW a \in Alias, RemoveEntry(a)
       PROVE  SoundStore(certs, keys, entries, origin)'
  BY <1>10, RemoveEntrySound
<1>11. CASE UNCHANGED vars
  BY <1>11 DEF SoundStore, vars
<1> QED
  BY <1>1, <1>2, <1>3, <1>4, <1>5, <1>6, <1>7, <1>8, <1>9, <1>10, <1>11 DEF Next

(* References is an inductive invariant of the store. *)
LEMMA ReferencesInductive ==
  /\ Init => References
  /\ References /\ [Next]_vars => References'
<1>1. Init => References
  BY InitSound, ReferencesEquivalent
<1>2. ASSUME References, [Next]_vars  PROVE References'
  <2>1. SoundStore(certs, keys, entries, origin)'
    BY <1>2, ReferencesEquivalent, NextSound
  <2>2. References' <=> SoundStore(certs, keys, entries, origin)'
    BY ReferencesEquivalent, PTL
  <2> QED  BY <2>1, <2>2
<1> QED  BY <1>1, <1>2

-----------------------------------------------------------------------------
(* Every reachable store is well-formed and its references resolve. *)
THEOREM StoreReferences == Spec => []References
BY ReferencesInductive, PTL DEF Spec

(* No call stores nil, and every slice has the type model.go declares. *)
THEOREM StoreTypeOK == Spec => []TypeOK
BY StoreReferences, PTL DEF References

(* No certificate and no private key is ever stored twice, so that the Remove
   calls, which stop at the first hit, remove an object entirely. *)
THEOREM StoreObjectsAreUnique == Spec => []ObjectsAreUnique
BY StoreReferences, PTL DEF References

(* RemoveCertificate, the merges and the re-matching leave no entry whose
   chain refers to a certificate that the store does not hold. *)
THEOREM StoreChainsResolve == Spec => []ChainsResolve
BY StoreReferences, PTL DEF References

(* RemovePrivateKey reaches every entry of the key, and an entry claims to be
   available exactly while it has a key of the store. *)
THEOREM StoreKeysResolve == Spec => []KeysResolve
BY StoreReferences, PTL DEF References

-----------------------------------------------------------------------------
(* What Reconciled asks of an entry of a store with the certificates cs. *)
Settles(e, cs) ==
  e.key # NoKey =>
    IF e.chain = << >> THEN \A c \in ToSet(cs) : ~Matches(e.key, c)
    ELSE /\ Linked(e.chain)
         /\ CannotExtend(e.chain, cs)

(* buildCertificateChain returns a chain in issuing order that cannot go on. *)
LEMMA ChainIsLinked ==
  ASSUME NEW cs \in Seq(Cert), NEW leaf \in Cert
  PROVE  /\ Linked(BuildChain(leaf, cs)) /\ CannotExtend(BuildChain(leaf, cs), cs)
         /\ BuildChain(leaf, cs) # << >>
<1> DEFINE p == BuildChain(leaf, cs)
<1>1. IsChain(p, leaf, cs)
  BY BuildChainReturnsChain
<1> HIDE DEF p
<1>2. \A i \in 1 .. (Len(p) - 1) : ~IsRoot(p[i]) /\ IsParent(p[i], p[i + 1])
  BY <1>1 DEF IsChain, TakesFirst, LinkedList
<1>3. Linked(p) /\ CannotExtend(p, cs) /\ p # << >>
  BY <1>1, <1>2 DEF IsChain, Linked
<1> QED  BY <1>3 DEF p

(* The chain that matching finds for an entry satisfies Settles. *)
LEMMA MatchedSettles ==
  ASSUME NEW cs \in Seq(Cert), NEW e, e.chain = MatchedChain(e.key, cs)
  PROVE  Settles(e, cs)
<1>1. CASE e.chain = << >>
  BY <1>1, MatchedChainProperties DEF Settles
<1>2. CASE e.chain # << >>
  <2>1. PICK leaf \in Cert : e.chain = BuildChain(leaf, cs)
    BY <1>2, MatchedChainProperties
  <2> QED  BY <1>2, <2>1, ChainIsLinked DEF Settles
<1> QED  BY <1>1, <1>2

(* The chain that reconcileEntries leaves in an entry satisfies Settles. *)
LEMMA RechainedSettles ==
  ASSUME NEW cs \in Seq(Cert), NEW ks \in Seq(Key), NEW e \in Sound(cs, ks)
  PROVE  Settles(Rechained(e, cs), cs)
<1>1. e \in Entry /\ e.chain \in Seq(Cert)
  BY DEF Sound, Entry
<1>2. CASE e.key = NoKey
  BY <1>2 DEF Rechained, Settles
<1>3. CASE e.key # NoKey /\ e.chain = << >>
  <2>1. Rechained(e, cs) = [e EXCEPT !.chain = MatchedChain(e.key, cs)]
    BY <1>3 DEF Rechained
  <2>2. Rechained(e, cs).key = e.key /\ Rechained(e, cs).chain = MatchedChain(e.key, cs)
    BY <1>1, <2>1 DEF Entry
  <2> QED  BY <2>2, MatchedSettles
<1>4. CASE e.key # NoKey /\ e.chain # << >>
  <2>1. Rechained(e, cs) = [e EXCEPT !.chain = BuildChain(e.chain[1], cs)]
    BY <1>4 DEF Rechained
  <2>2. Rechained(e, cs).chain = BuildChain(e.chain[1], cs)
    BY <1>1, <2>1 DEF Entry
  <2>3. e.chain[1] \in Cert
    BY <1>1, <1>4, HeadInRange, RangeOf
  <2> QED  BY <2>2, <2>3, ChainIsLinked DEF Settles
<1> QED  BY <1>2, <1>3, <1>4

(* After reconcileEntries every key has an entry and every entry is settled. *)
LEMMA ReconcileSettles ==
  ASSUME NEW cs \in Seq(Cert), NEW ks \in Seq(Key), NEW es \in Seq(Sound(cs, ks))
  PROVE  /\ \A e \in ToSet(Reconcile(es, cs, ks)) : Settles(e, cs)
         /\ \A k \in ToSet(ks) : \E e \in ToSet(Reconcile(es, cs, ks)) : e.key = k
<1> DEFINE new == ToSet(ks) \ {es[i].key : i \in DOMAIN es}
<1>1. ToSet(Reconcile(es, cs, ks))
        = {Rechained(es[i], cs) : i \in DOMAIN es} \cup {KeyEntry(k, cs) : k \in new}
  BY ReconcileRange
<1>2. \A i \in DOMAIN es : Settles(Rechained(es[i], cs), cs)
  BY RechainedSettles
<1>3. \A k : Settles(KeyEntry(k, cs), cs)
  <2>1. \A k : KeyEntry(k, cs).chain = MatchedChain(KeyEntry(k, cs).key, cs)
    BY DEF KeyEntry
  <2> QED  BY <2>1, MatchedSettles
<1>4. \A k \in ToSet(ks) : \E e \in ToSet(Reconcile(es, cs, ks)) : e.key = k
  BY ReconcileNamesKeys
<1> HIDE DEF new
<1> QED  BY <1>1, <1>2, <1>3, <1>4

(* AddCertificate and AddPrivateKey leave a re-matched store behind. *)
LEMMA AddsReconcileStep ==
  ASSUME References,
         (\E c \in Cert : AddCertificate(c)) \/ (\E k \in CallerKeys : AddPrivateKey(k))
  PROVE  Reconciled'
<1>1. SoundStore(certs, keys, entries, origin)
  BY ReferencesEquivalent
<1>2. SoundStore(certs, keys, entries, origin)'
  BY <1>1, CallerInputs, AddCertificateSound, AddPrivateKeySound
<1>3. entries' = Reconcile(entries, certs', keys')
  BY DEF AddCertificate, AddPrivateKey
<1>4. certs' \in Seq(Cert) /\ keys' \in Seq(Key)
  BY <1>2 DEF SoundStore
<1>5. entries \in Seq(Sound(certs', keys'))
  <2>1. certs \in Seq(Cert) /\ keys \in Seq(Key)
    BY <1>1 DEF SoundStore
  <2>2. ASSUME NEW c \in Cert  PROVE ToSet(certs) \subseteq ToSet(AppendNew(certs, <<c>>))
    <3>1. <<c>> \in Seq(Cert)
      OBVIOUS
    <3>2. ToSet(AppendNew(certs, <<c>>)) = ToSet(certs) \cup {c}
      BY <2>1, <3>1, AppendOne
    <3> QED  BY <3>2
  <2>3. ASSUME NEW k \in Key  PROVE ToSet(keys) \subseteq ToSet(AppendNew(keys, <<k>>))
    <3>1. <<k>> \in Seq(Key)
      OBVIOUS
    <3>2. ToSet(AppendNew(keys, <<k>>)) = ToSet(keys) \cup {k}
      BY <2>1, <3>1, AppendOne
    <3> QED  BY <3>2
  <2>4. ToSet(certs) \subseteq ToSet(certs') /\ ToSet(keys) \subseteq ToSet(keys')
    BY <2>2, <2>3, CallerInputs DEF AddCertificate, AddPrivateKey
  <2>5. Sound(certs, keys) \subseteq Sound(certs', keys')
    BY <2>4, SoundMonotonic
  <2> QED  BY <1>1, <2>5, SeqMonotonic DEF SoundStore
<1>6. /\ \A e \in ToSet(entries') : Settles(e, certs')
      /\ \A l \in ToSet(keys') : \E e \in ToSet(entries') : e.key = l
  BY <1>3, <1>4, <1>5, ReconcileSettles
<1>7. \A l \in ToSet(keys') : HasEntry(l)'
  BY <1>6 DEF HasEntry, ToSet
<1>8. \A i \in DOMAIN entries' : Settles(entries'[i], certs')
  BY <1>6 DEF ToSet
<1> QED  BY <1>7, <1>8 DEF Reconciled, Settles, Complete, CannotExtend

(* AddCertificate and AddPrivateKey leave a re-matched store behind, however
   the store got into its present state. *)
THEOREM StoreAddsReconcile == Spec => AddsReconcile
<1>1. ASSUME References, [Next]_vars
      PROVE  [(\E c \in Cert : AddCertificate(c)) \/ (\E k \in CallerKeys : AddPrivateKey(k))
                => Reconciled']_vars
  BY <1>1, AddsReconcileStep
<1> QED  BY <1>1, StoreReferences, PTL DEF Spec, AddsReconcile
-----------------------------------------------------------------------------
(***************************************************************************)
(* What the calls of model.go do to the chains of the keys that are there: *)
(* while no certificate is taken out, no key comes to a chain of another   *)
(* key but by merging an input that says so, and the chains of a           *)
(* re-matched store only get longer.                                       *)
(***************************************************************************)

IsMispaired(e) == e.key # NoKey /\ e.chain # << >> /\ ~Matches(e.key, e.chain[1])

PairOf(e) == <<e.key, e.chain[1]>>

(* Where an entry stands in the list makes no difference. *)
LEMMA MispairedOfRange ==
  ASSUME NEW es
  PROVE  Mispaired(es) = {PairOf(e) : e \in {x \in ToSet(es) : IsMispaired(x)}}
BY DEF Mispaired, ToSet, IsMispaired, PairOf

(* Re-matching an entry leaves its key and the head of its chain alone, or finds
   a head that matches. *)
LEMMA RechainedKeepsPair ==
  ASSUME NEW cs \in Seq(Cert), NEW e \in Entry, IsMispaired(Rechained(e, cs))
  PROVE  IsMispaired(e) /\ PairOf(Rechained(e, cs)) = PairOf(e)
<1> DEFINE r == Rechained(e, cs)
<1>1. CASE e.key = NoKey
  BY <1>1 DEF Rechained
<1>2. CASE e.key # NoKey /\ e.chain = << >>
  <2>1. r.key = e.key /\ r.chain = MatchedChain(e.key, cs)
    BY <1>2 DEF Rechained, Entry
  <2> QED  BY <2>1, HeadOfChain DEF IsMispaired
<1>3. CASE e.key # NoKey /\ e.chain # << >>
  <2>1. r.key = e.key /\ r.chain = BuildChain(e.chain[1], cs)
    BY <1>3 DEF Rechained, Entry
  <2>2. e.chain[1] \in Cert
    BY <1>3, HeadInRange, RangeOf DEF Entry
  <2>3. r.chain[1] = e.chain[1]
    BY <2>1, <2>2, HeadOfChain
  <2> HIDE DEF r
  <2>4. IsMispaired(r)
    BY DEF r
  <2>5. IsMispaired(e) /\ PairOf(r) = PairOf(e)
    BY <1>3, <2>1, <2>3, <2>4 DEF IsMispaired, PairOf
  <2> QED  BY <2>5 DEF r
<1> QED  BY <1>1, <1>2, <1>3

(* Re-matching binds no key to a chain of another. *)
LEMMA ReconcileKeepsPairs ==
  ASSUME NEW cs \in Seq(Cert), NEW ks \in Seq(Key), NEW es \in Seq(Sound(cs, ks))
  PROVE  Mispaired(Reconcile(es, cs, ks)) \subseteq Mispaired(es)
<1> SUFFICES ASSUME NEW e \in ToSet(Reconcile(es, cs, ks)), IsMispaired(e)
             PROVE  PairOf(e) \in Mispaired(es)
  BY MispairedOfRange
<1>1. CASE \E i \in DOMAIN es : e = Rechained(es[i], cs)
  <2>1. PICK i \in DOMAIN es : e = Rechained(es[i], cs)
    BY <1>1
  <2>2. es[i] \in Entry /\ es[i] \in ToSet(es)
    BY DEF Sound, ToSet
  <2>3. IsMispaired(es[i]) /\ PairOf(e) = PairOf(es[i])
    BY <2>1, <2>2, RechainedKeepsPair
  <2> QED  BY <2>2, <2>3, MispairedOfRange
<1>2. CASE \E k \in Key : e = KeyEntry(k, cs)
  <2>1. PICK k \in Key : e = KeyEntry(k, cs)
    BY <1>2
  <2>2. e.key = k /\ e.chain = MatchedChain(k, cs)
    BY <2>1 DEF KeyEntry
  <2> QED  BY <2>2, HeadOfChain DEF IsMispaired
<1>3. ToSet(Reconcile(es, cs, ks))
        = {Rechained(es[i], cs) : i \in DOMAIN es}
            \cup {KeyEntry(k, cs) : k \in ToSet(ks) \ {es[i].key : i \in DOMAIN es}}
  BY ReconcileRange
<1>4. ToSet(ks) \subseteq Key
  BY RangeOf
<1> QED  BY <1>1, <1>2, <1>3, <1>4

-----------------------------------------------------------------------------
(* An entry that a call appends pairs nothing wrongly when the call has compared
   the key with the first certificate that it was given. *)
LEMMA AppendedKeepsPairs ==
  ASSUME SoundStore(certs, keys, entries, origin), SoundStore(certs, keys, entries, origin)',
         NEW e, entries' = Append(entries, e),
         NEW k, NEW ch \in Seq(Cert), e.key \in {k, NoKey}, e.chain = CanonicalChain(ch, certs'),
         k # NoKey /\ ch # << >> => Matches(k, ch[1])
  PROVE  Mispaired(entries') \subseteq Mispaired(entries)
<1>1. entries \in Seq(Sound(certs, keys)) /\ entries' \in Seq(Sound(certs', keys'))
  BY DEF SoundStore
<1>2. e \in Sound(certs', keys')
  <2>1. Len(entries) \in Nat /\ Len(entries') = Len(entries) + 1 /\ entries'[Len(entries) + 1] = e
    BY <1>1
  <2> QED  BY <1>1, <2>1
<1>3. ~IsMispaired(e)
  <2> SUFFICES ASSUME e.key # NoKey, e.chain # << >>  PROVE Matches(e.key, e.chain[1])
    BY DEF IsMispaired
  <2>1. e.chain \in Seq(Cert)
    BY <1>2 DEF Sound, Entry
  <2>2. 1 \in DOMAIN e.chain /\ e.chain[1] \in Cert
    BY <2>1, HeadInRange
  <2>3. 1 \in DOMAIN ch /\ e.chain[1] \in {ch[1], NoCert}
    BY <2>2 DEF CanonicalChain
  <2>4. e.chain[1] = ch[1] /\ ch # << >>
    BY <2>2, <2>3, Sentinels
  <2> QED  BY <2>4
<1>4. ToSet(entries') = ToSet(entries) \cup {e}
  <2> DEFINE V == Sound(certs, keys) \cup {e}
             t == <<e>>
  <2>1. Sound(certs, keys) \subseteq V /\ t \in Seq(V) /\ ToSet(t) = {e}
    BY DEF ToSet
  <2> HIDE DEF V
  <2>2. entries \in Seq(V) /\ entries' = entries \o t
    BY <1>1, <2>1, SeqMonotonic, AppendIsConcat
  <2> HIDE DEF t
  <2>3. ToSet(entries \o t) = ToSet(entries) \cup ToSet(t)
    BY <2>1, <2>2, ConcatRange
  <2> QED  BY <2>1, <2>2, <2>3
<1> QED  BY <1>3, <1>4, MispairedOfRange

(* The calls that re-match pair nothing wrongly. *)
LEMMA RematchingKeepsPairs ==
  ASSUME SoundStore(certs, keys, entries, origin),
         (\E c \in Cert : AddCertificate(c)) \/ (\E k \in Key : AddPrivateKey(k))
  PROVE  Mispaired(entries') \subseteq Mispaired(entries)
<1>1. SoundStore(certs, keys, entries, origin)'
  BY AddCertificateSound, AddPrivateKeySound
<1>2. entries' = Reconcile(entries, certs', keys')
  BY DEF AddCertificate, AddPrivateKey
<1>3. ToSet(certs) \subseteq ToSet(certs') /\ ToSet(keys) \subseteq ToSet(keys')
  <2>1. certs \in Seq(Cert) /\ keys \in Seq(Key)
    BY DEF SoundStore
  <2>2. CASE \E c \in Cert : AddCertificate(c)
    <3>1. PICK c \in Cert : certs' = AppendNew(certs, <<c>>) /\ keys' = keys
      BY <2>2 DEF AddCertificate
    <3>2. <<c>> \in Seq(Cert)
      OBVIOUS
    <3>3. ToSet(AppendNew(certs, <<c>>)) = ToSet(certs) \cup {c}
      BY <2>1, <3>2, AppendOne
    <3> QED  BY <3>1, <3>3
  <2>3. CASE \E k \in Key : AddPrivateKey(k)
    <3>1. PICK k \in Key : keys' = AppendNew(keys, <<k>>) /\ certs' = certs
      BY <2>3 DEF AddPrivateKey
    <3>2. <<k>> \in Seq(Key)
      OBVIOUS
    <3>3. ToSet(AppendNew(keys, <<k>>)) = ToSet(keys) \cup {k}
      BY <2>1, <3>2, AppendOne
    <3> QED  BY <3>1, <3>3
  <2> QED  BY <2>2, <2>3
<1>4. entries \in Seq(Sound(certs', keys'))
  BY <1>3, SoundMonotonic, SeqMonotonic DEF SoundStore
<1>5. certs' \in Seq(Cert) /\ keys' \in Seq(Key)
  BY <1>1 DEF SoundStore
<1> QED  BY <1>2, <1>4, <1>5, ReconcileKeepsPairs

(* A merge brings the pairs of the input, which Open has not changed. *)
LEMMA MergeBringsPairs ==
  ASSUME SoundStore(certs, keys, entries, origin),
         NEW f \in Files, Opened(f) \in Library, Add(Opened(f)),
         NEW m \in Mispaired(entries') \ Mispaired(entries)
  PROVE  m \in Mispaired(f.entries)
<1> DEFINE es == Reconcile(f.entries, f.certs, f.keys)
<1>1. /\ f.entries \in Seq(Sound(f.certs, f.keys))
      /\ f.certs \in Seq(Cert) /\ f.keys \in Seq(Key)
  BY FileEntries
<1>2. Mispaired(es) \subseteq Mispaired(f.entries)
  BY <1>1, ReconcileKeepsPairs
<1>3. Opened(f) = [f EXCEPT !.entries = es]
  BY DEF Opened
<1> HIDE DEF es
<1>4. Opened(f).entries = es
  BY <1>3, OpenedFiles DEF IsOpened
<1>5. /\ entries' = entries \o es
      /\ es \in Seq(Sound(certs', keys')) /\ entries \in Seq(Sound(certs', keys'))
  <2>1. IsSoundStore(Opened(f))
    BY LibraryIsSound
  <2>2. /\ ToSet(certs) \subseteq ToSet(certs') /\ ToSet(keys) \subseteq ToSet(keys')
        /\ es \in Seq(Sound(certs', keys')) /\ entries' = entries \o es
    BY <1>4, <2>1, Merged
  <2> QED  BY <2>2, SoundMonotonic, SeqMonotonic DEF SoundStore
<1>6. ToSet(entries') = ToSet(entries) \cup ToSet(es)
  BY <1>5, ConcatRange
<1>7. Mispaired(entries') = Mispaired(entries) \cup Mispaired(es)
  BY <1>6, MispairedOfRange
<1> QED  BY <1>2, <1>7

(* Taking out a key or an entry pairs nothing. *)
LEMMA RemovalKeepsPairs ==
  ASSUME SoundStore(certs, keys, entries, origin),
         (\E k \in Key : RemovePrivateKey(k)) \/ (\E a \in Alias : RemoveEntry(a))
  PROVE  Mispaired(entries') \subseteq Mispaired(entries)
<1>1. entries \in Seq(Sound(certs, keys))
  BY DEF SoundStore
<1>2. CASE \E k \in Key : RemovePrivateKey(k)
  <2>1. PICK k \in Key :
           entries' = [i \in DOMAIN entries |->
                         IF entries[i].key = k
                         THEN [entries[i] EXCEPT !.key = NoKey, !.status = "unavailable"]
                         ELSE entries[i]]
    BY <1>2 DEF RemovePrivateKey
  <2>2. ASSUME NEW i \in DOMAIN entries, IsMispaired(entries'[i])
        PROVE  entries'[i] = entries[i]
    <3>1. entries[i] \in Entry
      BY <1>1 DEF Sound
    <3>2. CASE entries[i].key = k
      <4>1. entries'[i] = [entries[i] EXCEPT !.key = NoKey, !.status = "unavailable"]
        BY <2>1, <3>2
      <4>2. entries'[i].key = NoKey
        BY <3>1, <4>1 DEF Entry
      <4> QED  BY <2>2, <4>2 DEF IsMispaired
    <3>3. CASE entries[i].key # k
      BY <2>1, <3>3
    <3> QED  BY <3>2, <3>3
  <2>3. DOMAIN entries' = DOMAIN entries
    BY <2>1
  <2>4. \A e \in ToSet(entries') : IsMispaired(e) => e \in ToSet(entries)
    BY <2>2, <2>3 DEF ToSet
  <2> QED  BY <2>4, MispairedOfRange
<1>3. CASE \E a \in Alias : RemoveEntry(a)
  <2>1. PICK i \in DOMAIN entries : entries' = RemoveAt(entries, i)
    BY <1>3 DEF RemoveEntry
  <2>2. ToSet(entries') \subseteq ToSet(entries)
    <3>1. ToSet(RemoveAt(entries, i)) = {entries[j] : j \in (DOMAIN entries) \ {i}}
      BY <1>1, RemoveAtProperties
    <3> QED  BY <2>1, <3>1 DEF ToSet
  <2> QED  BY <2>2, MispairedOfRange
<1> QED  BY <1>2, <1>3

(* RemoveCertificate does take a certificate out. *)
LEMMA RemoveCertificateShrinks ==
  ASSUME SoundStore(certs, keys, entries, origin), NEW c \in Cert, RemoveCertificate(c)
  PROVE  ~(ToSet(certs) \subseteq ToSet(certs'))
<1>1. /\ certs \in Seq(Cert) /\ NoDuplicates(certs) /\ c \in ToSet(certs)
      /\ certs' = RemoveAt(certs, IndexOf(certs, c))
  BY DEF SoundStore, RemoveCertificate
<1>2. ToSet(certs') = ToSet(certs) \ {c}
  BY <1>1, RemoveElement
<1> QED  BY <1>1, <1>2

(* Each step either pairs nothing wrongly, or merges an input that does, or takes
   a certificate out. *)
LEMMA NextKeepsPairs ==
  ASSUME SoundStore(certs, keys, entries, origin), [Next]_vars,
         ToSet(certs) \subseteq ToSet(certs'),
         NEW m \in Mispaired(entries') \ Mispaired(entries)
  PROVE  \E f \in Files : m \in Mispaired(f.entries) /\ Add(Opened(f))
<1> DEFINE Kept == Mispaired(entries') \subseteq Mispaired(entries)
<1> SUFFICES ASSUME ~Kept
             PROVE  \E f \in Files : m \in Mispaired(f.entries) /\ Add(Opened(f))
  OBVIOUS
<1>1. SoundStore(certs, keys, entries, origin)'
  BY NextSound
<1>2. ASSUME NEW a \in CallerAliases, NEW k \in CallerKeys, NEW ch \in CallerChains,
             AddKeyPair(a, k, ch)
      PROVE  Kept
  <2> DEFINE e == [alias |-> Trim[a], key |-> CanonicalKey(k, keys'), status |-> "available",
                   chain |-> CanonicalChain(ch, certs'), trusted |-> FALSE]
  <2>1. entries' = Append(entries, e) /\ (ch # << >> => Matches(k, ch[1]))
    BY <1>2 DEF AddKeyPair
  <2>2. e.key \in {k, NoKey} /\ e.chain = CanonicalChain(ch, certs')
    BY DEF CanonicalKey
  <2>3. ch \in Seq(Cert)
    BY CallerInputs
  <2> HIDE DEF e
  <2> QED  BY <1>1, <2>1, <2>2, <2>3, AppendedKeepsPairs
<1>3. ASSUME NEW a \in CallerAliases, NEW c \in Cert, AddTrustedCertificate(a, c)
      PROVE  Kept
  <2> DEFINE e == [alias |-> Trim[a], key |-> NoKey, status |-> "none",
                   chain |-> CanonicalChain(<<c>>, certs'), trusted |-> TRUE]
  <2>1. entries' = Append(entries, e) /\ <<c>> \in Seq(Cert)
    BY <1>3 DEF AddTrustedCertificate
  <2>2. e.key = NoKey /\ e.chain = CanonicalChain(<<c>>, certs')
    OBVIOUS
  <2> HIDE DEF e
  <2> QED  BY <1>1, <2>1, <2>2, AppendedKeepsPairs
<1>4. ASSUME NEW cs, NEW ks, NEW d \in Sound(cs, ks), NEW source, AddEntry(d, source)
      PROVE  Kept
  <2> DEFINE e == [d EXCEPT !.key = CanonicalKey(@, keys'), !.chain = CanonicalChain(@, certs')]
  <2>1. /\ entries' = Append(entries, e)
        /\ d.key # NoKey /\ d.chain # << >> => Matches(d.key, d.chain[1])
    BY <1>4 DEF AddEntry
  <2>2. d \in Entry /\ d.chain \in Seq(Cert)
    BY DEF Sound, Entry
  <2>3. e.key = CanonicalKey(d.key, keys') /\ e.chain = CanonicalChain(d.chain, certs')
    BY <2>2 DEF Entry
  <2>4. e.key \in {d.key, NoKey}
    BY <2>3 DEF CanonicalKey
  <2> HIDE DEF e
  <2> QED  BY <1>1, <2>1, <2>2, <2>3, <2>4, AppendedKeepsPairs
<1>5. ASSUME NEW s \in Library, NEW i \in DOMAIN s.entries, AddEntry(s.entries[i], s.origin)
      PROVE  Kept
  <2>1. s.entries[i] \in Sound(s.certs, s.keys)
    BY LibraryIsSound DEF IsSoundStore
  <2> HIDE DEF Kept
  <2> QED  BY <1>4, <1>5, <2>1
<1>6. ASSUME NEW cs \in Library, NEW ks \in Library, NEW d \in OpenEntry(cs, ks),
             AddEntry(d, cs.origin)
      PROVE  Kept
  <2>1. d \in Sound(cs.certs, ks.keys)
    BY OpenEntryIsSound
  <2> HIDE DEF Kept
  <2> QED  BY <1>4, <1>6, <2>1
<1>7. ASSUME NEW s \in Library, Add(s)
      PROVE  \E f \in Files : m \in Mispaired(f.entries) /\ Add(Opened(f))
  <2>1. PICK f \in Files : s = Opened(f)
    BY DEF Library
  <2> QED  BY <1>7, <2>1, MergeBringsPairs
<1>8. ASSUME NEW c \in Cert, RemoveCertificate(c)
      PROVE  FALSE
  BY <1>8, RemoveCertificateShrinks
<1>9. CASE UNCHANGED vars
  BY <1>9 DEF vars
<1>10. ASSUME (\E c \in Cert : AddCertificate(c)) \/ (\E k \in CallerKeys : AddPrivateKey(k))
       PROVE  Kept
  BY <1>10, CallerInputs, RematchingKeepsPairs
<1>11. ASSUME (\E k \in Key : RemovePrivateKey(k)) \/ (\E a \in Alias : RemoveEntry(a))
       PROVE  Kept
  BY <1>11, RemovalKeepsPairs
<1> HIDE DEF Kept
<1> QED
  BY <1>2, <1>3, <1>5, <1>6, <1>7, <1>8, <1>9, <1>10, <1>11 DEF Next

(* While no certificate is taken out, a key is bound to the chain of another key
   only by merging an input that binds it so itself: AddKeyPair, AddEntry and
   reconcileEntries compare the key with the head of the chain. *)
THEOREM StoreOnlyRemovalDetaches == Spec => OnlyRemovalDetaches
<1>1. ASSUME References, [Next]_vars
      PROVE  [ToSet(certs) \subseteq ToSet(certs') =>
                 \A m \in Mispaired(entries') \ Mispaired(entries) :
                    \E f \in Files : m \in Mispaired(f.entries) /\ Add(Opened(f))]_vars
  BY <1>1, ReferencesEquivalent, NextKeepsPairs
<1> QED  BY <1>1, StoreReferences, PTL DEF Spec, OnlyRemovalDetaches

-----------------------------------------------------------------------------
(* The first parent in a slice stays the first when more certificates follow. *)
LEMMA FirstStays ==
  ASSUME NEW cs \in Seq(Cert), NEW t \in Seq(Cert), NEW p, NEW i, TakesFirst(p, i, cs)
  PROVE  TakesFirst(p, i, cs \o t)
<1> DEFINE ds == cs \o t
<1>1. /\ DOMAIN cs = 1 .. Len(cs) /\ Len(cs) \in Nat /\ Len(t) \in Nat
      /\ DOMAIN ds = 1 .. (Len(cs) + Len(t))
      /\ \A j \in DOMAIN cs : ds[j] = cs[j]
  BY RangeOf
<1> HIDE DEF ds
<1>2. PICK j \in Candidates(p, i, cs) :
         p[i + 1] = cs[j] /\ \A k \in Candidates(p, i, cs) : j <= k
  BY DEF TakesFirst
<1>3. j \in DOMAIN cs /\ j \in DOMAIN ds /\ ds[j] = cs[j]
  BY <1>1, <1>2 DEF Candidates
<1>4. j \in Candidates(p, i, ds)
  BY <1>2, <1>3 DEF Candidates
<1>5. ASSUME NEW k \in Candidates(p, i, ds)  PROVE j <= k
  <2>1. k \in DOMAIN ds /\ k \in Nat
    BY <1>1 DEF Candidates
  <2>2. CASE k \in DOMAIN cs
    <3>1. k \in Candidates(p, i, cs)
      BY <1>1, <2>2 DEF Candidates
    <3> QED  BY <1>2, <3>1
  <2>3. CASE k \notin DOMAIN cs
    BY <1>1, <1>3, <2>1, <2>3
  <2> QED  BY <2>2, <2>3
<1>6. TakesFirst(p, i, ds)
  BY <1>2, <1>3, <1>4, <1>5 DEF TakesFirst
<1> QED  BY <1>6 DEF ds

(* Two lists that agree so far continue with the same certificate. *)
LEMMA FirstIsUnique ==
  ASSUME NEW cs \in Seq(Cert), NEW p, NEW q, NEW i \in Nat,
         TakesFirst(p, i, cs), TakesFirst(q, i, cs),
         p[i] = q[i], \A k \in 1 .. i : p[k] = q[k]
  PROVE  p[i + 1] = q[i + 1]
<1>1. Candidates(p, i, cs) = Candidates(q, i, cs)
  BY DEF Candidates
<1>2. Candidates(p, i, cs) \subseteq Nat
  BY RangeOf DEF Candidates
<1>3. PICK j \in Candidates(p, i, cs) :
         p[i + 1] = cs[j] /\ \A k \in Candidates(p, i, cs) : j <= k
  BY DEF TakesFirst
<1>4. PICK l \in Candidates(q, i, cs) :
         q[i + 1] = cs[l] /\ \A k \in Candidates(q, i, cs) : l <= k
  BY DEF TakesFirst
<1>5. j = l
  BY <1>1, <1>2, <1>3, <1>4
<1> QED  BY <1>3, <1>4, <1>5

(* A list agrees with another from which it nowhere departs first. *)
LEMMA PrefixOf ==
  ASSUME NEW p \in Seq(Cert), NEW q \in Seq(Cert),
         \A i \in 1 .. Len(p) : i <= Len(q) /\ p[i] = q[i]
  PROVE  IsPrefix(p, q)
<1> DEFINE n == Len(p)
<1>1. n \in Nat /\ Len(q) \in Nat /\ n <= Len(q)
  <2>1. n \in Nat /\ Len(q) \in Nat
    BY RangeOf
  <2>2. CASE n = 0
    BY <2>1, <2>2
  <2>3. CASE n # 0
    <3>1. n \in 1 .. n
      BY <2>1, <2>3
    <3> QED  BY <3>1
  <2> QED  BY <2>2, <2>3
<1>2. /\ SubSeq(p, 1, n) \in Seq(Cert) /\ Len(SubSeq(p, 1, n)) = n
      /\ \A i \in 1 .. n : SubSeq(p, 1, n)[i] = p[i]
  BY <1>1
<1>3. /\ SubSeq(q, 1, n) \in Seq(Cert) /\ Len(SubSeq(q, 1, n)) = n
      /\ \A i \in 1 .. n : SubSeq(q, 1, n)[i] = q[i]
  BY <1>1
<1>4. SubSeq(p, 1, n) = SubSeq(q, 1, n)
  BY <1>2, <1>3, SeqEqual
<1> QED  BY <1>1, <1>4 DEF IsPrefix

(* Two runs of the loop on one slice agree: one that was stopped early has
   the first certificates of one that ended. *)
LEMMA WalkIsPrefix ==
  ASSUME NEW cs \in Seq(Cert), NEW leaf,
         NEW p \in Seq(Cert), NEW q \in Seq(Cert), p # << >>, q # << >>,
         IsWalk(p, leaf, cs), IsWalk(q, leaf, cs), CannotExtend(q, cs)
  PROVE  \A i \in 1 .. Len(p) : i <= Len(q) /\ p[i] = q[i]
<1> DEFINE Departs == {i \in 1 .. Len(p) : ~(i <= Len(q) /\ p[i] = q[i])}
<1>1. /\ Len(p) \in Nat \ {0} /\ p[1] = leaf
      /\ Len(q) \in Nat \ {0} /\ q[1] = leaf
      /\ \A i \in 1 .. (Len(p) - 1) : TakesFirst(p, i, cs)
      /\ \A i \in 1 .. (Len(q) - 1) : TakesFirst(q, i, cs)
  BY DEF IsWalk
<1> SUFFICES ASSUME Departs # {}  PROVE FALSE
  OBVIOUS
<1>2. PICK n \in Departs : \A k \in Departs : n <= k
  <2>1. Departs \in SUBSET Nat
    BY <1>1
  <2> QED  BY <2>1, LeastNatural
<1>3. n \in 1 .. Len(p) /\ ~(n <= Len(q) /\ p[n] = q[n])
  OBVIOUS
<1>4. n # 1
  BY <1>1, <1>3
<1> DEFINE m == n - 1
<1>5. m \in 1 .. (Len(p) - 1) /\ m \in Nat /\ m + 1 = n
  BY <1>1, <1>3, <1>4
<1>6. \A k \in 1 .. m : k \in 1 .. Len(p) /\ ~(n <= k)
  BY <1>1, <1>3, <1>5
<1>7. \A k \in 1 .. m : k <= Len(q) /\ p[k] = q[k]
  BY <1>2, <1>6
<1>8. m <= Len(q) /\ p[m] = q[m]
  BY <1>5, <1>7
<1> HIDE DEF m, Departs
<1>9. TakesFirst(p, m, cs)
  BY <1>1, <1>5
<1>10. CASE m < Len(q)
  <2>1. m \in 1 .. (Len(q) - 1)
    BY <1>1, <1>5, <1>10
  <2>2. TakesFirst(q, m, cs)
    BY <1>1, <2>1
  <2>3. p[n] = q[n]
    BY <1>5, <1>7, <1>8, <1>9, <2>2, FirstIsUnique
  <2> QED  BY <1>1, <1>3, <1>5, <1>10, <2>3
<1>11. CASE m = Len(q)
  <2>1. Candidates(p, m, cs) = Candidates(q, m, cs)
    BY <1>7, <1>8 DEF Candidates
  <2>2. ~IsRoot(p[m]) /\ Candidates(p, m, cs) # {}
    BY <1>9 DEF TakesFirst
  <2> QED  BY <1>8, <1>11, <2>1, <2>2 DEF CannotExtend
<1> QED  BY <1>1, <1>5, <1>8, <1>10, <1>11

(* More certificates at the end of the slice can only continue the chain. *)
LEMMA ChainExtends ==
  ASSUME NEW cs \in Seq(Cert), NEW t \in Seq(Cert), NEW leaf \in Cert
  PROVE  IsPrefix(BuildChain(leaf, cs), BuildChain(leaf, cs \o t))
<1> DEFINE ds == cs \o t
           p == BuildChain(leaf, cs)
           q == BuildChain(leaf, ds)
<1>1. ds \in Seq(Cert)
  OBVIOUS
<1>2. IsChain(p, leaf, cs) /\ IsChain(q, leaf, ds)
  BY <1>1, BuildChainReturnsChain
<1>3. \A i \in 1 .. (Len(p) - 1) : TakesFirst(p, i, ds)
  BY <1>2, FirstStays DEF IsChain
<1> HIDE DEF p, q, ds
<1>4. /\ p \in Seq(Cert) /\ p # << >> /\ IsWalk(p, leaf, ds)
      /\ q \in Seq(Cert) /\ q # << >> /\ IsWalk(q, leaf, ds)
      /\ CannotExtend(q, ds)
  BY <1>2, <1>3 DEF IsChain, IsWalk
<1>5. \A i \in 1 .. Len(p) : i <= Len(q) /\ p[i] = q[i]
  BY <1>1, <1>4, WalkIsPrefix
<1>6. IsPrefix(p, q)
  BY <1>4, <1>5, PrefixOf
<1> QED  BY <1>6 DEF p, q, ds

(* Who builds the chain again from nothing but its certificates gets the chain. *)
LEMMA ChainOfItself ==
  ASSUME NEW cs \in Seq(Cert), NEW leaf \in Cert
  PROVE  BuildChain(leaf, BuildChain(leaf, cs)) = BuildChain(leaf, cs)
<1> DEFINE p == BuildChain(leaf, cs)
           q == BuildChain(leaf, p)
<1>1. IsChain(p, leaf, cs)
  BY BuildChainReturnsChain
<1> HIDE DEF p
<1>2. /\ p \in Seq(Cert) /\ p # << >> /\ p[1] = leaf /\ NoDuplicates(p)
      /\ CannotExtend(p, cs)
      /\ \A i \in 1 .. (Len(p) - 1) : TakesFirst(p, i, cs)
  BY <1>1 DEF IsChain
<1>3. Len(p) \in Nat /\ DOMAIN p = 1 .. Len(p)
  BY <1>2
<1>4. IsChain(q, leaf, p)
  BY <1>2, BuildChainReturnsChain
<1> HIDE DEF q
<1>5. q \in Seq(Cert) /\ q # << >> /\ IsWalk(q, leaf, p) /\ CannotExtend(q, p) /\ Len(q) \in Nat
  BY <1>4 DEF IsChain, IsWalk
<1>6. ASSUME NEW i \in 1 .. (Len(p) - 1)  PROVE TakesFirst(p, i, p)
  <2>1. ~IsRoot(p[i]) /\ IsParent(p[i], p[i + 1])
    BY <1>2 DEF TakesFirst, Candidates
  <2>2. i + 1 \in DOMAIN p /\ \A k \in 1 .. i : k \in DOMAIN p /\ k # i + 1
    BY <1>3
  <2>3. i + 1 \in Candidates(p, i, p)
    BY <1>2, <2>1, <2>2 DEF Candidates, NoDuplicates
  <2>4. \A k \in Candidates(p, i, p) : i + 1 <= k
    BY <1>3 DEF Candidates
  <2> QED  BY <2>1, <2>3, <2>4 DEF TakesFirst
<1>7. IsWalk(p, leaf, p)
  BY <1>2, <1>6 DEF IsWalk
<1>8. CannotExtend(p, p)
  BY <1>3 DEF CannotExtend, Candidates
<1>9. \A i \in 1 .. Len(p) : i <= Len(q) /\ p[i] = q[i]
  BY <1>2, <1>5, <1>7, WalkIsPrefix
<1>10. \A i \in 1 .. Len(q) : i <= Len(p) /\ q[i] = p[i]
  BY <1>2, <1>5, <1>7, <1>8, WalkIsPrefix
<1>11. Len(p) = Len(q)
  <2>1. Len(p) \in 1 .. Len(p) /\ Len(q) \in 1 .. Len(q)
    BY <1>2, <1>3, <1>5
  <2>2. Len(p) <= Len(q) /\ Len(q) <= Len(p)
    BY <1>9, <1>10, <2>1
  <2> QED  BY <1>3, <1>5, <2>2
<1>12. q = p
  BY <1>2, <1>5, <1>9, <1>11, SeqEqual
<1> QED  BY <1>12 DEF p, q

(* New certificates are put behind the old ones. *)
LEMMA AppendedBehind ==
  ASSUME NEW cs \in Seq(Cert), NEW ch \in Seq(Cert)
  PROVE  \E t \in Seq(Cert) : AppendNew(cs, ch) = cs \o t
<1>1. Fresh(cs, ch) \in SUBSET (DOMAIN ch)
  BY DEF Fresh
<1>2. Pick(ch, Fresh(cs, ch)) \in Seq(Cert)
  BY <1>1, PickProperties
<1> QED  BY <1>2 DEF AppendNew

(* Every list continues itself. *)
LEMMA PrefixOfSelf ==
  ASSUME NEW p \in Seq(Cert)
  PROVE  IsPrefix(p, p)
<1>1. \A i \in 1 .. Len(p) : i <= Len(p) /\ p[i] = p[i]
  BY RangeOf
<1> QED  BY <1>1, PrefixOf

(* The empty list is continued by every list. *)
LEMMA EmptyIsPrefix ==
  ASSUME NEW p \in Seq(Cert)
  PROVE  IsPrefix(<< >>, p)
<1>1. << >> \in Seq(Cert) /\ Len(<< >>) = 0
  OBVIOUS
<1> DEFINE q == << >>
<1>2. q \in Seq(Cert) /\ Len(q) = 0
  BY <1>1
<1> HIDE DEF q
<1>3. \A i \in 1 .. Len(q) : i <= Len(p) /\ q[i] = p[i]
  BY <1>2
<1>4. IsPrefix(q, p)
  BY <1>2, <1>3, PrefixOf
<1> QED  BY <1>4 DEF q

(* Re-matching after certificates were appended continues a chain that the last
   re-match would have left alone. *)
LEMMA RechainedExtends ==
  ASSUME NEW cs \in Seq(Cert), NEW t \in Seq(Cert), NEW e \in Entry, Rechained(e, cs) = e
  PROVE  IsPrefix(e.chain, Rechained(e, cs \o t).chain)
<1> DEFINE r == Rechained(e, cs \o t)
<1>1. e.chain \in Seq(Cert) /\ cs \o t \in Seq(Cert)
  BY DEF Entry
<1>2. CASE e.key = NoKey
  BY <1>1, <1>2, PrefixOfSelf DEF Rechained
<1>3. CASE e.key # NoKey /\ e.chain = << >>
  <2>1. r.chain = MatchedChain(e.key, cs \o t)
    BY <1>3 DEF Rechained, Entry
  <2>2. MatchedChain(e.key, cs \o t) \in Seq(Cert)
    BY <1>1, MatchedChainProperties
  <2> HIDE DEF r
  <2>3. r.chain \in Seq(Cert) /\ << >> \in Seq(Cert) /\ Len(<< >>) = 0
    BY <2>1, <2>2
  <2>4. IsPrefix(<< >>, r.chain)
    BY <2>3, EmptyIsPrefix
  <2>5. IsPrefix(e.chain, r.chain)
    BY <1>3, <2>4
  <2> QED  BY <2>5 DEF r
<1>4. CASE e.key # NoKey /\ e.chain # << >>
  <2>1. e.chain[1] \in Cert
    BY <1>1, <1>4, HeadInRange, RangeOf
  <2>2. /\ Rechained(e, cs).chain = BuildChain(e.chain[1], cs)
        /\ r.chain = BuildChain(e.chain[1], cs \o t)
    BY <1>4 DEF Rechained, Entry
  <2>3. IsPrefix(BuildChain(e.chain[1], cs), BuildChain(e.chain[1], cs \o t))
    BY <2>1, ChainExtends
  <2> HIDE DEF r
  <2>4. IsPrefix(e.chain, r.chain)
    BY <2>2, <2>3
  <2> QED  BY <2>4 DEF r
<1> QED  BY <1>2, <1>3, <1>4

(* The chains at the places that both lists have. *)
Extends == \A i \in DOMAIN entries \cap DOMAIN entries' :
              IsPrefix(entries[i].chain, entries'[i].chain)

(* Re-matching extends the chains of a re-matched store. *)
LEMMA RematchingExtends ==
  ASSUME SoundStore(certs, keys, entries, origin), Settled,
         NEW t \in Seq(Cert), certs' = certs \o t,
         keys' \in Seq(Key), entries' = Reconcile(entries, certs', keys')
  PROVE  Extends
<1>1. /\ certs \in Seq(Cert) /\ keys \in Seq(Key) /\ entries \in Seq(Entry)
      /\ \A i \in DOMAIN entries : entries[i] \in Entry
  BY SeqMonotonic DEF SoundStore, Sound
<1> SUFFICES ASSUME NEW i \in DOMAIN entries
             PROVE  IsPrefix(entries[i].chain, entries'[i].chain)
  BY DEF Extends
<1>2. Rechained(entries[i], certs) = entries[i]
  BY <1>1, ReconcileInPlace DEF Settled
<1>3. entries'[i] = Rechained(entries[i], certs \o t)
  BY <1>1, ReconcileInPlace
<1> QED  BY <1>1, <1>2, <1>3, RechainedExtends

(* Entries that stay as they are keep their chains. *)
LEMMA SameExtends ==
  ASSUME SoundStore(certs, keys, entries, origin),
         \A i \in DOMAIN entries : entries'[i].chain = entries[i].chain
  PROVE  Extends
<1>1. \A i \in DOMAIN entries : entries[i].chain \in Seq(Cert)
  BY DEF SoundStore, Sound, Entry
<1> QED  BY <1>1, PrefixOfSelf DEF Extends

(* Entries that are appended leave the old ones in their places. *)
LEMMA AppendingExtends ==
  ASSUME SoundStore(certs, keys, entries, origin),
         (\E e : entries' = Append(entries, e)) \/ (\E V : \E es \in Seq(V) : entries' = entries \o es)
  PROVE  Extends
<1>1. entries \in Seq(Sound(certs, keys))
  BY DEF SoundStore
<1>2. CASE \E e : entries' = Append(entries, e)
  <2>1. PICK e : entries' = Append(entries, e)
    BY <1>2
  <2>2. \A i \in DOMAIN entries : entries'[i] = entries[i]
    BY <1>1, <2>1
  <2> QED  BY <2>2, SameExtends
<1>3. CASE \E V : \E es \in Seq(V) : entries' = entries \o es
  <2>1. PICK V : \E es \in Seq(V) : entries' = entries \o es
    BY <1>3
  <2>2. PICK es \in Seq(V) : entries' = entries \o es
    BY <2>1
  <2>3. \A i \in DOMAIN entries : entries'[i] = entries[i]
    BY <1>1, <2>2
  <2> QED  BY <2>3, SameExtends
<1> QED  BY <1>2, <1>3

(* Removing a key changes no chain, removing an entry shortens the list. *)
LEMMA RemovalExtends ==
  ASSUME SoundStore(certs, keys, entries, origin),
         (\E k \in Key : RemovePrivateKey(k)) \/ (\E a \in Alias : RemoveEntry(a)),
         Len(entries) <= Len(entries')
  PROVE  Extends
<1>1. entries \in Seq(Sound(certs, keys))
  BY DEF SoundStore
<1>2. CASE \E k \in Key : RemovePrivateKey(k)
  <2>1. PICK k \in Key :
           entries' = [i \in DOMAIN entries |->
                         IF entries[i].key = k
                         THEN [entries[i] EXCEPT !.key = NoKey, !.status = "unavailable"]
                         ELSE entries[i]]
    BY <1>2 DEF RemovePrivateKey
  <2>2. \A i \in DOMAIN entries : entries[i] \in Entry
    BY <1>1 DEF Sound
  <2>3. \A i \in DOMAIN entries :
           [entries[i] EXCEPT !.key = NoKey, !.status = "unavailable"].chain = entries[i].chain
    BY <2>2 DEF Entry
  <2>4. \A i \in DOMAIN entries : entries'[i].chain = entries[i].chain
    BY <2>1, <2>3
  <2> QED  BY <2>4, SameExtends
<1>3. CASE \E a \in Alias : RemoveEntry(a)
  <2>1. PICK i \in DOMAIN entries : entries' = RemoveAt(entries, i)
    BY <1>3 DEF RemoveEntry
  <2>2. entries' = SubSeq(entries, 1, i - 1) \o SubSeq(entries, i + 1, Len(entries))
    BY <2>1 DEF RemoveAt
  <2>3. i \in 1 .. Len(entries) /\ Len(entries) \in Nat
    BY <1>1, RangeOf
  <2>4. /\ SubSeq(entries, 1, i - 1) \in Seq(Sound(certs, keys))
        /\ SubSeq(entries, i + 1, Len(entries)) \in Seq(Sound(certs, keys))
        /\ Len(SubSeq(entries, 1, i - 1)) = i - 1
        /\ Len(SubSeq(entries, i + 1, Len(entries))) = Len(entries) - i
    BY <1>1, <2>3
  <2>5. Len(entries') = Len(entries) - 1
    BY <2>2, <2>3, <2>4
  <2> QED  BY <2>3, <2>5
<1> QED  BY <1>2, <1>3

(* Each step extends the chains of a re-matched store, or takes a certificate or
   an entry out. *)
LEMMA NextExtends ==
  ASSUME SoundStore(certs, keys, entries, origin), [Next]_vars, Settled,
         ToSet(certs) \subseteq ToSet(certs'), Len(entries) <= Len(entries')
  PROVE  Extends
<1>1. certs \in Seq(Cert) /\ keys \in Seq(Key)
  BY DEF SoundStore
<1>2. SoundStore(certs, keys, entries, origin)'
  BY NextSound
<1>3. ASSUME NEW c \in Cert, AddCertificate(c)
      PROVE  Extends
  <2>1. PICK t \in Seq(Cert) : AppendNew(certs, <<c>>) = certs \o t
    <3>1. <<c>> \in Seq(Cert)
      OBVIOUS
    <3> QED  BY <1>1, <3>1, AppendedBehind
  <2>2. certs' = certs \o t /\ keys' = keys /\ entries' = Reconcile(entries, certs', keys')
    BY <1>3, <2>1 DEF AddCertificate
  <2> QED  BY <1>1, <2>2, RematchingExtends
<1>4. ASSUME NEW k \in CallerKeys, AddPrivateKey(k)
      PROVE  Extends
  <2>1. certs' = certs /\ entries' = Reconcile(entries, certs', keys')
    BY <1>4 DEF AddPrivateKey
  <2>2. << >> \in Seq(Cert) /\ certs' = certs \o << >>
    BY <1>1, <2>1, ConcatEmptySeq
  <2>3. keys' \in Seq(Key)
    BY <1>2 DEF SoundStore
  <2> QED  BY <2>1, <2>2, <2>3, RematchingExtends
<1>5. ASSUME \E a, k, ch : AddKeyPair(a, k, ch)
      PROVE  Extends
  BY <1>5, AppendingExtends DEF AddKeyPair
<1>6. ASSUME \E a, c : AddTrustedCertificate(a, c)
      PROVE  Extends
  BY <1>6, AppendingExtends DEF AddTrustedCertificate
<1>7. ASSUME \E e, source : AddEntry(e, source)
      PROVE  Extends
  BY <1>7, AppendingExtends DEF AddEntry
<1>8. ASSUME NEW s \in Library, Add(s)
      PROVE  Extends
  <2>1. s.entries \in Seq(Sound(certs', keys')) /\ entries' = entries \o s.entries
    BY <1>8, LibraryIsSound, Merged
  <2> QED  BY <2>1, AppendingExtends
<1>9. ASSUME NEW c \in Cert, RemoveCertificate(c)
      PROVE  FALSE
  BY <1>9, RemoveCertificateShrinks
<1>10. ASSUME (\E k \in Key : RemovePrivateKey(k)) \/ (\E a \in Alias : RemoveEntry(a))
       PROVE  Extends
  BY <1>10, RemovalExtends
<1>11. CASE UNCHANGED vars
  BY <1>11, SameExtends DEF vars
<1> QED
  BY <1>3, <1>4, <1>5, <1>6, <1>7, <1>8, <1>9, <1>10, <1>11 DEF Next

(* In a re-matched store a call that takes nothing out may extend a chain at its
   end, and never reroutes it: certificates are appended to the store, and
   buildCertificateChain takes the first parent that it finds. *)
THEOREM StoreChainsOnlyExtend == Spec => ChainsOnlyExtend
<1>1. ASSUME References, [Next]_vars
      PROVE  [\/ Extends
              \/ ~(ToSet(certs) \subseteq ToSet(certs') /\ Len(entries) <= Len(entries'))
              \/ ~Settled]_vars
  BY <1>1, ReferencesEquivalent, NextExtends
<1> QED  BY <1>1, StoreReferences, PTL DEF Spec, ChainsOnlyExtend, Extends
-----------------------------------------------------------------------------
(***************************************************************************)
(* The store implements the key ring of Keyring.tla, whatever the          *)
(* constants: each call of model.go puts things in, takes one thing out,   *)
(* or changes nothing that the ring tells apart.  And no call gives an     *)
(* alias twice.                                                            *)
(***************************************************************************)

(* The bindings of a set of entries. *)
BindingOf(e) == [name |-> Fold[e.alias], key |-> e.key]
BindingsIn(T) == {BindingOf(e) : e \in T}

(* The ring's bindings are those of the store's entries. *)
LEMMA BindingsAreOfRange == Bindings = BindingsIn(ToSet(entries))
BY DEF Bindings, BindingsIn, BindingOf, ToSet

(* The bindings of entries that are sound are bindings of the ring. *)
LEMMA BindingsTyped ==
  ASSUME NEW cs \in Seq(Cert), NEW ks \in Seq(Key), NEW e \in Sound(cs, ks)
  PROVE  /\ BindingOf(e) \in [name : Alias, key : Key \cup {NoKey}]
         /\ BindingOf(e).name = Fold[e.alias] /\ BindingOf(e).key = e.key
         /\ e.key \in ToSet(ks) \cup {NoKey}
<1>1. e \in Entry /\ e.key \in ToSet(ks) \cup {NoKey}
  BY DEF Sound
<1> QED  BY <1>1, AliasFunctions DEF BindingOf, Entry

(* Calls that only add: the new bindings have names that are free, or that
   reconcileEntries made up, and every new key has a binding. *)
LEMMA PutStep ==
  ASSUME SoundStore(certs, keys, entries, origin)',
         ToSet(certs) \subseteq ToSet(certs'), ToSet(keys) \subseteq ToSet(keys'),
         BindingsIn(ToSet(entries)) \subseteq BindingsIn(ToSet(entries')),
         \A b \in BindingsIn(ToSet(entries')) \ BindingsIn(ToSet(entries)) :
            \/ \A old \in BindingsIn(ToSet(entries)) : old.name # b.name
            \/ \E k \in Key : b.key = k /\ b.name = Fold[Synthetic[k]],
         \A k \in ToSet(keys') \ ToSet(keys) : \E b \in BindingsIn(ToSet(entries')) : b.key = k
  PROVE  Ring!Put
<1>1. /\ certs' \in Seq(Cert) /\ keys' \in Seq(Key)
      /\ entries' \in Seq(Sound(certs', keys'))
  BY DEF SoundStore
<1>2. ToSet(certs') \subseteq Cert /\ ToSet(keys') \subseteq Key
  BY <1>1, RangeOf
<1>3. \A e \in ToSet(entries') : e \in Sound(certs', keys')
  BY <1>1, RangeOf
<1>4. \A b \in BindingsIn(ToSet(entries')) :
         b \in [name : Alias, key : Key \cup {NoKey}] /\ b.key \in ToSet(keys') \cup {NoKey}
  BY <1>1, <1>3, BindingsTyped DEF BindingsIn
<1>5. Bindings = BindingsIn(ToSet(entries)) /\ Bindings' = BindingsIn(ToSet(entries'))
  BY BindingsAreOfRange DEF Bindings, BindingsIn, BindingOf, ToSet
<1>6. \A b \in Bindings' \ Bindings : Ring!IsFreeFor(b)
  <2> SUFFICES ASSUME NEW b \in BindingsIn(ToSet(entries')) \ BindingsIn(ToSet(entries))
               PROVE  Ring!IsFreeFor(b)
    BY <1>5
  <2>1. CASE \A old \in BindingsIn(ToSet(entries)) : old.name # b.name
    BY <1>5, <2>1 DEF Ring!IsFreeFor
  <2>2. CASE \E k \in Key : b.key = k /\ b.name = Fold[Synthetic[k]]
    BY <2>2, Sentinels DEF Ring!IsFreeFor
  <2> QED  BY <2>1, <2>2
<1> QED  BY <1>2, <1>4, <1>5, <1>6 DEF Ring!Put, Ring!Binding

(* What reconcileEntries does to the bindings: it keeps them, and binds each
   key that has none to the name it makes up. *)
LEMMA ReconcileBinds ==
  ASSUME NEW cs \in Seq(Cert), NEW ks \in Seq(Key), NEW es \in Seq(Sound(cs, ks))
  PROVE  /\ BindingsIn(ToSet(es)) \subseteq BindingsIn(ToSet(Reconcile(es, cs, ks)))
         /\ \A b \in BindingsIn(ToSet(Reconcile(es, cs, ks))) \ BindingsIn(ToSet(es)) :
               \E k \in Key : b.key = k /\ b.name = Fold[Synthetic[k]]
         /\ \A k \in ToSet(ks) : \E b \in BindingsIn(ToSet(Reconcile(es, cs, ks))) : b.key = k
<1> DEFINE A == {Rechained(es[i], cs) : i \in DOMAIN es}
           B == {KeyEntry(k, cs) : k \in ToSet(ks) \ {es[i].key : i \in DOMAIN es}}
<1>1. ToSet(Reconcile(es, cs, ks)) = A \cup B
  BY ReconcileRange
<1>2. \A i \in DOMAIN es : BindingOf(Rechained(es[i], cs)) = BindingOf(es[i])
  <2> SUFFICES ASSUME NEW i \in DOMAIN es
               PROVE  BindingOf(Rechained(es[i], cs)) = BindingOf(es[i])
    OBVIOUS
  <2>1. es[i] \in Entry
    BY DEF Sound
  <2>2. Rechained(es[i], cs).alias = es[i].alias /\ Rechained(es[i], cs).key = es[i].key
    BY <2>1 DEF Rechained, Entry
  <2> QED  BY <2>2 DEF BindingOf
<1>3. BindingsIn(A) = BindingsIn(ToSet(es))
  <2>1. BindingsIn(A) = {BindingOf(Rechained(es[i], cs)) : i \in DOMAIN es}
    BY DEF BindingsIn
  <2>2. BindingsIn(ToSet(es)) = {BindingOf(es[i]) : i \in DOMAIN es}
    BY DEF BindingsIn, ToSet
  <2> QED  BY <1>2, <2>1, <2>2
<1>4. \A b \in BindingsIn(B) : \E k \in Key : b.key = k /\ b.name = Fold[Synthetic[k]]
  <2>1. ToSet(ks) \subseteq Key
    BY RangeOf
  <2> QED  BY <2>1 DEF BindingsIn, BindingOf, KeyEntry
<1> HIDE DEF A, B
<1>5. BindingsIn(ToSet(Reconcile(es, cs, ks))) = BindingsIn(ToSet(es)) \cup BindingsIn(B)
  BY <1>1, <1>3 DEF BindingsIn
<1>6. ASSUME NEW k \in ToSet(ks)
      PROVE  \E b \in BindingsIn(ToSet(Reconcile(es, cs, ks))) : b.key = k
  <2>1. PICK e \in ToSet(Reconcile(es, cs, ks)) : e.key = k
    BY ReconcileNamesKeys
  <2>2. BindingOf(e) \in BindingsIn(ToSet(Reconcile(es, cs, ks))) /\ BindingOf(e).key = k
    BY <2>1 DEF BindingsIn, BindingOf
  <2> QED  BY <2>2
<1> QED  BY <1>4, <1>5, <1>6

(* The calls that re-match put things in. *)
LEMMA RematchingPuts ==
  ASSUME SoundStore(certs, keys, entries, origin), SoundStore(certs, keys, entries, origin)',
         ToSet(certs) \subseteq ToSet(certs'), ToSet(keys) \subseteq ToSet(keys'),
         entries' = Reconcile(entries, certs', keys')
  PROVE  Ring!Put
<1>1. certs' \in Seq(Cert) /\ keys' \in Seq(Key)
  BY DEF SoundStore
<1>2. entries \in Seq(Sound(certs', keys'))
  BY SoundMonotonic, SeqMonotonic DEF SoundStore
<1>3. /\ BindingsIn(ToSet(entries)) \subseteq BindingsIn(ToSet(entries'))
      /\ \A b \in BindingsIn(ToSet(entries')) \ BindingsIn(ToSet(entries)) :
            \E k \in Key : b.key = k /\ b.name = Fold[Synthetic[k]]
  BY <1>1, <1>2, ReconcileBinds
<1>4. \A k \in ToSet(keys') : \E b \in BindingsIn(ToSet(entries')) : b.key = k
  BY <1>1, <1>2, ReconcileBinds
<1> QED  BY <1>3, <1>4, PutStep

(* Appended entries, under names that are free, put things in, if each new key
   is in one of them. *)
LEMMA AppendingPuts ==
  ASSUME SoundStore(certs, keys, entries, origin), SoundStore(certs, keys, entries, origin)',
         ToSet(certs) \subseteq ToSet(certs'), ToSet(keys) \subseteq ToSet(keys'),
         NEW new \in Seq(Entry), entries' = entries \o new,
         \A e \in ToSet(new) : ~HasAlias(entries, e.alias),
         \A k \in ToSet(keys') \ ToSet(keys) : \E e \in ToSet(new) : e.key = k
  PROVE  Ring!Put
<1>1. entries \in Seq(Entry)
  <2>1. Sound(certs, keys) \subseteq Entry
    BY DEF Sound
  <2> QED  BY <2>1, SeqMonotonic DEF SoundStore
<1>2. ToSet(entries') = ToSet(entries) \cup ToSet(new)
  BY <1>1, ConcatRange
<1>3. BindingsIn(ToSet(entries')) = BindingsIn(ToSet(entries)) \cup BindingsIn(ToSet(new))
  BY <1>2 DEF BindingsIn
<1>4. ASSUME NEW e \in ToSet(new), NEW old \in BindingsIn(ToSet(entries))
      PROVE  old.name # BindingOf(e).name
  <2>1. PICK i \in DOMAIN entries : old = BindingOf(entries[i])
    BY DEF BindingsIn, ToSet
  <2>2. Fold[entries[i].alias] # Fold[e.alias]
    BY DEF HasAlias
  <2> QED  BY <2>1, <2>2 DEF BindingOf
<1>5. \A b \in BindingsIn(ToSet(new)), old \in BindingsIn(ToSet(entries)) : old.name # b.name
  BY <1>4 DEF BindingsIn
<1>6. ASSUME NEW k \in ToSet(keys') \ ToSet(keys)
      PROVE  \E b \in BindingsIn(ToSet(entries')) : b.key = k
  <2>1. PICK e \in ToSet(new) : e.key = k
    OBVIOUS
  <2>2. BindingOf(e) \in BindingsIn(ToSet(entries')) /\ BindingOf(e).key = k
    BY <1>3, <2>1 DEF BindingsIn, BindingOf
  <2> QED  BY <2>2
<1> QED  BY <1>3, <1>5, <1>6, PutStep

(* One appended entry puts things in, if the new key is its key. *)
LEMMA AppendingOnePuts ==
  ASSUME SoundStore(certs, keys, entries, origin), SoundStore(certs, keys, entries, origin)',
         ToSet(certs) \subseteq ToSet(certs'), ToSet(keys) \subseteq ToSet(keys'),
         NEW e, entries' = Append(entries, e), ~HasAlias(entries, e.alias),
         ToSet(keys') \subseteq ToSet(keys) \cup {e.key}
  PROVE  Ring!Put
<1>1. entries \in Seq(Sound(certs, keys)) /\ entries' \in Seq(Sound(certs', keys'))
  BY DEF SoundStore
<1>2. e \in Sound(certs', keys')
  <2>1. /\ Len(entries) \in Nat /\ Len(entries') = Len(entries) + 1
        /\ entries'[Len(entries) + 1] = e
    BY <1>1
  <2> QED  BY <1>1, <2>1
<1>3. <<e>> \in Seq(Entry) /\ ToSet(<<e>>) = {e}
  BY <1>2 DEF Sound, ToSet
<1>4. entries' = entries \o <<e>>
  BY <1>1, AppendIsConcat
<1> QED  BY <1>3, <1>4, AppendingPuts

(* AddCertificate puts a certificate in, and re-matching names every key. *)
LEMMA AddCertificatePuts ==
  ASSUME SoundStore(certs, keys, entries, origin), NEW c \in Cert, AddCertificate(c)
  PROVE  Ring!Put
<1>1. SoundStore(certs, keys, entries, origin)'
  BY AddCertificateSound
<1>2. certs' = AppendNew(certs, <<c>>) /\ keys' = keys
  BY DEF AddCertificate
<1>3. ToSet(AppendNew(certs, <<c>>)) = ToSet(certs) \cup {c}
  <2>1. <<c>> \in Seq(Cert) /\ certs \in Seq(Cert)
    BY DEF SoundStore
  <2> QED  BY <2>1, AppendOne
<1>4. entries' = Reconcile(entries, certs', keys')
  BY <1>2 DEF AddCertificate
<1> QED  BY <1>1, <1>2, <1>3, <1>4, RematchingPuts

(* AddPrivateKey puts a key in, and re-matching names it. *)
LEMMA AddPrivateKeyPuts ==
  ASSUME SoundStore(certs, keys, entries, origin), NEW k \in Key, AddPrivateKey(k)
  PROVE  Ring!Put
<1>1. SoundStore(certs, keys, entries, origin)'
  BY AddPrivateKeySound
<1>2. certs' = certs /\ keys' = AppendNew(keys, <<k>>)
  BY DEF AddPrivateKey
<1>3. ToSet(AppendNew(keys, <<k>>)) = ToSet(keys) \cup {k}
  <2>1. <<k>> \in Seq(Key) /\ keys \in Seq(Key)
    BY DEF SoundStore
  <2> QED  BY <2>1, AppendOne
<1>4. entries' = Reconcile(entries, certs', keys')
  BY <1>2 DEF AddPrivateKey
<1> QED  BY <1>1, <1>2, <1>3, <1>4, RematchingPuts

(* AddKeyPair puts a chain and a key in, under a name that is free. *)
LEMMA AddKeyPairPuts ==
  ASSUME SoundStore(certs, keys, entries, origin),
         NEW a \in Alias, NEW k \in Key, NEW ch \in Seq(Cert), AddKeyPair(a, k, ch)
  PROVE  Ring!Put
<1> DEFINE e == [alias |-> Trim[a], key |-> CanonicalKey(k, keys'), status |-> "available",
                 chain |-> CanonicalChain(ch, certs'), trusted |-> FALSE]
<1>1. SoundStore(certs, keys, entries, origin)'
  BY AddKeyPairSound
<1>2. certs' = AppendNew(certs, ch) /\ keys' = AppendNew(keys, <<k>>)
  BY DEF AddKeyPair
<1>3. /\ ToSet(AppendNew(certs, ch)) = ToSet(certs) \cup ToSet(ch)
      /\ ToSet(AppendNew(keys, <<k>>)) = ToSet(keys) \cup {k}
  <2>1. <<k>> \in Seq(Key) /\ ToSet(<<k>>) = {k} /\ certs \in Seq(Cert) /\ keys \in Seq(Key)
    BY DEF SoundStore, ToSet
  <2>2. ToSet(AppendNew(keys, <<k>>)) = ToSet(keys) \cup {k}
    BY <2>1, AppendOne
  <2>3. ToSet(AppendNew(certs, ch)) = ToSet(certs) \cup ToSet(ch)
    BY <2>1, AppendNewRange
  <2> QED  BY <2>1, <2>2, <2>3
<1>4. entries' = Append(entries, e) /\ ~HasAlias(entries, e.alias)
  BY DEF AddKeyPair
<1>5. e.key = k
  BY <1>2, <1>3 DEF CanonicalKey
<1> HIDE DEF e
<1> QED  BY <1>1, <1>2, <1>3, <1>4, <1>5, AppendingOnePuts

(* AddTrustedCertificate puts a certificate in, and a name without a key. *)
LEMMA AddTrustedCertificatePuts ==
  ASSUME SoundStore(certs, keys, entries, origin),
         NEW a \in Alias, NEW c \in Cert, AddTrustedCertificate(a, c)
  PROVE  Ring!Put
<1> DEFINE e == [alias |-> Trim[a], key |-> NoKey, status |-> "none",
                 chain |-> CanonicalChain(<<c>>, certs'), trusted |-> TRUE]
<1>1. SoundStore(certs, keys, entries, origin)'
  BY AddTrustedCertificateSound
<1>2. certs' = AppendNew(certs, <<c>>) /\ keys' = keys
  BY DEF AddTrustedCertificate
<1>3. ToSet(AppendNew(certs, <<c>>)) = ToSet(certs) \cup {c}
  <2>1. <<c>> \in Seq(Cert) /\ certs \in Seq(Cert)
    BY DEF SoundStore
  <2> QED  BY <2>1, AppendOne
<1>4. entries' = Append(entries, e) /\ ~HasAlias(entries, e.alias)
  BY DEF AddTrustedCertificate
<1> HIDE DEF e
<1> QED  BY <1>1, <1>2, <1>3, <1>4, AppendingOnePuts

(* AddEntry puts an entry of another store in, with its chain and its key. *)
LEMMA AddEntryPuts ==
  ASSUME SoundStore(certs, keys, entries, origin),
         NEW cs, NEW ks, NEW e \in Sound(cs, ks),
         NEW source \in [Cert -> Alias], AddEntry(e, source)
  PROVE  Ring!Put
<1> DEFINE f == [e EXCEPT !.key = CanonicalKey(@, keys'), !.chain = CanonicalChain(@, certs')]
<1>1. SoundStore(certs, keys, entries, origin)'
  BY AddEntrySound
<1>2. e \in Entry /\ e.chain \in Seq(Cert) /\ e.key \in Key \cup {NoKey}
  BY DEF Sound, Entry
<1>3. ToSet(certs) \subseteq ToSet(certs')
  <2>1. ToSet(AppendNew(certs, e.chain)) = ToSet(certs) \cup ToSet(e.chain)
    BY <1>2, AppendNewRange DEF SoundStore
  <2> QED  BY <2>1 DEF AddEntry
<1>4. /\ ToSet(keys) \subseteq ToSet(keys')
      /\ ToSet(keys') \subseteq ToSet(keys) \cup ({e.key} \ {NoKey})
      /\ e.key # NoKey => e.key \in ToSet(keys')
  <2>1. CASE e.key = NoKey
    BY <2>1 DEF AddEntry
  <2>2. CASE e.key # NoKey
    <3>1. <<e.key>> \in Seq(Key) /\ ToSet(<<e.key>>) = {e.key} /\ keys \in Seq(Key)
      BY <1>2, <2>2 DEF SoundStore, ToSet
    <3>2. ToSet(AppendNew(keys, <<e.key>>)) = ToSet(keys) \cup {e.key}
      BY <3>1, AppendOne
    <3> QED  BY <2>2, <3>1, <3>2 DEF AddEntry
  <2> QED  BY <2>1, <2>2
<1>5. entries' = Append(entries, f) /\ ~HasAlias(entries, e.alias)
  BY DEF AddEntry
<1>6. f.alias = e.alias /\ f.key = CanonicalKey(e.key, keys')
  BY <1>2 DEF Entry
<1>7. f.key = e.key
  BY <1>4, <1>6 DEF CanonicalKey
<1> HIDE DEF f
<1> QED  BY <1>1, <1>3, <1>4, <1>5, <1>6, <1>7, AppendingOnePuts

(* In a store that Open returns every key has an entry. *)
LEMMA LibraryKeysNamed ==
  ASSUME NEW s \in Library, NEW k \in ToSet(s.keys)
  PROVE  \E e \in ToSet(s.entries) : e.key = k
<1>1. PICK f \in Files : s = Opened(f)
  BY DEF Library
<1> DEFINE es == Reconcile(f.entries, f.certs, f.keys)
<1>2. f.entries \in Seq(Sound(f.certs, f.keys)) /\ f.certs \in Seq(Cert) /\ f.keys \in Seq(Key)
  BY FileEntries
<1>3. \A l \in ToSet(f.keys) : \E e \in ToSet(es) : e.key = l
  BY <1>2, ReconcileSettles
<1>4. s = [f EXCEPT !.entries = es]
  BY <1>1 DEF Opened
<1> HIDE DEF es
<1>5. s.entries = es /\ s.keys = f.keys
  BY <1>4, OpenedFiles DEF IsOpened
<1> QED  BY <1>3, <1>5

(* Add puts the objects and the entries of another store in. *)
LEMMA AddPuts ==
  ASSUME SoundStore(certs, keys, entries, origin), NEW s \in Library, Add(s)
  PROVE  Ring!Put
<1>1. IsSoundStore(s)
  BY LibraryIsSound
<1>2. SoundStore(certs, keys, entries, origin)'
  BY <1>1, AddSound
<1>3. /\ ToSet(certs) \subseteq ToSet(certs') /\ ToSet(keys) \subseteq ToSet(keys')
      /\ ToSet(keys') = ToSet(keys) \cup ToSet(s.keys)
      /\ s.entries \in Seq(Sound(certs', keys'))
      /\ entries' = entries \o s.entries
  BY <1>1, Merged
<1>4. s.entries \in Seq(Entry)
  <2>1. Sound(certs', keys') \subseteq Entry
    BY DEF Sound
  <2> QED  BY <1>3, <2>1, SeqMonotonic
<1>5. \A e \in ToSet(s.entries) : ~HasAlias(entries, e.alias)
  BY DEF Add, ToSet
<1>6. \A k \in ToSet(keys') \ ToSet(keys) : \E e \in ToSet(s.entries) : e.key = k
  BY <1>3, LibraryKeysNamed
<1> QED  BY <1>2, <1>3, <1>4, <1>5, <1>6, AppendingPuts

-----------------------------------------------------------------------------
(* Removing a certificate takes it out of the ring, and no binding changes. *)
LEMMA RemoveCertificateTakes ==
  ASSUME SoundStore(certs, keys, entries, origin), NEW c \in Cert, RemoveCertificate(c)
  PROVE  Ring!TakeCertificate(c) /\ c \in ToSet(certs)
<1> DEFINE wanted == (Cert \cup {NoCert}) \ {c}
<1>1. /\ certs \in Seq(Cert) /\ NoDuplicates(certs) /\ c \in ToSet(certs)
      /\ certs' = RemoveAt(certs, IndexOf(certs, c)) /\ keys' = keys
      /\ entries' = [i \in DOMAIN entries |->
                       [entries[i] EXCEPT !.chain = Keep(@, wanted)]]
  BY DEF SoundStore, RemoveCertificate
<1>2. ToSet(certs') = ToSet(certs) \ {c}
  BY <1>1, RemoveElement
<1> HIDE DEF wanted
<1>3. DOMAIN entries' = DOMAIN entries
  BY <1>1
<1>4. ASSUME NEW i \in DOMAIN entries
      PROVE  entries'[i].alias = entries[i].alias /\ entries'[i].key = entries[i].key
  <2>1. entries[i] \in Entry
    BY DEF SoundStore, Sound
  <2>2. entries'[i] = [entries[i] EXCEPT !.chain = Keep(entries[i].chain, wanted)]
    BY <1>1
  <2> QED  BY <2>1, <2>2 DEF Entry
<1>5. Bindings' = Bindings
  BY <1>3, <1>4 DEF Bindings
<1> QED  BY <1>1, <1>2, <1>5 DEF Ring!TakeCertificate

(* Removing a key takes it out of the ring and from all of its names. *)
LEMMA RemovePrivateKeyTakes ==
  ASSUME SoundStore(certs, keys, entries, origin), NEW k \in Key, RemovePrivateKey(k)
  PROVE  Ring!TakeKey(k) /\ k \in ToSet(keys)
<1> DEFINE freed(b) == IF b.key = k THEN [b EXCEPT !.key = NoKey] ELSE b
<1>1. /\ keys \in Seq(Key) /\ NoDuplicates(keys) /\ k \in ToSet(keys)
      /\ keys' = RemoveAt(keys, IndexOf(keys, k)) /\ certs' = certs
      /\ entries' = [i \in DOMAIN entries |->
                       IF entries[i].key = k
                       THEN [entries[i] EXCEPT !.key = NoKey, !.status = "unavailable"]
                       ELSE entries[i]]
  BY DEF SoundStore, RemovePrivateKey
<1>2. ToSet(keys') = ToSet(keys) \ {k}
  BY <1>1, RemoveElement
<1>3. DOMAIN entries' = DOMAIN entries
  BY <1>1
<1>4. ASSUME NEW i \in DOMAIN entries
      PROVE  BindingOf(entries'[i]) = freed(BindingOf(entries[i]))
  <2>1. entries[i] \in Entry
    BY DEF SoundStore, Sound
  <2>2. CASE entries[i].key = k
    <3>1. entries'[i] = [entries[i] EXCEPT !.key = NoKey, !.status = "unavailable"]
      BY <1>1, <2>2
    <3>2. entries'[i].alias = entries[i].alias /\ entries'[i].key = NoKey
      BY <2>1, <3>1 DEF Entry
    <3> QED  BY <2>2, <3>2 DEF BindingOf
  <2>3. CASE entries[i].key # k
    BY <1>1, <2>3 DEF BindingOf
  <2> QED  BY <2>2, <2>3
<1>5. Bindings' = {freed(b) : b \in Bindings}
  <2>1. Bindings' = {BindingOf(entries'[i]) : i \in DOMAIN entries}
    BY <1>3 DEF Bindings, BindingOf
  <2>2. Bindings = {BindingOf(entries[i]) : i \in DOMAIN entries}
    BY DEF Bindings, BindingOf
  <2> HIDE DEF freed
  <2> QED  BY <1>4, <2>1, <2>2
<1>6. {freed(b) : b \in Bindings}
        = {b \in Bindings : b.key # k}
            \cup {[b EXCEPT !.key = NoKey] : b \in {x \in Bindings : x.key = k}}
  OBVIOUS
<1> HIDE DEF freed
<1> QED  BY <1>1, <1>2, <1>5, <1>6 DEF Ring!TakeKey

(* Removing an entry makes the ring forget a binding, unless another entry has
   the same name and key. *)
LEMMA RemoveEntryForgets ==
  ASSUME SoundStore(certs, keys, entries, origin), NEW a, RemoveEntry(a)
  PROVE  \/ \E b \in Bindings : Ring!Forget(b)
         \/ UNCHANGED <<ToSet(certs), ToSet(keys), Bindings>>
<1>1. PICK i \in DOMAIN entries :
         entries' = RemoveAt(entries, i) /\ UNCHANGED <<certs, keys, origin>>
  BY DEF RemoveEntry
<1> DEFINE b == BindingOf(entries[i])
           rest == {BindingOf(entries[j]) : j \in (DOMAIN entries) \ {i}}
<1>2. ToSet(entries') = {entries[j] : j \in (DOMAIN entries) \ {i}}
  BY <1>1, RemoveAtProperties DEF SoundStore
<1>3. Bindings' = rest
  <2>1. Bindings' = BindingsIn(ToSet(entries'))
    BY DEF Bindings, BindingsIn, BindingOf, ToSet
  <2> QED  BY <1>2, <2>1 DEF BindingsIn
<1>4. Bindings = rest \cup {b}
  BY DEF Bindings, BindingOf
<1> HIDE DEF rest, b
<1>5. CASE b \in rest
  BY <1>1, <1>3, <1>4, <1>5
<1>6. CASE b \notin rest
  <2>1. b \in Bindings /\ Bindings' = Bindings \ {b}
    BY <1>3, <1>4, <1>6
  <2> QED  BY <1>1, <2>1 DEF Ring!Forget
<1> QED  BY <1>5, <1>6

-----------------------------------------------------------------------------
(* Every step of the store is a step of the ring, or leaves it alone. *)
LEMMA NextRing ==
  ASSUME References, [Next]_vars
  PROVE  [Ring!RingNext]_(Ring!ringVars)
<1>1. SoundStore(certs, keys, entries, origin)
  BY ReferencesEquivalent
<1>2. ASSUME Ring!Put  PROVE Ring!RingNext
  BY <1>2 DEF Ring!RingNext
<1>3. ASSUME NEW c \in Cert, AddCertificate(c)  PROVE Ring!Put
  BY <1>1, <1>3, AddCertificatePuts
<1>4. ASSUME NEW k \in CallerKeys, AddPrivateKey(k)  PROVE Ring!Put
  BY <1>1, <1>4, CallerInputs, AddPrivateKeyPuts
<1>5. ASSUME NEW a \in CallerAliases, NEW k \in CallerKeys, NEW ch \in CallerChains,
             AddKeyPair(a, k, ch)
      PROVE  Ring!Put
  BY <1>1, <1>5, CallerInputs, AddKeyPairPuts
<1>6. ASSUME NEW a \in CallerAliases, NEW c \in Cert, AddTrustedCertificate(a, c)
      PROVE  Ring!Put
  BY <1>1, <1>6, CallerInputs, AddTrustedCertificatePuts
<1>7. ASSUME NEW s \in Library, NEW i \in DOMAIN s.entries, AddEntry(s.entries[i], s.origin)
      PROVE  Ring!Put
  <2>1. s.entries \in Seq(Sound(s.certs, s.keys)) /\ s.origin \in [Cert -> Alias]
    BY LibraryIsSound DEF IsSoundStore
  <2>2. s.entries[i] \in Sound(s.certs, s.keys)
    BY <2>1
  <2> QED  BY <1>1, <1>7, <2>1, <2>2, AddEntryPuts
<1>8. ASSUME NEW cs \in Library, NEW ks \in Library, NEW e \in OpenEntry(cs, ks),
             AddEntry(e, cs.origin)
      PROVE  Ring!Put
  <2>1. e \in Sound(cs.certs, ks.keys) /\ cs.origin \in [Cert -> Alias]
    BY LibraryIsSound, OpenEntryIsSound DEF IsSoundStore
  <2> QED  BY <1>1, <1>8, <2>1, AddEntryPuts
<1>9. ASSUME NEW s \in Library, Add(s)  PROVE Ring!Put
  BY <1>1, <1>9, AddPuts
<1>10. ASSUME NEW c \in Cert, RemoveCertificate(c)  PROVE Ring!RingNext
  BY <1>1, <1>10, RemoveCertificateTakes DEF Ring!RingNext
<1>11. ASSUME NEW k \in Key, RemovePrivateKey(k)  PROVE Ring!RingNext
  BY <1>1, <1>11, RemovePrivateKeyTakes DEF Ring!RingNext
<1>12. ASSUME NEW a \in Alias, RemoveEntry(a)  PROVE [Ring!RingNext]_(Ring!ringVars)
  BY <1>1, <1>12, RemoveEntryForgets DEF Ring!RingNext, Ring!ringVars
<1>13. CASE UNCHANGED vars
  BY <1>13 DEF vars, Ring!ringVars, Bindings
<1> QED
  BY <1>2, <1>3, <1>4, <1>5, <1>6, <1>7, <1>8, <1>9, <1>10, <1>11, <1>12, <1>13 DEF Next

(* The store of model.go implements the key ring: an addition or a merge loses
   nothing, gives no name twice and leaves no new key without a name, and a
   removal takes out the one thing it was asked for. *)
THEOREM StoreImplementsKeyring == Spec => ImplementsKeyring
<1>1. Init => Ring!RingInit
  BY DEF Init, Ring!RingInit, Bindings, ToSet
<1>2. References /\ [Next]_vars => [Ring!RingNext]_(Ring!ringVars)
  BY NextRing
<1> QED  BY <1>1, <1>2, StoreReferences, PTL DEF Spec, ImplementsKeyring, Ring!RingSpec

-----------------------------------------------------------------------------
(***************************************************************************)
(* Aliases: no call gives one twice.                                       *)
(***************************************************************************)
Excused == SyntheticFolds \cup SharedInFile

(* The entries es share an alias only if they are excused. *)
Named(es) ==
  \A i, j \in DOMAIN es :
     i # j /\ Fold[es[i].alias] = Fold[es[j].alias] => Fold[es[i].alias] \in Excused

(* Calls that leave the aliases alone. *)
LEMMA SameAliases ==
  ASSUME NEW es, NEW fs, Named(es), DOMAIN fs = DOMAIN es,
         \A i \in DOMAIN es : fs[i].alias = es[i].alias
  PROVE  Named(fs)
BY DEF Named

(* Entries that follow others with aliases that are free or excused. *)
LEMMA ConcatNamed ==
  ASSUME NEW S, NEW es \in Seq(S), NEW new \in Seq(S), Named(es), Named(new),
         \A e \in ToSet(new) : Fold[e.alias] \in Excused \/ ~HasAlias(es, e.alias)
  PROVE  Named(es \o new)
<1> DEFINE u == es \o new
<1>1. /\ DOMAIN es = 1 .. Len(es) /\ Len(es) \in Nat
      /\ DOMAIN new = 1 .. Len(new) /\ Len(new) \in Nat
  BY RangeOf
<1>2. DOMAIN u = 1 .. (Len(es) + Len(new))
  OBVIOUS
<1>3. \A i \in DOMAIN u : \/ i \in DOMAIN es /\ u[i] = es[i]
                          \/ i - Len(es) \in DOMAIN new /\ u[i] = new[i - Len(es)]
  BY <1>1, <1>2
<1> HIDE DEF u
<1>4. ASSUME NEW i \in DOMAIN es, NEW j \in DOMAIN new,
             Fold[es[i].alias] = Fold[new[j].alias]
      PROVE  Fold[es[i].alias] \in Excused
  BY <1>4 DEF HasAlias, ToSet
<1>5. ASSUME NEW i \in DOMAIN u, NEW j \in DOMAIN u, i # j,
             Fold[u[i].alias] = Fold[u[j].alias]
      PROVE  Fold[u[i].alias] \in Excused
  <2>1. CASE i \in DOMAIN es /\ u[i] = es[i] /\ j \in DOMAIN es /\ u[j] = es[j]
    BY <1>5, <2>1 DEF Named
  <2>2. CASE /\ i - Len(es) \in DOMAIN new /\ u[i] = new[i - Len(es)]
             /\ j - Len(es) \in DOMAIN new /\ u[j] = new[j - Len(es)]
    <3>1. i - Len(es) # j - Len(es)
      BY <1>1, <1>2, <1>5
    <3> QED  BY <1>5, <2>2, <3>1 DEF Named
  <2>3. CASE /\ i \in DOMAIN es /\ u[i] = es[i]
             /\ j - Len(es) \in DOMAIN new /\ u[j] = new[j - Len(es)]
    BY <1>4, <1>5, <2>3
  <2>4. CASE /\ j \in DOMAIN es /\ u[j] = es[j]
             /\ i - Len(es) \in DOMAIN new /\ u[i] = new[i - Len(es)]
    BY <1>4, <1>5, <2>4
  <2> QED  BY <1>3, <2>1, <2>2, <2>3, <2>4
<1> QED  BY <1>5 DEF Named, u

(* Removing an entry moves the others, and changes none. *)
LEMMA RemoveAtNamed ==
  ASSUME NEW S, NEW es \in Seq(S), NEW n \in DOMAIN es, Named(es)
  PROVE  Named(RemoveAt(es, n))
<1> DEFINE a == SubSeq(es, 1, n - 1)
           b == SubSeq(es, n + 1, Len(es))
           r == a \o b
           at(i) == IF i < n THEN i ELSE i + 1
<1>1. DOMAIN es = 1 .. Len(es) /\ Len(es) \in Nat /\ n \in 1 .. Len(es)
  BY RangeOf
<1>2. /\ a \in Seq(S) /\ Len(a) = n - 1
      /\ \A i \in 1 .. (n - 1) : a[i] = es[i]
  BY <1>1
<1>3. /\ b \in Seq(S) /\ Len(b) = Len(es) - n
      /\ \A i \in 1 .. (Len(es) - n) : b[i] = es[n + i]
  BY <1>1
<1>4. RemoveAt(es, n) = r
  BY DEF RemoveAt
<1> HIDE DEF a, b
<1>5. /\ DOMAIN r = 1 .. (Len(es) - 1)
      /\ \A i \in DOMAIN r : r[i] = IF i < n THEN a[i] ELSE b[i - (n - 1)]
  <2>1. r \in Seq(S) /\ Len(r) = Len(a) + Len(b)
    BY <1>2, <1>3, ConcatProperties
  <2>2. \A i \in 1 .. (Len(a) + Len(b)) :
           r[i] = IF i <= Len(a) THEN a[i] ELSE b[i - Len(a)]
    BY <1>2, <1>3, ConcatProperties
  <2> HIDE DEF r
  <2>3. DOMAIN r = 1 .. (Len(es) - 1) /\ Len(a) + Len(b) = Len(es) - 1
    BY <1>1, <1>2, <1>3, <2>1, RangeOf
  <2>4. ASSUME NEW i \in 1 .. (Len(es) - 1)  PROVE (i <= Len(a)) = (i < n)
    BY <1>1, <1>2
  <2> QED  BY <1>2, <2>2, <2>3, <2>4
<1> HIDE DEF r
<1>6. ASSUME NEW i \in DOMAIN r  PROVE at(i) \in DOMAIN es /\ r[i] = es[at(i)]
  <2>1. i \in 1 .. (Len(es) - 1)
    BY <1>5
  <2>2. CASE i < n
    BY <1>1, <1>2, <1>5, <2>1, <2>2
  <2>3. CASE ~(i < n)
    <3>1. i - (n - 1) \in 1 .. (Len(es) - n) /\ n + (i - (n - 1)) = i + 1
      BY <1>1, <2>1, <2>3
    <3>2. r[i] = es[i + 1]
      BY <1>3, <1>5, <2>3, <3>1
    <3> QED  BY <1>1, <2>1, <2>3, <3>2
  <2> QED  BY <2>2, <2>3
<1>7. \A i, j \in DOMAIN r : i # j => at(i) # at(j)
  BY <1>1, <1>5
<1> HIDE DEF at
<1> QED  BY <1>4, <1>6, <1>7 DEF Named

(* Re-matching names keys by aliases that it makes up. *)
LEMMA ReconcileNamed ==
  ASSUME NEW cs \in Seq(Cert), NEW ks \in Seq(Key), NEW es \in Seq(Sound(cs, ks)), Named(es)
  PROVE  Named(Reconcile(es, cs, ks))
<1> DEFINE os == Orphans(es, ks)
           A == [i \in DOMAIN es |-> Rechained(es[i], cs)]
           B == [j \in DOMAIN os |-> KeyEntry(os[j], cs)]
<1>1. os \in Seq(Key) /\ ToSet(os) \subseteq ToSet(ks)
  BY KeepProperties DEF Orphans
<1> HIDE DEF os
<1>2. \A i \in DOMAIN es : Rechained(es[i], cs) \in Sound(cs, ks)
  BY RechainedIsSound
<1>3. \A j \in DOMAIN os : KeyEntry(os[j], cs) \in Sound(cs, ks)
  BY <1>1, KeyEntryIsSound DEF ToSet
<1>4. A \in Seq(Sound(cs, ks)) /\ B \in Seq(Sound(cs, ks))
  <2>1. /\ DOMAIN es = 1 .. Len(es) /\ Len(es) \in Nat
        /\ DOMAIN os = 1 .. Len(os) /\ Len(os) \in Nat
    BY <1>1, RangeOf
  <2> QED  BY <1>2, <1>3, <2>1
<1>5. Named(A)
  <2>1. ASSUME NEW i \in DOMAIN es  PROVE Rechained(es[i], cs).alias = es[i].alias
    <3>1. es[i] \in Entry
      BY DEF Sound
    <3> QED  BY <3>1 DEF Rechained, Entry
  <2> QED  BY <2>1, SameAliases
<1>6. \A e \in ToSet(B) : Fold[e.alias] \in Excused
  <2>1. \A j \in DOMAIN os : os[j] \in Key
    BY <1>1
  <2> QED  BY <2>1 DEF ToSet, KeyEntry, Excused, SyntheticFolds
<1>7. Named(B)
  BY <1>6 DEF Named, ToSet
<1>8. Reconcile(es, cs, ks) = A \o B
  BY DEF Reconcile, Orphans, os
<1> HIDE DEF A, B
<1> QED  BY <1>4, <1>5, <1>6, <1>7, <1>8, ConcatNamed

(* The stores that Open returns. *)
LEMMA LibraryNamed ==
  ASSUME NEW s \in Library
  PROVE  Named(s.entries)
<1>1. PICK f \in Files : s = Opened(f)
  BY DEF Library
<1> DEFINE es == Reconcile(f.entries, f.certs, f.keys)
<1>2. Named(f.entries)
  BY DEF Named, Excused, SharedInFile
<1>3. Named(es)
  <2>1. /\ f.entries \in Seq(Sound(f.certs, f.keys))
        /\ f.certs \in Seq(Cert) /\ f.keys \in Seq(Key)
    BY FileEntries
  <2> QED  BY <1>2, <2>1, ReconcileNamed
<1>4. s = [f EXCEPT !.entries = es]
  BY <1>1 DEF Opened
<1> HIDE DEF es
<1>5. s.entries = es
  BY <1>4, OpenedFiles DEF IsOpened
<1> QED  BY <1>3, <1>5

(* Every step keeps the aliases apart. *)
LEMMA NextNamed ==
  ASSUME References, Named(entries), [Next]_vars
  PROVE  Named(entries')
<1>1. SoundStore(certs, keys, entries, origin)
  BY ReferencesEquivalent
<1>2. SoundStore(certs, keys, entries, origin)'
  BY <1>1, NextSound
<1>3. entries \in Seq(Entry)
  BY DEF References, TypeOK
<1>4. ASSUME entries' = Reconcile(entries, certs', keys'),
             ToSet(certs) \subseteq ToSet(certs'), ToSet(keys) \subseteq ToSet(keys')
      PROVE  Named(entries')
  <2>1. certs' \in Seq(Cert) /\ keys' \in Seq(Key)
    BY <1>2 DEF SoundStore
  <2>2. entries \in Seq(Sound(certs', keys'))
    BY <1>1, <1>4, SoundMonotonic, SeqMonotonic DEF SoundStore
  <2> QED  BY <1>4, <2>1, <2>2, ReconcileNamed
<1>5. ASSUME NEW e, entries' = Append(entries, e), ~HasAlias(entries, e.alias)
      PROVE  Named(entries')
  <2> DEFINE S == Entry \cup {e}
  <2>1. entries \in Seq(S) /\ <<e>> \in Seq(S) /\ ToSet(<<e>>) = {e}
    BY <1>3, SeqMonotonic DEF ToSet
  <2>2. entries' = entries \o <<e>>
    BY <1>3, <1>5, AppendIsConcat
  <2>3. Named(<<e>>)
    BY DEF Named
  <2> HIDE DEF S
  <2> QED  BY <1>5, <2>1, <2>2, <2>3, ConcatNamed
<1>6. ASSUME NEW c \in Cert, AddCertificate(c)  PROVE Named(entries')
  <2>1. <<c>> \in Seq(Cert) /\ certs \in Seq(Cert)
    BY <1>1 DEF SoundStore
  <2>2. ToSet(AppendNew(certs, <<c>>)) = ToSet(certs) \cup {c}
    BY <2>1, AppendOne
  <2>3. /\ certs' = AppendNew(certs, <<c>>) /\ keys' = keys
        /\ entries' = Reconcile(entries, certs', keys')
    BY <1>6 DEF AddCertificate
  <2> QED  BY <1>4, <2>2, <2>3
<1>7. ASSUME NEW k \in Key, AddPrivateKey(k)  PROVE Named(entries')
  <2>1. <<k>> \in Seq(Key) /\ keys \in Seq(Key)
    BY <1>1 DEF SoundStore
  <2>2. ToSet(AppendNew(keys, <<k>>)) = ToSet(keys) \cup {k}
    BY <2>1, AppendOne
  <2>3. /\ certs' = certs /\ keys' = AppendNew(keys, <<k>>)
        /\ entries' = Reconcile(entries, certs', keys')
    BY <1>7 DEF AddPrivateKey
  <2> QED  BY <1>4, <2>2, <2>3
<1>8. ASSUME NEW a, NEW k, NEW ch, AddKeyPair(a, k, ch)  PROVE Named(entries')
  <2> DEFINE e == [alias |-> Trim[a], key |-> CanonicalKey(k, keys'), status |-> "available",
                   chain |-> CanonicalChain(ch, certs'), trusted |-> FALSE]
  <2>1. entries' = Append(entries, e) /\ ~HasAlias(entries, e.alias)
    BY <1>8 DEF AddKeyPair
  <2> HIDE DEF e
  <2> QED  BY <1>5, <2>1
<1>9. ASSUME NEW a, NEW c, AddTrustedCertificate(a, c)  PROVE Named(entries')
  <2> DEFINE e == [alias |-> Trim[a], key |-> NoKey, status |-> "none",
                   chain |-> CanonicalChain(<<c>>, certs'), trusted |-> TRUE]
  <2>1. entries' = Append(entries, e) /\ ~HasAlias(entries, e.alias)
    BY <1>9 DEF AddTrustedCertificate
  <2> HIDE DEF e
  <2> QED  BY <1>5, <2>1
<1>10. ASSUME NEW e \in Entry, NEW source, AddEntry(e, source)  PROVE Named(entries')
  <2> DEFINE f == [e EXCEPT !.key = CanonicalKey(@, keys'), !.chain = CanonicalChain(@, certs')]
  <2>1. f.alias = e.alias
    BY DEF Entry
  <2>2. entries' = Append(entries, f) /\ ~HasAlias(entries, e.alias)
    BY <1>10 DEF AddEntry
  <2> HIDE DEF f
  <2> QED  BY <1>5, <2>1, <2>2
<1>11. ASSUME NEW s \in Library, NEW i \in DOMAIN s.entries  PROVE s.entries[i] \in Entry
  <2>1. s.entries \in Seq(Sound(s.certs, s.keys))
    BY LibraryIsSound DEF IsSoundStore
  <2> QED  BY <2>1 DEF Sound
<1>12. ASSUME NEW cs \in Library, NEW ks \in Library, NEW e \in OpenEntry(cs, ks)
       PROVE  e \in Entry
  BY OpenEntryIsSound DEF Sound
<1>13. ASSUME NEW s \in Library, Add(s)  PROVE Named(entries')
  <2>1. IsSoundStore(s)
    BY LibraryIsSound
  <2>2. s.entries \in Seq(Sound(certs', keys')) /\ entries' = entries \o s.entries
    BY <1>1, <1>13, <2>1, Merged
  <2>3. s.entries \in Seq(Entry)
    <3>1. Sound(certs', keys') \subseteq Entry
      BY DEF Sound
    <3> QED  BY <2>2, <3>1, SeqMonotonic
  <2>4. \A e \in ToSet(s.entries) : ~HasAlias(entries, e.alias)
    BY <1>13 DEF Add, ToSet
  <2> QED  BY <1>3, <2>2, <2>3, <2>4, LibraryNamed, ConcatNamed
<1>14. ASSUME NEW c, RemoveCertificate(c)  PROVE Named(entries')
  <2> DEFINE wanted == (Cert \cup {NoCert}) \ {c}
  <2>1. entries' = [i \in DOMAIN entries |-> [entries[i] EXCEPT !.chain = Keep(@, wanted)]]
    BY <1>14 DEF RemoveCertificate
  <2> HIDE DEF wanted
  <2>2. ASSUME NEW i \in DOMAIN entries  PROVE entries'[i].alias = entries[i].alias
    <3>1. entries[i] \in Entry
      BY <1>3
    <3> QED  BY <2>1, <3>1 DEF Entry
  <2> QED  BY <2>1, <2>2, SameAliases
<1>15. ASSUME NEW k, RemovePrivateKey(k)  PROVE Named(entries')
  <2>1. entries' = [i \in DOMAIN entries |->
                      IF entries[i].key = k
                      THEN [entries[i] EXCEPT !.key = NoKey, !.status = "unavailable"]
                      ELSE entries[i]]
    BY <1>15 DEF RemovePrivateKey
  <2>2. ASSUME NEW i \in DOMAIN entries  PROVE entries'[i].alias = entries[i].alias
    <3>1. entries[i] \in Entry
      BY <1>3
    <3> QED  BY <2>1, <3>1 DEF Entry
  <2> QED  BY <2>1, <2>2, SameAliases
<1>16. ASSUME NEW a, RemoveEntry(a)  PROVE Named(entries')
  <2>1. PICK i \in DOMAIN entries : entries' = RemoveAt(entries, i)
    BY <1>16 DEF RemoveEntry
  <2> QED  BY <1>3, <2>1, RemoveAtNamed
<1>17. CASE UNCHANGED vars
  BY <1>17 DEF vars
<1> QED
  BY <1>6, <1>7, <1>8, <1>9, <1>10, <1>11, <1>12, <1>13, <1>14, <1>15, <1>16, <1>17,
     CallerInputs, LibraryIsSound DEF Next, IsSoundStore

(* No call of model.go, and no merge, gives an alias to a second entry: two
   entries share one only if reconcileEntries made it up or one input brought
   them both. *)
THEOREM StoreNamedAliasesUnique == Spec => []NamedAliasesUnique
<1>1. Init => NamedAliasesUnique
  BY DEF Init, NamedAliasesUnique
<1>2. ASSUME References, NamedAliasesUnique, [Next]_vars  PROVE NamedAliasesUnique'
  <2>1. Named(entries)
    BY <1>2 DEF NamedAliasesUnique, Named, Excused
  <2>2. Named(entries')
    BY <1>2, <2>1, NextNamed
  <2> QED  BY <2>2 DEF NamedAliasesUnique, Named, Excused
<1> QED  BY <1>1, <1>2, StoreReferences, PTL DEF Spec
=============================================================================
