---------------------------- MODULE EncodeProofs ----------------------------
(***************************************************************************)
(* What Store.Encode writes, of every store that the calls of Store can    *)
(* produce: nothing is lost in silence, the report adds up, a key store    *)
(* names no two entries alike, and an entry that is exported can be opened *)
(* again.  Encoding changes nothing, so each property follows from the     *)
(* inductive invariant of the store.                                       *)
(***************************************************************************)
EXTENDS Encode, StoreProofs

-----------------------------------------------------------------------------
(***************************************************************************)
(* Items.                                                                  *)
(***************************************************************************)
AnItem == [alias : Alias, key : Key \cup {NoKey}, chain : Seq(Cert)]

(* An output of one certificate in each item. *)
LEMMA OneCertEach ==
  ASSUME NEW cs \in Seq(Cert), NEW items, DOMAIN items = 1 .. Len(cs),
         \A i \in 1 .. Len(cs) : items[i].key = NoKey /\ items[i].chain = <<cs[i]>>
  PROVE  CertsOf(items) = ToSet(cs) /\ KeysOf(items) = {}
<1>1. \A i \in 1 .. Len(cs) : ToSet(items[i].chain) = {cs[i]}
  BY DEF ToSet
<1>2. CertsOf(items) = UNION {ToSet(items[i].chain) : i \in 1 .. Len(cs)}
  BY DEF CertsOf
<1>3. ToSet(cs) = {cs[i] : i \in 1 .. Len(cs)}
  BY RangeOf
<1>4. CertsOf(items) \subseteq ToSet(cs)
  <2> SUFFICES ASSUME NEW c \in CertsOf(items)  PROVE c \in ToSet(cs)
    OBVIOUS
  <2>1. PICK i \in 1 .. Len(cs) : c \in ToSet(items[i].chain)
    BY <1>2
  <2>2. c \in {cs[i]}
    BY <1>1, <2>1
  <2> QED  BY <1>3, <2>2
<1>5. ToSet(cs) \subseteq CertsOf(items)
  <2>1. ASSUME NEW i \in 1 .. Len(cs)  PROVE cs[i] \in CertsOf(items)
    BY <1>1, <1>2
  <2> QED  BY <1>3, <2>1
<1>6. KeysOf(items) = {}
  BY DEF KeysOf
<1> QED  BY <1>4, <1>5, <1>6

(* The outputs that have a certificate, or a key, in each item. *)
LEMMA CertItemsHold ==
  ASSUME NEW cs \in Seq(Cert)
  PROVE  /\ CertItems(cs) \in Seq(AnItem) /\ Len(CertItems(cs)) = Len(cs)
         /\ \A i \in 1 .. Len(cs) :
               /\ CertItems(cs)[i].key = NoKey
               /\ CertItems(cs)[i].chain = <<cs[i]>>
         /\ CertsOf(CertItems(cs)) = ToSet(cs)
         /\ KeysOf(CertItems(cs)) = {}
<1> DEFINE items == CertItems(cs)
<1>1. DOMAIN cs = 1 .. Len(cs) /\ Len(cs) \in Nat /\ \A i \in 1 .. Len(cs) : cs[i] \in Cert
  BY RangeOf
<1>2. /\ DOMAIN items = 1 .. Len(cs)
      /\ \A i \in 1 .. Len(cs) : items[i] = Item(Empty, NoKey, <<cs[i]>>)
      /\ items = [i \in 1 .. Len(cs) |-> items[i]]
  BY <1>1 DEF CertItems
<1> HIDE DEF items
<1>3. ASSUME NEW i \in 1 .. Len(cs)
      PROVE  items[i] \in AnItem /\ items[i].key = NoKey /\ items[i].chain = <<cs[i]>>
  <2>1. <<cs[i]>> \in Seq(Cert) /\ Empty \in Alias /\ NoKey \in Key \cup {NoKey}
    BY <1>1, AliasFunctions
  <2> DEFINE x == Item(Empty, NoKey, <<cs[i]>>)
  <2>2. x \in AnItem /\ x.key = NoKey /\ x.chain = <<cs[i]>>
    BY <2>1 DEF Item, AnItem
  <2> HIDE DEF x
  <2>3. items[i] = x
    BY <1>2 DEF x
  <2> QED  BY <2>2, <2>3
<1>4. items \in Seq(AnItem) /\ Len(items) = Len(cs)
  BY <1>1, <1>2, <1>3
<1>5. CertsOf(items) = ToSet(cs) /\ KeysOf(items) = {}
  BY <1>2, <1>3, OneCertEach
<1> QED  BY <1>3, <1>4, <1>5 DEF items

LEMMA KeyItemsHold ==
  ASSUME NEW ks \in Seq(Key)
  PROVE  /\ KeyItems(ks) \in Seq(AnItem) /\ Len(KeyItems(ks)) = Len(ks)
         /\ CertsOf(KeyItems(ks)) = {}
         /\ KeysOf(KeyItems(ks)) = ToSet(ks)
<1> DEFINE items == KeyItems(ks)
<1>1. DOMAIN ks = 1 .. Len(ks) /\ Len(ks) \in Nat /\ \A i \in 1 .. Len(ks) : ks[i] \in Key
  BY RangeOf
<1>2. /\ DOMAIN items = 1 .. Len(ks)
      /\ \A i \in 1 .. Len(ks) : items[i] = Item(Empty, ks[i], << >>)
  BY <1>1 DEF KeyItems
<1>3. << >> \in Seq(Cert) /\ ToSet(<< >>) = {}
  BY DEF ToSet
<1>5. items = [i \in 1 .. Len(ks) |-> items[i]]
  BY <1>1 DEF KeyItems
<1> HIDE DEF items
<1>4. \A i \in 1 .. Len(ks) : /\ items[i] \in AnItem /\ items[i].key = ks[i]
                              /\ items[i].chain = << >>
  <2> TAKE i \in 1 .. Len(ks)
  <2>1. << >> \in Seq(Cert) /\ Empty \in Alias /\ ks[i] \in Key \cup {NoKey}
    BY <1>1, <1>3, AliasFunctions
  <2> DEFINE x == Item(Empty, ks[i], << >>)
  <2>2. x \in AnItem /\ x.key = ks[i] /\ x.chain = << >>
    BY <2>1 DEF Item, AnItem
  <2> HIDE DEF x
  <2>3. items[i] = x
    BY <1>2 DEF x
  <2> QED  BY <2>2, <2>3
<1>6. items \in Seq(AnItem) /\ Len(items) = Len(ks)
  BY <1>1, <1>4, <1>5
<1>7. CertsOf(items) = {}
  BY <1>2, <1>3, <1>4 DEF CertsOf
<1>8. {items[i].key : i \in DOMAIN items} = ToSet(ks)
  BY <1>1, <1>2, <1>4 DEF ToSet
<1>9. KeysOf(items) = ToSet(ks)
  BY <1>8, Sentinels, RangeOf DEF KeysOf
<1> QED  BY <1>6, <1>7, <1>9 DEF items

(* The objects of two outputs, one behind the other. *)
LEMMA ItemsJoined ==
  ASSUME NEW S, NEW a \in Seq(S), NEW b \in Seq(S)
  PROVE  /\ CertsOf(a \o b) = CertsOf(a) \cup CertsOf(b)
         /\ KeysOf(a \o b) = KeysOf(a) \cup KeysOf(b)
<1> DEFINE c == a \o b
<1>1. ToSet(c) = ToSet(a) \cup ToSet(b)
  BY ConcatRange
<1>2. ASSUME NEW s  PROVE  /\ CertsOf(s) = UNION {ToSet(x.chain) : x \in ToSet(s)}
                            /\ KeysOf(s) = {x.key : x \in ToSet(s)} \ {NoKey}
  BY DEF CertsOf, KeysOf, ToSet
<1> HIDE DEF c
<1>3. CertsOf(c) = CertsOf(a) \cup CertsOf(b)
  BY <1>1, <1>2
<1>4. KeysOf(c) = KeysOf(a) \cup KeysOf(b)
  BY <1>1, <1>2
<1> QED  BY <1>3, <1>4 DEF c

LEMMA Single ==
  ASSUME NEW S, NEW x \in S
  PROVE  /\ <<x>> \in Seq(S) /\ Len(<<x>>) = 1 /\ NoDuplicates(<<x>>)
         /\ ToSet(<<x>>) = {x}
BY DEF NoDuplicates, ToSet

LEMMA Nothing ==
  ASSUME NEW S
  PROVE  << >> \in Seq(S) /\ Len(<< >>) = 0 /\ NoDuplicates(<< >>) /\ ToSet(<< >>) = {}
BY DEF NoDuplicates, ToSet

-----------------------------------------------------------------------------
(***************************************************************************)
(* The formats without aliases, and PKCS12.                                *)
(***************************************************************************)

(* The fields of the two kinds of result. *)
LEMMA AcceptedOrRefused ==
  /\ \A reason : Refuse(reason).err = reason
  /\ \A items, aliases, certCount, keyCount, lostCerts, lostKeys :
        LET r == Accept(items, aliases, certCount, keyCount, lostCerts, lostKeys)
        IN  /\ r.err = "none" /\ r.items = items
            /\ r.report.certsWritten = certCount /\ r.report.keysWritten = keyCount
            /\ r.report.certsDiscarded = lostCerts /\ r.report.keysDiscarded = lostKeys
BY DEF Refuse, Accept

(* The result r has written the certificates cs and the keys ks of a store,
   each once, and reports it. *)
Writes(r, cs, ks) ==
  /\ cs \in Seq(Cert) /\ NoDuplicates(cs) /\ CertsOf(r.items) = ToSet(cs)
  /\ ks \in Seq(Key) /\ NoDuplicates(ks) /\ KeysOf(r.items) = ToSet(ks)
  /\ r.report.certsWritten = Len(cs) /\ r.report.keysWritten = Len(ks)
  /\ r.report.certsDiscarded = Len(certs) - Len(cs)
  /\ r.report.keysDiscarded = Len(keys) - Len(ks)

LEMMA Written ==
  ASSUME NEW items, NEW aliases, NEW cs \in Seq(Cert), NEW ks \in Seq(Key),
         NoDuplicates(cs), NoDuplicates(ks),
         CertsOf(items) = ToSet(cs), KeysOf(items) = ToSet(ks)
  PROVE  Writes(Accept(items, aliases, Len(cs), Len(ks),
                       Len(certs) - Len(cs), Len(keys) - Len(ks)), cs, ks)
BY AcceptedOrRefused DEF Writes

Kept(cs, o) == Keep(cs, {c \in Cert : ~(o.excludeRoots /\ IsRoot(c))})

(* What encodePEM writes, when it writes. *)
LEMMA PEMWrites ==
  ASSUME NEW cs \in Seq(Cert), NEW ks \in Seq(Key), NEW o, PEM(cs, ks, o).err = "none"
  PROVE  PEM(cs, ks, o) = Accept(CertItems(Kept(cs, o)) \o KeyItems(ks), << >>,
                                 Len(Kept(cs, o)), Len(ks), Len(cs) - Len(Kept(cs, o)), 0)
BY AcceptedOrRefused DEF PEM, Kept

LEMMA EncodePEMWrites ==
  ASSUME References, NEW o, EncodePEM(o).err = "none"
  PROVE  /\ Writes(EncodePEM(o), Kept(certs, o), keys)
         /\ Expected("PEM", o) \subseteq ToSet(Kept(certs, o))
<1> DEFINE cs == Kept(certs, o)
           r  == EncodePEM(o)
           items == CertItems(cs) \o KeyItems(keys)
<1>1. /\ certs \in Seq(Cert) /\ NoDuplicates(certs) /\ ToSet(certs) \subseteq Cert
      /\ keys \in Seq(Key) /\ NoDuplicates(keys) /\ Len(keys) \in Nat
  BY RangeOf DEF References, TypeOK, ObjectsAreUnique
<1>2. r = Accept(items, << >>, Len(cs), Len(keys), Len(certs) - Len(cs), 0)
  BY <1>1, PEMWrites DEF EncodePEM
<1>3. cs \in Seq(Cert) /\ NoDuplicates(cs)
  BY <1>1, KeepProperties, KeepDistinct DEF Kept
<1>4. ToSet(cs) = ToSet(certs) \cap {c \in Cert : ~(o.excludeRoots /\ IsRoot(c))}
  BY <1>1, KeepProperties DEF Kept
<1>5. Expected("PEM", o) \subseteq ToSet(cs)
  BY <1>1, <1>4 DEF Expected
<1> HIDE DEF cs, r
<1>6. CertsOf(items) = ToSet(cs) /\ KeysOf(items) = ToSet(keys)
  <2>1. /\ CertsOf(items) = CertsOf(CertItems(cs)) \cup CertsOf(KeyItems(keys))
        /\ KeysOf(items) = KeysOf(CertItems(cs)) \cup KeysOf(KeyItems(keys))
    BY <1>1, <1>3, CertItemsHold, KeyItemsHold, ItemsJoined
  <2> HIDE DEF items
  <2> QED  BY <1>1, <1>3, <2>1, CertItemsHold, KeyItemsHold
<1> HIDE DEF items
<1>7. Writes(r, cs, keys)
  BY <1>1, <1>2, <1>3, <1>6, AcceptedOrRefused DEF Writes
<1> QED  BY <1>5, <1>7 DEF cs, r

LEMMA OneOfTwo ==
  ASSUME NEW m \in Nat, NEW n \in Nat, ~(m + n > 1)
  PROVE  /\ m > 0 => m = 1 /\ n = 0
         /\ m = 0 /\ m + n # 0 => n = 1
OBVIOUS

LEMMA EncodeDERWrites ==
  ASSUME References, NEW o, EncodeDER(o).err = "none"
  PROVE  \E cs, ks : /\ Writes(EncodeDER(o), cs, ks)
                     /\ ~o.allowLossy => ToSet(certs) \subseteq ToSet(cs)
                                         /\ ToSet(keys) \subseteq ToSet(ks)
<1>1. /\ certs \in Seq(Cert) /\ Len(certs) \in Nat /\ (certs = << >> \/ Len(certs) > 0)
      /\ keys \in Seq(Key) /\ Len(keys) \in Nat /\ (keys = << >> \/ Len(keys) > 0)
  BY RangeOf DEF References, TypeOK
<1>2. /\ ToSet(certs) = {certs[i] : i \in 1 .. Len(certs)}
      /\ ToSet(keys) = {keys[i] : i \in 1 .. Len(keys)}
  BY <1>1, RangeOf
<1>3. CASE certs # << >>
  <2> DEFINE cs == <<certs[1]>>
             r  == EncodeDER(o)
  <2>1. /\ r = Accept(CertItems(cs), << >>, 1, 0, Len(certs) - 1, Len(keys))
        /\ ~o.allowLossy => ~(Len(certs) + Len(keys) > 1)
    BY <1>3, AcceptedOrRefused DEF EncodeDER
  <2>2. certs[1] \in Cert
    BY <1>1, <1>3
  <2>3. /\ cs \in Seq(Cert) /\ Len(cs) = 1 /\ NoDuplicates(cs) /\ ToSet(cs) = {certs[1]}
        /\ << >> \in Seq(Key) /\ Len(<< >>) = 0 /\ NoDuplicates(<< >>) /\ ToSet(<< >>) = {}
    BY <2>2, Single, Nothing
  <2> HIDE DEF cs, r
  <2>4. CertsOf(CertItems(cs)) = ToSet(cs) /\ KeysOf(CertItems(cs)) = {}
    BY <2>3, CertItemsHold
  <2>5. Writes(r, cs, << >>)
    <3>1. r = Accept(CertItems(cs), << >>, Len(cs), Len(<< >>),
                     Len(certs) - Len(cs), Len(keys) - Len(<< >>))
      BY <1>1, <2>1, <2>3
    <3> QED  BY <2>3, <2>4, <3>1, Written
  <2>6. ASSUME ~o.allowLossy
        PROVE  ToSet(certs) \subseteq ToSet(cs) /\ ToSet(keys) \subseteq ToSet(<< >>)
    <3>1. ~(Len(certs) + Len(keys) > 1)
      BY <2>1, <2>6, Zenon
    <3>2. Len(certs) \in Nat /\ Len(keys) \in Nat /\ Len(certs) > 0
      BY <1>1, <1>3
    <3>3. Len(certs) = 1 /\ Len(keys) = 0
      BY <3>1, <3>2, OneOfTwo, Zenon
    <3> QED  BY <1>2, <2>3, <3>3
  <2> QED  BY <2>5, <2>6 DEF r
<1>4. CASE certs = << >>
  <2> DEFINE ks == <<keys[1]>>
             r  == EncodeDER(o)
  <2>0. Len(certs) = 0
    BY <1>4
  <2>1. /\ r = Accept(KeyItems(ks), << >>, 0, 1, 0, Len(keys) - 1)
        /\ ~o.allowLossy => ~(Len(certs) + Len(keys) > 1)
        /\ Len(certs) + Len(keys) # 0
    BY <1>4, AcceptedOrRefused DEF EncodeDER
  <2>2. keys[1] \in Key
    BY <1>1, <2>0, <2>1
  <2>3. /\ ks \in Seq(Key) /\ Len(ks) = 1 /\ NoDuplicates(ks) /\ ToSet(ks) = {keys[1]}
        /\ << >> \in Seq(Cert) /\ Len(<< >>) = 0 /\ NoDuplicates(<< >>) /\ ToSet(<< >>) = {}
    BY <2>2, Single, Nothing
  <2> HIDE DEF ks, r
  <2>4. CertsOf(KeyItems(ks)) = {} /\ KeysOf(KeyItems(ks)) = ToSet(ks)
    BY <2>3, KeyItemsHold
  <2>5. Writes(r, << >>, ks)
    <3>1. r = Accept(KeyItems(ks), << >>, Len(<< >>), Len(ks),
                     Len(certs) - Len(<< >>), Len(keys) - Len(ks))
      BY <1>1, <2>0, <2>1, <2>3
    <3> QED  BY <2>3, <2>4, <3>1, Written
  <2>6. ASSUME ~o.allowLossy
        PROVE  ToSet(certs) \subseteq ToSet(<< >>) /\ ToSet(keys) \subseteq ToSet(ks)
    <3>1. ~(Len(certs) + Len(keys) > 1)
      BY <2>1, <2>6, Zenon
    <3>2. Len(certs) = 0 /\ Len(keys) \in Nat /\ Len(certs) + Len(keys) # 0
      BY <1>1, <2>0, <2>1
    <3>3. Len(keys) = 1
      <4>1. Len(certs) \in Nat
        BY <1>1
      <4> QED  BY <3>1, <3>2, <4>1, OneOfTwo, Zenon
    <3> QED  BY <1>2, <2>0, <2>3, <3>3
  <2> QED  BY <2>5, <2>6 DEF r
<1> QED  BY <1>3, <1>4

LEMMA EncodePKCS7Writes ==
  ASSUME References, NEW o, EncodePKCS7(o).err = "none"
  PROVE  /\ Writes(EncodePKCS7(o), certs, << >>)
         /\ ~o.allowLossy => ToSet(keys) = {}
<1> DEFINE r == EncodePKCS7(o)
<1>1. /\ certs \in Seq(Cert) /\ NoDuplicates(certs) /\ Len(certs) \in Nat
      /\ keys \in Seq(Key) /\ Len(keys) \in Nat
  BY RangeOf DEF References, TypeOK, ObjectsAreUnique
<1>2. << >> \in Seq(Key) /\ Len(<< >>) = 0 /\ NoDuplicates(<< >>) /\ ToSet(<< >>) = {}
  BY Nothing
<1>3. /\ r = Accept(CertItems(certs), << >>, Len(certs), 0, 0, Len(keys))
      /\ ~o.allowLossy => keys = << >>
  BY AcceptedOrRefused DEF EncodePKCS7
<1> HIDE DEF r
<1>4. CertsOf(CertItems(certs)) = ToSet(certs) /\ KeysOf(CertItems(certs)) = {}
  BY <1>1, CertItemsHold
<1>5. Writes(r, certs, << >>)
  <2>1. r = Accept(CertItems(certs), << >>, Len(certs), Len(<< >>),
                   Len(certs) - Len(certs), Len(keys) - Len(<< >>))
    BY <1>1, <1>2, <1>3
  <2> QED  BY <1>1, <1>2, <1>4, <2>1, Written
<1> QED  BY <1>2, <1>3, <1>5 DEF r

(* A trust store names its certificates. *)
LEMMA TrustStoreWrites ==
  ASSUME References, keys = << >>
  PROVE  Writes(TrustStore, certs, << >>)
<1> DEFINE names == [i \in DOMAIN certs |-> FriendlyName(i)]
           items == [i \in DOMAIN certs |-> Item(names[i], NoKey, <<certs[i]>>)]
<1>1. /\ certs \in Seq(Cert) /\ NoDuplicates(certs) /\ Len(certs) \in Nat
      /\ DOMAIN certs = 1 .. Len(certs)
  BY RangeOf DEF References, TypeOK, ObjectsAreUnique
<1>2. << >> \in Seq(Key) /\ Len(<< >>) = 0 /\ NoDuplicates(<< >>) /\ ToSet(<< >>) = {}
  BY Nothing
<1>3. TrustStore = Accept(items, names, Len(certs), 0, 0, 0)
  BY DEF TrustStore
<1>4. /\ DOMAIN items = 1 .. Len(certs)
      /\ \A i \in 1 .. Len(certs) : items[i].key = NoKey /\ items[i].chain = <<certs[i]>>
  BY <1>1 DEF Item
<1> HIDE DEF items, names
<1>5. CertsOf(items) = ToSet(certs) /\ KeysOf(items) = {}
  BY <1>1, <1>4, OneCertEach
<1>6. Len(keys) = 0
  BY <1>2
<1>7. TrustStore = Accept(items, names, Len(certs), Len(<< >>),
                          Len(certs) - Len(certs), Len(keys) - Len(<< >>))
  BY <1>1, <1>2, <1>3, <1>6
<1> QED  BY <1>1, <1>2, <1>5, <1>7, Written

(* The certificates of a chain without repetitions that is as long as the
   store are those of the store. *)
LEMMA LongChain ==
  ASSUME References, NEW ch \in Seq(Cert), NoDuplicates(ch), ToSet(ch) \subseteq ToSet(certs),
         ~(Len(certs) - Len(ch) > 0)
  PROVE  ToSet(ch) = ToSet(certs)
<1>1. certs \in Seq(Cert) /\ NoDuplicates(certs) /\ Len(certs) \in Nat /\ Len(ch) \in Nat
  BY RangeOf DEF References, TypeOK, ObjectsAreUnique
<1>2. /\ IsFiniteSet(ToSet(certs)) /\ Cardinality(ToSet(certs)) = Len(certs)
      /\ IsFiniteSet(ToSet(ch)) /\ Cardinality(ToSet(ch)) = Len(ch)
  BY <1>1, DistinctLength
<1>3. Cardinality(ToSet(ch)) <= Cardinality(ToSet(certs))
  BY <1>2, FS_Subset
<1>4. Cardinality(ToSet(ch)) = Cardinality(ToSet(certs))
  BY <1>1, <1>2, <1>3
<1> QED  BY <1>2, <1>4, FS_Subset

(* A key store has the chain and the key of one entry. *)
LEMMA KeyStoreWrites ==
  ASSUME References, NEW i \in DOMAIN entries, NEW o, NoDuplicates(entries[i].chain),
         entries[i].key # NoKey, KeyStore(entries[i], o).err = "none"
  PROVE  LET e == entries[i]
         IN  /\ Writes(KeyStore(e, o), e.chain, <<e.key>>)
             /\ ~o.allowLossy => ToSet(certs) \subseteq ToSet(e.chain)
                                 /\ ToSet(keys) \subseteq ToSet(<<e.key>>)
<1> DEFINE e == entries[i]
           r == KeyStore(e, o)
           x == Item(e.alias, e.key, e.chain)
<1>1. /\ certs \in Seq(Cert) /\ NoDuplicates(certs) /\ Len(certs) \in Nat
      /\ keys \in Seq(Key) /\ Len(keys) \in Nat /\ ToSet(keys) = {keys[j] : j \in 1 .. Len(keys)}
      /\ ToSet(keys) \subseteq Key
      /\ entries \in Seq(Entry)
  BY RangeOf DEF References, TypeOK, ObjectsAreUnique
<1>2. /\ e.chain \in Seq(Cert) /\ ToSet(e.chain) \subseteq ToSet(certs)
      /\ e.key \in ToSet(keys) /\ e.key \in Key
  <2>1. e \in Entry
    BY <1>1
  <2>2. ToSet(e.chain) \subseteq ToSet(certs) /\ e.key \in ToSet(keys) \cup {NoKey}
    BY DEF References, ChainsResolve, KeysResolve
  <2>3. e.key # NoKey
    OBVIOUS
  <2> HIDE DEF e
  <2> QED  BY <1>1, <2>1, <2>2, <2>3 DEF Entry
<1>3. /\ <<e.key>> \in Seq(Key) /\ Len(<<e.key>>) = 1 /\ NoDuplicates(<<e.key>>)
      /\ ToSet(<<e.key>>) = {e.key}
  BY <1>2, Single
<1>4. /\ r = Accept(<<x>>, <<e.alias>>, Len(e.chain), 1,
                    Len(certs) - Len(e.chain), Len(keys) - 1)
      /\ ~o.allowLossy => ~(Len(certs) - Len(e.chain) > 0) /\ ~(Len(keys) - 1 > 0)
  BY AcceptedOrRefused DEF KeyStore
<1>5. CertsOf(<<x>>) = ToSet(e.chain) /\ KeysOf(<<x>>) = {e.key}
  <2>1. x.chain = e.chain /\ x.key = e.key
    BY DEF Item
  <2> HIDE DEF x, e
  <2>2. DOMAIN <<x>> = {1} /\ <<x>>[1] = x
    OBVIOUS
  <2>3. e.key # NoKey
    BY DEF e
  <2> QED  BY <2>1, <2>2, <2>3 DEF CertsOf, KeysOf
<1>6. NoDuplicates(e.chain)
  OBVIOUS
<1> HIDE DEF x, r, e
<1>7. Writes(r, e.chain, <<e.key>>)
  <2>1. r = Accept(<<x>>, <<e.alias>>, Len(e.chain), Len(<<e.key>>),
                   Len(certs) - Len(e.chain), Len(keys) - Len(<<e.key>>))
    BY <1>3, <1>4
  <2> QED  BY <1>2, <1>3, <1>5, <1>6, <2>1, Written
<1>8. ASSUME ~o.allowLossy
      PROVE  ToSet(certs) \subseteq ToSet(e.chain) /\ ToSet(keys) \subseteq ToSet(<<e.key>>)
  <2>1. ToSet(e.chain) = ToSet(certs)
    BY <1>2, <1>4, <1>6, <1>8, LongChain
  <2>2. Len(keys) <= 1
    BY <1>1, <1>4, <1>8
  <2>3. ToSet(keys) \subseteq {e.key}
    BY <1>1, <1>2, <2>2
  <2> QED  BY <1>3, <2>1, <2>3
<1> QED  BY <1>7, <1>8 DEF r, e

LEMMA EncodePKCS12Writes ==
  ASSUME References, NEW o, EncodePKCS12(o).err = "none", ChainsRepeatNothing
  PROVE  \E cs, ks : /\ Writes(EncodePKCS12(o), cs, ks)
                     /\ ~o.allowLossy => ToSet(certs) \subseteq ToSet(cs)
                                         /\ ToSet(keys) \subseteq ToSet(ks)
<1> DEFINE selected == KeyEntries(o.alias)
           i == CHOOSE n \in selected : TRUE
<1>1. CASE selected = {}
  <2>1. EncodePKCS12(o) = TrustStore /\ keys = << >>
    BY <1>1, AcceptedOrRefused DEF EncodePKCS12
  <2>2. ToSet(keys) = {}
    BY <2>1, Nothing
  <2> QED  BY <2>1, <2>2, TrustStoreWrites
<1>2. CASE selected # {}
  <2>1. EncodePKCS12(o) = KeyStore(entries[i], o)
    BY <1>2, AcceptedOrRefused DEF EncodePKCS12
  <2>2. i \in selected
    BY <1>2
  <2>3. i \in DOMAIN entries /\ entries[i].key # NoKey
    BY <2>2 DEF KeyEntries
  <2> HIDE DEF i, selected
  <2>4. NoDuplicates(entries[i].chain)
    BY <2>3 DEF ChainsRepeatNothing
  <2> QED  BY <2>1, <2>3, <2>4, KeyStoreWrites
<1> QED  BY <1>1, <1>2

-----------------------------------------------------------------------------
(***************************************************************************)
(* JKS.                                                                    *)
(***************************************************************************)
Unwritten(aliases) == [names |-> {Lower[a] : a \in ToSet(aliases)}, items |-> << >>, clash |-> FALSE]

(* f is the loop's state after each of its first m passes. *)
LoopStates(f, m, remaining, aliases) ==
  f = [n \in 0 .. m |-> IF n = 0 THEN Unwritten(aliases) ELSE AddRemaining(f[n - 1], remaining[n])]

LEMMA PassesExist ==
  ASSUME NEW remaining \in Seq(Cert), NEW aliases, NEW m \in 0 .. Len(remaining)
  PROVE  \E f : LoopStates(f, m, remaining, aliases)
<1> DEFINE base == Unwritten(aliases)
           Good(f, k) == LoopStates(f, k, remaining, aliases)
           Bad == {k \in 0 .. Len(remaining) : ~ \E f : Good(f, k)}
<1>1. Len(remaining) \in Nat
  BY RangeOf
<1> SUFFICES ASSUME Bad # {}  PROVE FALSE
  OBVIOUS
<1>2. PICK k \in Bad : \A l \in Bad : k <= l
  <2>1. Bad \in SUBSET Nat
    BY <1>1
  <2> HIDE DEF Bad
  <2> QED  BY <2>1, LeastNatural
<1>3. k \in 0 .. Len(remaining) /\ ~ \E f : Good(f, k)
  OBVIOUS
<1>4. CASE k = 0
  <2> DEFINE f == [n \in 0 .. 0 |-> base]
  <2>1. \A n \in 0 .. 0 : n = 0
    OBVIOUS
  <2> HIDE DEF base
  <2>2. f = [n \in 0 .. 0 |-> IF n = 0 THEN base ELSE AddRemaining(f[n - 1], remaining[n])]
    BY <2>1
  <2>3. Good(f, 0)
    BY <2>2 DEF LoopStates, base
  <2> QED  BY <1>3, <1>4, <2>3
<1>5. CASE k # 0
  <2>1. k - 1 \in 0 .. Len(remaining) /\ ~(k <= k - 1)
    BY <1>1, <1>3, <1>5
  <2>2. k - 1 \notin Bad
    BY <1>2, <2>1
  <2>3. PICK g : Good(g, k - 1)
    BY <2>1, <2>2
  <2> DEFINE step(h, n) == AddRemaining(h[n - 1], remaining[n])
             f == [n \in 0 .. k |-> IF n = k THEN step(g, k) ELSE g[n]]
  <2>4. /\ DOMAIN g = 0 .. (k - 1)
        /\ \A n \in 0 .. (k - 1) : g[n] = IF n = 0 THEN base ELSE step(g, n)
    <3> HIDE DEF base
    <3> QED  BY <2>3 DEF LoopStates, base
  <2>5. \A n \in 0 .. k : f[n] = IF n = 0 THEN base ELSE step(f, n)
    <3> SUFFICES ASSUME NEW n \in 0 .. k  PROVE f[n] = IF n = 0 THEN base ELSE step(f, n)
      OBVIOUS
    <3>1. CASE n = 0
      <4>1. n # k /\ n \in 0 .. (k - 1)
        BY <1>1, <1>3, <1>5, <3>1
      <4> HIDE DEF base, step
      <4> QED  BY <2>4, <3>1, <4>1
    <3>2. CASE n # 0
      <4>1. n - 1 \in 0 .. (k - 1) /\ n - 1 \in 0 .. k /\ n - 1 # k
        BY <1>1, <1>3, <3>2
      <4>2. f[n - 1] = g[n - 1]
        <5> HIDE DEF base, step
        <5> QED  BY <4>1
      <4>3. step(f, n) = step(g, n)
        <5> HIDE DEF f
        <5> QED  BY <4>2
      <4>4. n = k \/ n \in 0 .. (k - 1)
        BY <1>1, <1>3
      <4> HIDE DEF base, step
      <4> QED  BY <2>4, <3>2, <4>3, <4>4
    <3> QED  BY <3>1, <3>2
  <2>6. f = [n \in 0 .. k |-> f[n]]
    OBVIOUS
  <2> HIDE DEF f, base
  <2>7. f = [n \in 0 .. k |-> IF n = 0 THEN base ELSE AddRemaining(f[n - 1], remaining[n])]
    BY <2>5, <2>6
  <2>8. Good(f, k)
    BY <2>7 DEF LoopStates, base
  <2> QED  BY <1>3, <2>8
<1> QED  BY <1>4, <1>5

(* The state of the loop when it has ended. *)
LEMMA RemainingWritten ==
  ASSUME NEW remaining \in Seq(Cert), NEW aliases
  PROVE  \E f : /\ f[0] = Unwritten(aliases)
                /\ \A n \in 1 .. Len(remaining) : f[n] = AddRemaining(f[n - 1], remaining[n])
                /\ WriteRemaining(remaining, aliases) = f[Len(remaining)]
<1> DEFINE L == Len(remaining)
           f == CHOOSE g : LoopStates(g, L, remaining, aliases)
<1>1. L \in Nat /\ L \in 0 .. L
  BY RangeOf
<1>2. LoopStates(f, L, remaining, aliases)
  BY <1>1, PassesExist
<1>3. WriteRemaining(remaining, aliases) = f[L]
  BY DEF WriteRemaining, LoopStates, Unwritten
<1> HIDE DEF f
<1>4. f[0] = Unwritten(aliases)
  BY <1>1, <1>2 DEF LoopStates
<1>5. \A n \in 1 .. L : f[n] = AddRemaining(f[n - 1], remaining[n])
  <2>1. \A n \in 1 .. L : n \in 0 .. L /\ n # 0
    BY <1>1
  <2> QED  BY <1>2, <2>1 DEF LoopStates
<1> QED  BY <1>3, <1>4, <1>5

(* After n passes the first n certificates have items of their own, and so far
   as no alias clashed, these have aliases that nothing else has. *)
PassesInv(acc, n, remaining, aliases) ==
  /\ acc.items \in Seq(AnItem) /\ Len(acc.items) = n
  /\ acc.clash \in BOOLEAN
  /\ {Lower[a] : a \in ToSet(aliases)} \subseteq acc.names
  /\ \A m \in 1 .. n : /\ acc.items[m].key = NoKey
                       /\ acc.items[m].chain = <<remaining[m]>>
                       /\ Lower[acc.items[m].alias] \in acc.names
  /\ acc.clash = FALSE =>
       /\ \A l, m \in 1 .. n : l # m => Lower[acc.items[l].alias] # Lower[acc.items[m].alias]
       /\ \A m \in 1 .. n : Lower[acc.items[m].alias] \notin {Lower[a] : a \in ToSet(aliases)}

LEMMA AddRemainingKeeps ==
  ASSUME TypeOK, NEW remaining \in Seq(Cert), NEW aliases, NEW n \in 1 .. Len(remaining),
         NEW acc, PassesInv(acc, n - 1, remaining, aliases)
  PROVE  PassesInv(AddRemaining(acc, remaining[n]), n, remaining, aliases)
<1> DEFINE c      == remaining[n]
           source == IF Trim[origin[c]] # Empty THEN Trim[origin[c]] ELSE DefaultAlias[c]
           alias  == IF Lower[source] \in acc.names THEN CertificateAlias[c] ELSE source
           y      == Item(alias, NoKey, <<c>>)
           new    == AddRemaining(acc, c)
           given  == {Lower[a] : a \in ToSet(aliases)}
<1>1. n \in Nat /\ n - 1 \in Nat /\ c \in Cert
  BY RangeOf
<1>2. alias \in Alias
  <2>1. /\ Trim[origin[c]] \in Alias /\ DefaultAlias[c] \in Alias /\ CertificateAlias[c] \in Alias
    BY <1>1, AliasFunctions, EncodeConstants DEF TypeOK
  <2> QED  BY <2>1
<1>3. /\ new.names = acc.names \cup {Lower[alias]}
      /\ new.items = Append(acc.items, y)
      /\ new.clash = (acc.clash \/ Lower[alias] \in acc.names)
  BY DEF AddRemaining
<1> HIDE DEF alias, new
<1>4. y \in AnItem /\ y.alias = alias /\ y.key = NoKey /\ y.chain = <<c>>
  BY <1>1, <1>2 DEF Item, AnItem
<1> HIDE DEF y, c
<1>5. /\ acc.items \in Seq(AnItem) /\ Len(acc.items) = n - 1 /\ acc.clash \in BOOLEAN
      /\ given \subseteq acc.names
      /\ \A m \in 1 .. (n - 1) : /\ acc.items[m].key = NoKey
                                 /\ acc.items[m].chain = <<remaining[m]>>
                                 /\ Lower[acc.items[m].alias] \in acc.names
      /\ acc.clash = FALSE =>
           /\ \A l, m \in 1 .. (n - 1) :
                 l # m => Lower[acc.items[l].alias] # Lower[acc.items[m].alias]
           /\ \A m \in 1 .. (n - 1) : Lower[acc.items[m].alias] \notin given
  BY DEF PassesInv
<1> HIDE DEF given
<1>6. /\ new.items \in Seq(AnItem) /\ Len(new.items) = n
      /\ new.items[n] = y /\ \A m \in 1 .. (n - 1) : new.items[m] = acc.items[m]
  BY <1>1, <1>3, <1>4, <1>5
<1>7. \A m \in 1 .. n : m = n \/ m \in 1 .. (n - 1)
  BY <1>1
<1>8. \A m \in 1 .. n : /\ new.items[m].key = NoKey
                        /\ new.items[m].chain = <<remaining[m]>>
                        /\ Lower[new.items[m].alias] \in new.names
  BY <1>3, <1>4, <1>5, <1>6, <1>7 DEF c
<1>9. new.clash \in BOOLEAN
  BY <1>3
<1>10. ASSUME new.clash = FALSE
       PROVE  /\ \A l, m \in 1 .. n :
                    l # m => Lower[new.items[l].alias] # Lower[new.items[m].alias]
              /\ \A m \in 1 .. n : Lower[new.items[m].alias] \notin given
  <2>1. acc.clash = FALSE /\ Lower[alias] \notin acc.names
    BY <1>3, <1>5, <1>10
  <2>2. \A m \in 1 .. (n - 1) : Lower[new.items[m].alias] # Lower[new.items[n].alias]
    <3>1. new.items[n] = y /\ y.alias = alias
      BY <1>4, <1>6
    <3>2. ASSUME NEW m \in 1 .. (n - 1)
          PROVE  new.items[m] = acc.items[m] /\ Lower[acc.items[m].alias] \in acc.names
      BY <1>5, <1>6
    <3> QED  BY <2>1, <3>1, <3>2
  <2>3. \A l, m \in 1 .. (n - 1) :
           l # m => Lower[new.items[l].alias] # Lower[new.items[m].alias]
    <3>1. \A l, m \in 1 .. (n - 1) :
             l # m => Lower[acc.items[l].alias] # Lower[acc.items[m].alias]
      BY <1>5, <2>1
    <3> TAKE l, m \in 1 .. (n - 1)
    <3>2. new.items[l] = acc.items[l] /\ new.items[m] = acc.items[m]
      BY <1>6
    <3> QED  BY <3>1, <3>2
  <2>4. \A m \in 1 .. n : Lower[new.items[m].alias] \notin given
    <3>1. Lower[new.items[n].alias] \notin given
      <4>1. new.items[n] = y /\ y.alias = alias /\ given \subseteq acc.names
        BY <1>4, <1>5, <1>6
      <4> QED  BY <2>1, <4>1
    <3>2. \A m \in 1 .. (n - 1) : Lower[new.items[m].alias] \notin given
      BY <1>5, <1>6, <2>1
    <3> QED  BY <1>7, <3>1, <3>2
  <2>5. ASSUME NEW l \in 1 .. n, NEW m \in 1 .. n, l # m
        PROVE  Lower[new.items[l].alias] # Lower[new.items[m].alias]
    BY <1>7, <2>2, <2>3, <2>5
  <2> QED  BY <2>4, <2>5
<1>11. given \subseteq new.names
  BY <1>3, <1>5
<1>12. PassesInv(new, n, remaining, aliases)
  BY <1>6, <1>8, <1>9, <1>10, <1>11 DEF PassesInv, given
<1> QED  BY <1>12 DEF new, c

LEMMA RemainingInv ==
  ASSUME TypeOK, NEW remaining \in Seq(Cert), NEW aliases
  PROVE  PassesInv(WriteRemaining(remaining, aliases), Len(remaining), remaining, aliases)
<1>1. PICK f : /\ f[0] = Unwritten(aliases)
               /\ \A n \in 1 .. Len(remaining) : f[n] = AddRemaining(f[n - 1], remaining[n])
               /\ WriteRemaining(remaining, aliases) = f[Len(remaining)]
  BY RemainingWritten
<1>2. Len(remaining) \in Nat
  BY RangeOf
<1> DEFINE Bad == {n \in 0 .. Len(remaining) : ~PassesInv(f[n], n, remaining, aliases)}
<1>3. Bad = {}
  <2> SUFFICES ASSUME Bad # {}  PROVE FALSE
    OBVIOUS
  <2>1. PICK k \in Bad : \A l \in Bad : k <= l
    <3>1. Bad \in SUBSET Nat
      BY <1>2
    <3> HIDE DEF Bad
    <3> QED  BY <3>1, LeastNatural
  <2>2. k \in 0 .. Len(remaining) /\ ~PassesInv(f[k], k, remaining, aliases)
    OBVIOUS
  <2>3. PassesInv(f[0], 0, remaining, aliases)
    <3>1. << >> \in Seq(AnItem) /\ Len(<< >>) = 0
      BY Nothing
    <3>2. \A m : m \notin 1 .. 0
      OBVIOUS
    <3>3. /\ f[0].names = {Lower[a] : a \in ToSet(aliases)} /\ f[0].clash = FALSE
          /\ f[0].items = << >>
      BY <1>1 DEF Unwritten
    <3> QED  BY <3>1, <3>2, <3>3 DEF PassesInv
  <2>4. k # 0
    BY <2>2, <2>3
  <2>5. k \in 1 .. Len(remaining) /\ k - 1 \in 0 .. Len(remaining) /\ ~(k <= k - 1)
    BY <1>2, <2>2, <2>4
  <2>6. PassesInv(f[k - 1], k - 1, remaining, aliases)
    BY <2>1, <2>5
  <2> HIDE DEF Bad
  <2>7. PassesInv(AddRemaining(f[k - 1], remaining[k]), k, remaining, aliases)
    BY <2>5, <2>6, AddRemainingKeeps
  <2> QED  BY <1>1, <2>2, <2>5, <2>7
<1>4. Len(remaining) \in 0 .. Len(remaining)
  BY <1>2
<1> QED  BY <1>1, <1>3, <1>4

-----------------------------------------------------------------------------
LEMMA JksAliasTyped ==
  ASSUME TypeOK, NEW o \in Options, NEW i \in DOMAIN entries
  PROVE  JksAlias(entries[i], o) \in Alias
<1> DEFINE e == entries[i]
<1>1. e \in Entry
  BY DEF TypeOK
<1> HIDE DEF e
<1>2. /\ e.alias \in Alias /\ e.key \in Key \cup {NoKey} /\ Empty \in Alias /\ MyKey \in Alias
      /\ o.alias \in Alias /\ o.names \in [Key -> Alias] /\ Trim \in [Alias -> Alias]
  BY <1>1, EncodeConstants, AliasFunctions DEF Entry
<1>3. e.key # NoKey => Trim[o.names[e.key]] \in Alias
  BY <1>2
<1>4. JksAlias(e, o) \in Alias
  BY <1>2, <1>3 DEF JksAlias
<1> QED  BY <1>4 DEF e

(* What an entry at which the loop goes on has told it. *)
LEMMA NoFault ==
  ASSUME NEW o, NEW i \in DOMAIN entries, EntryFault(i, o) = "none"
  PROVE  /\ \A j \in 1 .. (i - 1) :
               Lower[JksAlias(entries[j], o)] # Lower[JksAlias(entries[i], o)]
         /\ entries[i].key # NoKey =>
               entries[i].chain # << >> /\ Matches(entries[i].key, entries[i].chain[1])
BY DEF EntryFault

(* The loop over the entries lets no two aliases pass that are alike. *)
LEMMA EntryAliasesDiffer ==
  ASSUME References, NEW o, \A i \in DOMAIN entries : EntryFault(i, o) = "none"
  PROVE  \A i, j \in DOMAIN entries :
            i # j => Lower[JksAlias(entries[i], o)] # Lower[JksAlias(entries[j], o)]
<1>1. ASSUME NEW i \in DOMAIN entries, NEW j \in DOMAIN entries, j < i
      PROVE  Lower[JksAlias(entries[i], o)] # Lower[JksAlias(entries[j], o)]
  <2>1. j \in 1 .. (i - 1)
    <3>1. i \in Nat /\ j \in Nat /\ j >= 1
      BY RangeOf DEF References, TypeOK
    <3> QED  BY <1>1, <3>1
  <2> QED  BY <2>1, NoFault
<1>2. DOMAIN entries \subseteq Nat
  BY RangeOf DEF References, TypeOK
<1>3. \A i, j \in DOMAIN entries : i # j => i < j \/ j < i
  BY <1>2
<1> QED  BY <1>1, <1>3

(* The positions of the entries that have a certificate. *)
Certified == {i \in DOMAIN entries : entries[i].chain # << >>}

(* The items of the entries are those of the certified entries, in order. *)
LEMMA EntryItemsHold ==
  ASSUME References, NEW o \in Options
  PROVE  LET items == EntryItems(o)
         IN  /\ items \in Seq(AnItem)
             /\ \A j \in DOMAIN items : \E i \in Certified :
                   /\ Rank(Certified, i) = j
                   /\ items[j].alias = JksAlias(entries[i], o)
                   /\ items[j].key = entries[i].key
                   /\ entries[i].key # NoKey => items[j].chain = entries[i].chain
                   /\ entries[i].key = NoKey => Len(items[j].chain) = 1
             /\ \A i \in Certified : \E j \in DOMAIN items : items[j].key = entries[i].key
<1> DEFINE chainOf(e) == IF e.key = NoKey THEN SubSeq(e.chain, 1, Min({1, Len(e.chain)}))
                         ELSE e.chain
           all == [i \in DOMAIN entries |->
                     Item(JksAlias(entries[i], o), entries[i].key, chainOf(entries[i]))]
           items == EntryItems(o)
<1>1. TypeOK /\ entries \in Seq(Entry) /\ DOMAIN entries = 1 .. Len(entries) /\ Len(entries) \in Nat
  BY RangeOf DEF References, TypeOK
<1>2. items = Pick(all, Certified)
  BY DEF EntryItems, Certified
<1>3. ASSUME NEW i \in DOMAIN entries
      PROVE  /\ all[i] \in AnItem
             /\ all[i].alias = JksAlias(entries[i], o) /\ all[i].key = entries[i].key
             /\ entries[i].key # NoKey => all[i].chain = entries[i].chain
             /\ entries[i].key = NoKey /\ entries[i].chain # << >> => Len(all[i].chain) = 1
  <2> DEFINE e == entries[i]
  <2>1. e \in Entry
    BY <1>1
  <2>2. JksAlias(e, o) \in Alias
    BY <1>1, JksAliasTyped
  <2> HIDE DEF e
  <2>3. e.chain \in Seq(Cert) /\ Len(e.chain) \in Nat /\ e.key \in Key \cup {NoKey}
    BY <2>1 DEF Entry
  <2>4. chainOf(e) \in Seq(Cert)
    <3>1. {1, Len(e.chain)} \in SUBSET Nat /\ {1, Len(e.chain)} # {}
      BY <2>3
    <3>2. Min({1, Len(e.chain)}) \in Nat /\ Min({1, Len(e.chain)}) <= Len(e.chain)
      BY <3>1, MinIsLeast
    <3>3. ASSUME NEW m \in Nat, m <= Len(e.chain)  PROVE SubSeq(e.chain, 1, m) \in Seq(Cert)
      BY <2>3, <3>3
    <3> QED  BY <2>3, <3>2, <3>3
  <2>5. e.key # NoKey => chainOf(e) = e.chain
    OBVIOUS
  <2>8. e.key = NoKey /\ e.chain # << >> => Len(chainOf(e)) = 1
    <3>1. {1, Len(e.chain)} \in SUBSET Nat /\ {1, Len(e.chain)} # {}
      BY <2>3
    <3>2. e.chain # << >> => Min({1, Len(e.chain)}) = 1
      BY <2>3, <3>1, MinIsLeast
    <3>3. e.chain # << >> => Len(SubSeq(e.chain, 1, 1)) = 1
      BY <2>3
    <3> QED  BY <3>2, <3>3
  <2>6. all[i] = Item(JksAlias(e, o), e.key, chainOf(e))
    BY DEF e
  <2> HIDE DEF all, chainOf
  <2>7. /\ all[i] \in AnItem /\ all[i].alias = JksAlias(e, o) /\ all[i].key = e.key
        /\ all[i].chain = chainOf(e)
    BY <2>2, <2>3, <2>4, <2>6 DEF Item, AnItem
  <2> QED  BY <2>5, <2>7, <2>8 DEF e
<1>4. DOMAIN all = DOMAIN entries /\ all = [i \in 1 .. Len(entries) |-> all[i]]
  BY <1>1
<1> HIDE DEF all, items
<1>5. all \in Seq(AnItem)
  BY <1>1, <1>3, <1>4
<1>6. Certified \in SUBSET (DOMAIN all)
  BY <1>4 DEF Certified
<1>7. /\ items \in Seq(AnItem) /\ DOMAIN items = 1 .. Cardinality(Certified)
      /\ \A j \in 1 .. Cardinality(Certified) :
            \E i \in Certified : Rank(Certified, i) = j /\ items[j] = all[i]
  BY <1>2, <1>5, <1>6, PickProperties
<1>8. ASSUME NEW i \in Certified
      PROVE  \E j \in DOMAIN items : items[j] = all[i]
  BY <1>2, <1>5, <1>6, <1>7, PickAt
<1>9. Certified \subseteq DOMAIN entries /\ \A i \in Certified : entries[i].chain # << >>
  BY DEF Certified
<1>10. ASSUME NEW j \in DOMAIN items
       PROVE  \E i \in Certified :
                 /\ Rank(Certified, i) = j
                 /\ items[j].alias = JksAlias(entries[i], o)
                 /\ items[j].key = entries[i].key
                 /\ entries[i].key # NoKey => items[j].chain = entries[i].chain
                 /\ entries[i].key = NoKey => Len(items[j].chain) = 1
  <2>1. PICK i \in Certified : Rank(Certified, i) = j /\ items[j] = all[i]
    BY <1>7
  <2> QED  BY <1>3, <1>9, <2>1
<1>11. ASSUME NEW i \in Certified
       PROVE  \E j \in DOMAIN items : items[j].key = entries[i].key
  BY <1>3, <1>8, <1>9
<1> QED  BY <1>7, <1>10, <1>11 DEF items

(* What an accepted JKS consists of. *)
LEMMA JksAccepted ==
  ASSUME References, NEW o \in Options, EncodeJKS(o).err = "none"
  PROVE  LET aliases   == [i \in DOMAIN entries |-> JksAlias(entries[i], o)]
             bound     == EntryItems(o)
             rest      == WriteRemaining(Keep(certs, Cert \ CertsOf(bound)), aliases)
         IN  /\ EncodeJKS(o).items = bound \o rest.items
             /\ rest.clash = FALSE /\ bound \o rest.items # << >>
             /\ o.password \in LongPasswords
             /\ \A i \in DOMAIN entries : EntryFault(i, o) = "none"
<1> DEFINE aliases   == [i \in DOMAIN entries |-> JksAlias(entries[i], o)]
           bound     == EntryItems(o)
           remaining == Keep(certs, Cert \ CertsOf(bound))
           rest      == WriteRemaining(remaining, aliases)
           faults    == {i \in DOMAIN entries : EntryFault(i, o) # "none"}
<1>1. TypeOK /\ DOMAIN entries \in SUBSET Nat /\ certs \in Seq(Cert)
  BY RangeOf DEF References, TypeOK
<1>2. rest.clash \in BOOLEAN
  <2>1. remaining \in Seq(Cert)
    BY <1>1, KeepProperties
  <2> HIDE DEF remaining, aliases
  <2> QED  BY <1>1, <2>1, RemainingInv DEF PassesInv
<1>3. faults = {}
  <2> SUFFICES ASSUME faults # {}  PROVE FALSE
    OBVIOUS
  <2>1. faults \in SUBSET Nat
    BY <1>1
  <2>2. Min(faults) \in faults
    <3> HIDE DEF faults
    <3> QED  BY <2>1, MinIsLeast
  <2>3. EntryFault(Min(faults), o) # "none"
    BY <2>2
  <2>4. EncodeJKS(o) = Refuse("Password") \/ EncodeJKS(o) = Refuse(EntryFault(Min(faults), o))
    <3> HIDE DEF rest, remaining, aliases, bound
    <3> QED  BY DEF EncodeJKS
  <2> QED  BY <2>3, <2>4, AcceptedOrRefused
<1>4. /\ EncodeJKS(o).items = bound \o rest.items
      /\ rest.clash = FALSE /\ bound \o rest.items # << >>
      /\ o.password \in LongPasswords
  <2> DEFINE items == bound \o rest.items
             accepted == Accept(items, aliases \o [i \in DOMAIN rest.items |-> rest.items[i].alias],
                                SumFunction([i \in DOMAIN items |-> Len(items[i].chain)]),
                                Cardinality({i \in DOMAIN items : items[i].key # NoKey}), 0, 0)
  <2>1. \/ EncodeJKS(o) = Refuse("Password")
        \/ EncodeJKS(o) = Refuse("AliasConflict")
        \/ EncodeJKS(o) = Refuse("InvalidData")
        \/ /\ ~rest.clash /\ items # << >> /\ o.password \in LongPasswords
           /\ EncodeJKS(o) = accepted
    BY <1>3, Zenon DEF EncodeJKS
  <2>2. accepted.items = items
    <3> HIDE DEF items, rest, aliases
    <3> QED  BY AcceptedOrRefused
  <2> HIDE DEF items, accepted, rest
  <2>3. /\ ~rest.clash /\ items # << >> /\ o.password \in LongPasswords
        /\ EncodeJKS(o) = accepted
    BY <2>1, AcceptedOrRefused
  <2>4. rest.clash = FALSE
    BY <1>2, <2>3
  <2> QED  BY <2>2, <2>3, <2>4 DEF items
<1> QED  BY <1>3, <1>4

(* Where the elements of a concatenation come from. *)
LEMMA ConcatAt ==
  ASSUME NEW S, NEW s \in Seq(S), NEW t \in Seq(S)
  PROVE  /\ DOMAIN s = 1 .. Len(s) /\ Len(s) \in Nat
         /\ DOMAIN (s \o t) = 1 .. (Len(s) + Len(t))
         /\ \A j \in 1 .. Len(s) : (s \o t)[j] = s[j]
         /\ \A j \in DOMAIN (s \o t) : j \notin 1 .. Len(s) =>
               j - Len(s) \in 1 .. Len(t) /\ (s \o t)[j] = t[j - Len(s)]
OBVIOUS

(* The properties of an accepted JKS, for one value of the options. *)
JksOutputSound(o) ==
  LET items == EncodeJKS(o).items
  IN  /\ \A i, j \in DOMAIN items : i # j => Lower[items[i].alias] # Lower[items[j].alias]
      /\ \A i \in DOMAIN items :
            items[i].key # NoKey => Matches(items[i].key, items[i].chain[1])
      /\ ToSet(certs) \subseteq CertsOf(items)
      /\ {k \in ToSet(keys) : HasEntry(k)} \subseteq KeysOf(items)

LEMMA EncodeJKSSound ==
  ASSUME References, NEW o \in Options, EncodeJKS(o).err = "none"
  PROVE  JksOutputSound(o)
<1> DEFINE aliases   == [i \in DOMAIN entries |-> JksAlias(entries[i], o)]
           bound     == EntryItems(o)
           remaining == Keep(certs, Cert \ CertsOf(bound))
           rest      == WriteRemaining(remaining, aliases)
           items     == bound \o rest.items
           given     == {Lower[a] : a \in ToSet(aliases)}
<1>1. TypeOK /\ DOMAIN entries \subseteq Nat /\ certs \in Seq(Cert)
  BY RangeOf DEF References, TypeOK
<1>2. /\ EncodeJKS(o).items = items /\ rest.clash = FALSE
      /\ \A i \in DOMAIN entries : EntryFault(i, o) = "none"
  BY JksAccepted
<1>3. remaining \in Seq(Cert) /\ ToSet(remaining) = ToSet(certs) \cap (Cert \ CertsOf(bound))
  BY <1>1, KeepProperties
<1>4. PassesInv(rest, Len(remaining), remaining, aliases)
  <2> HIDE DEF remaining, aliases
  <2> QED  BY <1>1, <1>3, RemainingInv
<1>5. /\ bound \in Seq(AnItem)
      /\ \A j \in DOMAIN bound : \E i \in Certified :
            /\ Rank(Certified, i) = j
            /\ bound[j].alias = JksAlias(entries[i], o)
            /\ bound[j].key = entries[i].key
            /\ entries[i].key # NoKey => bound[j].chain = entries[i].chain
      /\ \A i \in Certified : \E j \in DOMAIN bound : bound[j].key = entries[i].key
  BY EntryItemsHold
<1>6. \A i \in DOMAIN entries : Lower[JksAlias(entries[i], o)] \in given
  BY DEF ToSet
<1>7. Certified \subseteq DOMAIN entries
  BY DEF Certified
<1> HIDE DEF bound, rest, remaining, aliases, given
<1>8. /\ rest.items \in Seq(AnItem) /\ Len(rest.items) = Len(remaining) /\ Len(remaining) \in Nat
      /\ \A m \in 1 .. Len(remaining) : /\ rest.items[m].key = NoKey
                                        /\ rest.items[m].chain = <<remaining[m]>>
                                        /\ Lower[rest.items[m].alias] \notin given
      /\ \A l, m \in 1 .. Len(remaining) :
            l # m => Lower[rest.items[l].alias] # Lower[rest.items[m].alias]
  <2>1. Len(remaining) \in Nat
    BY <1>3, RangeOf
  <2>2. given = {Lower[a] : a \in ToSet(aliases)}
    BY DEF given
  <2>3. /\ rest.items \in Seq(AnItem) /\ Len(rest.items) = Len(remaining)
        /\ \A m \in 1 .. Len(remaining) : /\ rest.items[m].key = NoKey
                                          /\ rest.items[m].chain = <<remaining[m]>>
    BY <1>4, Zenon DEF PassesInv
  <2>4. /\ \A l, m \in 1 .. Len(remaining) :
              l # m => Lower[rest.items[l].alias] # Lower[rest.items[m].alias]
        /\ \A m \in 1 .. Len(remaining) : Lower[rest.items[m].alias] \notin given
    BY <1>2, <1>4, <2>2, Zenon DEF PassesInv
  <2> QED  BY <2>1, <2>3, <2>4
<1>9. /\ DOMAIN bound = 1 .. Len(bound) /\ Len(bound) \in Nat
      /\ DOMAIN items = 1 .. (Len(bound) + Len(remaining))
      /\ \A j \in 1 .. Len(bound) : items[j] = bound[j]
      /\ \A j \in DOMAIN items : j \notin 1 .. Len(bound) =>
            j - Len(bound) \in 1 .. Len(remaining) /\ items[j] = rest.items[j - Len(bound)]
  <2> DEFINE t == rest.items
  <2>1. t \in Seq(AnItem) /\ Len(t) = Len(remaining) /\ bound \in Seq(AnItem) /\ items = bound \o t
    BY <1>5, <1>8
  <2> HIDE DEF t, items
  <2>2. /\ DOMAIN bound = 1 .. Len(bound) /\ Len(bound) \in Nat
        /\ DOMAIN items = 1 .. (Len(bound) + Len(t))
        /\ \A j \in 1 .. Len(bound) : items[j] = bound[j]
        /\ \A j \in DOMAIN items : j \notin 1 .. Len(bound) =>
              j - Len(bound) \in 1 .. Len(t) /\ items[j] = t[j - Len(bound)]
    <3> DEFINE u == bound \o t
    <3>1. /\ DOMAIN bound = 1 .. Len(bound) /\ Len(bound) \in Nat
          /\ DOMAIN u = 1 .. (Len(bound) + Len(t))
          /\ \A j \in 1 .. Len(bound) : u[j] = bound[j]
          /\ \A j \in DOMAIN u : j \notin 1 .. Len(bound) =>
                j - Len(bound) \in 1 .. Len(t) /\ u[j] = t[j - Len(bound)]
      <4>1. bound \in Seq(AnItem) /\ t \in Seq(AnItem)
        BY <2>1
      <4> QED  BY <4>1, ConcatAt
    <3> HIDE DEF u
    <3>2. items = u
      BY <2>1 DEF u
    <3> QED  BY <3>1, <3>2
  <2> QED  BY <2>1, <2>2 DEF t
<1>10. \A i, j \in DOMAIN entries :
          i # j => Lower[JksAlias(entries[i], o)] # Lower[JksAlias(entries[j], o)]
  BY <1>2, EntryAliasesDiffer
<1>11. \A j \in DOMAIN bound : Lower[bound[j].alias] \in given
  BY <1>5, <1>6, <1>7
<1>12. \A i, j \in DOMAIN bound : i # j => Lower[bound[i].alias] # Lower[bound[j].alias]
  <2> SUFFICES ASSUME NEW i \in DOMAIN bound, NEW j \in DOMAIN bound, i # j
               PROVE  Lower[bound[i].alias] # Lower[bound[j].alias]
    OBVIOUS
  <2>1. PICK m \in Certified : Rank(Certified, m) = i /\ bound[i].alias = JksAlias(entries[m], o)
    BY <1>5
  <2>2. PICK n \in Certified : Rank(Certified, n) = j /\ bound[j].alias = JksAlias(entries[n], o)
    BY <1>5
  <2>3. m # n
    BY <2>1, <2>2
  <2> QED  BY <1>7, <1>10, <2>1, <2>2, <2>3
<1> HIDE DEF items
<1>13. \A i, j \in DOMAIN items : i # j => Lower[items[i].alias] # Lower[items[j].alias]
  <2> SUFFICES ASSUME NEW i \in DOMAIN items, NEW j \in DOMAIN items, i # j
               PROVE  Lower[items[i].alias] # Lower[items[j].alias]
    OBVIOUS
  <2>1. CASE i \in 1 .. Len(bound) /\ j \in 1 .. Len(bound)
    BY <1>9, <1>12, <2>1
  <2>2. CASE i \in 1 .. Len(bound) /\ j \notin 1 .. Len(bound)
    <3>1. items[i] = bound[i] /\ Lower[bound[i].alias] \in given
      BY <1>9, <1>11, <2>2
    <3>2. Lower[items[j].alias] \notin given
      BY <1>8, <1>9, <2>2
    <3> QED  BY <3>1, <3>2
  <2>3. CASE i \notin 1 .. Len(bound) /\ j \in 1 .. Len(bound)
    <3>1. items[j] = bound[j] /\ Lower[bound[j].alias] \in given
      BY <1>9, <1>11, <2>3
    <3>2. Lower[items[i].alias] \notin given
      BY <1>8, <1>9, <2>3
    <3> QED  BY <3>1, <3>2
  <2>4. CASE i \notin 1 .. Len(bound) /\ j \notin 1 .. Len(bound)
    <3>1. /\ i - Len(bound) \in 1 .. Len(remaining) /\ items[i] = rest.items[i - Len(bound)]
          /\ j - Len(bound) \in 1 .. Len(remaining) /\ items[j] = rest.items[j - Len(bound)]
      BY <1>9, <2>4
    <3>2. i - Len(bound) # j - Len(bound)
      BY <1>8, <1>9
    <3> QED  BY <1>8, <3>1, <3>2
  <2> QED  BY <2>1, <2>2, <2>3, <2>4
<1>14. ASSUME NEW j \in DOMAIN items, items[j].key # NoKey
       PROVE  Matches(items[j].key, items[j].chain[1])
  <2>1. j \in 1 .. Len(bound) /\ items[j] = bound[j]
    BY <1>8, <1>9, <1>14
  <2>2. PICK i \in Certified : /\ bound[j].key = entries[i].key
                               /\ entries[i].key # NoKey => bound[j].chain = entries[i].chain
    BY <1>5, <1>9, <2>1
  <2>3. bound[j].chain = entries[i].chain /\ Matches(entries[i].key, entries[i].chain[1])
    BY <1>2, <1>7, <1>14, <2>1, <2>2, NoFault
  <2> QED  BY <2>1, <2>2, <2>3
<1>15. CertsOf(items) = CertsOf(bound) \cup ToSet(remaining)
  <2>1. CertsOf(rest.items) = ToSet(remaining)
    <3>1. DOMAIN rest.items = 1 .. Len(remaining)
      BY <1>8
    <3> QED  BY <1>3, <1>8, <3>1, OneCertEach
  <2> QED  BY <1>5, <1>8, <2>1, ItemsJoined DEF items
<1>16. ToSet(certs) \subseteq CertsOf(items)
  <2>1. ToSet(certs) \subseteq Cert
    BY <1>1, RangeOf
  <2> QED  BY <1>3, <1>15, <2>1
<1>17. ASSUME NEW k \in ToSet(keys), HasEntry(k)  PROVE k \in KeysOf(items)
  <2>1. PICK i \in DOMAIN entries : entries[i].key = k
    BY <1>17 DEF HasEntry
  <2>2. k # NoKey
    BY Sentinels, RangeOf DEF References, TypeOK
  <2>3. i \in Certified
    BY <1>2, <2>1, <2>2, NoFault DEF Certified
  <2>4. PICK j \in DOMAIN bound : bound[j].key = k
    BY <1>5, <2>1, <2>3
  <2>5. j \in DOMAIN items /\ items[j].key = k
    BY <1>8, <1>9, <2>4
  <2> QED  BY <2>2, <2>5 DEF KeysOf
<1> QED  BY <1>2, <1>13, <1>14, <1>16, <1>17 DEF JksOutputSound

-----------------------------------------------------------------------------
(* What an accepted call of Store.Encode has called. *)
LEMMA AcceptedAs ==
  ASSUME NEW o, NEW format \in Formats, Accepted(format, o)
  PROVE  /\ format = "PEM"    => EncodeAs(format, o) = EncodePEM(o)    /\ EncodePEM(o).err = "none"
         /\ format = "DER"    => EncodeAs(format, o) = EncodeDER(o)    /\ EncodeDER(o).err = "none"
         /\ format = "PKCS7"
              => EncodeAs(format, o) = EncodePKCS7(o)  /\ EncodePKCS7(o).err = "none"
         /\ format = "PKCS12"
              => EncodeAs(format, o) = EncodePKCS12(o) /\ EncodePKCS12(o).err = "none"
         /\ format = "JKS"    => EncodeAs(format, o) = EncodeJKS(o)    /\ EncodeJKS(o).err = "none"
<1>1. EncodeAs(format, o).err = "none"
  BY DEF Accepted
<1>2. ~(HasUnavailableKeys /\ ~o.allowLossy)
  BY <1>1, AcceptedOrRefused DEF EncodeAs
<1>3. EncodeAs(format, o) = CASE format = "PEM"    -> EncodePEM(o)
                               [] format = "DER"    -> EncodeDER(o)
                               [] format = "PKCS7"  -> EncodePKCS7(o)
                               [] format = "PKCS12" -> EncodePKCS12(o)
                               [] format = "JKS"    -> EncodeJKS(o)
  BY <1>2 DEF EncodeAs
<1> QED  BY <1>1, <1>3

(* What an accepted encoding other than JKS writes. *)
LEMMA AcceptedWrites ==
  ASSUME References, NEW o \in Options, NEW format \in Formats \ {"JKS"}, Accepted(format, o),
         format = "PKCS12" => ChainsRepeatNothing
  PROVE  \E cs, ks : /\ Writes(EncodeAs(format, o), cs, ks)
                     /\ ~o.allowLossy => Expected(format, o) \subseteq ToSet(cs)
                                         /\ ToSet(keys) \subseteq ToSet(ks)
<1>1. format # "PEM" => Expected(format, o) = ToSet(certs)
  BY DEF Expected
<1>2. CASE format = "PEM"
  BY <1>2, AcceptedAs, EncodePEMWrites
<1>3. CASE format = "DER"
  BY <1>1, <1>3, AcceptedAs, EncodeDERWrites
<1>4. CASE format = "PKCS7"
  <2>1. /\ Writes(EncodeAs(format, o), certs, << >>)
        /\ ~o.allowLossy => ToSet(keys) = {}
    BY <1>4, AcceptedAs, EncodePKCS7Writes
  <2> QED  BY <1>1, <1>4, <2>1
<1>5. CASE format = "PKCS12"
  BY <1>1, <1>5, AcceptedAs, EncodePKCS12Writes
<1> QED  BY <1>2, <1>3, <1>4, <1>5 DEF Formats

-----------------------------------------------------------------------------
LEMMA JksIsSoundAlways == References => JksIsSound
<1> SUFFICES ASSUME References, NEW o \in Options, Accepted("JKS", o)
             PROVE  LET items == EncodeAs("JKS", o).items
                    IN  /\ \A i, j \in DOMAIN items :
                              i # j => Lower[items[i].alias] # Lower[items[j].alias]
                        /\ \A i \in DOMAIN items :
                              items[i].key # NoKey => Matches(items[i].key, items[i].chain[1])
                        /\ ToSet(certs) \subseteq CertsOf(items)
                        /\ {k \in ToSet(keys) : HasEntry(k)} \subseteq KeysOf(items)
  BY DEF JksIsSound
<1>1. "JKS" \in Formats
  BY DEF Formats
<1>2. EncodeAs("JKS", o) = EncodeJKS(o) /\ EncodeJKS(o).err = "none"
  BY <1>1, AcceptedAs
<1>3. JksOutputSound(o)
  BY <1>2, EncodeJKSSound
<1> QED  BY <1>2, <1>3, Zenon DEF JksOutputSound

(* An accepted JKS names no two entries alike, pairs each key with a
   certificate of its own, and holds every certificate of the store and every
   key that has an entry, whatever aliases the store and the options give. *)
THEOREM EncodeJksIsSound == Spec => []JksIsSound
BY JksIsSoundAlways, StoreReferences, PTL

LEMMA LossIsDeclaredAlways == References => LossIsDeclared
<1> SUFFICES ASSUME References, NEW o \in Options, NEW format \in Formats,
                    Accepted(format, o), ~o.allowLossy,
                    format = "PKCS12" => ChainsRepeatNothing,
                    format = "JKS" => \A k \in ToSet(keys) : HasEntry(k)
             PROVE  Lossless(format, o)
  BY Zenon DEF LossIsDeclared
<1>1. CASE format = "JKS"
  <2>1. EncodeAs(format, o) = EncodeJKS(o) /\ JksOutputSound(o)
    BY <1>1, AcceptedAs, EncodeJKSSound
  <2>2. Expected(format, o) \subseteq ToSet(certs)
    BY DEF Expected
  <2>3. {k \in ToSet(keys) : HasEntry(k)} = ToSet(keys)
    BY <1>1
  <2>4. /\ ToSet(certs) \subseteq CertsOf(EncodeJKS(o).items)
        /\ ToSet(keys) \subseteq KeysOf(EncodeJKS(o).items)
    BY <2>1, <2>3 DEF JksOutputSound
  <2> QED  BY <2>1, <2>2, <2>4 DEF Lossless
<1>2. CASE format # "JKS"
  <2>1. PICK cs, ks : /\ Writes(EncodeAs(format, o), cs, ks)
                      /\ ~o.allowLossy => Expected(format, o) \subseteq ToSet(cs)
                                          /\ ToSet(keys) \subseteq ToSet(ks)
    BY <1>2, AcceptedWrites
  <2>2. Expected(format, o) \subseteq ToSet(cs) /\ ToSet(keys) \subseteq ToSet(ks)
    BY <2>1, Zenon
  <2> QED  BY <2>1, <2>2 DEF Lossless, Writes
<1> QED  BY <1>1, <1>2

(* Whoever does not pass AllowLossy gets every certificate and every key of the
   store into the output, or an error: in PKCS12 unless a chain repeats a
   certificate, in JKS unless a key has lost its entry. *)
THEOREM EncodeLossIsDeclared == Spec => []LossIsDeclared
BY LossIsDeclaredAlways, StoreReferences, PTL

LEMMA ReportBalancesAlways == References => ReportBalances
<1> SUFFICES ASSUME References, NEW o \in Options, NEW format \in Formats \ {"JKS"},
                    Accepted(format, o), format = "PKCS12" => ChainsRepeatNothing
             PROVE  LET r == EncodeAs(format, o)
                    IN  /\ r.report.certsWritten = Cardinality(CertsOf(r.items))
                        /\ r.report.keysWritten = Cardinality(KeysOf(r.items))
                        /\ r.report.certsWritten + r.report.certsDiscarded = Len(certs)
                        /\ r.report.keysWritten + r.report.keysDiscarded = Len(keys)
  BY Zenon DEF ReportBalances
<1> DEFINE r == EncodeAs(format, o)
<1>1. PICK cs, ks : Writes(r, cs, ks)
  BY AcceptedWrites
<1> HIDE DEF r
<1>2. /\ cs \in Seq(Cert) /\ NoDuplicates(cs) /\ CertsOf(r.items) = ToSet(cs)
      /\ ks \in Seq(Key) /\ NoDuplicates(ks) /\ KeysOf(r.items) = ToSet(ks)
      /\ r.report.certsWritten = Len(cs) /\ r.report.keysWritten = Len(ks)
      /\ r.report.certsDiscarded = Len(certs) - Len(cs)
      /\ r.report.keysDiscarded = Len(keys) - Len(ks)
  BY <1>1 DEF Writes
<1>3. /\ Cardinality(CertsOf(r.items)) = Len(cs)
      /\ Cardinality(KeysOf(r.items)) = Len(ks)
  BY <1>2, DistinctLength
<1>4. Len(cs) \in Nat /\ Len(ks) \in Nat /\ Len(certs) \in Nat /\ Len(keys) \in Nat
  BY <1>2, RangeOf DEF References, TypeOK
<1>5. /\ r.report.certsWritten + r.report.certsDiscarded = Len(certs)
      /\ r.report.keysWritten + r.report.keysDiscarded = Len(keys)
  BY <1>2, <1>4
<1> QED  BY <1>2, <1>3, <1>5 DEF r

(* The ConversionReport of every format but JKS counts what the output holds,
   and accounts for every object of the store. *)
THEOREM EncodeReportBalances == Spec => []ReportBalances
BY ReportBalancesAlways, StoreReferences, PTL

-----------------------------------------------------------------------------
(***************************************************************************)
(* Exported entries.                                                       *)
(***************************************************************************)

(* A list of certificates, and a key, that were written as PEM are read. *)
LEMMA PemOfCerts ==
  ASSUME NEW cs \in Seq(Cert), NEW o, PEM(cs, << >>, o).err = "none",
         ToSet(cs) \subseteq {c \in Cert : ~(o.excludeRoots /\ IsRoot(c))}
  PROVE  PemStore(PEM(cs, << >>, o).items).certs = cs
<1> DEFINE items == CertItems(cs)
<1>1. Kept(cs, o) = cs
  BY KeepAll DEF Kept
<1>2. << >> \in Seq(Key) /\ KeyItems(<< >>) = << >>
  BY DEF KeyItems
<1>3. PEM(cs, << >>, o) = Accept(items \o << >>, << >>, Len(cs), Len(<< >>), Len(cs) - Len(cs), 0)
  BY <1>1, <1>2, PEMWrites
<1>4. /\ items \in Seq(AnItem) /\ Len(items) = Len(cs) /\ Len(cs) \in Nat
      /\ \A i \in 1 .. Len(cs) : items[i].key = NoKey /\ items[i].chain = <<cs[i]>>
  BY CertItemsHold, RangeOf
<1> HIDE DEF items
<1>5. items \o << >> = items
  BY <1>4
<1>6. PEM(cs, << >>, o).items = items
  BY <1>3, <1>5, AcceptedOrRefused
<1>7. {j \in DOMAIN items : items[j].key = NoKey} = 1 .. Len(cs)
  BY <1>4
<1>8. Cardinality(1 .. Len(cs)) = Len(cs)
  <2>1. Len(cs) \in Nat
    BY <1>4
  <2> QED  BY <2>1, FS_Interval
<1>9. PemStore(items).certs = [i \in 1 .. Len(cs) |-> items[i].chain[1]]
  BY <1>7, <1>8 DEF PemStore
<1>10. [i \in 1 .. Len(cs) |-> items[i].chain[1]] = cs
  BY <1>4
<1> QED  BY <1>6, <1>9, <1>10

LEMMA PemOfKey ==
  ASSUME NEW k \in Key, NEW o, PEM(<< >>, <<k>>, o).err = "none"
  PROVE  PemStore(PEM(<< >>, <<k>>, o).items).keys = <<k>>
<1> DEFINE x == Item(Empty, k, << >>)
<1>1. /\ << >> \in Seq(Cert) /\ ToSet(<< >>) = {} /\ <<k>> \in Seq(Key)
  BY Nothing, Single
<1>2. Kept(<< >>, o) = << >>
  BY <1>1, KeepAll DEF Kept
<1>3. CertItems(<< >>) = << >> /\ KeyItems(<<k>>) = <<x>>
  BY DEF CertItems, KeyItems
<1> HIDE DEF x
<1>4. PEM(<< >>, <<k>>, o).items = <<x>>
  <2>1. << >> \o <<x>> = <<x>>
    OBVIOUS
  <2>2. PEM(<< >>, <<k>>, o)
          = Accept(CertItems(Kept(<< >>, o)) \o KeyItems(<<k>>), << >>, Len(Kept(<< >>, o)),
                   Len(<<k>>), Len(<< >>) - Len(Kept(<< >>, o)), 0)
    BY <1>1, PEMWrites
  <2>3. PEM(<< >>, <<k>>, o).items = CertItems(Kept(<< >>, o)) \o KeyItems(<<k>>)
    BY <2>2 DEF Accept
  <2> QED  BY <1>2, <1>3, <2>1, <2>3
<1>5. x.key = k /\ k # NoKey
  BY Sentinels DEF x, Item
<1>6. /\ [i \in DOMAIN <<x>> |-> <<x>>[i].key] = <<k>>
      /\ {i \in DOMAIN <<x>> : <<x>>[i].key # NoKey} = DOMAIN <<k>>
  BY <1>5
<1>7. PemStore(<<x>>).keys = Pick(<<k>>, DOMAIN <<k>>)
  BY <1>6 DEF PemStore
<1> QED  BY <1>1, <1>4, <1>7, PickAll

(* What the chain of an entry becomes when it is exported and read. *)
LEMMA ChainExported ==
  ASSUME References, NEW i \in DOMAIN entries, NEW o,
         CertificateChainPEM(entries[i], o).err = "none",
         ~(o.excludeRoots /\ IsRoot(entries[i].chain[1]))
  PROVE  LET e  == entries[i]
             cs == PemStore(CertificateChainPEM(e, o).items).certs
         IN  /\ cs \in Seq(Cert) /\ cs # << >> /\ cs[1] = e.chain[1] /\ e.chain # << >>
             /\ ~o.excludeRoots /\ NoDuplicates(e.chain) => cs = e.chain
<1> DEFINE e    == entries[i]
           T    == {c \in Cert : ~(o.excludeRoots /\ IsRoot(c))}
           kept == Keep(e.chain, T)
           cs   == AppendNew(<< >>, kept)
<1>1. e.chain \in Seq(Cert) /\ Len(e.chain) \in Nat /\ ToSet(e.chain) \subseteq Cert
  <2>1. e \in Entry
    BY DEF References, TypeOK
  <2> HIDE DEF e
  <2> QED  BY <2>1, RangeOf DEF Entry
<1>2. CertificateChainPEM(e, o) = PEM(cs, << >>, o) /\ kept # << >>
  BY AcceptedOrRefused DEF CertificateChainPEM
<1>3. ~(o.excludeRoots /\ IsRoot(e.chain[1]))
  OBVIOUS
<1> HIDE DEF e
<1>4. kept \in Seq(Cert) /\ ToSet(kept) = ToSet(e.chain) \cap T
  BY <1>1, KeepProperties
<1>5. e.chain # << >>
  <2>1. ASSUME e.chain = << >>  PROVE FALSE
    <3>1. ToSet(kept) = {}
      BY <1>4, <2>1, Nothing
    <3> HIDE DEF kept
    <3> QED  BY <1>2, <1>4, <3>1, HeadInRange
  <2> QED  BY <2>1
<1>6. kept[1] = e.chain[1]
  <2> DEFINE I == {n \in DOMAIN e.chain : e.chain[n] \in T}
  <2>1. 1 \in DOMAIN e.chain /\ e.chain[1] \in T
    BY <1>1, <1>3, <1>5
  <2>2. I \in SUBSET (DOMAIN e.chain) /\ 1 .. 1 \subseteq I
    BY <2>1
  <2> HIDE DEF I
  <2>3. Pick(e.chain, I)[1] = e.chain[1]
    BY <1>1, <2>2, PickPrefix
  <2> QED  BY <2>3 DEF Keep, I
<1> HIDE DEF kept
<1>7. cs \in Seq(Cert) /\ ToSet(cs) = ToSet(kept) /\ cs[1] = kept[1] /\ Len(cs) >= 1
  BY <1>2, <1>4, FirstOfNew
<1> HIDE DEF cs
<1>8. PemStore(PEM(cs, << >>, o).items).certs = cs
  <2>1. PEM(cs, << >>, o).err = "none"
    BY <1>2 DEF e
  <2>2. ToSet(cs) \subseteq T
    BY <1>4, <1>7
  <2> QED  BY <1>7, <2>1, <2>2, PemOfCerts
<1>9. ASSUME ~o.excludeRoots, NoDuplicates(e.chain)  PROVE cs = e.chain
  <2>1. ToSet(e.chain) \subseteq T
    BY <1>1, <1>9
  <2>2. kept = e.chain
    BY <1>1, <2>1, KeepAll DEF kept
  <2> QED  BY <1>1, <1>9, <2>2, NewDistinct DEF cs
<1> QED  BY <1>2, <1>5, <1>6, <1>7, <1>8, <1>9 DEF e

LEMMA ExportedEntriesReopenAlways == References => ExportedEntriesReopen
<1> SUFFICES ASSUME References, NEW i \in DOMAIN entries, NEW o \in Options,
                    CertificateChainPEM(entries[i], o).err = "none",
                    PrivateKeyPEM(entries[i], o).err = "none",
                    Matches(entries[i].key, entries[i].chain[1]),
                    ~(o.excludeRoots /\ IsRoot(entries[i].chain[1]))
             PROVE  \E x \in OpenEntry(PemStore(CertificateChainPEM(entries[i], o).items),
                                       PemStore(PrivateKeyPEM(entries[i], o).items)) :
                       /\ x.key = entries[i].key
                       /\ x.chain[1] = entries[i].chain[1]
                       /\ ~o.excludeRoots /\ entries[i].chain = BuildChain(entries[i].chain[1], certs)
                             => x.chain = entries[i].chain
  BY Zenon DEF ExportedEntriesReopen
<1> DEFINE e    == entries[i]
           leaf == e.chain[1]
           cst  == PemStore(CertificateChainPEM(e, o).items)
           kst  == PemStore(PrivateKeyPEM(e, o).items)
           cs   == cst.certs
           M    == {n \in DOMAIN cs : Matches(e.key, cs[n])}
           x    == [alias |-> DefaultAlias[cs[Min(M)]], key |-> e.key,
                    status |-> "available", chain |-> MatchedChain(e.key, cs),
                    trusted |-> FALSE]
<1>1. /\ cs \in Seq(Cert) /\ cs # << >> /\ cs[1] = leaf /\ e.chain # << >>
      /\ ~o.excludeRoots /\ NoDuplicates(e.chain) => cs = e.chain
  BY ChainExported
<1>2. kst.keys = <<e.key>>
  <2>1. e.key # NoKey /\ PrivateKeyPEM(e, o) = PEM(<< >>, <<e.key>>, o)
    BY AcceptedOrRefused DEF PrivateKeyPEM
  <2>2. e.key \in Key
    <3>1. e \in Entry
      BY DEF References, TypeOK
    <3> HIDE DEF e
    <3> QED  BY <2>1, <3>1 DEF Entry
  <2>3. PEM(<< >>, <<e.key>>, o).err = "none"
    BY <2>1
  <2> HIDE DEF e
  <2> QED  BY <2>1, <2>2, <2>3, PemOfKey
<1>3. cst.failed = FALSE /\ kst.failed = FALSE
  BY DEF PemStore
<1>4. Matches(e.key, leaf) /\ leaf \in Cert
  BY <1>1
<1>5. certs \in Seq(Cert)
  BY DEF References, TypeOK
<1> HIDE DEF cst, kst, e
<1>6. 1 \in M /\ M # {}
  BY <1>1, <1>4
<1>7. Min(M) = 1
  <2>1. M \in SUBSET Nat /\ \A n \in M : n >= 1
    BY <1>1
  <2> HIDE DEF M
  <2>2. Min(M) \in M /\ Min(M) <= 1
    BY <1>6, <2>1, MinIsLeast
  <2>3. Min(M) \in Nat /\ Min(M) >= 1
    BY <2>1, <2>2
  <2> QED  BY <2>2, <2>3
<1>8. x \in OpenEntry(cst, kst)
  <2>1. Len(kst.keys) = 1 /\ kst.keys[1] = e.key
    BY <1>2
  <2>2. OpenEntry(cst, kst) = {x}
    BY <1>1, <1>3, <1>6, <2>1 DEF OpenEntry
  <2> QED  BY <2>2
<1>9. x.key = e.key /\ x.chain = BuildChain(leaf, cs)
  <2>1. MatchedChain(e.key, cs) = BuildChain(cs[Min(M)], cs)
    BY <1>6 DEF MatchedChain
  <2> QED  BY <1>1, <1>7, <2>1
<1> HIDE DEF x, cs, M
<1>10. x.chain[1] = leaf
  BY <1>1, <1>4, <1>9, HeadOfChain
<1>11. ASSUME ~o.excludeRoots, e.chain = BuildChain(leaf, certs)  PROVE x.chain = e.chain
  <2>1. NoDuplicates(e.chain)
    BY <1>4, <1>5, <1>11, BuildChainReturnsChain DEF IsChain
  <2>2. cs = e.chain
    BY <1>1, <1>11, <2>1, Zenon
  <2>3. BuildChain(leaf, BuildChain(leaf, certs)) = BuildChain(leaf, certs)
    BY <1>4, <1>5, ChainOfItself
  <2> HIDE DEF leaf
  <2> QED  BY <1>9, <1>11, <2>2, <2>3
<1> QED
  <2>1. /\ x.key = e.key /\ x.chain[1] = leaf
        /\ ~o.excludeRoots /\ e.chain = BuildChain(leaf, certs) => x.chain = e.chain
    BY <1>9, <1>10, <1>11, Zenon
  <2> QED  BY <1>8, <2>1, Zenon DEF cst, kst, e

(* CertificateChainPEM and PrivateKeyPEM of an entry, given to OpenEntry, yield
   the entry again: its key, its first certificate, and its chain if that was
   matched against the store, which it can be from its own certificates. *)
THEOREM EncodeExportedEntriesReopen == Spec => []ExportedEntriesReopen
BY ExportedEntriesReopenAlways, StoreReferences, PTL
=============================================================================
