--------------------------- MODULE ConvertProofs ---------------------------
(***************************************************************************)
(* What is encoded is opened again: the theorems about the encoders say    *)
(* what a file holds, those about the openers what is taken of it.  Here   *)
(* they meet.                                                              *)
(***************************************************************************)
EXTENDS Convert, EncodeProofs, OpenerProofs

(* A list without an element is empty. *)
LEMMA NoElement ==
  ASSUME NEW S, NEW s \in Seq(S), ToSet(s) = {}
  PROVE  s = << >>
BY HeadInRange

(* The limits that Open is called with let every store pass. *)
Unlimited == Normalized(call.limits) = DefaultLimits

(* Limits as high as the defaults refuse no store of the few objects there
   are. *)
LEMMA EveryStorePasses ==
  ASSUME SoundSoFar, Unlimited
  PROVE  Passes(Result, Normalized(call.limits))
<1>1. /\ readCerts \in Seq(Cert) /\ NoDuplicates(readCerts)
      /\ readKeys \in Seq(Key) /\ NoDuplicates(readKeys)
  BY DEF SoundSoFar, SoundStore
<1>2. /\ IsFiniteSet(Key) /\ Cardinality(Key) <= DefaultLimits.keys
      /\ Cardinality(Cert) <= DefaultLimits.certs
  BY ConvertInputsWellFormed DEF ConvertInputs
<1>3. DefaultLimits.certs \in Nat /\ DefaultLimits.keys \in Nat
  BY OpenInputsWellFormed DEF OpenInputs, Limits
<1>4. Len(readCerts) <= DefaultLimits.certs
  <2>1. Len(readCerts) <= Cardinality(Cert) /\ Cardinality(Cert) \in Nat /\ Len(readCerts) \in Nat
    BY <1>1, DistinctIsShort, CertCount
  <2> QED  BY <1>2, <1>3, <2>1
<1>5. Len(readKeys) <= DefaultLimits.keys
  <2>1. Cardinality(ToSet(readKeys)) = Len(readKeys) /\ ToSet(readKeys) \subseteq Key
    BY <1>1, DistinctLength, RangeOf
  <2>2. Cardinality(ToSet(readKeys)) <= Cardinality(Key) /\ Cardinality(Key) \in Nat
    BY <1>2, <2>1, FS_Subset, FS_CardinalityType
  <2>3. Len(readKeys) \in Nat
    BY <1>1
  <2> QED  BY <1>2, <1>3, <2>1, <2>2, <2>3
<1> QED  BY <1>4, <1>5 DEF Passes, Result, Unlimited

(* Re-matching leaves the entries that are there in their places, with their
   aliases, their keys and the certificates that their chains start with, and
   adds none if every key has one. *)
LEMMA RematchingKeeps ==
  ASSUME SoundSoFar, ToSet(readKeys) \subseteq {readEntries[i].key : i \in DOMAIN readEntries}
  PROVE  LET es == Opened(Result).entries
         IN  /\ Len(es) = Len(readEntries) /\ DOMAIN es = DOMAIN readEntries
             /\ \A i \in DOMAIN readEntries :
                  /\ es[i].alias = readEntries[i].alias /\ es[i].key = readEntries[i].key
                  /\ es[i].trusted = readEntries[i].trusted
                  /\ readEntries[i].chain # << >> => es[i].chain[1] = readEntries[i].chain[1]
<1> DEFINE es == Reconcile(readEntries, readCerts, readKeys)
           S == Sound(readCerts, readKeys)
<1>1. readCerts \in Seq(Cert) /\ readKeys \in Seq(Key) /\ readEntries \in Seq(S)
  BY DEF SoundSoFar, SoundStore
<1>2. Opened(Result).entries = es
  BY DEF Opened, Result
<1>3. Len(es) = Len(readEntries) /\ DOMAIN es = DOMAIN readEntries
  <2> DEFINE T == Key \ {readEntries[i].key : i \in DOMAIN readEntries}
             os == Keep(readKeys, T)
  <2>1. os \in Seq(Key) /\ ToSet(os) = {}
    <3>1. ToSet(readKeys) \cap T = {}
      OBVIOUS
    <3> HIDE DEF T
    <3> QED  BY <1>1, <3>1, KeepProperties
  <2>2. os = << >>
    <3> HIDE DEF os
    <3> QED  BY <2>1, NoElement
  <2>3. es = [i \in DOMAIN readEntries |-> Rechained(readEntries[i], readCerts)]
               \o [j \in DOMAIN os |-> KeyEntry(os[j], readCerts)]
    BY DEF Reconcile
  <2> DEFINE a == [i \in DOMAIN readEntries |-> Rechained(readEntries[i], readCerts)]
             b == [j \in DOMAIN os |-> KeyEntry(os[j], readCerts)]
  <2> HIDE DEF os, es
  <2>4. b = << >>
    BY <2>2
  <2>5. Len(a) = Len(readEntries) /\ DOMAIN a = 1 .. Len(readEntries)
    BY <1>1
  <2>6. Len(a \o << >>) = Len(a) /\ DOMAIN (a \o << >>) = 1 .. Len(a)
    <3> HIDE DEF a
    <3> QED  BY <2>5
  <2> QED  BY <1>1, <2>3, <2>4, <2>5, <2>6
<1>4. ASSUME NEW i \in DOMAIN readEntries
      PROVE  /\ es[i].alias = readEntries[i].alias /\ es[i].key = readEntries[i].key
             /\ es[i].trusted = readEntries[i].trusted
             /\ readEntries[i].chain # << >> => es[i].chain[1] = readEntries[i].chain[1]
  <2> DEFINE e == readEntries[i]
  <2>1. es[i] = Rechained(e, readCerts)
    BY <1>1, ReconcileInPlace
  <2>2. e \in Entry /\ e.chain \in Seq(Cert)
    BY <1>1 DEF Sound, Entry
  <2>3. e.chain # << >> => e.chain[1] \in Cert
    <3> HIDE DEF e
    <3> QED  BY <2>2
  <2>4. e.chain # << >> => BuildChain(e.chain[1], readCerts)[1] = e.chain[1]
    BY <1>1, <2>3, HeadOfChain
  <2> HIDE DEF e, es
  <2> QED  BY <2>1, <2>2, <2>4 DEF Rechained, Entry, e
<1> HIDE DEF es
<1> QED  BY <1>2, <1>3, <1>4
-----------------------------------------------------------------------------
(***************************************************************************)
(* JKS.                                                                    *)
(***************************************************************************)

(* A file has this item. *)
StandsFor(x, item) == x.alias = item.alias /\ x.key = item.key /\ x.chain = item.chain

SameItems(items, xs) ==
  /\ Len(xs) = Len(items)
  /\ \A n \in DOMAIN xs : \E i \in DOMAIN items : StandsFor(xs[n], items[i])
  /\ \A i \in DOMAIN items : \E n \in DOMAIN xs : StandsFor(xs[n], items[i])

(* Somebody who has the passwords of w can read the entry x. *)
Unlocks(w, x) ==
  /\ x.bad = FALSE /\ x.chain # << >>
  /\ x.kind = IF x.key = NoKey THEN "trusted" ELSE "key"
  /\ x.key # NoKey => x.password = w.keyPasswords[x.alias]

(* v is the JKS file that was written of w. *)
FitsJks(w, v) ==
  /\ IsJksFile(v) /\ v.malformed = FALSE
  /\ w.items \in Seq(AnItem)
  /\ w.password \in Password \ {Altered}
  /\ w.keyPasswords \in [Alias -> Password \cup {NoPassword}]
  /\ v.password = IF w.genuine THEN w.password ELSE Altered
  /\ \A n \in DOMAIN v.items : Unlocks(w, v.items[n])
  /\ SameItems(w.items, v.items)

(* The options of somebody who has these passwords. *)
OptionsOf(w) == opts.password = w.password /\ opts.keyPasswords = w.keyPasswords

(* The entries of the items before pos are there, and their objects. *)
JksRestored ==
  /\ ~loadErr /\ outcome \in {"reading", "ok"}
  /\ Len(readEntries) = IF pos = 0 THEN 0 ELSE pos - 1
  /\ \A n \in DOMAIN readEntries :
        /\ n \in DOMAIN file.items
        /\ StandsFor(readEntries[n], file.items[n])
        /\ readEntries[n].trusted = (file.items[n].key = NoKey)
  /\ ToSet(readCerts) = UNION {ToSet(readEntries[n].chain) : n \in DOMAIN readEntries}
  /\ ToSet(readKeys) = {readEntries[n].key : n \in DOMAIN readEntries} \ {NoKey}

(* The password of the file is tried. *)
LEMMA PasswordOfFile ==
  ASSUME NEW w, FitsJks(w, file), OptionsOf(w)
  PROVE  Verified <=> w.genuine
<1>1. StorePassword(opts) = w.password
  BY PasswordSentinels DEF StorePassword, FitsJks, OptionsOf
<1>2. w.password # Altered
  BY DEF FitsJks
<1> QED  BY <1>1, <1>2 DEF Verified, FitsJks

(* And so is the password of a key. *)
LEMMA KeyUnlocked ==
  ASSUME NEW w, FitsJks(w, file), OptionsOf(w), ~loadErr, AtItem("key"),
         NEW p \in PasswordsByAlias(opts.keyPasswords, CurrentItem.alias)
  PROVE  Unlocked(p) = CurrentItem.key /\ CurrentItem.key \in Key
<1>1. file.items \in Seq(JksItem) /\ pos \in DOMAIN file.items
  BY DEF FitsJks, IsJksFile, AtItem
<1>2. CurrentItem \in JksItem /\ CurrentItem.kind = "key" /\ Unlocks(w, CurrentItem)
  BY <1>1 DEF FitsJks, CurrentItem, AtItem
<1>3. CurrentItem.key \in Key /\ CurrentItem.password = opts.keyPasswords[CurrentItem.alias]
  BY <1>2 DEF Unlocks, JksItem, OptionsOf
<1>4. CurrentItem.password \in Password
  BY <1>2 DEF JksItem
<1>5. CurrentItem.password # NoPassword /\ CurrentItem.password # Failed
  BY <1>4, PasswordSentinels
<1>6. p = CurrentItem.password
  BY <1>3, <1>5 DEF PasswordsByAlias
<1>7. CurrentItem.password \in KeyCandidates(opts, CurrentItem.alias, p)
  BY <1>5, <1>6 DEF KeyCandidates
<1> QED  BY <1>3, <1>7 DEF Unlocked

(* One more entry, and its objects. *)
LEMMA EntryRestored ==
  ASSUME JksReading, JksReading', JksRestored, outcome = "reading", pos \in DOMAIN file.items,
         Advance,
         ~loadErr', NEW e, readEntries' = Append(readEntries, e),
         StandsFor(e, CurrentItem), e.trusted = (CurrentItem.key = NoKey),
         ToSet(readCerts') = ToSet(readCerts) \cup ToSet(e.chain),
         ToSet(readKeys') = ToSet(readKeys) \cup ({e.key} \ {NoKey})
  PROVE  JksRestored'
<1>1. readEntries \in Seq(Sound(readCerts, readKeys)) /\ file.items \in Seq(JksItem)
  BY DEF JksReading, SoundSoFar, SoundStore, IsJksFile
<1>2. pos \in Nat /\ pos # 0 /\ Len(readEntries) = pos - 1
  BY <1>1 DEF JksRestored
<1>3. /\ DOMAIN readEntries' = DOMAIN readEntries \cup {pos} /\ Len(readEntries') = pos
      /\ pos \notin DOMAIN readEntries
      /\ \A n \in DOMAIN readEntries : readEntries'[n] = readEntries[n]
      /\ readEntries'[pos] = e
  BY <1>1, <1>2
<1>4. /\ UNCHANGED <<file, outcome>> /\ pos' = pos + 1
  BY DEF Advance
<1>5. ASSUME NEW n \in DOMAIN readEntries'
      PROVE  /\ n \in DOMAIN file'.items
             /\ StandsFor(readEntries'[n], file'.items[n])
             /\ readEntries'[n].trusted = (file'.items[n].key = NoKey)
  <2>1. CASE n \in DOMAIN readEntries
    BY <1>3, <1>4, <2>1 DEF JksRestored
  <2>2. CASE n = pos
    BY <1>3, <1>4, <2>2 DEF CurrentItem
  <2> QED  BY <1>3, <2>1, <2>2
<1>6. ToSet(readCerts') = UNION {ToSet(readEntries'[n].chain) : n \in DOMAIN readEntries'}
  <2>1. ToSet(readCerts) = UNION {ToSet(readEntries[n].chain) : n \in DOMAIN readEntries}
    BY DEF JksRestored
  <2> QED  BY <1>3, <2>1
<1>7. ToSet(readKeys') = {readEntries'[n].key : n \in DOMAIN readEntries'} \ {NoKey}
  <2>1. ToSet(readKeys) = {readEntries[n].key : n \in DOMAIN readEntries} \ {NoKey}
    BY DEF JksRestored
  <2> QED  BY <1>3, <2>1
<1>8. Len(readEntries') = IF pos' = 0 THEN 0 ELSE pos' - 1
  BY <1>2, <1>3, <1>4
<1> QED  BY <1>4, <1>5, <1>6, <1>7, <1>8 DEF JksRestored

(* No step of openJKS fails on a file that was not altered. *)
LEMMA JksNextRestores ==
  ASSUME NEW w, FitsJks(w, file), w.genuine, OptionsOf(w), JksAccounts, JksRestored, JksNext
  PROVE  JksRestored'
<1>1. JksReading /\ JksReading'
  BY JksNextSound DEF JksAccounts
<1>2. file.items \in Seq(JksItem)
  BY DEF FitsJks, IsJksFile
<1>3. CASE Load
  <2>1. Verified /\ file.malformed = FALSE
    BY PasswordOfFile DEF FitsJks
  <2>2. loadErr' = FALSE /\ outcome' = "reading" /\ pos = 0 /\ pos' = 1 /\ UNCHANGED <<file, store>>
    BY <1>3, <2>1 DEF Load
  <2> QED  BY <2>2 DEF JksRestored, store
<1>4. CASE ReadTrusted
  <2> DEFINE e == TrustedEntry(CurrentItem.alias, CurrentItem.chain[1])
  <2>1. outcome = "reading" /\ pos \in DOMAIN file.items /\ Advance /\ readKeys' = readKeys
        /\ ~loadErr'
    BY <1>4 DEF ReadTrusted, AtItem, JksRestored
  <2>2. CurrentItem.kind = "trusted" /\ Unlocks(w, CurrentItem) /\ CurrentItem \in JksItem
    BY <1>2, <1>4, <2>1 DEF ReadTrusted, AtItem, FitsJks, CurrentItem
  <2>3. CurrentItem.key = NoKey
    BY <2>2 DEF Unlocks
  <2>4. CurrentItem.chain \in Seq(Cert) /\ Len(CurrentItem.chain) = 1
    BY <2>1, <2>2 DEF FitsJks, IsJksFile, CurrentItem, JksItem
  <2>5. CurrentItem.chain = <<CurrentItem.chain[1]>>
    BY <2>4
  <2>6. /\ StandsFor(e, CurrentItem) /\ e.trusted = (CurrentItem.key = NoKey)
        /\ e.chain = CurrentItem.chain /\ e.key = NoKey
    BY <2>3, <2>5 DEF StandsFor, TrustedEntry
  <2>7. ToSet(readCerts') = ToSet(readCerts) \cup ToSet(e.chain)
    BY <1>1, <1>4, <2>4, <2>6, ImportAdds DEF ReadTrusted, JksReading
  <2>8. ToSet(readKeys') = ToSet(readKeys) \cup ({e.key} \ {NoKey})
    BY <2>1, <2>6
  <2>9. readEntries' = Append(readEntries, e)
    BY <1>4 DEF ReadTrusted
  <2> HIDE DEF e
  <2> QED  BY <1>1, <2>1, <2>6, <2>7, <2>8, <2>9, EntryRestored
<1>5. CASE ReadKeyEntry
  <2>1. outcome = "reading" /\ pos \in DOMAIN file.items /\ Advance /\ AtItem("key")
    BY <1>5 DEF ReadKeyEntry, AtItem
  <2>2. PICK p \in PasswordsByAlias(opts.keyPasswords, CurrentItem.alias) :
          /\ readKeys' = IF Unlocked(p) = NoKey THEN readKeys ELSE AppendNew(readKeys, <<Unlocked(p)>>)
          /\ readEntries' = EntriesAfter(Unlocked(p))
          /\ loadErr' = LoadErrAfter(Unlocked(p))
    BY <1>5 DEF ReadKeyEntry
  <2>3. ~loadErr
    BY DEF JksRestored
  <2>4. Unlocked(p) = CurrentItem.key /\ CurrentItem.key \in Key
    BY <2>1, <2>3, KeyUnlocked
  <2>5. CurrentItem.key # NoKey
    BY <2>4, Sentinels
  <2> DEFINE k == CurrentItem.key
             e == KeyEntryOf(CurrentItem.alias, k, CurrentItem.chain)
  <2>6. readKeys' = AppendNew(readKeys, <<k>>) /\ readEntries' = Append(readEntries, e)
    BY <2>2, <2>4, <2>5 DEF EntriesAfter
  <2>7. ~loadErr'
    BY <2>2, <2>3, <2>4, <2>5 DEF LoadErrAfter
  <2>8. /\ StandsFor(e, CurrentItem) /\ e.trusted = (CurrentItem.key = NoKey)
        /\ e.chain = CurrentItem.chain /\ e.key = k
    BY <2>5 DEF StandsFor, KeyEntryOf
  <2>9. CurrentItem.chain \in Seq(Cert)
    BY <1>1, <2>1, JksItemType
  <2>10. ToSet(readCerts') = ToSet(readCerts) \cup ToSet(e.chain)
    BY <1>1, <1>5, <2>8, <2>9, ImportAdds DEF ReadKeyEntry, JksReading
  <2>11. ToSet(readKeys') = ToSet(readKeys) \cup ({e.key} \ {NoKey})
    <3>1. readKeys \in Seq(Key)
      BY <1>1 DEF JksReading, SoundSoFar, SoundStore
    <3>2. ToSet(AppendNew(readKeys, <<k>>)) = ToSet(readKeys) \cup {k}
      BY <2>4, <3>1, AppendOne
    <3> HIDE DEF k, e
    <3> QED  BY <2>5, <2>6, <2>8, <3>2 DEF k
  <2> HIDE DEF e
  <2> QED  BY <1>1, <2>1, <2>6, <2>7, <2>8, <2>10, <2>11, EntryRestored
<1>6. CASE SkipOther
  <2>1. pos \in DOMAIN file.items /\ file.items[pos].kind = "other"
    BY <1>6 DEF SkipOther, AtItem, CurrentItem
  <2> QED  BY <2>1 DEF FitsJks, Unlocks
<1>7. CASE RejectItem
  <2>1. pos \in DOMAIN file.items /\ file.items[pos].bad
    BY <1>7 DEF RejectItem, AtItem, CurrentItem
  <2> QED  BY <2>1 DEF FitsJks, Unlocks
<1>8. CASE FinishJks
  BY <1>8 DEF FinishJks, JksRestored, Return, store
<1> QED  BY <1>3, <1>4, <1>5, <1>6, <1>7, <1>8 DEF JksNext

(* What has to be true of the store f that is made of w. *)
Recovers(w, f) ==
  /\ w.genuine => ~f.failed /\ KeepsBindings(w, f)
  /\ ~f.failed => KeepsObjects(w, f)
  /\ ~w.genuine => NoticesAlteration(w, f)

(* A file is opened with all its entries, or is found to be altered. *)
LEMMA JksRecovers ==
  ASSUME NEW w, w.format = "JKS", FitsJks(w, file), OptionsOf(w), JksAccounts,
         w.genuine => JksRestored, Returned
  PROVE  Recovers(w, Opened(Result))
<1> DEFINE f == Opened(Result)
           es == f.entries
<1>1. f.certs = readCerts /\ f.keys = readKeys /\ f.failed = (outcome # "ok")
  BY DEF Opened, Result
<1> SUFFICES Recovers(w, f)
  OBVIOUS
<1>2. CASE ~w.genuine
  <2>1. ~Verified
    BY <1>2, PasswordOfFile
  <2>2. readKeys = << >>
    BY <2>1 DEF JksAccounts, KeysWereUnlocked
  <2>3. outcome # "ok"
    <3>1. IsJks
      BY DEF FitsJks, IsJksFile, IsJks
    <3> QED  BY <2>1, <3>1, AccountsAreComplete DEF SuccessIsComplete
  <2> HIDE DEF f
  <2> QED  BY <1>1, <1>2, <2>2, <2>3 DEF Recovers, NoticesAlteration
<1>3. CASE w.genuine
  <2>1. JksRestored /\ outcome = "ok"
    BY <1>3 DEF JksRestored, Returned
  <2>2. SoundSoFar /\ file.items \in Seq(JksItem) /\ pos = Len(file.items) + 1
    BY <2>1 DEF JksAccounts, JksReading, IsJksFile
  <2>3. Len(readEntries) = Len(file.items) /\ readEntries \in Seq(Sound(readCerts, readKeys))
    BY <2>1, <2>2 DEF JksRestored, SoundSoFar, SoundStore
  <2>4. DOMAIN readEntries = DOMAIN file.items
    BY <2>2, <2>3
  <2>5. \A n \in DOMAIN readEntries : /\ StandsFor(readEntries[n], file.items[n])
                                      /\ readEntries[n].trusted = (file.items[n].key = NoKey)
                                      /\ readEntries[n].chain # << >>
    <3>1. \A n \in DOMAIN file.items : file.items[n].chain # << >>
      BY DEF FitsJks, Unlocks
    <3> QED  BY <2>1, <3>1 DEF JksRestored, StandsFor
  <2>6. SameItems(w.items, file.items)
    BY DEF FitsJks
  <2>7. ToSet(readCerts) = CertsOf(w.items)
    <3>1. ToSet(readCerts) = UNION {ToSet(readEntries[n].chain) : n \in DOMAIN readEntries}
      BY <2>1 DEF JksRestored
    <3>2. {ToSet(readEntries[n].chain) : n \in DOMAIN readEntries}
            = {ToSet(w.items[i].chain) : i \in DOMAIN w.items}
      BY <2>4, <2>5, <2>6 DEF SameItems, StandsFor
    <3> QED  BY <3>1, <3>2 DEF CertsOf
  <2>8. ToSet(readKeys) = KeysOf(w.items)
    <3>1. ToSet(readKeys) = {readEntries[n].key : n \in DOMAIN readEntries} \ {NoKey}
      BY <2>1 DEF JksRestored
    <3>2. {readEntries[n].key : n \in DOMAIN readEntries}
            = {file.items[n].key : n \in DOMAIN file.items}
      BY <2>4, <2>5 DEF StandsFor
    <3>3. {file.items[n].key : n \in DOMAIN file.items} = {w.items[i].key : i \in DOMAIN w.items}
      <4>1. /\ \A n \in DOMAIN file.items : \E i \in DOMAIN w.items : file.items[n].key = w.items[i].key
            /\ \A i \in DOMAIN w.items : \E n \in DOMAIN file.items : file.items[n].key = w.items[i].key
        BY <2>6 DEF SameItems, StandsFor
      <4> QED  BY <4>1
    <3> QED  BY <3>1, <3>2, <3>3 DEF KeysOf
  <2>9. /\ Len(es) = Len(readEntries) /\ DOMAIN es = DOMAIN readEntries
        /\ \A i \in DOMAIN readEntries :
             /\ es[i].alias = readEntries[i].alias /\ es[i].key = readEntries[i].key
             /\ es[i].trusted = readEntries[i].trusted
             /\ readEntries[i].chain # << >> => es[i].chain[1] = readEntries[i].chain[1]
    <3>1. ToSet(readKeys) \subseteq {readEntries[i].key : i \in DOMAIN readEntries}
      BY <2>1 DEF JksRestored
    <3> HIDE DEF f
    <3> QED  BY <2>2, <3>1, RematchingKeeps DEF f
  <2> HIDE DEF f
  <2>10. ASSUME NEW i \in DOMAIN w.items
         PROVE  \E j \in DOMAIN es : es[j].alias = w.items[i].alias /\ Keeps(es[j], w.items[i])
    <3>1. PICK n \in DOMAIN file.items : StandsFor(file.items[n], w.items[i])
      BY <2>6 DEF SameItems
    <3>2. es[n].alias = w.items[i].alias /\ Keeps(es[n], w.items[i])
      BY <2>4, <2>5, <2>9, <3>1 DEF StandsFor, Keeps
    <3> QED  BY <2>4, <2>9, <3>2
  <2>11. Len(es) = Len(w.items)
    BY <2>3, <2>6, <2>9 DEF SameItems
  <2>12. KeepsBindings(w, f)
    BY <2>10, <2>11 DEF KeepsBindings
  <2> QED  BY <1>1, <1>3, <2>1, <2>7, <2>8, <2>12 DEF Recovers, KeepsObjects
<1> QED  BY <1>2, <1>3
-----------------------------------------------------------------------------
(***************************************************************************)
(* PEM, DER and PKCS7.                                                     *)
(***************************************************************************)

(* Somebody who has the password of w can read this block, and finds objects
   in it. *)
OpensBlock(w, b) ==
  /\ b.bad = FALSE /\ b.dek = NoPassword
  /\ \/ b.kind = (IF w.format = "PKCS7" THEN "pkcs7" ELSE "certs") /\ b.chain # << >>
     \/ /\ w.format # "PKCS7" /\ b.kind = "key" /\ b.key # NoKey
        /\ b.pkcs8 \in {NoPassword, w.password}
        /\ b.labelled => w.password # NoPassword

HasCerts(b) == b.kind \in {"certs", "pkcs7"}

(* v is the file that was written of w. *)
FitsPem(w, v) ==
  /\ w.format \in {"PEM", "DER", "PKCS7"} /\ w.genuine
  /\ IsPemFile(v) /\ v.format = FormatName(w.format)
  /\ v.blocks # << >>
  /\ w.password \in Password \cup {NoPassword}
  /\ \A i \in DOMAIN v.blocks : OpensBlock(w, v.blocks[i])
  /\ CertsOf(w.items) = UNION {ToSet(v.blocks[i].chain) : i \in {j \in DOMAIN v.blocks : HasCerts(v.blocks[j])}}
  /\ KeysOf(w.items) = {v.blocks[i].key : i \in {j \in DOMAIN v.blocks : v.blocks[j].kind = "key"}}

(* The options of somebody who has this password and no other. *)
OnePassword(w) == opts.password = w.password /\ opts.answers = {NoPassword}

PemRestored == outcome \in {"reading", "ok"} /\ readEntries = << >>

(* The one password that OpenWith is given, and its callback gives again, is
   all it tries. *)
LEMMA AnswerOfOne ==
  ASSUME NEW w, OnePassword(w)
  PROVE  PasswordsFor(opts.password, opts.answers) = {w.password}
BY DEF OnePassword, PasswordsFor

(* A file that has been read gave objects. *)
LEMMA SomethingTaken ==
  ASSUME NEW w, FitsPem(w, file), PemReads, Taken = DOMAIN file.blocks
  PROVE  readCerts # << >> \/ readKeys # << >>
<1>1. file.blocks \in Seq(Block) /\ file.blocks # << >>
  BY DEF FitsPem, IsPemFile
<1>2. 1 \in Taken
  BY <1>1, HeadInRange
<1> DEFINE b == file.blocks[1]
<1>3. b \in Block /\ OpensBlock(w, b)
  BY <1>1, <1>2 DEF FitsPem
<1>4. CASE HasCerts(b)
  <2>1. b.chain \in Seq(Cert) /\ b.chain # << >>
    BY <1>3, <1>4 DEF OpensBlock, HasCerts, Block
  <2>2. b.chain[1] \in ToSet(b.chain)
    <3> HIDE DEF b
    <3> QED  BY <2>1, HeadInRange
  <2>3. 1 \in TakenOf({"certs", "pkcs7"})
    BY <1>2, <1>4 DEF TakenOf, HasCerts
  <2>4. ToSet(readCerts) # {}
    BY <2>2, <2>3 DEF PemReads, HoldsTaken
  <2> QED  BY <2>4 DEF ToSet
<1>5. CASE b.kind = "key"
  <2>1. 1 \in TakenOf({"key"})
    BY <1>2, <1>5 DEF TakenOf
  <2>2. b.key \in ToSet(readKeys)
    BY <2>1 DEF PemReads, HoldsTaken
  <2> QED  BY <2>2 DEF ToSet
<1> QED  BY <1>3, <1>4, <1>5 DEF OpensBlock, HasCerts

(* No block stops openPEM, and neither does the one block of the others. *)
LEMMA PemNextRestores ==
  ASSUME NEW w, FitsPem(w, file), OnePassword(w), PemReads, PemRestored, PemNext
  PROVE  PemRestored'
<1>1. Answers = {w.password}
  BY AnswerOfOne DEF Answers
<1>2. file.blocks \in Seq(Block) /\ DOMAIN file.blocks = 1 .. Len(file.blocks)
      /\ Len(file.blocks) \in Nat
  BY DEF FitsPem, IsPemFile
<1>3. pos \in DOMAIN file.blocks => OpensBlock(w, CurrentBlock)
  BY DEF FitsPem, CurrentBlock
<1>4. file.format # "pem" => pos \in DOMAIN file.blocks
  BY OneBlock DEF PemReads
<1>5. CASE ReadCertificates \/ ReadPkcs7
  BY <1>5 DEF ReadCertificates, ReadPkcs7, Advance, PemRestored
<1>6. CASE ReadKey
  <2>1. OpensBlock(w, CurrentBlock) /\ CurrentBlock.kind = "key"
    BY <1>3, <1>6 DEF ReadKey, AtBlock
  <2>2. /\ CurrentBlock.key # NoKey /\ CurrentBlock.pkcs8 \in {NoPassword, w.password}
        /\ CurrentBlock.labelled => w.password # NoPassword
    BY <2>1 DEF OpensBlock
  <2>3. Parsed(CurrentBlock, w.password) = CurrentBlock.key
    BY <2>2 DEF Parsed
  <2>4. ~(CurrentBlock.labelled /\ IsError(w.password))
    BY <2>2, PasswordSentinels DEF IsError, FitsPem
  <2>5. TakeKeyOr(KeyFailure(CurrentBlock), CurrentBlock.key)
    BY <1>1, <1>6, <2>3, <2>4 DEF ReadKey
  <2> QED  BY <2>2, <2>5 DEF TakeKeyOr, Advance, PemRestored
<1>7. CASE ReadEncryptedKey
  BY <1>3, <1>7 DEF ReadEncryptedKey, AtBlock, OpensBlock
<1>8. CASE IgnoreBlock \/ RejectBlock
  BY <1>3, <1>8 DEF IgnoreBlock, RejectBlock, AtBlock, OpensBlock
<1>9. CASE FinishPem
  <2>1. Taken = DOMAIN file.blocks
    BY <1>2, <1>9 DEF FinishPem, Taken
  <2>2. outcome' = "ok" /\ readEntries' = readEntries
    BY <1>9, <2>1, SomethingTaken DEF FinishPem, Return, store
  <2> QED  BY <2>2 DEF PemRestored
<1>10. CASE OpenDer
  <2>1. OpensBlock(w, CurrentBlock) /\ w.format = "DER"
    BY <1>3, <1>4, <1>10 DEF OpenDer, FitsPem, FormatName
  <2>2. \/ CurrentBlock.kind = "certs" /\ ~CurrentBlock.bad
        \/ CurrentBlock.kind = "key" /\ Parsed(CurrentBlock, w.password) # NoKey
    BY <2>1 DEF OpensBlock, Parsed
  <2>3. outcome' = "ok" /\ readEntries' = readEntries
    BY <1>1, <1>10, <2>2 DEF OpenDer
  <2> QED  BY <2>3 DEF PemRestored
<1>11. CASE OpenPkcs7File
  <2>1. OpensBlock(w, CurrentBlock) /\ w.format = "PKCS7"
    BY <1>3, <1>4, <1>11 DEF OpenPkcs7File, FitsPem, FormatName
  <2>2. outcome' = "ok" /\ readEntries' = readEntries
    BY <1>11, <2>1 DEF OpenPkcs7File, OpensBlock
  <2> QED  BY <2>2 DEF PemRestored
<1> QED  BY <1>5, <1>6, <1>7, <1>8, <1>9, <1>10, <1>11 DEF PemNext

(* The entry that re-matching makes for a key that has none. *)
LEMMA EntryMade ==
  ASSUME NEW cs \in Seq(Cert), NEW ks \in Seq(Key), NEW es \in Seq(Entry),
         NEW k \in ToSet(ks), \A i \in DOMAIN es : es[i].key # k
  PROVE  KeyEntry(k, cs) \in ToSet(Reconcile(es, cs, ks))
<1> DEFINE new == ToSet(ks) \ {es[i].key : i \in DOMAIN es}
<1>1. ToSet(Reconcile(es, cs, ks))
        = {Rechained(es[i], cs) : i \in DOMAIN es} \cup {KeyEntry(n, cs) : n \in new}
  BY ReconcileRange
<1>2. k \in new
  OBVIOUS
<1> QED  BY <1>1, <1>2

(* A store without entries: each key gets one, with the chain of the first
   certificate that it matches. *)
LEMMA KeysAreMatched ==
  ASSUME SoundSoFar, readEntries = << >>, NEW k \in ToSet(readKeys)
  PROVE  LET es == Opened(Result).entries
         IN  \E j \in DOMAIN es :
               /\ es[j].key = k
               /\ (\E c \in ToSet(readCerts) : Matches(k, c))
                    => es[j].chain # << >> /\ Matches(k, es[j].chain[1])
<1> DEFINE es == Reconcile(readEntries, readCerts, readKeys)
           e == KeyEntry(k, readCerts)
<1>1. readCerts \in Seq(Cert) /\ readKeys \in Seq(Key) /\ readEntries \in Seq(Entry)
  BY DEF SoundSoFar, SoundStore
<1>2. Opened(Result).entries = es
  BY DEF Opened, Result
<1>3. e \in ToSet(es)
  <2>1. \A i \in DOMAIN readEntries : readEntries[i].key # k
    OBVIOUS
  <2> QED  BY <1>1, <2>1, EntryMade
<1>4. /\ e.key = k /\ e.chain = MatchedChain(k, readCerts)
  BY DEF KeyEntry
<1>5. (\E c \in ToSet(readCerts) : Matches(k, c)) => e.chain # << >> /\ Matches(k, e.chain[1])
  BY <1>1, <1>4, MatchedChainProperties, HeadOfChain
<1> HIDE DEF es, e
<1>6. PICK j \in DOMAIN es : es[j] = e
  BY <1>3 DEF ToSet
<1> QED  BY <1>2, <1>4, <1>5, <1>6

(* All objects are there, and each key has its certificate. *)
LEMMA PemRecovers ==
  ASSUME NEW w, FitsPem(w, file), PemReads, PemRestored, Returned
  PROVE  Recovers(w, Opened(Result))
<1> DEFINE f == Opened(Result)
<1> SUFFICES Recovers(w, f)
  OBVIOUS
<1>1. f.certs = readCerts /\ f.keys = readKeys /\ f.failed = (outcome # "ok")
  BY DEF Opened, Result
<1>2. outcome = "ok" /\ readEntries = << >>
  BY DEF PemRestored, Returned
<1>3. HoldsTaken /\ Taken = DOMAIN file.blocks /\ SoundSoFar
  BY <1>2 DEF PemReads, HoldsTaken, PemSound
<1>4. ToSet(readCerts) = CertsOf(w.items) /\ ToSet(readKeys) = KeysOf(w.items)
  BY <1>3 DEF HoldsTaken, TakenOf, FitsPem, HasCerts
<1>5. KeepsBindings(w, f)
  <2>1. w.format # "JKS" /\ w.format # "PKCS12"
    BY DEF FitsPem
  <2>2. \A k \in ToSet(readKeys) : \E j \in DOMAIN f.entries :
           /\ f.entries[j].key = k
           /\ (\E c \in ToSet(readCerts) : Matches(k, c))
                => f.entries[j].chain # << >> /\ Matches(k, f.entries[j].chain[1])
    BY <1>2, <1>3, KeysAreMatched
  <2> HIDE DEF f
  <2> QED  BY <1>1, <2>1, <2>2 DEF KeepsBindings
<1> HIDE DEF f
<1> QED  BY <1>1, <1>2, <1>4, <1>5 DEF Recovers, KeepsObjects, FitsPem
-----------------------------------------------------------------------------
(***************************************************************************)
(* PKCS12.                                                                 *)
(***************************************************************************)

CertBagsBefore(n) == {i \in DOMAIN file.bags : file.bags[i].kind = "cert" /\ i < n}

(* The certificates of the bags before pos are there, the first of them first,
   and only entries of keys are not trusted. *)
BagsRestored ==
  /\ ToSet(readCerts) = {file.bags[i].cert : i \in CertBagsBefore(pos)}
  /\ pos > 1 /\ file.bags[1].kind = "cert" => readCerts # << >> /\ readCerts[1] = file.bags[1].cert
  /\ \A i \in DOMAIN readEntries : readEntries[i].trusted = (readEntries[i].key = NoKey)

(* The readers of the other forms take everything at once. *)
ReaderRestored ==
  /\ outcome # "ok" => readCerts = << >> /\ readKeys = << >>
  /\ outcome = "ok" =>
       /\ ToSet(readCerts) = ToSet(file.chain)
       /\ IF file.form = "pair"
          THEN /\ readKeys = <<file.key>> /\ Len(readEntries) = 1
               /\ readEntries[1].key = file.key /\ readEntries[1].chain = file.chain
               /\ readEntries[1].trusted = FALSE
          ELSE /\ readKeys = << >> /\ Len(readEntries) = Len(file.chain)
               /\ \A i \in DOMAIN readEntries :
                     /\ readEntries[i].key = NoKey /\ readEntries[i].chain = <<file.chain[i]>>
                     /\ readEntries[i].trusted = TRUE

PfxRestored == IF file.form = "bags" THEN BagsRestored ELSE ReaderRestored

(* What was appended leaves the first certificate first. *)
LEMMA FirstStaysFirst ==
  ASSUME NEW S, NEW s \in Seq(S), NEW t \in Seq(S), t # << >>
  PROVE  /\ AppendNew(s, t) # << >>
         /\ AppendNew(s, t)[1] = IF s = << >> THEN t[1] ELSE s[1]
<1>1. CASE s = << >>
  <2>1. Len(AppendNew(s, t)) >= 1 /\ AppendNew(s, t)[1] = t[1]
    BY <1>1, FirstOfNew
  <2>2. AppendNew(s, t) \in Seq(S)
    BY AppendNewSeq
  <2> QED  BY <1>1, <2>1, <2>2
<1>2. CASE s # << >>
  <2> DEFINE p == Pick(t, Fresh(s, t))
  <2>1. p \in Seq(S)
    BY PickProperties DEF Fresh
  <2>2. AppendNew(s, t) = s \o p
    BY DEF AppendNew
  <2> HIDE DEF p
  <2>3. 1 \in 1 .. Len(s) /\ Len(s) \in Nat
    BY <1>2
  <2>4. (s \o p)[1] = s[1] /\ 1 \in DOMAIN (s \o p)
    BY <2>1, <2>3, ConcatAt
  <2> QED  BY <1>2, <2>2, <2>4
<1> QED  BY <1>1, <1>2

(* A bag is read. *)
LEMMA ReadCertBagRestores ==
  ASSUME Pkcs12Accounts, BagsRestored, ReadCertBag
  PROVE  BagsRestored'
<1>1. /\ file.form = "bags" /\ pos \in DOMAIN file.bags /\ CurrentBag.kind = "cert"
      /\ UNCHANGED <<file, readEntries>> /\ pos' = pos + 1
  BY DEF ReadCertBag, AtBag, Advance
<1>2. Pkcs12Sound /\ SoundSoFar
  BY DEF Pkcs12Accounts, Pkcs12Sound
<1>3. file.bags \in Seq(Bag) /\ DOMAIN file.bags = 1 .. Len(file.bags) /\ Len(file.bags) \in Nat
  BY <1>1, <1>2, BagsOfFile
<1>4. CurrentBag.cert \in Cert /\ pos \in Nat /\ pos >= 1
  BY <1>1, <1>2, <1>3, BagType
<1> DEFINE t == <<CurrentBag.cert>>
<1>5. t \in Seq(Cert) /\ t # << >> /\ t[1] = CurrentBag.cert /\ ToSet(t) = {CurrentBag.cert}
  BY <1>4 DEF ToSet
<1>6. Import(t, Trim[CurrentBag.name])
  BY DEF ReadCertBag
<1> HIDE DEF t
<1>7. readCerts \in Seq(Cert)
  BY <1>2 DEF SoundSoFar, SoundStore
<1>8. readCerts' = AppendNew(readCerts, t)
      /\ ToSet(readCerts') = ToSet(readCerts) \cup {CurrentBag.cert}
  BY <1>2, <1>5, <1>6, ImportAdds DEF Import
<1>9. CertBagsBefore(pos)' = CertBagsBefore(pos) \cup {pos}
  BY <1>1, <1>3, <1>4 DEF CertBagsBefore, CurrentBag
<1>10. ToSet(readCerts') = {file.bags[i].cert : i \in CertBagsBefore(pos)'}
  BY <1>8, <1>9 DEF BagsRestored, CurrentBag
<1>11. ASSUME file.bags[1].kind = "cert"
       PROVE  readCerts' # << >> /\ readCerts'[1] = file.bags[1].cert
  <2>1. CASE pos = 1
    <3>1. CertBagsBefore(pos) = {}
      BY <1>3, <2>1 DEF CertBagsBefore
    <3>2. readCerts = << >>
      BY <1>7, <3>1, NoElement DEF BagsRestored
    <3> QED  BY <1>5, <1>7, <1>8, <2>1, <3>2, FirstStaysFirst DEF CurrentBag
  <2>2. CASE pos # 1
    <3>1. readCerts # << >> /\ readCerts[1] = file.bags[1].cert
      BY <1>4, <1>11, <2>2 DEF BagsRestored
    <3> QED  BY <1>5, <1>7, <1>8, <3>1, FirstStaysFirst
  <2> QED  BY <2>1, <2>2
<1> QED  BY <1>1, <1>10, <1>11 DEF BagsRestored

(* Other bags give no certificate. *)
LEMMA BagPassed ==
  ASSUME Pkcs12Accounts, BagsRestored, file.form = "bags", file' = file, pos' = pos + 1,
         UNCHANGED <<readCerts, readEntries>>,
         pos # 0 => pos \in DOMAIN file.bags /\ CurrentBag.kind # "cert"
  PROVE  BagsRestored'
<1>1. file.bags \in Seq(Bag) /\ DOMAIN file.bags = 1 .. Len(file.bags) /\ Len(file.bags) \in Nat
  BY BagsOfFile DEF Pkcs12Accounts
<1>2. pos \in Nat
  BY DEF Pkcs12Accounts, Pkcs12Sound
<1>3. CertBagsBefore(pos)' = CertBagsBefore(pos)
  BY <1>1, <1>2 DEF CertBagsBefore, CurrentBag
<1>4. pos' > 1 /\ file.bags[1].kind = "cert" => pos > 1
  BY <1>1, <1>2 DEF CurrentBag
<1> QED  BY <1>3, <1>4 DEF BagsRestored

(* An entry is made. *)
LEMMA NameRestores ==
  ASSUME Pkcs12Accounts, BagsRestored, NameKey \/ NameCertificate
  PROVE  BagsRestored'
<1>1. UNCHANGED <<file, pos, readCerts>>
  BY DEF NameKey, NameCertificate
<1>2. Pkcs12Sound
  BY DEF Pkcs12Accounts
<1>3. CASE NameKey
  <2> DEFINE k == named[Len(readEntries) + 1].key
  <2>1. PICK alias : readEntries' = Append(readEntries, KeyEntryOf(alias, k, BagChain(k)))
    BY <1>3 DEF NameKey
  <2>2. k \in Key
    <3>1. readEntries \in Seq(Sound(readCerts, readKeys)) /\ Len(readEntries) \in Nat
      BY <1>2 DEF Pkcs12Sound, SoundSoFar, SoundStore
    <3>2. named \in Seq(WaitingKeys(readKeys)) /\ Len(readEntries) < Len(named)
          /\ readKeys \in Seq(Key)
      BY <1>2, <1>3 DEF Pkcs12Sound, NameKey, SoundSoFar, SoundStore
    <3>3. named[Len(readEntries) + 1] \in WaitingKeys(readKeys)
      BY <3>1, <3>2
    <3> QED  BY <3>2, <3>3, RangeOf DEF WaitingKeys
  <2> DEFINE e == KeyEntryOf(alias, k, BagChain(k))
  <2>3. e.trusted = (e.key = NoKey)
    BY <2>2, Sentinels DEF KeyEntryOf
  <2>4. readEntries' = Append(readEntries, e)
    BY <2>1
  <2> HIDE DEF e
  <2>5. \A i \in DOMAIN readEntries' :
          \/ i \in DOMAIN readEntries /\ readEntries'[i] = readEntries[i]
          \/ i = Len(readEntries) + 1 /\ readEntries'[i] = e
    BY <1>2, <2>4, EntryNamed
  <2> QED  BY <1>1, <2>3, <2>5 DEF BagsRestored, CertBagsBefore
<1>4. CASE NameCertificate
  <2> DEFINE c == readCerts[Len(readEntries) + 1]
  <2>1. PICK alias : readEntries' = Append(readEntries, TrustedEntry(alias, c))
    BY <1>4 DEF NameCertificate
  <2> DEFINE e == TrustedEntry(alias, c)
  <2>2. e.trusted = (e.key = NoKey)
    BY DEF TrustedEntry
  <2>3. readEntries' = Append(readEntries, e)
    BY <2>1
  <2> HIDE DEF e
  <2>4. \A i \in DOMAIN readEntries' :
          \/ i \in DOMAIN readEntries /\ readEntries'[i] = readEntries[i]
          \/ i = Len(readEntries) + 1 /\ readEntries'[i] = e
    BY <1>2, <2>3, EntryNamed
  <2> QED  BY <1>1, <2>2, <2>4 DEF BagsRestored, CertBagsBefore
<1> QED  BY <1>3, <1>4

(* Nothing was read from an empty list. *)
LEMMA ToSetOfNone == ToSet(<< >>) = {}
BY DEF ToSet

(* Every step keeps the account of what was read. *)
LEMMA PfxNextRestores ==
  ASSUME Pkcs12Accounts, PfxRestored, Pkcs12Next
  PROVE  PfxRestored'
<1>1. Pkcs12Sound /\ SoundSoFar /\ IsPkcs12File(file)
  BY DEF Pkcs12Accounts, Pkcs12Sound
<1>2. CASE FailDecryption \/ RejectBag \/ FinishBags
  <2>1. /\ UNCHANGED <<file, pos, store>> /\ outcome = "reading"
        /\ file.form = "bags" \/ outcome' = "refused"
    BY <1>2 DEF FailDecryption, RejectBag, FinishBags, Return, AtBag, BagsRead
  <2>2. UNCHANGED <<readCerts, readKeys, readEntries>>
    BY <2>1 DEF store
  <2> QED
    BY <2>1, <2>2 DEF PfxRestored, BagsRestored, CertBagsBefore, ReaderRestored
<1>3. CASE OpenPair
  <2>1. /\ file.form = "pair" /\ file' = file /\ outcome = "reading"
        /\ file.chain \in Seq(Cert) /\ readCerts = << >> /\ readKeys = << >>
    BY <1>1, <1>3 DEF OpenPair, Decrypts, IsPkcs12File, PfxRestored, ReaderRestored
  <2>2. CASE outcome' = "refused" /\ UNCHANGED store
    BY <2>1, <2>2 DEF PfxRestored, ReaderRestored, store
  <2>3. ASSUME NEW a, NEW alias, outcome' = "ok", Import(file.chain, a), readKeys' = <<file.key>>,
               readEntries' = <<KeyEntryOf(alias, file.key, file.chain)>>
        PROVE  ReaderRestored'
    <3>1. ToSet(readCerts') = ToSet(readCerts) \cup ToSet(file.chain)
      BY <1>1, <2>1, <2>3, ImportAdds
    <3>2. ToSet(readCerts') = ToSet(file.chain)
      BY <2>1, <3>1, ToSetOfNone
    <3>3. Len(readEntries') = 1 /\ readEntries'[1] = KeyEntryOf(alias, file.key, file.chain)
      BY <2>3
    <3> QED  BY <2>1, <2>3, <3>2, <3>3 DEF ReaderRestored, KeyEntryOf
  <2>4. \/ outcome' = "refused" /\ UNCHANGED store
        \/ \E a, alias : /\ outcome' = "ok" /\ Import(file.chain, a) /\ readKeys' = <<file.key>>
                         /\ readEntries' = <<KeyEntryOf(alias, file.key, file.chain)>>
    BY <1>3 DEF OpenPair
  <2> QED  BY <2>1, <2>2, <2>3, <2>4 DEF PfxRestored
<1>4. CASE OpenTrust
  <2>1. /\ file.form = "trust" /\ file' = file /\ outcome = "reading"
        /\ file.chain \in Seq(Cert) /\ readCerts = << >> /\ readKeys = << >>
    BY <1>1, <1>4 DEF OpenTrust, Decrypts, IsPkcs12File, PfxRestored, ReaderRestored
  <2>2. CASE file.bad
    BY <1>4, <2>1, <2>2 DEF OpenTrust, PfxRestored, ReaderRestored, store
  <2>3. CASE ~file.bad
    <3>1. /\ outcome' = "ok" /\ Import(file.chain, Empty) /\ readKeys' = readKeys
          /\ readEntries' = [i \in DOMAIN file.chain |-> TrustedEntry(TrustAliases[i], file.chain[i])]
      BY <1>4, <2>3 DEF OpenTrust
    <3>2. ToSet(readCerts') = ToSet(readCerts) \cup ToSet(file.chain)
      BY <1>1, <2>1, <3>1, ImportAdds
    <3>3. ToSet(readCerts') = ToSet(file.chain)
      BY <2>1, <3>2, ToSetOfNone
    <3>4. Len(readEntries') = Len(file.chain)
      BY <2>1, <3>1
    <3>5. \A i \in DOMAIN readEntries' :
            /\ readEntries'[i].key = NoKey /\ readEntries'[i].chain = <<file.chain[i]>>
            /\ readEntries'[i].trusted = TRUE
      BY <3>1 DEF TrustedEntry
    <3> QED  BY <2>1, <3>1, <3>3, <3>4, <3>5 DEF PfxRestored, ReaderRestored
  <2> QED  BY <2>2, <2>3
<1>5. CASE OpenBags
  <2>1. /\ file.form = "bags" /\ pos = 0 /\ file' = file /\ pos' = pos + 1
        /\ UNCHANGED <<readCerts, readEntries>>
    BY <1>5 DEF OpenBags, Decrypts, Advance, store
  <2> QED  BY <2>1, BagPassed DEF PfxRestored
<1>6. CASE ReadKeyBag \/ SkipBag
  <2>1. /\ file.form = "bags" /\ file' = file /\ pos' = pos + 1
        /\ UNCHANGED <<readCerts, readEntries>>
        /\ pos \in DOMAIN file.bags /\ CurrentBag.kind # "cert"
    BY <1>6 DEF ReadKeyBag, SkipBag, AtBag, Advance, store
  <2> QED  BY <2>1, BagPassed DEF PfxRestored
<1>7. CASE ReadCertBag
  <2>1. file.form = "bags" /\ file' = file
    BY <1>7 DEF ReadCertBag, AtBag, Advance
  <2> QED  BY <1>7, <2>1, ReadCertBagRestores DEF PfxRestored
<1>8. CASE NameKey \/ NameCertificate
  <2>1. file.form = "bags" /\ file' = file
    BY <1>8 DEF NameKey, NameCertificate, BagsRead
  <2> QED  BY <1>8, <2>1, NameRestores DEF PfxRestored
<1> QED  BY <1>2, <1>3, <1>4, <1>5, <1>6, <1>7, <1>8 DEF Pkcs12Next

(* What the reader of its form takes of a container. *)
PfxCerts(v) ==
  IF v.form = "bags" THEN {v.bags[i].cert : i \in {j \in DOMAIN v.bags : v.bags[j].kind = "cert"}}
  ELSE ToSet(v.chain)

PfxKeys(v) ==
  IF v.form = "bags" THEN {v.bags[i].key : i \in {j \in DOMAIN v.bags : v.bags[j].kind = "key"}}
  ELSE IF v.form = "pair" THEN {v.key} ELSE {}

(* What is needed for entries to be restored, in each form of container. *)
PfxBinds(w, v) ==
  /\ v.form \in {"bags", "pair", "trust"}
  /\ v.form = "bags" =>
       /\ Len(w.items) = 1 /\ w.items[1].key \in Key
       /\ v.bags # << >> /\ v.bags[1].kind = "cert" /\ v.bags[1].cert = w.items[1].chain[1]
       /\ Matches(w.items[1].key, w.items[1].chain[1])
       /\ \A i \in DOMAIN v.bags : v.bags[i].bad = FALSE
       /\ \E n \in DOMAIN v.bags : /\ {i \in DOMAIN v.bags : v.bags[i].kind = "key"} = {n}
                                   /\ v.bags[n].key = w.items[1].key
  /\ v.form = "pair" =>
       /\ Len(w.items) = 1 /\ w.items[1].key = v.key /\ w.items[1].chain[1] = v.chain[1]
       /\ Matches(v.key, v.chain[1])
  /\ v.form = "trust" =>
       /\ Len(w.items) = Len(v.chain)
       /\ \A i \in DOMAIN w.items : w.items[i].key = NoKey /\ w.items[i].chain[1] = v.chain[i]

(* v is what the readers find in the container of w. *)
FitsPfx(w, v) ==
  /\ IsPkcs12File(v) /\ v.bad = FALSE /\ v.password = w.password
  /\ v.form # "broken" => /\ MacVerifies(w.pfx, w.password)
                          /\ CertsOf(w.items) = PfxCerts(v) /\ KeysOf(w.items) = PfxKeys(v)
  /\ w.genuine => w.items \in Seq(AnItem) /\ PfxBinds(w, v)

(* The readers fail on no container of an encoder. *)
LEMMA PfxNextSucceeds ==
  ASSUME NEW w, FitsPfx(w, file), w.genuine, OnePassword(w), Pkcs12Accounts, PfxRestored,
         outcome \in {"reading", "ok"}, Pkcs12Next
  PROVE  outcome' \in {"reading", "ok"}
<1>1. Pkcs12Sound /\ IsPkcs12File(file) /\ PfxBinds(w, file) /\ file.bad = FALSE
  BY DEF Pkcs12Accounts, Pkcs12Sound, FitsPfx
<1>2. PasswordsFor(opts.password, opts.answers) = {file.password}
  BY AnswerOfOne DEF FitsPfx
<1>3. ~FailDecryption
  BY <1>1, <1>2 DEF FailDecryption, PfxBinds
<1>4. CASE OpenPair
  <2>1. file.form = "pair" /\ file.chain \in Seq(Cert) /\ file.chain # << >>
    BY <1>1, <1>4 DEF OpenPair, Decrypts, IsPkcs12File
  <2>2. file.chain[1] \in Cert
    BY <2>1
  <2>3. Trim[DefaultAlias[file.chain[1]]] # Empty
    BY <2>2, ConvertInputsWellFormed DEF ConvertInputs
  <2> QED  BY <1>1, <1>4, <2>1, <2>3 DEF OpenPair, PfxBinds
<1>5. CASE OpenTrust
  BY <1>1, <1>5 DEF OpenTrust
<1>6. CASE OpenBags \/ ReadCertBag \/ ReadKeyBag \/ SkipBag \/ NameKey \/ NameCertificate
  BY <1>6 DEF OpenBags, ReadCertBag, ReadKeyBag, SkipBag, NameKey, NameCertificate, Advance
<1>7. CASE RejectBag
  BY <1>1, <1>7 DEF RejectBag, AtBag, PfxBinds, CurrentBag
<1>8. CASE FinishBags
  <2>1. file.form = "bags" /\ pos = Len(file.bags) + 1
    BY <1>8 DEF FinishBags, BagsRead
  <2>2. file.bags \in Seq(Bag) /\ file.bags # << >> /\ file.bags[1].kind = "cert"
    BY <1>1, <2>1, BagsOfFile DEF PfxBinds
  <2>3. pos > 1
    BY <2>1, <2>2
  <2>4. readCerts # << >>
    BY <2>1, <2>2, <2>3 DEF PfxRestored, BagsRestored
  <2> QED  BY <1>8, <2>4 DEF FinishBags, Return
<1> QED  BY <1>3, <1>4, <1>5, <1>6, <1>7, <1>8 DEF Pkcs12Next

(* A container that is opened is opened completely. *)
LEMMA PfxIsTaken ==
  ASSUME Pkcs12Accounts, PfxRestored, outcome = "ok"
  PROVE  /\ ToSet(readCerts) = PfxCerts(file) /\ ToSet(readKeys) = PfxKeys(file)
         /\ ToSet(readKeys) \subseteq {readEntries[i].key : i \in DOMAIN readEntries}
<1>1. Pkcs12Sound
  BY DEF Pkcs12Accounts
<1>2. CASE file.form = "bags"
  <2>1. BagsWait /\ FirstAreNamed /\ AllNamed /\ pos = Len(file.bags) + 1
    BY <1>2 DEF Pkcs12Accounts, BagsInOrder
  <2>2. file.bags \in Seq(Bag) /\ DOMAIN file.bags = 1 .. Len(file.bags) /\ Len(file.bags) \in Nat
    BY <1>1, <1>2, BagsOfFile
  <2>3. CertBagsBefore(pos) = {j \in DOMAIN file.bags : file.bags[j].kind = "cert"}
    BY <2>1, <2>2 DEF CertBagsBefore
  <2>4. ToSet(readCerts) = PfxCerts(file)
    BY <1>2, <2>3 DEF PfxRestored, BagsRestored, PfxCerts
  <2> DEFINE kb == KeyBagsRead
  <2>5. kb \in Seq(Bag) /\ ToSet(kb) = {file.bags[i] : i \in KeyBag}
    <3>1. {i \in KeyBag : i < pos} = KeyBag /\ KeyBag \in SUBSET (DOMAIN file.bags)
      BY <2>1, <2>2 DEF KeyBag
    <3> HIDE DEF KeyBag
    <3> QED  BY <2>2, <3>1, PickProperties DEF KeyBagsRead
  <2>6. DOMAIN named = DOMAIN kb
    BY <1>1, <2>1, <2>5 DEF BagsWait, Pkcs12Sound
  <2>7. ToSet(readKeys) = {kb[i].key : i \in DOMAIN kb}
    BY <2>1, <2>6 DEF BagsWait
  <2> HIDE DEF kb
  <2>8. {kb[i].key : i \in DOMAIN kb} = {b.key : b \in ToSet(kb)}
    BY DEF ToSet
  <2>9. ToSet(readKeys) = PfxKeys(file)
    <3>1. {b.key : b \in ToSet(kb)} = {file.bags[i].key : i \in KeyBag}
      BY <2>5
    <3> QED  BY <1>2, <2>7, <2>8, <3>1 DEF PfxKeys, KeyBag
  <2>10. ToSet(readKeys) \subseteq {readEntries[i].key : i \in DOMAIN readEntries}
    <3>1. CASE named = << >>
      BY <2>1, <3>1 DEF BagsWait
    <3>2. CASE named # << >>
      <4>1. Len(readEntries) = Len(named) /\ DOMAIN readEntries = DOMAIN named
        BY <1>1, <2>1, <3>2 DEF FirstAreNamed, AllNamed, Pkcs12Sound, SoundSoFar, SoundStore
      <4>2. \A i \in DOMAIN readEntries : readEntries[i].key = named[i].key
        BY <2>1, <3>2 DEF FirstAreNamed
      <4> QED  BY <2>1, <4>1, <4>2 DEF BagsWait
    <3> QED  BY <3>1, <3>2
  <2> QED  BY <2>4, <2>9, <2>10
<1>3. CASE file.form # "bags"
  <2>1. ReaderRestored /\ ToSet(readCerts) = ToSet(file.chain)
    BY <1>3 DEF PfxRestored, ReaderRestored
  <2>2. CASE file.form = "pair"
    <3>1. readKeys = <<file.key>> /\ Len(readEntries) = 1 /\ readEntries[1].key = file.key
      BY <2>1, <2>2 DEF ReaderRestored
    <3>2. ToSet(readKeys) = {file.key}
      BY <3>1 DEF ToSet
    <3>3. 1 \in DOMAIN readEntries
      BY <1>1, <3>1 DEF Pkcs12Sound, SoundSoFar, SoundStore
    <3> QED  BY <1>3, <2>1, <2>2, <3>1, <3>2, <3>3 DEF PfxCerts, PfxKeys
  <2>3. CASE file.form # "pair"
    <3>1. readKeys = << >>
      BY <2>1, <2>3 DEF ReaderRestored
    <3> QED  BY <1>3, <2>1, <2>3, <3>1, ToSetOfNone DEF PfxCerts, PfxKeys
  <2> QED  BY <2>2, <2>3
<1> QED  BY <1>2, <1>3

(* The entry of a key starts with the first certificate if that is the key's. *)
LEMMA FirstIsMatched ==
  ASSUME NEW cs \in Seq(Cert), cs # << >>, NEW k, Matches(k, cs[1])
  PROVE  MatchedChain(k, cs) # << >> /\ MatchedChain(k, cs)[1] = cs[1]
<1> DEFINE M == {i \in DOMAIN cs : Matches(k, cs[i])}
<1>1. M \in SUBSET Nat /\ 1 \in M /\ \A i \in M : i >= 1
  OBVIOUS
<1>2. Min(M) = 1
  <2> HIDE DEF M
  <2>1. Min(M) \in M /\ Min(M) <= 1
    BY <1>1, MinIsLeast
  <2>2. Min(M) \in Nat /\ Min(M) >= 1
    BY <1>1, <2>1
  <2> QED  BY <2>1, <2>2
<1>3. MatchedChain(k, cs) = BuildChain(cs[1], cs)
  BY <1>1, <1>2 DEF MatchedChain
<1>4. cs[1] \in Cert
  OBVIOUS
<1>5. IsChain(BuildChain(cs[1], cs), cs[1], cs)
  BY <1>4, BuildChainReturnsChain
<1> QED  BY <1>3, <1>5 DEF IsChain

(* One element is picked. *)
LEMMA PickOne ==
  ASSUME NEW S, NEW s \in Seq(S), NEW n \in DOMAIN s
  PROVE  Len(Pick(s, {n})) = 1 /\ Pick(s, {n})[1] = s[n]
<1> DEFINE I == {n}
<1>1. I \in SUBSET (DOMAIN s)
  OBVIOUS
<1>2. Cardinality(I) = 1 /\ \A i \in I : i = n
  BY FS_Singleton
<1> HIDE DEF I
<1>3. /\ Len(Pick(s, I)) = Cardinality(I)
      /\ \A j \in 1 .. Cardinality(I) : \E i \in I : Rank(I, i) = j /\ Pick(s, I)[j] = s[i]
  BY <1>1, PickProperties
<1>4. Len(Pick(s, I)) = 1 /\ Pick(s, I)[1] = s[n]
  BY <1>2, <1>3
<1> QED  BY <1>4 DEF I

(* The entries of a container are those of the items. *)
LEMMA PfxBound ==
  ASSUME NEW w, FitsPfx(w, file), w.genuine, Pkcs12Accounts, PfxRestored, outcome = "ok"
  PROVE  /\ Len(readEntries) = Len(w.items)
         /\ \A i \in DOMAIN w.items :
              /\ Keeps(readEntries[i], w.items[i])
              /\ readEntries[i].chain # << >>
<1>1. /\ Pkcs12Sound /\ PfxBinds(w, file) /\ IsPkcs12File(file)
      /\ DOMAIN w.items = 1 .. Len(w.items)
  BY DEF Pkcs12Accounts, FitsPfx
<1>2. readEntries \in Seq(Sound(readCerts, readKeys)) /\ readCerts \in Seq(Cert)
  BY <1>1 DEF Pkcs12Sound, SoundSoFar, SoundStore
<1>3. CASE file.form = "bags"
  <2>1. BagsWait /\ FirstAreNamed /\ AllNamed /\ pos = Len(file.bags) + 1
    BY <1>3 DEF Pkcs12Accounts, BagsInOrder
  <2>2. file.bags \in Seq(Bag) /\ Len(file.bags) \in Nat /\ DOMAIN file.bags = 1 .. Len(file.bags)
    BY <1>1, <1>3, BagsOfFile
  <2> DEFINE item == w.items[1]
  <2>3. /\ Len(w.items) = 1 /\ item.key \in Key /\ Matches(item.key, item.chain[1])
        /\ file.bags # << >> /\ file.bags[1].kind = "cert" /\ file.bags[1].cert = item.chain[1]
    BY <1>1, <1>3 DEF PfxBinds
  <2>4. PICK n \in DOMAIN file.bags : KeyBag = {n} /\ file.bags[n].key = item.key
    BY <1>1, <1>3 DEF PfxBinds, KeyBag
  <2>5. Len(KeyBagsRead) = 1 /\ KeyBagsRead[1].key = item.key
    <3>1. {i \in KeyBag : i < pos} = {n}
      BY <2>1, <2>2, <2>4
    <3>2. Len(Pick(file.bags, {n})) = 1 /\ Pick(file.bags, {n})[1] = file.bags[n]
      BY <2>2, PickOne
    <3> QED  BY <2>4, <3>1, <3>2 DEF KeyBagsRead
  <2>6. Len(named) = 1 /\ named[1].key = item.key /\ named # << >>
    <3>1. named \in Seq(WaitingKeys(readKeys)) /\ Len(named) = 1
      BY <1>1, <2>1, <2>5 DEF BagsWait, Pkcs12Sound
    <3>2. 1 \in DOMAIN named /\ named # << >>
      <4>1. DOMAIN named = 1 .. 1
        BY <3>1, RangeOf
      <4> QED  BY <4>1
    <3> QED  BY <2>1, <2>5, <3>1, <3>2 DEF BagsWait
  <2>7. Len(readEntries) = 1 /\ 1 \in DOMAIN readEntries
    <3>1. Len(readEntries) <= 1 /\ Len(readEntries) >= 1
      BY <2>1, <2>6 DEF FirstAreNamed, AllNamed
    <3>2. Len(readEntries) \in Nat /\ DOMAIN readEntries = 1 .. Len(readEntries)
      BY <1>2
    <3> QED  BY <3>1, <3>2
  <2>8. readEntries[1].key = item.key /\ readEntries[1].chain = MatchedChain(item.key, readCerts)
    BY <2>1, <2>6, <2>7 DEF FirstAreNamed, BagChain
  <2>9. readCerts # << >> /\ readCerts[1] = item.chain[1]
    <3>1. pos > 1
      BY <2>1, <2>2, <2>3
    <3> QED  BY <1>3, <2>3, <3>1 DEF PfxRestored, BagsRestored
  <2>10. readEntries[1].chain # << >> /\ readEntries[1].chain[1] = item.chain[1]
    BY <1>2, <2>3, <2>8, <2>9, FirstIsMatched
  <2>11. readEntries[1].trusted = (readEntries[1].key = NoKey)
    BY <1>3, <2>7 DEF PfxRestored, BagsRestored
  <2> QED  BY <1>1, <2>3, <2>7, <2>8, <2>10, <2>11 DEF Keeps
<1>4. CASE file.form = "pair"
  <2>1. /\ Len(w.items) = 1 /\ w.items[1].key = file.key /\ w.items[1].chain[1] = file.chain[1]
        /\ file.chain # << >> /\ file.key \in Key
    BY <1>1, <1>4 DEF PfxBinds, IsPkcs12File
  <2>2. /\ Len(readEntries) = 1 /\ readEntries[1].key = file.key
        /\ readEntries[1].chain = file.chain
        /\ readEntries[1].trusted = FALSE
    BY <1>4 DEF PfxRestored, ReaderRestored
  <2>3. \A i \in DOMAIN w.items : i = 1
    BY <1>1, <2>1
  <2>4. Keeps(readEntries[1], w.items[1]) /\ readEntries[1].chain # << >>
    BY <2>1, <2>2, Sentinels DEF Keeps
  <2> QED  BY <2>1, <2>2, <2>3, <2>4
<1>5. CASE file.form = "trust"
  <2>1. /\ Len(w.items) = Len(file.chain)
        /\ \A i \in DOMAIN w.items : w.items[i].key = NoKey /\ w.items[i].chain[1] = file.chain[i]
    BY <1>1, <1>5 DEF PfxBinds
  <2>2. /\ Len(readEntries) = Len(file.chain)
        /\ \A i \in DOMAIN readEntries :
             /\ readEntries[i].key = NoKey /\ readEntries[i].chain = <<file.chain[i]>>
             /\ readEntries[i].trusted = TRUE
    BY <1>5 DEF PfxRestored, ReaderRestored
  <2>3. DOMAIN readEntries = DOMAIN w.items
    BY <1>1, <1>2, <2>1, <2>2
  <2>4. ASSUME NEW i \in DOMAIN w.items
        PROVE  Keeps(readEntries[i], w.items[i]) /\ readEntries[i].chain # << >>
    <3>1. /\ readEntries[i].chain = <<file.chain[i]>> /\ readEntries[i].key = NoKey
          /\ readEntries[i].trusted = TRUE
      BY <2>2, <2>3
    <3>2. readEntries[i].chain[1] = file.chain[i] /\ readEntries[i].chain # << >>
      BY <3>1
    <3> QED  BY <2>1, <3>1, <3>2 DEF Keeps
  <2> QED  BY <2>1, <2>2, <2>4
<1> QED  BY <1>1, <1>3, <1>4, <1>5 DEF PfxBinds

(* What is opened has the objects of the container, and the entries of the
   encoder; it was not altered. *)
LEMMA PfxRecovers ==
  ASSUME NEW w, w.format = "PKCS12", FitsPfx(w, file), OnePassword(w), Pkcs12Accounts, PfxRestored,
         Returned, w.genuine => outcome = "ok"
  PROVE  Recovers(w, Opened(Result))
<1> DEFINE f == Opened(Result)
           es == f.entries
<1>1. f.certs = readCerts /\ f.keys = readKeys /\ f.failed = (outcome # "ok")
  BY DEF Opened, Result
<1> SUFFICES Recovers(w, f)
  OBVIOUS
<1>2. file.form # "broken"
  BY DEF Pkcs12Accounts
<1>3. ~w.genuine => NoticesAlteration(w, f)
  <2>1. MacVerifies(w.pfx, w.password) /\ w.password \in Password
    BY <1>2 DEF FitsPfx, IsPkcs12File
  <2> HIDE DEF f
  <2> QED  BY <2>1, PasswordSentinels DEF NoticesAlteration, MacVerifies
<1>4. outcome = "ok" => ToSet(readCerts) = CertsOf(w.items) /\ ToSet(readKeys) = KeysOf(w.items)
  BY <1>2, PfxIsTaken DEF FitsPfx
<1>5. ASSUME w.genuine  PROVE KeepsBindings(w, f)
  <2>1. outcome = "ok" /\ SoundSoFar
    BY <1>5 DEF Pkcs12Accounts, Pkcs12Sound
  <2>2. /\ Len(readEntries) = Len(w.items)
        /\ \A i \in DOMAIN w.items :
             /\ Keeps(readEntries[i], w.items[i])
             /\ readEntries[i].chain # << >>
    BY <1>5, <2>1, PfxBound
  <2>3. DOMAIN readEntries = DOMAIN w.items
    BY <1>5, <2>1, <2>2 DEF SoundSoFar, SoundStore, FitsPfx
  <2>4. /\ Len(es) = Len(readEntries)
        /\ \A i \in DOMAIN readEntries :
             /\ es[i].alias = readEntries[i].alias /\ es[i].key = readEntries[i].key
             /\ es[i].trusted = readEntries[i].trusted
             /\ readEntries[i].chain # << >> => es[i].chain[1] = readEntries[i].chain[1]
    <3>1. ToSet(readKeys) \subseteq {readEntries[i].key : i \in DOMAIN readEntries}
      BY <2>1, PfxIsTaken
    <3> HIDE DEF f
    <3> QED  BY <2>1, <3>1, RematchingKeeps DEF f
  <2> HIDE DEF f
  <2>5. \A i \in DOMAIN w.items : Keeps(es[i], w.items[i])
    BY <2>2, <2>3, <2>4 DEF Keeps
  <2> QED  BY <2>2, <2>4, <2>5 DEF KeepsBindings
<1> HIDE DEF f
<1> QED  BY <1>1, <1>3, <1>4, <1>5 DEF Recovers, KeepsObjects, Returned
-----------------------------------------------------------------------------
(***************************************************************************)
(* The data that are handed to Open.                                       *)
(***************************************************************************)

(* An opener gets the file v, of the format that was written. *)
Reaches(c, format, v) ==
  /\ c.data.size > 0 /\ ~IsTooLarge(c)
  /\ Format(c) = FormatName(format) /\ View(Format(c), c.data) = v
  /\ Normalized(c.limits) = DefaultLimits

(* The limits of a call without limits. *)
LEMMA NoLimits ==
  ASSUME NEW limits, limits = [l \in Limits |-> 0]
  PROVE  Normalized(limits) = DefaultLimits /\ DefaultLimits.size \in Nat /\ DefaultLimits.size >= 1
<1>1. DefaultLimits \in [Limits -> Nat \ {0}]
  BY OpenInputsWellFormed DEF OpenInputs
<1>2. \A l \in Limits : Normalized(limits)[l] = DefaultLimits[l]
  BY DEF Normalized
<1>3. Normalized(limits) = DefaultLimits
  BY <1>1, <1>2 DEF Normalized
<1> QED  BY <1>1, <1>3 DEF Limits

(* Binary data are found to be what they are, and read as they are. *)
LEMMA BinaryReaches ==
  ASSUME NEW format \in Formats \ {"PEM"}, NEW v, format = "DER" => IsPlainDer(v.blocks[1]),
         NEW c \in OpenCalls(format, Binary(FormatName(format), v))
  PROVE  Reaches(c, format, v)
<1> DEFINE name == FormatName(format)
           d == Binary(name, v)
<1>1. name \in {"der", "pkcs7", "pkcs12", "jks"} /\ (name = "der" => format = "DER")
  BY DEF FormatName, Formats
<1>2. /\ c.limits = [l \in Limits |-> 0]
      /\ \/ c.data = [d EXCEPT !.space = "last"] /\ c.format = name
         \/ c.data = d /\ c.format = "auto"
  BY DEF OpenCalls
<1>3. /\ c.data.size = 1 /\ c.data.label = "none" /\ c.data.kind = name /\ c.data.file = v
      /\ c.data.space # "before" /\ (c.format = "auto" => c.data.space = "none")
      /\ c.format = "auto" \/ c.format = name
  <2> HIDE DEF name
  <2>1. CASE c.data = d /\ c.format = "auto"
    BY <2>1 DEF Binary
  <2>2. CASE c.data = [d EXCEPT !.space = "last"] /\ c.format = name
    BY <1>1, <2>2 DEF Binary
  <2> QED  BY <1>2, <2>1, <2>2
<1>4. c.format = "auto" => Detect(c.data) = name
  <2> HIDE DEF name
  <2> QED  BY <1>1, <1>3 DEF Detect
<1>5. Format(c) = name
  <2> HIDE DEF name
  <2> QED  BY <1>1, <1>3, <1>4 DEF Format
<1>6. View(name, c.data) = v
  <2> HIDE DEF name
  <2>1. Reads(name, c.data) /\ name # "pem"
    BY <1>1, <1>3 DEF Reads, KindsOf
  <2> QED  BY <1>3, <2>1 DEF View
<1>7. ~IsTooLarge(c) /\ Normalized(c.limits) = DefaultLimits
  BY <1>2, <1>3, NoLimits DEF IsTooLarge
<1> QED  BY <1>3, <1>5, <1>6, <1>7 DEF Reaches

(* And so is PEM text. *)
LEMMA TextReaches ==
  ASSUME NEW kind, NEW v, NEW blocks,
         NEW c \in OpenCalls("PEM", [Binary(kind, v) EXCEPT !.label = "pem", !.blocks = blocks])
  PROVE  Reaches(c, "PEM", [format |-> "pem", blocks |-> blocks])
<1> DEFINE d == [Binary(kind, v) EXCEPT !.label = "pem", !.blocks = blocks]
<1>1. /\ c.limits = [l \in Limits |-> 0]
      /\ \/ c.data = [d EXCEPT !.space = "last"] /\ c.format = "pem"
         \/ c.data = d /\ c.format = "auto"
  BY DEF OpenCalls, FormatName
<1>2. c.data.size = 1 /\ c.data.label = "pem" /\ c.data.blocks = blocks
  BY <1>1 DEF Binary
<1>3. Format(c) = "pem"
  BY <1>1, <1>2 DEF Format, Detect
<1>4. View("pem", c.data) = [format |-> "pem", blocks |-> blocks]
  BY <1>2 DEF View
<1>5. ~IsTooLarge(c) /\ Normalized(c.limits) = DefaultLimits
  BY <1>1, <1>2, NoLimits DEF IsTooLarge
<1> QED  BY <1>2, <1>3, <1>4, <1>5 DEF Reaches, FormatName
-----------------------------------------------------------------------------
(***************************************************************************)
(* What is written as PEM, DER or PKCS7.                                   *)
(***************************************************************************)

(* A certificate, or a key. *)
IsPlain(item) ==
  item \in AnItem /\ IF item.key = NoKey THEN Len(item.chain) = 1 ELSE item.chain = << >>

(* Who has the passwords of w can read this item in a block. *)
MayWrite(w, item, encrypt, p) ==
  /\ w.format \in {"PEM", "DER"} /\ w.password \in Password \cup {NoPassword}
  /\ IsPlain(item) /\ encrypt \in BOOLEAN
  /\ encrypt /\ item.key # NoKey => p = w.password /\ p # NoPassword

(* The block b has this item. *)
HoldsItem(w, item, b) ==
  /\ b \in Block /\ OpensBlock(w, b) /\ b.dek = NoPassword
  /\ IF item.key = NoKey THEN b.kind = "certs" /\ b.chain = item.chain
     ELSE b.kind = "key" /\ b.key = item.key

(* A list of one item is not empty. *)
LEMMA OneIsSome ==
  ASSUME NEW s, Len(s) = 1
  PROVE  s # << >>
<1>1. Len(<< >>) = 0
  OBVIOUS
<1> QED  BY <1>1

(* Its block can be opened. *)
LEMMA BlockFits ==
  ASSUME NEW w, NEW item, NEW encrypt, NEW p, MayWrite(w, item, encrypt, p)
  PROVE  HoldsItem(w, item, BlockOf(item, encrypt, p))
<1> USE DEF MayWrite
<1> DEFINE b == BlockOf(item, encrypt, p)
<1>1. /\ item.chain \in Seq(Cert) /\ item.key \in Key \cup {NoKey}
      /\ << >> \in Seq(Cert)
  BY DEF IsPlain, AnItem
<1>2. CASE item.key = NoKey
  <2>0. item.chain # << >>
    BY <1>2, OneIsSome DEF IsPlain
  <2>1. b = [NoBlock EXCEPT !.chain = item.chain]
    BY <1>2 DEF BlockOf
  <2>2. b = [kind |-> "certs", bad |-> FALSE, chain |-> item.chain, key |-> NoKey,
             dek |-> NoPassword, pkcs8 |-> NoPassword, labelled |-> FALSE]
    BY <2>1 DEF NoBlock
  <2> HIDE DEF b
  <2>3. b \in Block
    BY <1>1, <2>2 DEF Block
  <2>4. b.kind = "certs" /\ b.chain = item.chain /\ b.bad = FALSE /\ b.dek = NoPassword
    BY <2>2
  <2>5. OpensBlock(w, b)
    BY <2>0, <2>4 DEF OpensBlock
  <2> QED  BY <1>2, <2>3, <2>4, <2>5 DEF b, HoldsItem
<1>3. CASE item.key # NoKey
  <2> DEFINE q == IF encrypt THEN p ELSE NoPassword
  <2>1. b = [NoBlock EXCEPT !.kind = "key", !.key = item.key, !.labelled = encrypt, !.pkcs8 = q]
    BY <1>3 DEF BlockOf
  <2>2. b = [kind |-> "key", bad |-> FALSE, chain |-> << >>, key |-> item.key,
             dek |-> NoPassword, pkcs8 |-> q, labelled |-> encrypt]
    BY <2>1 DEF NoBlock
  <2>3. q \in {NoPassword, w.password} /\ (encrypt => w.password # NoPassword)
    BY <1>3
  <2> HIDE DEF b, q
  <2>4. b \in Block
    BY <1>1, <2>2, <2>3 DEF Block
  <2>5. /\ b.kind = "key" /\ b.bad = FALSE /\ b.dek = NoPassword /\ b.key = item.key
        /\ b.pkcs8 = q /\ b.labelled = encrypt
    BY <2>2
  <2>6. OpensBlock(w, b)
    BY <1>3, <2>3, <2>5 DEF OpensBlock
  <2> QED  BY <1>3, <2>4, <2>5, <2>6 DEF b, HoldsItem
<1> QED  BY <1>2, <1>3

(* And so for all items of w. *)
MayWriteAll(w, encrypt, p) ==
  /\ w.format \in {"PEM", "DER"} /\ w.genuine /\ w.password \in Password \cup {NoPassword}
  /\ w.items # << >> /\ w.items \in Seq(AnItem) /\ \A i \in DOMAIN w.items : IsPlain(w.items[i])
  /\ encrypt \in BOOLEAN
  /\ encrypt /\ KeysOf(w.items) # {} => p = w.password /\ p # NoPassword
  /\ w.format = "DER" => Len(w.items) = 1

(* All blocks can be opened, and hold the objects of the items. *)
LEMMA BlocksFit ==
  ASSUME NEW w, NEW encrypt, NEW p, MayWriteAll(w, encrypt, p),
         NEW v, v.blocks = BlocksOf(w.items, encrypt, p), v.format = FormatName(w.format)
  PROVE  FitsPem(w, v)
<1>0. /\ w.format \in {"PEM", "DER"} /\ w.genuine /\ w.password \in Password \cup {NoPassword}
      /\ w.items # << >> /\ w.items \in Seq(AnItem) /\ \A i \in DOMAIN w.items : IsPlain(w.items[i])
      /\ encrypt \in BOOLEAN
      /\ encrypt /\ KeysOf(w.items) # {} => p = w.password /\ p # NoPassword
      /\ w.format = "DER" => Len(w.items) = 1
  BY DEF MayWriteAll
<1> USE <1>0
<1> DEFINE items == w.items
           bs == BlocksOf(items, encrypt, p)
<1>1. DOMAIN items = 1 .. Len(items) /\ Len(items) \in Nat
  OBVIOUS
<1>2. DOMAIN bs = DOMAIN items /\ \A i \in DOMAIN items : bs[i] = BlockOf(items[i], encrypt, p)
  BY DEF BlocksOf
<1>3. ASSUME NEW i \in DOMAIN items  PROVE HoldsItem(w, items[i], bs[i])
  <2> DEFINE item == items[i]
  <2>1. item.key # NoKey => KeysOf(items) # {}
    BY DEF KeysOf
  <2>2. MayWrite(w, item, encrypt, p)
    BY <2>1 DEF MayWrite
  <2> HIDE DEF item
  <2>3. HoldsItem(w, item, BlockOf(item, encrypt, p))
    BY <2>2, BlockFits
  <2> QED  BY <1>2, <2>3 DEF item
<1> HIDE DEF bs
<1>4. bs \in Seq(Block) /\ Len(bs) = Len(items) /\ bs # << >>
  <2>1. bs = [i \in 1 .. Len(items) |-> BlockOf(items[i], encrypt, p)]
    BY <1>1 DEF BlocksOf, bs
  <2>2. bs \in [1 .. Len(items) -> Block]
    BY <1>1, <1>2, <1>3, <2>1 DEF HoldsItem
  <2>3. bs \in Seq(Block)
    BY <1>1, <2>2
  <2>4. Len(bs) = Len(items) /\ Len(items) # 0
    BY <1>1, <1>2, <2>3
  <2> QED  BY <2>3, <2>4
<1>5. v.blocks = bs
  BY DEF bs
<1>6. IsPemFile(v)
  <2>1. v.format \in {"pem", "der"} /\ (v.format # "pem" => w.format = "DER")
    BY DEF FormatName
  <2>2. v.format # "pem" => Len(bs) = 1 /\ bs[1].dek = NoPassword
    BY <1>1, <1>3, <1>4, <2>1 DEF HoldsItem
  <2> QED  BY <1>4, <1>5, <2>1, <2>2 DEF IsPemFile
<1> DEFINE C == {i \in DOMAIN bs : HasCerts(bs[i])}
           K == {i \in DOMAIN bs : bs[i].kind = "key"}
<1>7. /\ \A i \in C : i \in DOMAIN items /\ bs[i].chain = items[i].chain
      /\ \A i \in DOMAIN items : i \notin C => items[i].chain = << >>
      /\ \A i \in K : i \in DOMAIN items /\ bs[i].key = items[i].key /\ items[i].key # NoKey
      /\ \A i \in DOMAIN items : items[i].key # NoKey => i \in K
  BY <1>2, <1>3 DEF HasCerts, IsPlain, HoldsItem, bs
<1> HIDE DEF C, K
<1>8. CertsOf(items) = UNION {ToSet(bs[i].chain) : i \in C}
  <2>1. \A i \in DOMAIN items : ToSet(items[i].chain) # {} => i \in C
    BY <1>7, ToSetOfNone
  <2>2. \A i \in C : i \in DOMAIN items /\ ToSet(bs[i].chain) = ToSet(items[i].chain)
    BY <1>7
  <2>3. \A c : c \in CertsOf(items) => \E i \in C : c \in ToSet(bs[i].chain)
    BY <2>1, <2>2 DEF CertsOf
  <2>4. \A c : (\E i \in C : c \in ToSet(bs[i].chain)) => c \in CertsOf(items)
    BY <2>2 DEF CertsOf
  <2> QED  BY <2>3, <2>4
<1>9. KeysOf(items) = {bs[i].key : i \in K}
  BY <1>7 DEF KeysOf
<1>10. \A i \in DOMAIN bs : OpensBlock(w, bs[i])
  BY <1>2, <1>3 DEF bs, HoldsItem
<1> QED  BY <1>4, <1>5, <1>6, <1>8, <1>9, <1>10 DEF FitsPem, C, K

(* Certificates and keys make plain items. *)
LEMMA CertItemsPlain ==
  ASSUME NEW cs \in Seq(Cert)
  PROVE  CertItems(cs) \in Seq(AnItem) /\ \A x \in ToSet(CertItems(cs)) : IsPlain(x)
         /\ x.key = NoKey
<1> DEFINE items == CertItems(cs)
<1>1. /\ items \in Seq(AnItem) /\ Len(items) = Len(cs)
      /\ \A i \in 1 .. Len(cs) : items[i].key = NoKey /\ items[i].chain = <<cs[i]>>
  BY CertItemsHold
<1> HIDE DEF items
<1>2. ASSUME NEW x \in ToSet(items)  PROVE IsPlain(x) /\ x.key = NoKey
  <2>1. PICK i \in 1 .. Len(cs) : x = items[i]
    BY <1>1 DEF ToSet
  <2>2. x \in AnItem /\ x.key = NoKey /\ x.chain = <<cs[i]>>
    BY <1>1, <2>1
  <2>3. Len(<<cs[i]>>) = 1
    OBVIOUS
  <2> QED  BY <2>2, <2>3 DEF IsPlain
<1> QED  BY <1>1, <1>2 DEF items

(* The items of the keys alone are plain too. *)
LEMMA KeyItemsPlain ==
  ASSUME NEW ks \in Seq(Key)
  PROVE  KeyItems(ks) \in Seq(AnItem) /\ \A x \in ToSet(KeyItems(ks)) : IsPlain(x)
<1> DEFINE items == KeyItems(ks)
<1>1. items \in Seq(AnItem)
  BY KeyItemsHold
<1>2. DOMAIN items = DOMAIN ks /\ \A i \in DOMAIN ks : items[i] = Item(Empty, ks[i], << >>)
  BY DEF KeyItems
<1> HIDE DEF items
<1>3. ASSUME NEW x \in ToSet(items)  PROVE IsPlain(x)
  <2>1. PICK i \in DOMAIN ks : x = Item(Empty, ks[i], << >>)
    BY <1>2 DEF ToSet
  <2>2. x \in AnItem
    BY <1>1, RangeOf
  <2>3. x.key \in Key /\ x.key # NoKey /\ x.chain = << >>
    BY <2>1, Sentinels DEF Item
  <2> QED  BY <2>2, <2>3 DEF IsPlain
<1> QED  BY <1>1, <1>3 DEF items

(* What encodePEM accepts. *)
LEMMA PemPlain ==
  ASSUME References, NEW o, EncodePEM(o).err = "none"
  PROVE  LET items == EncodePEM(o).items
         IN  /\ items \in Seq(AnItem) /\ items # << >> /\ \A i \in DOMAIN items : IsPlain(items[i])
             /\ o.encryptKeys /\ KeysOf(items) # {} => o.password # NoPassword
<1> DEFINE items == EncodePEM(o).items
           kept == Kept(certs, o)
<1>1. certs \in Seq(Cert) /\ keys \in Seq(Key) /\ kept \in Seq(Cert)
  BY KeepProperties DEF References, TypeOK, Kept
<1>2. /\ ~(o.encryptKeys /\ keys # << >> /\ o.password = NoPassword)
      /\ ~(kept = << >> /\ keys = << >>)
  BY AcceptedOrRefused DEF EncodePEM, PEM, Kept, Refuse
<1>3. items = CertItems(kept) \o KeyItems(keys)
  <2>1. PEM(certs, keys, o).err = "none"
    BY DEF EncodePEM
  <2>2. PEM(certs, keys, o)
          = Accept(CertItems(kept) \o KeyItems(keys), << >>, Len(kept), Len(keys), Len(certs) - Len(kept), 0)
    BY <1>1, <2>1, PEMWrites
  <2> QED  BY <2>2 DEF EncodePEM, Accept
<1>4. CertsOf(items) = ToSet(kept) /\ KeysOf(items) = ToSet(keys)
  BY EncodePEMWrites DEF Writes
<1> HIDE DEF items, kept
<1>5. /\ CertItems(kept) \in Seq(AnItem) /\ KeyItems(keys) \in Seq(AnItem)
      /\ \A x \in ToSet(CertItems(kept)) \cup ToSet(KeyItems(keys)) : IsPlain(x)
  BY <1>1, CertItemsPlain, KeyItemsPlain
<1>6. items \in Seq(AnItem) /\ ToSet(items) = ToSet(CertItems(kept)) \cup ToSet(KeyItems(keys))
  BY <1>3, <1>5, ConcatRange
<1>7. \A i \in DOMAIN items : IsPlain(items[i])
  <2>1. \A i \in DOMAIN items : items[i] \in ToSet(items)
    BY DEF ToSet
  <2> QED  BY <1>5, <1>6, <2>1
<1>8. items # << >>
  <2>1. items = << >> => CertsOf(items) = {} /\ KeysOf(items) = {}
    BY DEF CertsOf, KeysOf
  <2>2. items = << >> => kept = << >> /\ keys = << >>
    BY <1>1, <1>4, <2>1, NoElement
  <2> QED  BY <1>2, <2>2
<1>9. o.encryptKeys /\ KeysOf(items) # {} => o.password # NoPassword
  BY <1>2, <1>4, ToSetOfNone
<1> QED  BY <1>6, <1>7, <1>8, <1>9 DEF items

(* What encodeDER accepts. *)
LEMMA DerPlain ==
  ASSUME References, NEW o, EncodeDER(o).err = "none"
  PROVE  LET items == EncodeDER(o).items
         IN  /\ items \in Seq(AnItem) /\ Len(items) = 1 /\ items # << >>
             /\ \A i \in DOMAIN items : IsPlain(items[i])
<1> DEFINE items == EncodeDER(o).items
<1>1. certs \in Seq(Cert) /\ keys \in Seq(Key)
  BY DEF References, TypeOK
<1>2. /\ Len(certs) + Len(keys) # 0
      /\ items = IF certs # << >> THEN CertItems(<<certs[1]>>) ELSE KeyItems(<<keys[1]>>)
  BY AcceptedOrRefused DEF EncodeDER, Refuse
<1> HIDE DEF items
<1>3. items \in Seq(AnItem) /\ Len(items) = 1 /\ \A x \in ToSet(items) : IsPlain(x)
  <2>1. CASE certs # << >>
    <3> DEFINE cs == <<certs[1]>>
    <3>1. certs[1] \in Cert
      BY <1>1, <2>1
    <3>2. cs \in Seq(Cert) /\ Len(cs) = 1
      BY <3>1
    <3>3. items = CertItems(cs)
      BY <1>2, <2>1
    <3> HIDE DEF cs
    <3> QED  BY <3>2, <3>3, CertItemsPlain, CertItemsHold
  <2>2. CASE certs = << >>
    <3> DEFINE ks == <<keys[1]>>
    <3>1. keys # << >>
      BY <1>1, <1>2, <2>2
    <3>2. keys[1] \in Key
      BY <1>1, <3>1
    <3>3. ks \in Seq(Key) /\ Len(ks) = 1
      BY <3>2
    <3>4. items = KeyItems(ks)
      BY <1>2, <2>2
    <3> HIDE DEF ks
    <3> QED  BY <3>3, <3>4, KeyItemsPlain, KeyItemsHold
  <2> QED  BY <2>1, <2>2
<1>4. \A i \in DOMAIN items : IsPlain(items[i])
  BY <1>3 DEF ToSet
<1> QED  BY <1>3, <1>4, OneIsSome DEF items

(* What encodePKCS7 accepts: a block of all certificates. *)
LEMMA Pkcs7Fits ==
  ASSUME References, NEW o, EncodePKCS7(o).err = "none",
         NEW w, w.format = "PKCS7", w.genuine, w.password \in Password \cup {NoPassword},
         w.items = EncodePKCS7(o).items,
         NEW v, v.format = "pkcs7", v.blocks = <<Pkcs7Block(w.items)>>
  PROVE  FitsPem(w, v)
<1> DEFINE items == w.items
           chain == [i \in DOMAIN items |-> items[i].chain[1]]
           b == Pkcs7Block(items)
<1>1. certs \in Seq(Cert) /\ certs # << >> /\ items = CertItems(certs)
  BY AcceptedOrRefused DEF References, TypeOK, EncodePKCS7, Refuse
<1>2. /\ DOMAIN items = 1 .. Len(certs) /\ Len(certs) \in Nat
      /\ \A i \in 1 .. Len(certs) : items[i].chain = <<certs[i]>>
      /\ CertsOf(items) = ToSet(certs) /\ KeysOf(items) = {}
  <2>1. /\ CertItems(certs) \in Seq(AnItem) /\ Len(CertItems(certs)) = Len(certs)
        /\ \A i \in 1 .. Len(certs) : CertItems(certs)[i].chain = <<certs[i]>>
        /\ CertsOf(CertItems(certs)) = ToSet(certs) /\ KeysOf(CertItems(certs)) = {}
    BY <1>1, CertItemsHold
  <2> QED  BY <1>1, <2>1
<1>3. chain = certs
  <2>1. \A i \in 1 .. Len(certs) : items[i].chain[1] = certs[i]
    BY <1>2
  <2> QED  BY <1>1, <1>2, <2>1
<1>4. b = [kind |-> "pkcs7", bad |-> FALSE, chain |-> certs, key |-> NoKey,
           dek |-> NoPassword, pkcs8 |-> NoPassword, labelled |-> FALSE]
  <2>1. b = [NoBlock EXCEPT !.kind = "pkcs7", !.chain = chain]
    BY DEF Pkcs7Block
  <2> HIDE DEF b, chain
  <2> QED  BY <1>3, <2>1 DEF NoBlock
<1> HIDE DEF items, chain, b
<1>5. b \in Block
  BY <1>1, <1>4 DEF Block
<1>6. b.kind = "pkcs7" /\ b.chain = certs /\ b.bad = FALSE /\ b.dek = NoPassword
  BY <1>4
<1>7. OpensBlock(w, b)
  BY <1>1, <1>6 DEF OpensBlock
<1>8. v.blocks = <<b>> /\ v.blocks \in Seq(Block) /\ v.blocks # << >> /\ Len(v.blocks) = 1
      /\ DOMAIN v.blocks = {1} /\ v.blocks[1] = b
  BY <1>5 DEF b, items
<1>9. IsPemFile(v)
  BY <1>6, <1>8 DEF IsPemFile
<1>10. {j \in DOMAIN v.blocks : HasCerts(v.blocks[j])} = {1}
       /\ {j \in DOMAIN v.blocks : v.blocks[j].kind = "key"} = {}
  BY <1>6, <1>8 DEF HasCerts
<1>11. /\ CertsOf(items) = UNION {ToSet(v.blocks[i].chain) : i \in {j \in DOMAIN v.blocks : HasCerts(v.blocks[j])}}
       /\ KeysOf(items) = {v.blocks[i].key : i \in {j \in DOMAIN v.blocks : v.blocks[j].kind = "key"}}
  BY <1>2, <1>6, <1>8, <1>10
<1> QED  BY <1>7, <1>8, <1>9, <1>11 DEF FitsPem, FormatName, items

-----------------------------------------------------------------------------
(***************************************************************************)
(* Writing JKS: the order of the aliases.                                  *)
(***************************************************************************)

DistinctlyNamed(items) ==
  /\ items \in Seq(AnItem)
  /\ \A i, j \in DOMAIN items : items[i].alias = items[j].alias => i = j

(* The items whose alias stands before that of the i-th one. *)
Smaller(items, i) == {j \in DOMAIN items : <<items[j].alias, items[i].alias>> \in Before}

(* They are finitely many, and the item itself is not one of them. *)
LEMMA SmallerFinite ==
  ASSUME NEW items, DistinctlyNamed(items), NEW i \in DOMAIN items
  PROVE  /\ IsFiniteSet(Smaller(items, i)) /\ Cardinality(Smaller(items, i)) \in Nat
         /\ Smaller(items, i) \in SUBSET (DOMAIN items \ {i})
         /\ items[i].alias \in Alias
<1>1. items \in Seq(AnItem)
  BY DEF DistinctlyNamed
<1>2. \A j \in DOMAIN items : items[j].alias \in Alias
  <2>1. \A j \in DOMAIN items : items[j] \in AnItem
    BY <1>1
  <2> QED  BY <2>1 DEF AnItem
<1>3. Smaller(items, i) \in SUBSET (DOMAIN items)
  BY DEF Smaller
<1>4. i \notin Smaller(items, i)
  BY <1>2, ConvertInputsWellFormed DEF ConvertInputs, Smaller
<1> QED  BY <1>1, <1>2, <1>3, <1>4, PositionsFinite

(* keytool lists one item before another when its alias stands before. *)
LEMMA PlaceGrows ==
  ASSUME NEW items, DistinctlyNamed(items), NEW i \in DOMAIN items, NEW k \in DOMAIN items,
         <<items[i].alias, items[k].alias>> \in Before
  PROVE  Place(items, i) < Place(items, k)
<1> DEFINE A == Smaller(items, i)
           B == Smaller(items, k)
<1>1. \A j \in DOMAIN items : items[j].alias \in Alias
  BY SmallerFinite
<1>2. A \in SUBSET B /\ i \in B /\ i \notin A
  <2>1. i \in B /\ i \notin A
    BY SmallerFinite DEF Smaller
  <2>2. \A j \in A : j \in B
    BY <1>1, ConvertInputsWellFormed DEF ConvertInputs, Smaller
  <2> QED  BY <2>1, <2>2
<1>3. IsFiniteSet(B) /\ Cardinality(B) \in Nat /\ Cardinality(A) \in Nat
  BY SmallerFinite
<1> HIDE DEF A, B
<1>4. Cardinality(A) <= Cardinality(B) /\ Cardinality(A) # Cardinality(B)
  BY <1>2, <1>3, FS_Subset
<1>5. Cardinality(A) < Cardinality(B)
  BY <1>3, <1>4
<1> QED  BY <1>3, <1>5 DEF Place, Smaller, A, B

(* Every item has its place in the listing. *)
LEMMA PlaceRange ==
  ASSUME NEW items, DistinctlyNamed(items), NEW i \in DOMAIN items
  PROVE  Place(items, i) \in 1 .. Len(items)
<1> DEFINE A == Smaller(items, i)
<1>1. DOMAIN items = 1 .. Len(items) /\ Len(items) \in Nat
  BY DEF DistinctlyNamed
<1>2. A \in SUBSET (DOMAIN items) /\ i \in DOMAIN items /\ i \notin A
  BY SmallerFinite
<1>3. IsFiniteSet(DOMAIN items) /\ Cardinality(DOMAIN items) = Len(items)
  <2> DEFINE n == Len(items)
  <2>1. n \in Nat
    BY <1>1
  <2> HIDE DEF n
  <2>2. IsFiniteSet(1 .. n) /\ Cardinality(1 .. n) = n
    BY <2>1, FS_Interval
  <2> QED  BY <1>1, <2>2 DEF n
<1>4. Cardinality(A) \in Nat
  BY SmallerFinite
<1> HIDE DEF A
<1>5. Cardinality(A) <= Cardinality(DOMAIN items) /\ Cardinality(A) # Cardinality(DOMAIN items)
  BY <1>2, <1>3, FS_Subset
<1>6. 1 + Cardinality(A) \in 1 .. Len(items)
  BY <1>1, <1>3, <1>4, <1>5
<1> QED  BY <1>6 DEF Place, Smaller, A

(* Every place is that of exactly one item. *)
LEMMA PlaceBijective ==
  ASSUME NEW items, DistinctlyNamed(items)
  PROVE  /\ \A i, k \in DOMAIN items : Place(items, i) = Place(items, k) => i = k
         /\ \A n \in DOMAIN items : \E i \in DOMAIN items : Place(items, i) = n
<1> DEFINE I == DOMAIN items
           f == [i \in I |-> Place(items, i)]
<1>1. I = 1 .. Len(items) /\ Len(items) \in Nat
  BY DEF DistinctlyNamed
<1>2. f \in [I -> I]
  BY <1>1, PlaceRange
<1>3. ASSUME NEW i \in I, NEW k \in I, Place(items, i) = Place(items, k)  PROVE i = k
  <2>1. Place(items, i) \in Int
    BY PlaceRange
  <2>2. ~(Place(items, i) < Place(items, k)) /\ ~(Place(items, k) < Place(items, i))
    BY <1>3, <2>1
  <2>3. /\ <<items[i].alias, items[k].alias>> \notin Before
        /\ <<items[k].alias, items[i].alias>> \notin Before
    BY <2>2, PlaceGrows
  <2>4. items[i].alias \in Alias /\ items[k].alias \in Alias
    BY SmallerFinite
  <2>5. items[i].alias = items[k].alias
    BY <2>3, <2>4, ConvertInputsWellFormed DEF ConvertInputs
  <2> QED  BY <2>5 DEF DistinctlyNamed
<1>4. f \in Injection(I, I)
  BY <1>2, <1>3 DEF Injection, IsInjective
<1>5. IsFiniteSet(I)
  BY <1>1, FS_Interval
<1>6. f \in Surjection(I, I)
  <2> HIDE DEF I, f
  <2> QED  BY <1>4, <1>5, FS_Injection
<1> QED  BY <1>3, <1>6 DEF Surjection

(* The password of an item is the one that the loop looked up for the entry. *)
LEMMA LongEntryPassword ==
  ASSUME References, NEW o \in Options, \A i \in DOMAIN entries : EntryFault(i, o) = "none",
         NEW i \in DOMAIN entries, entries[i].key # NoKey
  PROVE  EntryPassword(JksAlias(entries[i], o), o) \in LongPasswords
<1> DEFINE alias == JksAlias(entries[i], o)
           same  == {j \in DOMAIN entries : JksAlias(entries[j], o) = alias}
<1>1. \A j \in DOMAIN entries : j # i => JksAlias(entries[j], o) # alias
  BY EntryAliasesDiffer
<1>2. (CHOOSE j \in DOMAIN entries : JksAlias(entries[j], o) = alias) = i
  BY <1>1
<1>3. KeyPassword(entries[i], alias, o) \in LongPasswords
  BY DEF EntryFault
<1> QED  BY <1>2, <1>3 DEF EntryPassword

(* What the opener of JKS needs to know of an item. *)
IsJksOutput(item, o) ==
  /\ item.chain # << >>
  /\ item.key = NoKey => Len(item.chain) = 1
  /\ item.key # NoKey => EntryPassword(item.alias, o) \in LongPasswords

(* EncodeJKS writes items of different aliases, each fit for its slot. *)
LEMMA JksItems ==
  ASSUME References, NEW o \in Options, EncodeJKS(o).err = "none"
  PROVE  LET items == EncodeJKS(o).items
         IN  /\ DistinctlyNamed(items) /\ items # << >>
             /\ \A i \in DOMAIN items : IsJksOutput(items[i], o)
             /\ o.password \in LongPasswords
<1> DEFINE aliases   == [i \in DOMAIN entries |-> JksAlias(entries[i], o)]
           bound     == EntryItems(o)
           remaining == Keep(certs, Cert \ CertsOf(bound))
           rest      == WriteRemaining(remaining, aliases)
           items     == EncodeJKS(o).items
<1>1. TypeOK /\ certs \in Seq(Cert)
  BY DEF References, TypeOK
<1>2. /\ items = bound \o rest.items /\ items # << >> /\ o.password \in LongPasswords
      /\ \A i \in DOMAIN entries : EntryFault(i, o) = "none"
  BY JksAccepted
<1>3. remaining \in Seq(Cert)
  BY <1>1, KeepProperties
<1>4. PassesInv(rest, Len(remaining), remaining, aliases)
  <2> HIDE DEF remaining, aliases
  <2> QED  BY <1>1, <1>3, RemainingInv
<1>5. /\ bound \in Seq(AnItem)
      /\ \A j \in DOMAIN bound : \E i \in DOMAIN entries :
            /\ bound[j].alias = JksAlias(entries[i], o) /\ bound[j].key = entries[i].key
            /\ entries[i].key # NoKey => bound[j].chain = entries[i].chain
            /\ entries[i].key = NoKey => Len(bound[j].chain) = 1
  BY EntryItemsHold DEF Certified
<1> HIDE DEF bound, rest, remaining, aliases
<1>6. \A x \in ToSet(bound) : IsJksOutput(x, o)
  <2> SUFFICES ASSUME NEW j \in DOMAIN bound  PROVE IsJksOutput(bound[j], o)
    BY DEF ToSet
  <2>1. PICK i \in DOMAIN entries :
          /\ bound[j].alias = JksAlias(entries[i], o) /\ bound[j].key = entries[i].key
          /\ entries[i].key # NoKey => bound[j].chain = entries[i].chain
          /\ entries[i].key = NoKey => Len(bound[j].chain) = 1
    BY <1>5
  <2>2. CASE entries[i].key = NoKey
    BY <2>1, <2>2, OneIsSome DEF IsJksOutput
  <2>3. CASE entries[i].key # NoKey
    <3>1. EntryPassword(JksAlias(entries[i], o), o) \in LongPasswords
      BY <1>2, <2>3, LongEntryPassword
    <3>2. entries[i].chain # << >>
      BY <1>2, <2>3, NoFault
    <3> QED  BY <2>1, <2>3, <3>1, <3>2 DEF IsJksOutput
  <2> QED  BY <2>2, <2>3
<1>7. rest.items \in Seq(AnItem) /\ \A x \in ToSet(rest.items) : IsJksOutput(x, o)
  <2>1. /\ rest.items \in Seq(AnItem) /\ Len(rest.items) = Len(remaining)
        /\ \A m \in 1 .. Len(remaining) : /\ rest.items[m].key = NoKey
                                          /\ rest.items[m].chain = <<remaining[m]>>
    BY <1>4, Zenon DEF PassesInv
  <2>2. DOMAIN rest.items = 1 .. Len(remaining)
    BY <2>1
  <2>3. ASSUME NEW m \in DOMAIN rest.items  PROVE IsJksOutput(rest.items[m], o)
    <3>1. rest.items[m].key = NoKey /\ rest.items[m].chain = <<remaining[m]>>
      BY <2>1, <2>2
    <3>2. Len(<<remaining[m]>>) = 1 /\ <<remaining[m]>> # << >>
      OBVIOUS
    <3> QED  BY <3>1, <3>2 DEF IsJksOutput
  <2> QED  BY <2>1, <2>3 DEF ToSet
<1>8. items \in Seq(AnItem) /\ \A i \in DOMAIN items : IsJksOutput(items[i], o)
  <2> DEFINE t == rest.items
  <2>1. bound \in Seq(AnItem) /\ t \in Seq(AnItem) /\ items = bound \o t
    BY <1>2, <1>5, <1>7
  <2>2. \A x \in ToSet(t) : IsJksOutput(x, o)
    BY <1>7
  <2> HIDE DEF t, items
  <2>3. items \in Seq(AnItem) /\ ToSet(items) = ToSet(bound) \cup ToSet(t)
    BY <2>1, ConcatRange
  <2>4. \A i \in DOMAIN items : items[i] \in ToSet(items)
    BY DEF ToSet
  <2> QED  BY <1>6, <2>2, <2>3, <2>4
<1>9. \A i, j \in DOMAIN items : items[i].alias = items[j].alias => i = j
  BY EncodeJKSSound DEF JksOutputSound
<1> QED  BY <1>2, <1>8, <1>9 DEF DistinctlyNamed

(* The entry of an item. *)
HoldsEntry(x, item, o) ==
  /\ x \in JksItem /\ x.bad = FALSE /\ x.chain # << >>
  /\ x.kind = IF x.key = NoKey THEN "trusted" ELSE "key"
  /\ x.kind = "trusted" => Len(x.chain) = 1
  /\ StandsFor(x, item)
  /\ x.key # NoKey => x.password = EntryPassword(x.alias, o)

(* The slot that keytool lists for an item holds the item. *)
LEMMA JksEntryHolds ==
  ASSUME NEW o, o.password \in LongPasswords, NEW item \in AnItem, IsJksOutput(item, o)
  PROVE  HoldsEntry(JksEntry(item, o), item, o)
<1> DEFINE x == JksEntry(item, o)
           p == IF item.key = NoKey THEN o.password ELSE EntryPassword(item.alias, o)
           kind == IF item.key = NoKey THEN "trusted" ELSE "key"
<1>1. /\ item.alias \in Alias /\ item.chain \in Seq(Cert) /\ item.key \in Key \cup {NoKey}
      /\ item.chain # << >>
      /\ item.key = NoKey => Len(item.chain) = 1
  BY DEF AnItem, IsJksOutput
<1>2. p \in Password
  BY EncodeConstants DEF IsJksOutput
<1>3. /\ kind \in {"trusted", "key"}
      /\ kind = "trusted" => item.key = NoKey
      /\ item.key # NoKey => p = EntryPassword(item.alias, o)
  OBVIOUS
<1>4. x = [alias |-> item.alias, kind |-> kind, chain |-> item.chain, key |-> item.key,
           bad |-> FALSE, password |-> p]
  BY DEF JksEntry
<1> HIDE DEF p, kind, x
<1>5. x \in JksItem
  BY <1>1, <1>2, <1>3, <1>4 DEF JksItem
<1>6. /\ x.bad = FALSE /\ x.chain = item.chain /\ x.key = item.key /\ x.alias = item.alias
      /\ x.kind = kind /\ x.password = p
  BY <1>4
<1>7. kind = IF item.key = NoKey THEN "trusted" ELSE "key"
  BY DEF kind
<1>8. HoldsEntry(x, item, o)
  BY <1>1, <1>3, <1>5, <1>6, <1>7 DEF HoldsEntry, StandsFor
<1> QED  BY <1>8 DEF x

(* The entries of the file are those of the items, in the order of the aliases. *)
LEMMA JksFileHolds ==
  ASSUME NEW o, o.password \in LongPasswords, NEW items, DistinctlyNamed(items),
         \A i \in DOMAIN items : IsJksOutput(items[i], o), NEW p
  PROVE  LET xs == JksFile(items, o, p).items
         IN  /\ DOMAIN xs = DOMAIN items /\ xs \in Seq(JksItem) /\ Len(xs) = Len(items)
             /\ \A n \in DOMAIN xs : \E i \in DOMAIN items :
                   HoldsEntry(xs[n], items[i], o) /\ Place(items, i) = n
             /\ \A i \in DOMAIN items : \E n \in DOMAIN xs : HoldsEntry(xs[n], items[i], o)
<1> DEFINE xs == JksFile(items, o, p).items
           at(n) == CHOOSE i \in DOMAIN items : Place(items, i) = n
<1>1. /\ xs = [n \in DOMAIN items |-> JksEntry(items[at(n)], o)]
  BY DEF JksFile
<1>2. DOMAIN items = 1 .. Len(items) /\ Len(items) \in Nat
  BY DEF DistinctlyNamed
<1>3. \A i \in DOMAIN items : HoldsEntry(JksEntry(items[i], o), items[i], o)
  <2>1. \A i \in DOMAIN items : items[i] \in AnItem
    BY DEF DistinctlyNamed
  <2> QED  BY <2>1, JksEntryHolds
<1>4. \A n \in DOMAIN items : at(n) \in DOMAIN items /\ Place(items, at(n)) = n
  BY PlaceBijective
<1>5. \A i \in DOMAIN items : Place(items, i) \in DOMAIN items /\ at(Place(items, i)) = i
  <2>1. \A i \in DOMAIN items : Place(items, i) \in DOMAIN items
    BY <1>2, PlaceRange
  <2>2. \A i \in DOMAIN items : Place(items, at(Place(items, i))) = Place(items, i)
    BY <1>4, <2>1
  <2> QED  BY <1>4, <2>1, <2>2, PlaceBijective
<1> HIDE DEF at
<1>6. DOMAIN xs = DOMAIN items /\ \A n \in DOMAIN items : xs[n] = JksEntry(items[at(n)], o)
  BY <1>1
<1> HIDE DEF xs
<1>7. \A n \in DOMAIN items : xs[n] \in JksItem
  BY <1>3, <1>4, <1>6 DEF HoldsEntry
<1>8. xs \in Seq(JksItem) /\ Len(xs) = Len(items)
  <2> DEFINE m == Len(items)
  <2>1. m \in Nat /\ DOMAIN xs = 1 .. m /\ \A n \in 1 .. m : xs[n] \in JksItem
    BY <1>2, <1>6, <1>7
  <2>2. xs = [n \in 1 .. m |-> xs[n]]
    BY <1>1, <2>1 DEF xs
  <2> HIDE DEF m
  <2>3. xs \in Seq(JksItem) /\ Len(xs) = m
    BY <2>1, <2>2
  <2> QED  BY <2>3 DEF m
<1>9. \A n \in DOMAIN xs : HoldsEntry(xs[n], items[at(n)], o) /\ Place(items, at(n)) = n
  BY <1>3, <1>4, <1>6
<1>10. \A i \in DOMAIN items : Place(items, i) \in DOMAIN xs
       /\ HoldsEntry(xs[Place(items, i)], items[i], o)
  BY <1>3, <1>5, <1>6
<1> QED  BY <1>4, <1>6, <1>8, <1>9, <1>10 DEF xs

(* What is written as JKS is what the opener of JKS is expected to restore. *)
LEMMA JksFits ==
  ASSUME References, NEW o \in Options, EncodeJKS(o).err = "none",
         NEW w, w.genuine \in BOOLEAN, w.items = EncodeJKS(o).items, w.password = o.password,
         w.keyPasswords = KeyPasswordsOf(w.items, o),
         NEW v, v = JksFile(w.items, o, IF w.genuine THEN w.password ELSE Altered)
  PROVE  FitsJks(w, v)
<1> DEFINE items == w.items
           p     == IF w.genuine THEN w.password ELSE Altered
           xs    == v.items
<1>1. /\ DistinctlyNamed(items) /\ items \in Seq(AnItem)
      /\ \A i \in DOMAIN items : IsJksOutput(items[i], o)
      /\ o.password \in LongPasswords
  BY JksItems DEF DistinctlyNamed
<1>2. o.password \in Password \ {Altered} /\ LongPasswords \subseteq Password /\ p \in Password
  BY <1>1, EncodeConstants, ConvertInputsWellFormed DEF ConvertInputs
<1>3. v.format = "jks" /\ v.password = p /\ v.malformed = FALSE /\ xs = JksFile(items, o, p).items
  BY DEF JksFile
<1> HIDE DEF items, p, xs
<1>4. /\ DOMAIN xs = DOMAIN items /\ xs \in Seq(JksItem) /\ Len(xs) = Len(items)
      /\ \A n \in DOMAIN xs : \E i \in DOMAIN items :
            HoldsEntry(xs[n], items[i], o) /\ Place(items, i) = n
      /\ \A i \in DOMAIN items : \E n \in DOMAIN xs : HoldsEntry(xs[n], items[i], o)
  BY <1>1, <1>3, JksFileHolds
<1>5. SameItems(items, xs)
  BY <1>4 DEF SameItems, HoldsEntry
<1>6. ASSUME NEW m \in DOMAIN xs, NEW n \in DOMAIN xs, xs[m].alias = xs[n].alias
      PROVE  m = n
  <2>1. PICK i \in DOMAIN items : xs[m].alias = items[i].alias /\ Place(items, i) = m
    BY <1>4 DEF HoldsEntry, StandsFor
  <2>2. PICK j \in DOMAIN items : xs[n].alias = items[j].alias /\ Place(items, j) = n
    BY <1>4 DEF HoldsEntry, StandsFor
  <2>3. i = j
    BY <1>1, <1>6, <2>1, <2>2 DEF DistinctlyNamed
  <2> QED  BY <2>1, <2>2, <2>3
<1>7. IsJksFile(v)
  <2>1. \A n \in DOMAIN xs : xs[n].kind = "trusted" => Len(xs[n].chain) = 1
    BY <1>4 DEF HoldsEntry
  <2> QED  BY <1>2, <1>3, <1>4, <1>6, <2>1 DEF IsJksFile, xs
<1> DEFINE names == {items[i].alias : i \in {j \in DOMAIN items : items[j].key # NoKey}}
           given == [a \in Alias |-> IF a \in names THEN EntryPassword(a, o) ELSE NoPassword]
<1>8. w.keyPasswords = given
  BY DEF KeyPasswordsOf, items
<1>9. \A a \in names : EntryPassword(a, o) \in Password
  BY <1>1, <1>2 DEF IsJksOutput
<1>10. given \in [Alias -> Password \cup {NoPassword}]
  BY <1>9
<1>11. ASSUME NEW n \in DOMAIN xs  PROVE Unlocks(w, xs[n])
  <2>1. PICK i \in DOMAIN items : HoldsEntry(xs[n], items[i], o)
    BY <1>4
  <2>2. xs[n].alias = items[i].alias /\ xs[n].key = items[i].key /\ items[i].alias \in Alias
    <3>1. items[i] \in AnItem
      BY <1>1
    <3>2. items[i].alias \in Alias
      BY <3>1 DEF AnItem
    <3> QED  BY <2>1, <3>2 DEF HoldsEntry, StandsFor
  <2>3. xs[n].key # NoKey => xs[n].alias \in names
    BY <2>2
  <2>4. xs[n].key # NoKey => given[xs[n].alias] = EntryPassword(xs[n].alias, o)
    BY <2>2, <2>3
  <2> QED  BY <1>8, <2>1, <2>4 DEF HoldsEntry, Unlocks
<1> HIDE DEF given
<1>12. /\ v.password = IF w.genuine THEN w.password ELSE Altered
       /\ w.items \in Seq(AnItem) /\ w.password \in Password \ {Altered}
       /\ w.keyPasswords \in [Alias -> Password \cup {NoPassword}]
       /\ SameItems(w.items, v.items)
       /\ \A n \in DOMAIN v.items : Unlocks(w, v.items[n])
  BY <1>1, <1>2, <1>3, <1>5, <1>8, <1>10, <1>11 DEF items, xs, p
<1> QED  BY <1>3, <1>7, <1>12 DEF FitsJks

-----------------------------------------------------------------------------
(***************************************************************************)
(* Writing PKCS12: the bags of one or two safes.                           *)
(***************************************************************************)

(* A container of one safe has the bags of that safe. *)
LEMMA FlattenOne ==
  ASSUME NEW seqs, Len(seqs) = 1
  PROVE  FlattenSeq(seqs) = seqs[1]
<1> DEFINE Flat(f) == f = [i \in 1 .. Len(seqs) |-> IF i = 1 THEN seqs[i] ELSE f[i - 1] \o seqs[i]]
           f == CHOOSE f : Flat(f)
<1>1. Flat([i \in 1 .. 1 |-> seqs[1]])
  <2>1. \A i \in 1 .. 1 : i = 1
    OBVIOUS
  <2> QED  BY <2>1
<1>2. Flat(f)
  <2> HIDE DEF Flat
  <2> QED  BY <1>1
<1>3. f[1] = seqs[1]
  BY <1>2
<1>4. FlattenSeq(seqs) = f[1]
  <2>1. FlattenSeq(seqs) = IF Len(seqs) = 0 THEN seqs ELSE f[Len(seqs)]
    BY Zenon DEF FlattenSeq
  <2> HIDE DEF f
  <2> QED  BY <2>1
<1> QED  BY <1>3, <1>4

(* A container of two safes has the bags of the first and then of the second. *)
LEMMA FlattenTwo ==
  ASSUME NEW seqs, Len(seqs) = 2
  PROVE  FlattenSeq(seqs) = seqs[1] \o seqs[2]
<1> DEFINE Flat(f) == f = [i \in 1 .. Len(seqs) |-> IF i = 1 THEN seqs[i] ELSE f[i - 1] \o seqs[i]]
           f == CHOOSE f : Flat(f)
           g == [i \in 1 .. 2 |-> IF i = 1 THEN seqs[1] ELSE seqs[1] \o seqs[2]]
<1>1. Flat(g)
  <2>1. \A i \in 1 .. 2 : i = 1 \/ i = 2
    OBVIOUS
  <2>2. g[1] = seqs[1]
    OBVIOUS
  <2>3. \A i \in 1 .. 2 : g[i] = IF i = 1 THEN seqs[i] ELSE g[i - 1] \o seqs[i]
    BY <2>1, <2>2
  <2> QED  BY <2>3
<1>2. Flat(f)
  <2> HIDE DEF Flat
  <2> QED  BY <1>1
<1>3. 1 \in 1 .. Len(seqs) /\ 2 \in 1 .. Len(seqs) /\ 2 - 1 = 1 /\ 2 # 1
  OBVIOUS
<1>4. f[1] = seqs[1] /\ f[2] = f[1] \o seqs[2]
  <2> HIDE DEF f
  <2> QED  BY <1>2, <1>3
<1>5. FlattenSeq(seqs) = f[2]
  <2>1. FlattenSeq(seqs) = IF Len(seqs) = 0 THEN seqs ELSE f[Len(seqs)]
    BY Zenon DEF FlattenSeq
  <2> HIDE DEF f
  <2> QED  BY <2>1
<1> QED  BY <1>4, <1>5

(* A container of one or two safes has the bags of both. *)
LEMMA BagsJoined ==
  ASSUME NEW pfx, pfx.safes \in Seq(SafeContents)
  PROVE  /\ Len(pfx.safes) = 1 => Bags(pfx) = pfx.safes[1].bags
         /\ Len(pfx.safes) = 2 => Bags(pfx) = pfx.safes[1].bags \o pfx.safes[2].bags
         /\ Len(pfx.safes) \in {1, 2} => Bags(pfx) \in Seq(SafeBag)
<1> DEFINE safes == pfx.safes
           lists == [i \in DOMAIN safes |-> safes[i].bags]
<1>1. safes \in Seq(SafeContents) /\ Len(lists) = Len(safes)
  OBVIOUS
<1>2. \A i \in DOMAIN safes : safes[i].bags \in Seq(SafeBag)
  <2>1. \A i \in DOMAIN safes : safes[i] \in SafeContents
    BY <1>1
  <2> HIDE DEF safes
  <2> QED  BY <2>1 DEF SafeContents
<1>3. DOMAIN safes = 1 .. Len(safes)
  BY <1>1
<1>4. Bags(pfx) = FlattenSeq(lists)
  BY DEF Bags
<1>5. CASE Len(safes) = 1
  <2>1. 1 \in DOMAIN safes
    BY <1>3, <1>5
  <2>2. lists[1] = safes[1].bags
    BY <2>1
  <2> HIDE DEF lists, safes
  <2>3. FlattenSeq(lists) = lists[1]
    BY <1>1, <1>5, FlattenOne
  <2> QED  BY <1>2, <1>4, <1>5, <2>1, <2>2, <2>3 DEF safes
<1>6. CASE Len(safes) = 2
  <2>1. 1 \in DOMAIN safes /\ 2 \in DOMAIN safes
    BY <1>3, <1>6
  <2>2. lists[1] = safes[1].bags /\ lists[2] = safes[2].bags
    BY <2>1
  <2> HIDE DEF lists, safes
  <2>3. FlattenSeq(lists) = lists[1] \o lists[2]
    BY <1>1, <1>6, FlattenTwo
  <2>4. safes[1].bags \o safes[2].bags \in Seq(SafeBag)
    BY <1>2, <2>1, ConcatRange
  <2> QED  BY <1>4, <1>6, <2>2, <2>3, <2>4 DEF safes
<1> QED  BY <1>5, <1>6

(* The bags of these kinds. *)
LEMMA BagsChosen ==
  ASSUME NEW pfx, Bags(pfx) \in Seq(SafeBag), NEW kinds
  PROVE  /\ BagsOf(pfx, kinds) \in Seq(SafeBag)
         /\ ToSet(BagsOf(pfx, kinds)) = {b \in ToSet(Bags(pfx)) : b.kind \in kinds}
         /\ Len(BagsOf(pfx, kinds)) <= Len(Bags(pfx))
<1> DEFINE bags == Bags(pfx)
           I    == {i \in DOMAIN bags : bags[i].kind \in kinds}
           n    == Len(bags)
<1>1. bags \in Seq(SafeBag) /\ I \in SUBSET (DOMAIN bags) /\ DOMAIN bags = 1 .. n /\ n \in Nat
  OBVIOUS
<1>2. BagsOf(pfx, kinds) = Pick(bags, I)
  BY DEF BagsOf
<1>3. ToSet(bags) = {bags[i] : i \in DOMAIN bags}
  BY DEF ToSet
<1>4. {bags[i] : i \in I} = {b \in ToSet(bags) : b.kind \in kinds}
  BY <1>3
<1> HIDE DEF bags, I, n
<1>5. /\ Pick(bags, I) \in Seq(SafeBag) /\ Len(Pick(bags, I)) = Cardinality(I)
      /\ ToSet(Pick(bags, I)) = {bags[i] : i \in I}
  BY <1>1, PickProperties
<1>6. IsFiniteSet(1 .. n) /\ Cardinality(1 .. n) = n
  BY <1>1, FS_Interval
<1>7. Cardinality(I) <= n
  BY <1>1, <1>6, FS_Subset
<1> QED  BY <1>2, <1>4, <1>5, <1>7 DEF bags, n

(* The certificates that the last two readers return. *)
LEMMA ChainRead ==
  ASSUME NEW pfx, Bags(pfx) \in Seq(SafeBag)
  PROVE  /\ ChainOf(pfx) \in Seq(Cert) /\ Len(ChainOf(pfx)) <= Len(Bags(pfx))
         /\ ToSet(ChainOf(pfx)) = {b.cert : b \in {x \in ToSet(Bags(pfx)) : IsCert(x)}}
<1> DEFINE read == BagsOf(pfx, {"cert"})
           cs == [i \in DOMAIN read |-> read[i].cert]
<1>1. /\ read \in Seq(SafeBag) /\ Len(read) <= Len(Bags(pfx))
      /\ ToSet(read) = {b \in ToSet(Bags(pfx)) : b.kind \in {"cert"}}
  BY BagsChosen
<1>2. ChainOf(pfx) = cs
  BY DEF ChainOf
<1> HIDE DEF read
<1>3. \A i \in DOMAIN read : read[i].cert \in Cert
  <2>1. \A i \in DOMAIN read : read[i] \in SafeBag
    BY <1>1
  <2> QED  BY <2>1 DEF SafeBag
<1>4. cs \in Seq(Cert) /\ Len(cs) = Len(read)
  <2> DEFINE m == Len(read)
  <2>1. m \in Nat /\ DOMAIN read = 1 .. m
    BY <1>1
  <2> HIDE DEF m
  <2> QED  BY <1>3, <2>1 DEF m
<1>5. ToSet(cs) = {b.cert : b \in ToSet(read)}
  BY DEF ToSet
<1>6. ToSet(read) = {x \in ToSet(Bags(pfx)) : IsCert(x)}
  BY <1>1 DEF IsCert
<1> HIDE DEF cs
<1> QED  BY <1>1, <1>2, <1>4, <1>5, <1>6

(* What the readers find, field by field. *)
LEMMA PfxFileFields ==
  ASSUME NEW pfx, NEW p
  PROVE  LET v    == PfxFile(pfx, p)
             read == BagsOf(pfx, {"key", "shrouded"})
         IN  /\ v.format = "pkcs12" /\ v.password = p /\ v.shangmi = TRUE /\ v.bad = FALSE
             /\ v.form = IF ToPEMReads(pfx, p) THEN "bags"
                         ELSE IF DecodeChainReads(pfx, p) THEN "pair"
                         ELSE IF DecodeTrustStoreReads(pfx, p) THEN "trust" ELSE "broken"
             /\ v.bags = [i \in DOMAIN Bags(pfx) |-> PemBlock(Bags(pfx)[i])]
             /\ v.chain = ChainOf(pfx)
             /\ v.key = IF read = << >> THEN NoKey ELSE read[1].key
BY DEF PfxFile

(* Each form of a container is one that its reader accepts. *)
LEMMA PfxFormIsRead ==
  ASSUME NEW pfx, NEW p, NEW v, v = PfxFile(pfx, p)
  PROVE  /\ v.form \in {"bags", "pair", "trust", "broken"}
         /\ v.form = "bags" => ToPEMReads(pfx, p)
         /\ v.form = "pair" => DecodeChainReads(pfx, p)
         /\ v.form = "trust" => DecodeTrustStoreReads(pfx, p)
         /\ v.form # "broken" => MacVerifies(pfx, p) /\ Len(pfx.safes) \in {1, 2}
<1>1. v.form = IF ToPEMReads(pfx, p) THEN "bags"
               ELSE IF DecodeChainReads(pfx, p) THEN "pair"
               ELSE IF DecodeTrustStoreReads(pfx, p) THEN "trust" ELSE "broken"
  BY DEF PfxFile
<1>2. /\ ToPEMReads(pfx, p) => MacVerifies(pfx, p) /\ Len(pfx.safes) \in {1, 2}
      /\ DecodeChainReads(pfx, p) => MacVerifies(pfx, p) /\ Len(pfx.safes) \in {1, 2}
      /\ DecodeTrustStoreReads(pfx, p) => MacVerifies(pfx, p) /\ Len(pfx.safes) \in {1, 2}
  BY DEF ToPEMReads, DecodeChainReads, DecodeTrustStoreReads, Readable
<1> QED  BY <1>1, <1>2

CertsIn(bags) == {b.cert : b \in {x \in ToSet(bags) : IsCert(x)}}
KeysIn(bags)  == {b.key : b \in {x \in ToSet(bags) : IsKey(x)}}

(* The first reader sees every bag, and the others every certificate and the
   one key. *)
LEMMA BagsFound ==
  ASSUME NEW pfx, NEW p, NEW v, v = PfxFile(pfx, p), v.form = "bags",
         Bags(pfx) \in Seq(SafeBag), \A b \in ToSet(Bags(pfx)) : IsKey(b) => b.key \in Key
  PROVE  /\ v.bags \in Seq(Bag)
         /\ \A i \in DOMAIN v.bags : v.bags[i].kind = "key" => v.bags[i].key \in Key
         /\ PfxCerts(v) = CertsIn(Bags(pfx)) /\ PfxKeys(v) = KeysIn(Bags(pfx))
<1> DEFINE bags == Bags(pfx)
<1>1. ToPEMReads(pfx, p) /\ v.bags = [i \in DOMAIN bags |-> PemBlock(bags[i])]
  BY PfxFormIsRead, PfxFileFields
<1>2. ToSet(bags) = {bags[i] : i \in DOMAIN bags}
  BY DEF ToSet
<1>3. bags \in Seq(SafeBag) /\ \A i \in DOMAIN bags : IsKey(bags[i]) => bags[i].key \in Key
  BY <1>2
<1> HIDE DEF bags
<1>4. \A i \in DOMAIN bags : Converts(bags[i], p)
  BY <1>1, <1>2 DEF ToPEMReads, bags
<1>5. ASSUME NEW i \in DOMAIN bags
      PROVE  /\ IsCert(bags[i]) <=> ~IsKey(bags[i])
             /\ v.bags[i] \in Bag
             /\ v.bags[i].kind = IF IsCert(bags[i]) THEN "cert" ELSE "key"
             /\ v.bags[i].cert = bags[i].cert /\ v.bags[i].key = bags[i].key
  <2> DEFINE b == bags[i]
  <2>1. b \in SafeBag /\ v.bags[i] = PemBlock(b)
    BY <1>1, <1>3
  <2>2. b.kind = "cert" \/ b.kind = "shrouded"
    BY <1>4 DEF Converts
  <2> HIDE DEF b
  <2>3. b.name \in Alias /\ b.cert \in Cert /\ b.key \in Key \cup {NoKey}
    BY <2>1 DEF SafeBag
  <2>4. PemBlock(b) \in Bag
    <3> DEFINE name == IF "friendlyName" \in b.attributes THEN b.name ELSE Empty
               kind == IF IsCert(b) THEN "cert" ELSE "key"
               bad  == b.fault # "none"
    <3>1. name \in Alias /\ kind \in {"cert", "key", "other"} /\ bad \in BOOLEAN
      BY <2>3, AliasFunctions
    <3>2. PemBlock(b) = [kind |-> kind, bad |-> bad, name |-> name, cert |-> b.cert, key |-> b.key]
      BY DEF PemBlock
    <3> HIDE DEF name, kind, bad
    <3> QED  BY <2>3, <3>1, <3>2 DEF Bag
  <2>5. /\ PemBlock(b).kind = IF IsCert(b) THEN "cert" ELSE "key"
        /\ PemBlock(b).cert = b.cert /\ PemBlock(b).key = b.key
    BY DEF PemBlock
  <2>6. IsCert(b) <=> ~IsKey(b)
    BY <2>2 DEF IsCert, IsKey, b
  <2> QED  BY <2>1, <2>4, <2>5, <2>6 DEF b
<1>6. DOMAIN v.bags = DOMAIN bags
  BY <1>1
<1>7. v.bags \in Seq(Bag)
  <2> DEFINE m == Len(bags)
  <2>1. m \in Nat /\ DOMAIN bags = 1 .. m /\ v.bags = [i \in 1 .. m |-> PemBlock(bags[i])]
    BY <1>1, <1>3
  <2>2. \A i \in 1 .. m : PemBlock(bags[i]) \in Bag
    BY <1>1, <1>5, <2>1
  <2> HIDE DEF m
  <2> QED  BY <2>1, <2>2
<1>8. PfxCerts(v) = CertsIn(bags)
  <2>1. PfxCerts(v) = {v.bags[i].cert : i \in {j \in DOMAIN v.bags : v.bags[j].kind = "cert"}}
    BY DEF PfxCerts
  <2> QED  BY <1>2, <1>5, <1>6, <2>1 DEF CertsIn
<1>9. PfxKeys(v) = KeysIn(bags)
  <2>1. PfxKeys(v) = {v.bags[i].key : i \in {j \in DOMAIN v.bags : v.bags[j].kind = "key"}}
    BY DEF PfxKeys
  <2> QED  BY <1>2, <1>5, <1>6, <2>1 DEF KeysIn
<1> QED  BY <1>3, <1>5, <1>6, <1>7, <1>8, <1>9 DEF bags

(* A private key entry that was read holds what the bags hold. *)
LEMMA PairFound ==
  ASSUME NEW pfx, NEW p, NEW v, v = PfxFile(pfx, p), v.form = "pair",
         Bags(pfx) \in Seq(SafeBag), \A b \in ToSet(Bags(pfx)) : IsKey(b) => b.key \in Key
  PROVE  /\ v.key \in Key /\ v.chain \in Seq(Cert) /\ v.chain # << >>
         /\ PfxCerts(v) = CertsIn(Bags(pfx)) /\ PfxKeys(v) = KeysIn(Bags(pfx))
<1> DEFINE bags == Bags(pfx)
           read == BagsOf(pfx, {"cert", "key", "shrouded"})
           held == BagsOf(pfx, {"key", "shrouded"})
           K    == {i \in DOMAIN read : IsKey(read[i])}
<1>1. /\ Cardinality(K) = 1 /\ \E b \in ToSet(read) : IsCert(b)
  BY PfxFormIsRead DEF DecodeChainReads
<1>2. v.chain = ChainOf(pfx) /\ v.key = IF held = << >> THEN NoKey ELSE held[1].key
  BY PfxFileFields
<1>3. /\ read \in Seq(SafeBag) /\ held \in Seq(SafeBag)
      /\ ToSet(read) = {b \in ToSet(bags) : b.kind \in {"cert", "key", "shrouded"}}
      /\ ToSet(held) = {b \in ToSet(bags) : b.kind \in {"key", "shrouded"}}
  BY BagsChosen
<1> HIDE DEF read, held
<1>4. ToSet(read) = {read[i] : i \in DOMAIN read}
  BY DEF ToSet
<1>5. PICK n : K = {n}
  <2>1. IsFiniteSet(K)
    BY <1>3, PositionsFinite
  <2> HIDE DEF K
  <2> QED  BY <1>1, <2>1, FS_Singleton
<1>6. ToSet(held) = {read[n]} /\ IsKey(read[n]) /\ read[n] \in ToSet(bags)
  <2>1. n \in DOMAIN read /\ IsKey(read[n])
    BY <1>5
  <2>2. \A b \in ToSet(read) : IsKey(b) => b = read[n]
    BY <1>4, <1>5
  <2>3. ToSet(held) = {b \in ToSet(read) : IsKey(b)}
    BY <1>3 DEF IsKey
  <2>4. read[n] \in ToSet(read)
    BY <1>4, <2>1
  <2> QED  BY <1>3, <2>1, <2>2, <2>3, <2>4
<1>7. KeysIn(bags) = {read[n].key}
  <2>1. ToSet(held) = {x \in ToSet(bags) : IsKey(x)}
    BY <1>3 DEF IsKey
  <2> QED  BY <1>6, <2>1 DEF KeysIn
<1>8. v.key = read[n].key
  <2>1. held # << >>
    BY <1>6, ToSetOfNone
  <2>2. held[1] \in ToSet(held)
    BY <1>3, <2>1, HeadInRange
  <2> QED  BY <1>2, <1>6, <2>1, <2>2
<1>9. /\ v.chain \in Seq(Cert) /\ ToSet(v.chain) = CertsIn(bags)
  BY <1>2, ChainRead DEF CertsIn
<1>10. v.chain # << >>
  <2>1. CertsIn(bags) # {}
    BY <1>1, <1>3 DEF CertsIn
  <2> QED  BY <1>9, <2>1, ToSetOfNone
<1>11. PfxCerts(v) = ToSet(v.chain) /\ PfxKeys(v) = {v.key}
  BY DEF PfxCerts, PfxKeys
<1> HIDE DEF bags
<1> QED  BY <1>6, <1>7, <1>8, <1>9, <1>10, <1>11 DEF bags

(* A trust store that was read holds what the bags hold. *)
LEMMA TrustFound ==
  ASSUME NEW pfx, NEW p, NEW v, v = PfxFile(pfx, p), v.form = "trust",
         Bags(pfx) \in Seq(SafeBag),
         (\A b \in ToSet(Bags(pfx)) : IsCert(b)) => Len(Bags(pfx)) <= Len(TrustAliases)
  PROVE  /\ v.chain \in Seq(Cert) /\ Len(v.chain) <= Len(TrustAliases)
         /\ PfxCerts(v) = CertsIn(Bags(pfx)) /\ PfxKeys(v) = KeysIn(Bags(pfx))
<1>1. \A b \in ToSet(Bags(pfx)) : IsCert(b)
  BY PfxFormIsRead DEF DecodeTrustStoreReads
<1>2. v.chain = ChainOf(pfx)
  BY PfxFileFields
<1>3. /\ v.chain \in Seq(Cert) /\ Len(v.chain) <= Len(Bags(pfx))
      /\ ToSet(v.chain) = CertsIn(Bags(pfx))
  BY <1>2, ChainRead DEF CertsIn
<1>4. KeysIn(Bags(pfx)) = {}
  BY <1>1 DEF KeysIn, IsCert, IsKey
<1>5. PfxCerts(v) = ToSet(v.chain) /\ PfxKeys(v) = {}
  BY DEF PfxCerts, PfxKeys
<1>6. Len(v.chain) \in Nat /\ Len(Bags(pfx)) \in Nat /\ Len(TrustAliases) \in Nat
  BY <1>3, Pkcs12InputsWellFormed DEF Pkcs12Inputs
<1> QED  BY <1>1, <1>3, <1>4, <1>5, <1>6

(* A container in which every bag of a key has a key, and items that are its
   objects. *)
Holds(pfx, items) ==
  /\ pfx.safes \in Seq(SafeContents)
  /\ Len(pfx.safes) \in {1, 2} =>
       /\ \A b \in ToSet(Bags(pfx)) : IsKey(b) => b.key \in Key
       /\ (\A b \in ToSet(Bags(pfx)) : IsCert(b)) => Len(Bags(pfx)) <= Len(TrustAliases)
       /\ CertsOf(items) = CertsIn(Bags(pfx)) /\ KeysOf(items) = KeysIn(Bags(pfx))

(* A container that holds the items is one that openPKCS12 can be given. *)
LEMMA PfxFits ==
  ASSUME NEW w, w.password \in Password, Holds(w.pfx, w.items),
         NEW v, v = PfxFile(w.pfx, w.password),
         w.genuine => w.items \in Seq(AnItem) /\ PfxBinds(w, v)
  PROVE  FitsPfx(w, v)
<1> DEFINE bags == Bags(w.pfx)
<1>1. /\ v.form \in {"bags", "pair", "trust", "broken"}
      /\ v.form # "broken" => MacVerifies(w.pfx, w.password) /\ Len(w.pfx.safes) \in {1, 2}
  BY PfxFormIsRead
<1>2. v.format = "pkcs12" /\ v.password = w.password /\ v.shangmi = TRUE /\ v.bad = FALSE
  BY DEF PfxFile
<1>3. w.pfx.safes \in Seq(SafeContents)
  BY DEF Holds
<1>4. v.form # "broken" =>
        /\ bags \in Seq(SafeBag) /\ \A b \in ToSet(bags) : IsKey(b) => b.key \in Key
        /\ (\A b \in ToSet(bags) : IsCert(b)) => Len(bags) <= Len(TrustAliases)
        /\ CertsOf(w.items) = CertsIn(bags) /\ KeysOf(w.items) = KeysIn(bags)
  BY <1>1, <1>3, BagsJoined DEF Holds
<1> HIDE DEF bags
<1>5. v.form = "bags" => /\ v.bags \in Seq(Bag)
                         /\ \A i \in DOMAIN v.bags : v.bags[i].kind = "key" => v.bags[i].key \in Key
                         /\ PfxCerts(v) = CertsIn(bags) /\ PfxKeys(v) = KeysIn(bags)
  BY <1>4, BagsFound DEF bags
<1>6. v.form = "pair" => /\ v.key \in Key /\ v.chain \in Seq(Cert) /\ v.chain # << >>
                         /\ PfxCerts(v) = CertsIn(bags) /\ PfxKeys(v) = KeysIn(bags)
  BY <1>4, PairFound DEF bags
<1>7. v.form = "trust" => /\ v.chain \in Seq(Cert) /\ Len(v.chain) <= Len(TrustAliases)
                          /\ PfxCerts(v) = CertsIn(bags) /\ PfxKeys(v) = KeysIn(bags)
  BY <1>4, TrustFound DEF bags
<1>8. IsPkcs12File(v)
  BY <1>1, <1>2, <1>5, <1>6, <1>7 DEF IsPkcs12File
<1>9. v.form # "broken" => CertsOf(w.items) = PfxCerts(v) /\ KeysOf(w.items) = PfxKeys(v)
  BY <1>1, <1>4, <1>5, <1>6, <1>7
<1> QED  BY <1>1, <1>2, <1>8, <1>9 DEF FitsPfx

(* A container of other software, and its items. *)
LEMMA ForeignHolds ==
  ASSUME NEW pfx \in Foreign
  PROVE  Holds(pfx, PfxItems(pfx))
<1> DEFINE bags  == Bags(pfx)
           read  == BagsOf(pfx, {"cert", "key", "shrouded"})
           items == PfxItems(pfx)
<1>1. /\ pfx.safes \in Seq(SafeContents)
      /\ \A i \in DOMAIN bags : IsKey(bags[i]) => bags[i].key \in Key
      /\ Len(bags) <= Len(TrustAliases)
  <2>1. pfx \in PfxPdu
    BY ConvertInputsWellFormed DEF ConvertInputs
  <2>2. pfx.safes \in Seq(SafeContents)
    BY <2>1 DEF PfxPdu
  <2> QED  BY <2>2, ConvertInputsWellFormed DEF ConvertInputs
<1> SUFFICES ASSUME Len(pfx.safes) \in {1, 2}
             PROVE  CertsOf(items) = CertsIn(bags) /\ KeysOf(items) = KeysIn(bags)
  BY <1>1 DEF Holds, ToSet
<1>2. /\ read \in Seq(SafeBag)
      /\ ToSet(read) = {b \in ToSet(bags) : b.kind \in {"cert", "key", "shrouded"}}
  BY <1>1, BagsJoined, BagsChosen
<1>3. \A b \in ToSet(bags) : IsKey(b) => b.key \in Key
  BY <1>1 DEF ToSet
<1>4. /\ DOMAIN items = DOMAIN read
      /\ \A i \in DOMAIN read :
            /\ items[i].key = IF IsKey(read[i]) THEN read[i].key ELSE NoKey
            /\ items[i].chain = IF IsKey(read[i]) THEN << >> ELSE <<read[i].cert>>
  BY DEF PfxItems
<1> HIDE DEF items, read, bags
<1>5. ToSet(read) = {read[i] : i \in DOMAIN read}
  BY DEF ToSet
<1>6. /\ {x \in ToSet(read) : IsKey(x)} = {x \in ToSet(bags) : IsKey(x)}
      /\ {x \in ToSet(read) : ~IsKey(x)} = {x \in ToSet(bags) : IsCert(x)}
  BY <1>2 DEF IsKey, IsCert
<1>7. KeysOf(items) = KeysIn(bags)
  <2>1. \A k \in KeysOf(items) : \E x \in {y \in ToSet(read) : IsKey(y)} : k = x.key
    BY <1>4, <1>5 DEF KeysOf
  <2>2. \A x \in ToSet(bags) : IsKey(x) => x.key # NoKey
    BY <1>3, Sentinels
  <2>3. \A x \in {y \in ToSet(read) : IsKey(y)} : x.key \in KeysOf(items)
    <3>1. \A i \in DOMAIN read : IsKey(read[i]) => read[i].key \in KeysOf(items)
      <4>1. \A i \in DOMAIN read : IsKey(read[i]) => read[i] \in ToSet(bags)
        BY <1>5, <1>6
      <4> QED  BY <1>4, <2>2, <4>1 DEF KeysOf
    <3> QED  BY <1>5, <3>1
  <2> QED  BY <1>6, <2>1, <2>3 DEF KeysIn
<1>8. CertsOf(items) = CertsIn(bags)
  <2>1. \A i \in DOMAIN read : ToSet(items[i].chain) = IF IsKey(read[i]) THEN {} ELSE {read[i].cert}
    <3>1. \A c : ToSet(<<c>>) = {c}
      BY Single
    <3> QED  BY <1>4, <3>1, ToSetOfNone
  <2>2. CertsOf(items) = UNION {ToSet(items[i].chain) : i \in DOMAIN read}
    BY <1>4 DEF CertsOf
  <2>3. ASSUME NEW c \in CertsOf(items)
        PROVE  \E x \in {y \in ToSet(read) : ~IsKey(y)} : c = x.cert
    <3>1. PICK i \in DOMAIN read : c \in ToSet(items[i].chain)
      BY <2>2
    <3>2. ~IsKey(read[i]) /\ c = read[i].cert
      BY <2>1, <3>1
    <3> QED  BY <1>5, <3>2
  <2>4. \A x \in {y \in ToSet(read) : ~IsKey(y)} : x.cert \in CertsOf(items)
    BY <1>5, <2>1, <2>2
  <2> QED  BY <1>6, <2>3, <2>4 DEF CertsIn
<1> QED  BY <1>7, <1>8

(* The bags that the encoders make. *)
IsCertBag(b, c) ==
  /\ b \in SafeBag /\ b.kind = "cert" /\ b.cert = c /\ b.fault = "none"
  /\ "java" \in b.attributes \/ b.attributes \subseteq {"friendlyName", "localKeyID", "csp"}

IsKeyBag(b, k, p) ==
  /\ b \in SafeBag /\ b.kind = "shrouded" /\ b.key = k /\ b.password = p /\ b.fault = "none"
  /\ b.attributes \subseteq {"friendlyName", "localKeyID", "csp"}

(* MakeCertBag makes a bag of the certificate with the attributes it was
   asked for. *)
LEMMA CertBagMade ==
  ASSUME NEW c \in Cert, NEW attributes \in SUBSET Attributes, NEW name \in Alias,
         "java" \in attributes \/ attributes \subseteq {"friendlyName", "localKeyID", "csp"}
  PROVE  IsCertBag(MakeCertBag(c, attributes, name), c)
BY DEF IsCertBag, MakeCertBag, SafeBag, Attributes

(* The key bag that EncodeChain makes holds the key under the password. *)
LEMMA KeyBagMade ==
  ASSUME NEW c \in Cert, NEW k \in Key, NEW p \in Password
  PROVE  IsKeyBag([MakeCertBag(c, {"localKeyID"}, Empty) EXCEPT !.kind = "shrouded", !.key = k,
                                                                !.password = p], k, p)
BY AliasFunctions DEF IsKeyBag, MakeCertBag, SafeBag, Attributes

(* A container in which every safe is open to who knows the password. *)
IsOpenTo(pfx, p) ==
  /\ pfx.known = TRUE /\ p \in Password
  /\ \A s \in ToSet(pfx.safes) : s.known = TRUE /\ s.password \in {NoPassword, p}

(* A safe that is encrypted is opened by the same password. *)
LEMMA SafeMade ==
  ASSUME NEW bags \in Seq(SafeBag), NEW p \in Password \cup {NoPassword}
  PROVE  LET s == Encrypted(bags, p)
         IN  s \in SafeContents /\ s.known = TRUE /\ s.password = p /\ s.bags = bags
BY DEF Encrypted, SafeContents

(* EncodeChain makes two safes: the certificates in their order, then the
   key. *)
LEMMA EncodedChain ==
  ASSUME NEW k \in Key, NEW ch \in Seq(Cert), ch # << >>, NEW p \in Password,
         NEW made, made = EncodeChain(k, ch, p),
         NEW pfx, pfx.known = made.known, pfx.safes = made.safes
  PROVE  /\ IsOpenTo(pfx, p)
         /\ pfx.safes \in Seq(SafeContents) /\ Len(pfx.safes) = 2
         /\ Bags(pfx) \in Seq(SafeBag) /\ Len(Bags(pfx)) = Len(ch) + 1
         /\ \A i \in DOMAIN ch : IsCertBag(Bags(pfx)[i], ch[i])
         /\ IsKeyBag(Bags(pfx)[Len(ch) + 1], k, p)
         /\ \A b \in ToSet(Bags(pfx)) : b.attributes \subseteq {"friendlyName", "localKeyID", "csp"}
<1> DEFINE attributes(i) == IF i = 1 THEN {"localKeyID"} ELSE {}
           bag(i)  == MakeCertBag(ch[i], attributes(i), Empty)
           keyBag  == [bag(1) EXCEPT !.kind = "shrouded", !.key = k, !.password = p]
           first   == [i \in DOMAIN ch |-> bag(i)]
           second  == <<keyBag>>
           one     == Encrypted(first, p)
           two     == Encrypted(second, NoPassword)
           safes   == <<one, two>>
           n       == Len(ch)
<1>1. n \in Nat /\ DOMAIN ch = 1 .. n /\ 1 \in DOMAIN ch /\ \A i \in DOMAIN ch : ch[i] \in Cert
  BY HeadInRange
<1>2. made = [known |-> TRUE, mac |-> p, safes |-> safes]
  BY DEF EncodeChain, Plain
<1>3. pfx.known = TRUE /\ pfx.safes = safes
  BY <1>2
<1>4. \A i \in DOMAIN ch : IsCertBag(bag(i), ch[i]) /\ bag(i).attributes = attributes(i)
  <2>1. /\ \A i \in DOMAIN ch : attributes(i) \in SUBSET {"friendlyName", "localKeyID", "csp"}
    OBVIOUS
  <2>2. {"friendlyName", "localKeyID", "csp"} \subseteq Attributes
    BY DEF Attributes
  <2>3. Empty \in Alias
    BY AliasFunctions
  <2>4. \A i \in DOMAIN ch : bag(i).attributes = attributes(i)
    BY DEF MakeCertBag
  <2> HIDE DEF attributes
  <2> QED  BY <1>1, <2>1, <2>2, <2>3, <2>4, CertBagMade
<1>5. IsKeyBag(keyBag, k, p)
  <2>1. keyBag = [MakeCertBag(ch[1], {"localKeyID"}, Empty) EXCEPT !.kind = "shrouded", !.key = k,
                                                                   !.password = p]
    OBVIOUS
  <2>2. ch[1] \in Cert
    BY <1>1
  <2> HIDE DEF keyBag
  <2> QED  BY <2>1, <2>2, KeyBagMade
<1> HIDE DEF bag, keyBag
<1>6. first \in Seq(SafeBag) /\ Len(first) = n /\ \A i \in DOMAIN ch : first[i] = bag(i)
  <2>1. \A i \in 1 .. n : bag(i) \in SafeBag
    BY <1>1, <1>4 DEF IsCertBag
  <2>2. first = [i \in 1 .. n |-> bag(i)]
    BY <1>1
  <2> HIDE DEF first, n
  <2> QED  BY <1>1, <2>1, <2>2
<1>7. second \in Seq(SafeBag) /\ Len(second) = 1 /\ second[1] = keyBag
  BY <1>5 DEF IsKeyBag
<1> HIDE DEF first, second
<1>8. /\ one \in SafeContents /\ one.known = TRUE /\ one.password = p /\ one.bags = first
      /\ two \in SafeContents /\ two.known = TRUE /\ two.password = NoPassword /\ two.bags = second
  <2>1. first \in Seq(SafeBag) /\ second \in Seq(SafeBag)
    BY <1>6, <1>7
  <2>2. p \in Password \cup {NoPassword} /\ NoPassword \in Password \cup {NoPassword}
    OBVIOUS
  <2>3. one \in SafeContents /\ one.known = TRUE /\ one.password = p /\ one.bags = first
    BY <2>1, <2>2, SafeMade
  <2>4. /\ two \in SafeContents /\ two.known = TRUE /\ two.password = NoPassword
        /\ two.bags = second
    BY <2>1, <2>2, SafeMade
  <2> QED  BY <2>3, <2>4
<1> HIDE DEF one, two
<1>9. /\ safes \in Seq(SafeContents) /\ Len(safes) = 2 /\ safes[1] = one /\ safes[2] = two
      /\ DOMAIN safes = 1 .. 2
  BY <1>8
<1>10. \A s \in ToSet(safes) : s = one \/ s = two
  <2>1. \A i \in 1 .. 2 : i = 1 \/ i = 2
    OBVIOUS
  <2> QED  BY <1>9, <2>1 DEF ToSet
<1> HIDE DEF safes
<1>11. Bags(pfx) = first \o second
  BY <1>3, <1>8, <1>9, BagsJoined
<1>12. IsOpenTo(pfx, p)
  BY <1>3, <1>8, <1>10 DEF IsOpenTo
<1> DEFINE bags == first \o second
<1>13. /\ bags \in Seq(SafeBag) /\ Len(bags) = n + 1
       /\ \A i \in 1 .. n : bags[i] = first[i]
       /\ bags[n + 1] = second[1]
  <2> DEFINE m == Len(first)
  <2>1. first \in Seq(SafeBag) /\ second \in Seq(SafeBag) /\ m = n /\ Len(second) = 1
    BY <1>6, <1>7
  <2>2. bags \in Seq(SafeBag)
    BY <2>1, ConcatRange
  <2>3. /\ DOMAIN first = 1 .. Len(first) /\ Len(first) \in Nat
        /\ DOMAIN bags = 1 .. (Len(first) + Len(second))
        /\ \A j \in 1 .. Len(first) : bags[j] = first[j]
        /\ \A j \in DOMAIN bags : j \notin 1 .. Len(first) =>
              j - Len(first) \in 1 .. Len(second) /\ bags[j] = second[j - Len(first)]
    <3>1. first \in Seq(SafeBag) /\ second \in Seq(SafeBag)
      BY <2>1
    <3> QED  BY <3>1, ConcatAt
  <2> HIDE DEF n, bags
  <2>4. n \in Nat /\ DOMAIN bags = 1 .. (n + 1) /\ n + 1 \notin 1 .. n /\ (n + 1) - n = 1
    BY <1>1, <2>1, <2>3 DEF n
  <2>5. n + 1 \in DOMAIN bags
    BY <2>4
  <2>6. Len(bags) = n + 1
    BY <2>2, <2>4
  <2> QED  BY <2>1, <2>2, <2>3, <2>4, <2>5, <2>6
<1> HIDE DEF bags
<1>14. ASSUME NEW b \in ToSet(bags)
       PROVE  b.attributes \subseteq {"friendlyName", "localKeyID", "csp"}
  <2>1. PICK i \in 1 .. n + 1 : b = bags[i]
    BY <1>1, <1>13 DEF ToSet
  <2>2. CASE i = n + 1
    BY <1>5, <1>7, <1>13, <2>1, <2>2 DEF IsKeyBag
  <2>3. CASE i \in 1 .. n
    BY <1>1, <1>4, <1>6, <1>13, <2>1, <2>3
  <2>4. i = n + 1 \/ i \in 1 .. n
    BY <1>1
  <2> QED  BY <2>2, <2>3, <2>4
<1>15. \A i \in DOMAIN ch : IsCertBag(bags[i], ch[i])
  BY <1>1, <1>4, <1>6, <1>13
<1>16. IsKeyBag(bags[n + 1], k, p)
  BY <1>5, <1>7, <1>13
<1>17. Bags(pfx) = bags
  BY <1>11 DEF bags
<1> QED  BY <1>3, <1>9, <1>12, <1>13, <1>14, <1>15, <1>16, <1>17

AreNamed(cs, names) == \A i \in DOMAIN cs : names[i] \in Alias

(* EncodeTrustStore makes one safe of certificates that are marked as
   trusted. *)
LEMMA EncodedTrust ==
  ASSUME NEW cs \in Seq(Cert), NEW names, AreNamed(cs, names),
         NEW p \in Password, NEW made, made = EncodeTrustStore(names, cs, p),
         NEW pfx, pfx.known = made.known, pfx.safes = made.safes
  PROVE  /\ IsOpenTo(pfx, p)
         /\ pfx.safes \in Seq(SafeContents) /\ Len(pfx.safes) = 1
         /\ Bags(pfx) \in Seq(SafeBag) /\ Len(Bags(pfx)) = Len(cs)
         /\ \A i \in DOMAIN cs :
              /\ IsCertBag(Bags(pfx)[i], cs[i])
              /\ "java" \in Bags(pfx)[i].attributes
<1> DEFINE bag(i) == MakeCertBag(cs[i], {"java", "friendlyName"}, names[i])
           first  == [i \in DOMAIN cs |-> bag(i)]
           one    == Encrypted(first, p)
           safes  == <<one>>
           n      == Len(cs)
<1>1. n \in Nat /\ DOMAIN cs = 1 .. n /\ \A i \in DOMAIN cs : cs[i] \in Cert
  OBVIOUS
<1>2. made = [known |-> TRUE, mac |-> p, safes |-> safes]
  BY DEF EncodeTrustStore
<1>3. pfx.known = TRUE /\ pfx.safes = safes
  BY <1>2
<1>4. \A i \in DOMAIN cs : IsCertBag(bag(i), cs[i]) /\ "java" \in bag(i).attributes
  <2> DEFINE attributes == {"java", "friendlyName"}
  <2>1. attributes \in SUBSET Attributes /\ "java" \in attributes
    BY DEF Attributes
  <2>2. \A i \in DOMAIN cs : bag(i).attributes = attributes
    BY DEF MakeCertBag
  <2> HIDE DEF attributes
  <2>3. \A i \in DOMAIN cs : IsCertBag(MakeCertBag(cs[i], attributes, names[i]), cs[i])
    BY <1>1, <2>1, CertBagMade DEF AreNamed
  <2> QED  BY <2>1, <2>2, <2>3 DEF attributes
<1> HIDE DEF bag
<1>5. first \in Seq(SafeBag) /\ Len(first) = n /\ \A i \in DOMAIN cs : first[i] = bag(i)
  <2>1. \A i \in 1 .. n : bag(i) \in SafeBag
    BY <1>1, <1>4 DEF IsCertBag
  <2>2. first = [i \in 1 .. n |-> bag(i)]
    BY <1>1
  <2> HIDE DEF first, n
  <2> QED  BY <1>1, <2>1, <2>2
<1> HIDE DEF first
<1>6. one \in SafeContents /\ one.known = TRUE /\ one.password = p /\ one.bags = first
  <2>1. p \in Password \cup {NoPassword}
    OBVIOUS
  <2> QED  BY <1>5, <2>1, SafeMade
<1> HIDE DEF one
<1>7. safes \in Seq(SafeContents) /\ Len(safes) = 1 /\ safes[1] = one /\ ToSet(safes) = {one}
  BY <1>6, Single
<1> HIDE DEF safes
<1>8. Bags(pfx) = first
  BY <1>3, <1>6, <1>7, BagsJoined
<1>9. IsOpenTo(pfx, p)
  BY <1>3, <1>6, <1>7 DEF IsOpenTo
<1> QED  BY <1>3, <1>4, <1>5, <1>7, <1>8, <1>9

(* The bags of a key and its chain, and those of certificates. *)
ChainBags(bags, k, ch, p) ==
  /\ bags \in Seq(SafeBag) /\ Len(bags) = Len(ch) + 1
  /\ \A i \in DOMAIN ch : IsCertBag(bags[i], ch[i])
  /\ IsKeyBag(bags[Len(ch) + 1], k, p)
  /\ \A b \in ToSet(bags) : b.attributes \subseteq {"friendlyName", "localKeyID", "csp"}

(* Where the certificates and the key of such bags stand. *)
LEMMA ChainBagsAt ==
  ASSUME NEW ch \in Seq(Cert), NEW bags, NEW k, NEW p, ChainBags(bags, k, ch, p)
  PROVE  LET n == Len(ch)
         IN  /\ n \in Nat /\ DOMAIN bags = 1 .. (n + 1) /\ DOMAIN ch = 1 .. n
             /\ \A i \in DOMAIN bags :
                  \/ /\ i \in 1 .. n /\ i # n + 1 /\ IsCertBag(bags[i], ch[i])
                     /\ IsCert(bags[i]) /\ ~IsKey(bags[i])
                  \/ /\ i = n + 1 /\ IsKeyBag(bags[i], k, p)
                     /\ ~IsCert(bags[i]) /\ IsKey(bags[i])
<1> DEFINE n == Len(ch)
<1>1. n \in Nat /\ DOMAIN ch = 1 .. n /\ DOMAIN bags = 1 .. (n + 1)
  BY DEF ChainBags
<1> HIDE DEF n
<1>2. \A i \in 1 .. (n + 1) : i = n + 1 \/ (i \in 1 .. n /\ i # n + 1)
  BY <1>1
<1>3. \A i \in 1 .. n : IsCertBag(bags[i], ch[i])
  BY <1>1 DEF ChainBags
<1>4. IsKeyBag(bags[n + 1], k, p)
  BY DEF ChainBags, n
<1>5. /\ \A i \in 1 .. n : IsCert(bags[i]) /\ ~IsKey(bags[i])
      /\ ~IsCert(bags[n + 1]) /\ IsKey(bags[n + 1])
  BY <1>3, <1>4 DEF IsCertBag, IsKeyBag, IsCert, IsKey
<1> QED  BY <1>1, <1>2, <1>3, <1>4, <1>5 DEF n

(* Such bags hold the certificates and the key and nothing else. *)
LEMMA ChainBagsHold ==
  ASSUME NEW ch \in Seq(Cert), NEW bags, NEW k, NEW p, ChainBags(bags, k, ch, p)
  PROVE  CertsIn(bags) = ToSet(ch) /\ KeysIn(bags) = {k}
<1> DEFINE n == Len(ch)
<1>1. n \in Nat /\ DOMAIN bags = 1 .. (n + 1) /\ DOMAIN ch = 1 .. n
  BY ChainBagsAt
<1>2. ToSet(bags) = {bags[i] : i \in DOMAIN bags} /\ ToSet(ch) = {ch[i] : i \in DOMAIN ch}
  BY DEF ToSet
<1>3. \A c \in CertsIn(bags) : c \in ToSet(ch)
  BY <1>1, <1>2, ChainBagsAt DEF CertsIn, IsCertBag
<1>4. \A i \in DOMAIN ch : ch[i] \in CertsIn(bags)
  <2>1. \A i \in DOMAIN ch : i \in DOMAIN bags /\ bags[i].cert = ch[i] /\ IsCert(bags[i])
    BY <1>1, ChainBagsAt DEF IsCertBag
  <2> QED  BY <1>2, <2>1 DEF CertsIn
<1>5. \A x \in KeysIn(bags) : x = k
  BY <1>1, <1>2, ChainBagsAt DEF KeysIn, IsKeyBag
<1>6. k \in KeysIn(bags)
  <2>1. n + 1 \in DOMAIN bags /\ bags[n + 1].key = k /\ IsKey(bags[n + 1])
    BY <1>1, ChainBagsAt DEF IsKeyBag
  <2> QED  BY <1>2, <2>1 DEF KeysIn
<1> QED  BY <1>2, <1>3, <1>4, <1>5, <1>6

(* A container of this key and this chain, for who knows the password. *)
IsPairContainer(pfx, k, ch, p) ==
  /\ pfx.mac = p /\ IsOpenTo(pfx, p) /\ Len(pfx.safes) = 2
  /\ ch \in Seq(Cert) /\ ch # << >> /\ ChainBags(Bags(pfx), k, ch, p)

(* DecodeChain accepts the container of a private key entry and finds its key
   and leaf. *)
LEMMA ChainIsRead ==
  ASSUME NEW k, NEW ch, NEW p, NEW pfx, IsPairContainer(pfx, k, ch, p)
  PROVE  /\ DecodeChainReads(pfx, p)
         /\ BagsOf(pfx, {"key", "shrouded"}) # << >>
         /\ BagsOf(pfx, {"key", "shrouded"})[1].key = k
         /\ ChainOf(pfx)[1] = ch[1]
<1> DEFINE bags == Bags(pfx)
           n    == Len(ch)
           read == BagsOf(pfx, {"cert", "key", "shrouded"})
           held == BagsOf(pfx, {"key", "shrouded"})
           only == BagsOf(pfx, {"cert"})
<1>0. /\ pfx.mac = p /\ IsOpenTo(pfx, p) /\ Len(pfx.safes) = 2
      /\ ch \in Seq(Cert) /\ ch # << >> /\ ChainBags(bags, k, ch, p)
  BY DEF IsPairContainer
<1>1. /\ bags \in Seq(SafeBag) /\ n \in Nat /\ DOMAIN bags = 1 .. (n + 1) /\ DOMAIN ch = 1 .. n
      /\ n + 1 \in DOMAIN bags /\ 1 \in DOMAIN ch
  BY <1>0, ChainBagsAt, HeadInRange DEF ChainBags
<1>2. \A i \in DOMAIN bags :
         \/ /\ i \in 1 .. n /\ i # n + 1 /\ IsCertBag(bags[i], ch[i])
            /\ IsCert(bags[i]) /\ ~IsKey(bags[i])
         \/ /\ i = n + 1 /\ IsKeyBag(bags[i], k, p)
            /\ ~IsCert(bags[i]) /\ IsKey(bags[i])
  BY <1>0, ChainBagsAt
<1>3. /\ {i \in DOMAIN bags : bags[i].kind \in {"cert", "key", "shrouded"}} = DOMAIN bags
      /\ {i \in DOMAIN bags : bags[i].kind \in {"key", "shrouded"}} = {n + 1}
      /\ 1 .. n \subseteq {i \in DOMAIN bags : bags[i].kind \in {"cert"}}
  <2>1. \A i \in DOMAIN bags : bags[i].kind \in {"cert", "key", "shrouded"}
    BY <1>2 DEF IsCert, IsKey
  <2>2. \A i \in DOMAIN bags : bags[i].kind \in {"key", "shrouded"} <=> i = n + 1
    BY <1>2 DEF IsCert, IsKey
  <2>3. \A i \in 1 .. n : i \in DOMAIN bags /\ bags[i].kind \in {"cert"}
    BY <1>1, <1>2 DEF IsCertBag
  <2> HIDE DEF bags, n
  <2> QED  BY <1>1, <2>1, <2>2, <2>3
<1>4. read = Pick(bags, DOMAIN bags) /\ held = Pick(bags, {n + 1})
  BY <1>3 DEF BagsOf
<1> HIDE DEF read, held, only
<1>5. read = bags
  <2> HIDE DEF bags
  <2> QED  BY <1>1, <1>4, PickAll
<1>6. Len(held) = 1 /\ held[1] = bags[n + 1] /\ held # << >>
  <2> DEFINE m == n + 1
  <2>1. m \in DOMAIN bags /\ held = Pick(bags, {m})
    BY <1>1, <1>4
  <2> HIDE DEF bags, m
  <2>2. Len(held) = 1 /\ held[1] = bags[m]
    BY <1>1, <2>1, PickOne
  <2> QED  BY <2>2, OneIsSome DEF m
<1>7. held[1].key = k
  BY <1>1, <1>2, <1>6 DEF IsKeyBag
<1>8. ChainOf(pfx)[1] = ch[1]
  <2> DEFINE I == {i \in DOMAIN bags : bags[i].kind \in {"cert"}}
  <2>1. only = Pick(bags, I) /\ I \in SUBSET (DOMAIN bags) /\ 1 .. n \subseteq I
    BY <1>3 DEF BagsOf, only
  <2> HIDE DEF I, bags
  <2>2. only \in Seq(SafeBag) /\ n <= Len(only) /\ \A j \in 1 .. n : only[j] = bags[j]
    BY <1>1, <2>1, PickPrefix, PickProperties
  <2>3. 1 \in DOMAIN only /\ only[1] = bags[1]
    BY <1>1, <2>2
  <2>4. bags[1].cert = ch[1]
    BY <1>1, <1>2 DEF IsCertBag, bags
  <2> QED  BY <2>3, <2>4 DEF ChainOf, only
<1>9. Readable(pfx, p, {1, 2})
  BY <1>0 DEF Readable, MacVerifies, IsOpenTo
<1>10. \A b \in ToSet(bags) : b.fault = "none" /\ (b.kind = "shrouded" => Unshrouds(b, p))
  <2>1. \A i \in DOMAIN bags :
           bags[i].fault = "none" /\ (bags[i].kind = "shrouded" => Unshrouds(bags[i], p))
    BY <1>2 DEF IsCertBag, IsKeyBag, Unshrouds
  <2> QED  BY <2>1 DEF ToSet
<1>11. Cardinality({i \in DOMAIN bags : IsKey(bags[i])}) = 1
  <2>1. {i \in DOMAIN bags : IsKey(bags[i])} = {n + 1}
    BY <1>1, <1>2
  <2> QED  BY <2>1, FS_Singleton
<1>12. \E b \in ToSet(bags) : IsCert(b)
  <2>1. 1 \in DOMAIN bags /\ IsCert(bags[1])
    BY <1>1, <1>2
  <2> QED  BY <2>1 DEF ToSet
<1> HIDE DEF bags
<1>13. DecodeChainReads(pfx, p)
  BY <1>5, <1>9, <1>10, <1>11, <1>12 DEF DecodeChainReads, read
<1> QED  BY <1>6, <1>7, <1>8, <1>13 DEF held

(* The container of a private-key entry binds the key to its certificate. *)
LEMMA ChainBinds ==
  ASSUME NEW w, w.items \in Seq(AnItem), Len(w.items) = 1, w.items[1].key \in Key,
         w.items[1].chain # << >>, Matches(w.items[1].key, w.items[1].chain[1]),
         NEW p, NEW pfx, IsPairContainer(pfx, w.items[1].key, w.items[1].chain, p),
         NEW v, v = PfxFile(pfx, p)
  PROVE  PfxBinds(w, v)
<1> DEFINE item == w.items[1]
           ch   == item.chain
           k    == item.key
           bags == Bags(pfx)
           n    == Len(ch)
<1>1. /\ ch \in Seq(Cert) /\ ch # << >> /\ ChainBags(bags, k, ch, p)
      /\ Matches(k, ch[1]) /\ k \in Key /\ IsPairContainer(pfx, k, ch, p)
  BY DEF IsPairContainer
<1> HIDE DEF item, ch, k
<1>2. /\ DecodeChainReads(pfx, p)
      /\ BagsOf(pfx, {"key", "shrouded"}) # << >>
      /\ BagsOf(pfx, {"key", "shrouded"})[1].key = k
      /\ ChainOf(pfx)[1] = ch[1]
  BY <1>1, ChainIsRead
<1>3. v.form = IF ToPEMReads(pfx, p) THEN "bags" ELSE "pair"
  BY <1>2 DEF PfxFile
<1>4. v.key = k /\ v.chain[1] = ch[1]
  BY <1>2 DEF PfxFile
<1>5. v.bags = [i \in DOMAIN bags |-> PemBlock(bags[i])]
  BY DEF PfxFile
<1>6. /\ bags \in Seq(SafeBag) /\ n \in Nat /\ DOMAIN bags = 1 .. (n + 1) /\ DOMAIN ch = 1 .. n
      /\ n + 1 \in DOMAIN bags /\ 1 \in DOMAIN ch
  BY <1>1, ChainBagsAt, HeadInRange DEF ChainBags
<1>7. \A i \in DOMAIN bags :
         \/ /\ i \in 1 .. n /\ i # n + 1 /\ IsCertBag(bags[i], ch[i])
            /\ IsCert(bags[i]) /\ ~IsKey(bags[i])
         \/ /\ i = n + 1 /\ IsKeyBag(bags[i], k, p)
            /\ ~IsCert(bags[i]) /\ IsKey(bags[i])
  BY <1>1, ChainBagsAt
<1> HIDE DEF bags, n
<1>8. /\ DOMAIN v.bags = DOMAIN bags
      /\ \A i \in DOMAIN bags : /\ v.bags[i].kind = IF IsCert(bags[i]) THEN "cert" ELSE "key"
                                /\ v.bags[i].bad = FALSE
                                /\ v.bags[i].cert = bags[i].cert /\ v.bags[i].key = bags[i].key
  <2>1. \A i \in DOMAIN bags : bags[i].fault = "none"
    BY <1>7 DEF IsCertBag, IsKeyBag
  <2>2. \A i \in DOMAIN bags :
          /\ PemBlock(bags[i]).kind = IF IsCert(bags[i]) THEN "cert" ELSE "key"
          /\ PemBlock(bags[i]).bad = (bags[i].fault # "none")
          /\ PemBlock(bags[i]).cert = bags[i].cert /\ PemBlock(bags[i]).key = bags[i].key
    BY DEF PemBlock
  <2>3. DOMAIN v.bags = DOMAIN bags /\ \A i \in DOMAIN bags : v.bags[i] = PemBlock(bags[i])
    BY <1>5
  <2> QED  BY <2>1, <2>2, <2>3
<1>9. v.bags # << >> /\ v.bags[1].kind = "cert" /\ v.bags[1].cert = ch[1]
  <2>1. 1 \in DOMAIN bags /\ 1 \in 1 .. n /\ 1 # n + 1
    BY <1>6
  <2> QED  BY <1>7, <1>8, <2>1 DEF IsCertBag
<1>10. {i \in DOMAIN v.bags : v.bags[i].kind = "key"} = {n + 1} /\ v.bags[n + 1].key = k
  <2>1. \A i \in DOMAIN v.bags : v.bags[i].kind = "key" <=> i = n + 1
    BY <1>7, <1>8
  <2>2. n + 1 \in DOMAIN v.bags
    BY <1>6, <1>8
  <2> QED  BY <1>6, <1>7, <1>8, <2>1, <2>2 DEF IsKeyBag
<1>11. \E m \in DOMAIN v.bags : {i \in DOMAIN v.bags : v.bags[i].kind = "key"} = {m}
       /\ v.bags[m].key = k
  BY <1>6, <1>8, <1>10
<1>12. k = w.items[1].key /\ ch = w.items[1].chain
  BY DEF k, ch, item
<1> QED  BY <1>1, <1>3, <1>4, <1>8, <1>9, <1>11, <1>12 DEF PfxBinds

(* A container of these certificates, for who knows the password. *)
IsTrustContainer(pfx, cs, p) ==
  /\ pfx.mac = p /\ IsOpenTo(pfx, p) /\ Len(pfx.safes) = 1
  /\ cs \in Seq(Cert) /\ Bags(pfx) \in Seq(SafeBag) /\ Len(Bags(pfx)) = Len(cs)
  /\ \A i \in DOMAIN cs : IsCertBag(Bags(pfx)[i], cs[i]) /\ "java" \in Bags(pfx)[i].attributes

(* Bags of certificates hold these and no key. *)
LEMMA CertBagsHold ==
  ASSUME NEW cs \in Seq(Cert), NEW bags \in Seq(SafeBag), Len(bags) = Len(cs),
         \A i \in DOMAIN cs : IsCertBag(bags[i], cs[i])
  PROVE  /\ DOMAIN bags = DOMAIN cs
         /\ \A i \in DOMAIN bags : IsCert(bags[i]) /\ ~IsKey(bags[i]) /\ bags[i].cert = cs[i]
         /\ CertsIn(bags) = ToSet(cs) /\ KeysIn(bags) = {}
<1>1. DOMAIN bags = DOMAIN cs
  OBVIOUS
<1>2. \A i \in DOMAIN bags : IsCert(bags[i]) /\ ~IsKey(bags[i]) /\ bags[i].cert = cs[i]
  BY <1>1 DEF IsCertBag, IsCert, IsKey
<1>3. ToSet(bags) = {bags[i] : i \in DOMAIN bags} /\ ToSet(cs) = {cs[i] : i \in DOMAIN cs}
  BY DEF ToSet
<1>4. \A c \in CertsIn(bags) : c \in ToSet(cs)
  BY <1>1, <1>2, <1>3 DEF CertsIn
<1>5. \A i \in DOMAIN cs : cs[i] \in CertsIn(bags)
  BY <1>1, <1>2, <1>3 DEF CertsIn
<1>6. KeysIn(bags) = {}
  BY <1>2, <1>3 DEF KeysIn
<1> QED  BY <1>1, <1>2, <1>3, <1>4, <1>5, <1>6

(* Only the reader of trust stores accepts one, and it keeps the order. *)
LEMMA TrustIsRead ==
  ASSUME NEW cs, NEW p, NEW pfx, IsTrustContainer(pfx, cs, p)
  PROVE  /\ ~ToPEMReads(pfx, p) /\ ~DecodeChainReads(pfx, p) /\ DecodeTrustStoreReads(pfx, p)
         /\ ChainOf(pfx) = cs
<1> DEFINE bags == Bags(pfx)
           read == BagsOf(pfx, {"cert", "key", "shrouded"})
           only == BagsOf(pfx, {"cert"})
<1>1. /\ pfx.mac = p /\ IsOpenTo(pfx, p) /\ Len(pfx.safes) = 1
      /\ cs \in Seq(Cert) /\ bags \in Seq(SafeBag) /\ Len(bags) = Len(cs)
      /\ \A i \in DOMAIN cs : IsCertBag(bags[i], cs[i]) /\ "java" \in bags[i].attributes
  BY DEF IsTrustContainer
<1>2. /\ DOMAIN bags = DOMAIN cs
      /\ \A i \in DOMAIN bags : IsCert(bags[i]) /\ ~IsKey(bags[i]) /\ bags[i].cert = cs[i]
  BY <1>1, CertBagsHold
<1>3. /\ {i \in DOMAIN bags : bags[i].kind \in {"cert", "key", "shrouded"}} = DOMAIN bags
      /\ {i \in DOMAIN bags : bags[i].kind \in {"cert"}} = DOMAIN bags
  BY <1>2 DEF IsCert
<1>4. read = Pick(bags, DOMAIN bags) /\ only = Pick(bags, DOMAIN bags)
  BY <1>3 DEF BagsOf
<1> HIDE DEF bags
<1>5. Pick(bags, DOMAIN bags) = bags
  BY <1>1, PickAll
<1>6. read = bags /\ only = bags
  BY <1>4, <1>5
<1> HIDE DEF read, only
<1>7. Cardinality({i \in DOMAIN read : IsKey(read[i])}) = 0
  <2>1. {i \in DOMAIN read : IsKey(read[i])} = {}
    BY <1>2, <1>6
  <2> QED  BY <2>1, FS_EmptySet
<1>8. ~DecodeChainReads(pfx, p)
  BY <1>7 DEF DecodeChainReads, read
<1>9. ~ToPEMReads(pfx, p)
  BY <1>1 DEF ToPEMReads, Readable
<1>10. Readable(pfx, p, {1})
  BY <1>1 DEF Readable, MacVerifies, IsOpenTo
<1>11. \A b \in ToSet(bags) : IsCert(b) /\ "java" \in b.attributes /\ b.fault = "none"
  <2>1. \A i \in DOMAIN bags : IsCert(bags[i]) /\ "java" \in bags[i].attributes
        /\ bags[i].fault = "none"
    BY <1>1, <1>2 DEF IsCertBag
  <2> QED  BY <2>1 DEF ToSet
<1>12. DecodeTrustStoreReads(pfx, p)
  BY <1>10, <1>11 DEF DecodeTrustStoreReads, bags
<1>13. ChainOf(pfx) = cs
  <2>1. ChainOf(pfx) = [i \in DOMAIN only |-> only[i].cert]
    BY DEF ChainOf, only
  <2>2. ChainOf(pfx) = [i \in DOMAIN cs |-> cs[i]]
    BY <1>2, <1>6, <2>1
  <2> QED  BY <1>1, <2>2
<1> QED  BY <1>8, <1>9, <1>12, <1>13

(* The container of certificates keeps them in their order. *)
LEMMA TrustBinds ==
  ASSUME NEW cs, NEW w, Len(w.items) = Len(cs), DOMAIN w.items = DOMAIN cs,
         \A i \in DOMAIN cs : w.items[i].key = NoKey /\ w.items[i].chain[1] = cs[i],
         NEW p, NEW pfx, IsTrustContainer(pfx, cs, p), NEW v, v = PfxFile(pfx, p)
  PROVE  PfxBinds(w, v)
<1>1. /\ ~ToPEMReads(pfx, p) /\ ~DecodeChainReads(pfx, p) /\ DecodeTrustStoreReads(pfx, p)
      /\ ChainOf(pfx) = cs
  BY TrustIsRead
<1>2. v.form = "trust" /\ v.chain = cs
  BY <1>1 DEF PfxFile
<1> QED  BY <1>2 DEF PfxBinds

(* The items of a trust store and of a key store. *)
LEMMA TrustItems ==
  ASSUME References, keys = << >>
  PROVE  LET items == TrustStore.items
         IN  /\ items \in Seq(AnItem) /\ Len(items) = Len(certs) /\ DOMAIN items = DOMAIN certs
             /\ \A i \in DOMAIN certs :
                  items[i].key = NoKey /\ items[i].chain = <<certs[i]>> /\ items[i].alias \in Alias
             /\ CertsOf(items) = ToSet(certs) /\ KeysOf(items) = {}
<1> DEFINE items == TrustStore.items
<1>1. /\ certs \in Seq(Cert) /\ DOMAIN certs = 1 .. Len(certs) /\ Len(certs) \in Nat
      /\ entries \in Seq(Entry) /\ DefaultAlias \in [Cert -> Alias]
  BY RangeOf, AliasFunctions DEF References, TypeOK
<1>2. items = [i \in DOMAIN certs |-> Item(FriendlyName(i), NoKey, <<certs[i]>>)]
  <2> DEFINE names == [i \in DOMAIN certs |-> FriendlyName(i)]
             made  == [i \in DOMAIN certs |-> Item(names[i], NoKey, <<certs[i]>>)]
  <2>1. TrustStore = Accept(made, names, Len(certs), 0, 0, 0)
    BY DEF TrustStore
  <2>2. made = [i \in DOMAIN certs |-> Item(FriendlyName(i), NoKey, <<certs[i]>>)]
    OBVIOUS
  <2> HIDE DEF made, names
  <2>3. items = made
    BY <2>1, AcceptedOrRefused
  <2> QED  BY <2>2, <2>3
<1>3. ASSUME NEW i \in DOMAIN certs
      PROVE  /\ items[i].key = NoKey /\ items[i].chain = <<certs[i]>> /\ items[i].alias \in Alias
             /\ items[i] \in AnItem
  <2>1. certs[i] \in Cert
    BY <1>1
  <2>2. FriendlyName(i) \in Alias
    <3>1. i <= Len(entries) => i \in DOMAIN entries /\ entries[i] \in Entry
      BY <1>1
    <3>2. i <= Len(entries) => entries[i].alias \in Alias
      BY <3>1 DEF Entry
    <3> QED  BY <1>1, <2>1, <3>2 DEF FriendlyName
  <2>3. items[i] = Item(FriendlyName(i), NoKey, <<certs[i]>>)
    BY <1>2, <1>3
  <2> DEFINE one == <<certs[i]>>
  <2>4. one \in Seq(Cert)
    BY <2>1
  <2> HIDE DEF items, one
  <2> QED  BY <2>2, <2>3, <2>4 DEF Item, AnItem, one
<1>4. DOMAIN items = DOMAIN certs
  BY <1>2
<1> HIDE DEF items
<1>5. items \in Seq(AnItem) /\ Len(items) = Len(certs)
  <2>1. items = [i \in 1 .. Len(certs) |-> items[i]]
    BY <1>1, <1>2, <1>4
  <2>2. \A i \in 1 .. Len(certs) : items[i] \in AnItem
    BY <1>1, <1>3
  <2>3. items \in [1 .. Len(certs) -> AnItem]
    BY <2>1, <2>2
  <2> QED  BY <1>1, <1>4, <2>3, LenProperties
<1>6. CertsOf(items) = ToSet(certs) /\ KeysOf(items) = {}
  BY <1>1, <1>3, <1>4, OneCertEach
<1> QED  BY <1>3, <1>4, <1>5, <1>6 DEF items

(* EncodePKCS12 writes a private key entry as one item: its key and its
   chain. *)
LEMMA KeyStoreItems ==
  ASSUME References, NEW i \in DOMAIN entries, entries[i].key # NoKey,
         NEW o, NEW r, r = KeyStore(entries[i], o), r.err = "none"
  PROVE  LET items == r.items
             e     == entries[i]
         IN  /\ items \in Seq(AnItem) /\ Len(items) = 1 /\ items # << >>
             /\ items[1].key = e.key /\ items[1].chain = e.chain
             /\ e.key \in Key /\ e.chain \in Seq(Cert) /\ e.chain # << >>
             /\ Matches(e.key, e.chain[1])
             /\ CertsOf(items) = ToSet(e.chain) /\ KeysOf(items) = {e.key}
<1> DEFINE e == entries[i]
           x == Item(e.alias, e.key, e.chain)
           items == r.items
<1>1. e \in Entry /\ e.key # NoKey
  BY DEF References, TypeOK
<1>2. e.chain # << >> /\ Matches(e.key, e.chain[1]) /\ items = <<x>>
  BY AcceptedOrRefused DEF KeyStore
<1> HIDE DEF e, items
<1>3. e.alias \in Alias /\ e.key \in Key /\ e.chain \in Seq(Cert)
  BY <1>1 DEF Entry
<1>4. x.key = e.key /\ x.chain = e.chain /\ x \in AnItem
  BY <1>3 DEF Item, AnItem
<1> HIDE DEF x
<1>5. items \in Seq(AnItem) /\ Len(items) = 1 /\ items[1] = x /\ DOMAIN items = {1}
  BY <1>2, <1>4
<1>6. items # << >>
  BY <1>5, OneIsSome
<1>7. CertsOf(items) = ToSet(e.chain) /\ KeysOf(items) = {e.key}
  BY <1>1, <1>4, <1>5 DEF CertsOf, KeysOf
<1> QED  BY <1>2, <1>3, <1>4, <1>5, <1>6, <1>7 DEF e, items

(* The container of a key store. *)
LEMMA KeyStoreFits ==
  ASSUME NEW w, w.items \in Seq(AnItem), Len(w.items) = 1, w.items # << >>,
         w.items[1].key \in Key, w.items[1].chain \in Seq(Cert), w.items[1].chain # << >>,
         Matches(w.items[1].key, w.items[1].chain[1]),
         CertsOf(w.items) = ToSet(w.items[1].chain), KeysOf(w.items) = {w.items[1].key},
         w.password \in Password, NEW mac, w.genuine => mac = w.password,
         w.pfx = [Container(w.items, w.password) EXCEPT !.mac = mac],
         NEW v, v = PfxFile(w.pfx, w.password)
  PROVE  FitsPfx(w, v)
<1> DEFINE k  == w.items[1].key
           ch == w.items[1].chain
           p  == w.password
           pfx == w.pfx
           bags == Bags(pfx)
<1>1. k \in Key /\ ch \in Seq(Cert) /\ ch # << >> /\ p \in Password
  OBVIOUS
<1> DEFINE made == EncodeChain(k, ch, p)
<1>2. pfx.known = made.known /\ pfx.safes = made.safes /\ pfx.mac = mac
  <2>1. pfx = [made EXCEPT !.mac = mac]
    BY Sentinels DEF Container
  <2>2. made = [known |-> made.known, mac |-> made.mac, safes |-> made.safes]
    BY DEF EncodeChain
  <2> HIDE DEF made, pfx
  <2> QED  BY <2>1, <2>2
<1>3. w.items[1].key = k /\ w.items[1].chain = ch /\ v = PfxFile(pfx, p) /\ w.pfx = pfx
      /\ w.password = p
      /\ CertsOf(w.items) = ToSet(ch) /\ KeysOf(w.items) = {k} /\ Matches(k, ch[1])
  OBVIOUS
<1>0. made = EncodeChain(k, ch, p)
  OBVIOUS
<1> HIDE DEF k, ch, p, pfx, made
<1>4. IsOpenTo(pfx, p) /\ pfx.safes \in Seq(SafeContents) /\ Len(pfx.safes) = 2
  BY <1>0, <1>1, <1>2, EncodedChain
<1>5. ChainBags(bags, k, ch, p)
  BY <1>0, <1>1, <1>2, EncodedChain DEF ChainBags
<1> HIDE DEF bags
<1>6. CertsIn(bags) = ToSet(ch) /\ KeysIn(bags) = {k}
  BY <1>1, <1>5, ChainBagsHold
<1>7. ~(\A b \in ToSet(bags) : IsCert(b)) /\ \A b \in ToSet(bags) : IsKey(b) => b.key \in Key
  <2>1. \A b \in ToSet(bags) : IsKey(b) => b.key = k
    BY <1>6 DEF KeysIn
  <2>2. PICK b \in ToSet(bags) : IsKey(b) /\ b.key = k
    BY <1>6 DEF KeysIn
  <2>3. ~IsCert(b)
    BY <2>2 DEF IsKey, IsCert
  <2> QED  BY <1>1, <2>1, <2>2, <2>3
<1>8. Holds(pfx, w.items)
  BY <1>3, <1>4, <1>6, <1>7 DEF Holds, bags
<1>9. ASSUME w.genuine
      PROVE  PfxBinds(w, v)
  <2>1. IsPairContainer(pfx, k, ch, p)
    BY <1>1, <1>2, <1>3, <1>4, <1>5, <1>9 DEF IsPairContainer, bags
  <2> QED  BY <1>1, <1>3, <2>1, ChainBinds
<1> QED  BY <1>1, <1>3, <1>8, <1>9, PfxFits

(* Where no key is found there is no bag of one. *)
LEMMA NoKeysIn ==
  ASSUME NEW bags, KeysIn(bags) = {}
  PROVE  \A b \in ToSet(bags) : ~IsKey(b)
<1>1. ASSUME NEW b \in ToSet(bags), IsKey(b)  PROVE b.key \in KeysIn(bags)
  <2>1. b \in {x \in ToSet(bags) : IsKey(x)}
    BY <1>1
  <2> QED  BY <2>1 DEF KeysIn
<1> QED  BY <1>1

(* The container of a trust store. *)
LEMMA TrustStoreFits ==
  ASSUME NEW w, w.items \in Seq(AnItem), NEW cs \in Seq(Cert), NoDuplicates(cs),
         Len(w.items) = Len(cs), DOMAIN w.items = DOMAIN cs,
         \A i \in DOMAIN cs : w.items[i].key = NoKey /\ w.items[i].chain = <<cs[i]>>,
         CertsOf(w.items) = ToSet(cs), KeysOf(w.items) = {},
         w.password \in Password, NEW mac, w.genuine => mac = w.password,
         w.pfx = [Container(w.items, w.password) EXCEPT !.mac = mac],
         NEW v, v = PfxFile(w.pfx, w.password)
  PROVE  FitsPfx(w, v)
<1> DEFINE names == [i \in DOMAIN w.items |-> w.items[i].alias]
           firsts == [i \in DOMAIN w.items |-> w.items[i].chain[1]]
           p  == w.password
           pfx == w.pfx
           bags == Bags(pfx)
<1>1. DOMAIN cs = 1 .. Len(cs) /\ Len(cs) \in Nat
  OBVIOUS
<1>2. AreNamed(cs, names)
  <2>1. \A i \in DOMAIN cs : w.items[i] \in AnItem
    OBVIOUS
  <2> QED  BY <2>1 DEF AnItem, AreNamed
<1>3. firsts = cs
  BY <1>1
<1> DEFINE made == EncodeTrustStore(names, cs, p)
<1>4. pfx.known = made.known /\ pfx.safes = made.safes /\ pfx.mac = mac
  <2>1. ~(w.items # << >> /\ w.items[1].key # NoKey)
    <3>1. w.items # << >> => 1 \in DOMAIN w.items
      OBVIOUS
    <3> QED  BY <3>1
  <2>2. Container(w.items, p) = EncodeTrustStore(names, firsts, p)
    BY <2>1 DEF Container
  <2> HIDE DEF names, firsts
  <2>3. pfx = [made EXCEPT !.mac = mac]
    BY <1>3, <2>2
  <2>4. made = [known |-> made.known, mac |-> made.mac, safes |-> made.safes]
    BY DEF EncodeTrustStore
  <2> HIDE DEF made, pfx
  <2> QED  BY <2>3, <2>4
<1>5. p \in Password /\ w.pfx = pfx /\ v = PfxFile(pfx, p) /\ w.password = p
  OBVIOUS
<1>0. made = EncodeTrustStore(names, cs, p)
  OBVIOUS
<1> HIDE DEF names, firsts, p, pfx, made
<1>6. /\ IsOpenTo(pfx, p)
      /\ pfx.safes \in Seq(SafeContents) /\ Len(pfx.safes) = 1
      /\ bags \in Seq(SafeBag) /\ Len(bags) = Len(cs)
      /\ \A i \in DOMAIN cs : IsCertBag(bags[i], cs[i]) /\ "java" \in bags[i].attributes
  BY <1>0, <1>2, <1>4, <1>5, EncodedTrust
<1>7. CertsIn(bags) = ToSet(cs) /\ KeysIn(bags) = {}
  <2> HIDE DEF bags
  <2> QED  BY <1>6, CertBagsHold
<1>8. Len(bags) <= Len(TrustAliases)
  BY <1>1, <1>6, DistinctIsShort, CertCount, ConvertInputsWellFormed, Pkcs12InputsWellFormed
     DEF ConvertInputs, Pkcs12Inputs
<1>9. Holds(pfx, w.items)
  <2>1. \A b \in ToSet(bags) : ~IsKey(b)
    BY <1>7, NoKeysIn
  <2> QED  BY <1>6, <1>7, <1>8, <2>1 DEF Holds
<1>10. ASSUME w.genuine
       PROVE  PfxBinds(w, v)
  <2>1. IsTrustContainer(pfx, cs, p)
    BY <1>4, <1>5, <1>6, <1>10 DEF IsTrustContainer
  <2>2. \A i \in DOMAIN cs : w.items[i].key = NoKey /\ w.items[i].chain[1] = cs[i]
    OBVIOUS
  <2> QED  BY <1>5, <2>1, <2>2, TrustBinds
<1> QED  BY <1>5, <1>9, <1>10, PfxFits

(* The PKCS12 container that was written is one that its reader restores. *)
LEMMA Pkcs12Fits ==
  ASSUME References, NEW o \in Options, EncodePKCS12(o).err = "none",
         NEW w, w.items = EncodePKCS12(o).items, w.password = o.password,
         NEW mac, w.genuine => mac = o.password,
         w.pfx = [Container(w.items, o.password) EXCEPT !.mac = mac],
         NEW v, v = PfxFile(w.pfx, o.password)
  PROVE  FitsPfx(w, v)
<1> DEFINE selected == KeyEntries(o.alias)
           i == CHOOSE n \in selected : TRUE
<1>0. o.password \in Password
  <2>1. o.password # NoPassword
    BY AcceptedOrRefused DEF EncodePKCS12
  <2> QED  BY <2>1, EncodeConstants
<1>1. CASE selected = {}
  <2>1. EncodePKCS12(o) = TrustStore /\ keys = << >>
    BY <1>1, AcceptedOrRefused DEF EncodePKCS12
  <2>2. certs \in Seq(Cert) /\ NoDuplicates(certs)
    BY DEF References, TypeOK, ObjectsAreUnique
  <2> QED  BY <1>0, <2>1, <2>2, TrustItems, TrustStoreFits
<1>2. CASE selected # {}
  <2>1. EncodePKCS12(o) = KeyStore(entries[i], o)
    BY <1>2, AcceptedOrRefused DEF EncodePKCS12
  <2>2. i \in selected
    BY <1>2
  <2>3. i \in DOMAIN entries /\ entries[i].key # NoKey
    BY <2>2 DEF KeyEntries
  <2> HIDE DEF i, selected
  <2> DEFINE r == EncodePKCS12(o)
  <2>4. r = KeyStore(entries[i], o) /\ r.err = "none" /\ w.items = r.items
    BY <2>1
  <2> HIDE DEF r
  <2>5. /\ w.items \in Seq(AnItem) /\ Len(w.items) = 1 /\ w.items # << >>
        /\ w.items[1].key \in Key /\ w.items[1].chain \in Seq(Cert) /\ w.items[1].chain # << >>
        /\ Matches(w.items[1].key, w.items[1].chain[1])
        /\ CertsOf(w.items) = ToSet(w.items[1].chain) /\ KeysOf(w.items) = {w.items[1].key}
    BY <2>3, <2>4, KeyStoreItems
  <2> QED  BY <1>0, <2>5, KeyStoreFits
<1> QED  BY <1>1, <1>2

-----------------------------------------------------------------------------
(***************************************************************************)
(* What is handed over, by an encoder or by other software.                *)
(***************************************************************************)

(* The file v holds what was written. *)
Carries(w, v) ==
  /\ w.genuine \in BOOLEAN /\ w.format \in Formats
  /\ w.format = "JKS" => FitsJks(w, v)
  /\ w.format \in {"PEM", "DER", "PKCS7"} => FitsPem(w, v)
  /\ w.format = "PKCS12" => FitsPfx(w, v)

(* The call c comes to a file that holds what was written. *)
HandsOver(c, w) == \E v : Reaches(c, w.format, v) /\ Carries(w, v)

(* The output of an encoder, as it is written. *)
IsWritten(w, o) ==
  /\ o \in Options /\ w.genuine \in BOOLEAN /\ w.format \in Formats
  /\ Accepted(w.format, o) /\ w.items = EncodeAs(w.format, o).items /\ w.password = o.password
  /\ w.genuine \/ w.format \in {"JKS", "PKCS12"}

(* What was accepted is what the encoder of the format returned. *)
LEMMA EncodedOnce ==
  ASSUME NEW w, NEW o, IsWritten(w, o)
  PROVE  /\ w.format = "PEM" => EncodePEM(o).err = "none" /\ w.items = EncodePEM(o).items
         /\ w.format = "DER" => EncodeDER(o).err = "none" /\ w.items = EncodeDER(o).items
         /\ w.format = "PKCS7" => EncodePKCS7(o).err = "none" /\ w.items = EncodePKCS7(o).items
         /\ w.format = "PKCS12" => EncodePKCS12(o).err = "none" /\ w.items = EncodePKCS12(o).items
         /\ w.format = "JKS" => EncodeJKS(o).err = "none" /\ w.items = EncodeJKS(o).items
         /\ w.password \in Password \cup {NoPassword} /\ o.encryptKeys \in BOOLEAN
<1> DEFINE r == EncodeAs(w.format, o)
<1>1. r.err = "none" /\ w.items = r.items
  BY DEF IsWritten, Accepted
<1>2. ~(HasUnavailableKeys /\ ~o.allowLossy)
  BY <1>1, AcceptedOrRefused DEF EncodeAs
<1>3. r = CASE w.format = "PEM"    -> EncodePEM(o)
            [] w.format = "DER"    -> EncodeDER(o)
            [] w.format = "PKCS7"  -> EncodePKCS7(o)
            [] w.format = "PKCS12" -> EncodePKCS12(o)
            [] w.format = "JKS"    -> EncodeJKS(o)
  BY <1>2 DEF EncodeAs
<1> HIDE DEF r
<1>4. o \in Options /\ w.password = o.password
  BY DEF IsWritten
<1>5. o.password \in Password \cup {NoPassword} /\ o.encryptKeys \in BOOLEAN
  BY <1>4, EncodeConstants
<1> QED  BY <1>1, <1>3, <1>4, <1>5

(* The text that EncodePEM wrote is handed over to be opened. *)
LEMMA PemHandsOver ==
  ASSUME References, NEW w, NEW o, IsWritten(w, o), w.format = "PEM",
         NEW pfx, NEW p, NEW c \in OpenCalls("PEM", Encoding("PEM", w.items, o, pfx, p))
  PROVE  HandsOver(c, w)
<1> DEFINE blocks == BlocksOf(w.items, o.encryptKeys, o.password)
           v == [format |-> "pem", blocks |-> blocks]
<1>1. /\ EncodePEM(o).err = "none" /\ w.items = EncodePEM(o).items
      /\ w.password \in Password \cup {NoPassword} /\ o.encryptKeys \in BOOLEAN
      /\ w.genuine /\ w.password = o.password
  BY EncodedOnce DEF IsWritten
<1>2. /\ w.items \in Seq(AnItem) /\ w.items # << >> /\ \A i \in DOMAIN w.items : IsPlain(w.items[i])
      /\ o.encryptKeys /\ KeysOf(w.items) # {} => o.password # NoPassword
  BY <1>1, PemPlain
<1>3. v.blocks = blocks /\ v.format = FormatName(w.format)
  BY DEF FormatName
<1> HIDE DEF v
<1>4. FitsPem(w, v)
  <2>1. MayWriteAll(w, o.encryptKeys, o.password)
    BY <1>1, <1>2 DEF MayWriteAll
  <2> QED  BY <1>3, <2>1, BlocksFit
<1>5. Reaches(c, "PEM", v)
  <2> HIDE DEF blocks
  <2> DEFINE first == [format |-> "der", blocks |-> <<blocks[1]>>]
  <2>1. Encoding("PEM", w.items, o, pfx, p) =
          [Binary("der", first) EXCEPT !.label = "pem", !.blocks = blocks]
    BY DEF Encoding, blocks
  <2> HIDE DEF first
  <2> QED  BY <2>1, TextReaches DEF v
<1> QED  BY <1>1, <1>4, <1>5 DEF HandsOver, Carries, Formats

(* So is the one object that EncodeDER wrote. *)
LEMMA DerHandsOver ==
  ASSUME References, NEW w, NEW o, IsWritten(w, o), w.format = "DER",
         NEW pfx, NEW p, NEW c \in OpenCalls("DER", Encoding("DER", w.items, o, pfx, p))
  PROVE  HandsOver(c, w)
<1> DEFINE blocks == BlocksOf(w.items, FALSE, NoPassword)
           v == [format |-> "der", blocks |-> blocks]
<1>1. /\ EncodeDER(o).err = "none" /\ w.items = EncodeDER(o).items
      /\ w.password \in Password \cup {NoPassword} /\ w.genuine
  BY EncodedOnce DEF IsWritten
<1>2. /\ w.items \in Seq(AnItem) /\ w.items # << >> /\ Len(w.items) = 1
      /\ \A i \in DOMAIN w.items : IsPlain(w.items[i])
  BY <1>1, DerPlain
<1>3. v.blocks = blocks /\ v.format = FormatName(w.format)
  BY DEF FormatName
<1>4. FitsPem(w, v)
  <2> HIDE DEF v
  <2>1. MayWriteAll(w, FALSE, NoPassword)
    BY <1>1, <1>2 DEF MayWriteAll
  <2> QED  BY <1>3, <2>1, BlocksFit
<1>5. IsPlainDer(blocks[1])
  <2>1. 1 \in DOMAIN w.items /\ IsPlain(w.items[1])
    BY <1>2
  <2>2. blocks[1] = BlockOf(w.items[1], FALSE, NoPassword)
    BY <2>1 DEF BlocksOf
  <2> HIDE DEF blocks
  <2> QED  BY <2>1, <2>2 DEF BlockOf, NoBlock, IsPlain, IsPlainDer
<1>6. Reaches(c, "DER", v)
  <2>1. Encoding("DER", w.items, o, pfx, p) = Binary(FormatName("DER"), v)
    BY DEF Encoding, FormatName
  <2>2. IsPlainDer(v.blocks[1]) /\ "DER" \in Formats \ {"PEM"}
    BY <1>3, <1>5 DEF Formats
  <2> HIDE DEF v
  <2> QED  BY <2>1, <2>2, BinaryReaches
<1> QED  BY <1>1, <1>4, <1>6 DEF HandsOver, Carries, Formats

(* So are the certificates that EncodePKCS7 wrote. *)
LEMMA Pkcs7HandsOver ==
  ASSUME References, NEW w, NEW o, IsWritten(w, o), w.format = "PKCS7",
         NEW pfx, NEW p, NEW c \in OpenCalls("PKCS7", Encoding("PKCS7", w.items, o, pfx, p))
  PROVE  HandsOver(c, w)
<1> DEFINE v == [format |-> "pkcs7", blocks |-> <<Pkcs7Block(w.items)>>]
<1>1. /\ EncodePKCS7(o).err = "none" /\ w.items = EncodePKCS7(o).items
      /\ w.password \in Password \cup {NoPassword} /\ w.genuine
  BY EncodedOnce DEF IsWritten
<1>2. v.format = "pkcs7" /\ v.blocks = <<Pkcs7Block(w.items)>>
  OBVIOUS
<1>3. Encoding("PKCS7", w.items, o, pfx, p) = Binary(FormatName("PKCS7"), v)
  BY DEF Encoding, FormatName
<1> HIDE DEF v
<1>4. FitsPem(w, v)
  BY <1>1, <1>2, Pkcs7Fits
<1>5. Reaches(c, "PKCS7", v)
  BY <1>3, BinaryReaches DEF Formats
<1> QED  BY <1>1, <1>4, <1>5 DEF HandsOver, Carries, Formats

(* So is the container that EncodePKCS12 wrote, intact or altered. *)
LEMMA Pkcs12HandsOver ==
  ASSUME References, NEW w, NEW o, IsWritten(w, o), w.format = "PKCS12",
         NEW p, w.genuine => p = o.password,
         w.pfx = [Container(w.items, o.password) EXCEPT !.mac = p],
         NEW c \in OpenCalls("PKCS12", Encoding("PKCS12", w.items, o, w.pfx, p))
  PROVE  HandsOver(c, w)
<1> DEFINE v == PfxFile(w.pfx, o.password)
<1>1. /\ EncodePKCS12(o).err = "none" /\ w.items = EncodePKCS12(o).items
      /\ o \in Options /\ w.genuine \in BOOLEAN /\ w.password = o.password
  BY EncodedOnce DEF IsWritten
<1>2. Encoding("PKCS12", w.items, o, w.pfx, p) = Binary(FormatName("PKCS12"), v)
  BY DEF Encoding, FormatName
<1>3. v = PfxFile(w.pfx, o.password)
  OBVIOUS
<1> HIDE DEF v
<1>4. FitsPfx(w, v)
  BY <1>1, <1>3, Pkcs12Fits
<1>5. Reaches(c, "PKCS12", v)
  BY <1>2, BinaryReaches DEF Formats
<1> QED  BY <1>1, <1>4, <1>5 DEF HandsOver, Carries, Formats

(* So is the key store that EncodeJKS wrote, intact or altered. *)
LEMMA JksHandsOver ==
  ASSUME References, NEW w, NEW o, IsWritten(w, o), w.format = "JKS",
         w.keyPasswords = KeyPasswordsOf(w.items, o),
         NEW pfx, NEW p, p = IF w.genuine THEN o.password ELSE Altered,
         NEW c \in OpenCalls("JKS", Encoding("JKS", w.items, o, pfx, p))
  PROVE  HandsOver(c, w)
<1> DEFINE v == JksFile(w.items, o, p)
<1>1. /\ EncodeJKS(o).err = "none" /\ w.items = EncodeJKS(o).items
      /\ o \in Options /\ w.genuine \in BOOLEAN /\ w.password = o.password
  BY EncodedOnce DEF IsWritten
<1>2. Encoding("JKS", w.items, o, pfx, p) = Binary(FormatName("JKS"), v)
  BY DEF Encoding, FormatName
<1>3. v = JksFile(w.items, o, IF w.genuine THEN w.password ELSE Altered)
  BY <1>1
<1> HIDE DEF v
<1>4. FitsJks(w, v)
  BY <1>1, <1>3, JksFits
<1>5. Reaches(c, "JKS", v)
  BY <1>2, BinaryReaches DEF Formats
<1> QED  BY <1>1, <1>4, <1>5 DEF HandsOver, Carries, Formats

(* So is a container that another program wrote. *)
LEMMA ForeignHandsOver ==
  ASSUME NEW pfx \in Foreign, NEW p \in Password,
         NEW w, w = Writing("PKCS12", PfxItems(pfx), pfx, FALSE, p, << >>),
         NEW c \in OpenCalls("PKCS12", Binary("pkcs12", PfxFile(pfx, p)))
  PROVE  HandsOver(c, w)
<1> DEFINE v == PfxFile(pfx, p)
<1>1. /\ w.format = "PKCS12" /\ w.items = PfxItems(pfx) /\ w.pfx = pfx /\ w.genuine = FALSE
      /\ w.password = p
  BY DEF Writing
<1>2. Binary("pkcs12", v) = Binary(FormatName("PKCS12"), v) /\ v = PfxFile(pfx, p)
  BY DEF FormatName
<1> HIDE DEF v
<1>3. FitsPfx(w, v)
  BY <1>1, <1>2, ForeignHolds, PfxFits
<1>4. Reaches(c, "PKCS12", v)
  BY <1>2, BinaryReaches DEF Formats
<1> QED  BY <1>1, <1>3, <1>4 DEF HandsOver, Carries, Formats

(* So every call that hands data over leads to a file that holds them. *)
LEMMA WriteHandsOver ==
  ASSUME References, NEW format \in Formats, NEW o \in Options, NEW genuine \in BOOLEAN,
         Write(format, o, genuine)
  PROVE  HandsOver(call', written')
<1> DEFINE items == EncodeAs(format, o).items
           p     == IF genuine THEN o.password ELSE Altered
           pfx   == IF format = "PKCS12" THEN [Container(items, o.password) EXCEPT !.mac = p]
                    ELSE << >>
           w     == Writing(format, items, pfx, genuine, o.password,
                            IF format = "JKS" THEN KeyPasswordsOf(items, o) ELSE << >>)
           c     == call'
<1>1. Accepted(format, o) /\ (genuine \/ format \in {"JKS", "PKCS12"})
  BY DEF Write
<1>2. written' = w /\ c \in OpenCalls(format, Encoding(format, items, o, pfx, p))
  BY DEF Write, Hand
<1>3. /\ w.format = format /\ w.items = items /\ w.pfx = pfx /\ w.genuine = genuine
      /\ w.password = o.password
      /\ format = "JKS" => w.keyPasswords = KeyPasswordsOf(items, o)
  BY DEF Writing
<1>4. /\ format = "PKCS12" => pfx = [Container(items, o.password) EXCEPT !.mac = p]
      /\ p = IF genuine THEN o.password ELSE Altered
      /\ items = EncodeAs(format, o).items
  OBVIOUS
<1> HIDE DEF w, c, p, pfx, items
<1>5. IsWritten(w, o)
  BY <1>1, <1>3, <1>4 DEF IsWritten
<1>6. /\ (w.genuine => p = o.password) /\ p = IF w.genuine THEN o.password ELSE Altered
      /\ c \in OpenCalls(w.format, Encoding(w.format, w.items, o, w.pfx, p))
  BY <1>2, <1>3, <1>4
<1>7. CASE format = "PEM"
  BY <1>2, <1>3, <1>5, <1>6, <1>7, PemHandsOver DEF c
<1>8. CASE format = "DER"
  BY <1>2, <1>3, <1>5, <1>6, <1>8, DerHandsOver DEF c
<1>9. CASE format = "PKCS7"
  BY <1>2, <1>3, <1>5, <1>6, <1>9, Pkcs7HandsOver DEF c
<1>10. CASE format = "PKCS12"
  <2>1. w.format = "PKCS12" /\ w.pfx = [Container(w.items, o.password) EXCEPT !.mac = p]
    BY <1>3, <1>4, <1>10
  <2> QED  BY <1>2, <1>5, <1>6, <2>1, Pkcs12HandsOver DEF c
<1>11. CASE format = "JKS"
  <2>1. w.format = "JKS" /\ w.keyPasswords = KeyPasswordsOf(w.items, o)
    BY <1>3, <1>11
  <2> QED  BY <1>2, <1>5, <1>6, <2>1, JksHandsOver DEF c
<1> QED  BY <1>7, <1>8, <1>9, <1>10, <1>11 DEF Formats

(* A container from elsewhere is handed over as it is. *)
LEMMA ReceiveHandsOver ==
  ASSUME NEW pfx \in Foreign, NEW p \in Password, Receive(pfx, p)
  PROVE  HandsOver(call', written')
<1> DEFINE w == Writing("PKCS12", PfxItems(pfx), pfx, FALSE, p, << >>)
           c == call'
<1>1. /\ written' = w /\ c \in OpenCalls("PKCS12", Binary("pkcs12", PfxFile(pfx, p)))
      /\ w = Writing("PKCS12", PfxItems(pfx), pfx, FALSE, p, << >>)
  BY DEF Receive, Hand
<1> HIDE DEF w, c
<1>2. HandsOver(c, w)
  BY <1>1, ForeignHandsOver
<1> QED  BY <1>1, <1>2 DEF c

-----------------------------------------------------------------------------
(***************************************************************************)
(* From the store that is encoded to the store that is opened.             *)
(***************************************************************************)

(* The opener of the format restores what was written, as far as it got. *)
JksRestores(w) ==
  /\ IsJks /\ JksAccounts /\ FitsJks(w, file) /\ OptionsOf(w)
  /\ w.genuine => JksRestored

PemRestores(w) ==
  IsPem /\ PemReads /\ FitsPem(w, file) /\ OnePassword(w) /\ PemRestored

PfxRestores(w) ==
  /\ IsPkcs12 /\ Pkcs12Accounts /\ FitsPfx(w, file) /\ OnePassword(w) /\ PfxRestored
  /\ w.genuine => outcome \in {"reading", "ok"}

Restores(w) ==
  /\ w.genuine \in BOOLEAN
  /\ \/ w.format = "JKS" /\ JksRestores(w)
     \/ w.format \in {"PEM", "DER", "PKCS7"} /\ PemRestores(w)
     \/ w.format = "PKCS12" /\ PfxRestores(w)

(* The inductive invariant: an edited store is consistent; what is handed over
   leads an opener to a file that holds what was written; the opener restores
   it; and so the store that Open returns is the one that was written. *)
ConvertSound ==
  /\ stage \in {"editing", "called", "opening", "error", "store"}
  /\ stage \in {"editing", "called"} => Idle
  /\ stage = "editing" => References /\ written = << >>
  /\ stage = "called" => HandsOver(call, written)
  /\ stage = "opening" => Restores(written) /\ Unlimited /\ opened = NoStore
  /\ stage = "error" => written.genuine = FALSE
  /\ stage = "store" => written.genuine \in BOOLEAN /\ Recovers(written, opened)

(* The three properties follow. *)
LEMMA RoundTrips ==
  ASSUME ConvertSound
  PROVE  RoundTripKeepsObjects /\ RoundTripKeepsBindings /\ AlterationIsNoticed
<1>1. stage = "called" => ~IsRefused(call)
  <2>1. ASSUME NEW v, NEW format \in Formats, Reaches(call, format, v)
        PROVE  ~IsRefused(call)
    <3>1. FormatName(format) \in Supported
      BY DEF FormatName, Formats, Supported
    <3> QED  BY <2>1, <3>1 DEF Reaches, IsRefused
  <2> QED  BY <2>1 DEF ConvertSound, HandsOver, Carries
<1>2. ASSUME written # << >>, written.genuine
      PROVE  stage # "error" /\ ~opened.failed
  <2>1. stage \in {"called", "opening", "store"}
    BY <1>2 DEF ConvertSound
  <2>2. stage \in {"called", "opening"} => ~opened.failed
    BY DEF ConvertSound, Idle, NoStore
  <2>3. stage = "store" => ~opened.failed
    BY <1>2 DEF ConvertSound, Recovers
  <2> QED  BY <2>1, <2>2, <2>3
<1>3. stage = "store" => Recovers(written, opened)
  BY DEF ConvertSound
<1> QED  BY <1>1, <1>2, <1>3 DEF RoundTripKeepsObjects, RoundTripKeepsBindings,
                                 AlterationIsNoticed, Recovers

(* The opener of the format starts with the file that was handed over. *)
LEMMA ReopenStarts ==
  ASSUME NEW w, HandsOver(call, w), Idle,
         \/ Dispatch({"jks"}, {[password |-> w.password, keyPasswords |-> w.keyPasswords,
                                container |-> NoPassword, answers |-> [a \in Alias |-> NoPassword],
                                disableDefault |-> TRUE]}, 0)
         \/ Dispatch({"pem", "der", "pkcs7"}, {[password |-> w.password, answers |-> {NoPassword}]}, 1)
         \/ Dispatch({"pkcs12"}, {[password |-> w.password, answers |-> {NoPassword}]}, 0)
  PROVE  /\ stage' = "opening" /\ opened' = NoStore
         /\ Unlimited' /\ Restores(w)'
<1>1. PICK v : Reaches(call, w.format, v) /\ Carries(w, v)
  BY DEF HandsOver
<1>2. /\ stage' = "opening" /\ file' = v
      /\ UNCHANGED <<store, outcome, loadErr, named, certAlias, call, opened>>
      /\ w.format \in Formats /\ w.genuine \in BOOLEAN
  BY <1>1 DEF Dispatch, Reaches, Carries
<1>3. /\ EmptyStore' /\ outcome' = "reading" /\ loadErr' = FALSE /\ named' = << >>
      /\ opened' = NoStore
  BY <1>2 DEF Idle, EmptyStore, store
<1>4. Unlimited'
  BY <1>1, <1>2 DEF Unlimited, Reaches
<1>5. /\ w.format = "JKS" => FitsJks(w, v) /\ v.format = "jks"
      /\ w.format \in {"PEM", "DER", "PKCS7"}
           => FitsPem(w, v) /\ v.format \in {"pem", "der", "pkcs7"}
      /\ w.format = "PKCS12" => FitsPfx(w, v) /\ v.format = "pkcs12"
  BY <1>1 DEF Carries, FitsJks, FitsPem, FitsPfx, IsJksFile, IsPemFile, IsPkcs12File
<1>6. Format(call) = FormatName(w.format)
  BY <1>1 DEF Reaches
<1>7. CASE w.format = "JKS"
  <2>1. Format(call) = "jks"
    BY <1>6, <1>7 DEF FormatName
  <2>2. /\ opts' = [password |-> w.password, keyPasswords |-> w.keyPasswords,
                    container |-> NoPassword, answers |-> [a \in Alias |-> NoPassword],
                    disableDefault |-> TRUE]
        /\ pos' = 0
    BY <2>1 DEF Dispatch
  <2>3. OptionsOf(w)'
    BY <2>2 DEF OptionsOf
  <2>4. IsJks' /\ FitsJks(w, file')
    BY <1>2, <1>5, <1>7 DEF IsJks
  <2>5. IsJksOptions(opts')
    BY <1>5, <1>7, <2>2 DEF IsJksOptions, FitsJks
  <2>6. JksBegins'
    BY <1>3, <2>2, <2>4, <2>5 DEF JksBegins, FitsJks
  <2>7. JksRestored'
    <3>1. readEntries' = << >> /\ readCerts' = << >> /\ readKeys' = << >>
      BY <1>3 DEF EmptyStore
    <3> QED  BY <1>3, <2>2, <3>1, ToSetOfNone DEF JksRestored
  <2>8. JksRestores(w)'
    BY <2>3, <2>4, <2>6, <2>7, OpenersStart DEF JksRestores
  <2> QED  BY <1>2, <1>3, <1>4, <1>7, <2>8 DEF Restores
<1>8. CASE w.format \in {"PEM", "DER", "PKCS7"}
  <2>1. Format(call) \in {"pem", "der", "pkcs7"}
    BY <1>6, <1>8 DEF FormatName
  <2>2. opts' = [password |-> w.password, answers |-> {NoPassword}] /\ pos' = 1
    BY <2>1 DEF Dispatch
  <2>3. OnePassword(w)'
    BY <2>2 DEF OnePassword
  <2>4. IsPem' /\ FitsPem(w, file')
    BY <1>2, <1>5, <1>8 DEF IsPem
  <2>5. IsPemOptions(opts')
    <3>1. w.password \in Password \cup {NoPassword}
      BY <1>5, <1>8 DEF FitsPem
    <3> QED  BY <2>2, <3>1 DEF IsPemOptions
  <2>6. PemBegins'
    BY <1>3, <2>2, <2>4, <2>5 DEF PemBegins, FitsPem
  <2>7. PemRestored'
    BY <1>3 DEF PemRestored, EmptyStore
  <2>8. PemRestores(w)'
    BY <2>3, <2>4, <2>6, <2>7, OpenersStart DEF PemRestores
  <2> QED  BY <1>2, <1>3, <1>4, <1>8, <2>8 DEF Restores
<1>9. CASE w.format = "PKCS12"
  <2>1. Format(call) = "pkcs12"
    BY <1>6, <1>9 DEF FormatName
  <2>2. opts' = [password |-> w.password, answers |-> {NoPassword}] /\ pos' = 0
    BY <2>1 DEF Dispatch
  <2>3. OnePassword(w)'
    BY <2>2 DEF OnePassword
  <2>4. IsPkcs12' /\ FitsPfx(w, file')
    BY <1>2, <1>5, <1>9 DEF IsPkcs12
  <2>5. IsPkcs12Options(opts')
    <3>1. w.password \in Password
      BY <1>5, <1>9 DEF IsPkcs12File, FitsPfx
    <3> QED  BY <2>2, <3>1 DEF IsPkcs12Options
  <2>6. Pkcs12Begins'
    BY <1>3, <2>2, <2>4, <2>5 DEF Pkcs12Begins, FitsPfx
  <2>7. PfxRestored'
    <3>1. readEntries' = << >> /\ readCerts' = << >> /\ readKeys' = << >>
      BY <1>3 DEF EmptyStore
    <3>2. ASSUME file'.form = "bags"
          PROVE  BagsRestored'
      <4>1. file'.bags \in Seq(Bag)
        BY <2>4, <3>2 DEF FitsPfx, IsPkcs12File
      <4>2. \A i \in DOMAIN file'.bags : ~(i < pos')
        BY <2>2, <4>1
      <4>3. CertBagsBefore(pos)' = {}
        BY <4>2 DEF CertBagsBefore
      <4> QED  BY <2>2, <3>1, <4>3, ToSetOfNone DEF BagsRestored
    <3> QED  BY <1>3, <3>1, <3>2 DEF PfxRestored, ReaderRestored
  <2>8. PfxRestores(w)'
    BY <1>3, <2>3, <2>4, <2>6, <2>7, OpenersStart DEF PfxRestores
  <2> QED  BY <1>2, <1>3, <1>4, <1>9, <2>8 DEF Restores
<1> QED  BY <1>2, <1>7, <1>8, <1>9 DEF Formats

(* The opener goes on restoring. *)
LEMMA ReopenGoesOn ==
  ASSUME NEW w, Restores(w), RunJks \/ RunPem \/ RunPkcs12
  PROVE  Restores(w)' /\ UNCHANGED callVars /\ stage = "opening"
<1>1. CASE RunJks
  <2>1. IsJks /\ JksNext /\ UNCHANGED callVars /\ stage = "opening"
    BY <1>1 DEF RunJks
  <2>2. w.format = "JKS" /\ JksRestores(w)
    BY <2>1, OneOpener DEF Restores, PemRestores, PfxRestores
  <2>3. JksAccounts' /\ (w.genuine => JksRestored')
    BY <2>1, <2>2, JksNextAccounts, JksNextRestores DEF JksRestores
  <2>4. file' = file /\ opts' = opts
    BY <2>1 DEF JksNext, Load, ReadTrusted, ReadKeyEntry, SkipOther, RejectItem,
                FinishJks, Advance, Return
  <2>5. JksRestores(w)'
    BY <2>2, <2>3, <2>4 DEF JksRestores, IsJks, OptionsOf
  <2> QED  BY <2>1, <2>2, <2>5 DEF Restores
<1>2. CASE RunPem
  <2>1. IsPem /\ PemNext /\ UNCHANGED callVars /\ stage = "opening"
    BY <1>2 DEF RunPem
  <2>2. w.format \in {"PEM", "DER", "PKCS7"} /\ PemRestores(w)
    BY <2>1, OneOpener DEF Restores, JksRestores, PfxRestores
  <2>3. PemReads' /\ PemRestored'
    BY <2>1, <2>2, PemNextReads, PemNextRestores DEF PemRestores
  <2>4. file' = file /\ opts' = opts
    BY <2>1, <2>2, PemInputStays DEF PemRestores, PemReads
  <2>5. PemRestores(w)'
    BY <2>2, <2>3, <2>4 DEF PemRestores, IsPem, OnePassword
  <2> QED  BY <2>1, <2>2, <2>5 DEF Restores
<1>3. CASE RunPkcs12
  <2>1. IsPkcs12 /\ Pkcs12Next /\ UNCHANGED callVars /\ stage = "opening"
    BY <1>3 DEF RunPkcs12
  <2>2. w.format = "PKCS12" /\ PfxRestores(w)
    BY <2>1, OneOpener DEF Restores, JksRestores, PemRestores
  <2>3. Pkcs12Accounts' /\ PfxRestored'
    BY <2>1, <2>2, Pkcs12NextAccounts, PfxNextRestores DEF PfxRestores
  <2>4. w.genuine => outcome' \in {"reading", "ok"}
    BY <2>1, <2>2, PfxNextSucceeds DEF PfxRestores
  <2>5. file' = file /\ opts' = opts
    BY <2>1 DEF Pkcs12Next, FailDecryption, OpenPair, OpenTrust, OpenBags, ReadCertBag,
                ReadKeyBag, SkipBag, RejectBag, NameKey, NameCertificate, FinishBags,
                Advance, Return
  <2>6. PfxRestores(w)'
    BY <2>2, <2>3, <2>4, <2>5 DEF PfxRestores, IsPkcs12, OnePassword
  <2> QED  BY <2>1, <2>2, <2>6 DEF Restores
<1> QED  BY <1>1, <1>2, <1>3

(* And Open returns what its opener restored. *)
LEMMA ReopenConcludes ==
  ASSUME NEW w, Restores(w), Unlimited, opened = NoStore, Conclude
  PROVE  \/ stage' = "store" /\ Recovers(w, opened')
         \/ stage' = "error" /\ w.genuine = FALSE
<1>1. SoundSoFar
  BY DEF Restores, JksRestores, PemRestores, PfxRestores, JksAccounts, PemReads, Pkcs12Accounts,
         JksReading, PemSound, Pkcs12Sound
<1>2. w.genuine \in BOOLEAN /\ outcome # "reading"
  BY DEF Restores, Conclude
<1>3. CASE Returned
  <2>1. Passes(Result, Normalized(call.limits))
    BY <1>1, EveryStorePasses
  <2>2. stage' = "store" /\ opened' = Opened(Result)
    BY <1>3, <2>1 DEF Conclude
  <2>3. CASE w.format = "JKS" /\ JksRestores(w)
    BY <1>3, <2>2, <2>3, JksRecovers DEF JksRestores
  <2>4. CASE w.format \in {"PEM", "DER", "PKCS7"} /\ PemRestores(w)
    BY <1>3, <2>2, <2>4, PemRecovers DEF PemRestores
  <2>5. CASE w.format = "PKCS12" /\ PfxRestores(w)
    <3>1. w.genuine => outcome = "ok"
      BY <1>2, <2>5 DEF PfxRestores
    <3> QED  BY <1>3, <2>2, <2>5, <3>1, PfxRecovers DEF PfxRestores
  <2> QED  BY <2>3, <2>4, <2>5 DEF Restores
<1>4. CASE ~Returned
  <2>1. stage' = "error"
    BY <1>4 DEF Conclude
  <2>2. outcome # "ok"
    BY <1>4 DEF Returned
  <2>3. w.genuine => outcome \in {"reading", "ok"}
    BY DEF Restores, JksRestores, PemRestores, PfxRestores, JksRestored, PemRestored
  <2> QED  BY <1>2, <2>1, <2>2, <2>3
<1> QED  BY <1>3, <1>4

(* A step that leaves the opener alone leaves what it restored. *)
LEMMA RestoredRests ==
  ASSUME NEW w, Restores(w),
         UNCHANGED <<file, opts, pos, store, outcome, loadErr, named, certAlias>>
  PROVE  Restores(w)'
<1>1. UNCHANGED <<file, opts, pos, readCerts, readKeys, readEntries, readOrigin, outcome, loadErr, named>>
  BY DEF store
<1>2. CASE w.format = "JKS" /\ JksRestores(w)
  <2>1. JksAccounts'
    BY <1>1, <1>2, JksNextAccounts DEF JksRestores, jksVars, store
  <2>2. JksRestores(w)'
    BY <1>1, <1>2, <2>1 DEF JksRestores, IsJks, OptionsOf, JksRestored
  <2> QED  BY <1>2, <2>2 DEF Restores
<1>3. CASE w.format \in {"PEM", "DER", "PKCS7"} /\ PemRestores(w)
  <2>1. PemReads'
    BY <1>1, <1>3, PemNextReads DEF PemRestores, pemVars, store
  <2>2. PemRestores(w)'
    BY <1>1, <1>3, <2>1 DEF PemRestores, IsPem, OnePassword, PemRestored
  <2> QED  BY <1>3, <2>2 DEF Restores
<1>4. CASE w.format = "PKCS12" /\ PfxRestores(w)
  <2>1. Pkcs12Accounts'
    BY <1>1, <1>4, Pkcs12NextAccounts DEF PfxRestores, pkcs12Vars, store
  <2>2. PfxRestored'
    BY <1>1, <1>4 DEF PfxRestores, PfxRestored, BagsRestored, ReaderRestored, CertBagsBefore
  <2>3. PfxRestores(w)'
    BY <1>1, <1>4, <2>1, <2>2 DEF PfxRestores, IsPkcs12, OnePassword
  <2> QED  BY <1>4, <2>3 DEF Restores
<1> QED  BY <1>2, <1>3, <1>4 DEF Restores

(* Every call, and every step of the opener, keeps the invariant. *)
LEMMA ConvertNextSound ==
  ASSUME ConvertSound, [ConvertNext]_convertVars
  PROVE  ConvertSound'
<1>1. CASE Edit
  <2>1. stage = "editing" /\ Next /\ UNCHANGED <<written, openVars>>
    BY <1>1 DEF Edit
  <2>2. References'
    BY <2>1, ReferencesInductive DEF ConvertSound
  <2>3. UNCHANGED <<file, opts, pos, store, outcome, loadErr, named, certAlias, call, stage, opened>>
    BY <2>1 DEF openVars, callVars
  <2>4. Idle'
    BY <2>1, <2>3 DEF ConvertSound, Idle, EmptyStore, store
  <2> QED  BY <2>1, <2>2, <2>3, <2>4 DEF ConvertSound
<1>2. ASSUME NEW format \in Formats, NEW o \in Options, NEW genuine \in BOOLEAN,
             Write(format, o, genuine)
      PROVE  ConvertSound'
  <2>1. stage = "editing" /\ stage' = "called"
        /\ UNCHANGED <<file, opts, pos, store, outcome, loadErr, named, certAlias, opened>>
    BY <1>2 DEF Write, Hand
  <2>2. HandsOver(call', written')
    BY <1>2, <2>1, WriteHandsOver DEF ConvertSound
  <2>3. Idle'
    BY <2>1 DEF ConvertSound, Idle, EmptyStore, store
  <2> QED  BY <2>1, <2>2, <2>3 DEF ConvertSound
<1>3. ASSUME NEW pfx \in Foreign, NEW p \in Password, Receive(pfx, p)
      PROVE  ConvertSound'
  <2>1. stage = "editing" /\ stage' = "called"
        /\ UNCHANGED <<file, opts, pos, store, outcome, loadErr, named, certAlias, opened>>
    BY <1>3 DEF Receive, Hand
  <2>2. HandsOver(call', written')
    BY <1>3, ReceiveHandsOver
  <2>3. Idle'
    BY <2>1 DEF ConvertSound, Idle, EmptyStore, store
  <2> QED  BY <2>1, <2>2, <2>3 DEF ConvertSound
<1>4. ASSUME Reopen
      PROVE  ConvertSound'
  <2>1. written' = written
    BY <1>4 DEF Reopen
  <2> DEFINE w == written
  <2>2. CASE \/ Dispatch({"jks"}, {KeyStoreOptions}, 0)
             \/ Dispatch({"pem", "der", "pkcs7"}, {PasswordOptions}, 1)
             \/ Dispatch({"pkcs12"}, {PasswordOptions}, 0)
    <3>1. stage = "called"
      BY <2>2 DEF Dispatch
    <3>2. HandsOver(call, w) /\ Idle
      BY <3>1 DEF ConvertSound
    <3>3. stage' = "opening" /\ opened' = NoStore /\ Unlimited' /\ Restores(w)'
      BY <2>1, <2>2, <3>2, ReopenStarts DEF KeyStoreOptions, PasswordOptions
    <3> QED  BY <2>1, <3>3 DEF ConvertSound
  <2>3. CASE RunJks \/ RunPem \/ RunPkcs12
    <3>1. stage = "opening"
      BY <2>3 DEF RunJks, RunPem, RunPkcs12
    <3>2. Restores(w) /\ Unlimited /\ opened = NoStore
      BY <3>1 DEF ConvertSound
    <3>3. Restores(w)' /\ UNCHANGED <<call, stage, opened>>
      BY <2>1, <2>3, <3>2, ReopenGoesOn DEF callVars
    <3> QED  BY <2>1, <3>1, <3>2, <3>3 DEF ConvertSound, Unlimited
  <2>4. CASE Conclude
    <3>1. stage = "opening"
      BY <2>4 DEF Conclude
    <3>2. Restores(w) /\ Unlimited /\ opened = NoStore
      BY <3>1 DEF ConvertSound
    <3>3. \/ stage' = "store" /\ Recovers(w, opened')
          \/ stage' = "error" /\ w.genuine = FALSE
      BY <2>4, <3>2, ReopenConcludes
    <3>4. w.genuine \in BOOLEAN
      BY <3>2 DEF Restores
    <3> QED  BY <2>1, <3>3, <3>4 DEF ConvertSound
  <2> QED  BY <1>4, <2>2, <2>3, <2>4 DEF Reopen
<1>5. ASSUME UNCHANGED convertVars
      PROVE  ConvertSound'
  <2>1. /\ UNCHANGED <<file, opts, pos, store, outcome, loadErr, named, certAlias>>
        /\ UNCHANGED <<call, stage, opened, written>> /\ UNCHANGED vars
    BY <1>5 DEF convertVars, source, openVars, callVars
  <2>2. stage = "editing" => References'
    BY <2>1, ReferencesInductive DEF ConvertSound
  <2>3. stage \in {"editing", "called"} => Idle'
    BY <2>1 DEF ConvertSound, Idle, EmptyStore, store
  <2>4. stage = "opening" => Restores(written)'
    <3>1. stage = "opening" => Restores(written)
      BY DEF ConvertSound
    <3> DEFINE w == written
    <3>2. stage = "opening" => Restores(w)'
      BY <2>1, <3>1, RestoredRests
    <3> QED  BY <2>1, <3>2
  <2> QED  BY <2>1, <2>2, <2>3, <2>4 DEF ConvertSound, Unlimited
<1> QED  BY <1>1, <1>2, <1>3, <1>4, <1>5 DEF ConvertNext

(* The invariant holds all the time. *)
LEMMA ConvertInductive == ConvertSpec => []ConvertSound
<1>1. ConvertInit => ConvertSound
  BY ReferencesInductive DEF ConvertInit, ConvertSound
<1>2. ConvertSound /\ [ConvertNext]_convertVars => ConvertSound'
  BY ConvertNextSound
<1> QED  BY <1>1, <1>2, PTL DEF ConvertSpec

(* Whatever calls built the store, in whatever format and with whatever options
   it is encoded: Open, which may be told the format or find it, accepts what
   Encode has written, and returns every object of the output and no other. *)
THEOREM ConvertKeepsObjects == ConvertSpec => []RoundTripKeepsObjects
<1>1. ConvertSound => RoundTripKeepsObjects
  BY RoundTrips
<1> QED  BY <1>1, ConvertInductive, PTL

(* And every key is bound to the certificate that it was written with. *)
THEOREM ConvertKeepsBindings == ConvertSpec => []RoundTripKeepsBindings
<1>1. ConvertSound => RoundTripKeepsBindings
  BY RoundTrips
<1> QED  BY <1>1, ConvertInductive, PTL

(* Of a JKS file that was altered Open takes no key, and it reports an error; a
   PKCS12 container is opened only with the password that its code fits. *)
THEOREM ConvertNoticesAlteration == ConvertSpec => []AlterationIsNoticed
<1>1. ConvertSound => AlterationIsNoticed
  BY RoundTrips
<1> QED  BY <1>1, ConvertInductive, PTL
=============================================================================
