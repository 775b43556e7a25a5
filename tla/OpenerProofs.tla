---------------------------- MODULE OpenerProofs ----------------------------
(***************************************************************************)
(* Every opener hands Open a sound store, whatever the input and the       *)
(* passwords: the assumption that the theorems on the store make of the    *)
(* files that it merges.                                                   *)
(***************************************************************************)
EXTENDS Open, ObjectProofs

(* The objects and entries that were read so far, sound at every step. *)
SoundSoFar == SoundStore(readCerts, readKeys, readEntries, readOrigin)

(* What is sound can be handed to Open. *)
LEMMA SoundResult == SoundSoFar => OpensSoundly
BY SoundIsOpened DEF SoundSoFar, OpensSoundly, Result

(* NewStore returns a sound store. *)
LEMMA EmptySound == EmptyStore => SoundSoFar
<1> SUFFICES ASSUME EmptyStore  PROVE SoundSoFar
  OBVIOUS
<1>1. readCerts = << >> /\ readKeys = << >> /\ readEntries = << >>
  BY DEF EmptyStore
<1>2. NoDuplicates(<< >>)
  BY DEF NoDuplicates
<1>3. readOrigin \in [Cert -> Alias]
  BY AliasFunctions DEF EmptyStore
<1> QED  BY <1>1, <1>2, <1>3 DEF SoundStore, SoundSoFar

(* What addCertificate does to the certificates, for a list of them. *)
LEMMA Imported ==
  ASSUME SoundSoFar, NEW ch \in Seq(Cert), NEW a \in Alias, Import(ch, a)
  PROVE  /\ readCerts' \in Seq(Cert) /\ NoDuplicates(readCerts')
         /\ ToSet(readCerts) \subseteq ToSet(readCerts') /\ ToSet(ch) \subseteq ToSet(readCerts')
         /\ readOrigin' \in [Cert -> Alias]
<1>1. readCerts \in Seq(Cert) /\ NoDuplicates(readCerts) /\ readOrigin \in [Cert -> Alias]
  BY DEF SoundSoFar, SoundStore
<1>2. /\ AppendNew(readCerts, ch) \in Seq(Cert) /\ NoDuplicates(AppendNew(readCerts, ch))
      /\ ToSet(AppendNew(readCerts, ch)) = ToSet(readCerts) \cup ToSet(ch)
  BY <1>1, AppendNewProperties
<1>3. readOrigin' \in [Cert -> Alias]
  BY <1>1 DEF Import
<1> QED  BY <1>2, <1>3 DEF Import

(* What addPrivateKey does to the keys. *)
LEMMA KeyAppended ==
  ASSUME SoundSoFar, NEW k \in Key
  PROVE  /\ AppendNew(readKeys, <<k>>) \in Seq(Key) /\ NoDuplicates(AppendNew(readKeys, <<k>>))
         /\ ToSet(readKeys) \subseteq ToSet(AppendNew(readKeys, <<k>>))
         /\ k \in ToSet(AppendNew(readKeys, <<k>>))
<1> DEFINE t == <<k>>
<1>1. readKeys \in Seq(Key) /\ NoDuplicates(readKeys) /\ t \in Seq(Key)
  BY DEF SoundSoFar, SoundStore
<1>2. /\ AppendNew(readKeys, t) \in Seq(Key) /\ NoDuplicates(AppendNew(readKeys, t))
      /\ ToSet(AppendNew(readKeys, t)) = ToSet(readKeys) \cup ToSet(t)
  <2> HIDE DEF t
  <2> QED  BY <1>1, AppendNewProperties
<1>3. k \in ToSet(<<k>>)
  BY DEF ToSet
<1> QED  BY <1>2, <1>3

(* Certificates that no entry refers to yet keep a store sound. *)
LEMMA ObjectsOnly ==
  ASSUME SoundSoFar,
         readCerts' \in Seq(Cert), NoDuplicates(readCerts'),
         ToSet(readCerts) \subseteq ToSet(readCerts'),
         readKeys' \in Seq(Key), NoDuplicates(readKeys'),
         ToSet(readKeys) \subseteq ToSet(readKeys'),
         readEntries' = readEntries, readOrigin' \in [Cert -> Alias]
  PROVE  SoundSoFar'
<1>1. Sound(readCerts, readKeys) \subseteq Sound(readCerts', readKeys')
  BY SoundMonotonic
<1>2. readEntries \in Seq(Sound(readCerts', readKeys'))
  BY <1>1, SeqMonotonic DEF SoundSoFar, SoundStore
<1> QED  BY <1>2 DEF SoundSoFar, SoundStore

(* The entry of a trusted certificate, or of a key that may be missing, refers
   to its objects only. *)
LEMMA NewEntrySound ==
  ASSUME NEW cs \in Seq(Cert), NEW ks \in Seq(Key), NEW a \in Alias
  PROVE  /\ \A c \in ToSet(cs) : TrustedEntry(a, c) \in Sound(cs, ks)
         /\ \A k \in ToSet(ks) \cup {NoKey}, ch \in Seq(Cert) :
               ToSet(ch) \subseteq ToSet(cs) => KeyEntryOf(a, k, ch) \in Sound(cs, ks)
<1>1. ASSUME NEW c \in ToSet(cs)  PROVE TrustedEntry(a, c) \in Sound(cs, ks)
  <2>1. c \in Cert
    BY RangeOf
  <2>2. <<c>> \in Seq(Cert) /\ ToSet(<<c>>) = {c}
    BY <2>1 DEF ToSet
  <2> QED  BY <2>2, Sentinels DEF TrustedEntry, Sound, Entry, Statuses
<1>2. ASSUME NEW k \in ToSet(ks) \cup {NoKey}, NEW ch \in Seq(Cert),
             ToSet(ch) \subseteq ToSet(cs)
      PROVE  KeyEntryOf(a, k, ch) \in Sound(cs, ks)
  <2>1. k \in Key \cup {NoKey}
    BY RangeOf
  <2>2. KeyEntryOf(a, k, ch) \in Entry
    BY <2>1 DEF KeyEntryOf, Entry, Statuses
  <2>3. /\ KeyEntryOf(a, k, ch).chain = ch /\ KeyEntryOf(a, k, ch).key = k
        /\ KeyEntryOf(a, k, ch).status = "available" <=> k # NoKey
    BY DEF KeyEntryOf
  <2> QED  BY <1>2, <2>2, <2>3 DEF Sound
<1> QED  BY <1>1, <1>2

(* Nothing happens to the store. *)
LEMMA StoreUnchanged ==
  ASSUME SoundSoFar, UNCHANGED store
  PROVE  SoundSoFar'
BY DEF SoundSoFar, SoundStore, store
-----------------------------------------------------------------------------
(***************************************************************************)
(* openJKS.                                                                *)
(***************************************************************************)

(* The inductive invariant of soundness: the input does not change. *)
JksReading == SoundSoFar /\ IsJksFile(file) /\ IsJksOptions(opts)

(* What the file says of the entry that is read. *)
LEMMA JksItemType ==
  ASSUME JksReading, pos \in DOMAIN file.items
  PROVE  /\ CurrentItem.alias \in Alias /\ CurrentItem.chain \in Seq(Cert)
         /\ CurrentItem.key \in Key \cup {NoKey}
         /\ CurrentItem.kind = "trusted"
              => CurrentItem.chain # << >> /\ CurrentItem.chain[1] \in ToSet(CurrentItem.chain)
<1>1. file.items \in Seq(JksItem)
  BY DEF IsJksFile, JksReading
<1>2. CurrentItem \in JksItem
  BY <1>1 DEF CurrentItem
<1>3. CurrentItem.kind = "trusted" => Len(CurrentItem.chain) = 1
  BY DEF IsJksFile, JksReading, CurrentItem
<1> QED  BY <1>2, <1>3, HeadInRange DEF JksItem

(* A trusted certificate is stored before its entry refers to it. *)
LEMMA ReadTrustedSound ==
  ASSUME JksReading, ReadTrusted
  PROVE  SoundSoFar'
<1> DEFINE e == TrustedEntry(CurrentItem.alias, CurrentItem.chain[1])
<1>1. /\ CurrentItem.alias \in Alias /\ CurrentItem.chain \in Seq(Cert)
      /\ CurrentItem.chain[1] \in ToSet(CurrentItem.chain)
  BY JksItemType DEF ReadTrusted, AtItem
<1>2. /\ readCerts' \in Seq(Cert) /\ NoDuplicates(readCerts')
      /\ ToSet(readCerts) \subseteq ToSet(readCerts')
      /\ ToSet(CurrentItem.chain) \subseteq ToSet(readCerts')
      /\ readOrigin' \in [Cert -> Alias]
  BY <1>1, Imported DEF JksReading, ReadTrusted
<1>3. readKeys' = readKeys /\ readKeys \in Seq(Key) /\ NoDuplicates(readKeys)
  BY DEF ReadTrusted, JksReading, SoundSoFar, SoundStore
<1>4. e \in Sound(readCerts', readKeys')
  BY <1>1, <1>2, <1>3, NewEntrySound
<1>5. readEntries' = Append(readEntries, e)
  BY DEF ReadTrusted
<1> HIDE DEF e
<1> QED  BY <1>2, <1>3, <1>4, <1>5, EntryAppended DEF JksReading, SoundSoFar

(* A key entry refers to the key only when the key was unlocked, and then the
   key was stored. *)
LEMMA ReadKeyEntrySound ==
  ASSUME JksReading, ReadKeyEntry
  PROVE  SoundSoFar'
<1>1. /\ CurrentItem.alias \in Alias /\ CurrentItem.chain \in Seq(Cert)
      /\ CurrentItem.key \in Key \cup {NoKey}
  BY JksItemType DEF ReadKeyEntry, AtItem
<1>2. /\ readCerts' \in Seq(Cert) /\ NoDuplicates(readCerts')
      /\ ToSet(readCerts) \subseteq ToSet(readCerts')
      /\ ToSet(CurrentItem.chain) \subseteq ToSet(readCerts')
      /\ readOrigin' \in [Cert -> Alias]
  BY <1>1, Imported DEF JksReading, ReadKeyEntry
<1>3. PICK p \in PasswordsByAlias(opts.keyPasswords, CurrentItem.alias) :
        /\ readKeys' = IF Unlocked(p) = NoKey THEN readKeys ELSE AppendNew(readKeys, <<Unlocked(p)>>)
        /\ readEntries' = EntriesAfter(Unlocked(p))
  BY DEF ReadKeyEntry
<1> DEFINE k == Unlocked(p)
           e == KeyEntryOf(CurrentItem.alias, k, CurrentItem.chain)
<1>4. k \in Key \cup {NoKey}
  BY <1>1 DEF Unlocked
<1>5. readKeys' = IF k = NoKey THEN readKeys ELSE AppendNew(readKeys, <<k>>)
  BY <1>3
<1>6. readEntries' = Append(readEntries, e)
  BY <1>3 DEF EntriesAfter
<1> HIDE DEF k
<1>7. /\ readKeys' \in Seq(Key) /\ NoDuplicates(readKeys')
      /\ ToSet(readKeys) \subseteq ToSet(readKeys') /\ k \in ToSet(readKeys') \cup {NoKey}
  <2>1. CASE k = NoKey
    BY <1>5, <2>1 DEF JksReading, SoundSoFar, SoundStore
  <2>2. CASE k # NoKey
    BY <1>4, <1>5, <2>2, KeyAppended DEF JksReading
  <2> QED  BY <2>1, <2>2
<1>8. e \in Sound(readCerts', readKeys')
  BY <1>1, <1>2, <1>7, NewEntrySound
<1> HIDE DEF e
<1> QED  BY <1>2, <1>6, <1>7, <1>8, EntryAppended DEF JksReading, SoundSoFar

(* No step of openJKS leaves an entry that refers to something else. *)
LEMMA JksNextSound ==
  ASSUME JksReading, [JksNext]_jksVars
  PROVE  JksReading'
<1>1. file' = file /\ opts' = opts
  BY DEF JksNext, Load, ReadTrusted, ReadKeyEntry, SkipOther, RejectItem, FinishJks,
         Advance, Return, jksVars
<1>2. SoundSoFar'
  <2>1. CASE UNCHANGED store
    BY <2>1, StoreUnchanged DEF JksReading
  <2>2. CASE ReadTrusted
    BY <2>2, ReadTrustedSound
  <2>3. CASE ReadKeyEntry
    BY <2>3, ReadKeyEntrySound
  <2>4. CASE Load \/ SkipOther \/ RejectItem \/ FinishJks
    BY <2>1, <2>4 DEF Load, SkipOther, RejectItem, FinishJks, Return
  <2>5. CASE UNCHANGED jksVars
    BY <2>1, <2>5 DEF jksVars
  <2> QED  BY <2>2, <2>3, <2>4, <2>5 DEF JksNext
<1> QED  BY <1>1, <1>2 DEF JksReading

(* openJKS is called, with any file and any options. *)
JksBegins ==
  /\ IsJksFile(file) /\ IsJksOptions(opts)
  /\ pos = 0 /\ EmptyStore /\ outcome = "reading" /\ loadErr = FALSE

LEMMA JksInitBegins == JksInit => JksBegins
BY JksInputsWellFormed DEF JksInputs, JksInit, JksBegins

(* openJKS returns a sound store, with an error or without. *)
THEOREM JksOpensSoundly == JksSpec => []OpensSoundly
<1>1. JksInit => JksReading
  BY EmptySound, JksInitBegins DEF JksBegins, JksReading
<1>2. JksReading /\ [JksNext]_jksVars => JksReading'
  BY JksNextSound
<1>3. JksReading => OpensSoundly
  BY SoundResult DEF JksReading
<1> QED  BY <1>1, <1>2, <1>3, PTL DEF JksSpec

(* The passwords that are tried for a key are known. *)
LEMMA CandidatesAreKnown ==
  ASSUME JksReading, NEW alias \in Alias, NEW p \in PasswordsByAlias(opts.keyPasswords, alias)
  PROVE  KeyCandidates(opts, alias, p) \subseteq Known(alias)
<1>1. p \in {opts.keyPasswords[a] : a \in {b \in Alias : Fold[b] = Fold[alias]}}
  <2> DEFINE similar == {a \in Alias : Fold[a] = Fold[alias] /\ opts.keyPasswords[a] # NoPassword}
  <2>1. \/ p = opts.keyPasswords[alias]
        \/ \E a \in similar : p = opts.keyPasswords[a]
    BY DEF PasswordsByAlias
  <2> QED  BY <2>1
<1>2. StorePassword(opts) \in Known(alias) \cup {NoPassword}
  BY DEF StorePassword, Known
<1> QED  BY <1>1, <1>2 DEF KeyCandidates, Known

(* A key that openJKS unlocks is the item's, from a verified file, and with a
   known password; a locked one is remembered as an error. *)
LEMMA UnlockedKey ==
  ASSUME JksReading, AtItem("key"),
         NEW p \in PasswordsByAlias(opts.keyPasswords, CurrentItem.alias)
  PROVE  Unlocked(p) # NoKey =>
           Unlocked(p) = CurrentItem.key /\ ~loadErr
           /\ CurrentItem.password \in Known(CurrentItem.alias)
<1>1. CurrentItem.alias \in Alias
  BY JksItemType DEF AtItem
<1> QED  BY <1>1, CandidatesAreKnown DEF Unlocked

(* The inductive invariant of what success and the keys mean: as long as
   nothing went wrong the digest is verified and every key before pos is
   there. *)
JksAccounts ==
  /\ JksReading
  /\ pos \in Nat
  /\ pos > 0 /\ ~loadErr => Verified
  /\ KeysWereUnlocked
  /\ ~loadErr =>
       \A i \in EntryItem : i < pos /\ file.items[i].kind = "key" =>
         \E j \in DOMAIN readEntries : /\ readEntries[j].alias = file.items[i].alias
                                       /\ readEntries[j].key = file.items[i].key
                                       /\ readEntries[j].key # NoKey
  /\ outcome = "ok" => ~loadErr /\ pos = Len(file.items) + 1

(* What follows when the store, the input and loadErr stay as they are. *)
LEMMA AccountsUnchanged ==
  ASSUME JksAccounts, JksReading', UNCHANGED <<file, opts, pos, store, loadErr>>,
         outcome' = "ok" => ~loadErr /\ pos = Len(file.items) + 1
  PROVE  JksAccounts'
BY DEF JksAccounts, KeysWereUnlocked, Known, EntryItem, Verified, store

(* The entry of a trusted certificate has no key. *)
LEMMA ReadTrustedAccounts ==
  ASSUME JksAccounts, ReadTrusted, JksReading'
  PROVE  JksAccounts'
<1>1. /\ UNCHANGED <<file, opts, readKeys, loadErr, outcome>> /\ pos' = pos + 1
      /\ readEntries' = Append(readEntries, TrustedEntry(CurrentItem.alias, CurrentItem.chain[1]))
      /\ outcome = "reading" /\ pos \in DOMAIN file.items /\ file.items[pos].kind = "trusted"
  BY DEF ReadTrusted, Advance, AtItem, CurrentItem
<1>2. readEntries \in Seq(Sound(readCerts, readKeys)) /\ file.items \in Seq(JksItem)
  BY DEF JksAccounts, JksReading, SoundSoFar, SoundStore, IsJksFile
<1>3. /\ DOMAIN readEntries' = 1 .. (Len(readEntries) + 1)
      /\ DOMAIN readEntries = 1 .. Len(readEntries)
      /\ Len(readEntries) \in Nat
      /\ \A j \in DOMAIN readEntries : readEntries'[j] = readEntries[j]
      /\ readEntries'[Len(readEntries) + 1].key = NoKey
  BY <1>1, <1>2 DEF TrustedEntry
<1>4. pos \in Nat /\ pos > 0
  BY <1>1, <1>2
<1>5. KeysWereUnlocked'
  <2>1. KeysWereUnlocked /\ EntryItem' = EntryItem /\ Verified' = Verified
    BY <1>1 DEF JksAccounts, EntryItem, Verified
  <2>2. \A a : Known(a)' = Known(a)
    BY <1>1 DEF Known
  <2>3. \A j \in DOMAIN readEntries' :
           readEntries'[j].key # NoKey
             => j \in DOMAIN readEntries /\ readEntries'[j] = readEntries[j]
    BY <1>3
  <2> QED  BY <1>1, <2>1, <2>2, <2>3 DEF KeysWereUnlocked
<1>6. ASSUME ~loadErr, NEW i \in EntryItem, i < pos + 1, file.items[i].kind = "key"
      PROVE  \E j \in DOMAIN readEntries' : /\ readEntries'[j].alias = file.items[i].alias
                                            /\ readEntries'[j].key = file.items[i].key
                                            /\ readEntries'[j].key # NoKey
  <2>1. i \in Nat /\ i # pos
    BY <1>1, <1>2, <1>6 DEF EntryItem
  <2>2. i < pos
    BY <1>4, <1>6, <2>1
  <2> QED  BY <1>3, <1>6, <2>2 DEF JksAccounts
<1> QED  BY <1>1, <1>4, <1>5, <1>6 DEF JksAccounts, EntryItem, Verified

(* A key entry has its key, or loadErr is set for good. *)
LEMMA ReadKeyEntryAccounts ==
  ASSUME JksAccounts, ReadKeyEntry, JksReading'
  PROVE  JksAccounts'
<1>1. PICK p \in PasswordsByAlias(opts.keyPasswords, CurrentItem.alias) :
        /\ readKeys' = IF Unlocked(p) = NoKey THEN readKeys ELSE AppendNew(readKeys, <<Unlocked(p)>>)
        /\ readEntries' = EntriesAfter(Unlocked(p))
        /\ loadErr' = LoadErrAfter(Unlocked(p))
  BY DEF ReadKeyEntry
<1> DEFINE k == Unlocked(p)
           e == KeyEntryOf(CurrentItem.alias, k, CurrentItem.chain)
<1>2. /\ UNCHANGED <<file, opts, outcome>> /\ pos' = pos + 1 /\ outcome = "reading"
      /\ pos \in DOMAIN file.items /\ file.items[pos].kind = "key" /\ AtItem("key")
  BY DEF ReadKeyEntry, Advance, AtItem, CurrentItem
<1>3. /\ readKeys' # readKeys => k # NoKey
      /\ readEntries' = Append(readEntries, e)
      /\ ~loadErr' => ~loadErr /\ k # NoKey
      /\ e.alias = file.items[pos].alias /\ e.key = k
  BY <1>1 DEF EntriesAfter, LoadErrAfter, KeyEntryOf, CurrentItem
<1>4. k # NoKey => /\ k = file.items[pos].key /\ ~loadErr
                   /\ file.items[pos].password \in Known(file.items[pos].alias)
  BY <1>2, UnlockedKey DEF JksAccounts, CurrentItem
<1> HIDE DEF k, e
<1>5. readEntries \in Seq(Sound(readCerts, readKeys)) /\ file.items \in Seq(JksItem)
  BY DEF JksAccounts, JksReading, SoundSoFar, SoundStore, IsJksFile
<1>6. /\ DOMAIN readEntries' = 1 .. (Len(readEntries) + 1)
      /\ DOMAIN readEntries = 1 .. Len(readEntries)
      /\ Len(readEntries) \in Nat
      /\ \A j \in DOMAIN readEntries : readEntries'[j] = readEntries[j]
      /\ readEntries'[Len(readEntries) + 1] = e
  BY <1>3, <1>5
<1>7. pos \in Nat /\ pos > 0 /\ pos \in EntryItem
  BY <1>2, <1>5 DEF EntryItem
<1>8. EntryItem' = EntryItem /\ Verified' = Verified /\ \A a : Known(a)' = Known(a)
  BY <1>2 DEF EntryItem, Verified, Known
<1>9. KeysWereUnlocked'
  <2>1. readKeys' # << >> => Verified
    BY <1>3, <1>4, <1>7 DEF JksAccounts, KeysWereUnlocked
  <2>2. ASSUME NEW j \in DOMAIN readEntries', readEntries'[j].key # NoKey
        PROVE  \E i \in EntryItem : /\ file.items[i].alias = readEntries'[j].alias
                                    /\ file.items[i].key = readEntries'[j].key
                                    /\ file.items[i].password \in Known(readEntries'[j].alias)
    <3>1. CASE j \in DOMAIN readEntries
      BY <1>6, <2>2, <3>1 DEF JksAccounts, KeysWereUnlocked
    <3>2. CASE j = Len(readEntries) + 1
      BY <1>3, <1>4, <1>6, <1>7, <2>2, <3>2
    <3> QED  BY <1>6, <3>1, <3>2
  <2> QED  BY <1>2, <1>8, <2>1, <2>2 DEF KeysWereUnlocked, Known
<1>10. ASSUME ~loadErr', NEW i \in EntryItem, i < pos + 1, file.items[i].kind = "key"
       PROVE  \E j \in DOMAIN readEntries' : /\ readEntries'[j].alias = file.items[i].alias
                                             /\ readEntries'[j].key = file.items[i].key
                                             /\ readEntries'[j].key # NoKey
  <2>1. i \in Nat /\ ~loadErr /\ k # NoKey
    BY <1>3, <1>5, <1>10 DEF EntryItem
  <2>2. CASE i < pos
    BY <1>6, <1>10, <2>1, <2>2 DEF JksAccounts
  <2>3. CASE i = pos
    <3>1. Len(readEntries) + 1 \in DOMAIN readEntries'
      BY <1>6
    <3> QED  BY <1>3, <1>4, <1>6, <2>1, <2>3, <3>1
  <2> QED  BY <1>7, <1>10, <2>1, <2>2, <2>3
<1>11. pos' \in Nat /\ (pos' > 0 /\ ~loadErr' => Verified')
  BY <1>2, <1>3, <1>7, <1>8 DEF JksAccounts
<1> QED  BY <1>2, <1>8, <1>9, <1>10, <1>11 DEF JksAccounts

(* Every step of openJKS keeps the accounts. *)
LEMMA JksNextAccounts ==
  ASSUME JksAccounts, [JksNext]_jksVars
  PROVE  JksAccounts'
<1>1. JksReading'
  BY JksNextSound DEF JksAccounts
<1>2. CASE Load
  <2>1. /\ UNCHANGED <<file, opts, store>> /\ pos' = 1 /\ loadErr' = ~Verified
        /\ outcome' # "ok"
    BY <1>2 DEF Load
  <2>2. \A i \in EntryItem : ~(i < 1)
    <3>1. file.items \in Seq(JksItem)
      BY DEF JksAccounts, JksReading, IsJksFile
    <3> QED  BY <3>1 DEF EntryItem
  <2>3. KeysWereUnlocked' /\ EntryItem' = EntryItem /\ Verified' = Verified
    BY <2>1 DEF JksAccounts, KeysWereUnlocked, Known, EntryItem, Verified, store
  <2> QED  BY <1>1, <2>1, <2>2, <2>3 DEF JksAccounts
<1>3. CASE ReadTrusted
  BY <1>1, <1>3, ReadTrustedAccounts
<1>4. CASE ReadKeyEntry
  BY <1>1, <1>4, ReadKeyEntryAccounts
<1>5. CASE SkipOther
  <2>1. /\ UNCHANGED <<file, opts, store, loadErr, outcome>> /\ pos' = pos + 1
        /\ outcome = "reading" /\ pos \in DOMAIN file.items /\ file.items[pos].kind = "other"
    BY <1>5 DEF SkipOther, Advance, AtItem, CurrentItem
  <2>2. file.items \in Seq(JksItem)
    BY DEF JksAccounts, JksReading, IsJksFile
  <2>3. pos \in Nat /\ pos > 0 /\ \A i \in EntryItem : i < pos + 1 => i < pos
    BY <2>1, <2>2 DEF EntryItem
  <2>4. /\ KeysWereUnlocked' /\ EntryItem' = EntryItem /\ Verified' = Verified
        /\ readEntries' = readEntries
    BY <2>1 DEF JksAccounts, KeysWereUnlocked, Known, EntryItem, Verified, store
  <2> QED  BY <1>1, <2>1, <2>3, <2>4 DEF JksAccounts
<1>6. CASE RejectItem
  BY <1>1, <1>6, AccountsUnchanged DEF RejectItem, Return
<1>7. CASE FinishJks
  BY <1>1, <1>7, AccountsUnchanged DEF FinishJks, Return
<1>8. CASE UNCHANGED jksVars
  BY <1>1, <1>8, AccountsUnchanged DEF jksVars, JksAccounts
<1> QED  BY <1>2, <1>3, <1>4, <1>5, <1>6, <1>7, <1>8 DEF JksNext

(* The accounts hold from the start. *)
LEMMA JksStarts ==
  ASSUME JksBegins
  PROVE  JksAccounts
<1>1. readEntries = << >> /\ readKeys = << >> /\ pos = 0 /\ outcome = "reading"
  BY DEF JksBegins, EmptyStore
<1>2. JksReading
  BY EmptySound DEF JksBegins, JksReading
<1>3. \A i \in EntryItem : ~(i < 0)
  <2>1. file.items \in Seq(JksItem)
    BY <1>2 DEF JksReading, IsJksFile
  <2> QED  BY <2>1 DEF EntryItem
<1> QED  BY <1>1, <1>2, <1>3 DEF JksAccounts, KeysWereUnlocked

(* The accounts hold all the time. *)
LEMMA JksInductive == JksSpec => []JksAccounts
<1>1. JksInit => JksAccounts
  BY JksStarts, JksInitBegins
<1>2. JksAccounts /\ [JksNext]_jksVars => JksAccounts'
  BY JksNextAccounts
<1> QED  BY <1>1, <1>2, PTL DEF JksSpec

(* Success means that nothing went wrong up to the last item. *)
LEMMA AccountsAreComplete ==
  ASSUME JksAccounts
  PROVE  SuccessIsComplete
<1> SUFFICES ASSUME JksAccounts, outcome = "ok"
             PROVE  Verified /\ \A i \in EntryItem : i < pos
  BY DEF JksAccounts, SuccessIsComplete
<1>1. file.items \in Seq(JksItem) /\ pos = Len(file.items) + 1 /\ ~loadErr
  BY DEF JksAccounts, JksReading, IsJksFile
<1>2. pos > 0 /\ \A i \in DOMAIN file.items : i < pos
  BY <1>1
<1> QED  BY <1>1, <1>2 DEF JksAccounts, EntryItem

(* openJKS reports success only when the digest was verified and every key of
   the file is in the store. *)
THEOREM JksSuccessIsComplete == JksSpec => []SuccessIsComplete
<1>1. JksAccounts => SuccessIsComplete
  BY AccountsAreComplete
<1> QED  BY <1>1, JksInductive, PTL

(* openJKS takes no key from an unverified file and none without a password
   that was given or is the default. *)
THEOREM JksKeysNeedPasswords == JksSpec => []KeysNeedPasswords
<1>1. JksAccounts => KeysNeedPasswords
  BY DEF JksAccounts, KeysNeedPasswords
<1> QED  BY <1>1, JksInductive, PTL

(* The items that have been read and give an entry. *)
EntryItemsRead == {i \in EntryItem : i < pos}

(* The entries are those of these items, in order. *)
EntriesOfItems ==
  LET read == Pick(file.items, EntryItemsRead)
  IN  /\ Len(readEntries) = Len(read)
      /\ \A i \in DOMAIN read : /\ readEntries[i].alias = read[i].alias
                                /\ readEntries[i].chain = read[i].chain

(* The inductive invariant of the entries: openJKS returns a store only when
   it has read all items. *)
JksEntries ==
  /\ JksReading
  /\ pos \in Nat
  /\ EntriesOfItems
  /\ Returned => pos = Len(file.items) + 1

(* The items of a file, and those of them that have been read. *)
LEMMA ItemsRead ==
  ASSUME JksReading
  PROVE  /\ file.items \in Seq(JksItem)
         /\ DOMAIN file.items = 1 .. Len(file.items) /\ Len(file.items) \in Nat
         /\ EntryItemsRead \in SUBSET (DOMAIN file.items)
<1>1. file.items \in Seq(JksItem)
  BY DEF IsJksFile, JksReading
<1> QED  BY <1>1 DEF EntryItemsRead, EntryItem

(* An entry is added for the item that is read. *)
LEMMA EntryRead ==
  ASSUME JksEntries, JksReading', pos \in DOMAIN file.items, CurrentItem.kind # "other", Advance,
         outcome = "reading",
         NEW e, readEntries' = Append(readEntries, e), e.alias = CurrentItem.alias,
         e.chain = CurrentItem.chain
  PROVE  JksEntries'
<1> DEFINE read == Pick(file.items, EntryItemsRead)
<1>1. /\ file.items \in Seq(JksItem)
      /\ DOMAIN file.items = 1 .. Len(file.items) /\ Len(file.items) \in Nat
      /\ EntryItemsRead \in SUBSET (DOMAIN file.items)
  BY ItemsRead DEF JksEntries
<1>2. file' = file /\ pos' = pos + 1 /\ outcome' = "reading"
  BY DEF Advance
<1>3. EntryItemsRead' = EntryItemsRead \cup {pos}
  <2>1. EntryItem' = EntryItem /\ pos \in EntryItem
    BY <1>2 DEF EntryItem, CurrentItem
  <2>2. \A i \in EntryItem : i < pos + 1 <=> i < pos \/ i = pos
    BY <1>1 DEF EntryItem
  <2> QED  BY <1>2, <2>1, <2>2 DEF EntryItemsRead
<1>4. Pick(file.items, EntryItemsRead \cup {pos}) = Append(read, CurrentItem)
  BY <1>1, PickNext DEF EntryItemsRead, CurrentItem
<1>5. read \in Seq(JksItem) /\ Len(read) \in Nat
  BY <1>1, PickProperties
<1>6. /\ Len(readEntries) = Len(read)
      /\ \A i \in 1 .. Len(read) : /\ readEntries[i].alias = read[i].alias
                                   /\ readEntries[i].chain = read[i].chain
  BY <1>5 DEF JksEntries, EntriesOfItems
<1>7. readEntries \in Seq(Sound(readCerts, readKeys))
  BY DEF JksEntries, JksReading, SoundSoFar, SoundStore
<1> HIDE DEF read
<1> DEFINE new == Append(read, CurrentItem)
<1>8. Len(readEntries') = Len(new) /\ DOMAIN new = 1 .. (Len(read) + 1)
  BY <1>5, <1>6, <1>7
<1>9. ASSUME NEW i \in 1 .. (Len(read) + 1)
      PROVE  readEntries'[i].alias = new[i].alias /\ readEntries'[i].chain = new[i].chain
  <2>1. CASE i \in 1 .. Len(read)
    <3>1. readEntries'[i] = readEntries[i] /\ new[i] = read[i]
      BY <1>5, <1>6, <1>7, <2>1
    <3> QED  BY <1>6, <2>1, <3>1
  <2>2. CASE i = Len(read) + 1
    <3>1. readEntries'[i] = e /\ new[i] = CurrentItem
      BY <1>5, <1>6, <1>7, <2>2
    <3> QED  BY <3>1
  <2>3. i \in 1 .. Len(read) \/ i = Len(read) + 1
    BY <1>5
  <2> QED  BY <2>1, <2>2, <2>3
<1>10. Pick(file.items, EntryItemsRead)' = new
  BY <1>2, <1>3, <1>4
<1> HIDE DEF new
<1>11. EntriesOfItems'
  BY <1>8, <1>9, <1>10 DEF EntriesOfItems
<1> QED  BY <1>2, <1>11 DEF JksEntries, Returned

(* Nothing is added when no item that gives an entry is passed. *)
LEMMA EntriesStay ==
  ASSUME JksEntries, JksReading', UNCHANGED <<file, readEntries>>, pos' \in Nat,
         EntryItemsRead' = EntryItemsRead,
         Returned' => pos' = Len(file.items) + 1
  PROVE  JksEntries'
BY DEF JksEntries, EntriesOfItems

(* Every item that gives an entry gives one, locked or not. *)
LEMMA JksNextEntries ==
  ASSUME JksEntries, [JksNext]_jksVars
  PROVE  JksEntries'
<1>1. JksReading'
  BY JksNextSound DEF JksEntries
<1>2. /\ DOMAIN file.items = 1 .. Len(file.items) /\ Len(file.items) \in Nat /\ pos \in Nat
      /\ EntryItem \subseteq DOMAIN file.items
  BY ItemsRead DEF JksEntries, EntryItem
<1>3. CASE Load
  <2>1. /\ UNCHANGED <<file, readEntries>> /\ pos = 0 /\ pos' = 1
        /\ outcome' \in {"refused", "reading"}
    BY <1>3 DEF Load, store
  <2>2. EntryItemsRead' = EntryItemsRead
    <3>1. EntryItem' = EntryItem /\ \A i \in EntryItem : ~(i < 1) /\ ~(i < 0)
      BY <1>2, <2>1 DEF EntryItem
    <3> QED  BY <2>1, <3>1 DEF EntryItemsRead
  <2> QED  BY <1>1, <2>1, <2>2, EntriesStay DEF Returned
<1>4. CASE ReadTrusted
  <2> DEFINE e == TrustedEntry(CurrentItem.alias, CurrentItem.chain[1])
  <2>1. /\ pos \in DOMAIN file.items /\ CurrentItem.kind = "trusted" /\ Advance
        /\ outcome = "reading"
        /\ readEntries' = Append(readEntries, e)
    BY <1>4 DEF ReadTrusted, AtItem
  <2>2. <<CurrentItem.chain[1]>> = CurrentItem.chain
    <3>1. CurrentItem.chain \in Seq(Cert)
      BY <2>1, JksItemType DEF JksEntries
    <3>2. Len(CurrentItem.chain) = 1
      BY <2>1 DEF IsJksFile, JksEntries, JksReading, CurrentItem
    <3> QED  BY <3>1, <3>2
  <2>3. e.alias = CurrentItem.alias /\ e.chain = CurrentItem.chain
    BY <2>2 DEF TrustedEntry
  <2> HIDE DEF e
  <2> QED  BY <1>1, <2>1, <2>3, EntryRead
<1>5. CASE ReadKeyEntry
  <2>1. PICK k : readEntries' = Append(readEntries, KeyEntryOf(CurrentItem.alias, k, CurrentItem.chain))
    BY <1>5 DEF ReadKeyEntry, EntriesAfter
  <2>2. pos \in DOMAIN file.items /\ CurrentItem.kind = "key" /\ Advance /\ outcome = "reading"
    BY <1>5 DEF ReadKeyEntry, AtItem
  <2> DEFINE e == KeyEntryOf(CurrentItem.alias, k, CurrentItem.chain)
  <2>3. e.alias = CurrentItem.alias /\ e.chain = CurrentItem.chain
    BY DEF KeyEntryOf
  <2>4. readEntries' = Append(readEntries, e)
    BY <2>1
  <2> HIDE DEF e
  <2> QED  BY <1>1, <2>2, <2>3, <2>4, EntryRead
<1>6. CASE SkipOther
  <2>1. /\ UNCHANGED <<file, readEntries, outcome>> /\ pos' = pos + 1 /\ outcome = "reading"
        /\ pos \notin EntryItem
    BY <1>6 DEF SkipOther, AtItem, CurrentItem, Advance, EntryItem, store
  <2>2. EntryItemsRead' = EntryItemsRead
    <3>1. EntryItem' = EntryItem /\ \A i \in EntryItem : i < pos + 1 <=> i < pos
      BY <1>2, <2>1 DEF EntryItem
    <3> QED  BY <2>1, <3>1 DEF EntryItemsRead
  <2> QED  BY <1>1, <1>2, <2>1, <2>2, EntriesStay DEF Returned
<1>7. CASE RejectItem \/ FinishJks
  <2>1. UNCHANGED <<file, pos, readEntries>> /\ (Returned' => pos = Len(file.items) + 1)
    BY <1>7 DEF RejectItem, FinishJks, Return, Returned, store
  <2>2. EntryItemsRead' = EntryItemsRead
    BY <2>1 DEF EntryItemsRead, EntryItem
  <2> QED  BY <1>1, <1>2, <2>1, <2>2, EntriesStay
<1>8. CASE UNCHANGED jksVars
  <2>1. UNCHANGED <<file, pos, readEntries, outcome>>
    BY <1>8 DEF jksVars, store
  <2>2. EntryItemsRead' = EntryItemsRead /\ Returned' = Returned
    BY <2>1 DEF EntryItemsRead, EntryItem, Returned
  <2> QED  BY <1>1, <1>2, <2>1, <2>2, EntriesStay DEF JksEntries
<1> QED  BY <1>3, <1>4, <1>5, <1>6, <1>7, <1>8 DEF JksNext

(* There is no entry before there is an item. *)
LEMMA EntriesStart ==
  ASSUME JksBegins
  PROVE  JksEntries
<1>1. JksReading /\ pos = 0 /\ readEntries = << >> /\ outcome = "reading"
  BY EmptySound DEF JksBegins, JksReading, EmptyStore
<1>2. EntryItemsRead = {}
  <2>1. \A i \in EntryItem : ~(i < 0)
    BY <1>1, ItemsRead DEF EntryItem
  <2> QED  BY <1>1, <2>1 DEF EntryItemsRead
<1>3. Len(Pick(file.items, EntryItemsRead)) = 0 /\ Pick(file.items, EntryItemsRead) \in Seq(JksItem)
  BY <1>1, <1>2, ItemsRead, PickProperties, FS_EmptySet
<1>4. EntriesOfItems
  BY <1>1, <1>3 DEF EntriesOfItems
<1> QED  BY <1>1, <1>4 DEF JksEntries, Returned

(* The items that have been read are all there are in the end. *)
LEMMA EntriesAreAll ==
  ASSUME JksEntries
  PROVE  PasswordsLoseNoEntry
<1> SUFFICES ASSUME JksEntries, Returned  PROVE EntryItemsRead = EntryItem
  BY DEF JksEntries, EntriesOfItems, PasswordsLoseNoEntry
<1>1. \A i \in EntryItem : i < pos
  BY ItemsRead DEF JksEntries, EntryItem
<1> QED  BY <1>1 DEF EntryItemsRead

(* A wrong password costs no certificate and no alias: the store that openJKS
   returns has an entry for every item, in order, with its chain. *)
THEOREM JksPasswordsLoseNoEntry == JksSpec => []PasswordsLoseNoEntry
<1>1. JksInit => JksEntries
  BY EntriesStart, JksInitBegins
<1>2. JksEntries /\ [JksNext]_jksVars => JksEntries'
  BY JksNextEntries
<1>3. JksEntries => PasswordsLoseNoEntry
  BY EntriesAreAll
<1> QED  BY <1>1, <1>2, <1>3, PTL DEF JksSpec
-----------------------------------------------------------------------------
(***************************************************************************)
(* openPEM, openDER and openPKCS7, which make no entries.                  *)
(***************************************************************************)

(* The inductive invariant of soundness: the input does not change, and a file
   that is not PEM is read as one block. *)
PemSound ==
  /\ SoundSoFar
  /\ IsPemFile(file) /\ IsPemOptions(opts)
  /\ file.format # "pem" => pos = 1

(* A block, when there is one at all, has the type of blocks. *)
LEMMA BlockType ==
  ASSUME PemSound, pos \in DOMAIN file.blocks
  PROVE  CurrentBlock.chain \in Seq(Cert) /\ CurrentBlock.key \in Key \cup {NoKey}
<1>1. file.blocks \in Seq(Block)
  BY DEF IsPemFile, PemSound
<1>2. CurrentBlock \in Block
  BY <1>1 DEF CurrentBlock
<1> QED  BY <1>2 DEF Block

(* Certificates are stored, whatever they are for. *)
LEMMA ImportBlockSound ==
  ASSUME SoundSoFar, NEW ch \in Seq(Cert), ImportBlock(ch), UNCHANGED <<readKeys, readEntries>>
  PROVE  SoundSoFar'
<1>1. /\ readCerts' \in Seq(Cert) /\ NoDuplicates(readCerts')
      /\ ToSet(readCerts) \subseteq ToSet(readCerts') /\ readOrigin' \in [Cert -> Alias]
  BY AliasFunctions, Imported DEF ImportBlock
<1>2. readKeys' \in Seq(Key) /\ NoDuplicates(readKeys')
      /\ ToSet(readKeys) \subseteq ToSet(readKeys')
  BY DEF SoundSoFar, SoundStore
<1> QED  BY <1>1, <1>2, ObjectsOnly

(* A key is stored, or the store stays as it is. *)
LEMMA TakeKeySound ==
  ASSUME SoundSoFar, NEW result, NEW k \in Key \cup {NoKey}, TakeKeyOr(result, k)
  PROVE  SoundSoFar'
<1>1. CASE k = NoKey
  <2>1. UNCHANGED store
    BY <1>1 DEF TakeKeyOr, FailKey, Return
  <2> QED  BY <2>1, StoreUnchanged
<1>2. CASE k # NoKey
  <2>1. readKeys' = AppendNew(readKeys, <<k>>) /\ UNCHANGED <<readCerts, readEntries, readOrigin>>
    BY <1>2 DEF TakeKeyOr
  <2>2. readKeys' \in Seq(Key) /\ NoDuplicates(readKeys')
        /\ ToSet(readKeys) \subseteq ToSet(readKeys')
    BY <1>2, <2>1, KeyAppended
  <2>3. /\ readCerts' \in Seq(Cert) /\ NoDuplicates(readCerts')
        /\ ToSet(readCerts) \subseteq ToSet(readCerts') /\ readOrigin' \in [Cert -> Alias]
    BY <2>1 DEF SoundSoFar, SoundStore
  <2> QED  BY <2>1, <2>2, <2>3, ObjectsOnly
<1> QED  BY <1>1, <1>2

(* A key block, encrypted or not. *)
LEMMA ReadKeySound ==
  ASSUME PemSound, ReadKey \/ ReadEncryptedKey
  PROVE  SoundSoFar'
<1>1. /\ SoundSoFar
      /\ \A p : Parsed(CurrentBlock, p) \in Key \cup {NoKey}
  BY BlockType DEF ReadKey, ReadEncryptedKey, AtBlock, Parsed, PemSound
<1>2. ASSUME NEW result, FailKey(result)  PROVE SoundSoFar'
  BY <1>1, <1>2, StoreUnchanged DEF FailKey, Return
<1>3. CASE ReadKey
  <2>1. PICK p \in Answers :
          IF CurrentBlock.labelled /\ IsError(p) THEN FailKey(PasswordError(p))
          ELSE TakeKeyOr(KeyFailure(CurrentBlock), Parsed(CurrentBlock, p))
    BY <1>3 DEF ReadKey
  <2> QED  BY <1>1, <1>2, <2>1, TakeKeySound
<1>4. CASE ReadEncryptedKey
  <2>1. PICK p \in Answers :
          IF IsError(p) THEN FailKey(PasswordError(p))
          ELSE \E d \in Decryptions(CurrentBlock, p) :
                 IF d = "error" THEN FailKey("password")
                 ELSE TakeKeyOr(KeyFailure(CurrentBlock),
                                IF d = "key" THEN Parsed(CurrentBlock, p) ELSE NoKey)
    BY <1>4 DEF ReadEncryptedKey
  <2>2. CASE IsError(p)
    BY <1>2, <2>1, <2>2
  <2>3. CASE ~IsError(p)
    <3>1. PICK d \in Decryptions(CurrentBlock, p) :
            IF d = "error" THEN FailKey("password")
            ELSE TakeKeyOr(KeyFailure(CurrentBlock),
                           IF d = "key" THEN Parsed(CurrentBlock, p) ELSE NoKey)
      BY <2>1, <2>3
    <3>2. (IF d = "key" THEN Parsed(CurrentBlock, p) ELSE NoKey) \in Key \cup {NoKey}
      BY <1>1
    <3> QED  BY <1>1, <1>2, <3>1, <3>2, TakeKeySound
  <2> QED  BY <2>2, <2>3
<1> QED  BY <1>3, <1>4

(* openPKCS7 removes the repetitions of a container before they are merged. *)
LEMMA ReadPkcs7Sound ==
  ASSUME PemSound, ReadPkcs7
  PROVE  SoundSoFar'
<1>1. CurrentBlock.chain \in Seq(Cert) /\ << >> \in Seq(Cert)
  BY BlockType DEF ReadPkcs7, AtBlock
<1>2. AppendNew(<< >>, CurrentBlock.chain) \in Seq(Cert)
  BY <1>1, AppendNewSeq
<1> QED  BY <1>2, ImportBlockSound DEF ReadPkcs7, PemSound

(* A file that is not PEM has a block to read. *)
LEMMA OneBlock ==
  ASSUME PemSound, file.format # "pem"
  PROVE  pos \in DOMAIN file.blocks
<1>1. file.blocks \in Seq(Block) /\ Len(file.blocks) = 1
  BY DEF IsPemFile, PemSound
<1> QED  BY <1>1 DEF PemSound

(* openDER stores certificates or one key. *)
LEMMA OpenDerSound ==
  ASSUME PemSound, OpenDer
  PROVE  SoundSoFar'
<1> DEFINE isCerts == CurrentBlock.kind = "certs" /\ ~CurrentBlock.bad
           derKey(p) == IF CurrentBlock.kind = "key" THEN Parsed(CurrentBlock, p) ELSE NoKey
<1>1. PICK p \in Answers :
        /\ IF isCerts THEN ImportBlock(CurrentBlock.chain) ELSE UNCHANGED <<readCerts, readOrigin>>
        /\ readKeys' = IF isCerts \/ derKey(p) = NoKey THEN readKeys
                   ELSE AppendNew(readKeys, <<derKey(p)>>)
  BY DEF OpenDer
<1>2. CurrentBlock.chain \in Seq(Cert) /\ CurrentBlock.key \in Key \cup {NoKey}
  BY OneBlock, BlockType DEF OpenDer
<1> DEFINE k == derKey(p)
<1>3. k \in Key \cup {NoKey}
  BY <1>2 DEF Parsed
<1>4. SoundSoFar /\ readEntries' = readEntries
  BY DEF PemSound, OpenDer
<1>5. CASE isCerts
  BY <1>1, <1>2, <1>4, <1>5, ImportBlockSound
<1>6. CASE ~isCerts /\ k = NoKey
  <2>1. UNCHANGED store
    BY <1>1, <1>4, <1>6 DEF store
  <2> QED  BY <1>4, <2>1, StoreUnchanged
<1>7. CASE ~isCerts /\ k # NoKey
  <2>1. readKeys' = AppendNew(readKeys, <<k>>) /\ UNCHANGED <<readCerts, readOrigin>>
    BY <1>1, <1>7
  <2> HIDE DEF k
  <2>2. readKeys' \in Seq(Key) /\ NoDuplicates(readKeys')
        /\ ToSet(readKeys) \subseteq ToSet(readKeys')
    BY <1>3, <1>4, <1>7, <2>1, KeyAppended
  <2>3. /\ readCerts' \in Seq(Cert) /\ NoDuplicates(readCerts')
        /\ ToSet(readCerts) \subseteq ToSet(readCerts') /\ readOrigin' \in [Cert -> Alias]
    BY <1>4, <2>1 DEF SoundSoFar, SoundStore
  <2> QED  BY <1>4, <2>2, <2>3, ObjectsOnly
<1> QED  BY <1>5, <1>6, <1>7

(* openPKCS7 stores the certificates of the container. *)
LEMMA OpenPkcs7FileSound ==
  ASSUME PemSound, OpenPkcs7File
  PROVE  SoundSoFar'
<1>1. CurrentBlock.chain \in Seq(Cert)
  BY OneBlock, BlockType DEF OpenPkcs7File
<1>2. SoundSoFar /\ UNCHANGED <<readKeys, readEntries>>
  BY DEF PemSound, OpenPkcs7File
<1>3. ImportBlock(CurrentBlock.chain) \/ UNCHANGED store
  BY DEF OpenPkcs7File, store
<1> QED  BY <1>1, <1>2, <1>3, ImportBlockSound, StoreUnchanged

(* The loop moves on only in PEM files, and the input stays the same. *)
LEMMA PemInputStays ==
  ASSUME PemSound, [PemNext]_pemVars
  PROVE  /\ file' = file /\ opts' = opts
         /\ file.format # "pem" => pos' = pos
<1>1. ASSUME AtBlock("certs") \/ AtBlock("pkcs7") \/ AtBlock("key") \/ AtBlock("other"),
             Advance \/ \E result : Return(result)
      PROVE  file' = file /\ opts' = opts /\ (file.format # "pem" => pos' = pos)
  BY <1>1 DEF AtBlock, Advance, Return
<1>2. ASSUME NEW result, NEW k, TakeKeyOr(result, k)
      PROVE  Advance \/ \E r : Return(r)
  BY <1>2 DEF TakeKeyOr, FailKey
<1>3. CASE ReadCertificates \/ ReadPkcs7 \/ IgnoreBlock \/ RejectBlock
  BY <1>1, <1>3 DEF ReadCertificates, ReadPkcs7, IgnoreBlock, RejectBlock
<1>4. CASE ReadKey \/ ReadEncryptedKey
  <2>1. Advance \/ \E r : Return(r)
    BY <1>2, <1>4 DEF ReadKey, ReadEncryptedKey, FailKey
  <2> QED  BY <1>1, <1>4, <2>1 DEF ReadKey, ReadEncryptedKey
<1>5. CASE FinishPem \/ OpenDer \/ OpenPkcs7File
  BY <1>5 DEF FinishPem, OpenDer, OpenPkcs7File, Return
<1>6. CASE UNCHANGED pemVars
  BY <1>6 DEF pemVars
<1> QED  BY <1>3, <1>4, <1>5, <1>6 DEF PemNext

(* No step of openPEM, openDER and openPKCS7 makes the store unsound. *)
LEMMA PemNextSound ==
  ASSUME PemSound, [PemNext]_pemVars
  PROVE  PemSound'
<1>1. SoundSoFar'
  <2>1. CASE UNCHANGED store
    BY <2>1, StoreUnchanged DEF PemSound
  <2>2. CASE ReadCertificates
    BY <2>2, BlockType, ImportBlockSound DEF ReadCertificates, AtBlock, PemSound
  <2>3. CASE ReadPkcs7
    BY <2>3, ReadPkcs7Sound
  <2>4. CASE ReadKey \/ ReadEncryptedKey
    BY <2>4, ReadKeySound
  <2>5. CASE OpenDer
    BY <2>5, OpenDerSound
  <2>6. CASE OpenPkcs7File
    BY <2>6, OpenPkcs7FileSound
  <2>7. CASE IgnoreBlock \/ RejectBlock \/ FinishPem
    BY <2>1, <2>7 DEF IgnoreBlock, RejectBlock, FinishPem, Return
  <2>8. CASE UNCHANGED pemVars
    BY <2>1, <2>8 DEF pemVars
  <2> QED  BY <2>2, <2>3, <2>4, <2>5, <2>6, <2>7, <2>8 DEF PemNext
<1> QED  BY <1>1, PemInputStays DEF PemSound

(* One of the openers of PEM, DER and PKCS7 is called. *)
PemBegins ==
  /\ IsPemFile(file) /\ IsPemOptions(opts)
  /\ pos = 1 /\ EmptyStore /\ outcome = "reading"

LEMMA PemInitBegins == PemInit => PemBegins
BY PemInputsWellFormed DEF PemInputs, PemInit, PemBegins

(* openPEM, openDER and openPKCS7 return a sound store, with an error or
   without. *)
THEOREM PemOpensSoundly == PemSpec => []OpensSoundly
<1>1. PemInit => PemSound
  BY EmptySound, PemInitBegins DEF PemBegins, PemSound
<1>2. PemSound /\ [PemNext]_pemVars => PemSound'
  BY PemNextSound
<1>3. PemSound => OpensSoundly
  BY SoundResult DEF PemSound
<1> QED  BY <1>1, <1>2, <1>3, PTL DEF PemSpec

(* The inductive invariant of what is returned: the store has been filled from
   the blocks before pos, and their passwords were given. *)
PemReads ==
  /\ PemSound
  /\ pos \in Nat
  /\ HoldsTaken /\ EncryptionsWereUndone
  /\ file.format # "pem" /\ outcome = "reading" => readCerts = << >> /\ readKeys = << >>

(* The blocks of a file, and those of them that have been taken. *)
LEMMA BlocksTaken ==
  ASSUME PemSound
  PROVE  /\ file.blocks \in Seq(Block)
         /\ DOMAIN file.blocks = 1 .. Len(file.blocks) /\ Len(file.blocks) \in Nat
         /\ Taken \subseteq DOMAIN file.blocks
<1>1. file.blocks \in Seq(Block)
  BY DEF IsPemFile, PemSound
<1> QED  BY <1>1 DEF Taken

(* Taking a block adds the objects of that block. *)
LEMMA BlockTaken ==
  ASSUME PemReads, PemSound', file.format = "pem", pos \in DOMAIN file.blocks, Advance,
         outcome = "reading",
         ToSet(readCerts') = ToSet(readCerts) \cup
           (IF CurrentBlock.kind \in {"certs", "pkcs7"} THEN ToSet(CurrentBlock.chain) ELSE {}),
         ToSet(readKeys') = ToSet(readKeys) \cup
           (IF CurrentBlock.kind = "key" THEN {CurrentBlock.key} ELSE {}),
         CurrentBlock.kind = "key" =>
           {CurrentBlock.dek, CurrentBlock.pkcs8} \ {NoPassword} \subseteq Answers
  PROVE  PemReads'
<1>1. /\ file.blocks \in Seq(Block)
      /\ DOMAIN file.blocks = 1 .. Len(file.blocks) /\ Len(file.blocks) \in Nat
  BY BlocksTaken DEF PemReads
<1>2. file' = file /\ opts' = opts /\ outcome' = outcome /\ pos' = pos + 1
  BY DEF Advance
<1>3. Taken = {i \in DOMAIN file.blocks : i < pos}
  BY DEF Taken
<1>4. Taken' = Taken \cup {pos}
  <2>1. Taken' = {i \in DOMAIN file.blocks : i < pos + 1}
    BY <1>2 DEF Taken
  <2>2. \A i \in DOMAIN file.blocks : i < pos + 1 <=> i < pos \/ i = pos
    BY <1>1
  <2> QED  BY <1>3, <2>1, <2>2
<1>5. ASSUME NEW kinds
      PROVE  TakenOf(kinds)' = TakenOf(kinds) \cup
                                 (IF CurrentBlock.kind \in kinds THEN {pos} ELSE {})
  BY <1>2, <1>4 DEF TakenOf, CurrentBlock
<1>6. ToSet(readCerts') = UNION {ToSet(file.blocks[i].chain) : i \in TakenOf({"certs", "pkcs7"})'}
  <2> DEFINE T == TakenOf({"certs", "pkcs7"})
             N == IF CurrentBlock.kind \in {"certs", "pkcs7"} THEN {pos} ELSE {}
             ch(i) == ToSet(file.blocks[i].chain)
  <2>1. TakenOf({"certs", "pkcs7"})' = T \cup N
    BY <1>5
  <2>2. ToSet(readCerts) = UNION {ch(i) : i \in T}
    BY DEF PemReads, HoldsTaken
  <2>3. (IF CurrentBlock.kind \in {"certs", "pkcs7"} THEN ToSet(CurrentBlock.chain) ELSE {})
          = UNION {ch(i) : i \in N}
    BY DEF CurrentBlock
  <2> HIDE DEF T, N, ch
  <2>4. UNION {ch(i) : i \in T \cup N} = (UNION {ch(i) : i \in T}) \cup (UNION {ch(i) : i \in N})
    OBVIOUS
  <2>5. ToSet(readCerts') = UNION {ch(i) : i \in T \cup N}
    BY <2>2, <2>3, <2>4
  <2> QED  BY <2>1, <2>5 DEF ch
<1>7. ToSet(readKeys') = {file.blocks[i].key : i \in TakenOf({"key"})'}
  <2>1. ToSet(readKeys) = {file.blocks[i].key : i \in TakenOf({"key"})}
    BY DEF PemReads, HoldsTaken
  <2> QED  BY <1>5, <2>1 DEF CurrentBlock
<1>8. HoldsTaken'
  BY <1>2, <1>6, <1>7 DEF HoldsTaken
<1>9. EncryptionsWereUndone'
  <2>1. Answers = IF opts.password # NoPassword THEN {opts.password} ELSE opts.answers
    BY DEF Answers, PasswordsFor
  <2>2. ASSUME NEW i \in TakenOf({"key"})'
        PROVE  {file.blocks[i].dek, file.blocks[i].pkcs8} \ {NoPassword} \subseteq Answers
    <3>1. CASE i \in TakenOf({"key"})
      BY <2>1, <3>1 DEF PemReads, EncryptionsWereUndone
    <3>2. CASE i = pos /\ CurrentBlock.kind = "key"
      BY <3>2 DEF CurrentBlock
    <3> QED  BY <1>5, <2>2, <3>1, <3>2
  <2> QED  BY <1>2, <2>1, <2>2 DEF EncryptionsWereUndone
<1> QED  BY <1>2, <1>8, <1>9 DEF PemReads

(* When openPEM returns without having read all blocks, the store stays. *)
LEMMA PemReturned ==
  ASSUME PemReads, PemSound', file.format = "pem", outcome = "reading", NEW result, Return(result),
         result = "ok" => pos = Len(file.blocks) + 1
  PROVE  PemReads'
<1>1. UNCHANGED <<file, opts, pos, readCerts, readKeys>> /\ outcome' = result
  BY DEF Return, store
<1>2. Taken' = Taken /\ \A kinds : TakenOf(kinds)' = TakenOf(kinds)
  BY <1>1 DEF Taken, TakenOf
<1>3. result = "ok" => Taken = DOMAIN file.blocks
  <2>1. DOMAIN file.blocks = 1 .. Len(file.blocks) /\ Len(file.blocks) \in Nat
    BY BlocksTaken DEF PemReads
  <2> QED  BY <2>1 DEF Taken
<1> QED  BY <1>1, <1>2, <1>3 DEF PemReads, HoldsTaken, EncryptionsWereUndone

(* addPrivateKey adds the key and nothing else. *)
LEMMA KeyAdds ==
  ASSUME NEW ks \in Seq(Key), NEW k \in Key
  PROVE  ToSet(AppendNew(ks, <<k>>)) = ToSet(ks) \cup {k}
<1> DEFINE t == <<k>>
<1>1. t \in Seq(Key) /\ ToSet(t) = {k}
  BY DEF ToSet
<1> HIDE DEF t
<1>2. ToSet(AppendNew(ks, t)) = ToSet(ks) \cup {k}
  BY <1>1, AppendNewRange
<1> QED  BY <1>2 DEF t

(* A key is taken when both of its encryptions are undone. *)
LEMMA KeyTaken ==
  ASSUME PemReads, PemSound', AtBlock("key"), NEW p \in Answers,
         CurrentBlock.dek \in {NoPassword, p},
         NEW result, result # "ok", NEW k \in {Parsed(CurrentBlock, p), NoKey},
         TakeKeyOr(result, k)
  PROVE  PemReads'
<1>1. /\ file.format = "pem" /\ pos \in DOMAIN file.blocks /\ outcome = "reading"
      /\ CurrentBlock.kind = "key"
  BY DEF AtBlock
<1>2. CASE k = NoKey
  BY <1>1, <1>2, PemReturned DEF TakeKeyOr, FailKey
<1>3. CASE k # NoKey
  <2>1. k = CurrentBlock.key /\ CurrentBlock.pkcs8 \in {NoPassword, p}
    BY <1>3 DEF Parsed
  <2>2. readKeys' = AppendNew(readKeys, <<k>>) /\ Advance /\ readCerts' = readCerts
    BY <1>3 DEF TakeKeyOr
  <2>3. k \in Key
    BY <1>1, <1>3, <2>1, BlockType DEF PemReads
  <2>4. ToSet(readKeys') = ToSet(readKeys) \cup {k}
    <3>1. readKeys \in Seq(Key)
      BY DEF PemReads, PemSound, SoundSoFar, SoundStore
    <3> QED  BY <2>2, <2>3, <3>1, KeyAdds
  <2>5. {CurrentBlock.dek, CurrentBlock.pkcs8} \ {NoPassword} \subseteq Answers
    BY <2>1
  <2>6. CurrentBlock.kind \notin {"certs", "pkcs7"}
    BY <1>1
  <2>7. ToSet(readCerts') = ToSet(readCerts) \cup {}
    BY <2>2
  <2> QED  BY <1>1, <2>1, <2>2, <2>4, <2>5, <2>6, <2>7, BlockTaken
<1> QED  BY <1>2, <1>3

(* A key block, encrypted or not. *)
LEMMA ReadKeyReads ==
  ASSUME PemReads, PemSound', ReadKey \/ ReadEncryptedKey
  PROVE  PemReads'
<1>1. AtBlock("key") /\ outcome = "reading" /\ file.format = "pem"
  BY DEF ReadKey, ReadEncryptedKey, AtBlock
<1>2. ASSUME NEW result \in {"password", "invalid"}, FailKey(result)  PROVE PemReads'
  BY <1>1, <1>2, PemReturned DEF FailKey
<1>3. /\ KeyFailure(CurrentBlock) \in {"password", "invalid"}
      /\ \A p : PasswordError(p) \in {"password", "invalid"}
  BY DEF KeyFailure, PasswordError
<1>4. CASE ReadKey
  <2>1. PICK p \in Answers :
          IF CurrentBlock.labelled /\ IsError(p) THEN FailKey(PasswordError(p))
          ELSE TakeKeyOr(KeyFailure(CurrentBlock), Parsed(CurrentBlock, p))
    BY <1>4 DEF ReadKey
  <2>2. CurrentBlock.dek \in {NoPassword, p}
    BY <1>4 DEF ReadKey
  <2> QED  BY <1>1, <1>2, <1>3, <2>1, <2>2, KeyTaken
<1>5. CASE ReadEncryptedKey
  <2>1. PICK p \in Answers :
          IF IsError(p) THEN FailKey(PasswordError(p))
          ELSE \E d \in Decryptions(CurrentBlock, p) :
                 IF d = "error" THEN FailKey("password")
                 ELSE TakeKeyOr(KeyFailure(CurrentBlock),
                                IF d = "key" THEN Parsed(CurrentBlock, p) ELSE NoKey)
    BY <1>5 DEF ReadEncryptedKey
  <2>2. CASE IsError(p)
    BY <1>2, <1>3, <2>1, <2>2
  <2>3. CASE ~IsError(p)
    <3>1. PICK d \in Decryptions(CurrentBlock, p) :
            IF d = "error" THEN FailKey("password")
            ELSE TakeKeyOr(KeyFailure(CurrentBlock),
                           IF d = "key" THEN Parsed(CurrentBlock, p) ELSE NoKey)
      BY <2>1, <2>3
    <3>2. CASE d = "error"
      BY <1>2, <3>1, <3>2
    <3>3. CASE d = "key"
      <4>1. CurrentBlock.dek = p
        BY <3>1, <3>3 DEF Decryptions
      <4>2. TakeKeyOr(KeyFailure(CurrentBlock), Parsed(CurrentBlock, p))
        BY <3>1, <3>3
      <4> QED  BY <1>1, <1>3, <4>1, <4>2, KeyTaken
    <3>4. CASE d = "garbage"
      <4>1. FailKey(KeyFailure(CurrentBlock))
        BY <3>1, <3>4 DEF TakeKeyOr
      <4> QED  BY <1>2, <1>3, <4>1
    <3> QED  BY <3>2, <3>3, <3>4 DEF Decryptions
  <2> QED  BY <2>2, <2>3
<1> QED  BY <1>4, <1>5

(* Certificates that are imported are in the store, and nothing else is new. *)
LEMMA ImportAdds ==
  ASSUME SoundSoFar, NEW ch \in Seq(Cert), NEW a, Import(ch, a)
  PROVE  ToSet(readCerts') = ToSet(readCerts) \cup ToSet(ch)
<1>1. readCerts \in Seq(Cert)
  BY DEF SoundSoFar, SoundStore
<1>2. ToSet(AppendNew(readCerts, ch)) = ToSet(readCerts) \cup ToSet(ch)
  BY <1>1, AppendNewRange
<1> QED  BY <1>2 DEF Import

(* A block of certificates, or of a PKCS7 container. *)
LEMMA ReadCertificatesReads ==
  ASSUME PemReads, PemSound', ReadCertificates \/ ReadPkcs7
  PROVE  PemReads'
<1> DEFINE ch == CurrentBlock.chain
<1>1. /\ file.format = "pem" /\ pos \in DOMAIN file.blocks /\ outcome = "reading"
      /\ CurrentBlock.kind \in {"certs", "pkcs7"} /\ Advance /\ readKeys' = readKeys
  BY DEF ReadCertificates, ReadPkcs7, AtBlock
<1>2. ch \in Seq(Cert) /\ SoundSoFar
  BY <1>1, BlockType DEF PemReads, PemSound
<1>3. ToSet(readCerts') = ToSet(readCerts) \cup ToSet(ch)
  <2>1. CASE ReadCertificates
    BY <1>2, <2>1, ImportAdds DEF ReadCertificates, ImportBlock
  <2>2. CASE ReadPkcs7
    <3> DEFINE own == AppendNew(<< >>, ch)
    <3>1. own \in Seq(Cert) /\ ToSet(own) = ToSet(ch)
      BY <1>2, AppendToEmpty
    <3>2. Import(own, Empty)
      BY <2>2 DEF ReadPkcs7, ImportBlock
    <3> HIDE DEF own
    <3> QED  BY <1>2, <3>1, <3>2, ImportAdds
  <2> QED  BY <2>1, <2>2
<1>4. CurrentBlock.kind # "key" /\ ToSet(readKeys') = ToSet(readKeys) \cup {}
  BY <1>1
<1> QED  BY <1>1, <1>3, <1>4, BlockTaken

(* A file that is not PEM is taken as a whole, or not at all. *)
LEMMA FileTaken ==
  ASSUME PemReads, PemSound', file.format # "pem", outcome = "reading",
         UNCHANGED <<file, opts, pos>>, outcome' \in {"ok", "refused"},
         outcome' = "refused" => UNCHANGED <<readCerts, readKeys>>,
         outcome' = "ok" =>
           /\ ToSet(readCerts') =
                IF CurrentBlock.kind \in {"certs", "pkcs7"} THEN ToSet(CurrentBlock.chain) ELSE {}
           /\ ToSet(readKeys') = IF CurrentBlock.kind = "key" THEN {CurrentBlock.key} ELSE {}
           /\ CurrentBlock.kind = "key" => {CurrentBlock.pkcs8} \ {NoPassword} \subseteq Answers
  PROVE  PemReads'
<1>1. /\ DOMAIN file.blocks = {1} /\ pos = 1 /\ file.blocks[1].dek = NoPassword
      /\ CurrentBlock = file.blocks[1]
  <2>1. Len(file.blocks) = 1 /\ file.blocks[1].dek = NoPassword
    BY DEF IsPemFile, PemReads, PemSound
  <2> QED  BY <2>1, BlocksTaken DEF PemReads, PemSound, CurrentBlock
<1>2. Taken' = IF outcome' = "ok" THEN {1} ELSE {}
  BY <1>1 DEF Taken
<1>3. \A kinds : TakenOf(kinds)' = IF outcome' = "ok" /\ CurrentBlock.kind \in kinds
                                   THEN {1} ELSE {}
  BY <1>1, <1>2 DEF TakenOf
<1>4. CASE outcome' = "refused"
  <2>1. ToSet(readCerts') = {} /\ ToSet(readKeys') = {}
    BY <1>4 DEF PemReads, ToSet
  <2>2. TakenOf({"certs", "pkcs7"})' = {} /\ TakenOf({"key"})' = {}
    BY <1>3, <1>4
  <2> QED  BY <1>4, <2>1, <2>2 DEF PemReads, HoldsTaken, EncryptionsWereUndone
<1>5. CASE outcome' = "ok"
  <2>1. ToSet(readCerts') = UNION {ToSet(file.blocks[i].chain) : i \in TakenOf({"certs", "pkcs7"})'}
    BY <1>1, <1>3, <1>5
  <2>2. ToSet(readKeys') = {file.blocks[i].key : i \in TakenOf({"key"})'}
    BY <1>1, <1>3, <1>5
  <2>3. HoldsTaken'
    BY <1>1, <1>2, <1>5, <2>1, <2>2 DEF HoldsTaken
  <2>4. EncryptionsWereUndone'
    <3>1. Answers = IF opts.password # NoPassword THEN {opts.password} ELSE opts.answers
      BY DEF Answers, PasswordsFor
    <3>2. \A i \in TakenOf({"key"})' :
             {file.blocks[i].dek, file.blocks[i].pkcs8} \ {NoPassword} \subseteq Answers
      BY <1>1, <1>3, <1>5
    <3> QED  BY <3>1, <3>2 DEF EncryptionsWereUndone
  <2> QED  BY <1>5, <2>3, <2>4 DEF PemReads
<1> QED  BY <1>4, <1>5

(* openDER takes certificates, or a key that it could decrypt. *)
LEMMA OpenDerReads ==
  ASSUME PemReads, PemSound', OpenDer
  PROVE  PemReads'
<1> DEFINE isCerts == CurrentBlock.kind = "certs" /\ ~CurrentBlock.bad
           derKey(p) == IF CurrentBlock.kind = "key" THEN Parsed(CurrentBlock, p) ELSE NoKey
<1>1. PICK p \in Answers :
        /\ IF isCerts THEN ImportBlock(CurrentBlock.chain) ELSE UNCHANGED <<readCerts, readOrigin>>
        /\ readKeys' = IF isCerts \/ derKey(p) = NoKey THEN readKeys
                   ELSE AppendNew(readKeys, <<derKey(p)>>)
        /\ outcome' = IF isCerts \/ derKey(p) # NoKey THEN "ok" ELSE "refused"
  BY DEF OpenDer
<1> DEFINE k == derKey(p)
<1>2. /\ file.format # "pem" /\ outcome = "reading" /\ UNCHANGED <<file, opts, pos>>
      /\ readCerts = << >> /\ readKeys = << >> /\ SoundSoFar
  BY DEF OpenDer, PemReads, PemSound
<1>3. CurrentBlock.chain \in Seq(Cert) /\ CurrentBlock.key \in Key \cup {NoKey}
  BY <1>2, OneBlock, BlockType DEF PemReads
<1>4. ToSet(<< >>) = {}
  BY DEF ToSet
<1>5. CASE isCerts
  <2>1. ToSet(readCerts') = ToSet(CurrentBlock.chain) /\ ToSet(readKeys') = {} /\ outcome' = "ok"
    BY <1>1, <1>2, <1>3, <1>4, <1>5, ImportAdds DEF ImportBlock
  <2>2. CurrentBlock.kind = "certs"
    BY <1>5
  <2> QED  BY <1>2, <2>1, <2>2, FileTaken
<1>6. CASE ~isCerts /\ k = NoKey
  <2>1. UNCHANGED <<readCerts, readKeys>> /\ outcome' = "refused"
    BY <1>1, <1>6
  <2> QED  BY <1>2, <2>1, FileTaken
<1>7. CASE ~isCerts /\ k # NoKey
  <2>1. CurrentBlock.kind = "key" /\ k = CurrentBlock.key /\ CurrentBlock.pkcs8 \in {NoPassword, p}
    BY <1>7 DEF Parsed
  <2>2. readKeys' = AppendNew(readKeys, <<k>>) /\ readCerts' = readCerts /\ outcome' = "ok"
    BY <1>1, <1>7
  <2>3. k \in Key
    BY <1>3, <1>7, <2>1
  <2> HIDE DEF k, isCerts
  <2>4. ToSet(readKeys') = {k}
    <3>1. << >> \in Seq(Key)
      OBVIOUS
    <3> QED  BY <1>2, <1>4, <2>2, <2>3, <3>1, KeyAdds
  <2> QED  BY <1>1, <1>2, <1>4, <2>1, <2>2, <2>4, FileTaken
<1> QED  BY <1>5, <1>6, <1>7

(* openPKCS7 takes the certificates of its container. *)
LEMMA OpenPkcs7FileReads ==
  ASSUME PemReads, PemSound', OpenPkcs7File
  PROVE  PemReads'
<1>1. /\ file.format # "pem" /\ outcome = "reading" /\ UNCHANGED <<file, opts, pos, readKeys>>
      /\ readCerts = << >> /\ readKeys = << >> /\ SoundSoFar
  BY DEF OpenPkcs7File, PemReads, PemSound
<1>2. CurrentBlock.chain \in Seq(Cert) /\ ToSet(<< >>) = {}
  BY <1>1, OneBlock, BlockType DEF PemReads, ToSet
<1>3. CASE outcome' = "ok"
  <2>1. CurrentBlock.kind = "pkcs7" /\ Import(CurrentBlock.chain, Empty)
    BY <1>3 DEF OpenPkcs7File, ImportBlock
  <2>2. ToSet(readCerts') = ToSet(CurrentBlock.chain) /\ ToSet(readKeys') = {}
    BY <1>1, <1>2, <2>1, ImportAdds
  <2> QED  BY <1>1, <1>3, <2>1, <2>2, FileTaken
<1>4. CASE outcome' # "ok"
  <2>1. outcome' = "refused" /\ UNCHANGED <<readCerts, readKeys>>
    BY <1>1, <1>4 DEF OpenPkcs7File
  <2> QED  BY <1>1, <2>1, FileTaken
<1> QED  BY <1>3, <1>4

(* No step takes a block without its objects, or an object of a block that is
   not taken. *)
LEMMA PemNextReads ==
  ASSUME PemReads, [PemNext]_pemVars
  PROVE  PemReads'
<1>1. PemSound'
  BY PemNextSound DEF PemReads
<1>2. CASE ReadCertificates \/ ReadPkcs7
  BY <1>1, <1>2, ReadCertificatesReads
<1>3. CASE ReadKey \/ ReadEncryptedKey
  BY <1>1, <1>3, ReadKeyReads
<1>4. CASE IgnoreBlock
  <2>1. /\ file.format = "pem" /\ pos \in DOMAIN file.blocks /\ outcome = "reading"
        /\ CurrentBlock.kind = "other" /\ Advance /\ UNCHANGED <<readCerts, readKeys>>
    BY <1>4 DEF IgnoreBlock, AtBlock, store
  <2>2. ToSet(readCerts') = ToSet(readCerts) \cup {} /\ ToSet(readKeys') = ToSet(readKeys) \cup {}
    BY <2>1
  <2> QED  BY <1>1, <2>1, <2>2, BlockTaken
<1>5. CASE RejectBlock
  <2>1. file.format = "pem" /\ outcome = "reading" /\ Return("refused")
    BY <1>5 DEF RejectBlock, AtBlock
  <2> QED  BY <1>1, <2>1, PemReturned
<1>6. CASE FinishPem
  <2>1. PICK result : Return(result)
    BY <1>6 DEF FinishPem
  <2> QED  BY <1>1, <1>6, <2>1, PemReturned DEF FinishPem
<1>7. CASE OpenDer
  BY <1>1, <1>7, OpenDerReads
<1>8. CASE OpenPkcs7File
  BY <1>1, <1>8, OpenPkcs7FileReads
<1>9. CASE UNCHANGED pemVars
  <2>1. UNCHANGED <<file, opts, pos, readCerts, readKeys, outcome>>
    BY <1>9 DEF pemVars, store
  <2>2. Taken' = Taken /\ \A kinds : TakenOf(kinds)' = TakenOf(kinds)
    BY <2>1 DEF Taken, TakenOf
  <2> QED  BY <1>1, <2>1, <2>2 DEF PemReads, HoldsTaken, EncryptionsWereUndone
<1> QED  BY <1>2, <1>3, <1>4, <1>5, <1>6, <1>7, <1>8, <1>9 DEF PemNext

(* Nothing has been taken at the start. *)
LEMMA PemStarts ==
  ASSUME PemBegins
  PROVE  PemReads
<1>1. PemSound /\ pos = 1 /\ outcome = "reading" /\ readCerts = << >> /\ readKeys = << >>
  BY EmptySound DEF PemBegins, PemSound, EmptyStore
<1>2. Taken = {}
  <2>1. \A i \in DOMAIN file.blocks : ~(i < 1)
    BY <1>1, BlocksTaken
  <2> QED  BY <1>1, <2>1 DEF Taken
<1>3. ToSet(<< >>) = {} /\ \A kinds : TakenOf(kinds) = {}
  BY <1>2 DEF TakenOf, ToSet
<1> QED  BY <1>1, <1>3 DEF PemReads, HoldsTaken, EncryptionsWereUndone

(* The invariant holds all the time. *)
LEMMA PemInductive == PemSpec => []PemReads
<1>1. PemInit => PemReads
  BY PemStarts, PemInitBegins
<1>2. PemReads /\ [PemNext]_pemVars => PemReads'
  BY PemNextReads
<1> QED  BY <1>1, <1>2, PTL DEF PemSpec

(* openPEM, openDER and openPKCS7 return the objects of the blocks before the
   one that stopped them, all of them and no other. *)
THEOREM PemReturnsWhatWasRead == PemSpec => []ReturnsWhatWasRead
<1>1. PemReads => ReturnsWhatWasRead
  BY DEF PemReads, ReturnsWhatWasRead
<1> QED  BY <1>1, PemInductive, PTL

(* No key that was encrypted gets into the store without a password that the
   caller gave. *)
THEOREM PemEncryptionNeedsPassword == PemSpec => []EncryptionNeedsPassword
<1>1. PemReads => EncryptionNeedsPassword
  BY DEF PemReads, EncryptionNeedsPassword
<1> QED  BY <1>1, PemInductive, PTL
-----------------------------------------------------------------------------
(***************************************************************************)
(* openPKCS12.                                                             *)
(***************************************************************************)

(* The key bags that wait for an entry have their key in the store. *)
WaitingKeys(ks) == [key : ToSet(ks), name : Alias]

(* The inductive invariant: soundness needs the bags that were read, and the
   aliases are unique up to case all the time. *)
Pkcs12Sound ==
  /\ SoundSoFar /\ NoSharedAlias
  /\ IsPkcs12File(file) /\ IsPkcs12Options(opts)
  /\ named \in Seq(WaitingKeys(readKeys))
  /\ pos \in Nat /\ (pos = 0 => named = << >>)

(* What the loop finds in a bag. *)
LEMMA BagType ==
  ASSUME Pkcs12Sound, file.form = "bags", pos \in DOMAIN file.bags
  PROVE  /\ CurrentBag.cert \in Cert /\ Trim[CurrentBag.name] \in Alias
         /\ CurrentBag.kind = "key" => CurrentBag.key \in Key
<1>1. /\ file.bags \in Seq(Bag)
      /\ CurrentBag.kind = "key" => CurrentBag.key \in Key
  BY DEF IsPkcs12File, Pkcs12Sound, CurrentBag
<1>2. CurrentBag \in Bag
  BY <1>1 DEF CurrentBag
<1> QED  BY <1>1, <1>2, AliasFunctions DEF Bag

(* The pair of a key and its chain becomes the only entry. *)
LEMMA OpenPairSound ==
  ASSUME Pkcs12Sound, OpenPair
  PROVE  SoundSoFar' /\ NoSharedAlias'
<1> DEFINE alias == Trim[DefaultAlias[file.chain[1]]]
           e == KeyEntryOf(alias, file.key, file.chain)
<1>1. /\ file.chain \in Seq(Cert) /\ file.key \in Key /\ file.chain # << >>
  BY DEF IsPkcs12File, Pkcs12Sound, OpenPair, Decrypts
<1>2. alias \in Alias
  <2>1. file.chain[1] \in Cert
    BY <1>1
  <2> QED  BY <2>1, AliasFunctions
<1>3. CASE UNCHANGED store
  <2>1. SoundSoFar'
    BY <1>3, StoreUnchanged DEF Pkcs12Sound
  <2>2. NoSharedAlias'
    BY <1>3 DEF Pkcs12Sound, NoSharedAlias, store
  <2> QED  BY <2>1, <2>2
<1>4. CASE ~UNCHANGED store
  <2>1. /\ Import(file.chain, IF file.shangmi THEN alias ELSE Empty)
        /\ readKeys' = <<file.key>> /\ readEntries' = <<e>>
    BY <1>4 DEF OpenPair
  <2>2. /\ readCerts' \in Seq(Cert) /\ NoDuplicates(readCerts')
        /\ ToSet(file.chain) \subseteq ToSet(readCerts') /\ readOrigin' \in [Cert -> Alias]
    <3>1. (IF file.shangmi THEN alias ELSE Empty) \in Alias
      BY <1>2, AliasFunctions
    <3> HIDE DEF alias
    <3> QED  BY <1>1, <2>1, <3>1, Imported DEF Pkcs12Sound
  <2>3. /\ readKeys' \in Seq(Key) /\ NoDuplicates(readKeys') /\ file.key \in ToSet(readKeys')
    BY <1>1, <2>1 DEF NoDuplicates, ToSet
  <2> HIDE DEF alias
  <2>4. e \in Sound(readCerts', readKeys')
    BY <1>1, <1>2, <2>2, <2>3, NewEntrySound
  <2> HIDE DEF e
  <2>5. readEntries' \in Seq(Sound(readCerts', readKeys'))
    BY <2>1, <2>4
  <2>6. NoSharedAlias'
    BY <2>1 DEF NoSharedAlias
  <2> QED  BY <2>2, <2>3, <2>5, <2>6 DEF SoundSoFar, SoundStore
<1> QED  BY <1>3, <1>4

(* The certificates of a trust store become one entry each. *)
LEMMA OpenTrustSound ==
  ASSUME Pkcs12Sound, OpenTrust
  PROVE  SoundSoFar' /\ NoSharedAlias'
<1>1. /\ file.chain \in Seq(Cert) /\ Len(file.chain) <= Len(TrustAliases)
      /\ TrustAliases \in Seq(Alias)
      /\ \A i, j \in DOMAIN TrustAliases : Fold[TrustAliases[i]] = Fold[TrustAliases[j]] => i = j
  BY Pkcs12InputsWellFormed DEF IsPkcs12File, Pkcs12Inputs, Pkcs12Sound, OpenTrust, Decrypts
<1>2. CASE UNCHANGED store
  <2>1. SoundSoFar'
    BY <1>2, StoreUnchanged DEF Pkcs12Sound
  <2>2. NoSharedAlias'
    BY <1>2 DEF Pkcs12Sound, NoSharedAlias, store
  <2> QED  BY <2>1, <2>2
<1>3. CASE ~UNCHANGED store
  <2>1. /\ Import(file.chain, Empty) /\ readKeys' = readKeys
        /\ readEntries' = [i \in DOMAIN file.chain |-> TrustedEntry(TrustAliases[i], file.chain[i])]
    BY <1>3 DEF OpenTrust
  <2>2. /\ readCerts' \in Seq(Cert) /\ NoDuplicates(readCerts')
        /\ ToSet(file.chain) \subseteq ToSet(readCerts') /\ readOrigin' \in [Cert -> Alias]
    BY <1>1, <2>1, AliasFunctions, Imported DEF Pkcs12Sound
  <2>3. readKeys' \in Seq(Key) /\ NoDuplicates(readKeys')
    BY <2>1 DEF Pkcs12Sound, SoundSoFar, SoundStore
  <2>4. /\ DOMAIN file.chain = 1 .. Len(file.chain) /\ Len(file.chain) \in Nat
        /\ \A i \in DOMAIN file.chain : i \in DOMAIN TrustAliases /\ TrustAliases[i] \in Alias
    BY <1>1
  <2>5. \A i \in DOMAIN file.chain :
           TrustedEntry(TrustAliases[i], file.chain[i]) \in Sound(readCerts', readKeys')
    <3>1. \A i \in DOMAIN file.chain : file.chain[i] \in ToSet(readCerts')
      BY <2>2 DEF ToSet
    <3> QED  BY <2>2, <2>3, <2>4, <3>1, NewEntrySound
  <2>6. readEntries' \in Seq(Sound(readCerts', readKeys'))
    BY <2>1, <2>4, <2>5
  <2>7. NoSharedAlias'
    <3>1. DOMAIN readEntries' = DOMAIN file.chain
          /\ \A i \in DOMAIN file.chain : readEntries'[i].alias = TrustAliases[i]
      BY <2>1 DEF TrustedEntry
    <3> QED  BY <1>1, <2>4, <3>1 DEF NoSharedAlias
  <2> QED  BY <2>2, <2>3, <2>6, <2>7 DEF SoundSoFar, SoundStore
<1> QED  BY <1>2, <1>3

(* A certificate bag adds its certificate, and no entry yet. *)
LEMMA ReadCertBagSound ==
  ASSUME Pkcs12Sound, ReadCertBag
  PROVE  SoundSoFar'
<1> DEFINE ch == <<CurrentBag.cert>>
           name == Trim[CurrentBag.name]
<1>1. name \in Alias /\ ch \in Seq(Cert)
  BY BagType DEF ReadCertBag, AtBag
<1>2. Import(ch, name) /\ UNCHANGED <<readKeys, readEntries>>
  BY DEF ReadCertBag
<1> HIDE DEF ch, name
<1>3. /\ readCerts' \in Seq(Cert) /\ NoDuplicates(readCerts')
      /\ ToSet(readCerts) \subseteq ToSet(readCerts') /\ readOrigin' \in [Cert -> Alias]
  BY <1>1, <1>2, Imported DEF Pkcs12Sound
<1>4. readKeys' \in Seq(Key) /\ NoDuplicates(readKeys')
      /\ ToSet(readKeys) \subseteq ToSet(readKeys')
  BY <1>2 DEF Pkcs12Sound, SoundSoFar, SoundStore
<1> QED  BY <1>2, <1>3, <1>4, ObjectsOnly DEF Pkcs12Sound

(* A key bag adds its key, and waits for its entry. *)
LEMMA ReadKeyBagSound ==
  ASSUME Pkcs12Sound, ReadKeyBag
  PROVE  SoundSoFar' /\ named' \in Seq(WaitingKeys(readKeys'))
<1> DEFINE k == CurrentBag.key
           w == [key |-> k, name |-> Trim[CurrentBag.name]]
<1>1. k \in Key /\ Trim[CurrentBag.name] \in Alias
  BY BagType DEF ReadKeyBag, AtBag
<1>2. /\ readKeys' = AppendNew(readKeys, <<k>>) /\ named' = Append(named, w)
      /\ UNCHANGED <<readCerts, readEntries, readOrigin>>
  BY DEF ReadKeyBag
<1> HIDE DEF k
<1>3. /\ readKeys' \in Seq(Key) /\ NoDuplicates(readKeys')
      /\ ToSet(readKeys) \subseteq ToSet(readKeys') /\ k \in ToSet(readKeys')
  BY <1>1, <1>2, KeyAppended DEF Pkcs12Sound
<1>4. /\ readCerts' \in Seq(Cert) /\ NoDuplicates(readCerts')
      /\ ToSet(readCerts) \subseteq ToSet(readCerts') /\ readOrigin' \in [Cert -> Alias]
  BY <1>2 DEF Pkcs12Sound, SoundSoFar, SoundStore
<1>5. SoundSoFar'
  BY <1>2, <1>3, <1>4, ObjectsOnly DEF Pkcs12Sound
<1>6. WaitingKeys(readKeys) \subseteq WaitingKeys(readKeys')
  BY <1>3 DEF WaitingKeys
<1>7. named \in Seq(WaitingKeys(readKeys'))
  BY <1>6, SeqMonotonic DEF Pkcs12Sound
<1>8. w \in WaitingKeys(readKeys')
  BY <1>1, <1>3 DEF WaitingKeys
<1> HIDE DEF w
<1> QED  BY <1>2, <1>5, <1>7, <1>8

(* An entry under an alias that no entry has keeps the aliases unique. *)
LEMMA AliasAdded ==
  ASSUME Pkcs12Sound, NEW e \in Sound(readCerts, readKeys), ~HasAlias(readEntries, e.alias),
         readEntries' = Append(readEntries, e), UNCHANGED <<readCerts, readKeys, readOrigin>>
  PROVE  SoundSoFar' /\ NoSharedAlias'
<1>1. readEntries \in Seq(Sound(readCerts, readKeys))
  BY DEF Pkcs12Sound, SoundSoFar, SoundStore
<1>2. SoundSoFar'
  BY <1>1 DEF Pkcs12Sound, SoundSoFar, SoundStore
<1>3. /\ DOMAIN readEntries = 1 .. Len(readEntries) /\ Len(readEntries) \in Nat
      /\ DOMAIN readEntries' = 1 .. (Len(readEntries) + 1)
      /\ \A i \in DOMAIN readEntries : readEntries'[i] = readEntries[i]
      /\ readEntries'[Len(readEntries) + 1] = e
  BY <1>1
<1>4. \A i \in DOMAIN readEntries : Fold[readEntries[i].alias] # Fold[e.alias]
  BY DEF HasAlias
<1>5. ASSUME NEW i \in DOMAIN readEntries', NEW j \in DOMAIN readEntries',
             Fold[readEntries'[i].alias] = Fold[readEntries'[j].alias]
      PROVE  i = j
  BY <1>3, <1>4, <1>5 DEF Pkcs12Sound, NoSharedAlias
<1> QED  BY <1>2, <1>5 DEF NoSharedAlias

(* The entry of a key bag gets an alias of its own and the key's chain. *)
LEMMA NameKeySound ==
  ASSUME Pkcs12Sound, NameKey
  PROVE  SoundSoFar' /\ NoSharedAlias'
<1> DEFINE k == named[Len(readEntries) + 1].key
<1>1. PICK alias \in Alias :
        /\ ~HasAlias(readEntries, alias)
        /\ readEntries' = Append(readEntries, KeyEntryOf(alias, k, BagChain(k)))
  BY DEF NameKey, IsUniqueAlias
<1> DEFINE e == KeyEntryOf(alias, k, BagChain(k))
<1>2. readEntries \in Seq(Sound(readCerts, readKeys)) /\ readCerts \in Seq(Cert)
      /\ readKeys \in Seq(Key)
  BY DEF Pkcs12Sound, SoundSoFar, SoundStore
<1>3. k \in ToSet(readKeys)
  <2>1. Len(readEntries) \in Nat /\ Len(readEntries) < Len(named)
    BY <1>2 DEF NameKey
  <2>2. Len(readEntries) + 1 \in DOMAIN named
    BY <2>1 DEF Pkcs12Sound
  <2>3. named[Len(readEntries) + 1] \in WaitingKeys(readKeys)
    BY <2>2 DEF Pkcs12Sound
  <2> QED  BY <2>3 DEF WaitingKeys
<1> HIDE DEF k
<1>4. BagChain(k) \in Seq(Cert) /\ ToSet(BagChain(k)) \subseteq ToSet(readCerts)
  BY <1>2, MatchedChainProperties DEF BagChain
<1>5. e \in Sound(readCerts, readKeys) /\ e.alias = alias
  BY <1>2, <1>3, <1>4, NewEntrySound DEF KeyEntryOf
<1>6. readEntries' = Append(readEntries, e) /\ UNCHANGED <<readCerts, readKeys, readOrigin>>
  BY <1>1 DEF NameKey
<1> HIDE DEF e
<1> QED  BY <1>1, <1>5, <1>6, AliasAdded

(* So does the entry of a certificate. *)
LEMMA NameCertificateSound ==
  ASSUME Pkcs12Sound, NameCertificate
  PROVE  SoundSoFar' /\ NoSharedAlias'
<1> DEFINE c == readCerts[Len(readEntries) + 1]
<1>1. PICK alias \in Alias :
        /\ ~HasAlias(readEntries, alias)
        /\ readEntries' = Append(readEntries, TrustedEntry(alias, c))
  BY DEF NameCertificate, IsUniqueAlias
<1> DEFINE e == TrustedEntry(alias, c)
<1>2. readEntries \in Seq(Sound(readCerts, readKeys)) /\ readCerts \in Seq(Cert)
      /\ readKeys \in Seq(Key)
  BY DEF Pkcs12Sound, SoundSoFar, SoundStore
<1>3. c \in ToSet(readCerts)
  <2>1. Len(readEntries) \in Nat /\ Len(readEntries) < Len(readCerts)
    BY <1>2 DEF NameCertificate
  <2> QED  BY <1>2, <2>1 DEF ToSet
<1> HIDE DEF c
<1>4. e \in Sound(readCerts, readKeys) /\ e.alias = alias
  BY <1>2, <1>3, NewEntrySound DEF TrustedEntry
<1>5. readEntries' = Append(readEntries, e) /\ UNCHANGED <<readCerts, readKeys, readOrigin>>
  BY <1>1 DEF NameCertificate
<1> HIDE DEF e
<1> QED  BY <1>1, <1>4, <1>5, AliasAdded

(* No step of openPKCS12 makes the store unsound or repeats an alias. *)
LEMMA Pkcs12NextSound ==
  ASSUME Pkcs12Sound, [Pkcs12Next]_pkcs12Vars
  PROVE  Pkcs12Sound'
<1>1. /\ file' = file /\ opts' = opts
      /\ pos' \in Nat /\ (pos' = 0 => named' = << >>)
  <2>1. CASE Advance
    BY <2>1 DEF Advance, Pkcs12Sound, Pkcs12Next, FailDecryption, OpenPair, OpenTrust,
                OpenBags, ReadCertBag, ReadKeyBag, SkipBag, RejectBag, NameKey,
                NameCertificate, FinishBags, Return, pkcs12Vars
  <2>2. CASE ~Advance
    <3>1. UNCHANGED <<file, opts, pos, named>>
      BY <2>2 DEF Pkcs12Next, FailDecryption, OpenPair, OpenTrust, OpenBags, ReadCertBag,
                  ReadKeyBag, SkipBag, RejectBag, NameKey, NameCertificate, FinishBags,
                  Return, pkcs12Vars
    <3> QED  BY <3>1 DEF Pkcs12Sound
  <2> QED  BY <2>1, <2>2
<1>2. CASE UNCHANGED <<store, named>>
  <2>1. SoundSoFar'
    BY <1>2, StoreUnchanged DEF Pkcs12Sound
  <2>2. NoSharedAlias' /\ named' \in Seq(WaitingKeys(readKeys'))
    BY <1>2 DEF Pkcs12Sound, NoSharedAlias, WaitingKeys, store
  <2> QED  BY <1>1, <2>1, <2>2 DEF Pkcs12Sound
<1>3. CASE FailDecryption \/ OpenBags \/ SkipBag \/ RejectBag \/ FinishBags
             \/ UNCHANGED pkcs12Vars
  BY <1>2, <1>3 DEF FailDecryption, OpenBags, SkipBag, RejectBag, FinishBags, Return,
                    pkcs12Vars
<1>4. CASE OpenPair \/ OpenTrust
  <2>1. pos = 0 /\ named' = named
    BY <1>4 DEF OpenPair, OpenTrust, Decrypts
  <2>2. named' \in Seq(WaitingKeys(readKeys'))
    BY <2>1 DEF Pkcs12Sound
  <2> QED  BY <1>1, <1>4, <2>2, OpenPairSound, OpenTrustSound DEF Pkcs12Sound
<1>5. CASE ReadCertBag
  <2>1. SoundSoFar' /\ UNCHANGED <<readKeys, readEntries, named>>
    BY <1>5, ReadCertBagSound DEF ReadCertBag
  <2> QED  BY <1>1, <2>1 DEF Pkcs12Sound, NoSharedAlias, WaitingKeys
<1>6. CASE ReadKeyBag
  <2>1. readEntries' = readEntries
    BY <1>6 DEF ReadKeyBag
  <2> QED  BY <1>1, <1>6, <2>1, ReadKeyBagSound DEF Pkcs12Sound, NoSharedAlias
<1>7. CASE NameKey \/ NameCertificate
  <2>1. UNCHANGED <<readKeys, named>>
    BY <1>7 DEF NameKey, NameCertificate
  <2> QED  BY <1>1, <1>7, <2>1, NameKeySound, NameCertificateSound DEF Pkcs12Sound, WaitingKeys
<1> QED  BY <1>3, <1>4, <1>5, <1>6, <1>7 DEF Pkcs12Next

(* openPKCS12 is called. *)
Pkcs12Begins ==
  /\ IsPkcs12File(file) /\ IsPkcs12Options(opts)
  /\ pos = 0 /\ EmptyStore /\ outcome = "reading" /\ named = << >>

LEMMA Pkcs12InitBegins == Pkcs12Init => Pkcs12Begins
BY Pkcs12InputsWellFormed DEF Pkcs12Inputs, Pkcs12Init, Pkcs12Begins

LEMMA BeginsSound == Pkcs12Begins => Pkcs12Sound
<1> SUFFICES ASSUME Pkcs12Begins  PROVE Pkcs12Sound
  OBVIOUS
<1>1. readEntries = << >> /\ named = << >> /\ pos = 0 /\ EmptyStore
  BY DEF Pkcs12Begins, EmptyStore
<1>2. NoSharedAlias
  BY <1>1 DEF NoSharedAlias
<1> QED  BY <1>1, <1>2, EmptySound DEF Pkcs12Begins, Pkcs12Sound

(* The inductive invariant holds from the start. *)
LEMMA Pkcs12Inductive == Pkcs12Spec => []Pkcs12Sound
<1>1. Pkcs12Init => Pkcs12Sound
  BY Pkcs12InitBegins, BeginsSound
<1>2. Pkcs12Sound /\ [Pkcs12Next]_pkcs12Vars => Pkcs12Sound'
  BY Pkcs12NextSound
<1> QED  BY <1>1, <1>2, PTL DEF Pkcs12Spec

(* openPKCS12 returns a sound store, or none. *)
THEOREM Pkcs12OpensSoundly == Pkcs12Spec => []OpensSoundly
<1>1. Pkcs12Sound => OpensSoundly
  BY SoundResult DEF Pkcs12Sound
<1> QED  BY <1>1, Pkcs12Inductive, PTL

(* However the bags are named, uniqueEntryAlias keeps the aliases of a PKCS12
   file distinct up to case. *)
THEOREM Pkcs12AliasesDiffer == Pkcs12Spec => []AliasesDiffer
<1>1. Pkcs12Sound => AliasesDiffer
  BY DEF Pkcs12Sound, AliasesDiffer
<1> QED  BY <1>1, Pkcs12Inductive, PTL

(* The key bags that have been read. *)
KeyBag == {i \in DOMAIN file.bags : file.bags[i].kind = "key"}

KeyBagsRead == Pick(file.bags, {i \in KeyBag : i < pos})

(* The key bags wait in their order, with or without an entry, and are the
   only source of keys. *)
BagsWait ==
  /\ Len(named) = Len(KeyBagsRead)
  /\ \A i \in DOMAIN named : named[i].key = KeyBagsRead[i].key
  /\ ToSet(readKeys) = {named[i].key : i \in DOMAIN named}

(* The entries are those of the first key bags or, without a key bag, of the
   first certificates. *)
FirstAreNamed ==
  /\ Len(readEntries) <= IF named = << >> THEN Len(readCerts) ELSE Len(named)
  /\ \A i \in DOMAIN readEntries :
       IF named = << >> THEN readEntries[i].key = NoKey /\ readEntries[i].chain = <<readCerts[i]>>
       ELSE readEntries[i].key = named[i].key /\ readEntries[i].chain = BagChain(named[i].key)

(* The inductive invariant of a file of bags: no entry is made before all bags
   are read, and none is missing when openPKCS12 returns. *)
BagsInOrder ==
  /\ BagsWait /\ FirstAreNamed
  /\ readEntries # << >> \/ outcome = "ok" => pos = Len(file.bags) + 1
  /\ outcome = "ok" => AllNamed

(* Nothing but failure comes of what no reader reads. *)
Pkcs12Accounts ==
  /\ Pkcs12Sound
  /\ pos > 0 \/ Returned => file.form # "broken"
  /\ file.form = "bags" => BagsInOrder

(* The bags of a file, and those of them that have been read. *)
LEMMA BagsOfFile ==
  ASSUME Pkcs12Sound, file.form = "bags"
  PROVE  /\ file.bags \in Seq(Bag)
         /\ DOMAIN file.bags = 1 .. Len(file.bags) /\ Len(file.bags) \in Nat
         /\ {i \in KeyBag : i < pos} \in SUBSET (DOMAIN file.bags)
         /\ KeyBagsRead \in Seq(Bag) /\ Len(KeyBagsRead) \in Nat
<1>1. file.bags \in Seq(Bag)
  BY DEF IsPkcs12File, Pkcs12Sound
<1>2. {i \in KeyBag : i < pos} \in SUBSET (DOMAIN file.bags)
  BY DEF KeyBag
<1>3. KeyBagsRead \in Seq(Bag)
  BY <1>1, <1>2, PickProperties DEF KeyBagsRead
<1> QED  BY <1>1, <1>2, <1>3

(* What follows when no bag is passed and no entry is made. *)
LEMMA BagsStay ==
  ASSUME BagsInOrder, UNCHANGED <<file, readCerts, readKeys, readEntries, named>>,
         KeyBagsRead' = KeyBagsRead,
         readEntries # << >> \/ outcome' = "ok" => pos' = Len(file.bags) + 1,
         outcome' = "ok" => AllNamed
  PROVE  BagsInOrder'
BY DEF BagsInOrder, BagsWait, FirstAreNamed, AllNamed, BagChain

(* There is no entry as long as a bag is left to read. *)
LEMMA NoEntryYet ==
  ASSUME Pkcs12Sound, BagsInOrder, file.form = "bags", pos \in DOMAIN file.bags
  PROVE  readEntries = << >>
<1>1. pos # Len(file.bags) + 1
  BY BagsOfFile
<1> QED  BY <1>1 DEF BagsInOrder

(* A bag that is no key bag leaves the key bags as they are. *)
LEMMA OtherBagPassed ==
  ASSUME Pkcs12Sound, file.form = "bags", pos \in DOMAIN file.bags \/ pos = 0, pos \notin KeyBag,
         file' = file, pos' = pos + 1
  PROVE  KeyBagsRead' = KeyBagsRead
<1>1. KeyBag' = KeyBag /\ KeyBag \subseteq Nat /\ pos \in Nat
  BY BagsOfFile DEF KeyBag, Pkcs12Sound
<1>2. \A i \in KeyBag : i < pos + 1 <=> i < pos
  BY <1>1
<1> QED  BY <1>1, <1>2 DEF KeyBagsRead

(* A certificate bag, before there are entries. *)
LEMMA ReadCertBagInOrder ==
  ASSUME Pkcs12Sound, BagsInOrder, ReadCertBag, Pkcs12Sound'
  PROVE  BagsInOrder'
<1>1. /\ file.form = "bags" /\ pos \in DOMAIN file.bags /\ outcome = "reading" /\ pos \notin KeyBag
      /\ UNCHANGED <<file, readKeys, readEntries, named, outcome>> /\ pos' = pos + 1
  BY DEF ReadCertBag, AtBag, CurrentBag, KeyBag, Advance
<1>2. KeyBagsRead' = KeyBagsRead
  BY <1>1, OtherBagPassed
<1>3. readEntries' = << >>
  BY <1>1, NoEntryYet
<1>4. BagsWait'
  BY <1>1, <1>2 DEF BagsWait, BagsInOrder
<1>5. FirstAreNamed'
  <2>1. Len(readCerts') \in Nat /\ Len(named') \in Nat
    BY DEF Pkcs12Sound, SoundSoFar, SoundStore
  <2>2. Len(readEntries') = 0 /\ DOMAIN readEntries' = {}
    BY <1>3
  <2> QED  BY <2>1, <2>2 DEF FirstAreNamed
<1> QED  BY <1>1, <1>3, <1>4, <1>5 DEF BagsInOrder

(* A key bag, before there are entries. *)
LEMMA ReadKeyBagInOrder ==
  ASSUME Pkcs12Sound, BagsInOrder, ReadKeyBag, Pkcs12Sound'
  PROVE  BagsInOrder'
<1> DEFINE k == CurrentBag.key
           w == [key |-> k, name |-> Trim[CurrentBag.name]]
<1>1. /\ file.form = "bags" /\ CurrentBag.kind = "key"
      /\ pos \in DOMAIN file.bags /\ outcome = "reading" /\ pos \in KeyBag
      /\ UNCHANGED <<file, readEntries, outcome>> /\ pos' = pos + 1
      /\ readKeys' = AppendNew(readKeys, <<k>>) /\ named' = Append(named, w)
  BY DEF ReadKeyBag, AtBag, CurrentBag, KeyBag, Advance
<1>2. readEntries' = << >>
  BY <1>1, NoEntryYet
<1>3. KeyBagsRead' = Append(KeyBagsRead, CurrentBag)
  <2>1. KeyBag' = KeyBag /\ KeyBag \subseteq Nat /\ pos \in Nat
    BY <1>1, BagsOfFile DEF KeyBag, Pkcs12Sound
  <2>2. \A i \in KeyBag : i < pos + 1 <=> i < pos \/ i = pos
    BY <2>1
  <2>3. {i \in KeyBag : i < pos + 1} = {i \in KeyBag : i < pos} \cup {pos}
    BY <1>1, <2>2
  <2>4. Pick(file.bags, {i \in KeyBag : i < pos} \cup {pos})
          = Append(Pick(file.bags, {i \in KeyBag : i < pos}), file.bags[pos])
    BY <1>1, BagsOfFile, PickNext
  <2> QED  BY <1>1, <2>1, <2>3, <2>4 DEF KeyBagsRead, CurrentBag
<1>4. k \in Key /\ w.key = k
  BY <1>1, BagType
<1>5. named \in Seq(WaitingKeys(readKeys)) /\ readKeys \in Seq(Key)
  BY DEF Pkcs12Sound, SoundSoFar, SoundStore
<1>6. KeyBagsRead \in Seq(Bag) /\ Len(KeyBagsRead) \in Nat
  BY <1>1, BagsOfFile
<1>7. CurrentBag.key = k
  OBVIOUS
<1> HIDE DEF k, w
<1>8. /\ DOMAIN named = 1 .. Len(named) /\ Len(named) \in Nat
      /\ DOMAIN named' = 1 .. (Len(named) + 1) /\ Len(named') = Len(named) + 1
      /\ \A i \in 1 .. Len(named) : named'[i] = named[i]
      /\ named'[Len(named) + 1] = w
  BY <1>1, <1>5
<1>9. /\ Len(KeyBagsRead') = Len(KeyBagsRead) + 1
      /\ \A i \in 1 .. Len(KeyBagsRead) : KeyBagsRead'[i] = KeyBagsRead[i]
      /\ KeyBagsRead'[Len(KeyBagsRead) + 1] = CurrentBag
  BY <1>3, <1>6
<1>10. /\ Len(named) = Len(KeyBagsRead)
       /\ \A i \in DOMAIN named : named[i].key = KeyBagsRead[i].key
       /\ ToSet(readKeys) = {named[i].key : i \in DOMAIN named}
  BY DEF BagsInOrder, BagsWait
<1>11. \A i \in 1 .. (Len(named) + 1) : i \in 1 .. Len(named) \/ i = Len(named) + 1
  BY <1>8
<1>12. BagsWait'
  <2>1. \A i \in DOMAIN named' : named'[i].key = KeyBagsRead'[i].key
    BY <1>4, <1>7, <1>8, <1>9, <1>10, <1>11
  <2>2. ToSet(readKeys') = ToSet(readKeys) \cup {k}
    BY <1>1, <1>4, <1>5, KeyAdds
  <2>3. {named'[i].key : i \in DOMAIN named'} = {named[i].key : i \in DOMAIN named} \cup {k}
    <3>1. \A i \in DOMAIN named' : i \in DOMAIN named \/ i = Len(named) + 1
      BY <1>8, <1>11
    <3>2. DOMAIN named \subseteq DOMAIN named' /\ Len(named) + 1 \in DOMAIN named'
      BY <1>8
    <3>3. \A i \in DOMAIN named : named'[i].key = named[i].key
      BY <1>8
    <3>4. named'[Len(named) + 1].key = k
      BY <1>4, <1>8
    <3> QED  BY <3>1, <3>2, <3>3, <3>4
  <2>4. Len(named') = Len(KeyBagsRead')
    BY <1>8, <1>9, <1>10
  <2> QED  BY <1>10, <2>1, <2>2, <2>3, <2>4 DEF BagsWait
<1>13. FirstAreNamed'
  <2>1. named' # << >> /\ Len(named') \in Nat
    BY <1>8
  <2>2. Len(readEntries') = 0 /\ DOMAIN readEntries' = {}
    BY <1>2
  <2> QED  BY <2>1, <2>2 DEF FirstAreNamed
<1> QED  BY <1>1, <1>2, <1>12, <1>13 DEF BagsInOrder

(* An entry of a list that grows is the new one or was there. *)
LEMMA EntryNamed ==
  ASSUME Pkcs12Sound, NEW e, readEntries' = Append(readEntries, e)
  PROVE  /\ Len(readEntries) \in Nat /\ Len(readEntries') = Len(readEntries) + 1
         /\ \A i \in DOMAIN readEntries' :
              \/ i \in DOMAIN readEntries /\ readEntries'[i] = readEntries[i]
              \/ i = Len(readEntries) + 1 /\ readEntries'[i] = e
<1>1. readEntries \in Seq(Sound(readCerts, readKeys))
  BY DEF Pkcs12Sound, SoundSoFar, SoundStore
<1>2. /\ DOMAIN readEntries = 1 .. Len(readEntries) /\ Len(readEntries) \in Nat
      /\ DOMAIN readEntries' = 1 .. (Len(readEntries) + 1)
      /\ Len(readEntries') = Len(readEntries) + 1
      /\ \A i \in 1 .. Len(readEntries) : readEntries'[i] = readEntries[i]
      /\ readEntries'[Len(readEntries) + 1] = e
  BY <1>1
<1>3. \A i \in 1 .. (Len(readEntries) + 1) : i \in 1 .. Len(readEntries) \/ i = Len(readEntries) + 1
  BY <1>2
<1> QED  BY <1>2, <1>3

(* The next key bag, or the next certificate, is named when all bags are
   read. *)
LEMMA NameInOrder ==
  ASSUME Pkcs12Sound, BagsInOrder, NameKey \/ NameCertificate
  PROVE  BagsInOrder'
<1>1. /\ UNCHANGED <<file, pos, readCerts, readKeys, outcome, named>> /\ outcome = "reading"
      /\ pos = Len(file.bags) + 1
  BY DEF NameKey, NameCertificate, BagsRead
<1>2. KeyBagsRead' = KeyBagsRead
  BY <1>1 DEF KeyBagsRead, KeyBag
<1>3. BagsWait'
  BY <1>1, <1>2 DEF BagsWait, BagsInOrder
<1>4. FirstAreNamed
  BY DEF BagsInOrder
<1>5. named \in Seq(WaitingKeys(readKeys)) /\ readCerts \in Seq(Cert)
  BY DEF Pkcs12Sound, SoundSoFar, SoundStore
<1>6. Len(named) \in Nat /\ Len(readCerts) \in Nat /\ Len(<< >>) = 0
  BY <1>5
<1>7. FirstAreNamed'
  <2>1. CASE NameKey
    <3> DEFINE k == named[Len(readEntries) + 1].key
    <3>1. PICK alias : readEntries' = Append(readEntries, KeyEntryOf(alias, k, BagChain(k)))
      BY <2>1 DEF NameKey
    <3> DEFINE e == KeyEntryOf(alias, k, BagChain(k))
    <3>2. e.key = k /\ e.chain = BagChain(k)
      BY DEF KeyEntryOf
    <3>3. readEntries' = Append(readEntries, e)
      BY <3>1
    <3> HIDE DEF e
    <3>4. /\ Len(readEntries) \in Nat /\ Len(readEntries') = Len(readEntries) + 1
          /\ \A i \in DOMAIN readEntries' :
               \/ i \in DOMAIN readEntries /\ readEntries'[i] = readEntries[i]
               \/ i = Len(readEntries) + 1 /\ readEntries'[i] = e
      BY <3>3, EntryNamed
    <3>5. Len(readEntries) < Len(named)
      BY <2>1 DEF NameKey
    <3>6. named # << >>
      BY <1>6, <3>4, <3>5
    <3>7. \A i \in DOMAIN readEntries' :
             readEntries'[i].key = named[i].key /\ readEntries'[i].chain = BagChain(named[i].key)
      BY <1>4, <3>2, <3>4, <3>6 DEF FirstAreNamed
    <3>8. Len(readEntries') <= Len(named)
      BY <1>6, <3>4, <3>5
    <3>9. \A x : BagChain(x)' = BagChain(x)
      BY <1>1 DEF BagChain
    <3> QED  BY <1>1, <3>6, <3>7, <3>8, <3>9 DEF FirstAreNamed
  <2>2. CASE NameCertificate
    <3> DEFINE c == readCerts[Len(readEntries) + 1]
    <3>1. PICK alias : readEntries' = Append(readEntries, TrustedEntry(alias, c))
      BY <2>2 DEF NameCertificate
    <3> DEFINE e == TrustedEntry(alias, c)
    <3>2. e.key = NoKey /\ e.chain = <<c>>
      BY DEF TrustedEntry
    <3>3. readEntries' = Append(readEntries, e)
      BY <3>1
    <3> HIDE DEF e
    <3>4. /\ Len(readEntries) \in Nat /\ Len(readEntries') = Len(readEntries) + 1
          /\ \A i \in DOMAIN readEntries' :
               \/ i \in DOMAIN readEntries /\ readEntries'[i] = readEntries[i]
               \/ i = Len(readEntries) + 1 /\ readEntries'[i] = e
      BY <3>3, EntryNamed
    <3>5. Len(readEntries) < Len(readCerts) /\ named = << >>
      BY <2>2 DEF NameCertificate
    <3>6. \A i \in DOMAIN readEntries' : readEntries'[i].key = NoKey
          /\ readEntries'[i].chain = <<readCerts[i]>>
      BY <1>4, <3>2, <3>4, <3>5 DEF FirstAreNamed
    <3>7. Len(readEntries') <= Len(readCerts)
      BY <1>6, <3>4, <3>5
    <3> QED  BY <1>1, <3>5, <3>6, <3>7 DEF FirstAreNamed
  <2> QED  BY <2>1, <2>2
<1> QED  BY <1>1, <1>3, <1>7 DEF BagsInOrder

(* No step makes an entry out of order, forgets a bag, or returns a store
   without one of the readers. *)
LEMMA Pkcs12NextAccounts ==
  ASSUME Pkcs12Accounts, [Pkcs12Next]_pkcs12Vars
  PROVE  Pkcs12Accounts'
<1>1. Pkcs12Sound /\ Pkcs12Sound'
  BY Pkcs12NextSound DEF Pkcs12Accounts
<1>2. file.form = "bags" => BagsInOrder
  BY DEF Pkcs12Accounts
<1>3. pos > 0 \/ Returned => file.form # "broken"
  BY DEF Pkcs12Accounts
<1>4. /\ file.form = "bags" => DOMAIN file.bags = 1 .. Len(file.bags) /\ Len(file.bags) \in Nat
      /\ pos \in Nat
  BY <1>1, BagsOfFile DEF Pkcs12Sound
<1>5. CASE FailDecryption \/ RejectBag
  <2>1. UNCHANGED <<file, opts, pos, readCerts, readKeys, readEntries, named>>
        /\ outcome' = "refused"
    BY <1>5 DEF FailDecryption, RejectBag, Return, store
  <2>2. KeyBagsRead' = KeyBagsRead
    BY <2>1 DEF KeyBagsRead, KeyBag
  <2>3. file.form = "bags" => BagsInOrder'
    BY <1>2, <2>1, <2>2, BagsStay DEF BagsInOrder
  <2> QED  BY <1>1, <1>3, <2>1, <2>3 DEF Pkcs12Accounts, Returned
<1>6. CASE OpenPair \/ OpenTrust
  <2>1. file.form \notin {"broken", "bags"} /\ UNCHANGED <<file, opts>>
    BY <1>6 DEF OpenPair, OpenTrust, Decrypts
  <2> QED  BY <1>1, <2>1 DEF Pkcs12Accounts
<1>7. CASE OpenBags
  <2>1. /\ file.form # "broken" /\ UNCHANGED <<file, opts, readCerts, readKeys, readEntries, named, outcome>>
        /\ pos = 0 /\ pos' = pos + 1 /\ file.form = "bags" /\ outcome = "reading"
    BY <1>7 DEF OpenBags, Decrypts, Advance, store
  <2>2. KeyBagsRead' = KeyBagsRead
    <3>1. pos \notin KeyBag
      BY <1>4, <2>1 DEF KeyBag
    <3> QED  BY <1>1, <2>1, <3>1, OtherBagPassed
  <2>3. readEntries = << >>
    BY <1>2, <1>4, <2>1 DEF BagsInOrder
  <2>4. BagsInOrder'
    BY <1>2, <2>1, <2>2, <2>3, BagsStay
  <2> QED  BY <1>1, <2>1, <2>4 DEF Pkcs12Accounts
<1>8. CASE ReadCertBag \/ ReadKeyBag
  <2>1. /\ UNCHANGED <<file, opts, outcome>> /\ pos' = pos + 1 /\ pos > 0
    BY <1>4, <1>8 DEF ReadCertBag, ReadKeyBag, AtBag, Advance
  <2>2. file.form = "bags" => BagsInOrder'
    BY <1>1, <1>2, <1>8, ReadCertBagInOrder, ReadKeyBagInOrder
  <2> QED  BY <1>1, <1>3, <2>1, <2>2 DEF Pkcs12Accounts
<1>9. CASE SkipBag
  <2>1. /\ UNCHANGED <<file, opts, readCerts, readKeys, readEntries, named, outcome>>
        /\ pos' = pos + 1
        /\ pos \in DOMAIN file.bags /\ pos \notin KeyBag /\ outcome = "reading" /\ pos > 0
        /\ file.form = "bags"
    BY <1>4, <1>9 DEF SkipBag, AtBag, CurrentBag, KeyBag, Advance, store
  <2>2. KeyBagsRead' = KeyBagsRead
    BY <1>1, <2>1, OtherBagPassed
  <2>3. ASSUME BagsInOrder  PROVE BagsInOrder'
    <3>1. readEntries = << >>
      BY <1>1, <2>1, <2>3, NoEntryYet
    <3> QED  BY <2>1, <2>2, <2>3, <3>1, BagsStay
  <2> QED  BY <1>1, <1>2, <1>3, <2>1, <2>3 DEF Pkcs12Accounts
<1>10. CASE NameKey \/ NameCertificate
  <2>1. UNCHANGED <<file, opts, pos, outcome>>
    BY <1>10 DEF NameKey, NameCertificate
  <2>2. file.form = "bags" => BagsInOrder'
    BY <1>1, <1>2, <1>10, NameInOrder
  <2> QED  BY <1>1, <1>3, <2>1, <2>2 DEF Pkcs12Accounts, Returned
<1>11. CASE FinishBags
  <2>1. /\ UNCHANGED <<file, opts, pos, readCerts, readKeys, readEntries, named>> /\ AllNamed
        /\ pos = Len(file.bags) + 1 /\ file.form = "bags"
    BY <1>11 DEF FinishBags, BagsRead, Return, store
  <2>2. KeyBagsRead' = KeyBagsRead
    BY <2>1 DEF KeyBagsRead, KeyBag
  <2>3. file.form = "bags" => BagsInOrder'
    BY <1>2, <2>1, <2>2, BagsStay
  <2>4. pos > 0
    BY <1>4, <2>1
  <2> QED  BY <1>1, <1>3, <2>1, <2>3, <2>4 DEF Pkcs12Accounts
<1>12. CASE UNCHANGED pkcs12Vars
  <2>1. UNCHANGED <<file, opts, pos, readCerts, readKeys, readEntries, outcome, named>>
    BY <1>12 DEF pkcs12Vars, store
  <2>2. KeyBagsRead' = KeyBagsRead
    BY <2>1 DEF KeyBagsRead, KeyBag
  <2>3. file.form = "bags" => BagsInOrder'
    BY <1>2, <2>1, <2>2, BagsStay DEF BagsInOrder
  <2> QED  BY <1>1, <1>3, <2>1, <2>3 DEF Pkcs12Accounts, Returned
<1> QED  BY <1>5, <1>6, <1>7, <1>8, <1>9, <1>10, <1>11, <1>12 DEF Pkcs12Next

(* No bag has been read at the start. *)
LEMMA Pkcs12Starts ==
  ASSUME Pkcs12Begins
  PROVE  Pkcs12Accounts
<1>1. /\ readEntries = << >> /\ named = << >> /\ readKeys = << >> /\ readCerts = << >>
      /\ pos = 0 /\ outcome = "reading"
  BY DEF Pkcs12Begins, EmptyStore
<1>2. Pkcs12Sound
  BY BeginsSound
<1>3. file.form = "bags" => Len(KeyBagsRead) = 0
  <2> SUFFICES ASSUME file.form = "bags"  PROVE Len(KeyBagsRead) = 0
    OBVIOUS
  <2>1. {i \in KeyBag : i < pos} = {}
    BY <1>1, <1>2, BagsOfFile DEF KeyBag
  <2> QED  BY <1>2, <2>1, BagsOfFile, PickProperties, FS_EmptySet DEF KeyBagsRead
<1>4. file.form = "bags" => BagsWait
  BY <1>1, <1>3 DEF BagsWait, ToSet
<1>5. FirstAreNamed
  BY <1>1 DEF FirstAreNamed
<1> QED  BY <1>1, <1>2, <1>4, <1>5 DEF Pkcs12Accounts, BagsInOrder, Returned

(* The invariant holds all the time. *)
LEMMA Pkcs12AccountsInductive == Pkcs12Spec => []Pkcs12Accounts
<1>1. Pkcs12Init => Pkcs12Accounts
  BY Pkcs12Starts, Pkcs12InitBegins
<1>2. Pkcs12Accounts /\ [Pkcs12Next]_pkcs12Vars => Pkcs12Accounts'
  BY Pkcs12NextAccounts
<1> QED  BY <1>1, <1>2, PTL DEF Pkcs12Spec

(* When all is named, every key bag or certificate has an entry. *)
LEMMA BagsHaveEntries ==
  ASSUME Pkcs12Accounts
  PROVE  EveryBagHasEntry
<1> DEFINE keyBags == Pick(file.bags, KeyBag)
<1> SUFFICES ASSUME Pkcs12Accounts, outcome = "ok", file.form = "bags"
             PROVE  IF keyBags # << >>
                    THEN [i \in DOMAIN readEntries |-> readEntries[i].key]
                           = [i \in DOMAIN keyBags |-> keyBags[i].key]
                    ELSE [i \in DOMAIN readEntries |-> readEntries[i].chain]
                           = [i \in DOMAIN readCerts |-> <<readCerts[i]>>]
  BY DEF EveryBagHasEntry, KeyBag
<1>1. Pkcs12Sound /\ BagsWait /\ FirstAreNamed /\ AllNamed /\ pos = Len(file.bags) + 1
  BY DEF Pkcs12Accounts, BagsInOrder
<1>2. keyBags = KeyBagsRead
  <2>1. \A i \in KeyBag : i < pos
    BY <1>1, BagsOfFile DEF KeyBag
  <2>2. {i \in KeyBag : i < pos} = KeyBag
    BY <2>1
  <2> QED  BY <2>2 DEF KeyBagsRead
<1> HIDE DEF keyBags
<1>3. /\ keyBags \in Seq(Bag) /\ named \in Seq(WaitingKeys(readKeys)) /\ readCerts \in Seq(Cert)
      /\ readEntries \in Seq(Sound(readCerts, readKeys))
  BY <1>1, <1>2, BagsOfFile DEF Pkcs12Sound, SoundSoFar, SoundStore
<1>4. /\ Len(keyBags) \in Nat /\ Len(named) \in Nat /\ Len(readCerts) \in Nat
      /\ Len(readEntries) \in Nat /\ Len(named) = Len(keyBags)
  BY <1>1, <1>2, <1>3 DEF BagsWait
<1>5. CASE keyBags # << >>
  <2>1. named # << >> /\ Len(readEntries) = Len(named)
    <3>1. Len(keyBags) # 0
      BY <1>3, <1>5
    <3>2. named # << >>
      BY <1>4, <3>1
    <3> QED  BY <1>1, <1>4, <3>2 DEF FirstAreNamed, AllNamed
  <2>2. DOMAIN readEntries = DOMAIN keyBags /\ DOMAIN named = DOMAIN readEntries
    BY <1>3, <1>4, <2>1
  <2>3. \A i \in DOMAIN readEntries : readEntries[i].key = keyBags[i].key
    BY <1>1, <1>2, <2>1, <2>2 DEF FirstAreNamed, BagsWait
  <2> QED  BY <1>5, <2>2, <2>3
<1>6. CASE keyBags = << >>
  <2>1. named = << >>
    BY <1>3, <1>4, <1>6
  <2>2. Len(readEntries) = Len(readCerts)
    BY <1>1, <1>4, <2>1 DEF FirstAreNamed, AllNamed
  <2>3. DOMAIN readEntries = DOMAIN readCerts
    BY <1>3, <1>4, <2>2
  <2>4. \A i \in DOMAIN readEntries : readEntries[i].chain = <<readCerts[i]>>
    BY <1>1, <2>1 DEF FirstAreNamed
  <2> QED  BY <1>6, <2>3, <2>4
<1> QED  BY <1>5, <1>6

(* Every key bag of a file, or else every certificate, has an entry. *)
THEOREM Pkcs12EveryBagHasEntry == Pkcs12Spec => []EveryBagHasEntry
<1>1. Pkcs12Accounts => EveryBagHasEntry
  BY BagsHaveEntries
<1> QED  BY <1>1, Pkcs12AccountsInductive, PTL

(* The chains that openPKCS12 builds are those that the re-match would build. *)
LEMMA BagsAreSettled ==
  ASSUME Pkcs12Accounts
  PROVE  OpenFindsSettled
<1> SUFFICES ASSUME Pkcs12Accounts, outcome = "ok", file.form = "bags"
             PROVE  Reconcile(readEntries, readCerts, readKeys) = readEntries
  BY DEF OpenFindsSettled
<1>1. BagsWait /\ FirstAreNamed /\ AllNamed
  BY DEF Pkcs12Accounts, BagsInOrder
<1>2. /\ named \in Seq(WaitingKeys(readKeys)) /\ readCerts \in Seq(Cert) /\ readKeys \in Seq(Key)
      /\ readEntries \in Seq(Sound(readCerts, readKeys))
  BY DEF Pkcs12Accounts, Pkcs12Sound, SoundSoFar, SoundStore
<1>3. \A i \in DOMAIN readEntries : /\ readEntries[i] \in Sound(readCerts, readKeys)
                                    /\ readEntries[i] = [readEntries[i] EXCEPT !.chain = readEntries[i].chain]
  <2>1. \A i \in DOMAIN readEntries : readEntries[i] \in Sound(readCerts, readKeys)
    BY <1>2
  <2> QED  BY <2>1 DEF Sound, Entry
<1>4. ASSUME NEW i \in DOMAIN readEntries  PROVE Rechained(readEntries[i], readCerts) = readEntries[i]
  <2>1. CASE named = << >>
    <3>1. readEntries[i].key = NoKey
      BY <1>1, <2>1 DEF FirstAreNamed
    <3> QED  BY <3>1 DEF Rechained
  <2>2. CASE named # << >>
    <3>1. /\ readEntries[i].key = named[i].key
          /\ readEntries[i].chain = MatchedChain(readEntries[i].key, readCerts)
      BY <1>1, <2>2 DEF FirstAreNamed, BagChain
    <3>2. readEntries[i].key \in Key
      <4>1. Len(readEntries) <= Len(named) /\ Len(readEntries) \in Nat /\ Len(named) \in Nat
        BY <1>1, <1>2, <2>2 DEF FirstAreNamed
      <4>2. i \in DOMAIN named
        BY <1>2, <4>1
      <4>3. named[i].key \in ToSet(readKeys)
        BY <1>1, <4>2 DEF BagsWait
      <4> QED  BY <1>2, <3>1, <4>3, RangeOf
    <3> QED  BY <1>2, <1>3, <3>1, <3>2, MatchedIsRechained
  <2> QED  BY <2>1, <2>2
<1>5. ToSet(readKeys) \subseteq {readEntries[i].key : i \in DOMAIN readEntries}
  <2>1. CASE named = << >>
    <3>1. ToSet(readKeys) = {}
      BY <1>1, <2>1 DEF BagsWait
    <3> QED  BY <3>1
  <2>2. CASE named # << >>
    <3>1. Len(readEntries) = Len(named) /\ DOMAIN readEntries = DOMAIN named
      BY <1>1, <1>2, <2>2 DEF FirstAreNamed, AllNamed
    <3>2. \A i \in DOMAIN readEntries : readEntries[i].key = named[i].key
      BY <1>1, <2>2 DEF FirstAreNamed
    <3> QED  BY <1>1, <3>1, <3>2 DEF BagsWait
  <2> QED  BY <2>1, <2>2
<1> QED  BY <1>2, <1>4, <1>5, ReconcileFixed

(* Open's re-match finds nothing to change in a file of bags, whatever their
   order. *)
THEOREM Pkcs12OpenFindsSettled == Pkcs12Spec => []OpenFindsSettled
<1>1. Pkcs12Accounts => OpenFindsSettled
  BY BagsAreSettled
<1> QED  BY <1>1, Pkcs12AccountsInductive, PTL
-----------------------------------------------------------------------------
(***************************************************************************)
(* Open: what a caller gets, whatever the data and the limits, is a store  *)
(* within the limits, sound and already re-matched.                        *)
(***************************************************************************)

(* The opener that runs keeps its own invariants. *)
OpenerRuns ==
  \/ IsJks /\ JksAccounts /\ JksEntries
  \/ IsPem /\ PemReads
  \/ IsPkcs12 /\ Pkcs12Accounts

(* The inductive invariant: the openers start from an empty store and keep
   their invariants, which hold on when Open has concluded. *)
OpenSound ==
  /\ call \in Calls
  /\ stage = "called" => Idle
  /\ stage = "opening" => OpenerRuns
  /\ (file.format = "none" /\ outcome = "reading") \/ OpenerRuns
  /\ OpenReturnsSettled

(* What the openers promise of the store they return, all together. *)
OpenersPromises ==
  /\ OpensSoundly
  /\ SuccessIsComplete /\ PasswordsLoseNoEntry /\ KeysNeedPasswords
  /\ ReturnsWhatWasRead /\ EncryptionNeedsPassword
  /\ AliasesDiffer /\ EveryBagHasEntry /\ OpenFindsSettled

(* A file belongs to one opener only. *)
LEMMA OneOpener == ~(IsJks /\ IsPem) /\ ~(IsJks /\ IsPkcs12) /\ ~(IsPem /\ IsPkcs12)
BY DEF IsJks, IsPem, IsPkcs12

(* An opener that keeps its invariants keeps its promises. *)
LEMMA PromisesKept == OpenerRuns => OpenersPromises
<1>1. CASE IsJks /\ JksAccounts /\ JksEntries
  <2>1. ~IsPem /\ ~IsPkcs12
    BY <1>1, OneOpener
  <2>2. OpensSoundly /\ SuccessIsComplete /\ PasswordsLoseNoEntry
    BY <1>1, SoundResult, AccountsAreComplete, EntriesAreAll DEF JksAccounts, JksReading
  <2>3. KeysNeedPasswords
    BY <1>1 DEF JksAccounts, KeysNeedPasswords
  <2> QED  BY <2>1, <2>2, <2>3
           DEF OpenersPromises, ReturnsWhatWasRead, EncryptionNeedsPassword, AliasesDiffer,
               EveryBagHasEntry, OpenFindsSettled
<1>2. CASE IsPem /\ PemReads
  <2>1. ~IsJks /\ ~IsPkcs12
    BY <1>2, OneOpener
  <2>2. OpensSoundly
    BY <1>2, SoundResult DEF PemReads, PemSound
  <2>3. ReturnsWhatWasRead /\ EncryptionNeedsPassword
    BY <1>2 DEF PemReads, ReturnsWhatWasRead, EncryptionNeedsPassword
  <2> QED  BY <2>1, <2>2, <2>3
           DEF OpenersPromises, SuccessIsComplete, PasswordsLoseNoEntry, KeysNeedPasswords,
               AliasesDiffer, EveryBagHasEntry, OpenFindsSettled
<1>3. CASE IsPkcs12 /\ Pkcs12Accounts
  <2>1. ~IsJks /\ ~IsPem
    BY <1>3, OneOpener
  <2>2. OpensSoundly /\ EveryBagHasEntry /\ OpenFindsSettled
    BY <1>3, SoundResult, BagsHaveEntries, BagsAreSettled DEF Pkcs12Accounts, Pkcs12Sound
  <2>3. AliasesDiffer
    BY <1>3 DEF Pkcs12Accounts, Pkcs12Sound, AliasesDiffer
  <2> QED  BY <2>1, <2>2, <2>3
           DEF OpenersPromises, SuccessIsComplete, PasswordsLoseNoEntry, KeysNeedPasswords,
               ReturnsWhatWasRead, EncryptionNeedsPassword
<1> QED  BY <1>1, <1>2, <1>3 DEF OpenerRuns

(* Re-matching a sound store makes it one that Open may return. *)
LEMMA OpenedIsSettled ==
  ASSUME NEW cs, NEW ks, NEW es, NEW org, SoundStore(cs, ks, es, org), NEW b \in BOOLEAN,
         NEW f, f = Opened([certs |-> cs, keys |-> ks, entries |-> es, origin |-> org,
                            failed |-> b])
  PROVE  /\ IsOpened(f) /\ f.certs = cs /\ f.keys = ks
         /\ ToSet(ks) \subseteq {f.entries[i].key : i \in DOMAIN f.entries}
         /\ Reconcile(f.entries, cs, ks) = f.entries
<1> DEFINE r == Reconcile(es, cs, ks)
<1>1. cs \in Seq(Cert) /\ ks \in Seq(Key) /\ es \in Seq(Sound(cs, ks))
  BY DEF SoundStore
<1>2. r \in Seq(Sound(cs, ks)) /\ Reconcile(r, cs, ks) = r
  BY <1>1, ReconcileIsSound, ReconcileIsIdempotent
<1>3. ToSet(ks) \subseteq {r[i].key : i \in DOMAIN r}
  <2>1. \A k \in ToSet(ks) : \E e \in ToSet(r) : e.key = k
    BY <1>1, ReconcileNamesKeys
  <2> HIDE DEF r
  <2> QED  BY <2>1 DEF ToSet
<1>4. f = [certs |-> cs, keys |-> ks, entries |-> r, origin |-> org, failed |-> b]
  BY DEF Opened
<1> HIDE DEF r
<1>5. IsOpened(f)
  <2>1. SoundStore(cs, ks, r, org)
    BY <1>2 DEF SoundStore
  <2> QED  BY <1>4, <2>1, SoundIsOpened
<1>6. f.certs = cs /\ f.keys = ks /\ f.entries = r
  BY <1>4
<1> QED  BY <1>2, <1>3, <1>5, <1>6

(* The initial states of the openers, of the state after a step. *)
LEMMA OpenersStart ==
  /\ JksBegins' => JksAccounts' /\ JksEntries'
  /\ PemBegins' => PemReads'
  /\ Pkcs12Begins' => Pkcs12Accounts'
<1>1. JksBegins => JksAccounts /\ JksEntries
  BY JksStarts, EntriesStart
<1>2. PemBegins => PemReads
  BY PemStarts
<1>3. Pkcs12Begins => Pkcs12Accounts
  BY Pkcs12Starts
<1> QED  BY <1>1, <1>2, <1>3, PTL

(* The opener of the format starts as in its own specification. *)
LEMMA DispatchStarts ==
  ASSUME OpenSound,
         \/ Dispatch({"jks"}, JksOptions, 0)
         \/ Dispatch({"pem", "der", "pkcs7"}, PemOptions, 1)
         \/ Dispatch({"pkcs12"}, Pkcs12Options, 0)
  PROVE  stage' = "opening" /\ OpenerRuns'
<1> DEFINE f == Format(call)
<1>1. /\ stage = "called" /\ stage' = "opening" /\ file' = View(f, call.data)
      /\ UNCHANGED <<store, outcome, loadErr, named, certAlias>>
  BY DEF Dispatch
<1>2. call \in Calls /\ Idle
  BY <1>1 DEF OpenSound
<1>3. /\ EmptyStore' /\ outcome' = "reading" /\ loadErr' = FALSE
      /\ named' = << >> /\ certAlias' = [c \in Cert |-> Empty]
  BY <1>1, <1>2 DEF Idle, EmptyStore, store
<1>4. f \in Supported =>
        /\ file'.format = f
        /\ CASE f = "jks" -> IsJksFile(file')
             [] f = "pkcs12" -> IsPkcs12File(file')
             [] OTHER -> IsPemFile(file')
  BY <1>1, <1>2, OpenInputsWellFormed DEF OpenInputs
<1> HIDE DEF f
<1>5. CASE Dispatch({"jks"}, JksOptions, 0)
  <2>1. f = "jks" /\ IsJksOptions(opts') /\ pos' = 0
    BY <1>5, JksInputsWellFormed DEF Dispatch, f, JksInputs
  <2>2. IsJks' /\ JksBegins'
    BY <1>3, <1>4, <2>1 DEF IsJks, JksBegins, Supported
  <2> QED  BY <1>1, <2>2, OpenersStart DEF OpenerRuns
<1>6. CASE Dispatch({"pem", "der", "pkcs7"}, PemOptions, 1)
  <2>1. f \in {"pem", "der", "pkcs7"} /\ IsPemOptions(opts') /\ pos' = 1
    BY <1>6, PemInputsWellFormed DEF Dispatch, f, PemInputs
  <2>2. IsPem' /\ PemBegins'
    BY <1>3, <1>4, <2>1 DEF IsPem, PemBegins, Supported
  <2> QED  BY <1>1, <2>2, OpenersStart DEF OpenerRuns
<1>7. CASE Dispatch({"pkcs12"}, Pkcs12Options, 0)
  <2>1. f = "pkcs12" /\ IsPkcs12Options(opts') /\ pos' = 0
    BY <1>7, Pkcs12InputsWellFormed DEF Dispatch, f, Pkcs12Inputs
  <2>2. IsPkcs12' /\ Pkcs12Begins'
    BY <1>3, <1>4, <2>1 DEF IsPkcs12, Pkcs12Begins, Supported
  <2> QED  BY <1>1, <2>2, OpenersStart DEF OpenerRuns
<1> QED  BY <1>5, <1>6, <1>7

(* The opener that was called goes on as in its own specification. *)
LEMMA OpenersStaySound ==
  ASSUME OpenSound, RunJks \/ RunPem \/ RunPkcs12
  PROVE  OpenerRuns' /\ UNCHANGED callVars
<1>1. stage = "opening" /\ OpenerRuns
  BY DEF RunJks, RunPem, RunPkcs12, OpenSound
<1>2. CASE RunJks
  <2>1. IsJks /\ JksAccounts /\ JksEntries /\ JksNext /\ UNCHANGED callVars
    BY <1>1, <1>2, OneOpener DEF RunJks, OpenerRuns
  <2>2. JksAccounts' /\ JksEntries'
    BY <2>1, JksNextAccounts, JksNextEntries
  <2>3. file' = file
    BY <2>1 DEF JksNext, Load, ReadTrusted, ReadKeyEntry, SkipOther, RejectItem,
                FinishJks, Advance, Return
  <2> QED  BY <2>1, <2>2, <2>3 DEF OpenerRuns, IsJks
<1>3. CASE RunPem
  <2>1. IsPem /\ PemReads /\ PemNext /\ UNCHANGED callVars
    BY <1>1, <1>3, OneOpener DEF RunPem, OpenerRuns
  <2>2. PemReads' /\ file' = file
    BY <2>1, PemNextReads, PemInputStays DEF PemReads
  <2> QED  BY <2>1, <2>2 DEF OpenerRuns, IsPem
<1>4. CASE RunPkcs12
  <2>1. IsPkcs12 /\ Pkcs12Accounts /\ Pkcs12Next /\ UNCHANGED callVars
    BY <1>1, <1>4, OneOpener DEF RunPkcs12, OpenerRuns
  <2>2. Pkcs12Accounts'
    BY <2>1, Pkcs12NextAccounts
  <2>3. file' = file
    BY <2>1 DEF Pkcs12Next, FailDecryption, OpenPair, OpenTrust, OpenBags, ReadCertBag,
                ReadKeyBag, SkipBag, RejectBag, NameKey, NameCertificate, FinishBags,
                Advance, Return
  <2> QED  BY <2>1, <2>2, <2>3 DEF OpenerRuns, IsPkcs12
<1> QED  BY <1>2, <1>3, <1>4

(* The openers' part of the state does not change when Open does something
   else. *)
LEMMA OpenerRests ==
  ASSUME UNCHANGED <<file, opts, pos, store, outcome, loadErr, named, certAlias>>
  PROVE  OpenerRuns' = OpenerRuns
<1>1. /\ SoundSoFar' = SoundSoFar
      /\ UNCHANGED <<file, opts, pos, readCerts, readKeys, readEntries, readOrigin, outcome, loadErr, named>>
  BY DEF SoundSoFar, SoundStore, store
<1>2. IsJks' = IsJks /\ IsPem' = IsPem /\ IsPkcs12' = IsPkcs12
  BY <1>1 DEF IsJks, IsPem, IsPkcs12
<1>3. JksAccounts' = JksAccounts /\ JksEntries' = JksEntries
  BY <1>1 DEF JksAccounts, JksEntries, JksReading, KeysWereUnlocked, Known, EntryItem, Verified,
              EntriesOfItems, EntryItemsRead, Returned
<1>4. PemReads' = PemReads
  BY <1>1 DEF PemReads, PemSound, HoldsTaken, EncryptionsWereUndone, Taken, TakenOf
<1>5. Pkcs12Accounts' = Pkcs12Accounts
  BY <1>1 DEF Pkcs12Accounts, Pkcs12Sound, NoSharedAlias, WaitingKeys, Returned, BagsInOrder,
              BagsWait, FirstAreNamed, KeyBagsRead, KeyBag, AllNamed, BagChain
<1> QED  BY <1>2, <1>3, <1>4, <1>5 DEF OpenerRuns

(* What the opener returned, re-matched and counted, is what Open returns. *)
LEMMA ConcludeSettles ==
  ASSUME OpenSound, Conclude
  PROVE  stage' \in {"store", "error"} /\ OpenReturnsSettled'
<1>1. CASE Returned /\ Passes(Result, Normalized(call.limits))
  <2>1. SoundSoFar
    BY DEF Conclude, OpenSound, OpenerRuns, JksAccounts, PemReads, Pkcs12Accounts, JksReading,
           PemSound, Pkcs12Sound
  <2>2. stage' = "store" /\ opened' = Opened(Result) /\ call' = call
    BY <1>1 DEF Conclude
  <2>3. /\ IsOpened(opened') /\ opened'.certs = readCerts /\ opened'.keys = readKeys
        /\ ToSet(readKeys) \subseteq {opened'.entries[i].key : i \in DOMAIN opened'.entries}
        /\ Reconcile(opened'.entries, readCerts, readKeys) = opened'.entries
    <3>1. PICK b \in BOOLEAN : opened' = Opened([certs |-> readCerts, keys |-> readKeys,
                                 entries |-> readEntries, origin |-> readOrigin, failed |-> b])
      <4>1. (outcome # "ok") \in BOOLEAN
        OBVIOUS
      <4> QED  BY <2>2, <4>1 DEF Result
    <3>2. SoundStore(readCerts, readKeys, readEntries, readOrigin)
      BY <2>1 DEF SoundSoFar
    <3> QED  BY <3>1, <3>2, OpenedIsSettled
  <2>4. /\ Len(readCerts) <= Normalized(call.limits).certs
        /\ Len(readKeys) <= Normalized(call.limits).keys
    BY <1>1 DEF Passes, Result
  <2> QED  BY <2>2, <2>3, <2>4 DEF OpenReturnsSettled
<1>2. CASE ~(Returned /\ Passes(Result, Normalized(call.limits)))
  BY <1>2 DEF Conclude, OpenReturnsSettled
<1> QED  BY <1>1, <1>2

(* Every step of Open and of the opener that it called keeps the invariant. *)
LEMMA OpenNextSound ==
  ASSUME OpenSound, [OpenNext]_openVars
  PROVE  OpenSound'
<1>1. call' \in Calls
  BY DEF OpenSound, OpenNext, RefuseInput, Dispatch, RunJks, RunPem, RunPkcs12, Conclude,
         callVars, openVars
<1>2. CASE RefuseInput
  <2>1. OpenerRuns' = OpenerRuns /\ file' = file /\ outcome' = outcome
    BY <1>2, OpenerRests DEF RefuseInput
  <2> QED  BY <1>1, <1>2, <2>1 DEF RefuseInput, OpenSound, OpenReturnsSettled
<1>3. CASE \/ Dispatch({"jks"}, JksOptions, 0)
           \/ Dispatch({"pem", "der", "pkcs7"}, PemOptions, 1)
           \/ Dispatch({"pkcs12"}, Pkcs12Options, 0)
  BY <1>1, <1>3, DispatchStarts DEF OpenSound, OpenReturnsSettled
<1>4. CASE RunJks \/ RunPem \/ RunPkcs12
  <2>1. stage = "opening" /\ stage' = "opening" /\ OpenerRuns'
    BY <1>4, OpenersStaySound DEF RunJks, RunPem, RunPkcs12, callVars
  <2> QED  BY <1>1, <2>1 DEF OpenSound, OpenReturnsSettled
<1>5. CASE Conclude
  <2>1. OpenerRuns' = OpenerRuns /\ OpenerRuns
    BY <1>5, OpenerRests DEF Conclude, OpenSound
  <2> QED  BY <1>1, <1>5, <2>1, ConcludeSettles DEF OpenSound
<1>6. CASE UNCHANGED openVars
  <2>1. UNCHANGED <<file, opts, pos, store, outcome, loadErr, named, certAlias, call, stage,
                    opened>>
    BY <1>6 DEF openVars, callVars
  <2>2. Idle' = Idle /\ OpenReturnsSettled' = OpenReturnsSettled
    BY <2>1 DEF Idle, EmptyStore, store, OpenReturnsSettled
  <2>3. OpenerRuns' = OpenerRuns
    BY <2>1, OpenerRests
  <2> QED  BY <1>1, <2>1, <2>2, <2>3 DEF OpenSound
<1> QED  BY <1>2, <1>3, <1>4, <1>5, <1>6 DEF OpenNext

(* The invariant holds all the time. *)
LEMMA OpenInductive == OpenSpec => []OpenSound
<1>1. OpenInit => OpenSound
  BY DEF OpenInit, OpenSound, OpenReturnsSettled, Idle
<1>2. OpenSound /\ [OpenNext]_openVars => OpenSound'
  BY OpenNextSound
<1> QED  BY <1>1, <1>2, PTL DEF OpenSpec

(* Whatever the data, the format, the passwords and the limits: a store that
   Open returns, also one that comes with an error, keeps to the limits, has an
   entry for every key, and has nothing left to re-match. *)
THEOREM OpenReturnsSettledStores == OpenSpec => []OpenReturnsSettled
<1>1. OpenSound => OpenReturnsSettled
  BY DEF OpenSound
<1> QED  BY <1>1, OpenInductive, PTL

(* What each opener promises holds of the opener that Open calls, whatever the
   data and whether Detect or the caller chose the format. *)
THEOREM OpenKeepsPromises == OpenSpec => []OpenersPromises
<1>1. file.format = "none" /\ outcome = "reading" => OpenersPromises
  BY DEF OpenersPromises, OpensSoundly, Returned, IsJks, IsPem, IsPkcs12, SuccessIsComplete,
         PasswordsLoseNoEntry, KeysNeedPasswords, ReturnsWhatWasRead, EncryptionNeedsPassword,
         AliasesDiffer, EveryBagHasEntry, OpenFindsSettled
<1>2. OpenSound => OpenersPromises
  BY <1>1, PromisesKept DEF OpenSound
<1> QED  BY <1>2, OpenInductive, PTL
=============================================================================
