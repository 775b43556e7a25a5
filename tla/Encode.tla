------------------------------- MODULE Encode -------------------------------
(***************************************************************************)
(* Store.Encode (encode*.go): what each output format takes from a store,  *)
(* when it refuses, and what its report says.  An output is the list of    *)
(* the items written, in order: a certificate, a private key, or an entry  *)
(* of a key store with its alias and chain.  Encoding does not change the  *)
(* store, so the properties are invariants of the store's behaviours.      *)
(*                                                                         *)
(* Failures of the cryptographic libraries on well-formed objects are left *)
(* out.                                                                    *)
(***************************************************************************)
EXTENDS Store, Passwords

CONSTANTS
  Lower,            \* strings.ToLower
  MyKey,            \* "mykey"
  LongPasswords,    \* those of at least six bytes, which JKS asks for
  CertificateAlias, \* "certificate-" and the first digits of an identifier
  Options           \* the EncodeOptions that callers pass

ASSUME EncodeConstants ==
  /\ Lower \in [Alias -> Alias]
  /\ MyKey \in Alias
  /\ LongPasswords \subseteq Password
  /\ CertificateAlias \in [Cert -> Alias]
  /\ \A o \in Options :
        /\ o.password \in Password \cup {NoPassword}
        /\ o.keyPassword \in Password \cup {NoPassword}
        /\ o.keyPasswords \in [Alias -> Password \cup {NoPassword}]
        /\ \A a \in Alias : Cardinality(PasswordsByAlias(o.keyPasswords, a)) = 1
        /\ o.alias \in Alias /\ o.names \in [Key -> Alias]
        /\ {o.allowLossy, o.encryptKeys, o.excludeRoots, o.validPKCS12} \subseteq BOOLEAN

Item(alias, key, chain) == [alias |-> alias, key |-> key, chain |-> chain]

Refuse(reason) == [err |-> reason]

(* A successful result; "report" is the ConversionReport. *)
Accept(items, aliases, certCount, keyCount, lostCerts, lostKeys) ==
  [err |-> "none", items |-> items,
   report |-> [aliases |-> aliases,
               certsWritten |-> certCount, keysWritten |-> keyCount,
               certsDiscarded |-> lostCerts, keysDiscarded |-> lostKeys]]

CertItems(cs) == [i \in DOMAIN cs |-> Item(Empty, NoKey, <<cs[i]>>)]
KeyItems(ks)  == [i \in DOMAIN ks |-> Item(Empty, ks[i], << >>)]

(* Faults for the runs to detect stand before the definition they replace. *)

(* Excluded roots are not counted as discarded. *)
PEMUncounted(cs, ks, o) ==
  LET kept == Keep(cs, {c \in Cert : ~(o.excludeRoots /\ IsRoot(c))})
  IN  IF o.encryptKeys /\ ks # << >> /\ o.password = NoPassword THEN Refuse("Password")
      ELSE IF kept = << >> /\ ks = << >> THEN Refuse("InvalidData")
      ELSE Accept(CertItems(kept) \o KeyItems(ks), << >>, Len(kept), Len(ks), 0, 0)

(* encodePEM of a store with these certificates and keys. *)
PEM(cs, ks, o) ==
  LET kept == Keep(cs, {c \in Cert : ~(o.excludeRoots /\ IsRoot(c))})
  IN  IF o.encryptKeys /\ ks # << >> /\ o.password = NoPassword THEN Refuse("Password")
      ELSE IF kept = << >> /\ ks = << >> THEN Refuse("InvalidData")
      ELSE Accept(CertItems(kept) \o KeyItems(ks), << >>, Len(kept), Len(ks),
                  Len(cs) - Len(kept), 0)

EncodePEM(o) == PEM(certs, keys, o)

(* The certificates of the chain that are written are those above the leaf. *)
CertificateChainAboveLeaf(e, o) ==
  LET kept == Keep(SubSeq(e.chain, 2, Len(e.chain)), {c \in Cert : ~(o.excludeRoots /\ IsRoot(c))})
  IN  IF kept = << >> THEN Refuse("NoCertificate")
      ELSE PEM(AppendNew(<< >>, kept), << >>, o)

(* CertificateChainPEM of an entry. *)
CertificateChainPEM(e, o) ==
  LET kept == Keep(e.chain, {c \in Cert : ~(o.excludeRoots /\ IsRoot(c))})
  IN  IF NoCert \in ToSet(e.chain) THEN Refuse("InvalidData")
      ELSE IF kept = << >> THEN Refuse("NoCertificate")
      ELSE PEM(AppendNew(<< >>, kept), << >>, o)

(* PrivateKeyPEM of an entry. *)
PrivateKeyPEM(e, o) ==
  IF e.key = NoKey \/ e.status # "available" THEN Refuse("NoPrivateKey")
  ELSE PEM(<< >>, <<e.key>>, o)

EncodeDER(o) ==
  LET objects == Len(certs) + Len(keys)
  IN  IF objects = 0 THEN Refuse("InvalidData")
      ELSE IF objects > 1 /\ ~o.allowLossy THEN Refuse("LossyConversion")
      ELSE IF certs # << >>
      THEN Accept(CertItems(<<certs[1]>>), << >>, 1, 0, Len(certs) - 1, Len(keys))
      ELSE Accept(KeyItems(<<keys[1]>>), << >>, 0, 1, 0, Len(keys) - 1)

(* Private keys are dropped without asking. *)
EncodePKCS7Silently(o) ==
  IF certs = << >> THEN Refuse("NoCertificate")
  ELSE Accept(CertItems(certs), << >>, Len(certs), 0, 0, Len(keys))

EncodePKCS7(o) ==
  IF certs = << >> THEN Refuse("NoCertificate")
  ELSE IF keys # << >> /\ ~o.allowLossy THEN Refuse("LossyConversion")
  ELSE Accept(CertItems(certs), << >>, Len(certs), 0, 0, Len(keys))
-----------------------------------------------------------------------------
(* privateKeyEntries: the positions of the entries with a key and this alias. *)
KeyEntries(alias) ==
  {i \in DOMAIN entries : /\ entries[i].key # NoKey
                          /\ alias = Empty \/ Fold[entries[i].alias] = Fold[alias]}

(* The friendly name of the i-th stored certificate in a trust store: the
   alias of the entry at the same position, if there is one. *)
FriendlyName(i) ==
  IF i <= Len(entries) /\ entries[i].alias # Empty
  THEN entries[i].alias ELSE DefaultAlias[certs[i]]

TrustStore ==
  LET names == [i \in DOMAIN certs |-> FriendlyName(i)]
  IN  Accept([i \in DOMAIN certs |-> Item(names[i], NoKey, <<certs[i]>>)],
             names, Len(certs), 0, 0, 0)

KeyStore(e, o) ==
  LET lostCerts == Len(certs) - Len(e.chain)
      lostKeys  == Len(keys) - 1
  IN  IF e.chain = << >> THEN Refuse("NoCertificate")
      ELSE IF ~Matches(e.key, e.chain[1]) THEN Refuse("KeyMismatch")
      ELSE IF (lostCerts > 0 \/ lostKeys > 0) /\ ~o.allowLossy
      THEN Refuse("LossyConversion")
      ELSE Accept(<<Item(e.alias, e.key, e.chain)>>, <<e.alias>>,
                  Len(e.chain), 1, lostCerts, lostKeys)

EncodePKCS12(o) ==
  LET selected == KeyEntries(o.alias)
  IN  IF o.password = NoPassword THEN Refuse("Password")
      ELSE IF ~o.validPKCS12 THEN Refuse("InvalidData")
      ELSE IF selected = {} /\ keys # << >> THEN Refuse("NoPrivateKey")
      ELSE IF selected = {} THEN TrustStore
      ELSE IF Cardinality(selected) > 1 THEN Refuse("LossyConversion")
      ELSE KeyStore(entries[CHOOSE i \in selected : TRUE], o)
-----------------------------------------------------------------------------
(* isSyntheticKeyAlias *)
IsSynthetic(e) == e.key # NoKey /\ e.alias = Synthetic[e.key]

(* The alias of an entry in JKS: a made-up alias is replaced by the caller's
   name for the key, and for the only key of the store by a default. *)
JksAlias(e, o) ==
  LET given == IF e.key = NoKey THEN Empty ELSE Trim[o.names[e.key]]
  IN  IF ~IsSynthetic(e) THEN Trim[e.alias]
      ELSE IF given # Empty \/ Len(keys) # 1 THEN given
      ELSE IF Trim[o.alias] # Empty THEN Trim[o.alias] ELSE MyKey

(* The first password that is given, of four places to give one. *)
KeyPassword(e, alias, o) ==
  LET byAlias(a) == CHOOSE p \in PasswordsByAlias(o.keyPasswords, a) : TRUE
      given == SelectSeq(<<byAlias(e.alias), byAlias(alias), o.keyPassword, o.password>>,
                         LAMBDA p : p # NoPassword)
  IN  IF given = << >> THEN NoPassword ELSE given[1]

(* Why the i-th pass of the loop over the entries gives up, if it does. *)
EntryFault(i, o) ==
  LET e     == entries[i]
      alias == JksAlias(e, o)
  IN  IF alias = Empty THEN "InvalidData"
      ELSE IF \E j \in 1 .. (i - 1) : Lower[JksAlias(entries[j], o)] = Lower[alias]
      THEN "AliasConflict"
      ELSE IF e.key = NoKey THEN "none"
      ELSE IF KeyPassword(e, alias, o) \notin LongPasswords THEN "Password"
      ELSE IF e.chain = << >> THEN "NoCertificate"
      ELSE IF ~Matches(e.key, e.chain[1]) THEN "KeyMismatch"
      ELSE "none"

(* What the loop over the entries writes: an entry without a key gives a
   trusted certificate, an entry without a chain gives nothing. *)
EntryItems(o) ==
  LET chainOf(e) == IF e.key = NoKey THEN SubSeq(e.chain, 1, Min({1, Len(e.chain)}))
                    ELSE e.chain
  IN  Pick([i \in DOMAIN entries |-> Item(JksAlias(entries[i], o), entries[i].key,
                                          chainOf(entries[i]))],
           {i \in DOMAIN entries : entries[i].chain # << >>})

CertsOf(items) == UNION {ToSet(items[i].chain) : i \in DOMAIN items}
KeysOf(items)  == {items[i].key : i \in DOMAIN items} \ {NoKey}

(* The aliases of this loop are not recorded. *)
AddRemainingUnrecorded(acc, c) ==
  LET source == IF Trim[origin[c]] # Empty THEN Trim[origin[c]] ELSE DefaultAlias[c]
      alias  == IF Lower[source] \in acc.names THEN CertificateAlias[c] ELSE source
  IN  [names |-> acc.names,
       items |-> Append(acc.items, Item(alias, NoKey, <<c>>)),
       clash |-> acc.clash \/ Lower[alias] \in acc.names]

(* One pass of the loop over the certificates that no entry wrote: "names"
   are the lower-case aliases in use. *)
AddRemaining(acc, c) ==
  LET source == IF Trim[origin[c]] # Empty THEN Trim[origin[c]] ELSE DefaultAlias[c]
      alias  == IF Lower[source] \in acc.names THEN CertificateAlias[c] ELSE source
  IN  [names |-> acc.names \cup {Lower[alias]},
       items |-> Append(acc.items, Item(alias, NoKey, <<c>>)),
       clash |-> acc.clash \/ Lower[alias] \in acc.names]

(* The loop over the certificates that no entry wrote, with the aliases of the
   entries in use. *)
WriteRemaining(remaining, aliases) ==
  LET after[n \in 0 .. Len(remaining)] ==
        IF n = 0 THEN [names |-> {Lower[a] : a \in ToSet(aliases)},
                       items |-> << >>, clash |-> FALSE]
        ELSE AddRemaining(after[n - 1], remaining[n])
  IN  after[Len(remaining)]

EncodeJKS(o) ==
  LET faults    == {i \in DOMAIN entries : EntryFault(i, o) # "none"}
      aliases   == [i \in DOMAIN entries |-> JksAlias(entries[i], o)]
      bound     == EntryItems(o)
      rest      == WriteRemaining(Keep(certs, Cert \ CertsOf(bound)), aliases)
      items     == bound \o rest.items
  IN  IF o.password \notin LongPasswords THEN Refuse("Password")
      ELSE IF faults # {} THEN Refuse(EntryFault(Min(faults), o))
      ELSE IF rest.clash THEN Refuse("AliasConflict")
      ELSE IF items = << >> THEN Refuse("InvalidData")
      ELSE Accept(items, aliases \o [i \in DOMAIN rest.items |-> rest.items[i].alias],
                  SumFunction([i \in DOMAIN items |-> Len(items[i].chain)]),
                  Cardinality({i \in DOMAIN items : items[i].key # NoKey}), 0, 0)
-----------------------------------------------------------------------------
HasUnavailableKeys == \E i \in DOMAIN entries : entries[i].status = "unavailable"

Formats == {"PEM", "DER", "PKCS7", "PKCS12", "JKS"}

(* Store.Encode *)
EncodeAs(format, o) ==
  IF HasUnavailableKeys /\ ~o.allowLossy THEN Refuse("LossyConversion")
  ELSE CASE format = "PEM"    -> EncodePEM(o)
         [] format = "DER"    -> EncodeDER(o)
         [] format = "PKCS7"  -> EncodePKCS7(o)
         [] format = "PKCS12" -> EncodePKCS12(o)
         [] format = "JKS"    -> EncodeJKS(o)
-----------------------------------------------------------------------------
(***************************************************************************)
(* Properties.  Each speaks of every accepted encoding of every store that *)
(* the calls of Store can produce.                                         *)
(***************************************************************************)
Accepted(format, o) == EncodeAs(format, o).err = "none"

(* The certificates that an encoding has to contain. *)
Expected(format, o) ==
  {c \in ToSet(certs) : ~(format = "PEM" /\ o.excludeRoots /\ IsRoot(c))}

(* The output holds every certificate and every key of the store. *)
Lossless(format, o) ==
  LET r == EncodeAs(format, o)
  IN  Expected(format, o) \subseteq CertsOf(r.items) /\ ToSet(keys) \subseteq KeysOf(r.items)

ChainsRepeatNothing == \A i \in DOMAIN entries : NoDuplicates(entries[i].chain)

(* Without AllowLossy an accepted encoding is lossless: in PEM, DER and PKCS7
   always, in PKCS12 when no chain repeats a certificate, and in JKS when
   every stored key still has an entry. *)
LossIsDeclared ==
  \A o \in Options, format \in Formats :
     /\ Accepted(format, o)
     /\ ~o.allowLossy
     /\ format = "PKCS12" => ChainsRepeatNothing
     /\ format = "JKS" => \A k \in ToSet(keys) : HasEntry(k)
     => Lossless(format, o)

(* The report counts what the output holds, and written and discarded objects
   add up to the store (for PKCS12 when no chain repeats a certificate).  The
   report of a JKS encoding does not claim this. *)
ReportBalances ==
  \A o \in Options, format \in Formats \ {"JKS"} :
     /\ Accepted(format, o)
     /\ format = "PKCS12" => ChainsRepeatNothing
     => LET r == EncodeAs(format, o)
        IN  /\ r.report.certsWritten = Cardinality(CertsOf(r.items))
            /\ r.report.keysWritten = Cardinality(KeysOf(r.items))
            /\ r.report.certsWritten + r.report.certsDiscarded = Len(certs)
            /\ r.report.keysWritten + r.report.keysDiscarded = Len(keys)

(* An accepted JKS names no two entries alike, starts every key's chain with
   a certificate of that key, and holds every stored certificate and every key
   that has an entry, whatever aliases the entries, the files and the options
   suggested. *)
JksIsSound ==
  \A o \in Options : Accepted("JKS", o) =>
     LET items == EncodeAs("JKS", o).items
     IN  /\ \A i, j \in DOMAIN items :
               i # j => Lower[items[i].alias] # Lower[items[j].alias]
         /\ \A i \in DOMAIN items :
               items[i].key # NoKey => Matches(items[i].key, items[i].chain[1])
         /\ ToSet(certs) \subseteq CertsOf(items)
         /\ {k \in ToSet(keys) : HasEntry(k)} \subseteq KeysOf(items)

(* The store that openPEM makes of these items; who reads a key that was
   encrypted knows its password. *)
PemStore(items) ==
  [certs |-> [i \in 1 .. Cardinality({j \in DOMAIN items : items[j].key = NoKey}) |-> items[i].chain[1]],
   keys |-> Pick([i \in DOMAIN items |-> items[i].key], {i \in DOMAIN items : items[i].key # NoKey}),
   failed |-> FALSE]

(* An entry whose chain and key are exported as PEM, and opened again with
   OpenEntry, is the same entry but for its alias: it has the key, starts with
   the certificate of the key, unless that is a root that was left out, and has
   the same chain if that was matched against the store.  (Removals may leave
   an entry whose chain does not start with the certificate of its key.) *)
ExportedEntriesReopen ==
  \A i \in DOMAIN entries, o \in Options :
    LET e     == entries[i]
        chain == CertificateChainPEM(e, o)
        key   == PrivateKeyPEM(e, o)
        leaf  == e.chain[1]
    IN  /\ chain.err = "none"
        /\ key.err = "none"
        /\ Matches(e.key, leaf)
        /\ ~(o.excludeRoots /\ IsRoot(leaf))
        => \E x \in OpenEntry(PemStore(chain.items), PemStore(key.items)) :
             /\ x.key = e.key
             /\ x.chain[1] = leaf
             /\ ~o.excludeRoots /\ e.chain = BuildChain(leaf, certs) => x.chain = e.chain
=============================================================================
