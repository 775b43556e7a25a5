------------------------------ MODULE Objects ------------------------------
(***************************************************************************)
(* The entries of a store, and what certkit does to them as a whole:       *)
(* matching keys to certificates and chains (open.go), and looking objects *)
(* and aliases up (model.go).                                              *)
(***************************************************************************)
EXTENDS Pki

CONSTANTS
  Alias,         \* the alias strings in play, the empty string among them
  Empty,         \* the empty alias
  Fold,          \* strings.EqualFold: the canonical spelling of an alias
  Trim,          \* strings.TrimSpace
  Synthetic,     \* "key-" and the first digits of a key's identifier
  DefaultAlias,  \* the common name of a certificate, or "mykey"
  NoKey,         \* a nil *PrivateKey
  NoCert         \* a nil *Certificate

ASSUME AliasFunctions ==
  /\ Empty \in Alias
  /\ Fold \in [Alias -> Alias]
  /\ Trim \in [Alias -> Alias]
  /\ Synthetic \in [Key -> Alias]
  /\ DefaultAlias \in [Cert -> Alias]

ASSUME Sentinels == NoKey \notin Key /\ NoCert \notin Cert

Statuses == {"available", "unavailable", "none"}

Entry == [alias   : Alias,
          key     : Key \cup {NoKey},
          status  : Statuses,
          chain   : Seq(Cert),
          trusted : BOOLEAN]

-----------------------------------------------------------------------------
(* Faults for the runs to detect stand before the definition they replace. *)

(* The first stored certificate is taken, whatever its key. *)
FirstChain(k, cs) ==
  LET M == {i \in DOMAIN cs : Matches(k, cs[i])}
  IN  IF M = {} THEN << >> ELSE BuildChain(cs[1], cs)

(* The chain of the first certificate that carries the key's public key. *)
MatchedChain(k, cs) ==
  LET M == {i \in DOMAIN cs : Matches(k, cs[i])}
  IN  IF M = {} THEN << >> ELSE BuildChain(cs[Min(M)], cs)

(* A chain that exists is left as it is. *)
RechainedIfEmpty(e, cs) ==
  IF e.key = NoKey \/ e.chain # << >> THEN e
  ELSE [e EXCEPT !.chain = MatchedChain(e.key, cs)]

(* The chain that reconcileEntries leaves in an entry with a private key. *)
Rechained(e, cs) ==
  IF e.key = NoKey THEN e
  ELSE [e EXCEPT !.chain = IF @ = << >> THEN MatchedChain(e.key, cs)
                           ELSE BuildChain(@[1], cs)]

(* The entry that reconcileEntries appends for a key that has none. *)
KeyEntry(k, cs) ==
  [alias |-> Synthetic[k], key |-> k, status |-> "available",
   chain |-> MatchedChain(k, cs), trusted |-> FALSE]

(* A key gets an entry only once it has a certificate. *)
ReconcileCertified(es, cs, ks) ==
  LET bound   == {es[i].key : i \in DOMAIN es}
      orphans == Keep(ks, {k \in Key \ bound : \E c \in ToSet(cs) : Matches(k, c)})
  IN  [i \in DOMAIN es |-> Rechained(es[i], cs)]
        \o [j \in DOMAIN orphans |-> KeyEntry(orphans[j], cs)]

(* reconcileEntries *)
Reconcile(es, cs, ks) ==
  LET bound   == {es[i].key : i \in DOMAIN es}
      orphans == Keep(ks, Key \ bound)
  IN  [i \in DOMAIN es |-> Rechained(es[i], cs)]
        \o [j \in DOMAIN orphans |-> KeyEntry(orphans[j], cs)]

(* What Open makes of the store f that the opener of the format leaves. *)
Opened(f) == [f EXCEPT !.entries = Reconcile(f.entries, f.certs, f.keys)]

(* canonicalCertificates and privateKeyByID: the stored objects with these
   identifiers, nil for one that the store does not hold. *)
CanonicalChain(ch, cs) ==
  [i \in DOMAIN ch |-> IF ch[i] \in ToSet(cs) THEN ch[i] ELSE NoCert]

CanonicalKey(k, ks) == IF k \in ToSet(ks) THEN k ELSE NoKey

(* Aliases are compared exactly. *)
HasExactAlias(es, a) == \E i \in DOMAIN es : es[i].alias = a

(* entryByAlias finds an entry. *)
HasAlias(es, a) == \E i \in DOMAIN es : Fold[es[i].alias] = Fold[a]
-----------------------------------------------------------------------------
(***************************************************************************)
(* What every opener guarantees of the store it returns: identifiers are   *)
(* unique, entries refer to objects of that store, and a key is available  *)
(* exactly when it was decrypted.                                          *)
(***************************************************************************)
IsOpened(f) ==
  /\ f \in [certs : Seq(Cert), keys : Seq(Key), entries : Seq(Entry),
            origin : [Cert -> Alias], failed : BOOLEAN]
  /\ NoDuplicates(f.certs) /\ NoDuplicates(f.keys)
  /\ \A i \in DOMAIN f.entries :
        LET e == f.entries[i]
        IN  /\ ToSet(e.chain) \subseteq ToSet(f.certs)
            /\ e.key \in ToSet(f.keys) \cup {NoKey}
            /\ e.status = "available" <=> e.key # NoKey
=============================================================================
