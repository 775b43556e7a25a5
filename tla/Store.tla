------------------------------- MODULE Store -------------------------------
(***************************************************************************)
(* The certificate store of certkit (model.go, open.go): certificates,     *)
(* private keys, and the entries that bind an alias to a key and a chain.  *)
(* A caller adds, merges and removes objects in any order; the store       *)
(* re-matches keys and chains only in some of these calls.                 *)
(*                                                                         *)
(* A call that returns an error before its first assignment leaves the     *)
(* store alone, and is a stuttering step here.                             *)
(***************************************************************************)
EXTENDS Objects

CONSTANTS
  CallerAliases, \* aliases that callers pass
  CallerKeys,    \* private keys that callers hold
  CallerChains,  \* certificate slices that callers pass to AddKeyPair
  Files,         \* what the openers leave of the inputs, before Open re-matches
  MaxCertificates, MaxPrivateKeys, \* OpenOptions
  MaxEntries     \* bound of the model on the length of the entry list

VARIABLES
  certs,    \* Store.Certificates
  keys,     \* Store.PrivateKeys
  entries,  \* Store.Entries
  origin    \* Source.Alias of each stored certificate

vars == <<certs, keys, entries, origin>>

ASSUME CallerInputs ==
  /\ CallerAliases \subseteq Alias
  /\ CallerKeys \subseteq Key
  /\ CallerChains \subseteq Seq(Cert)
  /\ MaxEntries \in Nat

ASSUME OpenedFiles == \A f \in Files : IsOpened(f)
-----------------------------------------------------------------------------
(* validateStoreLimits *)
WithinLimits(f) ==
  Len(f.certs) <= MaxCertificates /\ Len(f.keys) <= MaxPrivateKeys

(* Source.Alias of the certificates after those of "ch" were appended. *)
OriginWith(ch, source) ==
  [c \in Cert |-> IF c \in ToSet(ch) \ ToSet(certs) THEN source[c] ELSE origin[c]]

(* The stores that Open returns. *)
Library == {Opened(f) : f \in {g \in Files : WithinLimits(g)}}

(* OpenEntry, on the stores that Open returned for the certificate input and
   the private key input: no entry when either call failed, when there is not
   exactly one key, or when no certificate matches it. *)
OpenEntry(cs, ks) ==
  IF cs.failed \/ cs.certs = << >> \/ ks.failed \/ Len(ks.keys) # 1 THEN {}
  ELSE LET k == ks.keys[1]
           M == {i \in DOMAIN cs.certs : Matches(k, cs.certs[i])}
       IN  IF M = {} THEN {}
           ELSE {[alias |-> DefaultAlias[cs.certs[Min(M)]], key |-> k,
                  status |-> "available", chain |-> MatchedChain(k, cs.certs),
                  trusted |-> FALSE]}
-----------------------------------------------------------------------------
Init ==
  /\ certs = << >>
  /\ keys = << >>
  /\ entries = << >>
  /\ origin = [c \in Cert |-> Empty]

(* Bound of the model: entry lists no longer than MaxEntries. *)
Fits(es) == Len(es) <= MaxEntries

AddCertificate(c) ==
  /\ certs' = AppendNew(certs, <<c>>)
  /\ UNCHANGED <<keys, origin>>
  /\ entries' = Reconcile(entries, certs', keys)
  /\ Fits(entries')

AddPrivateKey(k) ==
  /\ keys' = AppendNew(keys, <<k>>)
  /\ UNCHANGED <<certs, origin>>
  /\ entries' = Reconcile(entries, certs, keys')
  /\ Fits(entries')

(* Only the first certificate of the chain is stored. *)
AddKeyPairLeafOnly(a, k, ch) ==
  /\ Trim[a] # Empty
  /\ ~HasAlias(entries, Trim[a])
  /\ ch # << >> => Matches(k, ch[1])
  /\ certs' = AppendNew(certs, SubSeq(ch, 1, Min({1, Len(ch)})))
  /\ keys' = AppendNew(keys, <<k>>)
  /\ entries' = Append(entries,
                  [alias |-> Trim[a], key |-> CanonicalKey(k, keys'),
                   status |-> "available", chain |-> CanonicalChain(ch, certs'),
                   trusted |-> FALSE])
  /\ Fits(entries')
  /\ UNCHANGED origin

AddKeyPair(a, k, ch) ==
  /\ Trim[a] # Empty
  /\ ~HasAlias(entries, Trim[a])
  /\ ch # << >> => Matches(k, ch[1])
  /\ certs' = AppendNew(certs, ch)
  /\ keys' = AppendNew(keys, <<k>>)
  /\ entries' = Append(entries,
                  [alias |-> Trim[a], key |-> CanonicalKey(k, keys'),
                   status |-> "available", chain |-> CanonicalChain(ch, certs'),
                   trusted |-> FALSE])
  /\ Fits(entries')
  /\ UNCHANGED origin

AddTrustedCertificate(a, c) ==
  /\ Trim[a] # Empty
  /\ ~HasAlias(entries, Trim[a])
  /\ certs' = AppendNew(certs, <<c>>)
  /\ entries' = Append(entries,
                  [alias |-> Trim[a], key |-> NoKey, status |-> "none",
                   chain |-> CanonicalChain(<<c>>, certs'), trusted |-> TRUE])
  /\ Fits(entries')
  /\ UNCHANGED <<keys, origin>>

(* AddEntry stores the alias as it is: only the check for emptiness trims. *)
AddEntry(e, source) ==
  /\ Trim[e.alias] # Empty
  /\ ~HasAlias(entries, e.alias)
  /\ e.key # NoKey /\ e.chain # << >> => Matches(e.key, e.chain[1])
  /\ certs' = AppendNew(certs, e.chain)
  /\ keys' = IF e.key = NoKey THEN keys ELSE AppendNew(keys, <<e.key>>)
  /\ entries' = Append(entries,
                  [e EXCEPT !.key = CanonicalKey(@, keys'),
                            !.chain = CanonicalChain(@, certs')])
  /\ Fits(entries')
  /\ origin' = OriginWith(e.chain, source)

(* Add merges a store that Open returned, and reports its error afterwards.
   The merged store is not re-matched. *)
Add(other) ==
  /\ \A i \in DOMAIN other.entries : ~HasAlias(entries, other.entries[i].alias)
  /\ certs' = AppendNew(certs, other.certs)
  /\ keys' = AppendNew(keys, other.keys)
  /\ entries' = entries \o
       [i \in DOMAIN other.entries |->
          [other.entries[i] EXCEPT !.key = CanonicalKey(@, keys'),
                                   !.chain = CanonicalChain(@, certs')]]
  /\ Fits(entries')
  /\ origin' = OriginWith(other.certs, other.origin)

(* The chains keep the certificate. *)
RemoveCertificateOnly(c) ==
  /\ c \in ToSet(certs)
  /\ certs' = RemoveAt(certs, IndexOf(certs, c))
  /\ origin' = [origin EXCEPT ![c] = Empty]
  /\ UNCHANGED <<keys, entries>>

RemoveCertificate(c) ==
  /\ c \in ToSet(certs)
  /\ certs' = RemoveAt(certs, IndexOf(certs, c))
  /\ entries' = [i \in DOMAIN entries |->
                   [entries[i] EXCEPT !.chain = Keep(@, (Cert \cup {NoCert}) \ {c})]]
  /\ origin' = [origin EXCEPT ![c] = Empty]
  /\ UNCHANGED keys

(* The loop over the entries stops at the first entry of the key. *)
RemovePrivateKeyOnce(k) ==
  /\ k \in ToSet(keys)
  /\ keys' = RemoveAt(keys, IndexOf(keys, k))
  /\ entries' = [i \in DOMAIN entries |->
                   IF entries[i].key = k /\ \A j \in 1 .. (i - 1) : entries[j].key # k
                   THEN [entries[i] EXCEPT !.key = NoKey, !.status = "unavailable"]
                   ELSE entries[i]]
  /\ UNCHANGED <<certs, origin>>

RemovePrivateKey(k) ==
  /\ k \in ToSet(keys)
  /\ keys' = RemoveAt(keys, IndexOf(keys, k))
  /\ entries' = [i \in DOMAIN entries |->
                   IF entries[i].key = k
                   THEN [entries[i] EXCEPT !.key = NoKey, !.status = "unavailable"]
                   ELSE entries[i]]
  /\ UNCHANGED <<certs, origin>>

(* Only the first entry with the alias goes; its objects stay. *)
RemoveEntry(a) ==
  \E i \in DOMAIN entries :
     /\ Fold[entries[i].alias] = Fold[a]
     /\ \A j \in 1 .. (i - 1) : Fold[entries[j].alias] # Fold[a]
     /\ entries' = RemoveAt(entries, i)
     /\ UNCHANGED <<certs, keys, origin>>

Next ==
  \/ \E c \in Cert : AddCertificate(c)
  \/ \E k \in CallerKeys : AddPrivateKey(k)
  \/ \E a \in CallerAliases, k \in CallerKeys, ch \in CallerChains : AddKeyPair(a, k, ch)
  \/ \E a \in CallerAliases, c \in Cert : AddTrustedCertificate(a, c)
  \/ \E s \in Library : \E i \in DOMAIN s.entries : AddEntry(s.entries[i], s.origin)
  \/ \E cs, ks \in Library : \E e \in OpenEntry(cs, ks) : AddEntry(e, cs.origin)
  \/ \E s \in Library : Add(s)
  \/ \E c \in Cert : RemoveCertificate(c)
  \/ \E k \in Key : RemovePrivateKey(k)
  \/ \E a \in Alias : RemoveEntry(a)

Spec == Init /\ [][Next]_vars
-----------------------------------------------------------------------------
(***************************************************************************)
(* Properties.                                                             *)
(***************************************************************************)

(* The shape of the store: no nil certificate is ever stored, and every slice
   holds what model.go declares. *)
TypeOK ==
  /\ certs \in Seq(Cert)
  /\ keys \in Seq(Key)
  /\ entries \in Seq(Entry)
  /\ origin \in [Cert -> Alias]

(* addCertificate and addPrivateKey identify objects by fingerprint: whatever
   mixture of Add* calls and merges ran, no object is stored twice, so that
   Remove* (which stop at the first hit) remove it entirely. *)
ObjectsAreUnique == NoDuplicates(certs) /\ NoDuplicates(keys)

(* An entry's chain refers only to certificates the store still holds, and
   never to nil: no call of RemoveCertificate, and no merge of another store,
   leaves a dangling reference for the encoders to follow. *)
ChainsResolve ==
  \A i \in DOMAIN entries : ToSet(entries[i].chain) \subseteq ToSet(certs)

(* An entry's key is one the store still holds, and the entry claims to be
   "available" exactly while it has one; RemovePrivateKey must reach every
   entry of the key, and there may be several. *)
KeysResolve ==
  \A i \in DOMAIN entries :
     /\ entries[i].key \in ToSet(keys) \cup {NoKey}
     /\ entries[i].status = "available" <=> entries[i].key # NoKey

SyntheticFolds == {Fold[Synthetic[k]] : k \in Key}

(* Aliases that one input gives twice: openJKS keeps them as they are spelled. *)
SharedInFile ==
  UNION {{Fold[f.entries[i].alias] :
            i \in {n \in DOMAIN f.entries :
                     \E j \in DOMAIN f.entries :
                        j # n /\ Fold[f.entries[j].alias] = Fold[f.entries[n].alias]}} : f \in Files}

(* Two entries share an alias (up to case) only if reconcileEntries made it up,
   or one input brought them both, which Add does not look for: AddKeyPair,
   AddTrustedCertificate, AddEntry and Add never introduce a second entry with
   an alias that the store has, however many there are of a merged store. *)
NamedAliasesUnique ==
  \A i, j \in DOMAIN entries :
     i # j /\ Fold[entries[i].alias] = Fold[entries[j].alias]
       => Fold[entries[i].alias] \in SyntheticFolds \cup SharedInFile

HasEntry(k) == \E i \in DOMAIN entries : entries[i].key = k

(* A chain in issuing order: no certificate twice, each issued by the next,
   nothing after a root. *)
Linked(ch) ==
  /\ NoDuplicates(ch)
  /\ \A i \in 1 .. (Len(ch) - 1) : ~IsRoot(ch[i]) /\ IsParent(ch[i], ch[i + 1])

(* The stored certificates offer nothing to continue the chain with. *)
Complete(ch) ==
  IsRoot(ch[Len(ch)]) \/ Candidates(ch, Len(ch), certs) = {}

(* What a re-matched store looks like: every key has an entry, an entry with
   a key has a chain if any certificate carries that key, and its chain is in
   issuing order and goes as far as the stored certificates allow. *)
Reconciled ==
  /\ \A k \in ToSet(keys) : HasEntry(k)
  /\ \A i \in DOMAIN entries : entries[i].key # NoKey =>
        IF entries[i].chain = << >>
        THEN \A c \in ToSet(certs) : ~Matches(entries[i].key, c)
        ELSE Linked(entries[i].chain) /\ Complete(entries[i].chain)

(* AddCertificate and AddPrivateKey leave a re-matched store behind, however
   the store got into its present state (removals, merges, and caller-made
   chains included). *)
AddsReconcile ==
  [][(\E c \in Cert : AddCertificate(c)) \/ (\E k \in CallerKeys : AddPrivateKey(k))
       => Reconciled']_vars

(* The keys that entries bind to a chain of another key, with its first certificate. *)
Mispaired(es) ==
  {<<es[i].key, es[i].chain[1]>> :
     i \in {n \in DOMAIN es : /\ es[n].key # NoKey /\ es[n].chain # << >>
                             /\ ~Matches(es[n].key, es[n].chain[1])}}

(* While no certificate is taken out, a key is bound to the chain of another key
   only by merging an input that binds it so itself: openJKS and Add do not
   compare them, all other calls and every re-match do. *)
OnlyRemovalDetaches ==
  [][ToSet(certs) \subseteq ToSet(certs') =>
       \A m \in Mispaired(entries') \ Mispaired(entries) :
          \E f \in Files : m \in Mispaired(f.entries) /\ Add(Opened(f))]_vars

Settled == Reconcile(entries, certs, keys) = entries

(* New certificates are appended, and the chain takes the first parent it
   finds: in a re-matched store a call that removes nothing may extend a chain
   at its end, and never reroutes it. *)
ChainsOnlyExtend ==
  [][\/ \A i \in DOMAIN entries \cap DOMAIN entries' :
          IsPrefix(entries[i].chain, entries'[i].chain)
     \/ ~(ToSet(certs) \subseteq ToSet(certs') /\ Len(entries) <= Len(entries'))
     \/ ~Settled]_vars
-----------------------------------------------------------------------------
(***************************************************************************)
(* The store implements a keyring.                                         *)
(***************************************************************************)
Bindings ==
  {[name |-> Fold[entries[i].alias], key |-> entries[i].key] : i \in DOMAIN entries}

Ring == INSTANCE Keyring WITH
  certificates <- ToSet(certs), privateKeys <- ToSet(keys), bindings <- Bindings,
  Name <- Alias, NameOf <- [k \in Key |-> Fold[Synthetic[k]]]

(* Whatever the calls of model.go do to lists, chains and statuses: an addition
   or a merge loses nothing, gives no name twice and leaves no new key without
   a name, and a removal takes out the one thing it was asked for, a key from
   all of its names. *)
ImplementsKeyring == Ring!RingSpec
=============================================================================
