----------------------------- MODULE OpenPkcs12 -----------------------------
(***************************************************************************)
(* openPKCS12 (open_pkcs12.go).  Three readers are tried one after the     *)
(* other: one that yields the bags of the container with their friendly    *)
(* names, one that expects a key and its chain, and one that expects a     *)
(* trust store.  Which of them can read a file, given the password, is the *)
(* "form" of the file here; the two libraries, for the international and   *)
(* the Chinese algorithms ("shangmi"), are used alike.  Pfx derives the    *)
(* form from the contents of a container.                                  *)
(***************************************************************************)
EXTENDS Opening

CONSTANTS
  Pkcs12Files,    \* inputs
  Pkcs12Options,  \* options
  Numbered,       \* the aliases "alias-2", "alias-3", ... for each alias
  TrustAliases    \* "certificate-1", "certificate-2", ...

VARIABLES
  named,      \* keys: the key bags read so far, with their names
  certAlias   \* certificateAliases

pkcs12Vars == <<file, opts, pos, store, outcome, named, certAlias>>

Bag == [kind : {"cert", "key", "other"}, bad : BOOLEAN, name : Alias,
        cert : Cert, key : Key \cup {NoKey}]

(* A "pair" has a key and a leaf certificate; a key bag has a key. *)
IsPkcs12File(f) ==
  /\ f.format = "pkcs12"
  /\ f.form \in {"bags", "pair", "trust", "broken"}
  /\ f.password \in Password
  /\ f.shangmi \in BOOLEAN /\ f.bad \in BOOLEAN
  /\ f.form = "bags" =>
       /\ f.bags \in Seq(Bag)
       /\ \A i \in DOMAIN f.bags : f.bags[i].kind = "key" => f.bags[i].key \in Key
  /\ f.form = "pair" => f.key \in Key /\ f.chain \in Seq(Cert) /\ f.chain # << >>
  /\ f.form = "trust" => f.chain \in Seq(Cert) /\ Len(f.chain) <= Len(TrustAliases)

IsPkcs12Options(o) ==
  /\ o.password \in Password \cup {NoPassword}
  /\ o.answers \in (SUBSET (Password \cup {NoPassword, Failed})) \ {{}}

Pkcs12Inputs ==
  /\ \A f \in Pkcs12Files : IsPkcs12File(f)
  /\ \A o \in Pkcs12Options : IsPkcs12Options(o)
  /\ Numbered \in [Alias -> Seq(Alias)]
  /\ TrustAliases \in Seq(Alias)
  /\ \A i, j \in DOMAIN TrustAliases : Fold[TrustAliases[i]] = Fold[TrustAliases[j]] => i = j

ASSUME Pkcs12InputsWellFormed == Pkcs12Inputs

CurrentBag == file.bags[pos]

IsPkcs12 == file.format = "pkcs12"

AtBag(kind) ==
  /\ outcome = "reading" /\ file.form = "bags"
  /\ pos \in DOMAIN file.bags
  /\ CurrentBag.kind = kind

(* uniqueEntryAlias: the alias, or else the first of its numbered variants
   that no entry has up to case. *)
IsUniqueAlias(alias, wanted) ==
  LET candidates == <<wanted>> \o Numbered[wanted]
  IN  \E n \in DOMAIN candidates :
        /\ alias = candidates[n]
        /\ ~HasAlias(readEntries, alias)
        /\ \A m \in 1 .. (n - 1) : HasAlias(readEntries, candidates[m])

NameOr(name, default) == IF name = Empty THEN default ELSE name
-----------------------------------------------------------------------------
Pkcs12Init ==
  /\ file \in Pkcs12Files
  /\ opts \in Pkcs12Options
  /\ pos = 0
  /\ EmptyStore
  /\ outcome = "reading"
  /\ named = << >>
  /\ certAlias = [c \in Cert |-> Empty]

(* The reader for this form gets the right password. *)
Decrypts(form) ==
  /\ outcome = "reading" /\ pos = 0
  /\ file.form = form
  /\ file.password \in PasswordsFor(opts.password, opts.answers)

(* No password, a wrong one, or no reader succeeds: no store is returned. *)
FailDecryption ==
  /\ outcome = "reading" /\ pos = 0
  /\ \E p \in PasswordsFor(opts.password, opts.answers) :
        p # file.password \/ file.form = "broken"
  /\ Return("refused")
  /\ UNCHANGED <<named, certAlias>>

(* DecodeChain, and AddKeyPair on an empty store.  Only the ShangMi branch
   writes the alias to the certificates. *)
OpenPair ==
  /\ Decrypts("pair")
  /\ LET leaf  == file.chain[1]
         alias == Trim[DefaultAlias[leaf]]
     IN  IF file.bad \/ ~Matches(file.key, leaf) \/ alias = Empty
         THEN outcome' = "refused" /\ UNCHANGED store
         ELSE /\ outcome' = "ok"
              /\ Import(file.chain, IF file.shangmi THEN alias ELSE Empty)
              /\ readKeys' = <<file.key>>
              /\ readEntries' = <<KeyEntryOf(alias, file.key, file.chain)>>
  /\ UNCHANGED <<file, opts, pos, named, certAlias>>

(* DecodeTrustStore: one entry for each certificate, repeated ones too. *)
OpenTrust ==
  /\ Decrypts("trust")
  /\ IF file.bad THEN outcome' = "refused" /\ UNCHANGED store
     ELSE /\ outcome' = "ok"
          /\ Import(file.chain, Empty)
          /\ readEntries' = [i \in DOMAIN file.chain |->
                               TrustedEntry(TrustAliases[i], file.chain[i])]
          /\ UNCHANGED readKeys
  /\ UNCHANGED <<file, opts, pos, named, certAlias>>

(* ToPEM succeeds, and the loop over the bags begins. *)
OpenBags ==
  /\ Decrypts("bags")
  /\ Advance
  /\ UNCHANGED <<store, named, certAlias>>

ReadCertBag ==
  /\ AtBag("cert") /\ ~CurrentBag.bad
  /\ LET name == Trim[CurrentBag.name]
     IN  /\ Import(<<CurrentBag.cert>>, name)
         /\ certAlias' = IF name = Empty THEN certAlias
                         ELSE [certAlias EXCEPT ![CurrentBag.cert] = name]
  /\ Advance
  /\ UNCHANGED <<readKeys, readEntries, named>>

ReadKeyBag ==
  /\ AtBag("key") /\ ~CurrentBag.bad
  /\ readKeys' = AppendNew(readKeys, <<CurrentBag.key>>)
  /\ named' = Append(named, [key |-> CurrentBag.key, name |-> Trim[CurrentBag.name]])
  /\ Advance
  /\ UNCHANGED <<readCerts, readEntries, readOrigin, certAlias>>

(* A fault for the runs to detect: the loop does not move on. *)
SkipBagForever ==
  /\ AtBag("other")
  /\ UNCHANGED pkcs12Vars

SkipBag ==
  /\ AtBag("other")
  /\ Advance
  /\ UNCHANGED <<store, named, certAlias>>

RejectBag ==
  /\ (AtBag("cert") \/ AtBag("key")) /\ CurrentBag.bad
  /\ Return("refused")
  /\ UNCHANGED <<named, certAlias>>

BagsRead ==
  outcome = "reading" /\ file.form = "bags" /\ pos = Len(file.bags) + 1

(* Faults for the runs to detect stand before the definition they replace. *)

(* The leaf alone. *)
LeafOnly(k) ==
  LET ch == MatchedChain(k, readCerts) IN IF ch = << >> THEN ch ELSE <<ch[1]>>

BagChain(k) == MatchedChain(k, readCerts)

(* The entry of the next key bag: its name, or else one made of the key. *)
NameKey ==
  /\ BagsRead
  /\ Len(readEntries) < Len(named)
  /\ LET k == named[Len(readEntries) + 1].key
     IN  \E alias \in Alias :
           /\ IsUniqueAlias(alias, NameOr(named[Len(readEntries) + 1].name, Synthetic[k]))
           /\ readEntries' = Append(readEntries, KeyEntryOf(alias, k, BagChain(k)))
  /\ UNCHANGED <<file, opts, pos, readCerts, readKeys, readOrigin, outcome, named, certAlias>>

(* Without a key bag, an entry for the next certificate. *)
NameCertificate ==
  /\ BagsRead
  /\ named = << >>
  /\ Len(readEntries) < Len(readCerts)
  /\ LET c == readCerts[Len(readEntries) + 1]
     IN  \E alias \in Alias :
           /\ IsUniqueAlias(alias, NameOr(certAlias[c], DefaultAlias[c]))
           /\ readEntries' = Append(readEntries, TrustedEntry(alias, c))
  /\ UNCHANGED <<file, opts, pos, readCerts, readKeys, readOrigin, outcome, named, certAlias>>

(* The loops run over the keys that were stored, not over the key bags. *)
NamedOncePerKey ==
  Len(readEntries) >= IF named = << >> THEN Len(readCerts) ELSE Len(readKeys)

AllNamed ==
  Len(readEntries) >= IF named = << >> THEN Len(readCerts) ELSE Len(named)

FinishBags ==
  /\ BagsRead /\ AllNamed
  /\ Return(IF readCerts = << >> /\ readKeys = << >> THEN "refused" ELSE "ok")
  /\ UNCHANGED <<named, certAlias>>

Pkcs12Next ==
  \/ FailDecryption \/ OpenPair \/ OpenTrust \/ OpenBags
  \/ ReadCertBag \/ ReadKeyBag \/ SkipBag \/ RejectBag
  \/ NameKey \/ NameCertificate \/ FinishBags

(* openPKCS12 is a loop on the caller's goroutine that waits for nobody but
   the callback, which is assumed to return. *)
Pkcs12Spec == Pkcs12Init /\ [][Pkcs12Next]_pkcs12Vars /\ WF_pkcs12Vars(Pkcs12Next)
-----------------------------------------------------------------------------
(***************************************************************************)
(* Properties.                                                             *)
(***************************************************************************)

NoSharedAlias ==
  \A i, j \in DOMAIN readEntries : Fold[readEntries[i].alias] = Fold[readEntries[j].alias] => i = j

(* However the bags are named, no two entries of a PKCS12 file share an alias
   up to case, as every later call on the store expects. *)
AliasesDiffer == IsPkcs12 => NoSharedAlias

(* A key bag whose key was there before has an entry of its own, and without a
   key bag every certificate has one: what openPKCS12 returns can be encoded
   again without losing an object. *)
EveryBagHasEntry ==
  IsPkcs12 /\ outcome = "ok" /\ file.form = "bags" =>
    LET keyBags == Pick(file.bags, {i \in DOMAIN file.bags : file.bags[i].kind = "key"})
    IN  IF keyBags # << >>
        THEN [i \in DOMAIN readEntries |-> readEntries[i].key]
               = [i \in DOMAIN keyBags |-> keyBags[i].key]
        ELSE [i \in DOMAIN readEntries |-> readEntries[i].chain]
               = [i \in DOMAIN readCerts |-> <<readCerts[i]>>]

(* The order of the bags does not matter: the chains are built when all the
   certificates are there, and Open's re-match finds nothing to change. *)
OpenFindsSettled ==
  IsPkcs12 /\ outcome = "ok" /\ file.form = "bags" =>
    Reconcile(readEntries, readCerts, readKeys) = readEntries
=============================================================================
