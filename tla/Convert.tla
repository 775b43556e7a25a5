------------------------------ MODULE Convert ------------------------------
(***************************************************************************)
(* What certkit is for: a store that callers have built is encoded in one  *)
(* of the formats, and what was written is opened again, by somebody who   *)
(* knows the passwords.  In between the data may be altered, and a PKCS12  *)
(* container may come from other software.                                 *)
(*                                                                         *)
(* Encode gives the items of an output; here they become the file that the *)
(* opener of the format finds: which blocks, entries or bags there are, in *)
(* which order, under which passwords.                                     *)
(***************************************************************************)
EXTENDS Encode, Open, Pfx

CONSTANTS
  Altered,  \* the "password" under which altered data verify
  Before,   \* the order of aliases as strings: all pairs <<a, b>> with a < b
  Foreign   \* PKCS12 containers of other software

VARIABLE written  \* what is opened: see Writing

source == vars  \* the store that is encoded; the one that is read is store

convertVars == <<source, written, openVars>>

(* What is opened: its format, its items, the container if it is one, and the
   passwords that are used; "genuine" if it is what the encoder wrote. *)
Writing(format, items, pfx, genuine, password, keyPasswords) ==
  [format |-> format, items |-> items, pfx |-> pfx, genuine |-> genuine,
   password |-> password, keyPasswords |-> keyPasswords]

(* Before orders the aliases, and the stores keep to the limits of Open.  In a
   container of other software a bag of a key holds one.  defaultAlias puts
   "mykey" in the place of a blank common name. *)
ConvertInputs ==
  /\ Foreign \subseteq PfxPdu
  /\ \A pfx \in Foreign :
        /\ \A i \in DOMAIN Bags(pfx) : IsKey(Bags(pfx)[i]) => Bags(pfx)[i].key \in Key
        /\ Len(Bags(pfx)) <= Len(TrustAliases)
  /\ Altered \in Password
  /\ \A o \in Options : o.password \notin {Altered, EmptyPassword}
  /\ \A a, b \in Alias : <<a, b>> \in Before <=> a # b /\ <<b, a>> \notin Before
  /\ \A a, b, d \in Alias : <<a, b>> \in Before /\ <<b, d>> \in Before => <<a, d>> \in Before
  /\ \A c \in Cert : Trim[DefaultAlias[c]] # Empty
  /\ IsFiniteSet(Key)
  /\ Cardinality(Cert) <= DefaultLimits.certs /\ Cardinality(Key) <= DefaultLimits.keys
  /\ Cardinality(Cert) <= Len(TrustAliases)

ASSUME ConvertInputsWellFormed == ConvertInputs
-----------------------------------------------------------------------------
(* The password of the JKS entry with this alias. *)
EntryPassword(alias, o) ==
  LET e == entries[CHOOSE i \in DOMAIN entries : JksAlias(entries[i], o) = alias]
  IN  KeyPassword(e, alias, o)

(* A fault for the runs to detect: of a chain only the first certificate is
   written. *)
JksEntryLeafOnly(item, o) ==
  [alias |-> item.alias, kind |-> IF item.key = NoKey THEN "trusted" ELSE "key",
   chain |-> <<item.chain[1]>>, key |-> item.key, bad |-> FALSE,
   password |-> IF item.key = NoKey THEN o.password ELSE EntryPassword(item.alias, o)]

JksEntry(item, o) ==
  [alias |-> item.alias, kind |-> IF item.key = NoKey THEN "trusted" ELSE "key",
   chain |-> item.chain, key |-> item.key, bad |-> FALSE,
   password |-> IF item.key = NoKey THEN o.password ELSE EntryPassword(item.alias, o)]

(* The place of an item in the order of the aliases. *)
Place(items, i) ==
  1 + Cardinality({j \in DOMAIN items : <<items[j].alias, items[i].alias>> \in Before})

(* keystore-go writes the entries in the order of their aliases. *)
JksFile(items, o, password) ==
  [format |-> "jks", password |-> password, malformed |-> FALSE,
   items |-> [n \in DOMAIN items |->
                JksEntry(items[CHOOSE i \in DOMAIN items : Place(items, i) = n], o)]]

NoBlock == [kind |-> "certs", bad |-> FALSE, chain |-> << >>, key |-> NoKey,
            dek |-> NoPassword, pkcs8 |-> NoPassword, labelled |-> FALSE]

(* The block of a certificate, or of a key, which PEM may encrypt. *)
BlockOf(item, encrypt, password) ==
  IF item.key = NoKey THEN [NoBlock EXCEPT !.chain = item.chain]
  ELSE [NoBlock EXCEPT !.kind = "key", !.key = item.key, !.labelled = encrypt,
                       !.pkcs8 = IF encrypt THEN password ELSE NoPassword]

BlocksOf(items, encrypt, password) ==
  [i \in DOMAIN items |-> BlockOf(items[i], encrypt, password)]

(* DegenerateCertificate of all certificates, in their order. *)
Pkcs7Block(items) ==
  [NoBlock EXCEPT !.kind = "pkcs7", !.chain = [i \in DOMAIN items |-> items[i].chain[1]]]

(* encodePKCS12 of one private-key entry, or of certificates with names. *)
Container(items, password) ==
  IF items # << >> /\ items[1].key # NoKey
  THEN EncodeChain(items[1].key, items[1].chain, password)
  ELSE EncodeTrustStore([i \in DOMAIN items |-> items[i].alias],
                        [i \in DOMAIN items |-> items[i].chain[1]], password)

Binary(kind, f) ==
  [size |-> 1, space |-> "none", label |-> "none", kind |-> kind, file |-> f,
   blocks |-> << >>]

(* The data that hold these items. *)
Encoding(format, items, o, pfx, password) ==
  CASE format = "PEM" ->
         LET blocks == BlocksOf(items, o.encryptKeys, o.password)
         IN  [Binary("der", [format |-> "der", blocks |-> <<blocks[1]>>])
                EXCEPT !.label = "pem", !.blocks = blocks]
    [] format = "DER" ->
         Binary("der", [format |-> "der", blocks |-> BlocksOf(items, FALSE, NoPassword)])
    [] format = "PKCS7" -> Binary("pkcs7", [format |-> "pkcs7", blocks |-> <<Pkcs7Block(items)>>])
    [] format = "PKCS12" -> Binary("pkcs12", PfxFile(pfx, o.password))
    [] format = "JKS" -> Binary("jks", JksFile(items, o, password))

FormatName(format) ==
  CASE format = "PEM" -> "pem" [] format = "DER" -> "der" [] format = "PKCS7" -> "pkcs7"
    [] format = "PKCS12" -> "pkcs12" [] format = "JKS" -> "jks"

(* A call of Open: with the format, or without it, in which case the last byte
   of the data is taken not to look like white space (see DerIsDetected). *)
OpenCalls(format, d) ==
  LET unlimited == [l \in Limits |-> 0]
  IN  {[data |-> [d EXCEPT !.space = "last"], format |-> FormatName(format), limits |-> unlimited],
       [data |-> d, format |-> "auto", limits |-> unlimited]}
-----------------------------------------------------------------------------
ConvertInit ==
  /\ Init
  /\ written = << >>
  /\ call = << >>
  /\ stage = "editing"
  /\ Idle

(* A call that changes the store. *)
Edit ==
  /\ stage = "editing"
  /\ Next
  /\ UNCHANGED <<written, openVars>>

(* The data go to somebody who opens them, and nobody looks at the store that
   they were made of any more. *)
Hand(format, d, record) ==
  /\ written' = record
  /\ call' \in OpenCalls(format, d)
  /\ stage' = "called"
  /\ certs' = << >> /\ keys' = << >> /\ entries' = << >>
  /\ origin' = [c \in Cert |-> Empty]
  /\ UNCHANGED <<file, opts, pos, store, outcome, loadErr, named, certAlias, opened>>

(* The passwords of the private-key entries among the items. *)
KeyPasswordsOf(items, o) ==
  LET names == {items[i].alias : i \in {j \in DOMAIN items : items[j].key # NoKey}}
  IN  [a \in Alias |-> IF a \in names THEN EntryPassword(a, o) ELSE NoPassword]

(* Store.Encode succeeds.  The digest of a JKS file, and the code of a PKCS12
   container, fit the password unless the data are altered. *)
Write(format, o, genuine) ==
  /\ stage = "editing"
  /\ Accepted(format, o)
  /\ genuine \/ format \in {"JKS", "PKCS12"}
  /\ LET items == EncodeAs(format, o).items
         p     == IF genuine THEN o.password ELSE Altered
         pfx   == IF format = "PKCS12" THEN [Container(items, o.password) EXCEPT !.mac = p]
                  ELSE << >>
     IN  Hand(format, Encoding(format, items, o, pfx, p),
              Writing(format, items, pfx, genuine, o.password,
                      IF format = "JKS" THEN KeyPasswordsOf(items, o) ELSE << >>))

(* The items of a container: every key, and every certificate. *)
PfxItems(pfx) ==
  LET read == BagsOf(pfx, {"cert", "key", "shrouded"})
  IN  [i \in DOMAIN read |->
         [alias |-> Empty, key |-> IF IsKey(read[i]) THEN read[i].key ELSE NoKey,
          chain |-> IF IsKey(read[i]) THEN << >> ELSE <<read[i].cert>>]]

(* A container of other software, and a password for it. *)
Receive(pfx, p) ==
  /\ stage = "editing"
  /\ Init
  /\ Hand("PKCS12", Binary("pkcs12", PfxFile(pfx, p)),
          Writing("PKCS12", PfxItems(pfx), pfx, FALSE, p, << >>))

(* The options of somebody who knows the passwords, and uses no default. *)
KeyStoreOptions ==
  [password |-> written.password, keyPasswords |-> written.keyPasswords,
   container |-> NoPassword, answers |-> [a \in Alias |-> NoPassword],
   disableDefault |-> TRUE]

PasswordOptions == [password |-> written.password, answers |-> {NoPassword}]

(* Open, as in Open. *)
Reopen ==
  /\ \/ Dispatch({"jks"}, {KeyStoreOptions}, 0)
     \/ Dispatch({"pem", "der", "pkcs7"}, {PasswordOptions}, 1)
     \/ Dispatch({"pkcs12"}, {PasswordOptions}, 0)
     \/ RunJks \/ RunPem \/ RunPkcs12
     \/ Conclude
  /\ UNCHANGED <<source, written>>

ConvertNext ==
  \/ Edit
  \/ \E format \in Formats, o \in Options, genuine \in BOOLEAN : Write(format, o, genuine)
  \/ \E pfx \in Foreign, p \in Password : Receive(pfx, p)
  \/ Reopen

ConvertSpec == ConvertInit /\ [][ConvertNext]_convertVars
-----------------------------------------------------------------------------
(***************************************************************************)
(* Properties.                                                             *)
(***************************************************************************)

(* A store holds the objects of w, no other, and no fewer. *)
KeepsObjects(w, f) ==
  ToSet(f.certs) = CertsOf(w.items) /\ ToSet(f.keys) = KeysOf(w.items)

(* What an encoder accepted is recognised and opened again without an error,
   whatever calls led to the store, and a container of other software that is
   opened at all is opened completely: the store has the objects of the data. *)
RoundTripKeepsObjects ==
  /\ stage = "called" => ~IsRefused(call)
  /\ written # << >> /\ written.genuine => stage # "error" /\ ~opened.failed
  /\ stage = "store" /\ ~opened.failed => KeepsObjects(written, opened)

(* The entry of the reopened store keeps the key of the item, and the chain of
   the item as far as its first certificate. *)
Keeps(e, item) ==
  e.key = item.key /\ e.chain[1] = item.chain[1] /\ e.trusted = (item.key = NoKey)

KeepsBindings(w, f) ==
  LET items == w.items
      es    == f.entries
  IN  CASE w.format = "JKS" ->
             /\ Len(es) = Len(items)
             /\ \A i \in DOMAIN items : \E j \in DOMAIN es :
                   es[j].alias = items[i].alias /\ Keeps(es[j], items[i])
        [] w.format = "PKCS12" ->
             /\ Len(es) = Len(items)
             /\ \A i \in DOMAIN items : Keeps(es[i], items[i])
        [] OTHER ->
             \A k \in ToSet(f.keys) : \E j \in DOMAIN es :
               /\ es[j].key = k
               /\ (\E c \in ToSet(f.certs) : Matches(k, c))
                    => es[j].chain # << >> /\ Matches(k, es[j].chain[1])

(* In the reopened store a key is bound to the certificate that it was written
   with, and in JKS under the same alias, although the entries are matched
   again; the formats without entries bind it to a certificate of its own if
   they hold one. *)
RoundTripKeepsBindings ==
  stage = "store" /\ written.genuine => KeepsBindings(written, opened)

NoticesAlteration(w, f) ==
  IF w.format = "JKS" THEN f.keys = << >> /\ f.failed
  ELSE w.password = IF w.pfx.mac = NoPassword THEN EmptyPassword ELSE w.pfx.mac

(* Data that were altered are not mistaken for what was written: of an altered
   JKS file no key is taken, and the caller is told; a PKCS12 container is
   opened only if its code fits the password, or if it has none and the caller
   asked for that with an empty password. *)
AlterationIsNoticed ==
  stage = "store" /\ ~written.genuine => NoticesAlteration(written, opened)
=============================================================================
