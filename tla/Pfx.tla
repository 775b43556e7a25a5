-------------------------------- MODULE Pfx --------------------------------
(***************************************************************************)
(* The PKCS12 codec (internal/pkcs12): what its encoders put into a        *)
(* container, what its three readers make of one, and which of the forms   *)
(* that OpenPkcs12 tells apart a container has by that.  The library for   *)
(* the international algorithms that openPKCS12 uses alike is the one that *)
(* this codec was derived from.                                            *)
(*                                                                         *)
(* Cryptography is ideal: a message authentication code and an encryption  *)
(* fit one password only.  A container whose bytes were altered has a code *)
(* that fits no password in use.                                           *)
(***************************************************************************)
EXTENDS OpenPkcs12

CONSTANTS
  EmptyPassword, \* a password of no bytes, which is not a nil one
  Convertible    \* the keys of a type that ToPEM knows: RSA, ECDSA or SM2

ASSUME PfxConstants == EmptyPassword \in Password /\ Convertible \subseteq Key

Attributes == {"friendlyName", "localKeyID", "csp", "java", "other"}

(* A "shrouded" key is encrypted with the password of its bag.  The fault of a
   bag is that it is not of a type that is known or does not decode ("type"), or
   that the certificate in it does not parse ("content"). *)
SafeBag == [kind : {"cert", "key", "shrouded", "other"}, attributes : SUBSET Attributes,
            name : Alias, cert : Cert, key : Key \cup {NoKey},
            password : Password \cup {NoPassword},
            fault : {"none", "type", "content"}]

(* "known": the version and the content types are those that are implemented. *)
SafeContents == [password : Password \cup {NoPassword}, known : BOOLEAN, bags : Seq(SafeBag)]

PfxPdu == [known : BOOLEAN, mac : Password \cup {NoPassword}, safes : Seq(SafeContents)]

Bags(pfx) == FlattenSeq([i \in DOMAIN pfx.safes |-> pfx.safes[i].bags])

(* The bags of these kinds, in their order. *)
BagsOf(pfx, kinds) == Pick(Bags(pfx), {i \in DOMAIN Bags(pfx) : Bags(pfx)[i].kind \in kinds})
-----------------------------------------------------------------------------
(* A fault for the runs to detect: the authentication code is not compared. *)
MacVerifiesAlways(pfx, p) == TRUE

(* verifyMac; a container without a code is read with the empty password. *)
MacVerifies(pfx, p) ==
  \/ pfx.mac = p
  \/ pfx.mac = NoPassword /\ p = EmptyPassword

(* getSafeContents succeeds for a container with one of these numbers of safes. *)
Readable(pfx, p, counts) ==
  /\ pfx.known
  /\ MacVerifies(pfx, p)
  /\ Len(pfx.safes) \in counts
  /\ \A s \in ToSet(pfx.safes) : s.known /\ s.password \in {NoPassword, p}

(* decodePkcs8ShroudedKeyBag *)
Unshrouds(bag, p) == bag.fault = "none" /\ bag.password = p

(* convertBag: the certificate is not parsed yet. *)
Converts(bag, p) ==
  /\ bag.attributes \subseteq {"friendlyName", "localKeyID", "csp"}
  /\ \/ bag.kind = "cert" /\ bag.fault # "type"
     \/ bag.kind = "shrouded" /\ Unshrouds(bag, p) /\ bag.key \in Convertible

ToPEMReads(pfx, p) ==
  Readable(pfx, p, {2}) /\ \A bag \in ToSet(Bags(pfx)) : Converts(bag, p)

IsCert(bag) == bag.kind = "cert"
IsKey(bag)  == bag.kind \in {"key", "shrouded"}

(* DecodeChain: one key, plain or shrouded, and the leaf first among the
   certificates; bags of another kind, and attributes, are ignored. *)
DecodeChainReads(pfx, p) ==
  LET read == BagsOf(pfx, {"cert", "key", "shrouded"})
  IN  /\ Readable(pfx, p, {1, 2})
      /\ \A bag \in ToSet(read) : bag.fault = "none" /\ (bag.kind = "shrouded" => Unshrouds(bag, p))
      /\ Cardinality({i \in DOMAIN read : IsKey(read[i])}) = 1
      /\ \E bag \in ToSet(read) : IsCert(bag)

(* DecodeTrustStore: nothing but certificates that are marked as trusted. *)
DecodeTrustStoreReads(pfx, p) ==
  /\ Readable(pfx, p, {1})
  /\ \A bag \in ToSet(Bags(pfx)) :
        IsCert(bag) /\ "java" \in bag.attributes /\ bag.fault = "none"

(* The block that ToPEM makes of a bag. *)
PemBlock(bag) ==
  [kind |-> IF IsCert(bag) THEN "cert" ELSE "key", bad |-> bag.fault # "none",
   name |-> IF "friendlyName" \in bag.attributes THEN bag.name ELSE Empty,
   cert |-> bag.cert, key |-> bag.key]

(* The certificates that DecodeChain and DecodeTrustStore return. *)
ChainOf(pfx) ==
  LET read == BagsOf(pfx, {"cert"}) IN [i \in DOMAIN read |-> read[i].cert]

(* What openPKCS12 finds in a container when it tries this password. *)
PfxFile(pfx, p) ==
  LET read == BagsOf(pfx, {"key", "shrouded"})
  IN  [format |-> "pkcs12", password |-> p, shangmi |-> TRUE, bad |-> FALSE,
       form |-> IF ToPEMReads(pfx, p) THEN "bags"
                ELSE IF DecodeChainReads(pfx, p) THEN "pair"
                ELSE IF DecodeTrustStoreReads(pfx, p) THEN "trust" ELSE "broken",
       bags |-> [i \in DOMAIN Bags(pfx) |-> PemBlock(Bags(pfx)[i])],
       chain |-> ChainOf(pfx),
       key |-> IF read = << >> THEN NoKey ELSE read[1].key]
-----------------------------------------------------------------------------
MakeCertBag(c, attributes, name) ==
  [kind |-> "cert", attributes |-> attributes, name |-> name, cert |-> c, key |-> NoKey,
   password |-> NoPassword, fault |-> "none"]

(* makeSafeContents *)
Encrypted(bags, p) == [password |-> p, known |-> TRUE, bags |-> bags]
Plain(bags) == Encrypted(bags, NoPassword)

(* A fault for the runs to detect: the certificates above the leaf come first. *)
EncodeLeafLast(k, ch, p) ==
  LET certBag(i) == MakeCertBag(ch[i], IF i = 1 THEN {"localKeyID"} ELSE {}, Empty)
      keyBag == [certBag(1) EXCEPT !.kind = "shrouded", !.key = k, !.password = p]
  IN  [known |-> TRUE, mac |-> p,
       safes |-> <<Encrypted(Reverse([i \in DOMAIN ch |-> certBag(i)]), p), Plain(<<keyBag>>)>>]

(* Encode: the leaf and the key share an identifier, and nothing has a name. *)
EncodeChain(k, ch, p) ==
  LET certBag(i) == MakeCertBag(ch[i], IF i = 1 THEN {"localKeyID"} ELSE {}, Empty)
      keyBag == [certBag(1) EXCEPT !.kind = "shrouded", !.key = k, !.password = p]
  IN  [known |-> TRUE, mac |-> p,
       safes |-> <<Encrypted([i \in DOMAIN ch |-> certBag(i)], p), Plain(<<keyBag>>)>>]

(* EncodeTrustStoreEntries *)
EncodeTrustStore(names, ch, p) ==
  [known |-> TRUE, mac |-> p,
   safes |-> <<Encrypted([i \in DOMAIN ch |-> MakeCertBag(ch[i], {"java", "friendlyName"},
                                                          names[i])], p)>>]
=============================================================================
