----------------------------- MODULE MCConvert -----------------------------
(***************************************************************************)
(* Conversions for TLC: small stores, EncodeOptions that differ in the     *)
(* passwords of keys, in aliases and in what they allow, and containers of *)
(* other software.                                                         *)
(***************************************************************************)
EXTENDS Convert, MCOpening

ConvertCert == {"leaf", "root", "cross"}

ConvertKey == {"kLeaf", "kRoot", "kOther"}

ConvertAlias == {"", "app", "App", " app", "ca", "cn", "mykey", "key-leaf", "key-root", "key-other",
                 "cert-leaf", "cert-root", "cert-cross", "certificate-1", "certificate-2",
                 "certificate-3", "certificate-4"}

ConvertFold == ("App" :> "app") @@ [a \in ConvertAlias |-> a]

ConvertTrim == (" app" :> "app") @@ [a \in ConvertAlias |-> a]

MCCertificateAlias == [leaf |-> "cert-leaf", root |-> "cert-root", cross |-> "cert-cross"]

MCTrustAliases == <<"certificate-1", "certificate-2", "certificate-3", "certificate-4">>

MCNumbered == [a \in ConvertAlias |-> << >>]

MCDefaultLimits == [size |-> 2, certs |-> 9, keys |-> 9]

(* No opener gets bytes in another format. *)
NotRead(f) == [format |-> f, blocks |-> <<[NoBlock EXCEPT !.kind = "other"]>>]
MCUnreadable ==
  [jks |-> [format |-> "jks", malformed |-> TRUE], der |-> NotRead("der"),
   pkcs7 |-> NotRead("pkcs7"), pkcs12 |-> [format |-> "pkcs12", form |-> "broken"]]

(* The aliases in their order as strings. *)
Sorted == <<"", " app", "App", "app", "ca", "cert-cross", "cert-leaf", "cert-root",
            "certificate-1", "certificate-2", "certificate-3", "certificate-4", "cn", "key-leaf",
            "key-other",
            "key-root", "mykey">>

MCBefore ==
  {<<Sorted[p[1]], Sorted[p[2]]>> :
     p \in {q \in (DOMAIN Sorted) \X (DOMAIN Sorted) : q[1] < q[2]}}

(* A file with a certificate that an entry with an unavailable key has, and
   another whose alias clashes with names that callers use. *)
NoOrigin == [c \in Cert |-> ""]
LockedFile ==
  [certs |-> <<"root", "leaf">>, keys |-> << >>,
   entries |-> <<[alias |-> " app", key |-> NoKey, status |-> "unavailable",
                  chain |-> <<"leaf">>, trusted |-> FALSE]>>,
   origin |-> [NoOrigin EXCEPT !["root"] = "App", !["leaf"] = " app"], failed |-> TRUE]

KeyFile == [certs |-> << >>, keys |-> <<"kLeaf">>, entries |-> << >>, origin |-> NoOrigin,
            failed |-> FALSE]

ConvertFiles == {LockedFile, KeyFile}

ConvertChains == {<<"cross", "root">>, <<"root", "root">>}

Plainly == [password |-> "long", keyPassword |-> NoPassword, keyPasswords |-> NoPasswords,
            alias |-> "", names |-> [k \in Key |-> ""], allowLossy |-> FALSE,
            encryptKeys |-> FALSE, excludeRoots |-> FALSE, validPKCS12 |-> TRUE]

ConvertOptions ==
  {Plainly,
   [Plainly EXCEPT !.password = "short", !.encryptKeys = TRUE, !.excludeRoots = TRUE],
   [Plainly EXCEPT !.allowLossy = TRUE, !.keyPasswords = [NoPasswords EXCEPT !["app"] = "own"],
                   !.keyPassword = "other", !.alias = "App"]}

(* Containers of other software: known attributes and others, keys that are
   plain, shrouded with another password, or of a type that ToPEM knows not. *)
Shrouded(k, p) ==
  [MakeCertBag("leaf", {"friendlyName", "localKeyID"}, "app") EXCEPT
     !.kind = "shrouded", !.key = k, !.password = p]

ForeignBags ==
  {MakeCertBag("leaf", {"localKeyID"}, ""), MakeCertBag("root", {"friendlyName"}, "ca"),
   MakeCertBag("root", {"java", "friendlyName"}, "ca"),
   [MakeCertBag("root", {"java"}, "") EXCEPT !.fault = "type"],
   [MakeCertBag("leaf", {"csp"}, "") EXCEPT !.fault = "content"],
   [Shrouded("kLeaf", "long") EXCEPT !.kind = "key"], Shrouded("kLeaf", "long"),
   Shrouded("kLeaf", "short"), Shrouded("kOther", "long"),
   [Shrouded("kRoot", "long") EXCEPT !.attributes = {"other"}],
   [Shrouded("kLeaf", "long") EXCEPT !.kind = "other"]}

BagLists(n) == UNION {[1 .. m -> ForeignBags] : m \in 0 .. n}

OneSafe == {<<Encrypted(s, p)>> : s \in BagLists(2), p \in {"long", NoPassword}}
TwoSafes == {<<Encrypted(s, "long"), Plain(t)>> : s \in BagLists(1), t \in BagLists(1)}
  \cup {<<Encrypted(<<MakeCertBag("root", {}, ""), MakeCertBag("leaf", {}, "")>>, "long"),
           Plain(t)>> : t \in BagLists(2)}

MCForeign ==
  {[known |-> TRUE, mac |-> m, safes |-> s] : m \in {"long", NoPassword}, s \in OneSafe \cup TwoSafes}
  \cup {[known |-> k, mac |-> "long", safes |-> <<[Encrypted(<<Shrouded("kLeaf", "long")>>, p) EXCEPT !.known = l]>>] :
          k \in BOOLEAN, l \in BOOLEAN, p \in {"long", "short"}}
=============================================================================
