------------------------------ MODULE MCEncode ------------------------------
(***************************************************************************)
(* EncodeOptions for TLC: each sets some of the fields that select a path  *)
(* through the encoders.                                                   *)
(***************************************************************************)
EXTENDS Encode, MCStore

EncodeAlias == MCAlias \cup {"mykey", "cert-leaf", "cert-root"}

EncodeFold == ("App" :> "app") @@ [a \in EncodeAlias |-> a]

EncodeTrim == (" app" :> "app") @@ [a \in EncodeAlias |-> a]

MCCertificateAlias == [leaf |-> "cert-leaf", root |-> "cert-root"]

PairCert == {"leaf", "root"}

PairInfo == [leaf |-> SmallInfo.leaf, root |-> SmallInfo.root]

RepeatingChains == {<<"leaf">>, <<"leaf", "leaf">>, <<"leaf", "root">>}

EncodeFiles == {KeyFile, LockedFile}

NoNames == [k \in Key |-> ""]

NoPasswords == [a \in Alias |-> NoPassword]

Default == [password |-> "long", keyPassword |-> NoPassword, keyPasswords |-> NoPasswords,
            alias |-> "", names |-> NoNames, allowLossy |-> FALSE,
            encryptKeys |-> FALSE, excludeRoots |-> FALSE, validPKCS12 |-> TRUE]

MCOptions ==
  {Default,
   [Default EXCEPT !.allowLossy = TRUE, !.excludeRoots = TRUE],
   [Default EXCEPT !.password = NoPassword, !.encryptKeys = TRUE],
   [Default EXCEPT !.password = "short", !.alias = "app", !.excludeRoots = TRUE],
   [Default EXCEPT !.alias = "App", !.keyPasswords = [NoPasswords EXCEPT !["app"] = "short"],
                   !.validPKCS12 = FALSE],
   [Default EXCEPT !.names = ("kLeaf" :> " app") @@ ("kRoot" :> "ca") @@ NoNames,
                   !.allowLossy = TRUE, !.keyPassword = "long"]}
=============================================================================
