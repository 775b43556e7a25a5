---------------------------- MODULE MCOpenPkcs12 ----------------------------
(***************************************************************************)
(* PKCS12 files for TLC: up to MaxBags bags, whose names clash up to case, *)
(* after trimming, and with the numbered variant of another name; and one  *)
(* file for each other reader.                                             *)
(***************************************************************************)
EXTENDS OpenPkcs12, MCOpening

CONSTANT MaxBags

BagAlias == MCAlias \cup {"app-2", "app-3", "App-2", "App-3", "app-2-2", "app-2-3",
                          "cn-2", "key-leaf-2", "key-leaf-3", "key-root-2", "key-root-3",
                          "certificate-1", "certificate-2"}

BagFold == ("App" :> "app") @@ ("App-2" :> "app-2") @@ ("App-3" :> "app-3")
             @@ [a \in BagAlias |-> a]

BagTrim == (" app" :> "app") @@ [a \in BagAlias |-> a]

MCNumbered ==
  ("app" :> <<"app-2", "app-3">>) @@ ("App" :> <<"App-2", "App-3">>)
    @@ ("app-2" :> <<"app-2-2", "app-2-3">>) @@ ("cn" :> <<"cn-2">>)
    @@ ("key-leaf" :> <<"key-leaf-2", "key-leaf-3">>)
    @@ ("key-root" :> <<"key-root-2", "key-root-3">>)
    @@ [a \in BagAlias |-> << >>]

MCTrustAliases == <<"certificate-1", "certificate-2">>

NoBag == [kind |-> "other", bad |-> FALSE, name |-> "", cert |-> "leaf", key |-> "kLeaf"]

CertBag(c, name) == [NoBag EXCEPT !.kind = "cert", !.cert = c, !.name = name]
KeyBag(k, name) == [NoBag EXCEPT !.kind = "key", !.key = k, !.name = name]

MCBags ==
  {NoBag, [CertBag("leaf", "") EXCEPT !.bad = TRUE], [KeyBag("kLeaf", "") EXCEPT !.bad = TRUE],
   CertBag("leaf", " app"), CertBag("leaf", ""), CertBag("root", "App"), CertBag("root", ""),
   KeyBag("kLeaf", ""), KeyBag("kLeaf", "app"), KeyBag("kRoot", "App"), KeyBag("kRoot", "app-2")}

Container == [format |-> "pkcs12", form |-> "bags", password |-> "a", shangmi |-> FALSE, bad |-> FALSE,
              bags |-> << >>, chain |-> << >>, key |-> "kLeaf"]

Pairs ==
  {[Container EXCEPT !.form = "pair", !.chain = ch, !.shangmi = s, !.bad = b] :
     ch \in {<<"leaf">>, <<"leaf", "root">>, <<"root">>}, s \in BOOLEAN, b \in BOOLEAN}

MCPkcs12Files ==
  {[Container EXCEPT !.bags = s] : s \in UNION {[1..n -> MCBags] : n \in 0..MaxBags}}
  \cup Pairs
  \cup {[Container EXCEPT !.form = "trust", !.chain = ch, !.bad = b] :
          ch \in {<<"root", "leaf">>, <<"root", "root">>}, b \in BOOLEAN}
  \cup {[Container EXCEPT !.form = "broken"]}

MCPkcs12Options ==
  {[password |-> "a", answers |-> {NoPassword}],
   [password |-> "b", answers |-> {"a"}],
   [password |-> NoPassword, answers |-> {Failed, "a"}]}
=============================================================================
