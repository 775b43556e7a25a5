----------------------------- MODULE MCObjects -----------------------------
(***************************************************************************)
(* A small public key infrastructure for TLC: a leaf certificate and two   *)
(* certificates of the CA that issued it, one that is issued by a root or  *)
(* is a root itself, the other cross-signed by a CA that nobody holds.     *)
(***************************************************************************)
EXTENDS Objects

SmallCert == {"leaf", "root", "cross"}

Fields(subject, issuer, isCA, pub, signer) ==
  [subject |-> subject, issuer |-> issuer, isCA |-> isCA, certSign |-> isCA,
   pub |-> pub, signer |-> signer, ski |-> NoId, aki |-> NoId]

(* The leaf is issued by a root, which is also cross-signed. *)
SmallInfo ==
  [leaf  |-> Fields("Leaf", "Root", FALSE, "kLeaf", "kRoot"),
   cross |-> Fields("Root", "Other", TRUE, "kRoot", "kOther"),
   root  |-> Fields("Root", "Root", TRUE, "kRoot", "kRoot")]

MCKey == {"kLeaf", "kInter", "kRoot", "kOther"}

(* "App" and "app" differ only in case, " app" only in a space. *)
MCAlias == {"", "app", "App", " app", "ca", "cn",
            "key-leaf", "key-inter", "key-root", "key-other"}

Same == [a \in MCAlias |-> a]

MCFold == ("App" :> "app") @@ Same

MCTrim == (" app" :> "app") @@ Same

MCSynthetic == [kLeaf |-> "key-leaf", kInter |-> "key-inter",
                kRoot |-> "key-root", kOther |-> "key-other"]

MCDefaultAlias == ("leaf" :> "cn") @@ [c \in Cert |-> "cn"]
=============================================================================
