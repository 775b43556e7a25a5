----------------------------- MODULE MCOpenJks -----------------------------
(***************************************************************************)
(* JKS files for TLC: up to three entries, in the order of their aliases,  *)
(* two of which differ only in case.                                       *)
(***************************************************************************)
EXTENDS OpenJks, MCOpening

Jks(alias, kind, chain, key, password) ==
  [alias |-> alias, kind |-> kind, chain |-> chain, key |-> key,
   password |-> password, bad |-> FALSE]

(* The entry's password may be its own, another one than that of the store. *)
UpperItems == {<< >>} \cup
  {<<Jks("App", "key", <<"leaf", "root">>, "kLeaf", p)>> : p \in {"store", "own"}}

(* The last key can be decrypted but not parsed. *)
LowerItems == {<< >>, <<Jks("app", "key", <<"leaf">>, "kLeaf", "changeit")>>,
               <<Jks("app", "key", <<"leaf">>, "kOther", "own")>>,
               <<Jks("app", "key", << >>, NoKey, "store")>>}

(* The last one is a trusted certificate that can not be parsed. *)
CaItems == {<< >>, <<Jks("ca", "trusted", <<"root">>, NoKey, "store")>>,
            <<Jks("ca", "other", << >>, NoKey, "store")>>,
            <<[Jks("ca", "trusted", <<"root">>, NoKey, "store") EXCEPT !.bad = TRUE]>>}

MCJksFiles ==
  {[format |-> "jks", password |-> p, malformed |-> FALSE, items |-> u \o l \o c] :
     p \in {"store", "changeit"}, u \in UpperItems, l \in LowerItems, c \in CaItems}
  \cup {[format |-> "jks", password |-> "store", malformed |-> TRUE, items |-> << >>]}

MCJksOptions ==
  [password : {NoPassword, "store", "own"},
   container : {NoPassword, Failed, "store"},
   keyPasswords : {NoPasswords, [NoPasswords EXCEPT !["app"] = "own"],
                   [NoPasswords EXCEPT !["app"] = "own", !["App"] = "store"]},
   answers : {NoPasswords, [NoPasswords EXCEPT !["app"] = "own", !["App"] = Failed]},
   disableDefault : BOOLEAN]
=============================================================================
