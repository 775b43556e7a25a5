------------------------------ MODULE MCStore ------------------------------
(***************************************************************************)
(* What TLC merges into a store: the caller's objects, and the stores that *)
(* the openers make of a few files.                                        *)
(***************************************************************************)
EXTENDS Store, MCObjects

MCCallerChains == {<< >>, <<"leaf">>, <<"leaf", "cross">>}

(* A third spelling, which only a file uses. *)
StoreAlias == MCAlias \cup {"CA"}

StoreFold == ("CA" :> "ca") @@ MCFold

StoreTrim == ("CA" :> "CA") @@ MCTrim

NoOrigin == [c \in Cert |-> ""]

(* A PEM file with certificates. *)
ChainFile(chain) == [certs |-> chain, keys |-> << >>, entries |-> << >>,
                     origin |-> NoOrigin, failed |-> FALSE]

(* A PEM file with a private key. *)
KeyFile == [certs |-> << >>, keys |-> <<"kLeaf">>, entries |-> << >>,
            origin |-> NoOrigin, failed |-> FALSE]

(* A JKS file with a trusted certificate and a key entry whose password was
   wrong. *)
LockedFile ==
  [certs |-> <<"root", "leaf">>, keys |-> << >>,
   entries |-> <<[alias |-> "ca", key |-> NoKey, status |-> "none",
                  chain |-> <<"root">>, trusted |-> TRUE],
                 [alias |-> " app", key |-> NoKey, status |-> "unavailable",
                  chain |-> <<"leaf">>, trusted |-> FALSE]>>,
   origin |-> [NoOrigin EXCEPT !["root"] = "ca", !["leaf"] = " app"],
   failed |-> TRUE]

(* A JKS file of software that tells aliases apart by case, and lets a key
   have the certificate of another. *)
ClashingFile ==
  [certs |-> <<"root">>, keys |-> <<"kLeaf">>,
   entries |-> <<[alias |-> "ca", key |-> NoKey, status |-> "none",
                  chain |-> <<"root">>, trusted |-> TRUE],
                 [alias |-> "CA", key |-> "kLeaf", status |-> "available",
                  chain |-> <<"root">>, trusted |-> FALSE]>>,
   origin |-> [NoOrigin EXCEPT !["root"] = "ca"], failed |-> FALSE]

(* The last file has more certificates than the caller accepts. *)
SmallFiles == {ChainFile(<<"leaf", "root">>), KeyFile, LockedFile, ClashingFile,
               ChainFile(<<"root", "leaf", "cross">>)}
=============================================================================
