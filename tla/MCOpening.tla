----------------------------- MODULE MCOpening -----------------------------
(***************************************************************************)
(* What the runs of the openers share: two certificates, two keys, and     *)
(* three passwords.                                                        *)
(***************************************************************************)
EXTENDS Opening, MCObjects

OpeningCert == {"leaf", "root"}

OpeningInfo == [leaf |-> SmallInfo.leaf, root |-> SmallInfo.root]

OpeningKey == {"kLeaf", "kRoot", "kOther"}

OpeningSynthetic == [k \in OpeningKey |-> MCSynthetic[k]]

(* Passwords by alias, when the caller gives none. *)
NoPasswords == [a \in Alias |-> NoPassword]
=============================================================================
