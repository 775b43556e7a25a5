------------------------------ MODULE Keyring ------------------------------
(***************************************************************************)
(* What a certificate store promises, without the order of its objects,    *)
(* its chains and its statuses: a set of certificates, a set of private    *)
(* keys, and names bound to keys.  A call puts things in, or takes one     *)
(* thing out.                                                              *)
(***************************************************************************)
CONSTANTS
  Cert,     \* certificates
  Key,      \* private keys
  NoKey,    \* what a name is bound to that has no key, or has lost it
  Name,     \* names
  NameOf    \* the name that the store gives to a key that comes without one

VARIABLES
  certificates,  \* a set of certificates
  privateKeys,   \* a set of keys
  bindings       \* a set of names with their keys

ringVars == <<certificates, privateKeys, bindings>>

Binding == [name : Name, key : Key \cup {NoKey}]

RingInit ==
  /\ certificates = {}
  /\ privateKeys = {}
  /\ bindings = {}

(* A name that is taken is not given again.  Only the store's own name for a key may have
   been in use before. *)
IsFreeFor(b) ==
  \/ \A old \in bindings : old.name # b.name
  \/ b.key # NoKey /\ b.name = NameOf[b.key]

(* Things are added, and nothing is lost or bound otherwise; each new key has
   a name from the start. *)
Put ==
  /\ certificates \subseteq certificates' /\ certificates' \subseteq Cert
  /\ privateKeys \subseteq privateKeys' /\ privateKeys' \subseteq Key
  /\ bindings \subseteq bindings' /\ bindings' \subseteq Binding
  /\ \A b \in bindings' \ bindings : IsFreeFor(b) /\ b.key \in privateKeys' \cup {NoKey}
  /\ \A k \in privateKeys' \ privateKeys : \E b \in bindings' : b.key = k

TakeCertificate(c) ==
  /\ certificates' = certificates \ {c}
  /\ UNCHANGED <<privateKeys, bindings>>

(* Every name of the key loses it, and none is forgotten. *)
TakeKey(k) ==
  /\ privateKeys' = privateKeys \ {k}
  /\ bindings' = {b \in bindings : b.key # k}
                   \cup {[b EXCEPT !.key = NoKey] : b \in {x \in bindings : x.key = k}}
  /\ UNCHANGED certificates

Forget(b) ==
  /\ bindings' = bindings \ {b}
  /\ UNCHANGED <<certificates, privateKeys>>

RingNext ==
  \/ Put
  \/ \E c \in certificates : TakeCertificate(c)
  \/ \E k \in privateKeys : TakeKey(k)
  \/ \E b \in bindings : Forget(b)

RingSpec == RingInit /\ [][RingNext]_ringVars
=============================================================================
