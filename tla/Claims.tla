------------------------------- MODULE Claims -------------------------------
(***************************************************************************)
(* Statements that certkit's documentation makes about its stores and      *)
(* encodings and that the code does not keep.  Each is the property of a   *)
(* run of its own, in which TLC finds the calls that refute it; README.md  *)
(* tells the stories.                                                      *)
(***************************************************************************)
EXTENDS Encode

(* model.go:145: AddCertificate "adds a certificate to the Store and matches
   the existing entries again".  After the call, an entry whose key has a
   certificate in the store starts its chain with such a certificate. *)
AddCertificateMatchesAgain ==
  [][(\E c \in Cert : AddCertificate(c)) =>
       \A i \in DOMAIN entries' :
          LET e == entries'[i]
          IN  (\E c \in ToSet(certs') : e.key # NoKey /\ Matches(e.key, c))
                => e.chain # << >> /\ Matches(e.key, e.chain[1])]_vars

(* doc.go:18-19: a conversion that may discard certificates or private keys
   returns ErrLossyConversion unless AllowLossy is set.  Here for JKS. *)
LossyJksIsRefused ==
  \A o \in Options : Accepted("JKS", o) /\ ~o.allowLossy => Lossless("JKS", o)
=============================================================================
