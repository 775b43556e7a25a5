-------------------------------- MODULE Pki --------------------------------
(***************************************************************************)
(* Parsed certificates and the order in which certkit chains them.         *)
(*                                                                         *)
(* A certificate is a member of Cert: two certificates are the same member *)
(* exactly when their DER encodings are equal, which is what the SHA-256   *)
(* identifier of model.go stands for.  Key is the set of key pairs, one    *)
(* for each public key DER; a private key and a certificate of the same    *)
(* key pair "match".  Info gives the fields of a certificate that the code *)
(* looks at.                                                               *)
(***************************************************************************)
EXTENDS Lists, FiniteSetsExt

CONSTANTS
  Cert,   \* certificates
  Key,    \* key pairs
  Info,   \* the fields of each certificate
  NoId    \* an absent subject or authority key identifier

ASSUME PkiFinite == IsFiniteSet(Cert)

ASSUME PkiFields ==
  \A c \in Cert :
     /\ DOMAIN Info[c] = {"subject", "issuer", "isCA", "certSign", "pub",
                          "signer", "ski", "aki"}
     /\ Info[c].isCA \in BOOLEAN
     /\ Info[c].certSign \in BOOLEAN
     /\ Info[c].pub \in Key
     /\ Info[c].signer \in Key

(* smx509's CheckSignatureFrom: the parent may sign certificates and the
   signature verifies under its key. *)
SignedBy(c, p) ==
  /\ Info[p].isCA /\ Info[p].certSign
  /\ Info[c].signer = Info[p].pub

(* CertificateRoleRoot: a CA certificate that names itself as its issuer and
   verifies under its own key. *)
IsRoot(c) ==
  /\ Info[c].isCA
  /\ Info[c].subject = Info[c].issuer
  /\ SignedBy(c, c)

(* publicKeysEqual of a private key and a certificate. *)
Matches(k, c) == Info[c].pub = k

(* Both identifiers are present and they differ. *)
KeyIdClash(c, p) ==
  /\ Info[c].aki # NoId /\ Info[p].ski # NoId
  /\ Info[c].aki # Info[p].ski

(* What buildCertificateChain asks of a candidate for the next certificate. *)
IsParent(c, p) ==
  /\ Info[p].isCA
  /\ Info[c].issuer = Info[p].subject
  /\ ~KeyIdClash(c, p)
  /\ SignedBy(c, p)

(* The lists of at most as many certificates as there are. *)
Paths ==
  LET N == Cardinality(Cert)
  IN  UNION {{SubSeq(f, 1, n) : f \in [1 .. N -> Cert]} : n \in 1 .. N}

(* The chains that certificates can form at all: no certificate twice, and
   each followed by a parent.  (A constant: TLC computes it once.) *)
SignedPaths ==
  {p \in Paths : /\ NoDuplicates(p)
                 /\ \A i \in 1 .. (Len(p) - 1) : IsParent(p[i], p[i + 1])}

(* The positions of the slice certs that hold an unseen parent of p[i]. *)
Candidates(p, i, certs) ==
  {j \in DOMAIN certs : /\ IsParent(p[i], certs[j])
                        /\ \A k \in 1 .. i : p[k] # certs[j]}

(* A fault for the runs to detect: the loop does not stop at the first parent. *)
TakesLast(p, i, certs) ==
  /\ ~IsRoot(p[i])
  /\ \E j \in Candidates(p, i, certs) :
        /\ p[i + 1] = certs[j]
        /\ \A k \in Candidates(p, i, certs) : k <= j

(* p[i + 1] is what the inner loop of buildCertificateChain finds after p[i]. *)
TakesFirst(p, i, certs) ==
  /\ ~IsRoot(p[i])
  /\ \E j \in Candidates(p, i, certs) :
        /\ p[i + 1] = certs[j]
        /\ \A k \in Candidates(p, i, certs) : j <= k

(* p is a value that the slice "chain" takes while the loop runs. *)
IsWalk(p, leaf, certs) ==
  /\ p[1] = leaf
  /\ \A i \in 1 .. (Len(p) - 1) : TakesFirst(p, i, certs)

(* The loop ends: a root is reached, or no parent is left. *)
CannotExtend(p, certs) ==
  IsRoot(p[Len(p)]) \/ Candidates(p, Len(p), certs) = {}

(* buildCertificateChain *)
BuildChain(leaf, certs) ==
  CHOOSE p \in SignedPaths : IsWalk(p, leaf, certs) /\ CannotExtend(p, certs)
=============================================================================
