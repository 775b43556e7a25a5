------------------------------ MODULE TlsProbe ------------------------------
(***************************************************************************)
(* InspectTLS (tls.go) with the verification it rests on (chain.go,        *)
(* roots.go): one connection for each requested version of TLS or TLCP,    *)
(* one after the other on the caller's goroutine, and a verdict about the  *)
(* certificates of each.  The network may fail or stall at any step, and   *)
(* the caller may cancel the context at any time.                          *)
(***************************************************************************)
EXTENDS Pki

CONSTANTS
  Name,        \* host names
  Empty,       \* the empty string
  Matching,    \* the certificates that are valid for each name
  Current,     \* the certificates that are valid at CurrentTime
  ServerAuth,  \* the certificates whose usages allow a TLS server
  WithAia,     \* the certificates with an IssuingCertificateURL
  NoRoots,     \* a nil *TrustStore
  SystemPool,  \* the roots of the operating system
  Trust,       \* trust stores of the caller: lists of pools, or NoRoots
  Added,       \* certificates that the caller may add to a trust store
  Requests,    \* addresses and options
  Served       \* what a server may send: certificates, a staple, or garbage

TlsVersion == {"TLS10", "TLS11", "TLS12", "TLS13"}

DefaultVersions == <<"TLS10", "TLS11", "TLS12", "TLS13">>

ProbeInputs ==
  /\ Empty \notin Name
  /\ Matching \in [Name -> SUBSET Cert]
  /\ Current \subseteq Cert /\ ServerAuth \subseteq Cert /\ WithAia \subseteq Cert
  /\ SystemPool \subseteq Cert /\ Added \subseteq Cert
  /\ \A t \in Trust : t = NoRoots \/ t \in Seq(SUBSET Cert)
  /\ \A r \in Requests :
        /\ r.wellFormed \in BOOLEAN /\ r.host \in Name
        /\ r.serverName \in Name \cup {Empty}
        /\ r.versions \in Seq(TlsVersion \cup {"TLCP11", "unsupported"})
  /\ \A s \in Served : /\ s.certs \in Seq(Cert) \ {<< >>}
                        /\ s.bad \in BOOLEAN /\ s.staple \in BOOLEAN

ASSUME ProbeInputsWellFormed == ProbeInputs

VARIABLES
  roots,      \* TLSOptions.Roots
  request,    \* the address and the other options
  stage,      \* what InspectTLS does next
  cancelled,  \* the caller's context is done
  sent,       \* what the server sent in the present handshake
  report      \* TLSReport.Versions

probeVars == <<roots, request, stage, cancelled, sent, report>>

Versions == IF request.versions = << >> THEN DefaultVersions ELSE request.versions

ServerName == IF request.serverName = Empty THEN request.host ELSE request.serverName

(* The version to probe next. *)
Version == Versions[Len(report) + 1]

Finished == stage \in {"done", "refused"}
-----------------------------------------------------------------------------
(***************************************************************************)
(* Verification.                                                           *)
(***************************************************************************)

(* The issuer's name and signature. *)
IssuedBy(c, p) == Info[c].issuer = Info[p].subject /\ SignedBy(c, p)

Issuing(p) == \A i \in 1 .. (Len(p) - 1) : IssuedBy(p[i], p[i + 1])

Acceptable == Current \cap ServerAuth

(* smx509's Certificate.Verify against one pool of roots: a chain of
   acceptable certificates through intermediates to a root of the pool.
   "named" are the certificates with the right name. *)
Verifies(leaf, intermediates, pool, named) ==
  LET between == intermediates \cap Acceptable
  IN  /\ leaf \in named \cap Acceptable
      /\ \/ leaf \in pool
         \/ \E n \in 0 .. Cardinality(between) :
              \E ch \in [1 .. n -> between], root \in pool \cap Acceptable :
                 Issuing(<<leaf>> \o ch \o <<root>>)

(* TrustStore.verify: one pool after the other, never a mix of pools; a store
   without pools is treated as the roots of the system. *)
Trusts(pools, leaf, intermediates, named) ==
  IF pools = << >> THEN Verifies(leaf, intermediates, SystemPool, named)
  ELSE \E i \in DOMAIN pools : Verifies(leaf, intermediates, pools[i], named)

(* The ChainValidation that carries only an error. *)
NoVerdict ==
  [hostname |-> FALSE, trusted |-> FALSE, complete |-> FALSE,
   containsRoot |-> FALSE, missing |-> {}, aia |-> FALSE]

(* Faults for the runs to detect stand before the definition they replace. *)

(* The chain is not complete unless the root was sent. *)
PeerVerdictWithRoot(certs, pools, name, leafIndex, chainStart) ==
  IF leafIndex > Len(certs) THEN NoVerdict
  ELSE LET leaf == certs[leafIndex]
           chain == SubSeq(certs, chainStart, Len(certs))
           root == \E c \in ToSet(chain) : IsRoot(c)
           ok == root /\ Trusts(pools, leaf, ToSet(chain), Matching[name])
       IN  [NoVerdict EXCEPT !.hostname = leaf \in Matching[name], !.trusted = ok,
                             !.complete = ok, !.containsRoot = root]

(* validatePeerCertificateChain; the positions count from 1 here. *)
PeerVerdict(certs, pools, name, leafIndex, chainStart) ==
  IF leafIndex > Len(certs) THEN NoVerdict
  ELSE LET leaf == certs[leafIndex]
           chain == SubSeq(certs, chainStart, Len(certs))
           ok == Trusts(pools, leaf, ToSet(chain), Matching[name])
           last == IF chain = << >> THEN leaf ELSE chain[Len(chain)]
       IN  [hostname |-> leaf \in Matching[name],
            trusted |-> ok,
            complete |-> ok,
            containsRoot |-> \E c \in ToSet(chain) : IsRoot(c),
            missing |-> IF ok THEN {} ELSE {Info[last].issuer},
            aia |-> ~ok /\ last \in WithAia]

(* The verdict about the signing certificate stands for both. *)
BothSigning(signing, encryption) == signing

Both(signing, encryption) ==
  [hostname |-> signing.hostname /\ encryption.hostname,
   trusted |-> signing.trusted /\ encryption.trusted,
   complete |-> signing.complete /\ encryption.complete,
   containsRoot |-> signing.containsRoot \/ encryption.containsRoot,
   missing |-> signing.missing \cup encryption.missing,
   aia |-> signing.aia \/ encryption.aia]

(* validateTLSChain and validateTLCPChain *)
Verdict(version, certs, pools, name) ==
  IF version # "TLCP11" THEN PeerVerdict(certs, pools, name, 1, 2)
  ELSE IF Len(certs) < 2 THEN NoVerdict
  ELSE Both(PeerVerdict(certs, pools, name, 1, 3), PeerVerdict(certs, pools, name, 2, 3))
-----------------------------------------------------------------------------
(***************************************************************************)
(* The probe.                                                              *)
(***************************************************************************)
NothingSent == [certs |-> << >>, bad |-> FALSE, staple |-> FALSE]

ProbeInit ==
  /\ roots \in Trust
  /\ request \in Requests
  /\ stage = "idle"
  /\ cancelled = FALSE
  /\ sent = NothingSent
  /\ report = << >>

(* Only the added root is kept. *)
AddRootInstead(c) ==
  /\ stage = "idle" /\ roots # NoRoots
  /\ roots' = <<{c}>>
  /\ UNCHANGED <<request, stage, cancelled, sent, report>>

(* TrustStore.Add, before the store is used. *)
AddRoot(c) ==
  /\ stage = "idle" /\ roots # NoRoots
  /\ roots' = IF roots = << >> THEN <<{c}>> ELSE [roots EXCEPT ![1] = @ \cup {c}]
  /\ UNCHANGED <<request, stage, cancelled, sent, report>>

(* The context passed to InspectTLS is done, or was when it was passed. *)
Cancel ==
  /\ ~cancelled /\ ~Finished
  /\ cancelled' = TRUE
  /\ UNCHANGED <<roots, request, stage, sent, report>>

(* The address is parsed and the roots are chosen; loading the roots of the
   system may fail. *)
Begin ==
  /\ stage = "idle"
  /\ \/ request.wellFormed /\ stage' = "dial"
     \/ ~request.wellFormed /\ stage' = "refused"
     \/ request.wellFormed /\ roots = NoRoots /\ stage' = "refused"
  /\ roots' = IF stage' = "dial" /\ roots = NoRoots THEN <<SystemPool>> ELSE roots
  /\ UNCHANGED <<request, cancelled, sent, report>>

(* The loop has come to a version that is no version: there is no report. *)
RefuseVersion ==
  /\ stage = "dial"
  /\ Version = "unsupported"
  /\ stage' = "refused"
  /\ UNCHANGED <<roots, request, cancelled, sent, report>>

(* The connection of this version comes to an end; its result is r. *)
Conclude(r) ==
  /\ report' = Append(report, r)
  /\ stage' = IF Len(report) + 1 = Len(Versions) THEN "done" ELSE "dial"
  /\ sent' = NothingSent
  /\ UNCHANGED <<roots, request, cancelled>>

Failure(failure) ==
  [version |-> Version, handshake |-> failure = "parse", failure |-> failure,
   sent |-> sent.certs, certs |-> << >>, staple |-> << >>]

(* A failed attempt ends the loop. *)
FailDialForAll ==
  /\ stage = "dial" /\ Version # "unsupported"
  /\ stage' = "done"
  /\ UNCHANGED <<roots, request, cancelled, sent, report>>

FailDial ==
  /\ stage = "dial" /\ Version # "unsupported"
  /\ Conclude(Failure("dial"))

(* A dial and a handshake may still succeed just after the context is done. *)
Dial ==
  /\ stage = "dial" /\ Version # "unsupported"
  /\ stage' = "handshake"
  /\ UNCHANGED <<roots, request, cancelled, sent, report>>

(* The handshake is not told of the context. *)
FailHandshakeUncancelled ==
  /\ stage = "handshake" /\ ~cancelled
  /\ Conclude(Failure("handshake"))

FailHandshake ==
  /\ stage = "handshake"
  /\ Conclude(Failure("handshake"))

Handshake ==
  /\ stage = "handshake"
  /\ \E s \in Served :
        /\ s.bad => Version # "TLCP11"
        /\ sent' = s
  /\ stage' = "inspect"
  /\ UNCHANGED <<roots, request, cancelled, report>>

(* What the server sent is put into a store, each certificate once; a staple
   is checked with the second certificate as its issuer. *)
Inspect ==
  /\ stage = "inspect"
  /\ LET certs == AppendNew(<< >>, sent.certs)
     IN  IF sent.bad THEN Conclude(Failure("parse"))
         ELSE Conclude(
           [version |-> Version, handshake |-> TRUE, failure |-> "none",
            sent |-> sent.certs, certs |-> certs,
            staple |-> IF Version # "TLCP11" /\ sent.staple /\ Len(certs) > 1
                       THEN SubSeq(certs, 1, 2) ELSE << >>])

ProbeNext ==
  \/ \E c \in Added : AddRoot(c)
  \/ Cancel \/ Begin \/ RefuseVersion
  \/ FailDial \/ Dial \/ FailHandshake \/ Handshake \/ Inspect

(* What comes to pass whatever the network does: a dial and a handshake end
   when the context is done.  Before, a server may let them wait; a handshake
   has no timeout of its own, and the dialer is the caller's. *)
Bounded ==
  \/ Begin \/ RefuseVersion \/ Inspect
  \/ cancelled /\ (FailDial \/ FailHandshake)

ProbeSpec == ProbeInit /\ [][ProbeNext]_probeVars /\ WF_probeVars(Bounded)
-----------------------------------------------------------------------------
(***************************************************************************)
(* Properties.                                                             *)
(***************************************************************************)

(* TLSVersionResult.Validation.  The roots do not change while InspectTLS runs,
   so that it is a function of the rest of the result. *)
Validation(r) ==
  IF r.failure = "none" THEN Verdict(r.version, r.certs, roots, ServerName) ELSE NoVerdict

(* Every version has exactly one result, in the order of the request, however
   the attempts before it ended. *)
OneResultEach ==
  /\ \A i \in DOMAIN report : report[i].version = Versions[i]
  /\ stage = "done" => Len(report) = Len(Versions)

(* The certificates a server presents as its own. *)
Leaves(r) == {r.sent[i] : i \in 1 .. (IF r.version = "TLCP11" THEN 2 ELSE 1)}

(* TLSVersionResult.Validation.Trusted covers every certificate that the server
   presents as its own, the encryption certificate of TLCP included: each has
   the name asked for, and certificates that were sent lead to a root of one
   pool, all of them valid at the time asked for. *)
TrustedIsEarned ==
  \A i \in DOMAIN report : Validation(report[i]).trusted =>
    \A leaf \in Leaves(report[i]) :
       /\ leaf \in Matching[ServerName]
       /\ \E p \in Paths :
             /\ p[1] = leaf
             /\ Issuing(p)
             /\ ToSet(p) \subseteq Current
             /\ \E pool \in ToSet(roots) \cup (IF roots = << >> THEN {SystemPool} ELSE {}) :
                   p[Len(p)] \in pool
             /\ {p[j] : j \in 1 .. (Len(p) - 1)} \subseteq ToSet(report[i].sent)

(* README.md:256: the root need not be sent by the server.  Whether it is sent
   after the certificates of the server makes no difference to the trust. *)
RootsMakeNoDifference ==
  \A i \in DOMAIN report : report[i].failure = "none" =>
    LET r == report[i]
        leaves == IF r.version = "TLCP11" THEN 2 ELSE 1
        rootless == Pick(r.certs, {j \in DOMAIN r.certs : j <= leaves \/ ~IsRoot(r.certs[j])})
    IN  Verdict(r.version, rootless, roots, ServerName).trusted = Validation(r).trusted

(* Adding a root to a trust store that has a pool takes nobody's trust away. *)
AddOnlyExtendsTrust ==
  [][stage = "idle" /\ roots \notin {NoRoots, << >>} =>
       \A s \in Served, v \in {"TLCP11", "TLS12"}, n \in Name :
          LET certs == AppendNew(<< >>, s.certs)
          IN  Verdict(v, certs, roots, n).trusted => Verdict(v, certs, roots', n).trusted]_probeVars

(* A done context ends InspectTLS wherever it is, though the server may keep
   silent in the middle of a handshake. *)
CancellationEndsProbing == cancelled ~> Finished
-----------------------------------------------------------------------------
(* README.md:256: the name, the trust and the completeness of the chain that
   the server sent are reported separately.  A chain is complete if what was
   sent leads to a root of a pool, whatever the name that was asked for. *)
CompletenessIsSeparate ==
  \A i \in DOMAIN report : report[i].failure = "none" /\ report[i].version # "TLCP11" =>
    LET r == report[i]
    IN  Trusts(roots, r.certs[1], ToSet(SubSeq(r.certs, 2, Len(r.certs))), Cert)
          => Validation(r).complete
=============================================================================
