----------------------------- MODULE Authority -----------------------------
(***************************************************************************)
(* Certificate authorities over time: CreateRootCA, IssueCertificate       *)
(* (ca.go), SignCertificateRequest (csr.go), CreateCRL and CheckCRL        *)
(* (crl.go), and CheckOCSP (ocsp.go, internal/ocsp).  certkit keeps no     *)
(* state between these calls: the state is what the callers hold, which is *)
(* entries, lists and OCSP responses, and the clock.                       *)
(*                                                                         *)
(* Key identifiers are hashes of public keys and stand here for the keys.  *)
(* Names of hosts, extended usages other than that of OCSP responders, and *)
(* the making of requests are left out; Fetch.tla adds the transport.      *)
(***************************************************************************)
EXTENDS Integers, Sequences, FiniteSets

CONSTANTS
  Key,           \* key pairs
  RequestKey,    \* those of the requesters, who generate their own
  NoKey,         \* an entry without a private key
  Subject,       \* names
  RequestSubject,  \* those in the requests
  Serial,        \* serial numbers
  NoSerial,      \* a nil SerialNumber in the options
  NoTime,        \* a zero time
  Existing,      \* entries that were opened from files
  RootOptions, CertOptions, ListOptions,  \* options
  BackDate,      \* how long before now a certificate begins by default
  ListBackDate,  \* the same for a list
  RootLife, CaLife, LeafLife, ListLife,   \* default periods of validity
  ResponseLife,  \* how long a responder's answers are good for
  Skew,          \* values of MaxClockSkew
  NoPathLen,     \* no limit on the certificates below a CA
  MaxTime, MaxIssued, MaxRevoked, MaxAnswers  \* bounds

VARIABLES
  now,
  issued,    \* entries: a chain and its private key
  revoked,   \* what the callers have revoked, and when
  lists,     \* the CRLs made
  responses  \* the answers of OCSP responders

authorityVars == <<now, issued, revoked, lists, responses>>

Usage == {"certSign", "crlSign", "digitalSignature"}

Time == Int

Certificate ==
  [serial : Serial, subject : Subject, issuer : Subject, key : Key, signer : Key,
   notBefore : Time, notAfter : Time, isCA : BOOLEAN, usages : SUBSET Usage,
   maxPathLen : Nat \cup {NoPathLen}, ocspSigning : BOOLEAN]

Held == [chain : Seq(Certificate) \ {<< >>}, key : Key \cup {NoKey}]

(* smx509's CheckSignatureFrom *)
SignedBy(c, p) ==
  /\ p.isCA /\ (p.usages = {} \/ "certSign" \in p.usages)
  /\ c.signer = p.key

ValidAt(c, t) == c.notBefore <= t /\ t <= c.notAfter

(* The CA at place i has i - 2 others below it. *)
PathLengthsKept(chain) ==
  \A i \in DOMAIN chain : chain[i].maxPathLen # NoPathLen => i - 2 <= chain[i].maxPathLen

(* What VerifyCertificate makes of a chain whose last certificate is trusted. *)
VerifiesAt(chain, t) ==
  /\ PathLengthsKept(chain)
  /\ \A i \in DOMAIN chain : ValidAt(chain[i], t)
  /\ \A i \in 1 .. (Len(chain) - 1) :
        chain[i].issuer = chain[i + 1].subject /\ SignedBy(chain[i], chain[i + 1])

(* The chain verifies from the moment when all its certificates have begun
   until its leaf ends. *)
OutlivesLeaf(chain) ==
  \A t \in 0 .. chain[1].notAfter :
    (\A i \in DOMAIN chain : chain[i].notBefore <= t) => VerifiesAt(chain, t)

Options ==
  /\ BackDate \in Nat /\ ListBackDate \in Nat
  /\ {RootLife, CaLife, LeafLife, ListLife, ResponseLife} \subseteq Nat
  /\ NoTime \notin Time
  /\ Skew \subseteq Nat
  /\ RequestKey \subseteq Key /\ RequestSubject \subseteq Subject
  /\ \A o \in RootOptions \cup CertOptions :
        /\ o.notBefore \in Time \cup {NoTime} /\ o.notAfter \in Time \cup {NoTime}
        /\ o.validFor \in Int /\ o.subject \in Subject
        /\ o.maxPathLen \in Nat /\ o.maxPathLenZero \in BOOLEAN
  /\ \A o \in CertOptions :
        /\ o.parsed \in BOOLEAN  \* the subject is one that was parsed
        /\ o.isCA \in BOOLEAN /\ o.usages \subseteq Usage /\ o.ocspSigning \in BOOLEAN
        /\ o.serial \in Serial \cup {NoSerial}
  /\ \A o \in ListOptions :
        /\ o.thisUpdate \in Time \cup {NoTime} /\ o.nextUpdate \in Time \cup {NoTime}
        /\ o.validFor \in Int
  /\ Existing \subseteq Held
  /\ \A e \in Existing : OutlivesLeaf(e.chain)

ASSUME AuthorityInputs == Options

Entries == Existing \cup issued

Certificates == UNION {{e.chain[i] : i \in DOMAIN e.chain} : e \in Entries}

(* Those that certkit has issued, CAs among them. *)
Leaves == {e.chain[1] : e \in issued}

UnusedKeys == Key \ (RequestKey \cup {c.key : c \in Certificates})
UnusedSerials == Serial \ {c.serial : c \in Certificates}

(* GeneratePrivateKey and randomSerialNumber: which unused one does not matter. *)
FreshKey == CHOOSE k \in UnusedKeys : TRUE
FreshSerial == CHOOSE s \in UnusedSerials : TRUE
-----------------------------------------------------------------------------
(***************************************************************************)
(* Issuance.                                                               *)
(***************************************************************************)

(* certificateValidity *)
NotBefore(o) == IF o.notBefore = NoTime THEN now - BackDate ELSE o.notBefore

NotAfter(o, life) ==
  IF o.notAfter # NoTime THEN o.notAfter
  ELSE NotBefore(o) + (IF o.validFor > 0 THEN o.validFor ELSE life)

DefaultLife(o) == IF o.isCA THEN CaLife ELSE LeafLife

(* A fault for the runs to detect: the issuer need only be valid now. *)
WithinIssuerNow(o, p) ==
  NotAfter(o, DefaultLife(o)) > NotBefore(o) /\ now <= p.notAfter

(* The periods that IssueCertificate and issuePublicKey accept under p. *)
WithinIssuer(o, p) ==
  /\ NotAfter(o, DefaultLife(o)) > NotBefore(o)
  /\ NotAfter(o, DefaultLife(o)) <= p.notAfter

(* validateIssuer: e is passed as the issuer together with the key k. *)
MayIssue(e, k) ==
  /\ k # NoKey
  /\ e.chain[1].isCA
  /\ e.chain[1].usages = {} \/ "certSign" \in e.chain[1].usages
  /\ e.chain[1].key = k

(* A length of zero is none, unless the options insist. *)
PathLen(o, isCA) ==
  IF isCA /\ (o.maxPathLen > 0 \/ o.maxPathLenZero) THEN o.maxPathLen ELSE NoPathLen

(* defaultKeyUsage *)
UsagesOf(o) ==
  IF o.usages # {} THEN o.usages
  ELSE IF o.isCA THEN Usage ELSE {"digitalSignature"}

(* The certificate that p's key signs. *)
NewCertificate(p, subject, key, o) ==
  [serial |-> IF o.serial = NoSerial THEN FreshSerial ELSE o.serial,
   subject |-> subject, issuer |-> p.subject, key |-> key, signer |-> p.key,
   notBefore |-> NotBefore(o), notAfter |-> NotAfter(o, DefaultLife(o)),
   isCA |-> o.isCA, usages |-> UsagesOf(o), maxPathLen |-> PathLen(o, o.isCA),
   ocspSigning |-> o.ocspSigning]

Issue(entry) ==
  /\ issued' = issued \cup {entry}
  /\ UNCHANGED <<now, revoked, lists, responses>>

CreateRootCA(o) ==
  /\ Cardinality(issued) < MaxIssued /\ UnusedKeys # {} /\ UnusedSerials # {}
  /\ NotAfter(o, RootLife) > NotBefore(o)
  /\ Issue([key |-> FreshKey, chain |->
       <<[serial |-> FreshSerial, subject |-> o.subject, issuer |-> o.subject,
          key |-> FreshKey, signer |-> FreshKey, notBefore |-> NotBefore(o),
          notAfter |-> NotAfter(o, RootLife), isCA |-> TRUE, usages |-> Usage,
          maxPathLen |-> PathLen(o, TRUE), ocspSigning |-> FALSE]>>])

IssueCertificate(e, k, o) ==
  /\ Cardinality(issued) < MaxIssued /\ UnusedKeys # {} /\ UnusedSerials # {}
  /\ MayIssue(e, k) /\ WithinIssuer(o, e.chain[1])
  /\ Issue([key |-> FreshKey,
            chain |-> <<NewCertificate(e.chain[1], o.subject, FreshKey, o)>> \o e.chain])

(* The subject of the options is used only if it was parsed: a pkix.Name that
   the caller has filled in has no Names.  The entry has no key. *)
SignCertificateRequest(e, k, key, subject, o) ==
  /\ Cardinality(issued) < MaxIssued /\ UnusedSerials # {}
  /\ MayIssue(e, k) /\ WithinIssuer(o, e.chain[1])
  /\ Issue([key |-> NoKey,
            chain |-> <<NewCertificate(e.chain[1], IF o.parsed THEN o.subject ELSE subject,
                                       key, o)>> \o e.chain])
-----------------------------------------------------------------------------
(***************************************************************************)
(* Revocation.                                                             *)
(***************************************************************************)

(* The certificates that p has issued, by its name and key. *)
IsOf(c, p) == c.issuer = p.subject /\ c.signer = p.key

(* The operator of the CA decides that c is revoked from now on. *)
Revoke(c) ==
  /\ Cardinality(revoked) < MaxRevoked /\ \A r \in revoked : r.cert # c
  /\ revoked' = revoked \cup {[cert |-> c, at |-> now]}
  /\ UNCHANGED <<now, issued, lists, responses>>

RevokedBy(p) == {r.cert.serial : r \in {s \in revoked : IsOf(s.cert, p)}}

ThisUpdate(o) == IF o.thisUpdate = NoTime THEN now - ListBackDate ELSE o.thisUpdate

NextUpdate(o) ==
  IF o.nextUpdate # NoTime THEN o.nextUpdate
  ELSE ThisUpdate(o) + (IF o.validFor > 0 THEN o.validFor ELSE ListLife)

(* Bound: so many lists and responses are made. *)
RoomForAnswers == Cardinality(lists) + Cardinality(responses) < MaxAnswers

(* The operator lists everything that this CA has revoked.  (smx509 demands
   the crlSign usage.) *)
CreateCRL(e, k, o) ==
  /\ RoomForAnswers
  /\ MayIssue(e, k) /\ "crlSign" \in e.chain[1].usages
  /\ NextUpdate(o) > ThisUpdate(o)
  /\ lists' = lists \cup
       {[issuer |-> e.chain[1].subject, signer |-> k, serials |-> RevokedBy(e.chain[1]),
         thisUpdate |-> ThisUpdate(o), nextUpdate |-> NextUpdate(o)]}
  /\ UNCHANGED <<now, issued, revoked, responses>>

(* The CA p publishes a list that other software made, without the optional
   nextUpdate.  (External: a list of CreateCRL always has one.) *)
PublishList(p) ==
  /\ RoomForAnswers
  /\ p.isCA /\ "crlSign" \in p.usages
  /\ lists' = lists \cup
       {[issuer |-> p.subject, signer |-> p.key, serials |-> RevokedBy(p),
         thisUpdate |-> now, nextUpdate |-> NoTime]}
  /\ UNCHANGED <<now, issued, revoked, responses>>

(* What a responder can be asked about: a certificate and the CA it is of. *)
Questions ==
  {q \in [cert : Leaves, issuer : Certificates] : q.issuer.isCA /\ IsOf(q.cert, q.issuer)}

(* The truth about a certificate of a CA that the responder serves, or that it
   does not know it.  nextUpdate is optional. *)
Answer(q, served, nextUpdate) ==
  [serial |-> q.cert.serial, name |-> q.issuer.subject, key |-> q.issuer.key,
   status |-> IF q.issuer \notin served THEN "unknown"
              ELSE IF q.cert.serial \in RevokedBy(q.issuer) THEN "revoked" ELSE "good",
   thisUpdate |-> now, nextUpdate |-> nextUpdate]

(* A responder answers what is asked, which may be about several CAs.  It signs
   with the key of one of them, or with that of a certificate that this CA has
   issued to it, which it encloses.  (External: certkit has no responder.) *)
Respond(signer, enclosed, asked, served, nextUpdate) ==
  /\ responses' = responses \cup
       {[about |-> [i \in DOMAIN asked |-> Answer(asked[i], served, nextUpdate)],
         signer |-> signer, enclosed |-> enclosed, producedAt |-> now]}
  /\ UNCHANGED <<now, issued, revoked, lists>>

Tick ==
  /\ now < MaxTime
  /\ now' = now + 1
  /\ UNCHANGED <<issued, revoked, lists, responses>>

AuthorityInit ==
  /\ now = 1
  /\ issued = {} /\ revoked = {} /\ lists = {} /\ responses = {}

Issuing ==
  \/ \E o \in RootOptions : CreateRootCA(o)
  \/ \E e \in Entries, o \in CertOptions, k \in Key \cup {NoKey} :
        \/ IssueCertificate(e, k, o)
        \/ \E key \in RequestKey, s \in RequestSubject : SignCertificateRequest(e, k, key, s, o)

Responding ==
  /\ RoomForAnswers
  /\ \E q, d \in Questions, nextUpdate \in {now + ResponseLife, NoTime} :
       \E asked \in {<<q>>, <<q, d>>}, p \in {q.issuer, d.issuer},
          served \in SUBSET {q.issuer, d.issuer} :
         /\ Len(asked) = 2 => q # d
         /\ \/ Respond(p.key, << >>, asked, served, nextUpdate)
            \/ \E r \in Certificates :
                  /\ IsOf(r, p) /\ r.ocspSigning
                  /\ Respond(r.key, <<r>>, asked, served, nextUpdate)

AuthorityNext ==
  \/ Tick
  \/ Issuing
  \/ \E c \in Leaves : Revoke(c)
  \/ \E e \in Entries, o \in ListOptions, k \in Key \cup {NoKey} : CreateCRL(e, k, o)
  \/ \E p \in Certificates : PublishList(p)
  \/ Responding

AuthoritySpec == AuthorityInit /\ [][AuthorityNext]_authorityVars
-----------------------------------------------------------------------------
(***************************************************************************)
(* The checks of a relying party, who asks about c and knows the issuer p. *)
(***************************************************************************)
(* A fault for the runs to detect: a list or answer never gets too old. *)
FreshForever(x, skew, t) == x.thisUpdate <= t + skew

(* x is valid at the time t, as far as a clock that may be wrong can tell: for
   ever, if it does not say when it ends. *)
Fresh(x, skew, t) ==
  /\ x.thisUpdate <= t + skew
  /\ x.nextUpdate = NoTime \/ t - skew <= x.nextUpdate

(* CRLResult and OCSPResult *)
Result(x, status, skew, t) ==
  [status |-> status, fresh |-> Fresh(x, skew, t),
   thisUpdate |-> x.thisUpdate, nextUpdate |-> x.nextUpdate]

(* A fault for the runs to detect: whoever has the key may make the list. *)
AcceptsListOfKey(p, l) ==
  /\ p.isCA
  /\ p.usages = {} \/ "crlSign" \in p.usages
  /\ l.signer = p.key

(* The checks of CheckCRL before it answers: of the name, the identifier of
   the key, the usage, and the signature. *)
AcceptsList(p, l) ==
  /\ l.issuer = p.subject
  /\ p.isCA
  /\ p.usages = {} \/ "crlSign" \in p.usages
  /\ l.signer = p.key

(* CheckCRL: what it answers about c at the time t, if it answers. *)
CheckCRL(c, p, l, skew, t) ==
  {Result(m, IF c.serial \in m.serials THEN "revoked" ELSE "good", skew, t) :
     m \in {n \in {l} : AcceptsList(p, n)}}

(* The answer of a response about c's serial number: the first of them. *)
Selected(c, r) ==
  {i \in DOMAIN r.about : /\ r.about[i].serial = c.serial
                          /\ \A j \in 1 .. (i - 1) : r.about[j].serial # c.serial}

(* A fault for the runs to detect: some answer is about this CA, though it need
   not be the one selected. *)
AcceptsMixture(p, r, i) ==
  LET signer == IF r.enclosed = << >> THEN p ELSE r.enclosed[1]
  IN  /\ \E j \in DOMAIN r.about : /\ r.about[j].serial = r.about[i].serial
                                   /\ r.about[j].name = p.subject /\ r.about[j].key = p.key
      /\ r.enclosed # << >> => SignedBy(signer, p) /\ signer.ocspSigning
      /\ ValidAt(signer, r.producedAt)
      /\ r.signer = signer.key

(* The checks of ParseResponseForCert. *)
AcceptsResponse(p, r, i) ==
  LET signer == IF r.enclosed = << >> THEN p ELSE r.enclosed[1]
  IN  /\ r.about[i].name = p.subject /\ r.about[i].key = p.key  \* verifyCertID
      /\ r.enclosed # << >> => SignedBy(signer, p) /\ signer.ocspSigning
      /\ ValidAt(signer, r.producedAt)
      /\ r.signer = signer.key

(* CheckOCSP *)
CheckOCSP(c, p, r, skew, t) ==
  {Result(r.about[i], r.about[i].status, skew, t) :
     i \in {j \in Selected(c, r) : AcceptsResponse(p, r, j)}}

(* The answers that a relying party can get at present. *)
Answers(c, p, skew) ==
  (UNION {CheckCRL(c, p, l, skew, now) : l \in lists})
    \cup (UNION {CheckOCSP(c, p, r, skew, now) : r \in responses})
-----------------------------------------------------------------------------
(***************************************************************************)
(* Properties.                                                             *)
(***************************************************************************)

(* An entry that certkit issues, through however many CAs, for keys of its own
   or of a requester, has a chain that verifies as long as its leaf lives.
   (Path lengths are up to the caller, whom no check keeps from issuing below a
   CA that allows nothing below it.) *)
IssuedChainsVerify ==
  \A e \in issued : PathLengthsKept(e.chain) => OutlivesLeaf(e.chain)

(* A relying party learns that a certificate is revoked only when a
   certificate of that issuer and serial number was revoked: not from the list
   or the responder of another CA, though it may share the key and the serial
   number, and one response may hold the answers of both. *)
NoForeignRevocation ==
  \A c, p \in Certificates : IsOf(c, p) =>
    \A a \in UNION {Answers(c, p, skew) : skew \in Skew} :
       a.status = "revoked" => c.serial \in RevokedBy(p)

(* The times from the making of a list or answer to its end: times that the
   caller chooses are counted from the first moment. *)
Lives ==
  LET life(o) ==
        IF o.nextUpdate # NoTime THEN o.nextUpdate - 1
        ELSE (IF o.validFor > 0 THEN o.validFor ELSE ListLife)
               + (IF o.thisUpdate # NoTime THEN o.thisUpdate - 1 ELSE 0)
  IN  {ResponseLife} \cup {life(o) : o \in ListOptions}

(* What was good before the time "at" may be reported yet: no longer than the
   lists and answers live that were made before, and the tolerance of the clock.
   What does not say when it ends is reported for ever, but says itself that it
   is no later than that time. *)
Excusable(a, at, skew) ==
  IF a.nextUpdate = NoTime THEN a.thisUpdate <= at
  ELSE \E life \in Lives : now <= at + life + skew

(* Revocation takes effect: a relying party that asks for fresh answers takes
   a revoked certificate for good only within this bound, and without it only on
   a list or answer whose missing NextUpdate and early ThisUpdate the results of
   CheckCRL and CheckOCSP show. *)
RevocationTakesEffect ==
  \A r \in revoked : \A p \in Certificates, skew \in Skew : IsOf(r.cert, p) =>
    \A a \in Answers(r.cert, p, skew) :
       a.fresh /\ a.status = "good" => Excusable(a, r.at, skew)
=============================================================================
