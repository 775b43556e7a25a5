-------------------------- MODULE AuthorityProofs --------------------------
(***************************************************************************)
(* Theorems about the authorities and about those who ask them over a      *)
(* network.  The invariants of Authority.tla are proved for AuthoritySpec, *)
(* which the clients of Fetch.tla only observe (FetchObservesAuthority).   *)
(***************************************************************************)
EXTENDS Fetch, TLAPS

(***************************************************************************)
(* Types.                                                                  *)
(***************************************************************************)

Revocation == [cert : Certificate, at : Nat]

(* A list as CreateCRL or PublishList makes it. *)
ListOf(l) == l.thisUpdate \in Time /\ l.nextUpdate \in Time \cup {NoTime}

(* A response as Respond makes it. *)
ResponseOf(r) ==
  \A i \in DOMAIN r.about :
    r.about[i].thisUpdate \in Time /\ r.about[i].nextUpdate \in Time \cup {NoTime}

AuthorityTypes ==
  /\ now \in Nat /\ now >= 1
  /\ issued \subseteq Held
  /\ revoked \subseteq Revocation
  /\ \A l \in lists : ListOf(l)
  /\ \A r \in responses : ResponseOf(r)

(* A chain is not empty, and its parts are certificates. *)
LEMMA HeldChain ==
  ASSUME NEW e \in Held
  PROVE  /\ e.chain \in Seq(Certificate) /\ Len(e.chain) \in Nat /\ Len(e.chain) >= 1
         /\ e.key \in Key \cup {NoKey}
         /\ \A i \in DOMAIN e.chain : e.chain[i] \in Certificate
         /\ DOMAIN e.chain = 1 .. Len(e.chain)
         /\ e.chain[1] \in Certificate
  BY DEF Held

LEMMA EntriesAreHeld ==
  ASSUME AuthorityTypes
  PROVE  Entries \subseteq Held
  BY AuthorityInputs DEF Entries, AuthorityTypes, Options

LEMMA CertificatesAreTyped ==
  ASSUME AuthorityTypes
  PROVE  Certificates \subseteq Certificate
  BY EntriesAreHeld, HeldChain DEF Certificates

(* The options give a period of integers. *)
LEMMA PeriodIsTyped ==
  ASSUME NEW o \in RootOptions \cup CertOptions, now \in Nat, NEW life \in Nat
  PROVE  NotBefore(o) \in Int /\ NotAfter(o, life) \in Int
<1>1. NotBefore(o) \in Int
  BY AuthorityInputs DEF Options, NotBefore, Time
<1>2. NotAfter(o, life) \in Int
  BY <1>1, AuthorityInputs DEF Options, NotAfter, Time
<1>3. QED  BY <1>1, <1>2

LEMMA LivesAreNatural ==
  /\ RootLife \in Nat /\ CaLife \in Nat /\ LeafLife \in Nat /\ ListLife \in Nat
  /\ ResponseLife \in Nat /\ BackDate \in Nat /\ ListBackDate \in Nat
  /\ \A o : DefaultLife(o) \in Nat
  BY AuthorityInputs DEF Options, DefaultLife

LEMMA FreshNames ==
  /\ UnusedKeys # {} => FreshKey \in Key
  /\ UnusedSerials # {} => FreshSerial \in Serial
  BY DEF FreshKey, FreshSerial, UnusedKeys, UnusedSerials

(* A chain with one certificate more below it. *)
LEMMA ChainBelow ==
  ASSUME NEW S, NEW chain \in Seq(S), NEW n \in S, Len(chain) >= 1
  PROVE  LET new == <<n>> \o chain
         IN  /\ new \in Seq(S) \ {<< >>} /\ Len(new) = Len(chain) + 1
             /\ DOMAIN new = 1 .. (Len(chain) + 1)
             /\ new[1] = n
             /\ \A i \in DOMAIN chain : new[i + 1] = chain[i]
             /\ \A i \in DOMAIN new : i # 1 => i - 1 \in DOMAIN chain /\ new[i] = chain[i - 1]
  OBVIOUS
-----------------------------------------------------------------------------
(***************************************************************************)
(* What is issued.                                                         *)
(***************************************************************************)
EntriesVerify ==
  \A e \in Entries : PathLengthsKept(e.chain) => OutlivesLeaf(e.chain)

(* The certificate above the first one is that of its issuer. *)
IssuersSign ==
  \A e \in issued : Len(e.chain) > 1 => IsOf(e.chain[1], e.chain[2])

LEMMA CertificateIsTyped ==
  ASSUME AuthorityTypes, NEW p \in Certificate, NEW subject \in Subject, NEW key \in Key,
         NEW o \in CertOptions, UnusedSerials # {}
  PROVE  NewCertificate(p, subject, key, o) \in Certificate
<1>1. now \in Nat
  BY DEF AuthorityTypes
<1>2. NotBefore(o) \in Time /\ NotAfter(o, DefaultLife(o)) \in Time
  BY <1>1, PeriodIsTyped, LivesAreNatural DEF Time
<1>3. (IF o.serial = NoSerial THEN FreshSerial ELSE o.serial) \in Serial
  BY FreshNames, AuthorityInputs DEF Options
<1>4. UsagesOf(o) \in SUBSET Usage
  BY AuthorityInputs DEF Options, UsagesOf, Usage
<1>5. PathLen(o, o.isCA) \in Nat \cup {NoPathLen}
  BY AuthorityInputs DEF Options, PathLen
<1>6. o.isCA \in BOOLEAN /\ o.ocspSigning \in BOOLEAN
  BY AuthorityInputs DEF Options
<1>7. p.subject \in Subject /\ p.key \in Key
  BY DEF Certificate
<1>8. QED  BY <1>2, <1>3, <1>4, <1>5, <1>6, <1>7 DEF NewCertificate, Certificate

(* What an issuer adds keeps the path lengths only if they were kept before. *)
LEMMA PathLengthsBelow ==
  ASSUME NEW chain \in Seq(Certificate), NEW n \in Certificate, Len(chain) >= 1,
         PathLengthsKept(<<n>> \o chain)
  PROVE  PathLengthsKept(chain)
<1> DEFINE new == <<n>> \o chain
<1>1. SUFFICES ASSUME NEW i \in DOMAIN chain, chain[i].maxPathLen # NoPathLen
               PROVE  i - 2 <= chain[i].maxPathLen
  BY DEF PathLengthsKept
<1>2. i + 1 \in DOMAIN new /\ new[i + 1] = chain[i] /\ i \in Nat
  BY ChainBelow
<1>3. i + 1 - 2 <= chain[i].maxPathLen
  BY <1>1, <1>2 DEF PathLengthsKept
<1>4. chain[i] \in Certificate
  OBVIOUS
<1>5. chain[i].maxPathLen \in Nat
  BY <1>1, <1>4 DEF Certificate
<1>6. QED  BY <1>2, <1>3, <1>5

(* A certificate that ends no later than its issuer outlives nothing above it. *)
LEMMA BelowOutlives ==
  ASSUME NEW chain \in Seq(Certificate), NEW n \in Certificate, Len(chain) >= 1,
         n.notAfter <= chain[1].notAfter,
         n.issuer = chain[1].subject, SignedBy(n, chain[1]),
         PathLengthsKept(chain) => OutlivesLeaf(chain),
         PathLengthsKept(<<n>> \o chain)
  PROVE  OutlivesLeaf(<<n>> \o chain)
<1> DEFINE new == <<n>> \o chain
<1>1. SUFFICES ASSUME NEW t \in 0 .. new[1].notAfter,
                      \A i \in DOMAIN new : new[i].notBefore <= t
               PROVE  VerifiesAt(new, t)
  BY DEF OutlivesLeaf
<1>2. /\ Len(new) = Len(chain) + 1 /\ DOMAIN new = 1 .. Len(new) /\ new[1] = n
      /\ \A i \in DOMAIN chain : new[i + 1] = chain[i]
      /\ \A i \in DOMAIN new : i # 1 => i - 1 \in DOMAIN chain /\ new[i] = chain[i - 1]
  BY ChainBelow
<1>3. chain[1] \in Certificate /\ n.notAfter \in Int /\ chain[1].notAfter \in Int
  <2>1. 1 \in DOMAIN chain
    OBVIOUS
  <2>2. chain[1] \in Certificate
    BY <2>1
  <2>3. QED  BY <2>2 DEF Certificate, Time
<1>4. t \in 0 .. chain[1].notAfter
  BY <1>1, <1>2, <1>3
<1>5. ASSUME NEW i \in DOMAIN chain PROVE chain[i].notBefore <= t
  <2>1. i + 1 \in DOMAIN new /\ new[i + 1] = chain[i]
    BY ChainBelow
  <2>2. QED  BY <1>1, <2>1
<1>6. VerifiesAt(chain, t)
  BY <1>4, <1>5, PathLengthsBelow DEF OutlivesLeaf
<1>7. \A i \in DOMAIN new : ValidAt(new[i], t)
  <2>1. ValidAt(n, t)
    BY <1>1, <1>2, <1>3 DEF ValidAt
  <2>2. QED  BY <2>1, <1>2, <1>6 DEF VerifiesAt
<1>8. ASSUME NEW i \in 1 .. (Len(new) - 1)
      PROVE  new[i].issuer = new[i + 1].subject /\ SignedBy(new[i], new[i + 1])
  <2>1. CASE i = 1
    <3>1. new[i] = n /\ new[i + 1] = chain[1]
      BY <2>1, <1>2
    <3>2. QED  BY <3>1
  <2>2. CASE i # 1
    <3>1. i - 1 \in 1 .. (Len(chain) - 1) /\ i - 1 + 1 = i
      BY <2>2, <1>2
    <3>2. new[i] = chain[i - 1] /\ new[i + 1] = chain[i - 1 + 1]
      BY <2>2, <3>1, <1>2
    <3>3. QED  BY <3>1, <3>2, <1>6 DEF VerifiesAt
  <2>3. QED  BY <2>1, <2>2
<1>9. QED  BY <1>7, <1>8 DEF VerifiesAt

(* What IssueCertificate and SignCertificateRequest make. *)
LEMMA EntryBelow ==
  ASSUME AuthorityTypes, EntriesVerify, NEW e \in Entries, NEW k, MayIssue(e, k),
         NEW o \in CertOptions, WithinIssuer(o, e.chain[1]), UnusedSerials # {},
         NEW subject \in Subject, NEW key \in Key, NEW held \in Key \cup {NoKey}
  PROVE  LET entry == [key |-> held,
                       chain |-> <<NewCertificate(e.chain[1], subject, key, o)>> \o e.chain]
         IN  /\ entry \in Held
             /\ PathLengthsKept(entry.chain) => OutlivesLeaf(entry.chain)
             /\ IsOf(entry.chain[1], entry.chain[2])
<1> DEFINE n   == NewCertificate(e.chain[1], subject, key, o)
           new == <<n>> \o e.chain
<1>1. /\ e.chain \in Seq(Certificate) /\ Len(e.chain) \in Nat /\ Len(e.chain) >= 1
      /\ e.chain[1] \in Certificate /\ DOMAIN e.chain = 1 .. Len(e.chain)
  BY EntriesAreHeld, HeldChain
<1>2. n \in Certificate
  BY <1>1, CertificateIsTyped
<1>3. /\ new \in Seq(Certificate) \ {<< >>} /\ new[1] = n
      /\ \A i \in DOMAIN e.chain : new[i + 1] = e.chain[i]
  BY <1>1, <1>2, ChainBelow
<1>4. new[2] = e.chain[1]
  BY <1>1, <1>3
<1>5. /\ n.notAfter <= e.chain[1].notAfter
      /\ n.issuer = e.chain[1].subject /\ n.signer = e.chain[1].key
  BY DEF NewCertificate, WithinIssuer
<1>6. SignedBy(n, e.chain[1])
  BY <1>5 DEF SignedBy, MayIssue
<1>7. PathLengthsKept(e.chain) => OutlivesLeaf(e.chain)
  BY DEF EntriesVerify
<1>8. PathLengthsKept(new) => OutlivesLeaf(new)
  BY <1>1, <1>2, <1>5, <1>6, <1>7, BelowOutlives
<1>9. IsOf(new[1], new[2])
  BY <1>3, <1>4, <1>5 DEF IsOf
<1>10. QED  BY <1>3, <1>8, <1>9 DEF Held

(* What CreateRootCA makes. *)
LEMMA RootEntry ==
  ASSUME AuthorityTypes, NEW o \in RootOptions, UnusedKeys # {}, UnusedSerials # {}
  PROVE  LET root == [serial |-> FreshSerial, subject |-> o.subject, issuer |-> o.subject,
                      key |-> FreshKey, signer |-> FreshKey, notBefore |-> NotBefore(o),
                      notAfter |-> NotAfter(o, RootLife), isCA |-> TRUE, usages |-> Usage,
                      maxPathLen |-> PathLen(o, TRUE), ocspSigning |-> FALSE]
         IN  /\ [key |-> FreshKey, chain |-> <<root>>] \in Held
             /\ PathLengthsKept(<<root>>) => OutlivesLeaf(<<root>>)
<1> DEFINE root == [serial |-> FreshSerial, subject |-> o.subject, issuer |-> o.subject,
                    key |-> FreshKey, signer |-> FreshKey, notBefore |-> NotBefore(o),
                    notAfter |-> NotAfter(o, RootLife), isCA |-> TRUE, usages |-> Usage,
                    maxPathLen |-> PathLen(o, TRUE), ocspSigning |-> FALSE]
<1>1. root \in Certificate
  <2>1. NotBefore(o) \in Time /\ NotAfter(o, RootLife) \in Time
    BY PeriodIsTyped, LivesAreNatural DEF AuthorityTypes, Time
  <2>2. o.subject \in Subject /\ PathLen(o, TRUE) \in Nat \cup {NoPathLen}
    BY AuthorityInputs DEF Options, PathLen
  <2>3. QED  BY <2>1, <2>2, FreshNames DEF Certificate
<1>2. <<root>> \in Seq(Certificate) \ {<< >>} /\ DOMAIN <<root>> = {1}
      /\ Len(<<root>>) = 1 /\ <<root>>[1] = root
  BY <1>1
<1>3. [key |-> FreshKey, chain |-> <<root>>] \in Held
  <2> HIDE DEF root
  <2>1. QED  BY <1>2, FreshNames DEF Held
<1>4. ASSUME PathLengthsKept(<<root>>) PROVE OutlivesLeaf(<<root>>)
  <2>1. root.notAfter \in Int
    BY <1>1 DEF Certificate, Time
  <2> HIDE DEF root
  <2>2. QED  BY <1>2, <1>4, <2>1 DEF OutlivesLeaf, VerifiesAt, ValidAt
<1>5. QED  BY <1>3, <1>4
-----------------------------------------------------------------------------
(***************************************************************************)
(* What lists and responses say.                                           *)
(***************************************************************************)

(* The serial numbers revoked under a name and a key. *)
RevokedAs(name, key) ==
  {r.cert.serial : r \in {s \in revoked : s.cert.issuer = name /\ s.cert.signer = key}}

(* x was made before the time at, or ends soon after it. *)
Expiring(x, at) ==
  IF x.nextUpdate = NoTime THEN x.thisUpdate <= at
  ELSE \E life \in Lives : x.nextUpdate <= at + life

AnswersAreTrue ==
  /\ \A l \in lists : l.serials \subseteq RevokedAs(l.issuer, l.signer)
  /\ \A r \in responses : \A i \in DOMAIN r.about :
        r.about[i].status = "revoked" =>
          r.about[i].serial \in RevokedAs(r.about[i].name, r.about[i].key)

(* The revocations that a list or response is silent about came after it. *)
AnswersAge ==
  /\ \A l \in lists :
        /\ Expiring(l, now)
        /\ \A v \in revoked : v.cert.issuer = l.issuer /\ v.cert.signer = l.signer =>
              v.cert.serial \in l.serials \/ Expiring(l, v.at)
  /\ \A r \in responses : \A i \in DOMAIN r.about :
        /\ Expiring(r.about[i], now)
        /\ \A v \in revoked :
              /\ v.cert.issuer = r.about[i].name /\ v.cert.signer = r.about[i].key
              /\ v.cert.serial = r.about[i].serial
              => r.about[i].status # "good" \/ Expiring(r.about[i], v.at)

LEMMA RevokedByName ==
  ASSUME NEW p
  PROVE  RevokedBy(p) = RevokedAs(p.subject, p.key)
  BY DEF RevokedBy, RevokedAs, IsOf

LEMMA LivesAreTyped == Lives \subseteq Int
<1>1. ASSUME NEW o \in ListOptions
      PROVE  (IF o.nextUpdate # NoTime THEN o.nextUpdate - 1
              ELSE (IF o.validFor > 0 THEN o.validFor ELSE ListLife)
                     + (IF o.thisUpdate # NoTime THEN o.thisUpdate - 1 ELSE 0)) \in Int
  BY AuthorityInputs, LivesAreNatural DEF Options, Time
<1>2. QED  BY <1>1, LivesAreNatural DEF Lives

(* A list lives no longer than its options let it. *)
LEMMA ListsExpire ==
  ASSUME NEW o \in ListOptions, now \in Nat, now >= 1
  PROVE  /\ ThisUpdate(o) \in Int /\ NextUpdate(o) \in Int /\ NextUpdate(o) # NoTime
         /\ \E life \in Lives : NextUpdate(o) <= now + life
<1>1. /\ o.thisUpdate \in Int \cup {NoTime} /\ o.nextUpdate \in Int \cup {NoTime}
      /\ o.validFor \in Int /\ ListLife \in Nat /\ ListBackDate \in Nat
  BY AuthorityInputs, LivesAreNatural DEF Options, Time
<1>2. ThisUpdate(o) \in Int /\ NextUpdate(o) \in Int
  BY <1>1 DEF ThisUpdate, NextUpdate
<1> DEFINE life == IF o.nextUpdate # NoTime THEN o.nextUpdate - 1
                   ELSE (IF o.validFor > 0 THEN o.validFor ELSE ListLife)
                          + (IF o.thisUpdate # NoTime THEN o.thisUpdate - 1 ELSE 0)
<1>3. life \in Lives
  BY DEF Lives
<1>4. NextUpdate(o) <= now + life
  BY <1>1 DEF ThisUpdate, NextUpdate
<1>5. NextUpdate(o) # NoTime
  BY <1>2, AuthorityInputs DEF Options, Time
<1>6. QED  BY <1>2, <1>3, <1>4, <1>5

LEMMA ExpiringLater ==
  ASSUME NEW x, x.thisUpdate \in Int, x.nextUpdate \in Int \cup {NoTime},
         NEW s \in Int, NEW t \in Int, s <= t, Expiring(x, s)
  PROVE  Expiring(x, t)
<1>1. CASE x.nextUpdate = NoTime
  BY <1>1 DEF Expiring
<1>2. CASE x.nextUpdate # NoTime
  <2>1. PICK life \in Lives : x.nextUpdate <= s + life
    BY <1>2 DEF Expiring
  <2>2. x.nextUpdate <= t + life
    BY <1>2, <2>1, LivesAreTyped
  <2>3. QED  BY <1>2, <2>2 DEF Expiring
<1>3. QED  BY <1>1, <1>2
-----------------------------------------------------------------------------
(***************************************************************************)
(* The steps.                                                              *)
(***************************************************************************)
AuthorityInv ==
  AuthorityTypes /\ EntriesVerify /\ IssuersSign /\ AnswersAreTrue /\ AnswersAge

LEMMA AuthorityInitially == AuthorityInit => AuthorityInv
<1> SUFFICES ASSUME AuthorityInit PROVE AuthorityInv
  OBVIOUS
<1>1. AuthorityTypes /\ IssuersSign /\ AnswersAreTrue /\ AnswersAge
  BY DEF AuthorityInit, AuthorityTypes, IssuersSign, AnswersAreTrue, AnswersAge
<1>2. EntriesVerify
  BY AuthorityInputs DEF AuthorityInit, EntriesVerify, Entries, Options
<1>3. QED  BY <1>1, <1>2 DEF AuthorityInv

(* An entry is issued: nothing else changes. *)
LEMMA EntryIsIssued ==
  ASSUME AuthorityInv, NEW entry \in Held, Issue(entry),
         PathLengthsKept(entry.chain) => OutlivesLeaf(entry.chain),
         Len(entry.chain) > 1 => IsOf(entry.chain[1], entry.chain[2])
  PROVE  AuthorityInv'
<1>1. /\ issued' = issued \cup {entry}
      /\ now' = now /\ revoked' = revoked /\ lists' = lists /\ responses' = responses
  BY DEF Issue
<1>2. AuthorityTypes'
  BY <1>1 DEF AuthorityInv, AuthorityTypes, ListOf, ResponseOf
<1>3. EntriesVerify'
  BY <1>1 DEF AuthorityInv, EntriesVerify, Entries
<1>4. IssuersSign'
  BY <1>1 DEF AuthorityInv, IssuersSign
<1>5. AnswersAreTrue'
  BY <1>1 DEF AuthorityInv, AnswersAreTrue, RevokedAs
<1>6. AnswersAge'
  BY <1>1 DEF AuthorityInv, AnswersAge, Expiring, Lives
<1>7. QED  BY <1>2, <1>3, <1>4, <1>5, <1>6 DEF AuthorityInv

LEMMA IssuingStep ==
  ASSUME AuthorityInv, Issuing
  PROVE  AuthorityInv'
<1>1. AuthorityTypes /\ EntriesVerify
  BY DEF AuthorityInv
<1>2. ASSUME NEW o \in RootOptions, CreateRootCA(o)
      PROVE  AuthorityInv'
  <2> DEFINE root == [serial |-> FreshSerial, subject |-> o.subject, issuer |-> o.subject,
                      key |-> FreshKey, signer |-> FreshKey, notBefore |-> NotBefore(o),
                      notAfter |-> NotAfter(o, RootLife), isCA |-> TRUE, usages |-> Usage,
                      maxPathLen |-> PathLen(o, TRUE), ocspSigning |-> FALSE]
             entry == [key |-> FreshKey, chain |-> <<root>>]
  <2>1. Issue(entry) /\ UnusedKeys # {} /\ UnusedSerials # {}
    BY <1>2 DEF CreateRootCA
  <2>2. entry \in Held /\ (PathLengthsKept(entry.chain) => OutlivesLeaf(entry.chain))
    BY <1>1, <2>1, RootEntry
  <2>3. ~(Len(entry.chain) > 1)
    OBVIOUS
  <2> HIDE DEF entry
  <2>4. QED  BY <2>1, <2>2, <2>3, EntryIsIssued
<1>3. ASSUME NEW e \in Entries, NEW o \in CertOptions, NEW k \in Key \cup {NoKey},
             IssueCertificate(e, k, o)
      PROVE  AuthorityInv'
  <2> DEFINE entry == [key |-> FreshKey,
                       chain |-> <<NewCertificate(e.chain[1], o.subject, FreshKey, o)>> \o e.chain]
  <2>1. /\ Issue(entry) /\ UnusedKeys # {} /\ UnusedSerials # {}
        /\ MayIssue(e, k) /\ WithinIssuer(o, e.chain[1])
    BY <1>3 DEF IssueCertificate
  <2>2. o.subject \in Subject /\ FreshKey \in Key
    BY <2>1, FreshNames, AuthorityInputs DEF Options
  <2>3. /\ entry \in Held /\ (PathLengthsKept(entry.chain) => OutlivesLeaf(entry.chain))
        /\ IsOf(entry.chain[1], entry.chain[2])
    BY <1>1, <2>1, <2>2, EntryBelow
  <2> HIDE DEF entry
  <2>4. QED  BY <2>1, <2>3, EntryIsIssued
<1>4. ASSUME NEW e \in Entries, NEW o \in CertOptions, NEW k \in Key \cup {NoKey},
             NEW key \in RequestKey, NEW s \in RequestSubject,
             SignCertificateRequest(e, k, key, s, o)
      PROVE  AuthorityInv'
  <2> DEFINE subject == IF o.parsed THEN o.subject ELSE s
             entry == [key |-> NoKey,
                       chain |-> <<NewCertificate(e.chain[1], subject, key, o)>> \o e.chain]
  <2>1. /\ Issue(entry) /\ UnusedSerials # {}
        /\ MayIssue(e, k) /\ WithinIssuer(o, e.chain[1])
    BY <1>4 DEF SignCertificateRequest
  <2>2. subject \in Subject /\ key \in Key /\ NoKey \in Key \cup {NoKey}
    BY AuthorityInputs DEF Options
  <2> HIDE DEF subject
  <2>3. /\ entry \in Held /\ (PathLengthsKept(entry.chain) => OutlivesLeaf(entry.chain))
        /\ IsOf(entry.chain[1], entry.chain[2])
    BY <1>1, <2>1, <2>2, EntryBelow
  <2> HIDE DEF entry
  <2>4. QED  BY <2>1, <2>3, EntryIsIssued
<1>5. QED  BY <1>2, <1>3, <1>4 DEF Issuing

(* The lists and answers there are end soon after the revocation. *)
LEMMA RevokeStep ==
  ASSUME AuthorityInv, NEW c \in Leaves, Revoke(c)
  PROVE  AuthorityInv'
<1>1. /\ revoked' = revoked \cup {[cert |-> c, at |-> now]}
      /\ now' = now /\ issued' = issued /\ lists' = lists /\ responses' = responses
  BY DEF Revoke
<1>2. c \in Certificate
  BY HeldChain DEF Leaves, AuthorityInv, AuthorityTypes
<1>3. AuthorityTypes'
  BY <1>1, <1>2 DEF AuthorityInv, AuthorityTypes, ListOf, ResponseOf, Revocation
<1>4. EntriesVerify' /\ IssuersSign'
  BY <1>1 DEF AuthorityInv, EntriesVerify, Entries, IssuersSign
<1>5. \A name, key : RevokedAs(name, key) \subseteq RevokedAs(name, key)'
  BY <1>1 DEF RevokedAs
<1>6. AnswersAreTrue'
  <2>1. AnswersAreTrue
    BY DEF AuthorityInv
  <2>2. \A l \in lists : l.serials \subseteq RevokedAs(l.issuer, l.signer)'
    BY <1>5, <2>1 DEF AnswersAreTrue
  <2>3. \A r \in responses : \A i \in DOMAIN r.about :
          r.about[i].status = "revoked" =>
            r.about[i].serial \in RevokedAs(r.about[i].name, r.about[i].key)'
    BY <1>5, <2>1 DEF AnswersAreTrue
  <2>4. QED  BY <1>1, <2>2, <2>3 DEF AnswersAreTrue
<1>7. AnswersAge'
  <2>1. AnswersAge
    BY DEF AuthorityInv
  <2>2. \A v \in revoked' : v \in revoked \/ v.at = now
    BY <1>1
  <2>3. \A x, at : Expiring(x, at)' <=> Expiring(x, at)
    BY DEF Expiring, Lives
  <2>4. ASSUME NEW l \in lists
        PROVE  /\ Expiring(l, now)
               /\ \A v \in revoked' : v.cert.issuer = l.issuer /\ v.cert.signer = l.signer =>
                    v.cert.serial \in l.serials \/ Expiring(l, v.at)
    BY <2>1, <2>2 DEF AnswersAge
  <2>5. ASSUME NEW r \in responses, NEW i \in DOMAIN r.about
        PROVE  /\ Expiring(r.about[i], now)
               /\ \A v \in revoked' :
                    /\ v.cert.issuer = r.about[i].name /\ v.cert.signer = r.about[i].key
                    /\ v.cert.serial = r.about[i].serial
                    => r.about[i].status # "good" \/ Expiring(r.about[i], v.at)
    BY <2>1, <2>2 DEF AnswersAge
  <2>6. QED  BY <1>1, <2>3, <2>4, <2>5 DEF AnswersAge
<1>8. QED  BY <1>3, <1>4, <1>6, <1>7 DEF AuthorityInv

(* A new list names all that is revoked. *)
LEMMA NewList ==
  ASSUME AuthorityInv, NEW new, lists' = lists \cup {new},
         now' = now, issued' = issued, revoked' = revoked, responses' = responses,
         ListOf(new), new.serials = RevokedAs(new.issuer, new.signer), Expiring(new, now)
  PROVE  AuthorityInv'
<1>1. AuthorityTypes'
  BY DEF AuthorityInv, AuthorityTypes, ListOf, ResponseOf
<1>2. EntriesVerify' /\ IssuersSign'
  BY DEF AuthorityInv, EntriesVerify, Entries, IssuersSign
<1>3. \A name, key : RevokedAs(name, key)' = RevokedAs(name, key)
  BY DEF RevokedAs
<1>4. AnswersAreTrue'
  BY <1>3 DEF AuthorityInv, AnswersAreTrue
<1>5. AnswersAge'
  <2>1. AnswersAge
    BY DEF AuthorityInv
  <2>2. \A x, at : Expiring(x, at)' <=> Expiring(x, at)
    BY DEF Expiring, Lives
  <2>3. \A v \in revoked : v.cert.issuer = new.issuer /\ v.cert.signer = new.signer =>
          v.cert.serial \in new.serials
    BY DEF RevokedAs
  <2>4. QED  BY <2>1, <2>2, <2>3 DEF AnswersAge
<1>6. QED  BY <1>1, <1>2, <1>4, <1>5 DEF AuthorityInv

LEMMA CreateCRLStep ==
  ASSUME AuthorityInv, NEW e \in Entries, NEW o \in ListOptions, NEW k \in Key \cup {NoKey},
         CreateCRL(e, k, o)
  PROVE  AuthorityInv'
<1> DEFINE new == [issuer |-> e.chain[1].subject, signer |-> k,
                   serials |-> RevokedBy(e.chain[1]),
                   thisUpdate |-> ThisUpdate(o), nextUpdate |-> NextUpdate(o)]
<1>1. /\ lists' = lists \cup {new}
      /\ now' = now /\ issued' = issued /\ revoked' = revoked /\ responses' = responses
  BY DEF CreateCRL
<1>2. /\ ThisUpdate(o) \in Int /\ NextUpdate(o) \in Int /\ NextUpdate(o) # NoTime
      /\ \E life \in Lives : NextUpdate(o) <= now + life
  BY ListsExpire DEF AuthorityInv, AuthorityTypes
<1>3. new.serials = RevokedAs(new.issuer, new.signer)
  BY RevokedByName DEF CreateCRL, MayIssue
<1>4. new.thisUpdate = ThisUpdate(o) /\ new.nextUpdate = NextUpdate(o)
  OBVIOUS
<1> HIDE DEF new
<1>5. ListOf(new) /\ Expiring(new, now)
  BY <1>2, <1>4 DEF ListOf, Expiring, Time
<1>6. QED  BY <1>1, <1>3, <1>5, NewList

LEMMA PublishListStep ==
  ASSUME AuthorityInv, NEW p, PublishList(p)
  PROVE  AuthorityInv'
<1> DEFINE new == [issuer |-> p.subject, signer |-> p.key, serials |-> RevokedBy(p),
                   thisUpdate |-> now, nextUpdate |-> NoTime]
<1>1. /\ lists' = lists \cup {new}
      /\ now' = now /\ issued' = issued /\ revoked' = revoked /\ responses' = responses
  BY DEF PublishList
<1>2. new.serials = RevokedAs(new.issuer, new.signer)
  BY RevokedByName
<1>3. new.thisUpdate = now /\ new.nextUpdate = NoTime
  OBVIOUS
<1> HIDE DEF new
<1>4. ListOf(new) /\ Expiring(new, now)
  BY <1>3 DEF ListOf, Expiring, Time, AuthorityInv, AuthorityTypes
<1>5. QED  BY <1>1, <1>2, <1>4, NewList

(* What a responder answers is true then, and says when it ends or when it was
   made. *)
LEMMA AnswerIsTrue ==
  ASSUME AuthorityInv, NEW q, NEW served, NEW nextUpdate \in {now + ResponseLife, NoTime}
  PROVE  LET a == Answer(q, served, nextUpdate)
         IN  /\ a.thisUpdate \in Time /\ a.nextUpdate \in Time \cup {NoTime}
             /\ a.status = "revoked" => a.serial \in RevokedAs(a.name, a.key)
             /\ a.status = "good" => a.serial \notin RevokedAs(a.name, a.key)
             /\ Expiring(a, now)
<1> DEFINE a == Answer(q, served, nextUpdate)
<1>1. now \in Nat /\ ResponseLife \in Nat /\ ResponseLife \in Lives
  BY LivesAreNatural DEF AuthorityInv, AuthorityTypes, Lives
<1>2. a.thisUpdate = now /\ a.nextUpdate = nextUpdate
  BY DEF Answer
<1>3. /\ a.status = "revoked" => a.serial \in RevokedAs(a.name, a.key)
      /\ a.status = "good" => a.serial \notin RevokedAs(a.name, a.key)
  BY RevokedByName DEF Answer
<1> HIDE DEF a
<1>4. a.thisUpdate \in Time /\ a.nextUpdate \in Time \cup {NoTime}
  BY <1>1, <1>2 DEF Time
<1>5. Expiring(a, now)
  <2>1. CASE nextUpdate = NoTime
    BY <1>1, <1>2, <2>1 DEF Expiring
  <2>2. CASE nextUpdate # NoTime
    <3>1. a.nextUpdate <= now + ResponseLife
      BY <1>1, <1>2, <2>2
    <3>2. QED  BY <1>1, <1>2, <2>2, <3>1 DEF Expiring
  <2>3. QED  BY <2>1, <2>2
<1> USE DEF a
<1>6. QED  BY <1>3, <1>4, <1>5

(* A responder tells of each certificate what is true of it then. *)
LEMMA RespondStep ==
  ASSUME AuthorityInv, NEW signer, NEW enclosed, NEW asked, NEW served,
         NEW nextUpdate \in {now + ResponseLife, NoTime},
         Respond(signer, enclosed, asked, served, nextUpdate)
  PROVE  AuthorityInv'
<1> DEFINE answers == [i \in DOMAIN asked |-> Answer(asked[i], served, nextUpdate)]
           new == [about |-> answers, signer |-> signer, enclosed |-> enclosed,
                   producedAt |-> now]
<1>1. /\ responses' = responses \cup {new}
      /\ now' = now /\ issued' = issued /\ revoked' = revoked /\ lists' = lists
  BY DEF Respond
<1>2. new.about = answers /\ \A i \in DOMAIN answers : \E q : answers[i] = Answer(q, served, nextUpdate)
  OBVIOUS
<1> HIDE DEF new, answers
<1>3. ASSUME NEW i \in DOMAIN answers
      PROVE  /\ answers[i].thisUpdate \in Time /\ answers[i].nextUpdate \in Time \cup {NoTime}
             /\ answers[i].status = "revoked" =>
                  answers[i].serial \in RevokedAs(answers[i].name, answers[i].key)
             /\ answers[i].status = "good" =>
                  answers[i].serial \notin RevokedAs(answers[i].name, answers[i].key)
             /\ Expiring(answers[i], now)
  BY <1>2, <1>3, AnswerIsTrue
<1>4. ResponseOf(new)
  BY <1>2, <1>3 DEF ResponseOf
<1>5. AuthorityTypes'
  BY <1>1, <1>4 DEF AuthorityInv, AuthorityTypes, ListOf, ResponseOf
<1>6. EntriesVerify' /\ IssuersSign'
  BY <1>1 DEF AuthorityInv, EntriesVerify, Entries, IssuersSign
<1>7. \A name, key : RevokedAs(name, key)' = RevokedAs(name, key)
  BY <1>1 DEF RevokedAs
<1>8. AnswersAreTrue'
  BY <1>1, <1>2, <1>3, <1>7 DEF AuthorityInv, AnswersAreTrue
<1>9. AnswersAge'
  <2>1. AnswersAge
    BY DEF AuthorityInv
  <2>2. \A x, at : Expiring(x, at)' <=> Expiring(x, at)
    BY DEF Expiring, Lives
  <2>3. \A i \in DOMAIN new.about :
          /\ Expiring(new.about[i], now)
          /\ \A v \in revoked :
                /\ v.cert.issuer = new.about[i].name /\ v.cert.signer = new.about[i].key
                /\ v.cert.serial = new.about[i].serial
                => new.about[i].status # "good"
    BY <1>2, <1>3 DEF RevokedAs
  <2>4. QED  BY <1>1, <2>1, <2>2, <2>3 DEF AnswersAge
<1>10. QED  BY <1>5, <1>6, <1>8, <1>9 DEF AuthorityInv

LEMMA RespondersRespond ==
  ASSUME Responding
  PROVE  \E nextUpdate \in {now + ResponseLife, NoTime} :
           \E signer, enclosed, asked, served : Respond(signer, enclosed, asked, served, nextUpdate)
  BY ZenonT(60) DEF Responding

LEMMA RespondingStep ==
  ASSUME AuthorityInv, Responding
  PROVE  AuthorityInv'
  BY RespondersRespond, RespondStep

LEMMA TickStep ==
  ASSUME AuthorityInv, Tick
  PROVE  AuthorityInv'
<1>1. /\ now' = now + 1
      /\ issued' = issued /\ revoked' = revoked /\ lists' = lists /\ responses' = responses
  BY DEF Tick
<1>2. AuthorityTypes'
  BY <1>1 DEF AuthorityInv, AuthorityTypes, ListOf, ResponseOf
<1>3. EntriesVerify' /\ IssuersSign'
  BY <1>1 DEF AuthorityInv, EntriesVerify, Entries, IssuersSign
<1>4. AnswersAreTrue'
  BY <1>1 DEF AuthorityInv, AnswersAreTrue, RevokedAs
<1>5. AnswersAge'
  <2>1. now \in Int /\ now + 1 \in Int /\ now <= now + 1
    BY DEF AuthorityInv, AuthorityTypes
  <2>2. \A x, at : Expiring(x, at)' <=> Expiring(x, at)
    BY DEF Expiring, Lives
  <2>3. ASSUME NEW l \in lists PROVE Expiring(l, now + 1)
    <3>1. l.thisUpdate \in Int /\ l.nextUpdate \in Int \cup {NoTime} /\ Expiring(l, now)
      BY DEF AuthorityInv, AuthorityTypes, ListOf, Time, AnswersAge
    <3>2. QED  BY <2>1, <3>1, ExpiringLater
  <2>4. ASSUME NEW r \in responses, NEW i \in DOMAIN r.about
        PROVE  Expiring(r.about[i], now + 1)
    <3>1. /\ r.about[i].thisUpdate \in Int /\ r.about[i].nextUpdate \in Int \cup {NoTime}
          /\ Expiring(r.about[i], now)
      BY DEF AuthorityInv, AuthorityTypes, ResponseOf, Time, AnswersAge
    <3>2. QED  BY <2>1, <3>1, ExpiringLater
  <2>5. QED  BY <1>1, <2>2, <2>3, <2>4 DEF AuthorityInv, AnswersAge
<1>6. QED  BY <1>2, <1>3, <1>4, <1>5 DEF AuthorityInv

LEMMA AuthorityStep == AuthorityInv /\ [AuthorityNext]_authorityVars => AuthorityInv'
<1> SUFFICES ASSUME AuthorityInv, [AuthorityNext]_authorityVars PROVE AuthorityInv'
  OBVIOUS
<1>1. CASE Tick
  BY <1>1, TickStep
<1>2. CASE Issuing
  BY <1>2, IssuingStep
<1>3. CASE \E c \in Leaves : Revoke(c)
  BY <1>3, RevokeStep
<1>4. CASE \E e \in Entries, o \in ListOptions, k \in Key \cup {NoKey} : CreateCRL(e, k, o)
  BY <1>4, CreateCRLStep
<1>5. CASE \E p \in Certificates : PublishList(p)
  BY <1>5, PublishListStep
<1>6. CASE Responding
  BY <1>6, RespondingStep
<1>7. CASE UNCHANGED authorityVars
  BY <1>7 DEF authorityVars, AuthorityInv, AuthorityTypes, ListOf, ResponseOf, EntriesVerify,
              Entries, IssuersSign, AnswersAreTrue, RevokedAs, AnswersAge, Expiring, Lives
<1>8. QED  BY <1>1, <1>2, <1>3, <1>4, <1>5, <1>6, <1>7 DEF AuthorityNext

LEMMA AuthorityInvariant == AuthoritySpec => []AuthorityInv
  BY AuthorityInitially, AuthorityStep, PTL DEF AuthoritySpec
-----------------------------------------------------------------------------
(***************************************************************************)
(* What the relying parties learn.                                         *)
(***************************************************************************)

(* Every entry that CreateRootCA, IssueCertificate and SignCertificateRequest
   return has a chain that VerifyCertificate accepts as long as the leaf lives:
   validateIssuer and the bound on NotAfter suffice for that, through any
   number of CAs, if those opened from files verify so far. *)
THEOREM AuthorityIssuedChainsVerify == AuthoritySpec => []IssuedChainsVerify
<1>1. AuthorityInv => IssuedChainsVerify
  BY DEF AuthorityInv, EntriesVerify, Entries, IssuedChainsVerify
<1>2. QED  BY <1>1, AuthorityInvariant, PTL

(* The answers that were right at the time t. *)
AnswersAt(c, p, skew, t) ==
  (UNION {CheckCRL(c, p, l, skew, t) : l \in lists})
    \cup (UNION {CheckOCSP(c, p, r, skew, t) : r \in responses})

LEMMA AnswersNow == \A c, p, skew : Answers(c, p, skew) = AnswersAt(c, p, skew, now)
  BY DEF Answers, AnswersAt

(* Where an answer comes from. *)
LEMMA AnswerOrigin ==
  ASSUME NEW c, NEW p, NEW skew, NEW t,
         NEW a \in AnswersAt(c, p, skew, t)
  PROVE  \/ \E l \in lists :
              /\ l.issuer = p.subject /\ l.signer = p.key
              /\ a = Result(l, IF c.serial \in l.serials THEN "revoked" ELSE "good", skew, t)
         \/ \E r \in responses : \E i \in DOMAIN r.about :
              /\ r.about[i].serial = c.serial
              /\ r.about[i].name = p.subject /\ r.about[i].key = p.key
              /\ a = Result(r.about[i], r.about[i].status, skew, t)
<1>1. CASE \E l \in lists : a \in CheckCRL(c, p, l, skew, t)
  <2>1. PICK l \in lists : a \in CheckCRL(c, p, l, skew, t)
    BY <1>1
  <2>2. PICK m \in {n \in {l} : AcceptsList(p, n)} :
          a = Result(m, IF c.serial \in m.serials THEN "revoked" ELSE "good", skew, t)
    BY <2>1 DEF CheckCRL
  <2>3. m = l /\ l.issuer = p.subject /\ l.signer = p.key
    BY DEF AcceptsList
  <2>4. QED  BY <2>2, <2>3
<1>2. CASE \E r \in responses : a \in CheckOCSP(c, p, r, skew, t)
  <2>1. PICK r \in responses : a \in CheckOCSP(c, p, r, skew, t)
    BY <1>2
  <2>2. PICK i \in {j \in Selected(c, r) : AcceptsResponse(p, r, j)} :
          a = Result(r.about[i], r.about[i].status, skew, t)
    BY <2>1 DEF CheckOCSP
  <2>3. i \in DOMAIN r.about /\ r.about[i].serial = c.serial
    BY DEF Selected
  <2>4. r.about[i].name = p.subject /\ r.about[i].key = p.key
    BY DEF AcceptsResponse
  <2>5. QED  BY <2>2, <2>3, <2>4
<1>3. QED
  <2>1. a \in UNION {CheckCRL(c, p, l, skew, t) : l \in lists}
          \/ a \in UNION {CheckOCSP(c, p, r, skew, t) : r \in responses}
    BY DEF AnswersAt
  <2>2. QED  BY <2>1, <1>1, <1>2

(* CheckCRL and CheckOCSP report a revocation only of what was revoked under
   the issuer's own name and key, whoever shares one of them with it, and
   whichever CAs answer in one response. *)
THEOREM AuthorityNoForeignRevocation == AuthoritySpec => []NoForeignRevocation
<1>1. ASSUME AuthorityInv PROVE NoForeignRevocation
  <2>1. SUFFICES ASSUME NEW c \in Certificates, NEW p \in Certificates, NEW skew \in Skew,
                        NEW a \in Answers(c, p, skew), a.status = "revoked"
                 PROVE  c.serial \in RevokedAs(p.subject, p.key)
    BY RevokedByName DEF NoForeignRevocation
  <2>2. a \in AnswersAt(c, p, skew, now)
    BY AnswersNow
  <2>3. AnswersAreTrue
    BY <1>1 DEF AuthorityInv
  <2>4. CASE \E l \in lists :
               /\ l.issuer = p.subject /\ l.signer = p.key
               /\ a = Result(l, IF c.serial \in l.serials THEN "revoked" ELSE "good", skew, now)
    BY <2>1, <2>3, <2>4 DEF AnswersAreTrue, Result
  <2>5. CASE \E r \in responses : \E i \in DOMAIN r.about :
               /\ r.about[i].serial = c.serial
               /\ r.about[i].name = p.subject /\ r.about[i].key = p.key
               /\ a = Result(r.about[i], r.about[i].status, skew, now)
    BY <2>1, <2>3, <2>5 DEF AnswersAreTrue, Result
  <2>6. QED  BY <2>2, <2>4, <2>5, AnswerOrigin
<1>2. QED  BY <1>1, AuthorityInvariant, PTL

(* A fresh result that comes from something expiring is excusable. *)
LEMMA FreshIsExcusable ==
  ASSUME NEW x, x.thisUpdate \in Int, x.nextUpdate \in Int \cup {NoTime},
         NEW at \in Int, Expiring(x, at), now \in Int, NEW skew \in Int, NEW status,
         Result(x, status, skew, now).fresh
  PROVE  Excusable(Result(x, status, skew, now), at, skew)
<1> DEFINE a == Result(x, status, skew, now)
<1>1. a.thisUpdate = x.thisUpdate /\ a.nextUpdate = x.nextUpdate /\ Fresh(x, skew, now)
  BY DEF Result
<1> SUFFICES Excusable(a, at, skew)
  OBVIOUS
<1> HIDE DEF a
<1>2. CASE x.nextUpdate = NoTime
  BY <1>1, <1>2 DEF Excusable, Expiring
<1>3. CASE x.nextUpdate # NoTime
  <2>1. PICK life \in Lives : x.nextUpdate <= at + life
    BY <1>3 DEF Expiring
  <2>2. now - skew <= x.nextUpdate
    BY <1>1, <1>3 DEF Fresh
  <2>3. now <= at + life + skew
    BY <1>3, <2>1, <2>2, LivesAreTyped
  <2>4. QED  BY <1>1, <1>3, <2>3 DEF Excusable
<1>4. QED  BY <1>2, <1>3

(* An answer that is fresh and calls a revoked certificate good is excused by
   the list or response that it comes from. *)
LEMMA GoodAnswersAreExcusable ==
  ASSUME AuthorityInv, NEW v \in revoked, NEW p, NEW skew \in Skew, IsOf(v.cert, p),
         NEW a \in Answers(v.cert, p, skew), a.fresh, a.status = "good"
  PROVE  Excusable(a, v.at, skew)
<1>1. now \in Int /\ v.at \in Int /\ skew \in Int
  BY AuthorityInputs DEF AuthorityInv, AuthorityTypes, Revocation, Options
<1>2. AnswersAge /\ AuthorityTypes
  BY DEF AuthorityInv
<1>3. CASE \E l \in lists :
             /\ l.issuer = p.subject /\ l.signer = p.key
             /\ a = Result(l, IF v.cert.serial \in l.serials THEN "revoked" ELSE "good",
                           skew, now)
  <2>1. PICK l \in lists :
             /\ l.issuer = p.subject /\ l.signer = p.key
             /\ a = Result(l, IF v.cert.serial \in l.serials THEN "revoked" ELSE "good",
                           skew, now)
    BY <1>3
  <2>2. v.cert.serial \notin l.serials /\ a = Result(l, "good", skew, now)
    BY <2>1 DEF Result
  <2>3. /\ l.thisUpdate \in Int /\ l.nextUpdate \in Int \cup {NoTime}
        /\ Expiring(l, v.at)
    BY <1>2, <2>1, <2>2 DEF AnswersAge, AuthorityTypes, ListOf, IsOf, Time
  <2>4. QED  BY <1>1, <2>2, <2>3, FreshIsExcusable
<1>4. CASE \E r \in responses : \E i \in DOMAIN r.about :
             /\ r.about[i].serial = v.cert.serial
             /\ r.about[i].name = p.subject /\ r.about[i].key = p.key
             /\ a = Result(r.about[i], r.about[i].status, skew, now)
  <2>1. PICK r \in responses : \E i \in DOMAIN r.about :
             /\ r.about[i].serial = v.cert.serial
             /\ r.about[i].name = p.subject /\ r.about[i].key = p.key
             /\ a = Result(r.about[i], r.about[i].status, skew, now)
    BY <1>4
  <2>2. PICK i \in DOMAIN r.about :
             /\ r.about[i].serial = v.cert.serial
             /\ r.about[i].name = p.subject /\ r.about[i].key = p.key
             /\ a = Result(r.about[i], r.about[i].status, skew, now)
    BY <2>1
  <2>3. r.about[i].status = "good"
    BY <2>2 DEF Result
  <2>4. /\ r.about[i].thisUpdate \in Int /\ r.about[i].nextUpdate \in Int \cup {NoTime}
        /\ Expiring(r.about[i], v.at)
    BY <1>2, <2>2, <2>3 DEF AnswersAge, AuthorityTypes, ResponseOf, IsOf, Time
  <2>5. QED  BY <1>1, <2>2, <2>4, FreshIsExcusable
<1>5. a \in AnswersAt(v.cert, p, skew, now)
  BY AnswersNow
<1>6. QED  BY <1>3, <1>4, <1>5, AnswerOrigin

(* The bound holds for every clock, list and response: CheckCRL and CheckOCSP
   keep no answer alive beyond the NextUpdate of its list or response, if it has
   one, and show that it was there before the revocation, if it has none. *)
THEOREM AuthorityRevocationTakesEffect == AuthoritySpec => []RevocationTakesEffect
<1>1. AuthorityInv => RevocationTakesEffect
  BY GoodAnswersAreExcusable DEF RevocationTakesEffect
<1>2. QED  BY <1>1, AuthorityInvariant, PTL
-----------------------------------------------------------------------------
(***************************************************************************)
(* Answers fetched over a network.                                         *)
(***************************************************************************)

(* The authorities do not notice who asks: with the inquiry left out, the steps
   of FetchAndCheckCRL and FetchAndCheckOCSP change nothing. *)
LEMMA FetchObservesAuthority == FetchSpec => AuthoritySpec
<1>1. FetchInit => AuthorityInit
  BY DEF FetchInit
<1>2. [FetchNext]_fetchVars => [AuthorityNext]_authorityVars
  BY DEF FetchNext, fetchVars, Asking, Ask, Lose, Deliver
<1>3. QED  BY <1>1, <1>2, PTL DEF FetchSpec, AuthoritySpec

(* Reading through a reader limited to one byte more than MaxSize tells the
   bodies that are too large from the others. *)
LEMMA LimitedRead ==
  ASSUME NEW o \in FetchOptions, o.maxSize < Largest, NEW size \in Nat
  PROVE  LET read == BytesRead(size, Sum(Limit(o), 1))
         IN  TooLarge(read, o) \/ read < size <=> ~(size <= Limit(o))
<1>1. Limit(o) \in 1 .. (Largest - 1) /\ Largest \in Nat
  BY FetchInputs DEF FetchInputs, Limit
<1> DEFINE limit == Limit(o) + 1
           Fits(n) == n <= size /\ n <= limit /\ n \in {size, limit}
<1>2. Sum(Limit(o), 1) = limit /\ limit \in Nat /\ ~(limit <= 0)
  BY <1>1 DEF Sum
<1>3. \E n \in {0, size, limit} : Fits(n)
  <2>1. CASE size <= limit
    BY <2>1, <1>2
  <2>2. CASE limit <= size
    BY <2>2, <1>2
  <2>3. QED  BY <2>1, <2>2, <1>2
<1>4. BytesRead(size, limit) = CHOOSE n \in {0, size, limit} : Fits(n)
  BY <1>2, Zenon DEF BytesRead
<1>5. Fits(BytesRead(size, limit))
  <2> HIDE DEF Fits
  <2>1. QED  BY <1>3, <1>4
<1>6. QED  BY <1>1, <1>2, <1>5 DEF TooLarge

Fields == {"stage", "kind", "cert", "issuer", "options", "time", "size", "data", "result"}

(* What is returned was checked after the body was read, whole. *)
Returned ==
  /\ inquiry.size \in Nat
  /\ inquiry.result \subseteq Checked(inquiry.data, CheckTime)
  /\ inquiry.options.maxSize < Largest =>
       inquiry.result = IF inquiry.size <= Limit(inquiry.options)
                        THEN Checked(inquiry.data, CheckTime) ELSE {}

InquiryInv ==
  inquiry # Unasked =>
    /\ DOMAIN inquiry = Fields
    /\ inquiry.issuer \in Certificates /\ IsOf(inquiry.cert, inquiry.issuer)
    /\ inquiry.options \in FetchOptions
    /\ inquiry.time = inquiry.options.currentTime
    /\ inquiry.stage = "returned" => Returned

LEMMA CertificatesStay ==
  ASSUME [AuthorityNext]_authorityVars
  PROVE  Certificates \subseteq Certificates'
<1>1. issued \subseteq issued'
  <2>1. CASE Issuing
    BY <2>1 DEF Issuing, CreateRootCA, IssueCertificate, SignCertificateRequest, Issue
  <2>2. CASE Responding
    BY <2>2, RespondersRespond DEF Respond
  <2>3. CASE ~Issuing /\ ~Responding
    BY <2>3 DEF AuthorityNext, authorityVars, Tick, Revoke, CreateCRL, PublishList
  <2> QED  BY <2>1, <2>2, <2>3
<1>2. Entries \subseteq Entries'
  BY <1>1 DEF Entries
<1>3. QED  BY <1>2 DEF Certificates

(* Time passes while the response is under way. *)
LEMMA WaitingStep ==
  ASSUME InquiryInv, AuthorityNext, UNCHANGED inquiry,
         inquiry = Unasked \/ inquiry.stage = "waiting"
  PROVE  InquiryInv'
<1>1. inquiry'.stage # "returned"
  BY DEF Unasked
<1>2. QED  BY <1>1, CertificatesStay DEF InquiryInv, IsOf

LEMMA AskingStep ==
  ASSUME AuthorityInv, Asking
  PROVE  InquiryInv'
<1>1. PICK e \in issued, o \in FetchOptions, kind \in {"crl", "ocsp"} :
        Len(e.chain) > 1 /\ Ask(kind, e.chain[1], e.chain[2], o)
  BY DEF Asking
<1>2. e \in Held /\ e \in Entries
  BY DEF AuthorityInv, AuthorityTypes, Entries
<1>3. 2 \in DOMAIN e.chain
  BY <1>1, <1>2, HeldChain
<1>4. e.chain[2] \in Certificates /\ IsOf(e.chain[1], e.chain[2])
  BY <1>1, <1>2, <1>3 DEF Certificates, AuthorityInv, IssuersSign
<1>5. Certificates' = Certificates
  BY <1>1 DEF Ask, authorityVars, Certificates, Entries
<1>6. inquiry' = [stage |-> "waiting", kind |-> kind, cert |-> e.chain[1],
                  issuer |-> e.chain[2], options |-> o, time |-> o.currentTime,
                  size |-> 0, data |-> Junk, result |-> {}]
  BY <1>1 DEF Ask
<1>7. QED  BY <1>4, <1>5, <1>6 DEF InquiryInv, IsOf, Fields

LEMMA LoseStep ==
  ASSUME InquiryInv, Lose
  PROVE  InquiryInv'
<1>1. inquiry # Unasked /\ Certificates' = Certificates
  BY DEF Lose, Unasked, authorityVars, Certificates, Entries
<1>2. inquiry' = [inquiry EXCEPT !.stage = "lost"]
  BY DEF Lose
<1>3. QED  BY <1>1, <1>2 DEF InquiryInv, IsOf, Fields

LEMMA DeliverStep ==
  ASSUME InquiryInv, NEW size \in BodySizes, NEW data, Deliver(size, data)
  PROVE  InquiryInv'
<1> DEFINE o      == inquiry.options
           read   == BytesRead(size, Sum(Limit(o), 1))
           result == IF TooLarge(read, o) \/ read < size THEN {} ELSE Checked(data, CheckTime)
<1>1. inquiry # Unasked /\ Certificates' = Certificates
  BY DEF Deliver, Unasked, authorityVars, Certificates, Entries
<1>2. inquiry' = [inquiry EXCEPT !.stage = "returned", !.size = size, !.data = data,
                    !.result = result]
  BY DEF Deliver
<1>3. DOMAIN inquiry = Fields /\ o \in FetchOptions /\ size \in Nat
  BY <1>1, FetchInputs DEF InquiryInv
<1>4. o.maxSize < Largest => result = IF size <= Limit(o) THEN Checked(data, CheckTime) ELSE {}
  BY <1>3, LimitedRead
<1>5. result \subseteq Checked(data, CheckTime)
  OBVIOUS
<1> HIDE DEF result, read
<1>6. /\ DOMAIN inquiry' = Fields /\ inquiry'.stage = "returned" /\ inquiry'.size = size
      /\ inquiry'.data = data /\ inquiry'.result = result
      /\ inquiry'.cert = inquiry.cert /\ inquiry'.issuer = inquiry.issuer
      /\ inquiry'.kind = inquiry.kind /\ inquiry'.options = o /\ inquiry'.time = inquiry.time
  BY <1>2, <1>3 DEF Fields
<1>7. CheckTime' = CheckTime
  BY <1>6 DEF CheckTime, Deliver, authorityVars
<1>8. \A t : Checked(data, t)' = Checked(data, t)
  BY <1>6 DEF Checked, Deliver, authorityVars
<1>9. Returned'
  BY <1>3, <1>4, <1>5, <1>6, <1>7, <1>8 DEF Returned
<1>10. QED  BY <1>1, <1>6, <1>9 DEF InquiryInv, IsOf

LEMMA FetchInvariant == FetchSpec => [](AuthorityInv /\ InquiryInv)
<1>1. FetchInit => InquiryInv
  BY DEF FetchInit, InquiryInv
<1>2. ASSUME AuthorityInv, InquiryInv, [FetchNext]_fetchVars PROVE InquiryInv'
  <2>1. CASE UNCHANGED fetchVars
    BY <1>2, <2>1 DEF fetchVars, authorityVars, InquiryInv, Certificates, Entries, IsOf,
       Returned, Checked, CheckTime
  <2>2. CASE FetchNext
    BY <1>2, <2>2, WaitingStep, AskingStep, LoseStep, DeliverStep DEF FetchNext
  <2>3. QED  BY <1>2, <2>1, <2>2
<1>3. QED  BY <1>1, <1>2, FetchObservesAuthority, AuthorityInvariant, PTL DEF FetchSpec

LEMMA CheckedAreAnswers ==
  ASSUME NEW data, NEW t
  PROVE  Checked(data, t) \subseteq
           AnswersAt(inquiry.cert, inquiry.issuer, inquiry.options.skew, t)
<1>1. CASE inquiry.kind = "crl" /\ data \in lists
  BY <1>1 DEF Checked, AnswersAt
<1>2. CASE inquiry.kind = "ocsp" /\ data \in responses
  BY <1>2 DEF Checked, AnswersAt
<1>3. CASE ~(inquiry.kind = "crl" /\ data \in lists)
             /\ ~(inquiry.kind = "ocsp" /\ data \in responses)
  BY <1>3 DEF Checked
<1>4. QED  BY <1>1, <1>2, <1>3

(* FetchAndCheckCRL and FetchAndCheckOCSP ask for the time after the body was
   read: whatever happened while it was under way, what they report obeys the
   bound of RevocationTakesEffect. *)
THEOREM FetchAnswersTakeEffect == FetchSpec => []FetchedAnswersTakeEffect
<1>1. ASSUME AuthorityInv, InquiryInv PROVE FetchedAnswersTakeEffect
  <2>1. SUFFICES ASSUME inquiry.stage = "returned", inquiry.options.currentTime = NoTime,
                        NEW r \in revoked, r.cert = inquiry.cert,
                        NEW a \in inquiry.result, a.fresh, a.status = "good"
                 PROVE  Excusable(a, r.at, inquiry.options.skew)
    BY DEF FetchedAnswersTakeEffect
  <2>2. inquiry # Unasked
    BY <2>1 DEF Unasked
  <2>3. CheckTime = now /\ inquiry.options.skew \in Skew
    BY <1>1, <2>1, <2>2, FetchInputs DEF InquiryInv, CheckTime
  <2>4. a \in AnswersAt(inquiry.cert, inquiry.issuer, inquiry.options.skew, now)
    BY <1>1, <2>1, <2>2, <2>3, CheckedAreAnswers DEF InquiryInv, Returned
  <2>5. a \in Answers(r.cert, inquiry.issuer, inquiry.options.skew)
    BY <2>1, <2>4, AnswersNow
  <2>6. IsOf(r.cert, inquiry.issuer)
    BY <1>1, <2>1, <2>2 DEF InquiryInv
  <2>7. QED  BY <1>1, <2>1, <2>3, <2>5, <2>6, GoodAnswersAreExcusable
<1>2. QED  BY <1>1, FetchInvariant, PTL

(* The detour over a limited reader gives the callers of FetchAndCheckCRL and
   FetchAndCheckOCSP what CheckCRL and CheckOCSP make of the body, when and only
   when it has at most MaxSize bytes, for every MaxSize below the largest. *)
THEOREM FetchSizeLimitIsExact == FetchSpec => []SizeLimitIsExact
<1>1. ASSUME InquiryInv PROVE SizeLimitIsExact
  <2>1. SUFFICES ASSUME inquiry.stage = "returned", inquiry.options.maxSize < Largest
                 PROVE  inquiry.result = IF inquiry.size <= Limit(inquiry.options)
                                         THEN Checked(inquiry.data, CheckTime) ELSE {}
    <3>1. inquiry.stage = "returned" => inquiry # Unasked
      BY DEF Unasked
    <3>2. inquiry # Unasked =>
            CheckTime = IF inquiry.options.currentTime = NoTime THEN now
                        ELSE inquiry.options.currentTime
      BY <1>1 DEF InquiryInv, CheckTime
    <3>3. QED  BY <3>1, <3>2 DEF SizeLimitIsExact
  <2>2. inquiry # Unasked
    BY <2>1 DEF Unasked
  <2>3. QED  BY <1>1, <2>1, <2>2 DEF InquiryInv, Returned
<1>2. QED  BY <1>1, FetchInvariant, PTL
=============================================================================
