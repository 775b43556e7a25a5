# certkit in TLA+

certkit is a Go library, used in-process, that reads certificates, private keys
and key stores in several formats into one `Store`, lets the caller change that
store, writes it out in any of the formats, issues and verifies certificates,
and checks revocation and TLS servers.  This directory specifies it: TLA+
modules, TLC configurations that check them on small instances, and proofs that
TLAPS checks for instances of every size.

    tlc -config Store.cfg MCStore.tla         # one run; the list is below
    tlc -config Open.cfg MCOpen.tla
    tlapm StoreProofs.tla                     # the store, a key ring
    tlapm OpenerProofs.tla                    # the openers, and Open
    tlapm EncodeProofs.tla                    # what the encoders write
    tlapm ConvertProofs.tla                   # what is written is read again
    tlapm TlsProbeProofs.tla                  # what a probe reports
    tlapm AuthorityProofs.tla                 # issuance, revocation, fetching

## The system

| Component | State | Operations | What makes it correct |
|---|---|---|---|
| Store (`model.go`, `open.go`) | certificates, private keys, entries (alias, key, status, chain), source aliases | `AddCertificate`, `AddPrivateKey`, `AddKeyPair`, `AddTrustedCertificate`, `AddEntry`, `Add`, `Remove*` | no object twice; no reference to an object the store does not hold; no alias given twice; keys matched to the right chain; nothing lost but what was removed |
| Chain building (`open.go`) | none | `buildCertificateChain`, `reconcileEntries` | starts at the leaf, each certificate issued by the next, no cycle, ends at a root or where nothing fits |
| Open, OpenEntry (`open.go`, `detect.go`) | none | limits, choice of the format, dispatch, re-matching | an opened store is sound, settled and within the limits; partial results come with an error |
| Openers (`open_*.go`, `password.go`) | none | one per format, password candidates | keys are available exactly when decrypted |
| Encoders (`encode*.go`, `entry_pem.go`) | none (read the store) | one per format, export of an entry | nothing is lost without being refused or reported; what is written opens again as what it was |
| BER reader (`internal/ber`) | none | `ToDER` | accepts one complete object; same value, definite lengths, bounded depth |
| Issuance (`ca.go`, `csr.go`, `key.go`) | none | `CreateRootCA`, `IssueCertificate`, `SignCertificateRequest` | an issued chain verifies and nests in its issuer's validity |
| Verification and roots (`chain.go`, `roots.go`) | pools of a trust store | `VerifyCertificate`, `TrustStore.Add` | trusted iff some pool verifies it |
| Revocation (`crl.go`, `ocsp.go`, `internal/ocsp`) | none | create and check a CRL, check an OCSP response, fetch either | no answer from a list or response of somebody else, none from one past its end, none from part of a body |
| TLS and TLCP probing (`tls.go`) | report being built | `InspectTLS` | one independent result for each version |
| PKCS12 codec (`internal/pkcs12`) | none | encode, decode, MAC, key derivation | integrity is checked before contents are used; what it writes it reads |

Everything is called on the caller's goroutine.  The library starts no
goroutine, keeps no global state and takes no lock; a `Store` belongs to one
caller at a time.  What is hard here is therefore not concurrency but

- the order of calls: the `Store` is a mutable structure of three slices with
  references between them, its calls may come in any order with any inputs, and
  only some of them re-match keys and chains;
- two sides that have to agree: what an encoder decides about orders, aliases,
  passwords and chains is read back by other code with rules of its own;
- partial failure: an opener that meets a bad block or a wrong password in the
  middle of a file returns what it has read together with an error, a probe goes
  on with the next version, and `Store.Add` merges and then fails;
- time: certificates, lists and OCSP responses are made at one time, with periods
  the caller chooses, fetched at another and checked at a third;
- the network: a server may refuse, stall or send anything, a response may be an
  old one, and the caller's context may be done at any moment.

Nothing is persisted, and nothing is retried.

`PROJECT.json` lists the hazards this brings, each at its line, and the
properties that would catch it.

## Modules

Each module extends those to its left; the second line of each part names the
modules that give values to the constants, the third the proofs.

    Lists <- Pki <- Objects <- Store <- Encode <- Claims
    MCObjects (values), MCStore, MCEncode, MCClaims
    PkiProofs <- ObjectProofs <- StoreProofs <- EncodeProofs

    Objects <- Passwords <- Opening <- OpenJks, OpenPem, OpenPkcs12 <- Open
    MCOpening, MCOpenJks, MCOpenPem, MCOpenPkcs12, MCOpen
    ObjectProofs <- OpenerProofs

    OpenPkcs12 <- Pfx;  Encode, Open, Pfx <- Convert        Ber
    MCConvert                                               MCBer
    EncodeProofs, OpenerProofs <- ConvertProofs

    Pki <- TlsProbe             Authority <- Fetch
    MCTlsProbe                  MCAuthority
    PkiProofs <- TlsProbeProofs AuthorityProofs

    Store   implements  Keyring               (INSTANCE Keyring in Store)

`Encode` extends `Passwords` as well.  The openers and the store meet in
`Objects`: what an opener returns is what `Store.Add` merges.  They meet again in
`Convert`, where the encodings of a store become the files of the openers.

### Stores and encodings

- **Lists**: the loops over Go slices the code is made of, as operators on
  sequences: append what is absent (`addCertificate`, `addPrivateKey`), filter
  in place (`RemoveCertificate`), first position.  None is recursive.
- **Pki**: certificates and `buildCertificateChain`.  A certificate is a member
  of `Cert` and `Info` gives the fields the code reads.  Two certificates are
  the same member exactly when their DER, hence their SHA-256 identifier, is the
  same.  A key pair is a member of `Key`; `Matches` is `publicKeysEqual`.
  `smx509`'s signature check is external and is modelled by the issuer's key
  and its right to sign.  `BuildChain` is the value of the slice when the loop
  ends: a walk that takes the first unseen parent in store order at every step
  and cannot go on.  `PkiProofs` shows that there is exactly such a walk, so
  that the `CHOOSE` is never arbitrary.
- **Objects**: keys, aliases and entries, and the operators that the store's calls
  and the openers share: `Reconcile` (`reconcileEntries`), `MatchedChain`,
  `CanonicalChain`, `HasAlias`.  `SoundStore` says what a store must be, and
  `IsOpened` what a file's store is when its opener returns.
- **Store**: the four variables are `Store.Certificates`, `Store.PrivateKeys`,
  `Store.Entries` and the `Source.Alias` of each stored certificate.  Each
  exported method that changes the store is one action, with its early returns
  as guards and `reconcileEntries` as part of the actions that call it.  A call
  that returns an error before its first assignment changes nothing and is a
  stuttering step.  `Files` is what the openers leave, constrained by `IsOpened`
  (which `OpenerProofs` proves of the openers); `Opened` re-matches it, and
  `Library` is what `Open` returns.  `OpenEntry` is an operator, its result is an
  input of `AddEntry`.
- **Keyring**: what a store promises, without orders, chains and statuses: a set
  of certificates, a set of keys, and names bound to keys.  A call puts things
  in, and then loses and rebinds nothing, takes no name that is in use and names
  every new key; or it takes out the one thing it was asked for.  The refinement
  mapping in `Store` is the ranges of the two slices and, of each entry, its
  alias up to case and its key.
- **Encode**: what `Store.Encode` takes from a store, for the five formats: an
  operator from the store's state and the options to a refusal or to the list of
  items written together with the `ConversionReport`; and the export of an entry
  as two PEM texts (`entry_pem.go`).  Its properties are invariants of the
  behaviours of `Store`.
- **Claims**: sentences of the documentation that the code does not keep (below).
- **PkiProofs, ObjectProofs, StoreProofs, EncodeProofs**: theorems and the lemmas
  they rest on, each module about the one it extends.

### Openers

- **Passwords**: `passwordFor` and `passwordByAlias`.  A password is a value;
  `NoPassword` is nil and `Failed` an error of the `PasswordProvider`.
- **Opening**: what the openers share.  A file is a container: the items (JKS
  entries, PEM blocks, PKCS12 bags) that the format's library yields, each with
  the certificates and the key in it, the passwords that protect it, and whether
  it can be parsed.  `pos` is the loop variable, `readCerts`, `readKeys`,
  `readEntries` and `readOrigin` the store under construction, `outcome` how the
  opener returned: with the store, with the store and an error (`password`,
  `invalid`), or with an error alone (`refused`).
- **OpenJks**: the store password and the digest (`Load`), trusted certificates,
  key entries with their four sources of passwords, and `loadErr`, which the code
  sets once and carries to the end.
- **OpenPem**: one action for each kind of block and each early return of
  `openPEM`; `openDER` and `openPKCS7` as one action each.  A legacy (RFC 1423)
  block has no integrity check: a wrong password may yield garbage, which is a
  choice in `Decryptions`.
- **OpenPkcs12**: the three readers that `openPKCS12` tries, the loop over the
  bags, and then the naming of keys and certificates with `uniqueEntryAlias`.
  Which reader can read a file is the field `form` of the file.
- **Open**: `Open` itself, which composes the three.  Data have a meaning: what
  the bytes are (`kind`), the container that an opener finds in them (`file`), the
  label and the blocks of a PEM text, and whether white space surrounds them.
  `Detect` has the recognisers of the code in their order; `RefuseInput`,
  `Dispatch` and `Conclude` are what `Open` does before and after the opener, and
  the steps of the opener run in between.

### Conversion

- **Pfx**: `internal/pkcs12` as far as `certkit` uses it: what its two encoders
  put into safes and bags, the integrity check, what each of the three readers
  accepts, and with which of them, and as which bags, `openPKCS12` sees a
  container.  It connects the items of `Encode` with the files of `OpenPkcs12`;
  cryptography is ideal.
- **Convert**: the composition.  A store is edited (the actions of `Store`),
  encoded (`Write`), altered on the way or not, or a PKCS12 container arrives from
  other software (`Receive`); then it is opened by the actions of `Open`, with the
  format or without it.  The store of the caller (`certs`, `keys`, `entries`,
  `origin`) and the one that is read are different variables.  The store that was
  encoded is forgotten at that moment, which keeps the state space small;
  `written` remembers the items.
- **Ber**: `ToDER` on bytes: the header with its tag and length, the children, the
  end of contents, and the shortest encoding.  The state is the input, which grows
  byte by byte.  `IsObject` is the reference, a definition of BER by existence of a
  split instead of a reader, and with its last argument one of what DER allows.
  Lengths are sums of at most 31 bits, in an `int` of 64 bits.

### Probing and authorities

- **TlsProbe**: `InspectTLS`.  `stage` is where the code is (`idle`, `dial`,
  `handshake`, `inspect`, `done`, or `refused` with an error and no report), and
  `report` the results so far.  The environment decides whether a dial or a
  handshake fails, what a server sends, and when the context is done.  `Verdict`
  is `validateTLSChain` or `validateTLCPChain`, over `TrustStore.verify`;
  `smx509`'s path building is external and is modelled as the existence of a
  chain from the leaf through the intermediates to a root of one pool.
- **Authority**: the calls of `ca.go`, `csr.go`, `crl.go` and `ocsp.go`.  certkit
  keeps nothing between them, so that the variables are what its callers hold:
  the entries issued, what was revoked and when, the lists and the OCSP responses
  made, and the clock.  One action for each call that makes something; the
  checks of relying parties (`CheckCRL`, `CheckOCSP`) are operators on lists and
  responses, whose value is the result: a status ("good", "revoked" or "unknown"),
  `Fresh`, `ThisUpdate` and `NextUpdate`.  The environment are OCSP responders,
  which certkit has none of, and CAs with other software (`PublishList`).  A
  response has the answers to one or two questions, of one or two CAs with equal
  serial numbers or not, in any order, and the responder may not know a CA.
  `nextUpdate` is optional in responses and in lists of other software; `NoTime`
  stands for the zero time that the code then sees.
- **Fetch**: `FetchAndCheckCRL` and `FetchAndCheckOCSP`, a relying party beside
  the authorities.  `inquiry` is its one call: asked, waiting, and returned or
  lost.  What is delivered is any list or response that exists by then (so it may
  be an old one, or one about another certificate or of another CA) or something
  else, of any size; while it is under way time passes and certificates are
  revoked.  The size limit is computed with the width of its integer.
- **MC...**: values for the constants.

### What these models leave out

`Diagnostics`, `SourceInfo`, `CreatedAt`, the other `SourceRef` fields and
`MergeReport` are not in the store model: no decision of the code depends on
them.  The text of synthetic aliases is left out: `Synthetic` gives one alias for
each key, so two keys whose identifiers share 12 hex digits are covered by giving
them the same alias.  Go's pointers are values: the model
does not show that an `*Entry` a caller passes to `AddEntry` is modified and
stays shared with the caller, or that an entry may be put into two stores.
Failures of the cryptographic libraries on well-formed objects are left out.
Sizes are left out, except that of the data of `Open`, of HTTP bodies and of
BER lengths.  `Encode` gives an alias one spelling in a JKS (the encoding
library's own folding is taken to agree with `strings.ToLower` on the aliases in
play).  `Convert` takes the last byte of what an encoder writes not to look like
white space when the format is not given (see `DerIsDetected`).  `TlsProbe`
leaves out ciphers and application protocols, and the result of the stapled OCSP
response beyond which two certificates it is checked with.  `Authority` leaves
out host names, extended usages other than OCSP signing and PEM wrapping, and
`Fetch` the making of the OCSP request.

Operators under a comment that begins with "A fault" or "Faults" are plausible
bugs of the code, not the code; `PROJECT.json` lists which property detects
which.

## Runs

Passing runs explore every behaviour within their bounds.

| Run | Question | Bounds |
|---|---|---|
| `Store.cfg` | Do object identity, references and aliases survive every mixture of calls, what may a single call do to keys and chains, and is the store a key ring? | 3 certificates (a leaf, its root, the root cross-signed), 2 keys held by the caller, aliases that differ in case and in a space, 5 files (chain, key, JKS with a wrong key password, JKS whose aliases differ only in case and whose key has the certificate of another, one over the limit), at most 2 entries; 130,000 states |
| `Open.cfg` | What does `Open` return for any data, format, passwords and limits? | JKS files of up to 3 entries with aliases that clash up to case, every sequence of up to 3 of 11 kinds of PEM blocks and of 11 kinds of PKCS12 bags, 5 passwords; 13 data under 3 limits, 5 supported formats, "auto" and two that are not supported; sizes below and above the limit, white space before and after; 170,000 states |
| `Encode.cfg` | What does every encoding of every reachable store hold, refuse and report, and do exported entries reopen? | 2 certificates, 2 keys, chains that repeat a certificate, 6 option values, at most 3 entries; 158,000 states |
| `Convert.cfg` | Does what is written open again as what it was, and is an alteration noticed? | 3 certificates of which 2 have one key, 2 keys, at most 2 entries; 3 option values (long and short passwords, passwords for keys, a given alias, no roots); 6 passwords; foreign containers of one or two safes with up to 4 bags of 13 kinds; 107,000 states |
| `Ber.cfg` | Does `ToDER` accept exactly one BER object, and write it in normal form? | every input of up to 6 of 10 bytes that matter to the reader, samples of up to 270 bytes with lengths of 1 to 5 bytes, 3 levels |
| `TlsProbe.cfg` | What does a probe report about servers that fail, stall or send anything? | 5 requests of up to 4 versions, 5 answers of servers, 5 certificates, 3 trust stores and 1 root to add; 47,000 states |
| `Authority.cfg` | Do issuance and revocation keep their word as time passes, also to those who fetch an answer? | two CAs that share a key, 2 more entries (1 at most when somebody asks), 1 revocation, 1 list or response, 4 moments, 2 tolerances; bodies of sizes 1 to 3 around a limit of 2, 3 options with another limit, a chosen time and the largest limit, 7; lists and responses with an end and without; 1,517,000 states |
| `Claim*.cfg` | Does the code keep this sentence of its documentation? (it does not) | those of the run of the same component, with fewer inputs |

Two entries are the least for what can go wrong between entries (a shared key,
a shared alias, a merge on top of an existing entry), and a third adds the case
that the encoders' positions and aliases need.  Three certificates of which two
compete as parent are the least for a chain to be rerouted.  Three items of a file
are the least for one that fails to stand between two that do not.  An issued CA
with an issued leaf is the least for a chain made link by link.  Six bytes hold
an indefinite length with a child and its end; the depth bound of the code, 128,
is 2 in the run, and only its comparison depends on it.  A limit of 2 has bodies
below, at and above it.

**Fairness and stopping.**  `Store`, `Encode`, `Convert` and `Authority` have no
fairness: a caller may stop at any time.  No call of the store waits, so that
deadlock is checked in the runs of `Store` and `Encode` and must not occur.  `Open`
is a loop on one goroutine: it has weak fairness of its next step, which assumes
that a `PasswordProvider` returns, and stops when it has returned.  A probe has
weak fairness only for what the network cannot prevent: its own computation, and
that a dial or handshake ends once the context is done.  Nothing makes a server
answer.  These runs, those of `Convert` and `Ber`, which end, and that of
`Authority`, whose clock ends, set `CHECK_DEADLOCK FALSE`.

What the properties say:

- `TypeOK`, `ObjectsAreUnique`, `ChainsResolve`, `KeysResolve`: the store never
  holds nil or an object twice, and no entry refers to what is gone.  Removing
  has to reach every reference, and adding must look before it appends, on all
  of the routes by which an object gets in.
- `NamedAliasesUnique`: an alias occurs twice only if `reconcileEntries` made
  it up, or one input brought it twice.  (The first can: `AddPrivateKey`,
  `AddEntry` of a second entry with the synthetic alias, or a key removed and added
  back.  The second is below, among the observations.)
- `AddsReconcile`: after `AddCertificate` or `AddPrivateKey` every key has an
  entry and every chain of a key is in issuing order and complete, whatever the
  store was before.
- `OnlyRemovalDetaches`: while no certificate is removed, a key comes to a chain
  that starts with the certificate of another only by merging an input that says
  so.  `ChainsOnlyExtend`: an addition never reroutes a settled chain.
- `ImplementsKeyring`: the store is a `Keyring`: an addition or a merge loses and
  rebinds nothing and names every new key, and a removal takes one thing only,
  a key from all of its names.
- `LossIsDeclared`, `ReportBalances`, `JksIsSound`: see the comments in `Encode`.
  Their exceptions are among the observations below.  `ExportedEntriesReopen`:
  the two PEM texts of an entry that starts with the certificate of its key are put
  together again by `OpenEntry`.
- `OpensSoundly`: whatever is wrong with a file, what its opener returns is a
  store without duplicates whose entries refer to its own objects.
  `OpenReturnsSettled`: what `Open` returns, with an error or without, keeps to
  the limits, names every key, and gives the next re-matching nothing to do.
  `Finishes`: `Open` returns.
- `SuccessIsComplete`, `PasswordsLoseNoEntry`, `KeysNeedPasswords`: a JKS opened
  without an error is verified and unlocked completely; a wrong password costs
  keys but no certificate and no alias; no key without its password.
- `ReturnsWhatWasRead`: the store beside an error holds exactly the objects of
  the blocks before it.  `EncryptionNeedsPassword`: as for JKS.
- `AliasesDiffer`, `EveryBagHasEntry`, `OpenFindsSettled`: in a PKCS12 file every
  bag gets an entry, under an alias that differs from all others up to case, and
  with a chain that `Open`'s re-matching leaves alone.
- `RoundTripKeepsObjects`: what an encoder accepted is not refused by `Open`, which
  may have to find the format, opens without an error, and has the objects of its
  items, no fewer and no more.
  `RoundTripKeepsBindings`: keys come back with the certificate they were written
  with, in JKS under their aliases.  `AlterationIsNoticed`: of an altered JKS no
  key is taken, and an altered PKCS12 container does not open.
- `AcceptsExactlyBer`, `NormalFormIsStable`: the reader of BER agrees with the
  definition of BER; its output is what DER allows as far as lengths go, is read as
  the same object, and is the input itself if that was so already.
- `OneResultEach`: each version has one result, in its place, however the others
  ended.  `TrustedIsEarned`: a verdict of trust has a chain behind it for every
  certificate that the server calls its own, both of them for TLCP.
  `RootsMakeNoDifference`: it does not matter whether the server sends its root.
  `AddOnlyExtendsTrust`: adding a root takes no trust away.
  `CancellationEndsProbing`: a done context ends a probe.
- `IssuedChainsVerify`: an issued chain that keeps its path lengths verifies from
  the moment when all of it has begun until its leaf ends.
  `NoForeignRevocation`: another CA, though it shares key and serial number, and
  answers in the same response, revokes nothing.  `RevocationTakesEffect`: a fresh
  answer calls a revoked certificate good no longer than what was made before
  lives.  That bounds what has an end only: an answer without `NextUpdate` is
  fresh for ever (crl.go:127, ocsp.go:57), and all that holds of it is that its
  result shows so, by a zero `NextUpdate` and a `ThisUpdate` no later than the
  revocation.  Callers who need a bound have to look at these.
  `FetchedAnswersTakeEffect`: the same for a fetched answer, at the moment when it
  is reported, however long it was under way.  `SizeLimitIsExact`: a body of
  `MaxSize` bytes is checked as a whole, one of a byte more is refused.

### Where documentation and code part

Each `Claim*.cfg` checks one sentence of the documentation; TLC finds the calls
that refute it.

- `AddCertificateMatchesAgain` (model.go:145): remove the leaf of a chain, then
  add it back.  The entry's chain is rebuilt from its new head, the CA, and the
  leaf is not matched to its key again.
- `LossyJksIsRefused` (doc.go:18): `RemoveEntry` keeps the key in the store,
  and `encodeJKS` leaves it out without asking for `AllowLossy`.
- `KeyPasswordsAreTried` (README.md:93): the first key entry with a wrong
  password sets `loadErr`, and the later ones are not tried any more, although
  `KeyPasswords` has their passwords.
- `CompletenessIsSeparate` (README.md:256): a complete chain under a wrong name
  is reported as incomplete, and an issuer as missing.
- `DerIsDetected` (doc.go:4): `Detect` trims white space from binary data too
  (detect.go:33), so that DER whose last byte is one of these characters is not
  recognised, although `Open` reads it when it is told that it is DER.

Observations of the same kind that the models show and no run checks:

Stores
- `AddPrivateKey` (model.go:156): a key that was removed and is added back gets a
  second entry with a synthetic alias; its own stays unavailable.
- `Store.Add` (README.md:63) does not re-match: after merging a key and then its
  certificate the key's entry has no chain.
- A JKS with aliases that differ only in case (open_jks.go:22 reads them case
  exactly) makes a store in which two aliases are equal by README.md:95, and of
  which `RemoveEntry` removes the first.
- `AddKeyPair` and `AddEntry` refuse a key that is not that of its certificate
  (`ErrKeyMismatch`); an entry of this kind in a JKS is opened and merged without
  an error (open_jks.go:75, open.go:163).
- A removal may leave an entry whose chain does not start with the certificate of
  its key; its two PEM exports do not belong together.

Encoders and what they write
- `encodePKCS12` computes the loss as a difference of lengths: a caller's chain
  that repeats a certificate hides one that is not written (README.md:118).
- The JKS report names an entry without key and chain, which is not written
  (encode.go:43).
- A PKCS12 trust store takes the alias of the i-th certificate from the i-th
  entry, which may be another certificate's (encode_pkcs12.go:36, model.go:94).
- A PKCS12 key store carries no friendly name, so that the alias of its entry comes
  back as "key-..." (or as the common name, for a key of a type that `ToPEM` does
  not know); trust stores come back as "certificate-1" and so on.
- Reopening a JKS may reroute the chain of an entry, which is matched again.

Openers
- The default password `changeit` is tried for JKS keys although another store
  password was confirmed (README.md:93).
- `openDER` reports an encrypted key without a password as invalid data (error.go:6).
- A broken PKCS12 container is reported as a wrong password (doc.go:14), and an
  empty password that is not nil opens one without an authentication code.
- PEM text whose first block is labelled PKCS7 or PKCS12 loses its other blocks.
- Encrypted PKCS8 in DER and several certificates one after the other are not
  detected; data with white space before them are detected, but not opened.

Others
- `ber.go` accepts 129 levels (DEPENDENCIES.md speaks of at most 128), and
  ber.go:185 overflows where an `int` has 32 bits.
- `MaxSize + 1` overflows for the largest `MaxSize` (crl.go:163, ocsp.go:95):
  every body is then read as empty.
- Of an OCSP response the first answer with the serial number is selected, and
  only then its issuer looked at (internal/ocsp/ocsp.go:179): where the first is
  of another CA, the right one behind it is not found.
- A list or an answer without `nextUpdate` is `Fresh` for ever (crl.go:127,
  ocsp.go:57), however old; see `RevocationTakesEffect`.
- `SignCertificateRequest` uses the subject of the options only if it was parsed
  from a certificate, and path lengths are not checked below a CA (ca.go:134).
- A trust store without pools verifies against the roots of the system, which
  the first root that is added replaces (roots.go:89).

## Proofs

The theorems hold for every finite set of certificates, every set of keys and
aliases, all files and options of the shapes the modules assume, and all bounds;
the assumptions are those of the modules (`PkiFinite`, `PkiFields`,
`AliasFunctions`, `Sentinels`, `CallerInputs`, `OpenedFiles`, `EncodeConstants`,
`PasswordSentinels`, the inputs of each opener, `ConvertInputs`, `ProbeInputs`,
`AuthorityInputs`, `FetchInputs`), which TLC evaluates on the runs.  Most give
types.  Those that say more: the sentinels are no passwords, keys or certificates;
what `Store.Add` merges was opened (`OpenedFiles`, which `OpenerProofs` shows of
the openers); the entries that `Authority` starts with, which were opened from
files, verify as long as their leaf lives (`OutlivesLeaf`), since certkit does not
look at the chain above an issuer; and `ConvertInputs`: no caller encodes with the
password that stands for altered data, and an empty one is given as none, which
encoders take it for (encode_pkcs12.go:14); keystore-go orders
aliases strictly; the default alias of a certificate is not blank (open.go:279); a
foreign key bag holds a key; there are no more certificates and keys than `Open`'s
default limits let pass, and a numbered alias for each certificate.  The options of
a caller have any validity, any path length and any time at all.

An invariant of a run is seldom inductive by itself.  Each theorem names the one it
follows from.

### Certificates, keys and chains

- `PkiProofs`: what the loops over slices do.  `Pick` returns the elements at the
  given positions in order (`Rank` is a bijection from a finite set of positions to
  `1..n`, by induction on the least number); `AppendNew`, `Keep` and `RemoveAt` do
  to ranges and duplicates what they are for.  Then `BuildChainReturnsChain`: a
  walk without duplicates is no longer than the number of certificates (the
  pigeonhole principle), so a longest one exists and cannot be extended.  The loop
  ends, and its result starts with the leaf, is in issuing order, repeats nothing,
  and stays inside the store.
- `ObjectProofs`: what `Reconcile`, `MatchedChain` and `CanonicalChain` do to a
  sound store, that `Reconcile` is idempotent, and that a sound store may be handed
  to `Open`.

### The store

- `StoreProofs`: `References`, the conjunction of `TypeOK`, `ObjectsAreUnique`,
  `ChainsResolve` and `KeysResolve`, is inductive.  None of the four is by
  itself: `canonicalCertificates` yields no nil only because every certificate of
  the chain was added; `RemoveCertificate` leaves no reference only because the
  certificate it removes occurs once; a merge keeps the references of the other
  store only because that store was sound.  The four invariants follow, and
  `AddsReconcile` follows from `References` and `BuildChainReturnsChain`.
  `StoreOnlyRemovalDetaches` follows from `References` and the head of what
  `MatchedChain` and `BuildChain` return: a re-match keeps the pairs there are or
  finds one that matches, and the calls that append an entry compared its key with
  its certificate.  `StoreChainsOnlyExtend`: every step of a walk takes the first
  certificate in store order that fits, and when certificates are appended the
  first one stays the first; two walks of which one were no prefix of the other
  would part at a least place, where both take it.
- `StoreImplementsKeyring` is the refinement.  Each action maps to
  one step of the ring: the additions and merges to `Put`, removals to the three
  others, and `RemoveEntry` to a stutter where another entry has the same name
  and key.  `Put` is shown once for the calls that re-match (`RematchingPuts`: new
  names are those that `reconcileEntries` makes up) and once for those that
  append (`AppendingPuts`: their aliases were looked for).  A merged store names
  its keys because `Open` re-matched it.  `References` is needed throughout: a
  removal takes out the whole object only because it is stored once, and the key
  of an entry is in the ring only because `KeysResolve` holds.
  `StoreNamedAliasesUnique` is inductive beside `References`; what a merge brings
  is excused by its file, and re-matching adds aliases it made up.
- `EncodeProofs`: `EncodeLossIsDeclared`, `EncodeReportBalances`,
  `EncodeJksIsSound`, `EncodeExportedEntriesReopen`, of every store that the calls
  can make.  Encoding changes nothing, so they follow from `References`: the
  numbers of a report add up because the store holds nothing twice and its entries
  refer to nothing else.  The remaining certificates of a JKS are a loop whose
  passes are a recursive function, `WriteRemaining`; `PassesInv` is its loop
  invariant (a certificate of its own for each pass and, while nothing clashed, no
  alias twice up to case), by induction on the number of passes.  An exported
  entry reopens because a chain is a walk, and a walk can be walked again in the
  certificates that it consists of.

### The openers

- `OpenerProofs`: what an opener promises is a statement about the moment when it
  returns; the invariants say what is true after each item, whichever return comes
  next.
  - `SoundSoFar`: the store is sound, which gives `OpensSoundly` of all three
    openers and discharges `OpenedFiles`.  For PKCS12 it also says that the keys and
    certificates still to be named are in the store and that the aliases so far
    differ up to case (`AliasesDiffer`).
  - `JksAccounts` relates each entry to its item and `loadErr` to the keys that are
    missing (`SuccessIsComplete`, `KeysNeedPasswords`).  `JksEntries`: the entries
    are, in order, those of the items before `pos`, and no return with a store comes
    before the last item (`PasswordsLoseNoEntry`).
  - `PemReads`: the certificates and keys are exactly those of the blocks before
    `pos`, and the passwords of these were given; it needs that a DER or PKCS7 file
    is read in one step (`ReturnsWhatWasRead`, `EncryptionNeedsPassword`).
  - `Pkcs12Accounts`: the key bags wait in their order, each with its key
    (`BagsWait`); the entries are those of the first ones (`FirstAreNamed`), and
    none is made before all bags are read.  `EveryBagHasEntry` follows.  So does
    `OpenFindsSettled`: the naming gave each entry the chain that `BuildChain`
    makes of all certificates, every key has an entry, and of such a store
    `Reconcile` is the identity (`ReconcileFixed`).
  - `OpenReturnsSettledStores` and `OpenKeepsPromises` are about `Open` itself, the
    specification that the run checks: while an opener runs its invariants hold
    (`OpenerRuns`), since `Dispatch` gives it an empty store and an input of its
    format; `Conclude` re-matches what is sound, which names every key and, as
    `Reconcile` is idempotent, leaves nothing to re-match.

### Conversion

- `ConvertProofs`: what is encoded is opened again.  `ConvertSound` follows one
  piece of data through the composition, stage by stage, since what has to be true
  of the store that `Open` returns refers to a store that is gone by then.
  - While a store is edited `References` holds, by `StoreProofs`.
  - `Write` and `Receive` establish `HandsOver`: the call leads, by its format or
    by `Detect`, to a file that fits what was written.  `FitsPem` says that each
    block can be opened with the password and that the blocks have the objects of
    the items.  `FitsJks`: the entries are those of the items in the order of their
    aliases (`SameItems`; `Place` is a bijection as the order is strict and the
    aliases differ, by `EncodeProofs`), each under the password that the caller
    will give.  `FitsPfx`: one of the three readers accepts the container, which
    has to be one that makes the items of it (`ChainIsRead`; `TrustIsRead`: a
    trust store has one safe, where a list of bags has two, and no key), and finds
    the bags in the order of the items.
  - While the opener runs `Restores` holds beside the invariants of `OpenerProofs`:
    it knows the passwords, so no step fails (`JksRestored`, `PemRestored`,
    `PfxRestored`: the entries so far are those of the first items).  Of altered
    data nothing of the kind is claimed: there `JksAccounts` and `Pkcs12Accounts`
    alone show that the digest or the code was wrong and that no key was taken.
  - `Conclude` re-matches the entries, which may change their chains but not the
    certificate at the head of a chain that fits its key (`JksRecovers`,
    `PemRecovers`, `PfxRecovers`).  So `Recovers` holds, and `ConvertKeepsObjects`,
    `ConvertKeepsBindings` and `ConvertNoticesAlteration` follow from it.

### Probes and authorities

- `TlsProbeProofs`: `ProbeInv` says where the loop is (`Progress`), that the
  certificates of a result are those sent, each once (`ResultsAreOfSent`), and
  `OneResultEach`.  `ProbeTrustedIsEarned`: a verdict comes with a route to a
  root, and a shortest route repeats nothing and lies inside of what was sent.
  `ProbeRootsMakeNoDifference`: whoever issues a root has its name and its key, and so
  issues what the root issues too; a route through a root that was sent has a
  shorter one without it.
  `ProbeAddOnlyExtendsTrust` is an action property: `TrustStore.Add` puts the root
  into the first pool and takes nothing out of any, so each chain keeps its pool.
- `AuthorityProofs`: `AuthorityInv` has `EntriesVerify` (from an issuer's chain to
  the longer one: certkit lets no certificate end after its issuer, and the issuer
  is one that may sign and whose key signed), `IssuersSign`, `AnswersAreTrue`
  (what a list or response revokes was revoked by the name and key that signed it)
  and `AnswersAge` (a revocation on which one is silent came after it was made, so
  that it ends soon after that revocation, or says no later `ThisUpdate`, if it has
  no end).  The last is what `RevocationTakesEffect` needs and does not say itself.
  A fetch only observes the authorities, so these invariants hold beside it (the
  lemma `FetchObservesAuthority`); `InquiryInv` adds what is known of the call, and
  `FetchAnswersTakeEffect` and `FetchSizeLimitIsExact` follow, the latter by
  arithmetic on `MaxSize + 1` in the width of its integer.

### Only model-checked

Every invariant and action property that a passing run checks is proved, except
those of `Ber`.  These are left to TLC:

- `Finishes` and `CancellationEndsProbing`: liveness under fairness, which is out
  of the prover's reach, as is `ENABLED`.
- `AcceptsExactlyBer` and `NormalFormIsStable`: the reader of `Ber` is recursive
  over its input, and the prover does no induction over data.

## Not modelled

- ASN.1, the cryptographic primitives, key derivation and RC2 (`internal/pkcs12`,
  the codec of `internal/ocsp`) work on byte strings and hold no state.
- Of `internal/pkcs12` the conversion of strings, the encoders without passwords
  and the deprecated entry points, which certkit does not call.
- The Mozilla roots and their constraints, host names and extended usages in
  `ca.go`, the making and parsing of requests, and reason codes of revocations.
- Summaries of certificates and errors (`x509.go`, `error.go`): presentation and
  constants without state.

## Plan

What is left, in this order:

1. `Ber`: its recursion as recursive functions over positions, for which lengths
   and the least counterexample give an induction.
2. `Convert`: files of other software in JKS, and PKCS12 containers of which one
   safe is altered, which its code does not notice if it has none.
3. `Authority`: the extended usages of responders and the constraints of roots.
