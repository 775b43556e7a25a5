------------------------------ MODULE OpenPem ------------------------------
(***************************************************************************)
(* openPEM, openDER and openPKCS7 (open_pem.go, open_der.go,               *)
(* open_pkcs7.go).  A PEM file is a sequence of blocks: certificates, a    *)
(* PKCS7 container, a private key, or something else.  A DER or PKCS7 file *)
(* is one such block.                                                      *)
(*                                                                         *)
(* The DER of a private key may be an encrypted PKCS8, with the password   *)
(* "pkcs8", whatever the label of the block says; the block itself may be  *)
(* encrypted as in RFC 1423, with the password "dek".                      *)
(***************************************************************************)
EXTENDS Opening

CONSTANTS
  PemFiles,   \* inputs
  PemOptions  \* options

pemVars == <<file, opts, pos, store, outcome>>

Block == [kind : {"certs", "pkcs7", "key", "other"}, bad : BOOLEAN, chain : Seq(Cert),
          key : Key \cup {NoKey}, dek : Password \cup {NoPassword},
          pkcs8 : Password \cup {NoPassword},
          labelled : BOOLEAN]  \* the label is "ENCRYPTED PRIVATE KEY"

(* "answers" is what the callback may say; it is called for each key.  A
   caller without a callback has {NoPassword}. *)
IsPemFile(f) ==
  /\ f.format \in {"pem", "der", "pkcs7"}
  /\ f.blocks \in Seq(Block)
  /\ f.format # "pem" => Len(f.blocks) = 1 /\ f.blocks[1].dek = NoPassword

IsPemOptions(o) ==
  /\ o.password \in Password \cup {NoPassword}
  /\ o.answers \in (SUBSET (Password \cup {NoPassword, Failed})) \ {{}}

PemInputs ==
  /\ \A f \in PemFiles : IsPemFile(f)
  /\ \A o \in PemOptions : IsPemOptions(o)

ASSUME PemInputsWellFormed == PemInputs

(* What passwordFor may return for the next key. *)
Answers == PasswordsFor(opts.password, opts.answers)

IsError(p) == p \in {NoPassword, Failed}

(* The error that passwordFor returns. *)
PasswordError(p) == IF p = NoPassword THEN "password" ELSE "invalid"

(* parsePrivateKey, with a password or nil: the key, or NoKey. *)
Parsed(block, p) == IF block.pkcs8 \in {NoPassword, p} THEN block.key ELSE NoKey

(* DecryptPEMBlock: with a wrong password it fails as a rule, but may also
   return garbage, which is no key. *)
Decryptions(block, p) ==
  IF block.dek = p THEN {"key"} ELSE {"error", "garbage"}

CurrentBlock == file.blocks[pos]

(* The opener of file is one of this module. *)
IsPem == file.format \in {"pem", "der", "pkcs7"}

AtBlock(kind) ==
  /\ outcome = "reading" /\ file.format = "pem"
  /\ pos \in DOMAIN file.blocks
  /\ CurrentBlock.kind = kind
-----------------------------------------------------------------------------
PemInit ==
  /\ file \in PemFiles
  /\ opts \in PemOptions
  /\ pos = 1
  /\ EmptyStore
  /\ outcome = "reading"

(* Faults for the runs to detect stand before the definition they replace. *)

(* The certificates of the store so far are dropped. *)
ImportInstead(ch) ==
  /\ readCerts' = AppendNew(<< >>, ch)
  /\ readOrigin' = readOrigin

ImportBlock(ch) == Import(ch, Empty)

ReadCertificates ==
  /\ AtBlock("certs") /\ ~CurrentBlock.bad
  /\ ImportBlock(CurrentBlock.chain)
  /\ Advance
  /\ UNCHANGED <<readKeys, readEntries>>

(* openPKCS7 makes a store of its own, which mergeStoreObjects adds. *)
ReadPkcs7 ==
  /\ AtBlock("pkcs7") /\ ~CurrentBlock.bad
  /\ CurrentBlock.chain # << >>
  /\ ImportBlock(AppendNew(<< >>, CurrentBlock.chain))
  /\ Advance
  /\ UNCHANGED <<readKeys, readEntries>>

(* The store as it is, and an error. *)
FailKey(result) == Return(result)

(* The key is taken as a key, or not at all. *)
TakeKeyOr(result, key) ==
  IF key = NoKey THEN FailKey(result)
  ELSE /\ readKeys' = AppendNew(readKeys, <<key>>)
       /\ Advance
       /\ UNCHANGED <<readCerts, readEntries, readOrigin>>

(* What openPEM reports when it has no key in the end. *)
KeyFailure(block) == IF block.labelled THEN "password" ELSE "invalid"

(* A block that is not encrypted as in RFC 1423.  A missing password is an
   error only if the label asks for one. *)
ReadKey ==
  /\ AtBlock("key") /\ CurrentBlock.dek = NoPassword
  /\ \E p \in Answers :
        IF CurrentBlock.labelled /\ IsError(p) THEN FailKey(PasswordError(p))
        ELSE TakeKeyOr(KeyFailure(CurrentBlock), Parsed(CurrentBlock, p))

ReadEncryptedKey ==
  /\ AtBlock("key") /\ CurrentBlock.dek # NoPassword
  /\ \E p \in Answers :
        IF IsError(p) THEN FailKey(PasswordError(p))
        ELSE \E d \in Decryptions(CurrentBlock, p) :
               IF d = "error" THEN FailKey("password")
               ELSE TakeKeyOr(KeyFailure(CurrentBlock),
                              IF d = "key" THEN Parsed(CurrentBlock, p) ELSE NoKey)

(* The loop does not move on. *)
IgnoreBlockForever ==
  /\ AtBlock("other")
  /\ UNCHANGED pemVars

IgnoreBlock ==
  /\ AtBlock("other")
  /\ Advance
  /\ UNCHANGED store

RejectBlock ==
  /\ \/ AtBlock("certs") /\ CurrentBlock.bad
     \/ AtBlock("pkcs7") /\ (CurrentBlock.bad \/ CurrentBlock.chain = << >>)
  /\ Return("refused")

FinishPem ==
  /\ outcome = "reading" /\ file.format = "pem"
  /\ pos = Len(file.blocks) + 1
  /\ Return(IF readCerts = << >> /\ readKeys = << >> THEN "refused" ELSE "ok")

(* openDER: certificates, or else a key in whatever form parsePrivateKey
   knows; the error of passwordFor is dropped. *)
OpenDer ==
  /\ outcome = "reading" /\ file.format = "der"
  /\ \E p \in Answers :
        LET block == CurrentBlock
            isCerts == block.kind = "certs" /\ ~block.bad
            key == IF block.kind = "key" THEN Parsed(block, p) ELSE NoKey
        IN  /\ IF isCerts THEN ImportBlock(block.chain) ELSE UNCHANGED <<readCerts, readOrigin>>
            /\ readKeys' = IF isCerts \/ key = NoKey THEN readKeys ELSE AppendNew(readKeys, <<key>>)
            /\ outcome' = IF isCerts \/ key # NoKey THEN "ok" ELSE "refused"
  /\ UNCHANGED <<file, opts, pos, readEntries>>

OpenPkcs7File ==
  /\ outcome = "reading" /\ file.format = "pkcs7"
  /\ IF CurrentBlock.kind = "pkcs7" /\ ~CurrentBlock.bad /\ CurrentBlock.chain # << >>
     THEN ImportBlock(CurrentBlock.chain) /\ outcome' = "ok"
     ELSE UNCHANGED <<readCerts, readOrigin>> /\ outcome' = "refused"
  /\ UNCHANGED <<file, opts, pos, readKeys, readEntries>>

PemNext ==
  \/ ReadCertificates \/ ReadPkcs7 \/ ReadKey \/ ReadEncryptedKey
  \/ IgnoreBlock \/ RejectBlock \/ FinishPem
  \/ OpenDer \/ OpenPkcs7File

(* The openers are loops on the caller's goroutine that wait for nobody but
   the callback, which is assumed to return. *)
PemSpec == PemInit /\ [][PemNext]_pemVars /\ WF_pemVars(PemNext)
-----------------------------------------------------------------------------
(***************************************************************************)
(* Properties.                                                             *)
(***************************************************************************)

(* The blocks that have been taken. *)
Taken ==
  IF file.format = "pem" THEN {i \in DOMAIN file.blocks : i < pos}
  ELSE IF outcome = "ok" THEN DOMAIN file.blocks ELSE {}

TakenOf(kinds) == {i \in Taken : file.blocks[i].kind \in kinds}

(* The store holds the objects of the blocks that have been taken. *)
HoldsTaken ==
  /\ ToSet(readCerts) = UNION {ToSet(file.blocks[i].chain) : i \in TakenOf({"certs", "pkcs7"})}
  /\ ToSet(readKeys) = {file.blocks[i].key : i \in TakenOf({"key"})}
  /\ outcome = "ok" => Taken = DOMAIN file.blocks

(* The store that is returned, with an error or without, holds the objects of
   the blocks before the one that stopped openPEM: all of them and no other. *)
ReturnsWhatWasRead == IsPem /\ Returned => HoldsTaken

EncryptionsWereUndone ==
  \A i \in TakenOf({"key"}) :
    {file.blocks[i].dek, file.blocks[i].pkcs8} \ {NoPassword}
      \subseteq IF opts.password # NoPassword THEN {opts.password} ELSE opts.answers

(* Each encryption of a key that is in the store was undone with a password
   that the caller gave: the one of the options, which replaces the callback,
   or an answer of the callback. *)
EncryptionNeedsPassword == IsPem /\ Returned => EncryptionsWereUndone
=============================================================================
