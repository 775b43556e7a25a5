------------------------------ MODULE OpenJks ------------------------------
(***************************************************************************)
(* openJKS (open_jks.go).  A JKS file has a store password, under which    *)
(* its digest verifies, and entries under distinct aliases: a trusted      *)
(* certificate, or a key with its chain under a password of its own.       *)
(*                                                                         *)
(* keystore-go reads the entries of a file even when the digest is wrong.  *)
(***************************************************************************)
EXTENDS Opening

CONSTANTS
  JksFiles,    \* inputs
  JksOptions,  \* options
  Changeit     \* the password that the JDK uses by default

VARIABLE loadErr  \* loadErr is not nil

jksVars == <<file, opts, pos, store, outcome, loadErr>>

JksItem == [alias : Alias, kind : {"trusted", "key", "other"}, chain : Seq(Cert),
            key : Key \cup {NoKey}, password : Password, bad : BOOLEAN]

(* "container" and "answers" are what the callback says to the request for the
   store password and for that of each entry; NoPassword if there is none. *)
IsJksFile(f) ==
  /\ f.format = "jks"
  /\ f.password \in Password /\ f.malformed \in BOOLEAN
  /\ f.items \in Seq(JksItem)
  /\ \A i, j \in DOMAIN f.items : f.items[i].alias = f.items[j].alias => i = j
  /\ \A i \in DOMAIN f.items : f.items[i].kind = "trusted" => Len(f.items[i].chain) = 1

IsJksOptions(o) ==
  /\ o.password \in Password \cup {NoPassword}
  /\ o.keyPasswords \in [Alias -> Password \cup {NoPassword}]
  /\ o.container \in Password \cup {NoPassword, Failed}
  /\ o.answers \in [Alias -> Password \cup {NoPassword, Failed}]
  /\ o.disableDefault \in BOOLEAN

JksInputs ==
  /\ \A f \in JksFiles : IsJksFile(f)
  /\ \A o \in JksOptions : IsJksOptions(o)
  /\ Changeit \in Password

ASSUME JksInputsWellFormed == JksInputs

(* jksStorePasswords: the one password that Load is tried with.  Its error is
   dropped, and Load is tried without a password. *)
StorePassword(o) ==
  IF o.password # NoPassword THEN o.password
  ELSE IF o.container = Failed THEN NoPassword
  ELSE IF o.container # NoPassword \/ o.disableDefault THEN o.container
  ELSE Changeit

Verified == StorePassword(opts) = file.password

(* decryptJKSPrivateKey tries these; p is what KeyPasswords has for the alias. *)
KeyCandidates(o, alias, p) ==
  ({p, o.answers[alias], StorePassword(o)}
     \cup (IF o.disableDefault THEN {} ELSE {Changeit})) \ {NoPassword, Failed}

CurrentItem == file.items[pos]

IsJks == file.format = "jks"

AtItem(kind) ==
  /\ outcome = "reading"
  /\ pos \in DOMAIN file.items
  /\ CurrentItem.kind = kind
-----------------------------------------------------------------------------
JksInit ==
  /\ file \in JksFiles
  /\ opts \in JksOptions
  /\ pos = 0
  /\ EmptyStore
  /\ outcome = "reading"
  /\ loadErr = FALSE

(* Load parses the file and verifies its digest. *)
Load ==
  /\ outcome = "reading" /\ pos = 0
  /\ loadErr' = ~Verified
  /\ pos' = 1
  /\ outcome' = IF file.malformed THEN "refused" ELSE "reading"
  /\ UNCHANGED <<file, opts, store>>

ReadTrusted ==
  /\ AtItem("trusted") /\ ~CurrentItem.bad
  /\ Import(CurrentItem.chain, CurrentItem.alias)
  /\ readEntries' = Append(readEntries, TrustedEntry(CurrentItem.alias, CurrentItem.chain[1]))
  /\ Advance
  /\ UNCHANGED <<readKeys, loadErr>>

(* Faults for the runs to detect stand before the definition they replace. *)

(* The digest is not looked at. *)
UnlockedUnverified(p) ==
  IF CurrentItem.password \in KeyCandidates(opts, CurrentItem.alias, p)
  THEN CurrentItem.key ELSE NoKey

(* A key is tried as long as nothing went wrong before. *)
Unlocked(p) ==
  IF ~loadErr /\ CurrentItem.password \in KeyCandidates(opts, CurrentItem.alias, p)
  THEN CurrentItem.key ELSE NoKey

(* A key that stays locked is not reported. *)
LoadErrForgiving(k) == loadErr

LoadErrAfter(k) == loadErr \/ k = NoKey

(* An entry that stays locked is dropped. *)
EntriesUnlocked(k) ==
  IF k = NoKey THEN readEntries
  ELSE Append(readEntries, KeyEntryOf(CurrentItem.alias, k, CurrentItem.chain))

EntriesAfter(k) ==
  Append(readEntries, KeyEntryOf(CurrentItem.alias, k, CurrentItem.chain))

(* The certificates of a key are taken whether or not it can be unlocked. *)
ReadKeyEntry ==
  /\ AtItem("key") /\ ~CurrentItem.bad
  /\ Import(CurrentItem.chain, CurrentItem.alias)
  /\ \E p \in PasswordsByAlias(opts.keyPasswords, CurrentItem.alias) :
        LET k == Unlocked(p)
        IN  /\ readKeys' = IF k = NoKey THEN readKeys ELSE AppendNew(readKeys, <<k>>)
            /\ readEntries' = EntriesAfter(k)
            /\ loadErr' = LoadErrAfter(k)
  /\ Advance

(* The loop does not move on. *)
SkipOtherForever ==
  /\ AtItem("other")
  /\ UNCHANGED jksVars

(* An entry of another kind, such as a secret key. *)
SkipOther ==
  /\ AtItem("other")
  /\ Advance
  /\ UNCHANGED <<store, loadErr>>

RejectItem ==
  /\ AtItem("trusted") \/ AtItem("key")
  /\ CurrentItem.bad
  /\ Return("refused")
  /\ UNCHANGED loadErr

FinishJks ==
  /\ outcome = "reading" /\ pos = Len(file.items) + 1
  /\ Return(IF loadErr THEN "password" ELSE "ok")
  /\ UNCHANGED loadErr

JksNext ==
  Load \/ ReadTrusted \/ ReadKeyEntry \/ SkipOther \/ RejectItem \/ FinishJks

(* openJKS is a loop on the caller's goroutine that waits for nobody but the
   callback, which is assumed to return. *)
JksSpec == JksInit /\ [][JksNext]_jksVars /\ WF_jksVars(JksNext)
-----------------------------------------------------------------------------
(***************************************************************************)
(* Properties.                                                             *)
(***************************************************************************)

(* The items that give an entry. *)
EntryItem == {i \in DOMAIN file.items : file.items[i].kind # "other"}

(* When openJKS reports success, the digest was verified and every key of the
   file is in the store, under its alias. *)
SuccessIsComplete ==
  IsJks /\ outcome = "ok" =>
    /\ Verified
    /\ \A i \in EntryItem : file.items[i].kind = "key" =>
         \E j \in DOMAIN readEntries : /\ readEntries[j].alias = file.items[i].alias
                                       /\ readEntries[j].key = file.items[i].key
                                       /\ readEntries[j].key # NoKey

(* A wrong password costs no certificate and no alias: whatever openJKS
   returns has an entry for each of the file, in order, with its chain. *)
PasswordsLoseNoEntry ==
  IsJks /\ Returned =>
    LET read == Pick(file.items, EntryItem)
    IN  /\ Len(readEntries) = Len(read)
        /\ \A i \in DOMAIN read : /\ readEntries[i].alias = read[i].alias
                                  /\ readEntries[i].chain = read[i].chain

(* The passwords that a key under this alias may have been unlocked with. *)
Known(alias) ==
  {opts.password, opts.container, opts.answers[alias]}
    \cup {opts.keyPasswords[a] : a \in {b \in Alias : Fold[b] = Fold[alias]}}
    \cup (IF opts.disableDefault THEN {} ELSE {Changeit})

KeysWereUnlocked ==
  /\ readKeys # << >> => Verified
  /\ \A j \in DOMAIN readEntries : readEntries[j].key # NoKey =>
        \E i \in EntryItem : /\ file.items[i].alias = readEntries[j].alias
                             /\ file.items[i].key = readEntries[j].key
                             /\ file.items[i].password \in Known(readEntries[j].alias)

(* No key is taken from a file whose digest does not verify, and none with a
   password that was neither given nor, unless disabled, the default. *)
KeysNeedPasswords == IsJks => KeysWereUnlocked
-----------------------------------------------------------------------------
(* A statement that the code does not keep, the property of a run of its own.
   README.md:93: for a private-key entry KeyPasswords[alias] is used first.
   When openJKS returns, an entry that KeyPasswords has the right password for
   has its key. *)
KeyPasswordsAreTried ==
  IsJks /\ Returned /\ Verified =>
    \A i \in EntryItem, j \in DOMAIN readEntries :
      LET item == file.items[i]
      IN  /\ item.kind = "key" /\ item.key # NoKey
          /\ opts.keyPasswords[item.alias] = item.password
          /\ readEntries[j].alias = item.alias
          => readEntries[j].key # NoKey
=============================================================================
