------------------------------ MODULE Opening ------------------------------
(***************************************************************************)
(* What the openers of the file formats have in common: a loop reads one   *)
(* item of the input after the other and builds a store, which it returns  *)
(* in the end, alone or together with an error, or drops.                  *)
(*                                                                         *)
(* A file is an abstract container: its format, the items that the         *)
(* format's library yields, and the passwords that protect them.  An item  *)
(* is "bad" when the library can not parse its certificates.               *)
(***************************************************************************)
EXTENDS Passwords

VARIABLES
  file,         \* the input
  opts,         \* OpenOptions, and what the PasswordProvider answers
  pos,          \* the item to read next
  readCerts,    \* Store.Certificates
  readKeys,     \* Store.PrivateKeys
  readEntries,  \* Store.Entries
  readOrigin,   \* Source.Alias of each certificate
  outcome       \* see Outcomes

store == <<readCerts, readKeys, readEntries, readOrigin>>

(* The loop runs; the store is returned; it is returned with ErrPassword or
   with another error; only an error is returned. *)
Outcomes == {"reading", "ok", "password", "invalid", "refused"}

Returned == outcome \in {"ok", "password", "invalid"}

(* The store that the opener hands to Open. *)
Result == [certs |-> readCerts, keys |-> readKeys, entries |-> readEntries, origin |-> readOrigin,
           failed |-> outcome # "ok"]

EmptyStore ==
  /\ readCerts = << >>
  /\ readKeys = << >>
  /\ readEntries = << >>
  /\ readOrigin = [c \in Cert |-> Empty]

(* addCertificate of every certificate of ch, each with this source alias. *)
Import(ch, alias) ==
  /\ readCerts' = AppendNew(readCerts, ch)
  /\ readOrigin' = [c \in Cert |-> IF c \in ToSet(ch) \ ToSet(readCerts) THEN alias
                                   ELSE readOrigin[c]]

(* A fault for the runs to detect: the status does not look at the key. *)
KeyEntryAvailable(alias, k, chain) ==
  [alias |-> alias, key |-> k, status |-> "available", chain |-> chain, trusted |-> FALSE]

KeyEntryOf(alias, k, chain) ==
  [alias |-> alias, key |-> k,
   status |-> IF k = NoKey THEN "unavailable" ELSE "available",
   chain |-> chain, trusted |-> FALSE]

TrustedEntry(alias, c) ==
  [alias |-> alias, key |-> NoKey, status |-> "none", chain |-> <<c>>, trusted |-> TRUE]

(* The loop goes on with the next item. *)
Advance == pos' = pos + 1 /\ UNCHANGED <<file, opts, outcome>>

(* The opener returns; what is left in the store is what it returns. *)
Return(result) ==
  /\ outcome' = result
  /\ UNCHANGED <<file, opts, pos, store>>
-----------------------------------------------------------------------------
(* Every opener hands Open a store without duplicates whose entries refer to
   its own objects, and whose keys are "available" exactly when there: what
   the model of the store assumes of the files it merges. *)
OpensSoundly == Returned => IsOpened(Result)
=============================================================================
