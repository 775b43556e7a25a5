----------------------------- MODULE Passwords -----------------------------
(***************************************************************************)
(* How certkit finds a password (password.go).                             *)
(***************************************************************************)
EXTENDS Objects

CONSTANTS
  Password,    \* the passwords in play
  NoPassword,  \* a nil []byte, or no entry in a map of passwords
  Failed       \* the PasswordProvider callback returns an error

ASSUME PasswordSentinels == NoPassword \notin Password /\ Failed \notin Password

(* passwordByAlias: the exact spelling first, then any spelling up to case.
   Go ranges over the map in random order, so there may be several results. *)
PasswordsByAlias(passwords, alias) ==
  LET similar == {a \in Alias : Fold[a] = Fold[alias] /\ passwords[a] # NoPassword}
  IN  IF passwords[alias] # NoPassword \/ similar = {} THEN {passwords[alias]}
      ELSE {passwords[a] : a \in similar}

(* A fault for the runs to detect: the callback is asked first. *)
PasswordsForCallback(password, answers) ==
  IF answers # {NoPassword} THEN answers ELSE {password}

(* passwordFor: the password of the options, or else what the callback may
   answer; NoPassword and Failed stand for the two errors. *)
PasswordsFor(password, answers) ==
  IF password # NoPassword THEN {password} ELSE answers
=============================================================================
