-------------------------------- MODULE Open --------------------------------
(***************************************************************************)
(* Open (open.go): the limits, the choice of the format (detect.go), the   *)
(* opener of that format, and the re-matching of what it returns.          *)
(*                                                                         *)
(* Data are bytes with a meaning: a container in one of the formats, or    *)
(* PEM text, of which Detect and the openers of binary formats look at the *)
(* first block only.                                                       *)
(***************************************************************************)
EXTENDS OpenJks, OpenPem, OpenPkcs12

CONSTANTS
  Calls,         \* the calls of Open
  DefaultLimits, \* what a limit that is not positive stands for
  Unreadable     \* what each opener makes of bytes in another format

VARIABLES
  call,    \* the call of Open
  stage,   \* where Open is: see Stages
  opened   \* the store that Open returns

Stages == {"called", "opening", "store", "error"}

callVars == <<call, stage, opened>>

openVars == <<file, opts, pos, store, outcome, loadErr, named, certAlias, callVars>>

Limits == {"size", "certs", "keys"}

(* label: the format that the label of the first PEM block names, if there is one.
   kind:  what the bytes are, or those of that block: "ber" is a PKCS7 in BER.
   file:  the container that they are.   blocks: all blocks of the PEM text.
   space: white space stands before the data, or their own last byte is one
          that counts as white space ("last"). *)
Data == [size : Nat, space : {"none", "before", "last"},
         label : {"none", "pem", "pkcs7", "pkcs12"},
         kind : {"jks", "jceks", "bks", "pkcs12", "pkcs7", "ber", "der", "junk"},
         file : JksFiles \cup PemFiles \cup Pkcs12Files, blocks : Seq(Block)]

(* normalizeOpenOptions *)
Normalized(limits) ==
  [l \in Limits |-> IF limits[l] <= 0 THEN DefaultLimits[l] ELSE limits[l]]

(* One certificate, or a key that is not encrypted. *)
IsPlainDer(block) ==
  \/ block.kind = "certs" /\ ~block.bad /\ Len(block.chain) = 1
  \/ block.kind = "key" /\ block.key # NoKey /\ block.pkcs8 = NoPassword

(* Detect.  It trims white space first, a last byte that is none included: only
   the formats that are known by their first bytes survive that. *)
Detect(d) ==
  IF d.label # "none" THEN d.label
  ELSE IF d.kind \in {"jks", "jceks", "bks"} THEN d.kind
  ELSE IF d.space = "last" THEN "unknown"
  ELSE CASE d.kind = "pkcs12" -> "pkcs12"
         [] d.kind \in {"pkcs7", "ber"} -> "pkcs7"
         [] d.kind = "der" /\ IsPlainDer(d.file.blocks[1]) -> "der"
         [] OTHER -> "unknown"

Format(c) == IF c.format = "auto" THEN Detect(c.data) ELSE c.format

(* The kinds of bytes that the opener of a format reads. *)
KindsOf(format) == IF format = "pkcs7" THEN {"pkcs7", "ber"} ELSE {format}

(* unwrapPEM: the openers of PKCS7 and PKCS12 get the bytes of the first block
   of a PEM text; those of DER and JKS get the text.  Nothing is trimmed. *)
Reads(format, d) ==
  /\ d.kind \in KindsOf(format)
  /\ IF d.label = "none" THEN d.space # "before" ELSE format \in {"pkcs7", "pkcs12"}

(* What the opener of the format finds in the data. *)
View(format, d) ==
  IF format = "pem" THEN [format |-> "pem", blocks |-> d.blocks]
  ELSE IF Reads(format, d) THEN d.file
  ELSE Unreadable[format]

Supported == {"pem", "der", "pkcs7", "pkcs12", "jks"}

OpenInputs ==
  /\ \A c \in Calls :
        /\ c.data \in Data
        /\ c.format \in Supported \cup {"auto", "jceks", "bks", "other"}
        /\ DOMAIN c.limits = Limits /\ \A l \in Limits : c.limits[l] \in Int
        /\ c.data.label = "none" <=> c.data.blocks = << >>
        /\ \A f \in Supported :
              LET v == View(f, c.data)
              IN  /\ v.format = f
                  /\ CASE f = "jks" -> IsJksFile(v)
                       [] f = "pkcs12" -> IsPkcs12File(v)
                       [] OTHER -> IsPemFile(v)
  /\ DefaultLimits \in [Limits -> Nat \ {0}]
  /\ Unreadable.jks.malformed
  /\ Unreadable.pkcs12.form = "broken"
  /\ \A f \in {"der", "pkcs7"} : Unreadable[f].blocks[1].kind = "other"

ASSUME OpenInputsWellFormed == OpenInputs
-----------------------------------------------------------------------------
NoStore == [certs |-> << >>, keys |-> << >>, entries |-> << >>,
            origin |-> [c \in Cert |-> Empty], failed |-> FALSE]

(* Nothing is read yet. *)
Idle ==
  /\ opened = NoStore
  /\ file = [format |-> "none"] /\ opts = << >> /\ pos = 0
  /\ EmptyStore
  /\ outcome = "reading"
  /\ loadErr = FALSE
  /\ named = << >>
  /\ certAlias = [c \in Cert |-> Empty]

OpenInit == call \in Calls /\ stage = "called" /\ Idle

IsTooLarge(c) == c.data.size > Normalized(c.limits).size

(* No data, too many, or a format that is unknown or only recognised. *)
IsRefused(c) == c.data.size = 0 \/ IsTooLarge(c) \/ Format(c) \notin Supported

RefuseInput ==
  /\ stage = "called" /\ IsRefused(call)
  /\ stage' = "error"
  /\ UNCHANGED <<file, opts, pos, store, outcome, loadErr, named, certAlias, call, opened>>

(* The opener of one of these formats is called, with the caller's passwords. *)
Dispatch(formats, options, first) ==
  /\ stage = "called"
  /\ call.data.size > 0 /\ ~IsTooLarge(call) /\ Format(call) \in formats
  /\ stage' = "opening"
  /\ file' = View(Format(call), call.data)
  /\ opts' \in options
  /\ pos' = first
  /\ UNCHANGED <<store, outcome, loadErr, named, certAlias, call, opened>>

RunJks ==
  /\ stage = "opening" /\ IsJks
  /\ JksNext
  /\ UNCHANGED <<named, certAlias, callVars>>

RunPem ==
  /\ stage = "opening" /\ IsPem
  /\ PemNext
  /\ UNCHANGED <<loadErr, named, certAlias, callVars>>

RunPkcs12 ==
  /\ stage = "opening" /\ IsPkcs12
  /\ Pkcs12Next
  /\ UNCHANGED <<loadErr, callVars>>

(* Faults for the runs to detect stand before the definition they replace. *)

(* The limits are not looked at when the opener reports an error. *)
PassesUnlessFailed(f, limits) ==
  \/ f.failed
  \/ Len(f.certs) <= limits.certs /\ Len(f.keys) <= limits.keys

(* validateStoreLimits *)
Passes(f, limits) == Len(f.certs) <= limits.certs /\ Len(f.keys) <= limits.keys

(* The opener has returned: a store is re-matched and counted, whether or not
   there is an error with it. *)
Conclude ==
  /\ stage = "opening" /\ outcome # "reading"
  /\ IF Returned /\ Passes(Result, Normalized(call.limits))
     THEN stage' = "store" /\ opened' = Opened(Result)
     ELSE stage' = "error" /\ UNCHANGED opened
  /\ UNCHANGED <<file, opts, pos, store, outcome, loadErr, named, certAlias, call>>

OpenNext ==
  \/ RefuseInput
  \/ Dispatch({"jks"}, JksOptions, 0)
  \/ Dispatch({"pem", "der", "pkcs7"}, PemOptions, 1)
  \/ Dispatch({"pkcs12"}, Pkcs12Options, 0)
  \/ RunJks \/ RunPem \/ RunPkcs12
  \/ Conclude

(* Open runs on the caller's goroutine and waits for nobody but the callback
   for passwords, which is assumed to return. *)
OpenSpec == OpenInit /\ [][OpenNext]_openVars /\ WF_openVars(OpenNext)
-----------------------------------------------------------------------------
(***************************************************************************)
(* Properties.                                                             *)
(***************************************************************************)

(* Whatever the data, the passwords and the answers of the callback, Open
   returns: each opener moves on at every item, and so does its caller. *)
Finishes == <>(stage \in {"store", "error"})

(* A store that Open returns, also one that comes with an error, keeps to the
   caller's limits, has an entry for every key, and is re-matched: the next
   call that re-matches it finds nothing to do. *)
OpenReturnsSettled ==
  stage = "store" =>
    LET limits == Normalized(call.limits)
        f == opened
    IN  /\ IsOpened(f)
        /\ Len(f.certs) <= limits.certs /\ Len(f.keys) <= limits.keys
        /\ ToSet(f.keys) \subseteq {f.entries[i].key : i \in DOMAIN f.entries}
        /\ Reconcile(f.entries, f.certs, f.keys) = f.entries
-----------------------------------------------------------------------------
(* A statement that the code does not keep, the property of a run of its own.
   doc.go:4: Open recognises PEM, DER, PKCS7, PKCS12 and JKS by their content.
   Data that Open accepts when the caller names the format as DER, and without
   that when another byte comes last, are accepted without the name too. *)
DerIsDetected ==
  call.format = "auto" /\ Reads("der", call.data) /\ IsPlainDer(call.data.file.blocks[1])
  /\ call.data.size > 0 /\ ~IsTooLarge(call) /\ Normalized(call.limits) = DefaultLimits
    => stage # "error"
=============================================================================
