-------------------------------- MODULE Fetch --------------------------------
(***************************************************************************)
(* FetchAndCheckCRL (crl.go) and FetchAndCheckOCSP (ocsp.go): a relying    *)
(* party asks the first address in a certificate over HTTP.  What comes    *)
(* back is any list or response that exists by then, new or cached, or     *)
(* something else; meanwhile time passes, and more may be revoked.         *)
(*                                                                         *)
(* A certificate without an address is refused before anything is asked.   *)
(***************************************************************************)
EXTENDS Authority

CONSTANTS
  FetchOptions,   \* CRLOptions and OCSPOptions
  BodySizes,      \* sizes of the bodies of HTTP responses
  DefaultMaxSize, \* what a MaxSize that is not positive stands for
  Largest,        \* the largest int64
  MaxKnown        \* bound: who asks does so when no more entries are issued

VARIABLE
  inquiry  \* the call and what came of it: see Unasked and Ask

fetchVars == <<authorityVars, inquiry>>

ASSUME FetchInputs ==
  /\ Largest \in Nat /\ DefaultMaxSize \in 1 .. (Largest - 1)
  /\ BodySizes \subseteq Nat
  /\ \A o \in FetchOptions :
        /\ o.maxSize \in Int /\ o.maxSize <= Largest
        /\ o.currentTime \in Time \cup {NoTime} /\ o.skew \in Skew

Unasked == [stage |-> "unasked"]

(* A body that is neither a list nor a response. *)
Junk == [junk |-> TRUE]

FetchInit == AuthorityInit /\ inquiry = Unasked

(* A fault for the runs to detect: the time is taken before the request. *)
AskInTime(kind, c, p, o) ==
  /\ inquiry = Unasked
  /\ inquiry' = [stage |-> "waiting", kind |-> kind, cert |-> c, issuer |-> p, options |-> o,
                 time |-> IF o.currentTime = NoTime THEN now ELSE o.currentTime,
                 size |-> 0, data |-> Junk, result |-> {}]
  /\ UNCHANGED authorityVars

(* Somebody asks about c and its issuer p. *)
Ask(kind, c, p, o) ==
  /\ inquiry = Unasked
  /\ inquiry' = [stage |-> "waiting", kind |-> kind, cert |-> c, issuer |-> p, options |-> o,
                 time |-> o.currentTime, size |-> 0, data |-> Junk, result |-> {}]
  /\ UNCHANGED authorityVars

(* The request, or reading its response, fails or takes too long, the context
   is cancelled, or the status is not that of a success. *)
Lose ==
  /\ inquiry.stage = "waiting"
  /\ inquiry' = [inquiry EXCEPT !.stage = "lost"]
  /\ UNCHANGED authorityVars

Limit(o) == IF o.maxSize <= 0 THEN DefaultMaxSize ELSE o.maxSize

(* The sum of two int64. *)
Sum(m, n) == IF m + n > Largest THEN m + n - 2 * (Largest + 1) ELSE m + n

(* io.ReadAll of a LimitReader *)
BytesRead(size, limit) == CHOOSE n \in {0, size, limit} :
  IF limit <= 0 THEN n = 0 ELSE n <= size /\ n <= limit /\ n \in {size, limit}

(* A fault for the runs to detect: a body of the largest size is too large. *)
TooLargeAtLimit(read, o) == read >= Limit(o)

TooLarge(read, o) == read > Limit(o)

(* The time for which the answer is checked: it is taken after the body was
   read, unless the caller has chosen one. *)
CheckTime == IF inquiry.time = NoTime THEN now ELSE inquiry.time

(* What CheckCRL or CheckOCSP makes of the whole data, if anything. *)
Checked(data, t) ==
  LET o == inquiry.options
  IN  CASE inquiry.kind = "crl" /\ data \in lists ->
             CheckCRL(inquiry.cert, inquiry.issuer, data, o.skew, t)
        [] inquiry.kind = "ocsp" /\ data \in responses ->
             CheckOCSP(inquiry.cert, inquiry.issuer, data, o.skew, t)
        [] OTHER -> {}

(* A response arrives. *)
Deliver(size, data) ==
  LET o    == inquiry.options
      read == BytesRead(size, Sum(Limit(o), 1))
  IN  /\ inquiry.stage = "waiting"
      /\ inquiry' = [inquiry EXCEPT !.stage = "returned", !.size = size, !.data = data,
                       !.result = IF TooLarge(read, o) \/ read < size THEN {}
                                  ELSE Checked(data, CheckTime)]
      /\ UNCHANGED authorityVars

(* Those who ask know the CA that has issued the certificate. *)
Asking ==
  \E e \in issued, o \in FetchOptions, kind \in {"crl", "ocsp"} :
    Cardinality(issued) <= MaxKnown /\ Len(e.chain) > 1 /\ Ask(kind, e.chain[1], e.chain[2], o)

(* Who waits does not see what the CAs issue meanwhile, and nothing after the
   call returns matters. *)
FetchNext ==
  \/ inquiry = Unasked /\ AuthorityNext /\ UNCHANGED inquiry
  \/ inquiry.stage = "waiting" /\ AuthorityNext /\ issued' = issued /\ UNCHANGED inquiry
  \/ Asking
  \/ Lose
  \/ \E size \in BodySizes, data \in lists \cup responses \cup {Junk} : Deliver(size, data)

FetchSpec == FetchInit /\ [][FetchNext]_fetchVars
-----------------------------------------------------------------------------
(* However long the response was under way, and whatever was revoked in the
   meantime, an answer that is reported as fresh and good is no older, when it
   is reported, than RevocationTakesEffect allows; for ever only if it shows
   that it does not say when it ends. *)
FetchedAnswersTakeEffect ==
  inquiry.stage = "returned" /\ inquiry.options.currentTime = NoTime =>
    \A r \in {s \in revoked : s.cert = inquiry.cert}, a \in inquiry.result :
      a.fresh /\ a.status = "good" => Excusable(a, r.at, inquiry.options.skew)

(* A response of exactly MaxSize bytes is read, one of a byte more is not: what
   the size decides is not changed by the detour over a limited reader.  (For
   the largest MaxSize the limit overflows, and everything is refused.) *)
SizeLimitIsExact ==
  inquiry.stage = "returned" /\ inquiry.options.maxSize < Largest =>
    LET t == IF inquiry.options.currentTime = NoTime THEN now ELSE inquiry.options.currentTime
    IN  inquiry.result = IF inquiry.size <= Limit(inquiry.options)
                         THEN Checked(inquiry.data, t) ELSE {}
=============================================================================
