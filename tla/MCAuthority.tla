---------------------------- MODULE MCAuthority ----------------------------
(***************************************************************************)
(* A CA that uses one key under two names, its customers, and a relying     *)
(* party who asks once over the network.                                   *)
(***************************************************************************)
EXTENDS Fetch

Root(subject, serial) ==
  [serial |-> serial, subject |-> subject, issuer |-> subject, key |-> "kCA",
   signer |-> "kCA", notBefore |-> 0, notAfter |-> 4, isCA |-> TRUE,
   usages |-> {"certSign", "crlSign"}, maxPathLen |-> NoPathLen, ocspSigning |-> FALSE]

MCExisting == {[chain |-> <<Root("A", 1)>>, key |-> "kCA"],
               [chain |-> <<Root("B", 2)>>, key |-> "kCA"]}

Default == [notBefore |-> NoTime, notAfter |-> NoTime, validFor |-> 0, subject |-> "S",
            parsed |-> FALSE, isCA |-> FALSE, usages |-> {}, ocspSigning |-> FALSE,
            serial |-> NoSerial, maxPathLen |-> 0, maxPathLenZero |-> FALSE]

MCRootOptions ==
  {[subject |-> "A", notBefore |-> NoTime, notAfter |-> NoTime, validFor |-> 2,
    maxPathLen |-> 0, maxPathLenZero |-> TRUE]}

(* A leaf with a serial number that the caller chose, a CA that may not sign
   lists, and a responder whose certificate begins late. *)
MCCertOptions ==
  {[Default EXCEPT !.serial = 9],
   [Default EXCEPT !.isCA = TRUE, !.usages = {"certSign"}, !.subject = "B", !.parsed = TRUE],
   [Default EXCEPT !.ocspSigning = TRUE, !.notBefore = 2, !.validFor = 1]}

MCListOptions ==
  {[thisUpdate |-> NoTime, nextUpdate |-> NoTime, validFor |-> 0],
   [thisUpdate |-> 1, nextUpdate |-> 2, validFor |-> 0]}

(* The default limit, a smaller one, and the largest. *)
MCFetchOptions ==
  {[maxSize |-> 0, currentTime |-> NoTime, skew |-> 0],
   [maxSize |-> 1, currentTime |-> 2, skew |-> 1],
   [maxSize |-> Largest, currentTime |-> NoTime, skew |-> 0]}
=============================================================================
