----------------------------- MODULE MCOpenPem -----------------------------
(***************************************************************************)
(* PEM files of up to MaxBlocks blocks for TLC, and DER and PKCS7 files.   *)
(***************************************************************************)
EXTENDS OpenPem, MCOpening

CONSTANT MaxBlocks

Other == [kind |-> "other", bad |-> FALSE, chain |-> << >>, key |-> NoKey,
          dek |-> NoPassword, pkcs8 |-> NoPassword, labelled |-> FALSE]

Certs(ch) == [Other EXCEPT !.kind = "certs", !.chain = ch]
Pkcs7(ch) == [Other EXCEPT !.kind = "pkcs7", !.chain = ch]
KeyBlock(k) == [Other EXCEPT !.kind = "key", !.key = k]

(* A key may be plain, unparsable, encrypted with and without the label that
   says so, or encrypted twice. *)
MCBlocks ==
  {Other, Certs(<<"leaf">>), [Certs(<< >>) EXCEPT !.bad = TRUE],
   Pkcs7(<<"root", "leaf", "root">>), Pkcs7(<< >>),
   KeyBlock("kLeaf"), KeyBlock(NoKey),
   [KeyBlock("kRoot") EXCEPT !.pkcs8 = "a", !.labelled = TRUE],
   [KeyBlock("kLeaf") EXCEPT !.pkcs8 = "b"],
   [KeyBlock("kLeaf") EXCEPT !.dek = "a"],
   [KeyBlock("kOther") EXCEPT !.dek = "a", !.pkcs8 = "a", !.labelled = TRUE]}

MCPemFiles ==
  {[format |-> "pem", blocks |-> s] : s \in UNION {[1..n -> MCBlocks] : n \in 0..MaxBlocks}}
  \cup {[format |-> f, blocks |-> <<b>>] :
          f \in {"der", "pkcs7"}, b \in {c \in MCBlocks : c.dek = NoPassword}}

MCPemOptions ==
  [password : {NoPassword, "a"},
   answers : {{NoPassword}, {"a", "b"}, {NoPassword, "b"}, {Failed}}]
=============================================================================
