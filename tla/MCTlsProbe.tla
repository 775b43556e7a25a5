----------------------------- MODULE MCTlsProbe -----------------------------
(***************************************************************************)
(* A server with a signing and an encryption certificate, an intermediate  *)
(* CA with a current and an expired certificate, and a root.               *)
(***************************************************************************)
EXTENDS TlsProbe

ProbeCert == {"leaf", "enc", "inter", "stale", "root"}

Fields(subject, issuer, isCA, pub, signer) ==
  [subject |-> subject, issuer |-> issuer, isCA |-> isCA, certSign |-> isCA,
   pub |-> pub, signer |-> signer, ski |-> NoId, aki |-> NoId]

ProbeInfo ==
  [leaf  |-> Fields("Server", "Inter", FALSE, "kLeaf", "kInter"),
   enc   |-> Fields("Server", "Inter", FALSE, "kEnc", "kInter"),
   inter |-> Fields("Inter", "Root", TRUE, "kInter", "kRoot"),
   stale |-> Fields("Inter", "Root", TRUE, "kInter", "kRoot"),
   root  |-> Fields("Root", "Root", TRUE, "kRoot", "kRoot")]

(* The encryption certificate has one name less. *)
ProbeMatching == [site |-> {"leaf", "enc"}, alias |-> {"leaf"}, other |-> {}]

Sent(certs) == [certs |-> certs, bad |-> FALSE, staple |-> FALSE]

MCServed ==
  {[Sent(<<"leaf", "stale", "root">>) EXCEPT !.staple = TRUE],
   Sent(<<"leaf", "enc", "inter", "root">>), Sent(<<"leaf", "leaf", "inter">>),
   [Sent(<<"leaf">>) EXCEPT !.staple = TRUE], [Sent(<<"leaf">>) EXCEPT !.bad = TRUE]}

MCTrust == {NoRoots, << >>, <<{}, {"inter"}>>}

Request(host, serverName, versions) ==
  [wellFormed |-> TRUE, host |-> host, serverName |-> serverName, versions |-> versions]

MCRequests ==
  {Request("site", "other", <<"TLS12", "TLCP11">>),
   Request("site", "alias", <<"TLCP11", "TLS13", "TLCP11">>),
   Request("site", Empty, <<"TLS12", "unsupported", "TLS13">>),
   [Request("site", Empty, << >>) EXCEPT !.wellFormed = FALSE],
   Request("site", Empty, << >>)}
=============================================================================
