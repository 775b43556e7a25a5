------------------------------ MODULE MCClaims ------------------------------
(* The constants of MCEncode for the statements of Claims. *)
EXTENDS Claims, MCEncode

(* Two PEM files, one with a certificate and one with its key. *)
SplitFiles == {ChainFile(<<"leaf">>), KeyFile}
=============================================================================
