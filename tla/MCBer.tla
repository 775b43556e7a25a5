------------------------------- MODULE MCBer -------------------------------
(***************************************************************************)
(* Inputs of ToDER for TLC: all short ones over a few bytes, and some that *)
(* are long enough for lengths of more than one byte.                      *)
(***************************************************************************)
EXTENDS Ber

(* End of contents and empty lengths, a boolean tag or length, an octet string
   tag or length, tags of several bytes, a sequence, an indefinite length or a
   tag that goes on, and long lengths of one, two and five bytes. *)
MCBytes == {0, 1, 4, 31, 48, 63, 128, 129, 130, 133}

Zeros(n) == [i \in 1 .. n |-> 0]

MCSamples ==
  {<<4>> \o l \o Zeros(n) :
     l \in {<<127>>, <<128>>, <<129, 127>>, <<129, 128>>, <<129, 130>>, <<130, 1, 0>>,
            <<131, 0, 1, 0>>, <<132, 127, 255, 255, 255>>, <<132, 128, 0, 0, 0>>},
     n \in {127, 128, 130, 256}}
  \cup
  {<<48>> \o l \o <<4, 127>> \o Zeros(127) \o e :
     l \in {<<128>>, <<129, 129>>, <<129, 128>>, <<129, 130>>}, e \in {<< >>, <<0, 0>>, <<0>>}}
  \cup
  {<<48, 128, 48, 128, 48, 128, 48, 128>> \o Zeros(2 * n) : n \in 2 .. 4}
  \cup
  {<<48, 128, 48, 1, 4, 0, 0>>, <<48, 3, 48, 1, 4, 0>>, <<48, 4, 48, 1, 4, 0>>}
=============================================================================
