------------------------------- MODULE MCOpen -------------------------------
(***************************************************************************)
(* Calls of Open for TLC: the files of each opener, and data that its      *)
(* format, its size, white space or its PEM labels make special.           *)
(***************************************************************************)
EXTENDS Open, MCOpenJks, MCOpenPem, MCOpenPkcs12

MCUnreadable ==
  [jks    |-> [format |-> "jks", password |-> "store", malformed |-> TRUE, items |-> << >>],
   der    |-> [format |-> "der", blocks |-> <<Other>>],
   pkcs7  |-> [format |-> "pkcs7", blocks |-> <<Other>>],
   pkcs12 |-> [Container EXCEPT !.form = "broken"]]

MCDefaultLimits == [size |-> 2, certs |-> 2, keys |-> 3]

(* A limit of zero, or below, is the default. *)
NoLimits == [size |-> 0, certs |-> -1, keys |-> 0]

Binary(kind, f) ==
  [size |-> 1, space |-> "none", label |-> "none", kind |-> kind, file |-> f,
   blocks |-> << >>]

(* The label and the content of a PEM text as its first block has them. *)
KindOf(b) ==
  IF b.dek # NoPassword THEN "junk"
  ELSE CASE b.kind \in {"certs", "key"} -> "der" [] b.kind = "pkcs7" -> "pkcs7" [] OTHER -> "junk"

Text(s) ==
  LET b == s[1]
  IN  [size |-> 1, space |-> "none", label |-> IF b.kind = "pkcs7" THEN "pkcs7" ELSE "pem",
       kind |-> KindOf(b), blocks |-> s,
       file |-> IF KindOf(b) \in {"der", "pkcs7"}
                THEN [format |-> KindOf(b), blocks |-> <<b>>] ELSE MCUnreadable.der]

Call(d, format, limits) == [data |-> d, format |-> format, limits |-> limits]

(* Any file, with its format given: data that Detect would not recognise too. *)
OfFormat(f) ==
  CASE f.format = "jks" -> Call(Binary("jks", f), "jks", NoLimits)
    [] f.format = "pem" ->
         Call(IF f.blocks = << >> THEN Binary("junk", MCUnreadable.der) ELSE Text(f.blocks),
              "pem", NoLimits)
    [] OTHER -> Call(Binary(f.format, f), f.format, NoLimits)

(* One file of each kind. *)
SmallJks == [format |-> "jks", password |-> "store", malformed |-> FALSE,
             items |-> <<Jks("App", "key", <<"leaf", "root">>, "kLeaf", "store"),
                         Jks("app", "key", <<"root">>, "kLeaf", "store")>>]
SmallPkcs12 == [Container EXCEPT !.bags = <<CertBag("root", ""), KeyBag("kLeaf", ""),
                                            CertBag("leaf", "app"), KeyBag("kRoot", "")>>]
SmallDer == [format |-> "der", blocks |-> <<Certs(<<"leaf">>)>>]
KeyDer(b) == [format |-> "der", blocks |-> <<b>>]
SmallPkcs7 == [format |-> "pkcs7", blocks |-> <<Pkcs7(<<"root", "leaf", "root">>)>>]
SmallText == Text(<<Certs(<<"leaf">>), KeyBlock("kRoot"), Pkcs7(<<"root">>),
                    [KeyBlock("kLeaf") EXCEPT !.dek = "a"]>>)

Samples ==
  {Binary("jks", SmallJks), Binary("jceks", MCUnreadable.jks), Binary("bks", MCUnreadable.jks),
   Binary("pkcs12", SmallPkcs12), Binary("pkcs7", SmallPkcs7), Binary("ber", SmallPkcs7),
   Binary("der", SmallDer), Binary("der", KeyDer(KeyBlock("kLeaf"))),
   Binary("der", KeyDer([KeyBlock("kLeaf") EXCEPT !.pkcs8 = "b"])),
   Binary("junk", MCUnreadable.der), SmallText,
   Text(<<Pkcs7(<<"root", "leaf", "root">>), KeyBlock("kLeaf")>>),
   [Binary("pkcs12", SmallPkcs12) EXCEPT !.label = "pkcs12", !.blocks = <<Other>>]}

MCLimits == {NoLimits, [size |-> 1, certs |-> 1, keys |-> 3], [size |-> 5, certs |-> 9, keys |-> 1]}

MCCalls ==
  {OfFormat(f) : f \in MCJksFiles \cup MCPemFiles \cup MCPkcs12Files}
  \cup {Call(d, f, l) :
          d \in Samples, l \in MCLimits, f \in Supported \cup {"auto", "jceks", "other"}}
  \cup {Call([d EXCEPT !.size = n, !.space = s], "auto", l) :
          d \in Samples, n \in {0, 1, 3}, s \in {"before", "last"}, l \in MCLimits}

OpenJksFiles == MCJksFiles \cup {SmallJks, MCUnreadable.jks}
OpenPemFiles ==
  MCPemFiles \cup {MCUnreadable.der, MCUnreadable.pkcs7}
    \cup {View("pem", d) : d \in Samples}
OpenPkcs12Files == MCPkcs12Files \cup {SmallPkcs12, MCUnreadable.pkcs12}
=============================================================================
