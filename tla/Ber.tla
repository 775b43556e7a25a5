-------------------------------- MODULE Ber --------------------------------
(***************************************************************************)
(* ToDER (internal/ber): a BER object is read, its boundaries are checked, *)
(* and it is written again with definite lengths of the shortest form.     *)
(* The state is the input, which grows byte by byte.                       *)
(*                                                                         *)
(* Lengths have at most 31 bits, and int is taken to have 64: sums of a    *)
(* length and an offset do not overflow.                                   *)
(***************************************************************************)
EXTENDS Integers, Sequences, FiniteSetsExt, SequencesExt

CONSTANTS
  Bytes,     \* the bytes that inputs are made of
  Samples,   \* inputs to start with
  MaxLength, \* bound of the model on inputs that grow
  MaxDepth   \* the deepest level of nesting, 128 in the code

VARIABLE input

Refused == [ok |-> FALSE]

(* A tag of more than one byte ends with a byte below 128. *)
TagEnd(b, at) ==
  IF b[at] % 32 # 31 THEN at
  ELSE Min({p \in at + 1 .. Len(b) : b[p] < 128} \cup {Len(b)})

(* The length in the n bytes from "at" on. *)
Number(b, at, n) ==
  FoldFunction(+, 0, [i \in 0 .. n - 1 |-> b[at + i] * 256 ^ (n - 1 - i)])

Indefinite == -1

(* Where the contents begin and end, and whether the checks of the header pass.
   (The end is not computed before it is known to lie in the input.) *)
Header(b, at) ==
  LET tagEnd == TagEnd(b, at)
      l      == b[tagEnd + 1]
      n      == IF l > 128 THEN l - 128 ELSE 0
      start  == tagEnd + 2 + n
      length == IF l > 128 THEN Number(b, tagEnd + 2, n) ELSE l
  IN  IF tagEnd + 1 > Len(b) THEN Refused
      ELSE IF l = 128
           THEN [ok |-> b[at] % 64 >= 32, tagEnd |-> tagEnd, start |-> start, end |-> Indefinite]
      ELSE IF \/ n > 4 \/ start > Len(b) + 1
              \/ n > 0 /\ b[tagEnd + 2] = 0
              \/ n = 4 /\ b[tagEnd + 2] > 127
           THEN Refused
      ELSE IF length > Len(b) + 1 - start THEN Refused
      ELSE [ok |-> TRUE, tagEnd |-> tagEnd, start |-> start, end |-> start + length]

(* isIndefiniteTermination *)
Terminates(b, at) == b[at] = 0 /\ b[at + 1] = 0

RECURSIVE ReadObject(_, _, _), ReadContents(_, _, _, _)

(* readObject: the object that begins at "at", and where the next one begins. *)
ReadObject(b, at, depth) ==
  IF depth > MaxDepth \/ at > Len(b) THEN Refused
  ELSE LET h == Header(b, at)
       IN  IF ~h.ok THEN Refused
           ELSE LET tag == SubSeq(b, at, h.tagEnd)
                IN  IF b[at] % 64 < 32
                    THEN [ok |-> TRUE, next |-> h.end,
                          object |-> [tag |-> tag, content |-> SubSeq(b, h.start, h.end - 1)]]
                    ELSE LET inner == ReadContents(b, h.start, h.end, depth + 1)
                         IN  IF ~inner.ok THEN Refused
                             ELSE [ok |-> TRUE, next |-> inner.next,
                                   object |-> [tag |-> tag, children |-> inner.objects]]

(* A fault for the runs to detect: a child may reach beyond its parent. *)
OverrunsNever(end, next) == FALSE

Overruns(end, next) == end # Indefinite /\ next > end

(* The loop of readObject over the children. *)
ReadContents(b, at, end, depth) ==
  IF end = Indefinite /\ at >= Len(b) THEN Refused
  ELSE IF IF end = Indefinite THEN Terminates(b, at) ELSE at >= end
  THEN [ok |-> TRUE, next |-> IF end = Indefinite THEN at + 2 ELSE end, objects |-> << >>]
  ELSE LET first == ReadObject(b, at, depth)
       IN  IF ~first.ok THEN Refused
           ELSE IF Overruns(end, first.next) THEN Refused
           ELSE LET rest == ReadContents(b, first.next, end, depth)
                IN  IF ~rest.ok THEN Refused
                    ELSE [rest EXCEPT !.objects = <<first.object>> \o @]

(* lengthLength *)
LengthLength(n) == Min({k \in 1 .. 4 : k = 4 \/ n < 256 ^ k})

(* A fault for the runs to detect: the long form begins with 129. *)
LengthBytesLate(n) ==
  IF n <= 128 THEN <<n>>
  ELSE <<128 + LengthLength(n)>> \o
       [i \in 1 .. LengthLength(n) |-> (n \div 256 ^ (LengthLength(n) - i)) % 256]

(* encodeLength *)
LengthBytes(n) ==
  IF n < 128 THEN <<n>>
  ELSE <<128 + LengthLength(n)>> \o
       [i \in 1 .. LengthLength(n) |-> (n \div 256 ^ (LengthLength(n) - i)) % 256]

RECURSIVE EncodeTo(_)

EncodeTo(o) ==
  LET content == IF "content" \in DOMAIN o THEN o.content
                 ELSE FlattenSeq([i \in DOMAIN o.children |-> EncodeTo(o.children[i])])
  IN  o.tag \o LengthBytes(Len(content)) \o content

(* What ToDER reads, before it writes it again. *)
ReadWhole(b) ==
  LET r == ReadObject(b, 1, 0)
  IN  IF r.ok THEN IF r.next = Len(b) + 1 THEN r ELSE Refused ELSE Refused
-----------------------------------------------------------------------------
BerInit == input \in Samples \cup {<< >>}

Grow ==
  /\ Len(input) < MaxLength
  /\ \E byte \in Bytes : input' = Append(input, byte)

BerSpec == BerInit /\ [][Grow]_input
-----------------------------------------------------------------------------
(***************************************************************************)
(* The reference: what a BER object is.                                    *)
(***************************************************************************)
IsTag(t) ==
  IF t[1] % 32 # 31 THEN Len(t) = 1
  ELSE /\ Len(t) > 1 /\ t[Len(t)] < 128
       /\ \A i \in 2 .. Len(t) - 1 : t[i] >= 128

(* l is a definite length with value n: in one of its forms, or in the
   shortest. *)
IsLength(l, n, shortest) ==
  \/ l = <<n>> /\ n < 128
  \/ /\ Len(l) \in 2 .. 5 /\ l[1] = 127 + Len(l) /\ l[2] # 0
     /\ IF Len(l) = 5 THEN l[2] < 128 ELSE n < 256 ^ (Len(l) - 1)
     /\ Tail(l) = [i \in 1 .. Len(l) - 1 |-> (n \div 256 ^ (Len(l) - 1 - i)) % 256]
     /\ shortest => n >= 128

RECURSIVE IsObject(_, _, _), IsSeries(_, _, _, _)

(* s is one object, nested no deeper than "depth" levels below this one: of BER,
   or of what DER allows, which is definite lengths in their shortest form. *)
IsObject(s, depth, der) ==
  /\ depth >= 0
  /\ \E i \in 1 .. Len(s), j \in 1 .. 5 :
       LET n == Len(s) - i - j
           constructed == s[1] % 64 >= 32
       IN  /\ n >= 0
           /\ IsTag(SubSeq(s, 1, i))
           /\ \/ /\ IsLength(SubSeq(s, i + 1, i + j), n, der)
                 /\ constructed => IsSeries(SubSeq(s, i + j + 1, Len(s)), depth - 1, FALSE, der)
              \/ /\ constructed /\ ~der /\ j = 1 /\ s[i + 1] = 128
                 /\ n >= 2 /\ s[Len(s) - 1] = 0 /\ s[Len(s)] = 0
                 /\ IsSeries(SubSeq(s, i + 2, Len(s) - 2), depth - 1, TRUE, der)

(* s is a series of objects, none of which looks like an end of contents. *)
IsSeries(s, depth, ended, der) ==
  \/ s = << >>
  \/ \E n \in 2 .. Len(s) :
        /\ ~(ended /\ s[1] = 0 /\ s[2] = 0)
        /\ IsObject(SubSeq(s, 1, n), depth, der)
        /\ IsSeries(SubSeq(s, n + 1, Len(s)), depth, ended, der)
-----------------------------------------------------------------------------
(***************************************************************************)
(* Properties.                                                             *)
(***************************************************************************)

(* ToDER accepts exactly the inputs that are one object: all lengths within
   the input and within those of the parents, every indefinite length ended,
   nothing behind it, and the outermost object with at most MaxDepth levels
   below it.  (DEPENDENCIES.md:44 allows 128 levels: the code counts the
   outermost as level 0, so that there may be 129.) *)
AcceptsExactlyBer == ReadWhole(input).ok <=> IsObject(input, MaxDepth, FALSE)

(* What ToDER writes has definite lengths in their shortest form throughout, and
   is read back as the same object; and an input that has such lengths comes out
   as it went in, byte for byte, as its signatures and digests demand. *)
NormalFormIsStable ==
  LET r == ReadWhole(input)
  IN  /\ r.ok => LET der   == EncodeTo(r.object)
                     again == ReadWhole(der)
                 IN  /\ IsObject(der, MaxDepth, TRUE)
                     /\ again.ok /\ again.object = r.object
      /\ IsObject(input, MaxDepth, TRUE) => r.ok /\ EncodeTo(r.object) = input
=============================================================================
