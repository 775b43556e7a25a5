------------------------------- MODULE Lists -------------------------------
(***************************************************************************)
(* The slice idioms of certkit as operators on sequences.  None of them is *)
(* recursive, so that the modules that use them can be proved about.       *)
(***************************************************************************)
EXTENDS Naturals, FiniteSets, Sequences, SequencesExt

(* The position of i among the members of I, counted from 1. *)
Rank(I, i) == Cardinality({k \in I : k <= i})

(* The elements of s at the positions I, in the order of s. *)
Pick(s, I) ==
  [j \in 1 .. Cardinality(I) |-> s[CHOOSE i \in I : Rank(I, i) = j]]

(* The in-place filter loop: the elements of s that are members of T. *)
Keep(s, T) == Pick(s, {i \in DOMAIN s : s[i] \in T})

(* The positions of t whose element is neither in s nor earlier in t. *)
Fresh(s, t) ==
  {i \in DOMAIN t : /\ t[i] \notin ToSet(s)
                    /\ \A k \in 1 .. (i - 1) : t[k] # t[i]}

(* A fault for the runs to detect: the loop forgets to look before it appends. *)
AppendAlways(s, t) == s \o t

(* The loop that appends each element of t that the slice does not hold. *)
AppendNew(s, t) == s \o Pick(t, Fresh(s, t))

(* The first position of s at which it holds x. *)
IndexOf(s, x) ==
  CHOOSE i \in DOMAIN s : s[i] = x /\ \A k \in 1 .. (i - 1) : s[k] # x

(* The slice holds no element twice. *)
NoDuplicates(s) == \A i, j \in DOMAIN s : s[i] = s[j] => i = j
=============================================================================
