---------------------------- MODULE Subsequences ----------------------------
(***************************************************************************)
(* Parts of a sequence, selected by position: what Vec::retain and a loop  *)
(* that pushes the elements it picks leave, in their order.                *)
(***************************************************************************)
EXTENDS Integers, Sequences, FiniteSets

(* The entries of a sequence at the positions in at, in their order. *)
Entries(s, at) ==
  LET place == [i \in at |-> Cardinality({j \in at : j <= i})]
  IN  [n \in 1..Cardinality(at) |-> s[CHOOSE i \in at : place[i] = n]]

=============================================================================
