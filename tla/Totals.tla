------------------------------- MODULE Totals -------------------------------
(***************************************************************************)
(* The total of finitely many amounts, as the number of their units: two   *)
(* units are different when their owners or their positions are.           *)
(***************************************************************************)
EXTENDS Integers, FiniteSets

(* An amount per element as the set of its units, and their number. *)
Units(amount) == UNION {{x} \X (1..amount[x]) : x \in DOMAIN amount}
Total(amount) == Cardinality(Units(amount))

=============================================================================
