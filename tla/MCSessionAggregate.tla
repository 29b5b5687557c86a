------------------------- MODULE MCSessionAggregate -------------------------
(* SessionAggregate on a small instance. *)
EXTENDS SessionAggregate

Leaf(path, priority) == [path |-> path, priority |-> priority]

(* Three leaves whose order the sort must change; the first one is below the *)
(* threshold of the runs unless a rule raises it.                            *)
MCSource == {<<Leaf(1, 50), Leaf(2, 80), Leaf(3, 100)>>}

MCRules == {[p \in {1} |-> 100]}

Symmetry == Permutations(StreamId)

=============================================================================
