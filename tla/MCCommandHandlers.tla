------------------------- MODULE MCCommandHandlers -------------------------
(* CommandHandlers on small instances. *)
EXTENDS CommandHandlers

Leaf(path, priority) == [path |-> path, priority |-> priority]

(* One document, whose leaves the sort must swap. *)
MCSource == {<<Leaf(1, 50), Leaf(2, 100)>>}

MCNoRules == {<<>>}

MCRules == {<<>>, [p \in {1} |-> 255]}

Symmetry == Permutations(Handler) \union Permutations(StreamId)

=============================================================================
