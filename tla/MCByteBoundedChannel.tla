------------------------ MODULE MCByteBoundedChannel ------------------------
(* ByteBoundedChannel on small instances. *)
EXTENDS ByteBoundedChannel

Symmetry == Permutations(Sender)

=============================================================================
