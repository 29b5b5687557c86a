-------------------------- MODULE MCEventPublisher --------------------------
(* EventPublisher on small instances. *)
EXTENDS EventPublisher

Symmetry == Permutations(Publisher)

=============================================================================
