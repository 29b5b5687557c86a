--------------------------- MODULE MCRateLimiter ---------------------------
(* RateLimiter on small instances. *)
EXTENDS RateLimiter

Symmetry == Permutations(Task) \union Permutations(Ip \ HttpIp)

=============================================================================
