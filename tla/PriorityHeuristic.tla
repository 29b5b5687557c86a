------------------------- MODULE PriorityHeuristic -------------------------
(***************************************************************************)
(* The priority heuristic of crates/pjs-domain/src/services/priority.rs    *)
(* and the saturating arithmetic of value_objects/priority.rs.             *)
(*                                                                         *)
(* A leaf is what the heuristic reads of it: its key, the tier whose field *)
(* list holds the key, its depth, its kind and its length.                 *)
(***************************************************************************)
EXTENDS Patches

MEDIUM == 50
LOW == 25
BACKGROUND == 10

TierPriority ==
  [critical |-> CRITICAL, high |-> HIGH, medium |-> MEDIUM,
   low |-> LOW, background |-> BACKGROUND]

(* u8 arithmetic that saturates, kept away from zero. *)
increase_by(p, delta) == IF p + delta > 255 THEN 255 ELSE p + delta
decrease_by(p, delta) == IF p - delta < 1 THEN 1 ELSE p - delta

DepthAdjusted(p, depth) ==
  CASE depth \in {0, 1} -> increase_by(p, 20)
    [] depth = 2        -> increase_by(p, 10)
    [] depth > 5        -> decrease_by(p, 10)
    [] OTHER            -> p

large_string_threshold == 1000
small_string_threshold == 50
large_array_threshold == 100
mid_array_threshold == 10
large_object_threshold == 10

SizeAdjusted(p, kind, len) ==
  CASE kind = "string" /\ len > large_string_threshold -> decrease_by(p, 20)
    [] kind = "string" /\ len < small_string_threshold -> increase_by(p, 5)
    [] kind = "array" /\ len > large_array_threshold   -> decrease_by(p, 40)
    [] kind = "array" /\ len > mid_array_threshold
                      /\ len <= large_array_threshold  -> decrease_by(p, 15)
    [] kind = "object" /\ len > large_object_threshold -> decrease_by(p, 10)
    [] OTHER -> p

(* compute_priority without the overrides, which Patches applies. *)
heuristic_priority(leaf) ==
  IF leaf.tier # "none"
  THEN TierPriority[leaf.tier]
  ELSE SizeAdjusted(DepthAdjusted(MEDIUM, leaf.depth), leaf.kind, leaf.len)

=============================================================================
