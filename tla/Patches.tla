------------------------------ MODULE Patches ------------------------------
(***************************************************************************)
(* Patch extraction and chunking: the pure half of frame generation in     *)
(* crates/pjs-domain/src/entities/stream.rs.                               *)
(*                                                                         *)
(* A document is the sequence of its leaves in traversal order; what a     *)
(* leaf holds is irrelevant here, so a leaf is its path and the priority   *)
(* the heuristic gives it.  A patch is a leaf with its final priority.     *)
(* Paths also stand for the last keys that the priority rules name.        *)
(***************************************************************************)
EXTENDS Integers, Sequences, FiniteSets

(* Priority is a NonZeroU8. *)
Priority == 1..255
CRITICAL == 100
HIGH == 80

Patch(Path) == [path : Path, priority : Priority]

(* The path of a leaf under a key that JsonPath cannot encode: `.`, `[`, `]`. *)
NoPath == 0

(***************************************************************************)
(* compute_priority: a rule of the stream's priority_rules wins over the   *)
(* heuristic.  rules is a function on the paths that have a rule.          *)
(***************************************************************************)
compute_priority(rules, leaf) ==
  IF leaf.path \in DOMAIN rules THEN rules[leaf.path] ELSE leaf.priority

(***************************************************************************)
(* sort_by_key(Reverse(priority)), which is stable.  s is a sequence, or a *)
(* sequence with holes: a function on a finite set of positions.  Rank is  *)
(* where the sort moves the entry at position i.                           *)
(***************************************************************************)
Rank(s, i) ==
  Cardinality({j \in DOMAIN s : \/ s[j].priority > s[i].priority
                                \/ s[j].priority = s[i].priority /\ j <= i})

SortByPriorityDesc(s) ==
  LET rank == [i \in DOMAIN s |-> Rank(s, i)]
  IN  [r \in 1..Cardinality(DOMAIN s) |-> s[CHOOSE i \in DOMAIN s : rank[i] = r]]

(***************************************************************************)
(* collect_patches: a patch at the position of every leaf whose priority   *)
(* reaches the inclusive threshold.  The walker skips what is under a key  *)
(* without a path.                                                         *)
(***************************************************************************)
collect_patches(source, rules, threshold) ==
  LET admitted == {i \in DOMAIN source :
                     /\ source[i].path # NoPath
                     /\ compute_priority(rules, source[i]) >= threshold}
  IN  [i \in admitted |-> [path     |-> source[i].path,
                           priority |-> compute_priority(rules, source[i])]]

extract_patches(source, rules, threshold) ==
  SortByPriorityDesc(collect_patches(source, rules, threshold))

(***************************************************************************)
(* chunk_patches_for_commit: at most max_frames groups of consecutive      *)
(* patches, each with the highest priority it contains.                    *)
(***************************************************************************)
DivCeil(a, b) == (a + b - 1) \div b

MaxPriority(patches) ==
  CHOOSE p \in {patches[i].priority : i \in DOMAIN patches} :
    \A i \in DOMAIN patches : p >= patches[i].priority

ChunkSize_Floor(n, max_frames) ==  \* mutant: rounds the chunk size down
  IF n < max_frames THEN 1 ELSE n \div max_frames

ChunkSize(n, max_frames) == DivCeil(n, max_frames)

Chunk(patches, size, k) ==
  LET last == IF k * size < Len(patches) THEN k * size ELSE Len(patches)
      part == SubSeq(patches, (k - 1) * size + 1, last)
  IN  [priority |-> MaxPriority(part), patches |-> part]

chunk_patches_for_commit(patches, max_frames) ==
  IF patches = <<>> \/ max_frames = 0
  THEN <<>>
  ELSE LET size == ChunkSize(Len(patches), max_frames)
       IN  [k \in 1..DivCeil(Len(patches), size) |-> Chunk(patches, size, k)]

=============================================================================
