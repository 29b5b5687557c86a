---------------------------- MODULE StreamEntity ----------------------------
(***************************************************************************)
(* One Stream under every sequence of its own methods, from the document   *)
(* it is created with: crates/pjs-domain/src/entities/stream.rs.  The      *)
(* session aggregate reaches only part of the methods: it never asks for a *)
(* skeleton or a completion frame.  A call that returns Err changes        *)
(* nothing and is no step here.                                            *)
(***************************************************************************)
EXTENDS Stream, PriorityHeuristic, SequencesExt

CONSTANTS
  StreamId,      \* the stream's identifier
  Document,      \* documents: sequences of leaf shapes, in traversal order
  Rules,         \* priority_rules maps a caller can supply
  Threshold,     \* priority thresholds a caller can ask for
  FrameLimit,    \* max_frames values a caller can ask for
  MaxFrames      \* bound on the frames emitted

VARIABLES
  document,      \* the source_data of the stream
  stream,        \* the entity
  emitted,       \* every frame it returned, in order
  request        \* the last extraction: its arguments and its result

vars == <<document, stream, emitted, request>>

(* The leaves that the walker meets, with the heuristic's priority. *)
Leaves(doc) ==
  [i \in DOMAIN doc |-> [path     |-> IF doc[i].encodable THEN i ELSE NoPath,
                         priority |-> heuristic_priority(doc[i])]]

NoRequest == [rules |-> <<>>, threshold |-> 1, max_frames |-> 0, patches |-> <<>>, from |-> 0]

Init ==
  /\ document \in Document
  /\ stream = NewStream(StreamId, Leaves(document), <<>>)
  /\ emitted = <<>>
  /\ request = NoRequest

(* A transition returns no frame. *)
Transition(guard, result) ==
  /\ guard
  /\ stream' = result
  /\ UNCHANGED <<document, emitted, request>>

StartStreaming == Transition(CanStartStreaming(stream), start_streaming(stream))
Complete == Transition(CanComplete(stream), complete(stream))
Fail == Transition(CanFail(stream), fail(stream))
Cancel == Transition(CanCancel(stream), cancel(stream))

UpdateConfig(rules) == Transition(CanUpdateConfig(stream), update_config(stream, rules))

Emit(result, frames, asked) ==
  /\ CanCreateFrames(stream)
  /\ result.total_frames <= MaxFrames
  /\ stream' = result
  /\ emitted' = emitted \o frames
  /\ request' = asked
  /\ UNCHANGED document

CreateSkeletonFrame ==
  Emit(create_skeleton_frame(stream), <<SkeletonFrame(stream)>>, NoRequest)

CreateCompletionFrame ==
  Emit(create_completion_frame(stream), <<CompleteFrame(stream)>>, NoRequest)

CreatePatchFrames(threshold, max_frames) ==
  LET patches == extract_prioritized_patches(stream, threshold)
  IN  Emit(commit_patch_frames(stream, patches, max_frames),
           PatchFrames(stream, patches, max_frames),
           [rules |-> stream.rules, threshold |-> threshold, max_frames |-> max_frames,
            patches |-> patches, from |-> Len(emitted)])

Next ==
  \/ StartStreaming \/ Complete \/ Fail \/ Cancel
  \/ \E rules \in Rules : UpdateConfig(rules)
  \/ CreateSkeletonFrame \/ CreateCompletionFrame
  \/ \E t \in Threshold, n \in FrameLimit : CreatePatchFrames(t, n)

Spec == Init /\ [][Next]_vars

-----------------------------------------------------------------------------

(***************************************************************************)
(* The frames of a stream are numbered 1, 2, 3... in the order in which it *)
(* returned them, whichever mixture of skeleton, patch and completion      *)
(* calls produced them; every byte returned is counted once in the total,  *)
(* and the critical and high-priority bytes are disjoint parts of it,      *)
(* although each frame type of record_frame_created classifies its frames  *)
(* in its own branch.                                                      *)
(***************************************************************************)
EmissionsAccounted ==
  LET Bytes(S) == MapThenSumSet(LAMBDA i : estimated_size(emitted[i]), S)
      all == DOMAIN emitted
  IN  /\ \A i \in all : emitted[i].sequence = i
      /\ stream.next_sequence = Len(emitted) + 1
      /\ stream.total_frames =
           stream.skeleton_frames + stream.patch_frames + stream.complete_frames
      /\ stream.total_bytes = Bytes(all)
      /\ stream.critical_bytes = Bytes({i \in all : emitted[i].priority >= 100})
      /\ stream.high_priority_bytes =
           Bytes({i \in all : emitted[i].priority \in 80..99})

(* The heuristic as one sum, clamped at the end. *)
ReferencePriority(leaf) ==
  LET depth == IF leaf.depth <= 1 THEN 20 ELSE IF leaf.depth = 2 THEN 10
               ELSE IF leaf.depth > 5 THEN -10 ELSE 0
      size == [string |-> IF leaf.len > 1000 THEN -20 ELSE IF leaf.len < 50 THEN 5 ELSE 0,
               array  |-> IF leaf.len > 100 THEN -40 ELSE IF leaf.len > 10 THEN -15 ELSE 0,
               number |-> 0][leaf.kind]
  IN  IF leaf.tier = "critical" THEN 100
      ELSE IF leaf.tier = "high" THEN 80
      ELSE IF 50 + depth + size < 1 THEN 1 ELSE 50 + depth + size

(***************************************************************************)
(* extract_patches returns each admitted leaf once, in descending priority *)
(* and, on a tie, in document order, with a rule's priority when there is  *)
(* one and otherwise the heuristic's, which stays within NonZeroU8: a      *)
(* large array below depth five lands on zero (50 - 10 - 40) and is        *)
(* floored to one.                                                         *)
(***************************************************************************)
ExtractionIsStableSort ==
  LET patches == request.patches
      final == [i \in DOMAIN document |->
                  IF i \in DOMAIN request.rules THEN request.rules[i]
                  ELSE ReferencePriority(document[i])]
  IN  /\ {patches[k] : k \in DOMAIN patches} =
           {[path |-> i, priority |-> final[i]] :
              i \in {j \in DOMAIN document :
                       document[j].encodable /\ final[j] >= request.threshold}}
      /\ \A j, k \in DOMAIN patches : j < k =>
           \/ patches[j].priority > patches[k].priority
           \/ /\ patches[j].priority = patches[k].priority
              /\ patches[j].path < patches[k].path

(***************************************************************************)
(* The frames of one call lose, repeat and reorder none of its patches;    *)
(* none is empty (Frame::patch would reject it after earlier chunks were   *)
(* committed); there are at most max_frames of them, in descending         *)
(* priority.                                                               *)
(***************************************************************************)
ChunkingLossless ==
  LET frames == SubSeq(emitted, request.from + 1, Len(emitted))
  IN  /\ Len(frames) <= request.max_frames
      /\ request.max_frames > 0 =>
           FlattenSeq([k \in DOMAIN frames |-> frames[k].patches]) = request.patches
      /\ \A k \in DOMAIN frames :
           /\ frames[k].patches # <<>>
           /\ frames[k].priority = frames[k].patches[1].priority
           /\ \A j \in 1..(k - 1) : frames[j].priority >= frames[k].priority

(***************************************************************************)
(* create_patch_frames: the frames it returns carry the stable sort of     *)
(* exactly the admitted leaves, whole.                                     *)
(***************************************************************************)
FramesCarryExtraction ==
  request # NoRequest => ExtractionIsStableSort /\ ChunkingLossless

=============================================================================
