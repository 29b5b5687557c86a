------------------------------- MODULE Stream -------------------------------
(***************************************************************************)
(* The Stream entity of crates/pjs-domain/src/entities/stream.rs, as a     *)
(* value: a record, one operator per method that returns the new record,   *)
(* and one CanXxx operator for the condition under which the method        *)
(* returns Ok.  A method that returns Err leaves the stream as it was.     *)
(*                                                                         *)
(* Timestamps and metadata are left out: no decision of the code reads     *)
(* them.  The size of a frame is abstracted to the number of its patches.  *)
(***************************************************************************)
EXTENDS Patches, FiniteSetsExt

StreamState == {"Preparing", "Streaming", "Completed", "Failed", "Cancelled"}

FinishedState == {"Completed", "Failed", "Cancelled"}

NewStream(id, source, rules) ==
  [id                  |-> id,
   state               |-> "Preparing",
   next_sequence       |-> 1,
   source              |-> source,
   rules               |-> rules,
   total_frames        |-> 0,
   skeleton_frames     |-> 0,
   patch_frames        |-> 0,
   complete_frames     |-> 0,
   total_bytes         |-> 0,
   critical_bytes      |-> 0,
   high_priority_bytes |-> 0]

is_active(st) == st.state \in {"Preparing", "Streaming"}

is_finished(st) == st.state \in FinishedState

-----------------------------------------------------------------------------
(* Lifecycle transitions. *)

CanStartStreaming(st) == st.state = "Preparing"
start_streaming(st) == [st EXCEPT !.state = "Streaming"]

CanComplete(st) == st.state = "Streaming"
complete(st) == [st EXCEPT !.state = "Completed"]

CanFail_Always(st) == TRUE  \* mutant: a finished stream can fail

CanFail(st) == st.state \in {"Preparing", "Streaming"}
fail(st) == [st EXCEPT !.state = "Failed"]

CanCancel(st) == st.state \in {"Preparing", "Streaming"}
cancel(st) == [st EXCEPT !.state = "Cancelled"]

CanUpdateConfig(st) == is_active(st)
update_config(st, rules) == [st EXCEPT !.rules = rules]

-----------------------------------------------------------------------------
(* Frames. *)

(* Every frame constructor and the extraction require the Streaming state. *)
CanCreateFrames(st) == st.state = "Streaming"

SkeletonFrame(st) ==
  [type |-> "Skeleton", stream |-> st.id, sequence |-> st.next_sequence,
   priority |-> CRITICAL, patches |-> <<>>]

CompleteFrame(st) ==
  [type |-> "Complete", stream |-> st.id, sequence |-> st.next_sequence,
   priority |-> CRITICAL, patches |-> <<>>]

(* The frame finalize_patch_frame builds after offset others. *)
PatchFrame(st, offset, chunk) ==
  [type |-> "Patch", stream |-> st.id, sequence |-> st.next_sequence + offset,
   priority |-> chunk.priority, patches |-> chunk.patches]

(* A skeleton or completion frame weighs one unit. *)
estimated_size(frame) == IF frame.type = "Patch" THEN Len(frame.patches) ELSE 1

SumBytes(frames) == SumFunction([f \in frames |-> estimated_size(f)])

is_critical_Strict(frame) == frame.priority > CRITICAL  \* mutant: off by one

is_critical(frame) == frame.priority >= CRITICAL

is_high_priority(frame) == frame.priority >= HIGH

record_frames_created_SkipsOne(st, frames) ==  \* mutant: a number is lost per call
  LET OfType(t) == {f \in frames : f.type = t}
  IN  [st EXCEPT
        !.next_sequence = @ + Cardinality(frames) + 1,
        !.total_frames  = @ + Cardinality(frames),
        !.patch_frames  = @ + Cardinality(OfType("Patch"))]

(***************************************************************************)
(* record_frame_created, for the set of frames that one call finalizes:    *)
(* their sequence numbers start at next_sequence and leave no gap.         *)
(***************************************************************************)
record_frames_created(st, frames) ==
  LET OfType(t) == {f \in frames : f.type = t}
      critical == {f \in frames : is_critical(f)}
      high == {f \in OfType("Patch") : is_high_priority(f) /\ ~is_critical(f)}
  IN  [st EXCEPT
        !.next_sequence       = @ + Cardinality(frames),
        !.total_frames        = @ + Cardinality(frames),
        !.skeleton_frames     = @ + Cardinality(OfType("Skeleton")),
        !.patch_frames        = @ + Cardinality(OfType("Patch")),
        !.complete_frames     = @ + Cardinality(OfType("Complete")),
        !.total_bytes         = @ + SumBytes(frames),
        !.critical_bytes      = @ + SumBytes(critical),
        !.high_priority_bytes = @ + SumBytes(high)]

create_skeleton_frame(st) ==
  record_frames_created(st, {SkeletonFrame(st)})

create_completion_frame(st) ==
  record_frames_created(st, {CompleteFrame(st)})

extract_prioritized_patches(st, threshold) ==
  extract_patches(st.source, st.rules, threshold)

(* The frames commit_patch_frames builds, in the order it builds them. *)
PatchFrames(st, patches, max_frames) ==
  LET chunks == chunk_patches_for_commit(patches, max_frames)
  IN  [k \in DOMAIN chunks |-> PatchFrame(st, k - 1, chunks[k])]

commit_patch_frames(st, patches, max_frames) ==
  LET frames == PatchFrames(st, patches, max_frames)
  IN  record_frames_created(st, {frames[k] : k \in DOMAIN frames})

=============================================================================
