--------------------------- MODULE StreamSession ---------------------------
(***************************************************************************)
(* The StreamSession aggregate root of                                     *)
(* crates/pjs-core/src/domain/aggregates/stream_session.rs, as a value: a  *)
(* record, one operator per method that returns the new record, and a      *)
(* CanXxx operator for the condition under which the method returns Ok.    *)
(* A method that returns Err leaves the session as it was.                 *)
(*                                                                         *)
(* now is the reading of the session's TimeProvider.  updated_at,          *)
(* completed_at, the client info and the duration averages are left out:   *)
(* no decision of the code reads them.                                     *)
(***************************************************************************)
EXTENDS Stream, SequencesExt

CONSTANTS
  Path,                    \* paths of leaves
  Source,                  \* documents a stream can be created with
  StreamId,                \* identifiers Stream::new can draw
  max_concurrent_streams,  \* SessionConfig
  session_timeout          \* SessionConfig, in ticks

ASSUME SourceAssumption == Source \subseteq Seq(Patch(Path))
ASSUME StreamIdAssumption == IsFiniteSet(StreamId)
ASSUME MaxConcurrentAssumption == max_concurrent_streams \in Nat \ {0}
ASSUME TimeoutAssumption == session_timeout \in Nat

SessionState == {"Initializing", "Active", "Closing", "Completed", "Failed"}

ClosedState == {"Completed", "Failed"}

NewSession(now) ==
  [state             |-> "Initializing",
   expires_at        |-> now + session_timeout,
   streams           |-> <<>>,
   pending_events    |-> <<>>,
   total_streams     |-> 0,
   active_streams    |-> 0,
   completed_streams |-> 0,
   failed_streams    |-> 0,
   total_frames      |-> 0,
   total_bytes       |-> 0]

(* What the repository has for an identifier without a session. *)
NoSession == [state |-> "NotStored"]

is_expired(ss, now) == now > ss.expires_at

SessionActive(ss, now) == ss.state = "Active" /\ ~is_expired(ss, now)

HasStream(ss, id) == id \in DOMAIN ss.streams

(* The streams that are Preparing or Streaming. *)
ActiveStreams(ss) == {id \in DOMAIN ss.streams : is_active(ss.streams[id])}

InState(ss, state) == {id \in DOMAIN ss.streams : ss.streams[id].state = state}

(***************************************************************************)
(* Domain events, without the session id and timestamp that all of them    *)
(* carry.                                                                  *)
(***************************************************************************)
SessionEvent(type) == [type |-> type]
StreamEvent(type, id) == [type |-> type, stream |-> id]
FramesBatched(n) == [type |-> "FramesBatched", frame_count |-> n]

add_event(ss, event) == [ss EXCEPT !.pending_events = Append(@, event)]

take_events_Clone(ss) == ss  \* mutant: the queue is copied, not taken

take_events(ss) == [ss EXCEPT !.pending_events = <<>>]

(* What a sequence of events says happened. *)
CountOf(events, type) == Cardinality({i \in DOMAIN events : events[i].type = type})

FramesIn(events) ==
  SumFunction([i \in {j \in DOMAIN events : events[j].type = "FramesBatched"} |->
                 events[i].frame_count])

-----------------------------------------------------------------------------
(* Session lifecycle. *)

CanActivate(ss) == ss.state = "Initializing"
activate(ss) ==
  add_event([ss EXCEPT !.state = "Active"], SessionEvent("SessionActivated"))

(* close cancels what is active and keeps every stream and every counter. *)
CanClose(ss) == ss.state = "Active"
CancelActive_StreamingOnly(streams) ==  \* mutant: Preparing streams are left
  [id \in DOMAIN streams |->
     IF CanComplete(streams[id]) THEN cancel(streams[id]) ELSE streams[id]]

CancelActive(streams) ==
  [id \in DOMAIN streams |->
     IF CanCancel(streams[id]) THEN cancel(streams[id]) ELSE streams[id]]
close(ss) ==
  add_event([ss EXCEPT !.state = "Completed", !.streams = CancelActive(@)],
            SessionEvent("SessionClosed"))

(* force_close_expired works from every state and drops every stream. *)
CanForceClose(ss, now) == is_expired(ss, now)
force_close_expired(ss) ==
  add_event([ss EXCEPT !.state = "Failed", !.streams = <<>>],
            [type |-> "SessionTimedOut", original_state |-> ss.state])

CanExtendTimeout(ss, now) == ~is_expired(ss, now)
extend_timeout(ss, additional) ==
  add_event([ss EXCEPT !.expires_at = @ + additional],
            SessionEvent("SessionTimeoutExtended"))

-----------------------------------------------------------------------------
(* Stream lifecycle. *)

CanCreateStream(ss, now) ==
  /\ SessionActive(ss, now)
  /\ Cardinality(DOMAIN ss.streams) < max_concurrent_streams

WithStream(streams, id, st) ==
  [i \in DOMAIN streams \union {id} |-> IF i = id THEN st ELSE streams[i]]

create_stream(ss, id, source, rules) ==
  add_event([ss EXCEPT !.streams        = WithStream(@, id, NewStream(id, source, rules)),
                       !.total_streams  = @ + 1,
                       !.active_streams = @ + 1],
            StreamEvent("StreamCreated", id))

CanUpdateStreamConfig(ss, id) == HasStream(ss, id) /\ CanUpdateConfig(ss.streams[id])
update_stream_config(ss, id, rules) ==
  add_event([ss EXCEPT !.streams[id] = update_config(@, rules)],
            StreamEvent("StreamConfigUpdated", id))

(* The second call cannot fail: the stream was just created. *)
create_stream_with_config(ss, id, source, rules) ==
  update_stream_config(create_stream(ss, id, source, <<>>), id, rules)

CanStartStream(ss, id) == HasStream(ss, id) /\ CanStartStreaming(ss.streams[id])
start_stream(ss, id) ==
  add_event([ss EXCEPT !.streams[id] = start_streaming(@)],
            StreamEvent("StreamStarted", id))

SaturatingSub(a, b) == IF a >= b THEN a - b ELSE 0

CanCompleteStream(ss, id) == HasStream(ss, id) /\ CanComplete(ss.streams[id])
complete_stream_NotCounted(ss, id) ==  \* mutant: completed_streams is left alone
  add_event([ss EXCEPT !.streams[id]    = complete(@),
                       !.active_streams = SaturatingSub(@, 1)],
            StreamEvent("StreamCompleted", id))

complete_stream(ss, id) ==
  add_event([ss EXCEPT !.streams[id]       = complete(@),
                       !.active_streams    = SaturatingSub(@, 1),
                       !.completed_streams = @ + 1],
            StreamEvent("StreamCompleted", id))

CanFailStream(ss, id) == HasStream(ss, id) /\ CanFail(ss.streams[id])
fail_stream(ss, id) ==
  add_event([ss EXCEPT !.streams[id]    = fail(@),
                       !.active_streams = SaturatingSub(@, 1),
                       !.failed_streams = @ + 1],
            StreamEvent("StreamFailed", id))

-----------------------------------------------------------------------------
(* Frames of one stream. *)

CanExtractForStream(ss, id) == HasStream(ss, id) /\ CanCreateFrames(ss.streams[id])
extract_for_stream(ss, id, threshold) ==
  extract_prioritized_patches(ss.streams[id], threshold)

WithBatchEvent(ss, n) == IF n = 0 THEN ss ELSE add_event(ss, FramesBatched(n))

(* commit_patch_frames_for_stream checks the stream's state and not the    *)
(* session's; the session's bytes are the stream's before/after delta.     *)
CanCommitForStream(ss, id) == HasStream(ss, id) /\ CanCreateFrames(ss.streams[id])

FramesForStream(ss, id, patches, max_frames) ==
  PatchFrames(ss.streams[id], patches, max_frames)

commit_for_stream_NoDelta(ss, id, patches, max_frames) ==  \* mutant: adds the total
  LET st  == commit_patch_frames(ss.streams[id], patches, max_frames)
      new == Len(FramesForStream(ss, id, patches, max_frames))
  IN  WithBatchEvent([ss EXCEPT !.streams[id]  = st,
                                !.total_frames = @ + new,
                                !.total_bytes  = @ + st.total_bytes],
                     new)

commit_for_stream(ss, id, patches, max_frames) ==
  LET st  == commit_patch_frames(ss.streams[id], patches, max_frames)
      new == Len(FramesForStream(ss, id, patches, max_frames))
  IN  WithBatchEvent([ss EXCEPT
                       !.streams[id]  = st,
                       !.total_frames = @ + new,
                       !.total_bytes  = @ + st.total_bytes - ss.streams[id].total_bytes],
                     new)

-----------------------------------------------------------------------------
(* Frames of every active stream, selected by priority across streams. *)

MaxCandidatesPerStream == 5

(* A function from the Streaming streams to their patches. *)
extract_for_active_streams(ss, threshold) ==
  [id \in InState(ss, "Streaming") |->
     extract_prioritized_patches(ss.streams[id], threshold)]

(***************************************************************************)
(* The candidate frames, stream by stream in the order in which the        *)
(* extraction iterated over the HashMap: slot 5(i-1)+k holds chunk k of    *)
(* stream order[i].  A stream that left Streaming since is skipped.        *)
(***************************************************************************)
Candidates(ss, extracted, order) ==
  LET chunks == [i \in DOMAIN order |->
                   chunk_patches_for_commit(extracted[order[i]], MaxCandidatesPerStream)]
      At(n) == ((n - 1) \div MaxCandidatesPerStream) + 1
      ChunkNo(n) == ((n - 1) % MaxCandidatesPerStream) + 1
      slots == {n \in 1..(MaxCandidatesPerStream * Len(order)) :
                  /\ CanCommitForStream(ss, order[At(n)])
                  /\ ChunkNo(n) \in DOMAIN chunks[At(n)]}
  IN  [n \in slots |-> [stream   |-> order[At(n)],
                        priority |-> chunks[At(n)][ChunkNo(n)].priority,
                        patches  |-> chunks[At(n)][ChunkNo(n)].patches]]

(* The batch_size candidates of highest priority, earliest first on a tie. *)
Survivors(candidates, batch_size) ==
  {k \in DOMAIN candidates : Rank(candidates, k) <= batch_size}

OfStream(candidates, kept, id) == {k \in kept : candidates[k].stream = id}

(* The frame candidate k becomes: finalized in candidate order. *)
FinalizedFrame(ss, candidates, kept, k) ==
  LET id == candidates[k].stream
      earlier == {j \in OfStream(candidates, kept, id) : j < k}
  IN  PatchFrame(ss.streams[id], Cardinality(earlier), candidates[k])

CanCommitPriorityFrames(ss, now) == SessionActive(ss, now)

PriorityFrames_Unsorted(ss, candidates, batch_size) ==  \* mutant: no final sort
  LET kept == Survivors(candidates, batch_size)
      walk == SetToSortSeq(kept, <)
  IN  [i \in DOMAIN walk |-> FinalizedFrame(ss, candidates, kept, walk[i])]

(* The frames returned: re-sorted by descending priority. *)
PriorityFrames(ss, candidates, batch_size) ==
  LET kept == Survivors(candidates, batch_size)
  IN  SortByPriorityDesc([k \in kept |-> FinalizedFrame(ss, candidates, kept, k)])

(* Only the streams with a surviving candidate are touched. *)
commit_priority_frames(ss, candidates, batch_size) ==
  LET kept == Survivors(candidates, batch_size)
      FramesOf(id) == {FinalizedFrame(ss, candidates, kept, k) :
                         k \in OfStream(candidates, kept, id)}
      recorded == [id \in DOMAIN ss.streams |->
                     IF OfStream(candidates, kept, id) = {}
                     THEN ss.streams[id]
                     ELSE record_frames_created(ss.streams[id], FramesOf(id))]
      bytes == SumFunction([k \in kept |-> Len(candidates[k].patches)])
  IN  WithBatchEvent([ss EXCEPT !.streams      = recorded,
                                !.total_frames = @ + Cardinality(kept),
                                !.total_bytes  = @ + bytes],
                     Cardinality(kept))

-----------------------------------------------------------------------------
(* What every method preserves, as predicates of a session. *)

SessionField ==
  {"state", "expires_at", "streams", "pending_events", "total_streams",
   "active_streams", "completed_streams", "failed_streams", "total_frames",
   "total_bytes"}

StreamField ==
  {"id", "state", "next_sequence", "source", "rules", "total_frames",
   "skeleton_frames", "patch_frames", "complete_frames", "total_bytes",
   "critical_bytes", "high_priority_bytes"}

RulesOK(rules) == \A path \in DOMAIN rules : rules[path] \in Priority

StreamOK(id, st) ==
  /\ DOMAIN st = StreamField
  /\ st.id = id
  /\ st.state \in StreamState
  /\ st.source \in Source
  /\ RulesOK(st.rules)
  /\ st.next_sequence \in Nat
  /\ st.total_frames \in Nat
  /\ st.patch_frames \in Nat

SessionOK(ss) ==
  /\ DOMAIN ss = SessionField
  /\ ss.state \in SessionState \ {"Closing"}
  /\ ss.expires_at \in Nat
  /\ DOMAIN ss.streams \subseteq StreamId
  /\ \A id \in DOMAIN ss.streams : StreamOK(id, ss.streams[id])
  /\ ss.total_streams \in Nat
  /\ ss.active_streams \in Nat
  /\ ss.completed_streams \in Nat
  /\ ss.failed_streams \in Nat
  /\ ss.total_frames \in Nat

ActiveCountOK(ss) ==
  ss.state \notin ClosedState => ss.active_streams = Cardinality(ActiveStreams(ss))

CountersOK(ss) ==
  /\ ss.total_streams = ss.active_streams + ss.completed_streams + ss.failed_streams
  /\ ss.state # "Failed" =>
       /\ ss.total_streams = Cardinality(DOMAIN ss.streams)
       /\ ss.completed_streams = Cardinality(InState(ss, "Completed"))
       /\ ss.failed_streams = Cardinality(InState(ss, "Failed"))

FramesAddUp(ss) ==
  ss.state # "Failed" =>
    /\ ss.total_frames = SumFunction([id \in DOMAIN ss.streams |-> ss.streams[id].patch_frames])
    /\ ss.total_bytes = SumFunction([id \in DOMAIN ss.streams |-> ss.streams[id].total_bytes])

SequencesOK(ss) ==
  \A id \in DOMAIN ss.streams :
    LET st == ss.streams[id]
    IN  st.next_sequence = st.total_frames + 1 /\ st.total_frames = st.patch_frames

ClosedIdle(ss) == ss.state \in ClosedState => ActiveStreams(ss) = {}

(* new keeps what is finished or closed in old. *)
Frozen(old, new) ==
  /\ \A id \in DOMAIN old.streams \intersect DOMAIN new.streams :
       is_finished(old.streams[id]) => new.streams[id] = old.streams[id]
  /\ old.state \in ClosedState =>
       /\ new.state \in ClosedState
       /\ new.total_frames = old.total_frames
       /\ new.total_streams = old.total_streams

SessionInv(ss) ==
  /\ SessionOK(ss)
  /\ ActiveCountOK(ss)
  /\ CountersOK(ss)
  /\ SequencesOK(ss)
  /\ ClosedIdle(ss)

=============================================================================
