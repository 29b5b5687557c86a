-------------------------- MODULE SessionAggregate --------------------------
(***************************************************************************)
(* One StreamSession under every sequence of its public methods, with the  *)
(* clock running: crates/pjs-core/src/domain/aggregates/stream_session.rs. *)
(* A call that returns Err changes nothing and is no step here.            *)
(***************************************************************************)
EXTENDS StreamSession

CONSTANTS
  Rules,         \* priority_rules maps a caller can supply
  Threshold,     \* priority thresholds a caller can ask for
  FrameLimit,    \* max_frames / batch_size values a caller can ask for
  MaxTime,       \* bound on the clock
  MaxFrames,     \* bound on the frames one session commits
  MaxPending,    \* bound on undrained events
  MaxExpiry      \* bound on the expiry instant extend_timeout reaches

ASSUME RulesAssumption == \A rules \in Rules : RulesOK(rules)
ASSUME FrameLimitAssumption == FrameLimit \subseteq Nat

VARIABLES
  session,       \* the aggregate
  now,           \* the TimeProvider's reading
  batch,         \* the frames the last frame-producing call returned
  reported       \* what the drained events said, added up

vars == <<session, now, batch, reported>>

Init ==
  /\ now = 0
  /\ session = NewSession(0)
  /\ batch = <<>>
  /\ reported = [created |-> 0, completed |-> 0, failed |-> 0, frames |-> 0]

-----------------------------------------------------------------------------
(* Adding up what the events say. *)

Tally(events) ==
  [created   |-> CountOf(events, "StreamCreated"),
   completed |-> CountOf(events, "StreamCompleted"),
   failed    |-> CountOf(events, "StreamFailed"),
   frames    |-> FramesIn(events)]

AddTally(a, b) == [field \in DOMAIN a |-> a[field] + b[field]]

-----------------------------------------------------------------------------

(* A call that returns no frames and may raise one event. *)
Call(guard, result) ==
  /\ guard
  /\ Len(result.pending_events) <= MaxPending
  /\ session' = result
  /\ batch' = <<>>
  /\ UNCHANGED <<now, reported>>

Activate == Call(CanActivate(session), activate(session))

Close == Call(CanClose(session), close(session))

ForceCloseExpired == Call(CanForceClose(session, now), force_close_expired(session))

ExtendTimeout ==
  /\ session.expires_at < MaxExpiry
  /\ Call(CanExtendTimeout(session, now), extend_timeout(session, 1))

(* StreamId::new draws an identifier that is in use nowhere. *)
CreateStream(id, source) ==
  /\ ~HasStream(session, id)
  /\ Call(CanCreateStream(session, now), create_stream(session, id, source, <<>>))

CreateStreamWithConfig(id, source, rules) ==
  /\ ~HasStream(session, id)
  /\ Call(CanCreateStream(session, now),
          create_stream_with_config(session, id, source, rules))

UpdateStreamConfig(id, rules) ==
  Call(CanUpdateStreamConfig(session, id), update_stream_config(session, id, rules))

StartStream(id) == Call(CanStartStream(session, id), start_stream(session, id))

CompleteStream(id) == Call(CanCompleteStream(session, id), complete_stream(session, id))

FailStream(id) == Call(CanFailStream(session, id), fail_stream(session, id))

(* A call that returns frames. *)
FrameCall(guard, result, frames) ==
  /\ guard
  /\ result.total_frames <= MaxFrames
  /\ Len(result.pending_events) <= MaxPending
  /\ session' = result
  /\ batch' = frames
  /\ UNCHANGED <<now, reported>>

CreateStreamPatchFrames(id, threshold, max_frames) ==
  LET patches == extract_for_stream(session, id, threshold)
  IN  FrameCall(CanExtractForStream(session, id) /\ CanCommitForStream(session, id),
                commit_for_stream(session, id, patches, max_frames),
                FramesForStream(session, id, patches, max_frames))

CreatePriorityFrames(threshold, batch_size) ==
  \E order \in SetToSeqs(InState(session, "Streaming")) :
    LET extracted == extract_for_active_streams(session, threshold)
        candidates == Candidates(session, extracted, order)
    IN  FrameCall(CanCommitPriorityFrames(session, now),
                  commit_priority_frames(session, candidates, batch_size),
                  PriorityFrames(session, candidates, batch_size))

(* take_events: the caller drains the queue and publishes what it held. *)
TakeEvents ==
  /\ session.pending_events # <<>>
  /\ reported' = AddTally(reported, Tally(session.pending_events))
  /\ session' = take_events(session)
  /\ UNCHANGED <<now, batch>>

Tick ==
  /\ now < MaxTime
  /\ now' = now + 1
  /\ UNCHANGED <<session, batch, reported>>

Next ==
  \/ Activate \/ Close \/ ForceCloseExpired \/ ExtendTimeout
  \/ \E id \in StreamId :
       \/ \E source \in Source :
            \/ CreateStream(id, source)
            \/ \E rules \in Rules : CreateStreamWithConfig(id, source, rules)
       \/ StartStream(id) \/ CompleteStream(id) \/ FailStream(id)
       \/ \E rules \in Rules : UpdateStreamConfig(id, rules)
       \/ \E t \in Threshold, n \in FrameLimit : CreateStreamPatchFrames(id, t, n)
  \/ \E t \in Threshold, n \in FrameLimit : CreatePriorityFrames(t, n)
  \/ TakeEvents
  \/ Tick

Spec == Init /\ [][Next]_vars

-----------------------------------------------------------------------------

(* Types, except those of the byte counts, which FrameLedger covers. *)
TypeOK == now \in Nat /\ SessionOK(session)

(***************************************************************************)
(* The session's stream counters are those of its streams: total_streams   *)
(* the streams hosted, completed_streams and failed_streams the ones that  *)
(* ended so, and, while the session is open, active_streams those that are *)
(* Preparing or Streaming, so that the saturating decrements of            *)
(* complete_stream and fail_stream never saturate.  Nothing is said of     *)
(* active_streams once close or force_close_expired has cancelled streams: *)
(* they leave the counter as it was.                                       *)
(***************************************************************************)
StreamLedger ==
  /\ session.state \notin ClosedState =>
       session.active_streams = Cardinality(ActiveStreams(session))
  /\ session.state # "Failed" =>
       /\ session.total_streams = Cardinality(DOMAIN session.streams)
       /\ session.completed_streams = Cardinality(InState(session, "Completed"))
       /\ session.failed_streams = Cardinality(InState(session, "Failed"))

(***************************************************************************)
(* The session's frame and byte totals are the sums of its streams',       *)
(* although commit_patch_frames_for_stream adds a before/after delta and   *)
(* commit_priority_frames re-adds the sizes of the frames it kept: a       *)
(* candidate cut by batch_size is counted by neither side.                 *)
(***************************************************************************)
FrameLedger == FramesAddUp(session)

(***************************************************************************)
(* A stream's next sequence number is one more than the frames it has      *)
(* produced: no sequence number is skipped or spent on a candidate that    *)
(* commit_priority_frames discarded.                                       *)
(***************************************************************************)
SequenceDense == SequencesOK(session)

(***************************************************************************)
(* The frames a call returned are in descending priority, and those of one *)
(* stream carry consecutive ascending sequence numbers up to the last one  *)
(* it assigned: the re-sort of commit_priority_frames never swaps two      *)
(* frames of a stream, which the grouping of persist_frames relies on.     *)
(***************************************************************************)
BatchContract ==
  /\ \A i, j \in DOMAIN batch : i < j => batch[i].priority >= batch[j].priority
  /\ \A i \in DOMAIN batch :
       LET id == batch[i].stream
           later == {j \in DOMAIN batch : j > i /\ batch[j].stream = id}
       IN  /\ HasStream(session, id)
           /\ batch[i].sequence = session.streams[id].next_sequence - 1 - Cardinality(later)

(***************************************************************************)
(* A consumer that adds up the drained events arrives at the session's own *)
(* statistics, whenever the queue is drained and whatever is still in it.  *)
(***************************************************************************)
EventLedger ==
  AddTally(reported, Tally(session.pending_events)) =
    [created   |-> session.total_streams,
     completed |-> session.completed_streams,
     failed    |-> session.failed_streams,
     frames    |-> session.total_frames]

(***************************************************************************)
(* A closed or timed-out session holds no active stream, so that no later  *)
(* start_stream or commit, neither of which looks at the session's state,  *)
(* can produce anything.                                                   *)
(***************************************************************************)
ClosedSessionIdle == ClosedIdle(session)

(***************************************************************************)
(* A finished stream never changes again, and a session that left Active   *)
(* commits no frame and hosts no new stream.                               *)
(***************************************************************************)
FinishedIsFrozen == [][Frozen(session, session')]_vars

=============================================================================
