---------------------- MODULE SessionAggregate_proofs ----------------------
(***************************************************************************)
(* The invariants of SessionAggregate, for every instance.  The inductive  *)
(* invariant is SessionInv: the counters cannot be shown exact without     *)
(* knowing that a closed session has no active stream, for complete_stream *)
(* and fail_stream look at the stream only, and close does not decrement   *)
(* the active counter.  The frame and event ledgers need in addition that  *)
(* the totals are those of the streams, and that reported and pending      *)
(* events add up to them.                                                  *)
(***************************************************************************)
EXTENDS SessionAggregate, StreamSession_proofs

Inv == now \in Nat /\ SessionInv(session)

(* A new session satisfies the inductive invariant. *)
LEMMA InitInv == Init => Inv
  BY NewSessionInv DEF Init, Inv

(* A batch: the streams it visits are a permutation of the Streaming ones. *)
LEMMA CreatePriorityFramesInv ==
  ASSUME Inv, NEW threshold, NEW n, CreatePriorityFrames(threshold, n)
  PROVE  SessionInv(session')
<1> DEFINE S == InState(session, "Streaming")
           extracted == extract_for_active_streams(session, threshold)
<1>0. SessionInv(session)
  BY DEF Inv
<1>1. PICK order \in SetToSeqs(S) :
        session' = commit_priority_frames(
                     session, Candidates(session, extracted, order), n)
  BY DEF CreatePriorityFrames, FrameCall
<1>2. Cardinality(S) \in Nat
  BY FiniteParts DEF Inv, SessionInv, SessionOK
<1>3. order \in [1..Cardinality(S) -> S]
  BY <1>1 DEF SetToSeqs
<1>4. order \in Seq(S)
  BY <1>2, <1>3, SeqDef
<1>5. IsFiniteSet(DOMAIN Candidates(session, extracted, order))
  BY <1>4, CandidatesFinite
<1> QED
  BY <1>1, <1>5, CommitPriorityFramesInv DEF Inv

(* A single-stream generation: what it commits is what it extracted. *)
LEMMA CreateStreamPatchFramesInv ==
  ASSUME Inv, NEW id \in StreamId, NEW threshold, NEW n \in Nat,
         CreateStreamPatchFrames(id, threshold, n)
  PROVE  SessionInv(session')
<1> DEFINE patches == extract_for_stream(session, id, threshold)
<1>1. /\ session' = commit_for_stream(session, id, patches, n)
      /\ CanCommitForStream(session, id)
  BY DEF CreateStreamPatchFrames, FrameCall
<1>2. session.streams[id].source \in Seq(Patch(Path))
  BY <1>1, SourceAssumption
     DEF Inv, SessionInv, SessionOK, StreamOK, CanCommitForStream, HasStream
<1>3. PICK R : patches \in Seq(R)
  BY <1>2, ExtractIsSeq DEF extract_for_stream, extract_prioritized_patches
<1> QED
  BY <1>1, <1>3, CommitForStreamInv DEF Inv

(* Every call, and the clock, preserves the inductive invariant. *)
LEMMA NextInv == Inv /\ [Next]_vars => Inv'
<1> SUFFICES ASSUME Inv, [Next]_vars
             PROVE  Inv'
  OBVIOUS
<1>1. CASE UNCHANGED vars
  BY <1>1 DEF Inv, vars
<1>2. CASE Activate
  BY <1>2, ActivateInv DEF Activate, Call, Inv
<1>3. CASE Close
  BY <1>3, CloseInv DEF Close, Call, Inv
<1>4. CASE ForceCloseExpired
  BY <1>4, ForceCloseInv DEF ForceCloseExpired, Call, Inv
<1>5. CASE ExtendTimeout
  BY <1>5, ExtendTimeoutInv DEF ExtendTimeout, Call, Inv
<1>6. ASSUME NEW id \in StreamId, NEW source \in Source, CreateStream(id, source)
      PROVE  Inv'
  <2>1. RulesOK(<<>>)
    BY DEF RulesOK
  <2> QED
    BY <1>6, <2>1, CreateStreamInv DEF CreateStream, Call, Inv
<1>7. ASSUME NEW id \in StreamId, NEW source \in Source, NEW rules \in Rules,
             CreateStreamWithConfig(id, source, rules)
      PROVE  Inv'
  BY <1>7, RulesAssumption, CreateStreamWithConfigInv DEF CreateStreamWithConfig, Call, Inv
<1>8. ASSUME NEW id \in StreamId, StartStream(id)
      PROVE  Inv'
  BY <1>8, StartStreamInv DEF StartStream, Call, Inv
<1>9. ASSUME NEW id \in StreamId, CompleteStream(id)
      PROVE  Inv'
  BY <1>9, CompleteStreamInv DEF CompleteStream, Call, Inv
<1>10. ASSUME NEW id \in StreamId, FailStream(id)
       PROVE  Inv'
  BY <1>10, FailStreamInv DEF FailStream, Call, Inv
<1>11. ASSUME NEW id \in StreamId, NEW rules \in Rules, UpdateStreamConfig(id, rules)
       PROVE  Inv'
  BY <1>11, RulesAssumption, UpdateStreamConfigInv DEF UpdateStreamConfig, Call, Inv
<1>12. ASSUME NEW id \in StreamId, NEW t \in Threshold, NEW n \in FrameLimit,
              CreateStreamPatchFrames(id, t, n)
       PROVE  Inv'
  <2>1. SessionInv(session')
    BY <1>12, FrameLimitAssumption, CreateStreamPatchFramesInv
  <2> QED
    BY <1>12, <2>1 DEF CreateStreamPatchFrames, FrameCall, Inv
<1>13. ASSUME NEW t \in Threshold, NEW n \in FrameLimit, CreatePriorityFrames(t, n)
       PROVE  Inv'
  <2>1. SessionInv(session')
    BY <1>13, CreatePriorityFramesInv
  <2> QED
    BY <1>13, <2>1 DEF CreatePriorityFrames, FrameCall, Inv
<1>14. CASE TakeEvents
  BY <1>14, EventsKeepInv DEF TakeEvents, Inv
<1>15. CASE Tick
  BY <1>15 DEF Tick, Inv
<1> QED
  BY <1>1, <1>2, <1>3, <1>4, <1>5, <1>6, <1>7, <1>8, <1>9, <1>10, <1>11, <1>12,
     <1>13, <1>14, <1>15 DEF Next

(***************************************************************************)
(* Every reachable session satisfies the inductive invariant.              *)
(***************************************************************************)
THEOREM Invariance == Spec => []Inv
  BY InitInv, NextInv, PTL DEF Spec

(* The record of a session keeps its type under every sequence of calls. *)
THEOREM TypeCorrect == Spec => []TypeOK
<1>1. Inv => TypeOK
  BY DEF Inv, SessionInv, TypeOK
<1> QED
  BY <1>1, Invariance, PTL

(* The stream counters are those of the streams, active_streams as long as *)
(* the session is open: the saturating decrements never saturate.          *)
THEOREM StreamLedgerCorrect == Spec => []StreamLedger
<1>1. Inv => StreamLedger
  BY DEF Inv, SessionInv, ActiveCountOK, CountersOK, StreamLedger
<1> QED
  BY <1>1, Invariance, PTL

(* No stream skips a sequence number, whatever commits are interleaved. *)
THEOREM SequenceDenseCorrect == Spec => []SequenceDense
<1>1. Inv => SequenceDense
  BY DEF Inv, SessionInv, SequenceDense
<1> QED
  BY <1>1, Invariance, PTL

(* A closed session holds no active stream. *)
THEOREM ClosedIdleCorrect == Spec => []ClosedSessionIdle
<1>1. Inv => ClosedSessionIdle
  BY DEF Inv, SessionInv, ClosedSessionIdle
<1> QED
  BY <1>1, Invariance, PTL

-----------------------------------------------------------------------------
(* What no step does. *)

(* A change to one active stream, with any event queued after it. *)
LEMMA OneStreamFrozen ==
  ASSUME NEW ss, NEW tt, NEW id, NEW st, SessionInv(ss), HasStream(ss, id),
         is_active(ss.streams[id]), tt.streams = [ss.streams EXCEPT ![id] = st]
  PROVE  Frozen(ss, tt)
<1>1. ss.state \notin ClosedState
  BY DEF SessionInv, ClosedIdle, ActiveStreams, HasStream
<1>2. ~is_finished(ss.streams[id])
  BY DEF is_finished, FinishedState, is_active
<1>3. \A i \in DOMAIN ss.streams : i # id => tt.streams[i] = ss.streams[i]
  OBVIOUS
<1> QED
  BY <1>1, <1>2, <1>3 DEF Frozen

(* The frames of a batch belong to streams that are Streaming. *)
LEMMA BatchFrozen ==
  ASSUME NEW ss, NEW extracted, NEW order, NEW n, SessionInv(ss),
         ss.state = "Active"
  PROVE  Frozen(ss, commit_priority_frames(ss, Candidates(ss, extracted, order), n))
<1> DEFINE c == Candidates(ss, extracted, order)
           tt == commit_priority_frames(ss, c, n)
           kept == Survivors(c, n)
<1>1. \A k \in DOMAIN c : CanCommitForStream(ss, c[k].stream)
  BY DEF Candidates
<1> HIDE DEF c
<1>2. ASSUME NEW id \in DOMAIN ss.streams, is_finished(ss.streams[id])
      PROVE  OfStream(c, kept, id) = {}
  BY <1>1, <1>2
     DEF OfStream, Survivors, CanCommitForStream, CanCreateFrames, is_finished, FinishedState
<1>3. \A id \in DOMAIN ss.streams :
        OfStream(c, kept, id) = {} => tt.streams[id] = ss.streams[id]
  BY DEF commit_priority_frames, WithBatchEvent, add_event,
         SessionInv, SessionOK, SessionField
<1> QED
  BY <1>2, <1>3 DEF Frozen, ClosedState, c

(* No call, and no tick, changes what is finished or closed. *)
LEMMA NextFrozen == Inv /\ [Next]_vars => Frozen(session, session')
<1> SUFFICES ASSUME Inv, [Next]_vars
             PROVE  Frozen(session, session')
  OBVIOUS
<1>0. DOMAIN session = SessionField /\ SessionInv(session)
  BY DEF Inv, SessionInv, SessionOK
<1>1. CASE UNCHANGED vars \/ Tick
  BY <1>1 DEF vars, Tick, Frozen
<1>2. CASE Activate
  <2>1. session.state = "Initializing" /\ session'.streams = session.streams
    BY <1>0, <1>2 DEF Activate, Call, CanActivate, activate, add_event, SessionField
  <2> QED
    BY <2>1 DEF Frozen, ClosedState
<1>3. CASE Close
  <2>1. /\ session.state = "Active"
        /\ session'.streams = CancelActive(session.streams)
    BY <1>0, <1>3 DEF Close, Call, CanClose, close, add_event, SessionField
  <2> QED
    BY <2>1 DEF Frozen, ClosedState, CancelActive, CanCancel, is_finished, FinishedState
<1>4. CASE ForceCloseExpired
  <2>1. /\ DOMAIN session'.streams = {} /\ session'.state = "Failed"
        /\ session'.total_frames = session.total_frames
        /\ session'.total_streams = session.total_streams
    BY <1>0, <1>4 DEF ForceCloseExpired, Call, force_close_expired, add_event, SessionField
  <2> QED
    BY <2>1 DEF Frozen, ClosedState
<1>5. CASE ExtendTimeout
  <2>1. /\ session'.streams = session.streams /\ session'.state = session.state
        /\ session'.total_frames = session.total_frames
        /\ session'.total_streams = session.total_streams
    BY <1>0, <1>5 DEF ExtendTimeout, Call, extend_timeout, add_event, SessionField
  <2> QED
    BY <2>1 DEF Frozen
<1>6. ASSUME NEW id \in StreamId, NEW source \in Source,
             CreateStream(id, source) \/ \E r \in Rules : CreateStreamWithConfig(id, source, r)
      PROVE  Frozen(session, session')
  <2>1. id \notin DOMAIN session.streams /\ session.state = "Active"
    BY <1>6 DEF CreateStream, CreateStreamWithConfig, Call, HasStream, CanCreateStream,
                SessionActive
  <2>2. \A r : create_stream(session, id, source, r).streams
                  = WithStream(session.streams, id, NewStream(id, source, r))
    BY <1>0 DEF create_stream, add_event, SessionField
  <2>3. \A r : DOMAIN create_stream(session, id, source, r) = SessionField
    BY <1>0 DEF create_stream, add_event
  <2>4. \A i \in DOMAIN session.streams : session'.streams[i] = session.streams[i]
    <3>1. CASE CreateStream(id, source)
      BY <2>1, <2>2, <3>1 DEF CreateStream, Call, WithStream
    <3>2. ASSUME NEW r \in Rules, CreateStreamWithConfig(id, source, r)
          PROVE  \A i \in DOMAIN session.streams : session'.streams[i] = session.streams[i]
      <4> DEFINE c == create_stream(session, id, source, <<>>)
      <4>1. session' = update_stream_config(c, id, r)
        BY <3>2 DEF CreateStreamWithConfig, Call, create_stream_with_config
      <4>2. DOMAIN c = SessionField
            /\ c.streams = WithStream(session.streams, id, NewStream(id, source, <<>>))
        BY <2>2, <2>3
      <4> HIDE DEF c
      <4>3. session'.streams = [c.streams EXCEPT ![id] = update_config(@, r)]
        BY <4>1, <4>2 DEF update_stream_config, add_event, SessionField
      <4> QED
        BY <2>1, <4>2, <4>3 DEF WithStream
    <3> QED
      BY <1>6, <3>1, <3>2
  <2> QED
    BY <2>1, <2>4 DEF Frozen, ClosedState
<1>7. ASSUME NEW id \in StreamId,
             \/ StartStream(id) \/ CompleteStream(id) \/ FailStream(id)
             \/ \E r \in Rules : UpdateStreamConfig(id, r)
             \/ \E t \in Threshold, n \in FrameLimit : CreateStreamPatchFrames(id, t, n)
      PROVE  Frozen(session, session')
  <2>1. HasStream(session, id) /\ is_active(session.streams[id])
    BY <1>7 DEF StartStream, CompleteStream, FailStream, UpdateStreamConfig,
                CreateStreamPatchFrames, Call, FrameCall, CanStartStream, CanCompleteStream,
                CanFailStream, CanUpdateStreamConfig, CanCommitForStream, CanStartStreaming,
                CanComplete, CanFail, CanUpdateConfig, CanCreateFrames, is_active
  <2>2. \E st : session'.streams = [session.streams EXCEPT ![id] = st]
    <3>1. CASE StartStream(id)
      BY <1>0, <3>1 DEF StartStream, Call, start_stream, add_event, SessionField
    <3>2. CASE CompleteStream(id)
      BY <1>0, <3>2 DEF CompleteStream, Call, complete_stream, add_event, SessionField
    <3>3. CASE FailStream(id)
      BY <1>0, <3>3 DEF FailStream, Call, fail_stream, add_event, SessionField
    <3>4. CASE \E r \in Rules : UpdateStreamConfig(id, r)
      BY <1>0, <3>4 DEF UpdateStreamConfig, Call, update_stream_config, add_event,
                        SessionField
    <3>5. CASE \E t \in Threshold, n \in FrameLimit : CreateStreamPatchFrames(id, t, n)
      <4>1. PICK t \in Threshold, n \in FrameLimit :
              session' = commit_for_stream(session, id, extract_for_stream(session, id, t), n)
        BY <3>5 DEF CreateStreamPatchFrames, FrameCall
      <4> DEFINE st == commit_patch_frames(session.streams[id],
                                           extract_for_stream(session, id, t), n)
      <4>2. session'.streams = [session.streams EXCEPT ![id] = st]
        BY <1>0, <4>1 DEF commit_for_stream, WithBatchEvent, add_event, SessionField
      <4> QED
        BY <4>2
    <3> QED
      BY <1>7, <3>1, <3>2, <3>3, <3>4, <3>5
  <2> QED
    BY <1>0, <2>1, <2>2, OneStreamFrozen
<1>8. ASSUME NEW t \in Threshold, NEW n \in FrameLimit, CreatePriorityFrames(t, n)
      PROVE  Frozen(session, session')
  <2>1. PICK order :
          /\ session' = commit_priority_frames(session,
               Candidates(session, extract_for_active_streams(session, t), order), n)
          /\ session.state = "Active"
    BY <1>8 DEF CreatePriorityFrames, FrameCall, CanCommitPriorityFrames, SessionActive
  <2> QED
    BY <1>0, <2>1, BatchFrozen
<1>9. CASE TakeEvents
  <2>1. /\ session'.streams = session.streams /\ session'.state = session.state
        /\ session'.total_frames = session.total_frames
        /\ session'.total_streams = session.total_streams
    BY <1>0, <1>9 DEF TakeEvents, take_events, SessionField
  <2> QED
    BY <2>1 DEF Frozen
<1> QED
  BY <1>1, <1>2, <1>3, <1>4, <1>5, <1>6, <1>7, <1>8, <1>9 DEF Next

(* No sequence of calls changes a finished stream or revives a closed      *)
(* session.                                                                *)
THEOREM FinishedIsFrozenCorrect == Spec => FinishedIsFrozen
  BY Invariance, NextFrozen, PTL DEF Spec, FinishedIsFrozen

-----------------------------------------------------------------------------
(* The frames of a call. *)

(* create_stream_patch_frames *)
LEMMA StreamBatchContract ==
  ASSUME Inv, NEW id \in StreamId, NEW threshold, NEW n \in Nat,
         CreateStreamPatchFrames(id, threshold, n)
  PROVE  BatchContract'
<1> DEFINE patches == extract_for_stream(session, id, threshold)
<1>1. /\ session' = commit_for_stream(session, id, patches, n)
      /\ batch' = FramesForStream(session, id, patches, n)
      /\ CanCommitForStream(session, id)
  BY DEF CreateStreamPatchFrames, FrameCall
<1>2. Descending(patches) /\ \E R : patches \in Seq(R)
  BY <1>1, ExtractedDescends DEF Inv, extract_for_stream, CanCommitForStream, HasStream
<1>3. Contract(session', batch')
  BY <1>1, <1>2, ForStreamContract DEF Inv
<1> QED
  BY <1>3 DEF Contract, BatchContract, HasStream

(* create_priority_frames: the walk visits no stream twice. *)
LEMMA PriorityBatchContract ==
  ASSUME Inv, NEW threshold, NEW n, CreatePriorityFrames(threshold, n)
  PROVE  BatchContract'
<1> DEFINE S == InState(session, "Streaming")
           extracted == extract_for_active_streams(session, threshold)
<1>0. SessionInv(session)
  BY DEF Inv
<1>1. PICK order \in SetToSeqs(S) :
        /\ session' = commit_priority_frames(session, Candidates(session, extracted, order), n)
        /\ batch' = PriorityFrames(session, Candidates(session, extracted, order), n)
  BY DEF CreatePriorityFrames, FrameCall
<1>2. Cardinality(S) \in Nat
  BY FiniteParts DEF Inv, SessionInv, SessionOK
<1>3. /\ order \in [1..Cardinality(S) -> S]
      /\ \A i, j \in DOMAIN order : order[i] = order[j] => i = j
  BY <1>1 DEF SetToSeqs
<1>4. order \in Seq(S)
  BY <1>2, <1>3, SeqDef
<1>5. ASSUME NEW i \in DOMAIN order
      PROVE  Descending(chunk_patches_for_commit(extracted[order[i]], MaxCandidatesPerStream))
  <2>1. order[i] \in S /\ order[i] \in DOMAIN session.streams
    BY <1>3 DEF InState
  <2>2. extracted[order[i]] = extract_prioritized_patches(session.streams[order[i]], threshold)
    BY <2>1 DEF extract_for_active_streams
  <2>3. MaxCandidatesPerStream \in Nat
    BY DEF MaxCandidatesPerStream
  <2> HIDE DEF extracted
  <2> DEFINE patches == extract_prioritized_patches(session.streams[order[i]], threshold)
  <2>4. Descending(patches) /\ \E R : patches \in Seq(R)
    BY <1>0, <2>1, ExtractedDescends
  <2> HIDE DEF patches
  <2>5. Descending(chunk_patches_for_commit(patches, MaxCandidatesPerStream))
    BY <2>3, <2>4, ChunksDescend
  <2> QED
    BY <2>2, <2>5 DEF patches
<1> DEFINE candidates == Candidates(session, extracted, order)
<1>6. IsFiniteSet(DOMAIN candidates)
  BY <1>4, CandidatesFinite
<1> HIDE DEF extracted
<1>7. /\ DOMAIN candidates \subseteq Int
      /\ \A k \in DOMAIN candidates : /\ candidates[k].priority \in Int
                                      /\ CanCommitForStream(session, candidates[k].stream)
      /\ \A k, m \in DOMAIN candidates :
           k < m /\ candidates[k].stream = candidates[m].stream =>
             candidates[k].priority >= candidates[m].priority
  BY <1>3, <1>4, <1>5, CandidatesDescend
<1> HIDE DEF candidates
<1>8. Contract(commit_priority_frames(session, candidates, n), PriorityFrames(session, candidates, n))
  BY <1>6, <1>7, PriorityContract DEF Inv
<1>9. Contract(session', batch')
  BY <1>1, <1>8 DEF candidates, extracted
<1> QED
  BY <1>9 DEF Contract, BatchContract, HasStream

(* Every other call returns no frames; draining events and the clock leave *)
(* the streams as they are.                                                *)
LEMMA NextContract == Inv /\ BatchContract /\ [Next]_vars => BatchContract'
<1> SUFFICES ASSUME Inv, BatchContract, [Next]_vars
             PROVE  BatchContract'
  OBVIOUS
<1>1. ASSUME batch' = <<>>
      PROVE  BatchContract'
  BY <1>1 DEF BatchContract
<1>2. ASSUME batch' = batch, session'.streams = session.streams
      PROVE  BatchContract'
  BY <1>2 DEF BatchContract, HasStream
<1>3. CASE TakeEvents
  <2>1. session'.streams = session.streams
    BY <1>3 DEF TakeEvents, take_events, Inv, SessionInv, SessionOK, SessionField
  <2> QED
    BY <1>2, <1>3, <2>1 DEF TakeEvents
<1>4. CASE Tick \/ UNCHANGED vars
  BY <1>2, <1>4 DEF Tick, vars
<1>5. ASSUME NEW id \in StreamId, NEW t \in Threshold, NEW n \in FrameLimit,
             CreateStreamPatchFrames(id, t, n)
      PROVE  BatchContract'
  BY <1>5, FrameLimitAssumption, StreamBatchContract
<1>6. ASSUME NEW t \in Threshold, NEW n \in FrameLimit, CreatePriorityFrames(t, n)
      PROVE  BatchContract'
  BY <1>6, PriorityBatchContract
<1>7. CASE Activate \/ Close \/ ForceCloseExpired \/ ExtendTimeout
  BY <1>1, <1>7 DEF Activate, Close, ForceCloseExpired, ExtendTimeout, Call
<1>8. ASSUME NEW id \in StreamId,
             \/ \E source \in Source :
                  \/ CreateStream(id, source)
                  \/ \E rules \in Rules : CreateStreamWithConfig(id, source, rules)
             \/ StartStream(id) \/ CompleteStream(id) \/ FailStream(id)
             \/ \E rules \in Rules : UpdateStreamConfig(id, rules)
      PROVE  BatchContract'
  BY <1>1, <1>8 DEF CreateStream, CreateStreamWithConfig, StartStream, CompleteStream,
                    FailStream, UpdateStreamConfig, Call
<1> QED
  BY <1>3, <1>4, <1>5, <1>6, <1>7, <1>8 DEF Next

(***************************************************************************)
(* For every set of documents and rules, threshold, batch size and order   *)
(* in which the HashMap is walked: a batch is in descending priority, and  *)
(* the frames of each stream in it carry the last sequence numbers that    *)
(* the stream assigned, in ascending order and without a gap.              *)
(***************************************************************************)
THEOREM BatchContractCorrect == Spec => []BatchContract
<1>1. Init => BatchContract
  BY DEF Init, BatchContract
<1> QED
  BY <1>1, NextContract, Invariance, PTL DEF Spec

-----------------------------------------------------------------------------
(* The ledgers. *)

(* What was reported and what is queued, counter by counter. *)
Balanced ==
  LET q == session.pending_events
  IN  /\ reported.created + CountOf(q, "StreamCreated") = session.total_streams
      /\ reported.completed + CountOf(q, "StreamCompleted") = session.completed_streams
      /\ reported.failed + CountOf(q, "StreamFailed") = session.failed_streams
      /\ reported.frames + FramesIn(q) = session.total_frames

(***************************************************************************)
(* The two ledgers with the types that make them additions of natural      *)
(* numbers.                                                                *)
(***************************************************************************)
Ledgers ==
  /\ LedgerOK(session)
  /\ QueueOK(session.pending_events)
  /\ reported \in [created : Nat, completed : Nat, failed : Nat, frames : Nat]
  /\ Balanced

(* Nothing has happened in a new session. *)
LEMMA InitLedgers == Init => Ledgers
<1> SUFFICES ASSUME Init PROVE Ledgers
  OBVIOUS
<1>1. /\ session = NewSession(0) /\ reported \in [created : Nat, completed : Nat, failed : Nat, frames : Nat]
      /\ reported.created = 0 /\ reported.completed = 0 /\ reported.failed = 0 /\ reported.frames = 0
  BY DEF Init
<1>2. LedgerOK(session) /\ session.pending_events = <<>>
  BY <1>1, NewLedger
<1>3. /\ session.total_streams = 0 /\ session.completed_streams = 0
      /\ session.failed_streams = 0 /\ session.total_frames = 0
  BY <1>1 DEF NewSession
<1>4. Balanced
  BY <1>1, <1>2, <1>3, EmptyQueue DEF Balanced
<1> QED
  BY <1>1, <1>2, <1>4, EmptyQueue DEF Ledgers

(* A call whose counters move with its events keeps the balance. *)
LEMMA CallLedgers ==
  ASSUME Inv, Ledgers, Accounted(session, session'), SessionInv(session'), reported' = reported
  PROVE  Ledgers'
<1> DEFINE q == session.pending_events
           r == session'.pending_events
<1>1. LedgerOK(session') /\ Told(session, session') /\ QueueOK(r) /\ QueueOK(q)
  BY DEF Accounted, Told, Ledgers
<1>2. /\ (\A type : CountOf(q, type) \in Nat /\ CountOf(r, type) \in Nat)
      /\ FramesIn(q) \in Nat /\ FramesIn(r) \in Nat
  BY <1>1, CountType
<1>3. /\ session.total_streams \in Nat /\ session.completed_streams \in Nat
      /\ session.failed_streams \in Nat /\ session.total_frames \in Nat
      /\ session'.total_streams \in Nat /\ session'.completed_streams \in Nat
      /\ session'.failed_streams \in Nat /\ session'.total_frames \in Nat
  BY DEF Inv, SessionInv, SessionOK
<1>4. /\ reported.created \in Nat /\ reported.completed \in Nat
      /\ reported.failed \in Nat /\ reported.frames \in Nat
  BY DEF Ledgers
<1>5. reported.created + CountOf(r, "StreamCreated") = session'.total_streams
  <2>1. /\ reported.created + CountOf(q, "StreamCreated") = session.total_streams
        /\ CountOf(r, "StreamCreated") - CountOf(q, "StreamCreated")
             = session'.total_streams - session.total_streams
        /\ CountOf(r, "StreamCreated") \in Nat /\ CountOf(q, "StreamCreated") \in Nat
    BY <1>1, <1>2 DEF Ledgers, Balanced, Told
  <2> QED
    BY <1>3, <1>4, <2>1
<1>6. reported.completed + CountOf(r, "StreamCompleted") = session'.completed_streams
  <2>1. /\ reported.completed + CountOf(q, "StreamCompleted") = session.completed_streams
        /\ CountOf(r, "StreamCompleted") - CountOf(q, "StreamCompleted")
             = session'.completed_streams - session.completed_streams
        /\ CountOf(r, "StreamCompleted") \in Nat /\ CountOf(q, "StreamCompleted") \in Nat
    BY <1>1, <1>2 DEF Ledgers, Balanced, Told
  <2> QED
    BY <1>3, <1>4, <2>1
<1>7. reported.failed + CountOf(r, "StreamFailed") = session'.failed_streams
  <2>1. /\ reported.failed + CountOf(q, "StreamFailed") = session.failed_streams
        /\ CountOf(r, "StreamFailed") - CountOf(q, "StreamFailed")
             = session'.failed_streams - session.failed_streams
        /\ CountOf(r, "StreamFailed") \in Nat /\ CountOf(q, "StreamFailed") \in Nat
    BY <1>1, <1>2 DEF Ledgers, Balanced, Told
  <2> QED
    BY <1>3, <1>4, <2>1
<1>8. reported.frames + FramesIn(r) = session'.total_frames
  <2>1. /\ reported.frames + FramesIn(q) = session.total_frames
        /\ FramesIn(r) - FramesIn(q) = session'.total_frames - session.total_frames
    BY <1>1 DEF Ledgers, Balanced, Told
  <2> QED
    BY <1>2, <1>3, <1>4, <2>1
<1>9. Balanced'
  BY <1>5, <1>6, <1>7, <1>8 DEF Balanced
<1> QED
  BY <1>1, <1>9 DEF Ledgers

(* Draining moves what is queued to what was reported. *)
LEMMA TakeEventsLedgers ==
  ASSUME Inv, Ledgers, TakeEvents
  PROVE  Ledgers'
<1> DEFINE q == session.pending_events
<1>1. /\ session' = take_events(session)
      /\ reported' = AddTally(reported, Tally(q))
  BY DEF TakeEvents
<1>2. LedgerOK(session') /\ session'.pending_events = <<>>
  BY <1>1, TakeEventsLedger DEF Inv, Ledgers
<1>3. /\ session'.total_streams = session.total_streams
      /\ session'.completed_streams = session.completed_streams
      /\ session'.failed_streams = session.failed_streams
      /\ session'.total_frames = session.total_frames
  BY <1>1 DEF take_events, Inv, SessionInv, SessionOK, SessionField
<1>4. (\A type : CountOf(q, type) \in Nat) /\ FramesIn(q) \in Nat
  BY CountType DEF Ledgers
<1>5. DOMAIN reported = {"created", "completed", "failed", "frames"}
  BY DEF Ledgers
<1>6. /\ DOMAIN reported' = {"created", "completed", "failed", "frames"}
      /\ reported' = [field \in DOMAIN reported' |-> reported'[field]]
      /\ reported'.created = reported.created + CountOf(q, "StreamCreated")
      /\ reported'.completed = reported.completed + CountOf(q, "StreamCompleted")
      /\ reported'.failed = reported.failed + CountOf(q, "StreamFailed")
      /\ reported'.frames = reported.frames + FramesIn(q)
  BY <1>1, <1>5 DEF AddTally, Tally
<1>7. /\ reported.created \in Nat /\ reported.completed \in Nat
      /\ reported.failed \in Nat /\ reported.frames \in Nat
  BY DEF Ledgers
<1>8. /\ reported'.created \in Nat /\ reported'.completed \in Nat
      /\ reported'.failed \in Nat /\ reported'.frames \in Nat
  BY <1>4, <1>6, <1>7
<1>9. reported' \in [created : Nat, completed : Nat, failed : Nat, frames : Nat]
  BY <1>6, <1>8
<1>10. Balanced'
  BY <1>2, <1>3, <1>6, <1>8, EmptyQueue DEF Balanced, Ledgers
<1> QED
  BY <1>2, <1>9, <1>10, EmptyQueue DEF Ledgers

(* create_stream_patch_frames *)
LEMMA StreamFramesAccounted ==
  ASSUME Inv, Ledgers, NEW id \in StreamId, NEW threshold, NEW n \in Nat,
         CreateStreamPatchFrames(id, threshold, n)
  PROVE  Accounted(session, session')
<1> DEFINE patches == extract_for_stream(session, id, threshold)
<1>1. /\ session' = commit_for_stream(session, id, patches, n)
      /\ CanCommitForStream(session, id)
  BY DEF CreateStreamPatchFrames, FrameCall
<1>2. \E R : patches \in Seq(R)
  BY <1>1, ExtractedDescends DEF Inv, extract_for_stream, CanCommitForStream, HasStream
<1> HIDE DEF patches
<1> QED
  BY <1>1, <1>2, CommitForStreamAccounted DEF Inv, Ledgers

(* create_priority_frames *)
LEMMA PriorityFramesAccounted ==
  ASSUME Inv, Ledgers, NEW threshold, NEW n, CreatePriorityFrames(threshold, n)
  PROVE  Accounted(session, session')
<1> DEFINE S == InState(session, "Streaming")
           extracted == extract_for_active_streams(session, threshold)
<1>0. SessionInv(session)
  BY DEF Inv
<1>1. PICK order \in SetToSeqs(S) :
        session' = commit_priority_frames(session, Candidates(session, extracted, order), n)
  BY DEF CreatePriorityFrames, FrameCall
<1>2. Cardinality(S) \in Nat
  BY FiniteParts DEF Inv, SessionInv, SessionOK
<1>3. order \in [1..Cardinality(S) -> S]
  BY <1>1 DEF SetToSeqs
<1>4. order \in Seq(S)
  BY <1>2, <1>3, SeqDef
<1>5. ASSUME NEW i \in DOMAIN order PROVE \E X : extracted[order[i]] \in Seq(X)
  <2>1. order[i] \in S /\ order[i] \in DOMAIN session.streams
    BY <1>3 DEF InState
  <2>2. extracted[order[i]] = extract_prioritized_patches(session.streams[order[i]], threshold)
    BY <2>1 DEF extract_for_active_streams
  <2> HIDE DEF extracted
  <2>3. \E X : extract_prioritized_patches(session.streams[order[i]], threshold) \in Seq(X)
    BY <1>0, <2>1, ExtractedDescends
  <2> QED
    BY <2>2, <2>3
<1> DEFINE candidates == Candidates(session, extracted, order)
<1>6. IsFiniteSet(DOMAIN candidates)
  BY <1>4, CandidatesFinite
<1>7. \A k \in DOMAIN candidates : CanCommitForStream(session, candidates[k].stream)
  BY DEF Candidates
<1>8. DOMAIN candidates \subseteq Int
  <2>1. DOMAIN candidates \subseteq 1..(MaxCandidatesPerStream * Len(order))
    BY DEF Candidates
  <2>2. MaxCandidatesPerStream * Len(order) \in Int
    BY <1>4, LenProperties DEF MaxCandidatesPerStream
  <2> HIDE DEF candidates
  <2> QED
    BY <2>1, <2>2
<1> HIDE DEF extracted
<1>9. \A k \in DOMAIN candidates : Len(candidates[k].patches) \in Nat
  BY <1>4, <1>5, CandidateLengths
<1> HIDE DEF candidates
<1>10. Accounted(session, commit_priority_frames(session, candidates, n))
  BY <1>6, <1>7, <1>8, <1>9, CommitPriorityFramesAccounted DEF Inv, Ledgers
<1> QED
  BY <1>1, <1>10 DEF candidates, extracted

(* Every call moves its counters with its events. *)
LEMMA NextLedgers == Inv /\ Ledgers /\ [Next]_vars => Ledgers'
<1> SUFFICES ASSUME Inv, Ledgers, [Next]_vars
             PROVE  Ledgers'
  OBVIOUS
<1>0. /\ SessionInv(session) /\ LedgerOK(session) /\ QueueOK(session.pending_events)
      /\ SessionInv(session')
  BY NextInv DEF Inv, Ledgers
<1>1. ASSUME Accounted(session, session'), reported' = reported PROVE Ledgers'
  BY <1>0, <1>1, CallLedgers
<1>2. CASE UNCHANGED vars \/ Tick
  BY <1>2 DEF vars, Tick, Ledgers, Balanced
<1>3. CASE Activate
  <2>1. CanActivate(session) /\ session' = activate(session) /\ reported' = reported /\ 0 \in Nat
    BY <1>3 DEF Activate, Call
  <2> QED
    BY <1>0, <1>1, <2>1, SessionAccounted
<1>4. CASE Close
  BY <1>0, <1>1, <1>4, CloseAccounted DEF Close, Call
<1>5. CASE ForceCloseExpired
  BY <1>0, <1>1, <1>5, ForceCloseAccounted DEF ForceCloseExpired, Call
<1>6. CASE ExtendTimeout
  BY <1>0, <1>1, <1>6, SessionAccounted DEF ExtendTimeout, Call
<1>7. ASSUME NEW id \in StreamId, NEW source \in Source, CreateStream(id, source)
      PROVE  Ledgers'
  BY <1>0, <1>1, <1>7, CreateStreamAccounted DEF CreateStream, Call
<1>8. ASSUME NEW id \in StreamId, NEW source \in Source, NEW rules \in Rules,
             CreateStreamWithConfig(id, source, rules)
      PROVE  Ledgers'
  BY <1>0, <1>1, <1>8, RulesAssumption, CreateStreamWithConfigAccounted
     DEF CreateStreamWithConfig, Call
<1>9. ASSUME NEW id \in StreamId,
             \/ StartStream(id) \/ CompleteStream(id) \/ FailStream(id)
             \/ \E rules \in Rules : UpdateStreamConfig(id, rules)
      PROVE  Ledgers'
  <2>1. CASE StartStream(id)
    BY <1>0, <1>1, <2>1, StreamAccounted DEF StartStream, Call, CanStartStream
  <2>2. CASE CompleteStream(id)
    BY <1>0, <1>1, <2>2, StreamAccounted DEF CompleteStream, Call, CanCompleteStream
  <2>3. CASE FailStream(id)
    BY <1>0, <1>1, <2>3, StreamAccounted DEF FailStream, Call, CanFailStream
  <2>4. ASSUME NEW rules \in Rules, UpdateStreamConfig(id, rules) PROVE Ledgers'
    BY <1>0, <1>1, <2>4, StreamAccounted DEF UpdateStreamConfig, Call, CanUpdateStreamConfig
  <2> QED
    BY <1>9, <2>1, <2>2, <2>3, <2>4
<1>10. ASSUME NEW id \in StreamId, NEW t \in Threshold, NEW n \in FrameLimit,
              CreateStreamPatchFrames(id, t, n)
       PROVE  Ledgers'
  <2>1. Accounted(session, session')
    BY <1>10, FrameLimitAssumption, StreamFramesAccounted
  <2> QED
    BY <1>1, <1>10, <2>1 DEF CreateStreamPatchFrames, FrameCall
<1>11. ASSUME NEW t \in Threshold, NEW n \in FrameLimit, CreatePriorityFrames(t, n)
       PROVE  Ledgers'
  <2>1. Accounted(session, session')
    BY <1>11, PriorityFramesAccounted
  <2> QED
    BY <1>1, <1>11, <2>1 DEF CreatePriorityFrames, FrameCall
<1>12. CASE TakeEvents
  BY <1>12, TakeEventsLedgers
<1> QED
  BY <1>2, <1>3, <1>4, <1>5, <1>6, <1>7, <1>8, <1>9, <1>10, <1>11, <1>12 DEF Next

(* Both ledgers are exact in every reachable state. *)
THEOREM LedgersInvariant == Spec => []Ledgers
  BY InitLedgers, NextLedgers, Invariance, PTL DEF Spec

(***************************************************************************)
(* Whatever documents, thresholds and batch sizes: the session's frame and *)
(* byte totals are the sums of its streams', although the two commit paths *)
(* compute what they add in different ways.                                *)
(***************************************************************************)
THEOREM FrameLedgerCorrect == Spec => []FrameLedger
<1>1. Ledgers => FrameLedger
  BY DEF Ledgers, LedgerOK, FrameLedger
<1> QED
  BY <1>1, LedgersInvariant, PTL

(***************************************************************************)
(* The events drained so far and those still queued add up to the          *)
(* session's statistics, however long the queue is and whenever it is      *)
(* drained.                                                                *)
(***************************************************************************)
THEOREM EventLedgerCorrect == Spec => []EventLedger
<1>1. Ledgers => EventLedger
  <2> SUFFICES ASSUME Ledgers PROVE EventLedger
    OBVIOUS
  <2> DEFINE sum == AddTally(reported, Tally(session.pending_events))
             stats == [created   |-> session.total_streams,
                       completed |-> session.completed_streams,
                       failed    |-> session.failed_streams,
                       frames    |-> session.total_frames]
  <2>1. DOMAIN reported = {"created", "completed", "failed", "frames"}
    BY DEF Ledgers
  <2>2. /\ sum = [field \in {"created", "completed", "failed", "frames"} |-> sum[field]]
        /\ sum.created = session.total_streams /\ sum.completed = session.completed_streams
        /\ sum.failed = session.failed_streams /\ sum.frames = session.total_frames
    BY <2>1 DEF AddTally, Tally, Ledgers, Balanced
  <2> HIDE DEF sum
  <2>3. sum = stats
    BY <2>2
  <2> QED
    BY <2>3 DEF EventLedger, sum
<1> QED
  BY <1>1, LedgersInvariant, PTL

=============================================================================
