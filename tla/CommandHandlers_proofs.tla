------------------------ MODULE CommandHandlers_proofs ------------------------
(***************************************************************************)
(* Commands that extract from a snapshot and commit under the lock         *)
(* implement the atomic commands of SessionService, for any number of      *)
(* concurrent handlers, streams and documents; the stored session keeps    *)
(* the invariant of the aggregate throughout; and every event and every    *)
(* frame of it is accounted for, whatever the handlers that carry them do  *)
(* and wherever they are dropped.                                          *)
(***************************************************************************)
EXTENDS CommandHandlers, StreamSession_proofs

(***************************************************************************)
(* What a handler took out of its snapshot is still what it would find     *)
(* now: no command removes a stream from a stored session, or changes the  *)
(* document or the rules of one.                                           *)
(***************************************************************************)
ExtractionFresh(h) ==
  task[h].pc = "commit" =>
    LET arg == task[h].arg
    IN  /\ Stored
        /\ arg.id \in DOMAIN session.streams
        /\ arg.max_frames \in FrameLimit
        /\ \E t \in Threshold : arg.patches = extract_for_stream(session, arg.id, t)

BatchFresh(h) ==
  task[h].pc = "batch_commit" =>
    LET arg == task[h].arg
    IN  /\ Stored
        /\ arg.batch_size \in FrameLimit
        /\ \E t \in Threshold : \E visited \in SUBSET DOMAIN session.streams :
             /\ arg.order \in SetToSeqs(visited)
             /\ arg.extracted = [id \in visited |-> extract_for_stream(session, id, t)]

StoredOK == Stored => SessionInv(session) /\ session.pending_events = <<>>

TasksOK ==
  /\ DOMAIN task = Handler
  /\ \A h \in Handler : DOMAIN task[h] = {"pc", "events", "frames", "arg"} /\ task[h].pc \in TaskPc

HandlerInv ==
  /\ now \in Nat
  /\ StoredOK
  /\ TasksOK
  /\ \A h \in Handler : ExtractionFresh(h) /\ BatchFresh(h)

-----------------------------------------------------------------------------
(* Documents and rules. *)

(* new has every stream of old, with its document and its rules. *)
KeepsDocuments(old, new) ==
  /\ DOMAIN old.streams \subseteq DOMAIN new.streams
  /\ \A id \in DOMAIN old.streams :
       /\ new.streams[id].source = old.streams[id].source
       /\ new.streams[id].rules = old.streams[id].rules

(* A session that satisfies the invariant is not NoSession. *)
LEMMA SessionIsStored ==
  ASSUME NEW ss, SessionInv(ss)
  PROVE  ss # NoSession
  BY DEF SessionInv, SessionOK, SessionState, NoSession

(* Queueing or draining events leaves the streams alone. *)
LEMMA EventsKeepStreams ==
  ASSUME NEW ss, NEW e, NEW n, SessionInv(ss)
  PROVE  /\ add_event(ss, e).streams = ss.streams
         /\ take_events(ss).streams = ss.streams
         /\ take_events(ss).pending_events = <<>>
         /\ WithBatchEvent(ss, n).streams = ss.streams
  BY DEF add_event, take_events, WithBatchEvent, SessionInv, SessionOK, SessionField

(* Recording frames changes counters only. *)
LEMMA RecordKeepsDocument ==
  ASSUME NEW id, NEW st, NEW frames, StreamOK(id, st)
  PROVE  /\ record_frames_created(st, frames).source = st.source
         /\ record_frames_created(st, frames).rules = st.rules
  BY DEF record_frames_created, StreamOK, StreamField

(* Creating a stream keeps the others. *)
LEMMA CreateKeepsDocuments ==
  ASSUME NEW ss, NEW id, NEW source, NEW rules, SessionInv(ss), ~HasStream(ss, id)
  PROVE  /\ KeepsDocuments(ss, create_stream(ss, id, source, rules))
         /\ KeepsDocuments(ss, create_stream_with_config(ss, id, source, rules))
<1>0. DOMAIN ss = SessionField /\ id \notin DOMAIN ss.streams
  BY DEF SessionInv, SessionOK, HasStream
<1>1. \A r : /\ create_stream(ss, id, source, r).streams
                  = WithStream(ss.streams, id, NewStream(id, source, r))
             /\ DOMAIN create_stream(ss, id, source, r) = SessionField
  BY <1>0 DEF create_stream, add_event, SessionField
<1>2. KeepsDocuments(ss, create_stream(ss, id, source, rules))
  BY <1>0, <1>1 DEF KeepsDocuments, WithStream
<1> DEFINE c == create_stream(ss, id, source, <<>>)
<1>3. /\ DOMAIN c = SessionField
      /\ DOMAIN c.streams = DOMAIN ss.streams \union {id}
      /\ \A i \in DOMAIN ss.streams : c.streams[i] = ss.streams[i]
  BY <1>0, <1>1 DEF WithStream
<1> HIDE DEF c
<1>4. update_stream_config(c, id, rules).streams = [c.streams EXCEPT ![id] = update_config(@, rules)]
  BY <1>3 DEF update_stream_config, add_event, SessionField
<1>5. KeepsDocuments(ss, update_stream_config(c, id, rules))
  BY <1>0, <1>3, <1>4 DEF KeepsDocuments
<1> QED
  BY <1>2, <1>5 DEF create_stream_with_config, c

(* A change of one stream's state. *)
LEMMA OneStreamKeepsDocuments ==
  ASSUME NEW ss, NEW tt, NEW id, NEW st, SessionInv(ss),
         tt.streams = [ss.streams EXCEPT ![id] = st],
         HasStream(ss, id) => /\ st.source = ss.streams[id].source
                              /\ st.rules = ss.streams[id].rules
  PROVE  KeepsDocuments(ss, tt)
  BY DEF KeepsDocuments, HasStream

(* Starting, completing and closing. *)
LEMMA LifecycleKeepsDocuments ==
  ASSUME NEW ss, NEW id, SessionInv(ss), HasStream(ss, id)
  PROVE  /\ KeepsDocuments(ss, start_stream(ss, id))
         /\ KeepsDocuments(ss, complete_stream(ss, id))
<1>0. DOMAIN ss = SessionField /\ DOMAIN ss.streams[id] = StreamField
  BY DEF SessionInv, SessionOK, StreamOK, HasStream
<1>1. start_stream(ss, id).streams = [ss.streams EXCEPT ![id] = start_streaming(ss.streams[id])]
  BY <1>0 DEF start_stream, add_event, SessionField
<1>2. complete_stream(ss, id).streams = [ss.streams EXCEPT ![id] = complete(ss.streams[id])]
  BY <1>0 DEF complete_stream, add_event, SessionField
<1>3. /\ start_streaming(ss.streams[id]).source = ss.streams[id].source
      /\ start_streaming(ss.streams[id]).rules = ss.streams[id].rules
      /\ complete(ss.streams[id]).source = ss.streams[id].source
      /\ complete(ss.streams[id]).rules = ss.streams[id].rules
  BY <1>0 DEF start_streaming, complete, StreamField
<1> QED
  BY <1>1, <1>2, <1>3, OneStreamKeepsDocuments

(* Closing a session cancels its streams and leaves their documents. *)
LEMMA CloseKeepsDocuments ==
  ASSUME NEW ss, SessionInv(ss)
  PROVE  KeepsDocuments(ss, close(ss))
<1>1. close(ss).streams = CancelActive(ss.streams)
  BY DEF close, add_event, SessionInv, SessionOK, SessionField
<1>2. \A id \in DOMAIN ss.streams : /\ cancel(ss.streams[id]).source = ss.streams[id].source
                                    /\ cancel(ss.streams[id]).rules = ss.streams[id].rules
  BY DEF cancel, SessionInv, SessionOK, StreamOK, StreamField
<1> QED
  BY <1>1, <1>2 DEF KeepsDocuments, CancelActive

(* Committing frames, of one stream or of several. *)
LEMMA CommitKeepsDocuments ==
  ASSUME NEW ss, NEW id, NEW patches, NEW n, SessionInv(ss), HasStream(ss, id)
  PROVE  KeepsDocuments(ss, commit_for_stream(ss, id, patches, n))
<1> DEFINE st == commit_patch_frames(ss.streams[id], patches, n)
<1>1. commit_for_stream(ss, id, patches, n).streams = [ss.streams EXCEPT ![id] = st]
  BY DEF commit_for_stream, WithBatchEvent, add_event, SessionInv, SessionOK, SessionField
<1>2. st.source = ss.streams[id].source /\ st.rules = ss.streams[id].rules
  BY RecordKeepsDocument DEF commit_patch_frames, SessionInv, SessionOK, HasStream
<1> QED
  BY <1>1, <1>2, OneStreamKeepsDocuments

(* So does the cross-stream commit, for every stream it takes frames from. *)
LEMMA BatchKeepsDocuments ==
  ASSUME NEW ss, NEW c, NEW n, SessionInv(ss)
  PROVE  KeepsDocuments(ss, commit_priority_frames(ss, c, n))
<1> DEFINE kept == Survivors(c, n)
           FramesOf(id) == {FinalizedFrame(ss, c, kept, k) : k \in OfStream(c, kept, id)}
           tt == commit_priority_frames(ss, c, n)
<1>1. tt.streams = [id \in DOMAIN ss.streams |->
                      IF OfStream(c, kept, id) = {} THEN ss.streams[id]
                      ELSE record_frames_created(ss.streams[id], FramesOf(id))]
  BY DEF commit_priority_frames, WithBatchEvent, add_event, SessionInv, SessionOK, SessionField
<1>2. \A id \in DOMAIN ss.streams : StreamOK(id, ss.streams[id])
  BY DEF SessionInv, SessionOK
<1> HIDE DEF tt, kept, FramesOf
<1> QED
  BY <1>1, <1>2, RecordKeepsDocument DEF KeepsDocuments, tt

-----------------------------------------------------------------------------
(* The inductive step. *)

(* An extraction depends on documents and rules only. *)
LEMMA ExtractionKept ==
  ASSUME NEW old, NEW new, KeepsDocuments(old, new), NEW id \in DOMAIN old.streams, NEW t
  PROVE  extract_for_stream(new, id, t) = extract_for_stream(old, id, t)
  BY DEF KeepsDocuments, extract_for_stream, extract_prioritized_patches

(* A handler that does nothing while the session changes: what it has      *)
(* extracted stays what it would extract.                                  *)
LEMMA StaysFresh ==
  ASSUME NEW h, task'[h] = task[h],
         Stored => Stored' /\ KeepsDocuments(session, session'),
         ExtractionFresh(h), BatchFresh(h)
  PROVE  ExtractionFresh(h)' /\ BatchFresh(h)'
<1>1. ExtractionFresh(h)'
  <2> SUFFICES ASSUME task'[h].pc = "commit" PROVE ExtractionFresh(h)'
    BY DEF ExtractionFresh
  <2> DEFINE arg == task[h].arg
  <2>1. /\ Stored /\ arg.id \in DOMAIN session.streams /\ arg.max_frames \in FrameLimit
        /\ \E t \in Threshold : arg.patches = extract_for_stream(session, arg.id, t)
    BY DEF ExtractionFresh
  <2>2. arg.id \in DOMAIN session'.streams /\ Stored' /\ task'[h].arg = arg
    BY <2>1 DEF KeepsDocuments
  <2>3. \E t \in Threshold : arg.patches = extract_for_stream(session', arg.id, t)
    BY <2>1, ExtractionKept
  <2> QED
    BY <2>1, <2>2, <2>3 DEF ExtractionFresh
<1>2. BatchFresh(h)'
  <2> SUFFICES ASSUME task'[h].pc = "batch_commit" PROVE BatchFresh(h)'
    BY DEF BatchFresh
  <2> DEFINE arg == task[h].arg
  <2>1. Stored /\ arg.batch_size \in FrameLimit /\ task'[h].arg = arg
    BY DEF BatchFresh
  <2>2. PICK t \in Threshold, visited \in SUBSET DOMAIN session.streams :
          /\ arg.order \in SetToSeqs(visited)
          /\ arg.extracted = [id \in visited |-> extract_for_stream(session, id, t)]
    BY DEF BatchFresh
  <2>3. visited \in SUBSET DOMAIN session'.streams /\ Stored'
    BY <2>1 DEF KeepsDocuments
  <2>4. \A id \in visited : extract_for_stream(session', id, t) = extract_for_stream(session, id, t)
    BY <2>1, ExtractionKept
  <2>5. arg.extracted = [id \in visited |-> extract_for_stream(session', id, t)]
    BY <2>2, <2>4
  <2> HIDE DEF arg
  <2> QED
    BY <2>1, <2>2, <2>3, <2>5 DEF BatchFresh
<1> QED
  BY <1>1, <1>2

(***************************************************************************)
(* A handler h stores result, a session that keeps the invariant and the   *)
(* documents, and is about to invalidate or publish.                       *)
(***************************************************************************)
LEMMA UpdateStep ==
  ASSUME HandlerInv, NEW h \in Handler, NEW result, NEW rec,
         SessionInv(result), Stored => KeepsDocuments(session, result),
         Store(result), now' = now,
         task' = [task EXCEPT ![h] = rec],
         DOMAIN rec = {"pc", "events", "frames", "arg"}, rec.pc \in {"invalidate", "publish"}
  PROVE  HandlerInv'
<1>1. SessionInv(session') /\ session'.pending_events = <<>> /\ session'.streams = result.streams
  BY EventsKeepInv, EventsKeepStreams DEF Store
<1>2. Stored'
  BY <1>1, SessionIsStored DEF Stored
<1>3. Stored => KeepsDocuments(session, session')
  BY <1>1 DEF KeepsDocuments
<1>4. TasksOK'
  BY DEF HandlerInv, TasksOK, TaskPc
<1>5. ASSUME NEW g \in Handler PROVE ExtractionFresh(g)' /\ BatchFresh(g)'
  <2>1. CASE g = h
    BY <2>1 DEF HandlerInv, TasksOK, ExtractionFresh, BatchFresh
  <2>2. CASE g # h
    <3>1. task'[g] = task[g]
      BY <2>2 DEF HandlerInv, TasksOK
    <3> QED
      BY <1>2, <1>3, <3>1, StaysFresh DEF HandlerInv
  <2> QED
    BY <2>1, <2>2
<1> QED
  BY <1>1, <1>4, <1>5 DEF HandlerInv, StoredOK

(* A handler h goes on without touching the session. *)
LEMMA QuietStep ==
  ASSUME HandlerInv, NEW h \in Handler, NEW rec,
         session' = session, now' = now,
         task' = [task EXCEPT ![h] = rec],
         DOMAIN rec = {"pc", "events", "frames", "arg"},
         rec.pc \in TaskPc \ {"commit", "batch_commit"}
  PROVE  HandlerInv'
<1>1. TasksOK'
  BY DEF HandlerInv, TasksOK
<1>2. Stored' <=> Stored
  BY DEF Stored
<1>3. KeepsDocuments(session, session')
  BY DEF KeepsDocuments
<1>4. ASSUME NEW g \in Handler PROVE ExtractionFresh(g)' /\ BatchFresh(g)'
  <2>1. CASE g = h
    BY <2>1 DEF HandlerInv, TasksOK, ExtractionFresh, BatchFresh
  <2>2. CASE g # h
    <3>1. task'[g] = task[g]
      BY <2>2 DEF HandlerInv, TasksOK
    <3> QED
      BY <1>2, <1>3, <3>1, StaysFresh DEF HandlerInv
  <2> QED
    BY <2>1, <2>2
<1> QED
  BY <1>1, <1>2, <1>4 DEF HandlerInv, StoredOK

(* The record a handler's locals are kept in. *)
LEMMA GotoRecord ==
  ASSUME NEW h, NEW pc, NEW arg, Goto(h, pc, arg)
  PROVE  \E rec : /\ task' = [task EXCEPT ![h] = rec]
                  /\ DOMAIN rec = {"pc", "events", "frames", "arg"}
                  /\ rec.pc = pc
<1> DEFINE rec == [pc |-> pc, events |-> <<>>, frames |-> <<>>, arg |-> arg]
<1>1. DOMAIN rec = {"pc", "events", "frames", "arg"} /\ rec.pc = pc
  OBVIOUS
<1>2. task' = [task EXCEPT ![h] = rec]
  BY DEF Goto
<1> HIDE DEF rec
<1> QED
  BY <1>1, <1>2

(* The fields of a handler that is not in a command. *)
LEMMA IdleRecord == DOMAIN Idle = {"pc", "events", "frames", "arg"} /\ Idle.pc = "idle"
  BY DEF Idle

(* The two extractions establish what the commits rely on. *)
LEMMA ExtractStep ==
  ASSUME HandlerInv, NEW h \in Handler, NEW t \in Threshold, NEW n \in FrameLimit,
         BatchExtract(h, t, n) \/ \E id \in StreamId : GenerateExtract(h, id, t, n)
  PROVE  HandlerInv'
<1>1. Stored /\ session' = session /\ now' = now /\ SessionInv(session)
  BY DEF BatchExtract, GenerateExtract, OtherThanTask, Ready, HandlerInv, StoredOK
<1>2. Stored' /\ KeepsDocuments(session, session')
  BY <1>1 DEF Stored, KeepsDocuments
<1>3. PICK rec : /\ task' = [task EXCEPT ![h] = rec]
                 /\ DOMAIN rec = {"pc", "events", "frames", "arg"}
                 /\ rec.pc \in {"commit", "batch_commit"}
  BY GotoRecord DEF BatchExtract, GenerateExtract
<1>4. TasksOK'
  BY <1>3 DEF HandlerInv, TasksOK, TaskPc
<1>5. DOMAIN task = Handler
  BY DEF HandlerInv, TasksOK
<1>6. ASSUME NEW g \in Handler, g # h PROVE ExtractionFresh(g)' /\ BatchFresh(g)'
  <2>1. task'[g] = task[g]
    BY <1>3, <1>5, <1>6
  <2> QED
    BY <1>1, <1>2, <2>1, StaysFresh DEF HandlerInv
<1>7. ASSUME NEW id \in StreamId, GenerateExtract(h, id, t, n)
      PROVE  ExtractionFresh(h)' /\ BatchFresh(h)'
  <2> DEFINE arg == [id |-> id, max_frames |-> n, patches |-> extract_for_stream(session, id, t)]
  <2>1. task'[h] = [pc |-> "commit", events |-> <<>>, frames |-> <<>>, arg |-> arg]
    BY <1>5, <1>7 DEF GenerateExtract, Goto
  <2>2. task'[h].pc = "commit" /\ task'[h].arg = arg
    BY <2>1
  <2>3. arg.id \in DOMAIN session'.streams /\ arg.max_frames \in FrameLimit
    BY <1>1, <1>7 DEF GenerateExtract, CanExtractForStream, HasStream
  <2>4. arg.patches = extract_for_stream(session', arg.id, t)
    BY <1>1
  <2> HIDE DEF arg
  <2> QED
    BY <1>2, <2>2, <2>3, <2>4 DEF ExtractionFresh, BatchFresh
<1>8. ASSUME BatchExtract(h, t, n)
      PROVE  ExtractionFresh(h)' /\ BatchFresh(h)'
  <2> DEFINE visited == InState(session, "Streaming")
  <2>1. PICK order \in SetToSeqs(visited) :
          Goto(h, "batch_commit", [order |-> order, batch_size |-> n,
                                   extracted |-> extract_for_active_streams(session, t)])
    BY <1>8 DEF BatchExtract
  <2> DEFINE arg == [order |-> order, batch_size |-> n,
                     extracted |-> extract_for_active_streams(session, t)]
  <2>2. task'[h] = [pc |-> "batch_commit", events |-> <<>>, frames |-> <<>>, arg |-> arg]
    BY <1>5, <2>1 DEF Goto
  <2>3. task'[h].pc = "batch_commit" /\ task'[h].arg = arg
    BY <2>2
  <2>4. /\ visited \in SUBSET DOMAIN session'.streams
        /\ arg.order \in SetToSeqs(visited) /\ arg.batch_size \in FrameLimit
    BY <1>1, <2>1 DEF InState
  <2>5. arg.extracted = [id \in visited |-> extract_for_stream(session', id, t)]
    BY <1>1 DEF extract_for_active_streams, extract_for_stream
  <2> HIDE DEF arg, visited
  <2> QED
    BY <1>2, <2>3, <2>4, <2>5 DEF ExtractionFresh, BatchFresh
<1>9. ExtractionFresh(h)' /\ BatchFresh(h)'
  BY <1>7, <1>8
<1> QED
  BY <1>1, <1>2, <1>4, <1>6, <1>9 DEF HandlerInv, StoredOK

(* What GenerateCommit and BatchCommit store. *)
LEMMA CommitResult ==
  ASSUME HandlerInv, NEW h \in Handler, GenerateCommit(h)
  PROVE  LET arg == task[h].arg
             result == commit_for_stream(session, arg.id, arg.patches, arg.max_frames)
         IN  /\ Stored /\ SessionInv(session)
             /\ SessionInv(result) /\ KeepsDocuments(session, result)
<1> DEFINE arg == task[h].arg
<1>1. /\ task[h].pc = "commit" /\ CanCommitForStream(session, arg.id)
      /\ Stored /\ arg.max_frames \in FrameLimit
      /\ \E t \in Threshold : arg.patches = extract_for_stream(session, arg.id, t)
  BY DEF GenerateCommit, HandlerInv, ExtractionFresh
<1>2. SessionInv(session) /\ HasStream(session, arg.id) /\ arg.max_frames \in Nat
  BY <1>1, FrameLimitAssumption DEF HandlerInv, StoredOK, CanCommitForStream
<1>3. session.streams[arg.id].source \in Seq(Patch(Path))
  BY <1>2, SourceAssumption DEF SessionInv, SessionOK, StreamOK, HasStream
<1>4. \E R : arg.patches \in Seq(R)
  BY <1>1, <1>3, ExtractIsSeq DEF extract_for_stream, extract_prioritized_patches
<1> HIDE DEF arg
<1>5. SessionInv(commit_for_stream(session, arg.id, arg.patches, arg.max_frames))
  BY <1>1, <1>2, <1>4, CommitForStreamInv
<1> QED
  BY <1>1, <1>2, <1>5, CommitKeepsDocuments DEF arg

(* The session a cross-stream commit stores satisfies the aggregate's      *)
(* invariant and has the documents it had.                                 *)
LEMMA BatchResult ==
  ASSUME HandlerInv, NEW h \in Handler, BatchCommit(h)
  PROVE  LET arg == task[h].arg
             candidates == Candidates(session, arg.extracted, arg.order)
             result == commit_priority_frames(session, candidates, arg.batch_size)
         IN  /\ Stored /\ SessionInv(session)
             /\ SessionInv(result) /\ KeepsDocuments(session, result)
<1> DEFINE arg == task[h].arg
           candidates == Candidates(session, arg.extracted, arg.order)
<1>1. Stored /\ SessionInv(session)
  BY DEF BatchCommit, HandlerInv, BatchFresh, StoredOK
<1>2. PICK visited \in SUBSET DOMAIN session.streams : arg.order \in SetToSeqs(visited)
  BY DEF BatchCommit, HandlerInv, BatchFresh
<1>3. Cardinality(visited) \in Nat
  BY <1>1, FiniteParts, FS_Subset, FS_CardinalityType DEF SessionInv, SessionOK
<1>4. arg.order \in [1..Cardinality(visited) -> visited]
  BY <1>2 DEF SetToSeqs
<1>5. arg.order \in Seq(visited)
  BY <1>3, <1>4, SeqDef
<1>6. IsFiniteSet(DOMAIN candidates)
  BY <1>5, CandidatesFinite
<1> HIDE DEF candidates, arg
<1>7. SessionInv(commit_priority_frames(session, candidates, arg.batch_size))
  BY <1>1, <1>6, CommitPriorityFramesInv
<1> QED
  BY <1>1, <1>7, BatchKeepsDocuments DEF arg, candidates

(* A step of any handler, or of the clock. *)
LEMMA LifecycleStep ==
  ASSUME HandlerInv, NEW h \in Handler, Lifecycle(h)
  PROVE  HandlerInv'
<1>0. Stored => SessionInv(session)
  BY DEF HandlerInv, StoredOK
<1>1. CASE CreateSession(h)
  <2> DEFINE created == activate(NewSession(now))
             rec == [pc |-> "publish", events |-> created.pending_events, frames |-> <<>>, arg |-> <<>>]
  <2>1. SessionInv(NewSession(now)) /\ CanActivate(NewSession(now))
    BY NewSessionInv DEF HandlerInv, CanActivate, NewSession
  <2>2. SessionInv(created)
    BY <2>1, ActivateInv
  <2>3. Store(created) /\ now' = now /\ task' = [task EXCEPT ![h] = rec] /\ ~Stored
    BY <1>1 DEF CreateSession
  <2>4. DOMAIN rec = {"pc", "events", "frames", "arg"} /\ rec.pc = "publish"
    OBVIOUS
  <2> HIDE DEF created, rec
  <2> QED
    BY <2>2, <2>3, <2>4, UpdateStep
<1>2. ASSUME NEW result, SessionInv(result), KeepsDocuments(session, result),
             AtomicSessionUpdate(h, result, <<>>)
      PROVE  HandlerInv'
  <2> DEFINE rec == [pc |-> "invalidate", events |-> result.pending_events, frames |-> <<>>, arg |-> <<>>]
  <2>1. Store(result) /\ now' = now /\ task' = [task EXCEPT ![h] = rec]
    BY <1>2 DEF AtomicSessionUpdate
  <2>2. DOMAIN rec = {"pc", "events", "frames", "arg"} /\ rec.pc = "invalidate"
    OBVIOUS
  <2> HIDE DEF rec
  <2> QED
    BY <1>2, <2>1, <2>2, UpdateStep
<1>3. ASSUME NEW id \in StreamId, NEW source \in Source, NEW rules \in Rules,
             CreateStreamCommand(h, id, source, rules)
      PROVE  HandlerInv'
  <2>1. SessionInv(session) /\ ~HasStream(session, id) /\ CanCreateStream(session, now)
    BY <1>0, <1>3 DEF CreateStreamCommand, Ready
  <2>2. \/ AtomicSessionUpdate(h, create_stream(session, id, source, <<>>), <<>>)
        \/ AtomicSessionUpdate(h, create_stream_with_config(session, id, source, rules), <<>>)
    BY <1>3 DEF CreateStreamCommand
  <2>3. RulesOK(rules) /\ RulesOK(<<>>)
    BY RulesAssumption DEF RulesOK
  <2>4. /\ SessionInv(create_stream(session, id, source, <<>>))
        /\ SessionInv(create_stream_with_config(session, id, source, rules))
    BY <2>1, <2>3, CreateStreamInv, CreateStreamWithConfigInv
  <2> QED
    BY <1>2, <2>1, <2>2, <2>4, CreateKeepsDocuments
<1>4. ASSUME NEW id \in StreamId, StartStreamCommand(h, id)
      PROVE  HandlerInv'
  <2>1. SessionInv(session) /\ CanStartStream(session, id) /\ HasStream(session, id)
        /\ AtomicSessionUpdate(h, start_stream(session, id), <<>>)
    BY <1>0, <1>4 DEF StartStreamCommand, Ready, CanStartStream
  <2> QED
    BY <1>2, <2>1, StartStreamInv, LifecycleKeepsDocuments
<1>5. ASSUME NEW id \in StreamId, CompleteStreamCommand(h, id)
      PROVE  HandlerInv'
  <2>1. SessionInv(session) /\ CanCompleteStream(session, id) /\ HasStream(session, id)
        /\ AtomicSessionUpdate(h, complete_stream(session, id), <<>>)
    BY <1>0, <1>5 DEF CompleteStreamCommand, Ready, CanCompleteStream
  <2> QED
    BY <1>2, <2>1, CompleteStreamInv, LifecycleKeepsDocuments
<1>6. CASE CloseSessionCommand(h)
  <2>1. SessionInv(session) /\ CanClose(session) /\ AtomicSessionUpdate(h, close(session), <<>>)
    BY <1>0, <1>6 DEF CloseSessionCommand, Ready
  <2> QED
    BY <1>2, <2>1, CloseInv, CloseKeepsDocuments
<1> QED
  BY <1>1, <1>3, <1>4, <1>5, <1>6 DEF Lifecycle

(* GenerateFrames and BatchGenerateFrames, extraction and commit. *)
LEMMA FramesStep ==
  ASSUME HandlerInv, NEW h \in Handler, Frames(h)
  PROVE  HandlerInv'
<1>1. CASE \/ \E id \in StreamId, t \in Threshold, n \in FrameLimit : GenerateExtract(h, id, t, n)
           \/ \E t \in Threshold, n \in FrameLimit : BatchExtract(h, t, n)
  BY <1>1, ExtractStep
<1>2. ASSUME NEW result, NEW frames, SessionInv(result), KeepsDocuments(session, result),
             AtomicSessionUpdate(h, result, frames)
      PROVE  HandlerInv'
  <2> DEFINE rec == [pc |-> "invalidate", events |-> result.pending_events, frames |-> frames, arg |-> <<>>]
  <2>1. Store(result) /\ now' = now /\ task' = [task EXCEPT ![h] = rec]
    BY <1>2 DEF AtomicSessionUpdate
  <2>2. DOMAIN rec = {"pc", "events", "frames", "arg"} /\ rec.pc = "invalidate"
    OBVIOUS
  <2> HIDE DEF rec
  <2> QED
    BY <1>2, <2>1, <2>2, UpdateStep
<1>3. CASE GenerateCommit(h)
  <2> DEFINE arg == task[h].arg
             result == commit_for_stream(session, arg.id, arg.patches, arg.max_frames)
  <2>1. SessionInv(result) /\ KeepsDocuments(session, result)
    BY <1>3, CommitResult
  <2>2. AtomicSessionUpdate(h, result, FramesForStream(session, arg.id, arg.patches, arg.max_frames))
    BY <1>3 DEF GenerateCommit
  <2> HIDE DEF result, arg
  <2> QED
    BY <1>2, <2>1, <2>2
<1>4. CASE BatchCommit(h)
  <2> DEFINE arg == task[h].arg
             candidates == Candidates(session, arg.extracted, arg.order)
             result == commit_priority_frames(session, candidates, arg.batch_size)
  <2>1. SessionInv(result) /\ KeepsDocuments(session, result)
    BY <1>4, BatchResult
  <2>2. AtomicSessionUpdate(h, result, PriorityFrames(session, candidates, arg.batch_size))
    BY <1>4 DEF BatchCommit
  <2> HIDE DEF result, arg, candidates
  <2> QED
    BY <1>2, <2>1, <2>2
<1>5. CASE GenerateReject(h) \/ BatchReject(h)
  <2> DEFINE rec == [pc |-> "idle", events |-> <<>>, frames |-> <<>>, arg |-> <<>>]
  <2>1. task' = [task EXCEPT ![h] = rec] /\ session' = session /\ now' = now
    BY <1>5 DEF GenerateReject, BatchReject, Goto, OtherThanTask
  <2>2. DOMAIN rec = {"pc", "events", "frames", "arg"} /\ rec.pc \in TaskPc \ {"commit", "batch_commit"}
    BY DEF TaskPc
  <2> HIDE DEF rec
  <2> QED
    BY <2>1, <2>2, QuietStep
<1> QED
  BY <1>1, <1>3, <1>4, <1>5 DEF Frames

(* The steps after a commit, a dropped future and the health query. *)
LEMMA OtherStep ==
  ASSUME HandlerInv, NEW h \in Handler, Continue(h) \/ DropHandler(h) \/ Health(h)
  PROVE  HandlerInv'
<1>1. session' = session /\ now' = now
  BY DEF Continue, InvalidateStatsCache, PublishBatch, AppendFrames, DropHandler, Health,
         HealthSnapshot, HealthCached, HealthMiss, HealthFill, OtherThanTask
<1>2. DOMAIN task[h] = {"pc", "events", "frames", "arg"} /\ task[h].pc \in TaskPc
  BY DEF HandlerInv, TasksOK
<1>3. \E rec : /\ task' = [task EXCEPT ![h] = rec]
               /\ DOMAIN rec = {"pc", "events", "frames", "arg"}
               /\ rec.pc \in TaskPc \ {"commit", "batch_commit"}
  <2> USE DEF TaskPc
  <2>1. CASE InvalidateStatsCache(h) \/ HealthMiss(h)
    <3>1. PICK pc \in {"publish", "fill"} : task' = [task EXCEPT ![h].pc = pc]
      BY <2>1 DEF InvalidateStatsCache, HealthMiss
    <3> DEFINE rec == [task[h] EXCEPT !.pc = pc]
    <3>2. task' = [task EXCEPT ![h] = rec] /\ DOMAIN rec = DOMAIN task[h] /\ rec.pc = pc
      BY <1>2, <3>1
    <3> QED
      BY <1>2, <3>2
  <2>2. CASE PublishBatch(h)
    <3>1. CASE task[h].frames = <<>>
      BY <2>2, <3>1, IdleRecord DEF PublishBatch
    <3>2. CASE task[h].frames # <<>>
      <4> DEFINE rec == [[task[h] EXCEPT !.pc = "append"] EXCEPT !.events = <<>>]
      <4>1. task' = [task EXCEPT ![h] = rec] /\ DOMAIN rec = DOMAIN task[h] /\ rec.pc = "append"
        BY <1>2, <2>2, <3>2 DEF PublishBatch
      <4> QED
        BY <1>2, <4>1
    <3> QED
      BY <3>1, <3>2
  <2>3. CASE AppendFrames(h)
    <3>0. task[h].pc = "append"
      BY <2>3 DEF AppendFrames
    <3>1. \/ task' = [task EXCEPT ![h] = Idle]
          \/ \E rest : task' = [task EXCEPT ![h].frames = rest]
      BY <2>3 DEF AppendFrames
    <3>2. CASE task' = [task EXCEPT ![h] = Idle]
      BY <3>2, IdleRecord
    <3>3. ASSUME NEW rest, task' = [task EXCEPT ![h].frames = rest]
          PROVE  task' = [task EXCEPT ![h] = [task[h] EXCEPT !.frames = rest]]
      BY <3>3
    <3>4. \A rest : /\ DOMAIN [task[h] EXCEPT !.frames = rest] = DOMAIN task[h]
                    /\ [task[h] EXCEPT !.frames = rest].pc = "append"
      BY <1>2, <3>0
    <3> QED
      BY <1>2, <3>1, <3>2, <3>3, <3>4
  <2>4. CASE DropHandler(h) \/ HealthSnapshot(h) \/ HealthCached(h) \/ HealthFill(h)
    BY <2>4, IdleRecord, GotoRecord DEF DropHandler, HealthSnapshot, HealthCached, HealthFill
  <2> QED
    BY <2>1, <2>2, <2>3, <2>4 DEF Continue, Health
<1> QED
  BY <1>1, <1>3, QuietStep

(* No handler is in a command and nothing is stored. *)
LEMMA InitInv == Init => HandlerInv
<1> SUFFICES ASSUME Init PROVE HandlerInv
  OBVIOUS
<1>1. ~Stored /\ now \in Nat
  BY DEF Init, Stored
<1>2. DOMAIN task = Handler /\ \A h \in Handler : task[h] = Idle
  BY DEF Init
<1> QED
  BY <1>1, <1>2, IdleRecord DEF HandlerInv, StoredOK, TasksOK, TaskPc, ExtractionFresh, BatchFresh

(* Every step keeps the invariant. *)
LEMMA NextInv == HandlerInv /\ [Next]_vars => HandlerInv'
<1> SUFFICES ASSUME HandlerInv, [Next]_vars PROVE HandlerInv'
  OBVIOUS
<1>1. CASE UNCHANGED vars \/ Tick
  <2>1. session' = session /\ task' = task /\ now' \in Nat
    BY <1>1 DEF vars, Tick, HandlerInv
  <2>2. (Stored' <=> Stored) /\ KeepsDocuments(session, session')
    BY <2>1 DEF Stored, KeepsDocuments
  <2>3. \A h \in Handler : ExtractionFresh(h)' /\ BatchFresh(h)'
    BY <2>1, <2>2, StaysFresh DEF HandlerInv
  <2> QED
    BY <2>1, <2>2, <2>3 DEF HandlerInv, StoredOK, TasksOK
<1>2. ASSUME NEW h \in Handler,
             Lifecycle(h) \/ Frames(h) \/ Continue(h) \/ DropHandler(h) \/ Health(h)
      PROVE  HandlerInv'
  BY <1>2, LifecycleStep, FramesStep, OtherStep
<1> QED
  BY <1>1, <1>2 DEF Next

(***************************************************************************)
(* Whatever the interleaving of commands, the stored session satisfies the *)
(* invariant of the aggregate with its events drained, and every extracted *)
(* but uncommitted command still holds what the documents give.            *)
(***************************************************************************)
THEOREM Invariance == Spec => []HandlerInv
  BY InitInv, NextInv, PTL DEF Spec

(* The control state is well typed; a stored session is a session.         *)
THEOREM TypeCorrect == Spec => []TypeOK
<1>1. HandlerInv => TypeOK
  BY DEF HandlerInv, StoredOK, TasksOK, TypeOK, SessionInv
<1> QED
  BY <1>1, Invariance, PTL

-----------------------------------------------------------------------------
(***************************************************************************)
(* The instance of SessionService has the aggregate's operators under      *)
(* names of its own; they are the same operators.                          *)
(***************************************************************************)
LEMMA SameLifecycle ==
  ASSUME NEW ss, NEW id, NEW source, NEW rules, NEW time
  PROVE  /\ Service!take_events(ss) = take_events(ss)
         /\ Service!activate(Service!NewSession(time)) = activate(NewSession(time))
         /\ Service!HasStream(ss, id) <=> HasStream(ss, id)
         /\ Service!CanCreateStream(ss, time) <=> CanCreateStream(ss, time)
         /\ Service!create_stream(ss, id, source, rules) = create_stream(ss, id, source, rules)
         /\ Service!CanStartStream(ss, id) <=> CanStartStream(ss, id)
         /\ Service!start_stream(ss, id) = start_stream(ss, id)
         /\ Service!CanCompleteStream(ss, id) <=> CanCompleteStream(ss, id)
         /\ Service!complete_stream(ss, id) = complete_stream(ss, id)
         /\ Service!CanClose(ss) <=> CanClose(ss)
         /\ Service!close(ss) = close(ss)
<1> USE DEF Service!add_event, add_event, Service!HasStream, HasStream, Service!Cardinality, Cardinality
<1>1. Service!take_events(ss) = take_events(ss)
  BY DEF Service!take_events, take_events
<1>2. Service!activate(Service!NewSession(time)) = activate(NewSession(time))
  BY DEF Service!activate, activate, Service!NewSession, NewSession,
         Service!SessionEvent, SessionEvent
<1>3. Service!HasStream(ss, id) <=> HasStream(ss, id)
  OBVIOUS
<1>4. Service!CanCreateStream(ss, time) <=> CanCreateStream(ss, time)
  BY DEF Service!CanCreateStream, CanCreateStream, Service!SessionActive, SessionActive,
         Service!is_expired, is_expired
<1>5. Service!create_stream(ss, id, source, rules) = create_stream(ss, id, source, rules)
  BY DEF Service!create_stream, create_stream, Service!WithStream, WithStream,
         Service!NewStream, NewStream, Service!StreamEvent, StreamEvent
<1>6. Service!CanStartStream(ss, id) <=> CanStartStream(ss, id)
  BY DEF Service!CanStartStream, CanStartStream, Service!CanStartStreaming, CanStartStreaming
<1>7. Service!start_stream(ss, id) = start_stream(ss, id)
  BY DEF Service!start_stream, start_stream, Service!start_streaming, start_streaming,
         Service!StreamEvent, StreamEvent
<1>8. Service!CanCompleteStream(ss, id) <=> CanCompleteStream(ss, id)
  BY DEF Service!CanCompleteStream, CanCompleteStream, Service!CanComplete, CanComplete
<1>9. Service!complete_stream(ss, id) = complete_stream(ss, id)
  BY DEF Service!complete_stream, complete_stream, Service!complete, complete,
         Service!StreamEvent, StreamEvent, Service!SaturatingSub, SaturatingSub
<1>10. Service!CanClose(ss) <=> CanClose(ss)
  BY DEF Service!CanClose, CanClose
<1>11. Service!close(ss) = close(ss)
  BY DEF Service!close, close, Service!CancelActive, CancelActive, Service!CanCancel, CanCancel,
         Service!cancel, cancel, Service!SessionEvent, SessionEvent
<1> QED
  BY <1>1, <1>2, <1>3, <1>4, <1>5, <1>6, <1>7, <1>8, <1>9, <1>10, <1>11

(* The same for extraction and commit of frames. *)
LEMMA SameFrames ==
  ASSUME NEW ss, NEW id, NEW threshold, NEW n, NEW patches, NEW time, NEW S,
         NEW extracted, NEW order, NEW candidates
  PROVE  /\ Service!CanCommitForStream(ss, id) <=> CanCommitForStream(ss, id)
         /\ Service!extract_for_stream(ss, id, threshold) = extract_for_stream(ss, id, threshold)
         /\ Service!commit_for_stream(ss, id, patches, n) = commit_for_stream(ss, id, patches, n)
         /\ Service!CanCommitPriorityFrames(ss, time) <=> CanCommitPriorityFrames(ss, time)
         /\ Service!SetToSeqs(S) = SetToSeqs(S)
         /\ Service!Candidates(ss, extracted, order) = Candidates(ss, extracted, order)
         /\ Service!commit_priority_frames(ss, candidates, n) = commit_priority_frames(ss, candidates, n)
<1> USE DEF Service!Cardinality, Cardinality, Service!HasStream, HasStream, Service!CanCreateFrames, CanCreateFrames,
            Service!CanCommitForStream, CanCommitForStream, Service!Rank, Rank,
            Service!chunk_patches_for_commit, chunk_patches_for_commit, Service!Chunk, Chunk,
            Service!ChunkSize, ChunkSize, Service!DivCeil, DivCeil,
            Service!MaxPriority, MaxPriority, Service!PatchFrame, PatchFrame,
            Service!record_frames_created, record_frames_created, Service!SumBytes, SumBytes,
            Service!estimated_size, estimated_size, Service!is_critical, is_critical,
            Service!is_high_priority, is_high_priority, Service!CRITICAL, CRITICAL,
            Service!HIGH, HIGH, Service!SumFunction, SumFunction,
            Service!SumFunctionOnSet, SumFunctionOnSet,
            Service!FoldFunctionOnSet, FoldFunctionOnSet, Service!MapThenFoldSet, MapThenFoldSet,
            Service!WithBatchEvent, WithBatchEvent, Service!FramesBatched, FramesBatched,
            Service!add_event, add_event
<1>1. Service!CanCommitForStream(ss, id) <=> CanCommitForStream(ss, id)
  OBVIOUS
<1>2. Service!extract_for_stream(ss, id, threshold) = extract_for_stream(ss, id, threshold)
  BY DEF Service!extract_for_stream, extract_for_stream,
         Service!extract_prioritized_patches, extract_prioritized_patches,
         Service!extract_patches, extract_patches, Service!collect_patches, collect_patches,
         Service!compute_priority, compute_priority, Service!NoPath, NoPath,
         Service!SortByPriorityDesc, SortByPriorityDesc
<1>3. Service!commit_for_stream(ss, id, patches, n) = commit_for_stream(ss, id, patches, n)
  <2> DEFINE st == ss.streams[id]
             new == commit_patch_frames(st, patches, n)
             count == Len(PatchFrames(st, patches, n))
  <2>1. Service!chunk_patches_for_commit(patches, n) = chunk_patches_for_commit(patches, n)
    OBVIOUS
  <2>2. Service!PatchFrames(st, patches, n) = PatchFrames(st, patches, n)
    <3> HIDE DEF Service!chunk_patches_for_commit, chunk_patches_for_commit, st
    <3> QED
      BY <2>1 DEF Service!PatchFrames, PatchFrames
  <2>3. \A F : Service!record_frames_created(st, F) = record_frames_created(st, F)
    OBVIOUS
  <2>4. Service!commit_patch_frames(st, patches, n) = new
    <3> HIDE DEF Service!record_frames_created, record_frames_created, st
    <3> QED
      BY <2>2, <2>3 DEF Service!commit_patch_frames, commit_patch_frames
  <2>5. \A x, m : Service!WithBatchEvent(x, m) = WithBatchEvent(x, m)
    OBVIOUS
  <2>6. Len(Service!PatchFrames(st, patches, n)) = count
    BY <2>2
  <2> HIDE DEF Service!WithBatchEvent, WithBatchEvent
  <2>7. commit_for_stream(ss, id, patches, n)
          = WithBatchEvent([ss EXCEPT !.streams[id] = new, !.total_frames = @ + count,
                                      !.total_bytes = @ + new.total_bytes - st.total_bytes], count)
    BY DEF commit_for_stream, FramesForStream
  <2>8. Service!commit_for_stream(ss, id, patches, n)
          = Service!WithBatchEvent([ss EXCEPT !.streams[id] = new, !.total_frames = @ + count,
                                      !.total_bytes = @ + new.total_bytes - st.total_bytes], count)
    <3> DEFINE snew == Service!commit_patch_frames(st, patches, n)
               scount == Len(Service!PatchFrames(st, patches, n))
    <3>1. Service!commit_for_stream(ss, id, patches, n)
            = Service!WithBatchEvent([ss EXCEPT !.streams[id] = snew, !.total_frames = @ + scount,
                                        !.total_bytes = @ + snew.total_bytes - st.total_bytes], scount)
      BY DEF Service!commit_for_stream, Service!FramesForStream
    <3>2. snew = new /\ scount = count
      BY <2>4, <2>6
    <3> HIDE DEF snew, scount, new, count, st
    <3> QED
      BY <3>1, <3>2
  <2> QED
    BY <2>5, <2>7, <2>8
<1>4. Service!CanCommitPriorityFrames(ss, time) <=> CanCommitPriorityFrames(ss, time)
  BY DEF Service!CanCommitPriorityFrames, CanCommitPriorityFrames,
         Service!SessionActive, SessionActive, Service!is_expired, is_expired
<1>5. Service!SetToSeqs(S) = SetToSeqs(S)
  BY DEF Service!SetToSeqs, SetToSeqs
<1>6. Service!Candidates(ss, extracted, order) = Candidates(ss, extracted, order)
  BY DEF Service!Candidates, Candidates,
         Service!MaxCandidatesPerStream, MaxCandidatesPerStream
<1>7. Service!commit_priority_frames(ss, candidates, n) = commit_priority_frames(ss, candidates, n)
  BY DEF Service!commit_priority_frames, commit_priority_frames, Service!Survivors, Survivors,
         Service!OfStream, OfStream, Service!FinalizedFrame, FinalizedFrame
<1> QED
  <2> HIDE DEF HasStream
  <2> QED BY <1>1, <1>2, <1>3, <1>4, <1>5, <1>6, <1>7

(* The repository is the same too. *)
LEMMA SameStore ==
  ASSUME NEW result
  PROVE  /\ Service!Stored <=> Stored
         /\ Service!Store(result) <=> Store(result)
<1>1. Service!take_events(result) = take_events(result)
  BY DEF Service!take_events, take_events
<1> QED
  BY <1>1 DEF Service!Stored, Stored, Service!NoSession, NoSession, Service!Store, Store

-----------------------------------------------------------------------------
(* The simulation. *)

(* Creating a stream with rules is creating it and then configuring it. *)
LEMMA ConfigAtCreation ==
  ASSUME NEW ss, NEW id, NEW source, NEW rules, SessionInv(ss), ~HasStream(ss, id)
  PROVE  take_events(create_stream_with_config(ss, id, source, rules))
           = take_events(create_stream(ss, id, source, rules))
<1> DEFINE a == create_stream(ss, id, source, <<>>)
           b == create_stream_with_config(ss, id, source, rules)
           c == create_stream(ss, id, source, rules)
<1>0. DOMAIN ss = SessionField /\ id \notin DOMAIN ss.streams
  BY DEF SessionInv, SessionOK, HasStream
<1>1. /\ DOMAIN a = SessionField
      /\ DOMAIN c = SessionField
      /\ \A f \in SessionField \ {"streams", "pending_events"} : a[f] = c[f]
      /\ a.streams = WithStream(ss.streams, id, NewStream(id, source, <<>>))
      /\ c.streams = WithStream(ss.streams, id, NewStream(id, source, rules))
  BY <1>0 DEF create_stream, add_event, SessionField
<1>2. b = add_event([a EXCEPT !.streams[id] = update_config(@, rules)],
                    StreamEvent("StreamConfigUpdated", id))
  BY DEF create_stream_with_config, update_stream_config
<1> HIDE DEF a, c
<1>3. /\ DOMAIN b = SessionField
      /\ \A f \in SessionField \ {"streams", "pending_events"} : b[f] = a[f]
      /\ b.streams = [a.streams EXCEPT ![id] = update_config(@, rules)]
  BY <1>1, <1>2 DEF add_event, SessionField
<1> HIDE DEF b
<1>4. b.streams = c.streams
  <2>1. update_config(NewStream(id, source, <<>>), rules) = NewStream(id, source, rules)
    BY DEF update_config, NewStream
  <2> QED
    BY <1>1, <1>3, <2>1 DEF WithStream
<1>5. \A f \in SessionField : take_events(b)[f] = take_events(c)[f]
  BY <1>1, <1>3, <1>4 DEF take_events, SessionField
<1>6. /\ take_events(b) = [f \in SessionField |-> take_events(b)[f]]
      /\ take_events(c) = [f \in SessionField |-> take_events(c)[f]]
  BY <1>1, <1>3 DEF take_events
<1> QED
  BY <1>5, <1>6 DEF b, c

(* The lifecycle commands are the abstract ones. *)
LEMMA LifecycleSimulates ==
  ASSUME HandlerInv, NEW h \in Handler, Lifecycle(h)
  PROVE  Service!ServiceNext
<1>0. Stored => SessionInv(session)
  BY DEF HandlerInv, StoredOK
<1>1. CASE CreateSession(h)
  <2>1. ~Service!Stored /\ Service!Store(activate(NewSession(now))) /\ now' = now
    BY <1>1, SameStore DEF CreateSession
  <2>2. Service!Store(Service!activate(Service!NewSession(now)))
    BY <2>1, SameLifecycle
  <2> QED
    BY <2>1, <2>2 DEF Service!ServiceNext, Service!ServiceCreate
<1>2. ASSUME NEW id \in StreamId, NEW source \in Source, NEW rules \in Rules,
             CreateStreamCommand(h, id, source, rules)
      PROVE  Service!ServiceNext
  <2>1. /\ Stored /\ ~HasStream(session, id) /\ CanCreateStream(session, now) /\ now' = now
        /\ Store(IF rules = <<>> THEN create_stream(session, id, source, <<>>)
                 ELSE create_stream_with_config(session, id, source, rules))
    BY <1>2 DEF CreateStreamCommand, Ready, AtomicSessionUpdate
  <2>2. Store(create_stream(session, id, source, rules))
    BY <1>0, <2>1, ConfigAtCreation DEF Store
  <2>3. Service!ServiceCreateStream(id, source, rules)
    BY <2>1, <2>2, SameStore, SameLifecycle DEF Service!ServiceCreateStream
  <2> QED
    BY <2>1, <2>3 DEF Service!ServiceNext
<1>3. ASSUME NEW id \in StreamId, StartStreamCommand(h, id) \/ CompleteStreamCommand(h, id)
      PROVE  Service!ServiceNext
  <2>1. /\ Stored /\ now' = now
        /\ \/ CanStartStream(session, id) /\ Store(start_stream(session, id))
           \/ CanCompleteStream(session, id) /\ Store(complete_stream(session, id))
    BY <1>3 DEF StartStreamCommand, CompleteStreamCommand, Ready, AtomicSessionUpdate
  <2>2. id \in DOMAIN session.streams
    BY <2>1 DEF CanStartStream, CanCompleteStream, HasStream
  <2>3. Service!ServiceUpdate
    BY <2>1, <2>2, SameStore, SameLifecycle DEF Service!ServiceUpdate
  <2> QED
    BY <2>1, <2>3 DEF Service!ServiceNext
<1>4. CASE CloseSessionCommand(h)
  <2>1. Stored /\ now' = now /\ CanClose(session) /\ Store(close(session))
    BY <1>4 DEF CloseSessionCommand, Ready, AtomicSessionUpdate
  <2>2. Service!ServiceUpdate
    BY <2>1, SameStore, SameLifecycle DEF Service!ServiceUpdate
  <2> QED
    BY <2>1, <2>2 DEF Service!ServiceNext
<1> QED
  BY <1>1, <1>2, <1>3, <1>4 DEF Lifecycle

(* A commit under the lock is the abstract command at that instant. *)
LEMMA CommitSimulates ==
  ASSUME HandlerInv, NEW h \in Handler, GenerateCommit(h)
  PROVE  Service!ServiceNext
<1> DEFINE arg == task[h].arg
<1>1. /\ CanCommitForStream(session, arg.id) /\ now' = now
      /\ Store(commit_for_stream(session, arg.id, arg.patches, arg.max_frames))
  BY DEF GenerateCommit, AtomicSessionUpdate
<1>2. Stored /\ arg.id \in StreamId /\ arg.max_frames \in FrameLimit
  BY DEF GenerateCommit, HandlerInv, StoredOK, ExtractionFresh, SessionInv, SessionOK
<1>3. PICK t \in Threshold : arg.patches = extract_for_stream(session, arg.id, t)
  BY DEF GenerateCommit, HandlerInv, ExtractionFresh
<1> HIDE DEF arg
<1>4. Service!ServiceGenerate(arg.id, t, arg.max_frames)
  BY <1>1, <1>2, <1>3, SameStore, SameFrames DEF Service!ServiceGenerate
<1> QED
  BY <1>1, <1>2, <1>4 DEF Service!ServiceNext

(* A cross-stream commit is the abstract command at the moment it stores.  *)
LEMMA BatchSimulates ==
  ASSUME HandlerInv, NEW h \in Handler, BatchCommit(h)
  PROVE  Service!ServiceNext
<1> DEFINE arg == task[h].arg
<1>1. /\ CanCommitPriorityFrames(session, now) /\ now' = now
      /\ Store(commit_priority_frames(session, Candidates(session, arg.extracted, arg.order),
                                      arg.batch_size))
  BY DEF BatchCommit, AtomicSessionUpdate
<1>2. Stored /\ arg.batch_size \in FrameLimit
  BY DEF BatchCommit, HandlerInv, BatchFresh
<1>3. PICK t \in Threshold, visited \in SUBSET DOMAIN session.streams :
        /\ arg.order \in SetToSeqs(visited)
        /\ arg.extracted = [id \in visited |-> extract_for_stream(session, id, t)]
  BY DEF BatchCommit, HandlerInv, BatchFresh
<1> HIDE DEF arg
<1> DEFINE extracted == [id \in visited |-> Service!extract_for_stream(session, id, t)]
<1>4. arg.extracted = extracted
  BY <1>3, SameFrames
<1>5. /\ arg.order \in Service!SetToSeqs(visited)
      /\ Service!Store(Service!commit_priority_frames(
           session, Service!Candidates(session, extracted, arg.order), arg.batch_size))
      /\ Service!CanCommitPriorityFrames(session, now)
      /\ Service!Stored
  <2> HIDE DEF extracted
  <2> QED
    BY <1>1, <1>2, <1>3, <1>4, SameStore, SameFrames
<1>6. Service!ServiceBatch(t, arg.batch_size)
  BY <1>5 DEF Service!ServiceBatch
<1> QED
  BY <1>1, <1>2, <1>6 DEF Service!ServiceNext

(* Every step of the handlers is an abstract command, or changes nothing   *)
(* that the abstract service has.                                          *)
LEMMA NextSimulates ==
  HandlerInv /\ [Next]_vars => [Service!ServiceNext]_<<session, now>>
<1> SUFFICES ASSUME HandlerInv, [Next]_vars
             PROVE  Service!ServiceNext \/ (session' = session /\ now' = now)
  OBVIOUS
<1>1. CASE UNCHANGED vars
  BY <1>1 DEF vars
<1>2. CASE Tick
  BY <1>2 DEF Tick, Service!ServiceNext
<1>3. ASSUME NEW h \in Handler, Frames(h)
      PROVE  Service!ServiceNext \/ (session' = session /\ now' = now)
  <2>1. CASE GenerateCommit(h) \/ BatchCommit(h)
    BY <2>1, CommitSimulates, BatchSimulates
  <2>2. CASE ~(GenerateCommit(h) \/ BatchCommit(h))
    BY <1>3, <2>2 DEF Frames, GenerateExtract, GenerateReject, BatchExtract, BatchReject,
                      OtherThanTask
  <2> QED
    BY <2>1, <2>2
<1>4. ASSUME NEW h \in Handler, Continue(h) \/ DropHandler(h) \/ Health(h)
      PROVE  session' = session /\ now' = now
  BY <1>4 DEF Continue, InvalidateStatsCache, PublishBatch, AppendFrames, DropHandler, Health,
              HealthSnapshot, HealthCached, HealthMiss, HealthFill, OtherThanTask
<1> QED
  BY <1>1, <1>2, <1>3, <1>4, LifecycleSimulates DEF Next

(***************************************************************************)
(* The handlers implement the atomic service: extracting outside the lock  *)
(* and committing under it later is indistinguishable, in the stored       *)
(* session, from doing both at once, for any number of handlers.           *)
(***************************************************************************)
THEOREM Refinement == Spec => ImplementsService
<1>1. Init => Service!ServiceInit
  BY DEF Init, Service!ServiceInit, Service!NoSession, NoSession
<1> QED
  BY <1>1, NextSimulates, Invariance, PTL DEF Spec, ImplementsService, Service!ServiceSpec

-----------------------------------------------------------------------------
(* Events. *)

(* The statistics of the stored session; nothing has happened before it. *)
StoredFrames == IF Stored THEN session.total_frames ELSE 0
StoredCompleted == IF Stored THEN session.completed_streams ELSE 0

(* What the handlers hold and have not published. *)
HeldFrames == SumFunction([h \in Handler |-> FramesIn(task[h].events)])
HeldCompleted == SumFunction([h \in Handler |-> CountOf(task[h].events, "StreamCompleted")])

(***************************************************************************)
(* EventAccounting with what makes it inductive: a handler holds events    *)
(* only between its commit and its publication, so that a commit never     *)
(* overwrites some, and the session's totals are those of its streams.     *)
(***************************************************************************)
Accounts ==
  /\ Stored => LedgerOK(session)
  /\ reported.frames \in Nat /\ reported.completed \in Nat
  /\ \A h \in Handler : QueueOK(task[h].events)
  /\ \A h \in Handler : task[h].pc \notin {"invalidate", "publish"} => task[h].events = <<>>
  /\ StoredFrames = reported.frames + HeldFrames
  /\ StoredCompleted = reported.completed + HeldCompleted

(* What the handlers hold after one of them changed its record. *)
LEMMA HeldChange ==
  ASSUME HandlerInv, Accounts, NEW h \in Handler, NEW rec, QueueOK(rec.events),
         task' = [task EXCEPT ![h] = rec]
  PROVE  /\ HeldFrames \in Nat /\ HeldCompleted \in Nat
         /\ HeldFrames' = HeldFrames - FramesIn(task[h].events) + FramesIn(rec.events)
         /\ HeldCompleted' = HeldCompleted - CountOf(task[h].events, "StreamCompleted")
                               + CountOf(rec.events, "StreamCompleted")
<1> DEFINE f == [g \in Handler |-> FramesIn(task[g].events)]
           f2 == [g \in Handler |-> FramesIn(task'[g].events)]
           c == [g \in Handler |-> CountOf(task[g].events, "StreamCompleted")]
           c2 == [g \in Handler |-> CountOf(task'[g].events, "StreamCompleted")]
<1>1. task'[h] = rec /\ \A g \in Handler \ {h} : task'[g] = task[g]
  BY DEF HandlerInv, TasksOK
<1>2. \A g \in Handler : /\ FramesIn(task[g].events) \in Nat
                         /\ CountOf(task[g].events, "StreamCompleted") \in Nat
  BY CountType DEF Accounts
<1>3. FramesIn(rec.events) \in Nat /\ CountOf(rec.events, "StreamCompleted") \in Nat
  BY CountType
<1>4. /\ \A g \in Handler : f[g] \in Nat /\ c[g] \in Nat
      /\ \A g \in Handler \ {h} : f2[g] = f[g] /\ c2[g] = c[g]
      /\ f2[h] \in Nat /\ c2[h] \in Nat
      /\ f[h] = FramesIn(task[h].events) /\ f2[h] = FramesIn(rec.events)
      /\ c[h] = CountOf(task[h].events, "StreamCompleted")
      /\ c2[h] = CountOf(rec.events, "StreamCompleted")
  BY <1>1, <1>2, <1>3
<1>5. /\ HeldFrames = SumFunctionOnSet(f, Handler) /\ HeldCompleted = SumFunctionOnSet(c, Handler)
      /\ HeldFrames' = SumFunctionOnSet(f2, Handler)
      /\ HeldCompleted' = SumFunctionOnSet(c2, Handler)
  BY DEF HeldFrames, HeldCompleted, SumFunction
<1> HIDE DEF f, f2, c, c2
<1>6. /\ SumFunctionOnSet(f2, Handler) = SumFunctionOnSet(f, Handler) - f[h] + f2[h]
      /\ SumFunctionOnSet(c2, Handler) = SumFunctionOnSet(c, Handler) - c[h] + c2[h]
  BY <1>4, HandlerAssumption, SumChange
<1>7. SumFunctionOnSet(f, Handler) \in Nat /\ SumFunctionOnSet(c, Handler) \in Nat
  BY <1>4, HandlerAssumption, SumStep
<1> QED
  BY <1>4, <1>5, <1>6, <1>7

(* The parts of the invariant that one handler's record can disturb. *)
LEMMA RecordAccounts ==
  ASSUME HandlerInv, Accounts, NEW h \in Handler, NEW rec, QueueOK(rec.events),
         rec.pc \notin {"invalidate", "publish"} => rec.events = <<>>,
         task' = [task EXCEPT ![h] = rec]
  PROVE  /\ \A g \in Handler : QueueOK(task'[g].events)
         /\ \A g \in Handler : task'[g].pc \notin {"invalidate", "publish"} => task'[g].events = <<>>
<1>1. task'[h] = rec /\ \A g \in Handler \ {h} : task'[g] = task[g]
  BY DEF HandlerInv, TasksOK
<1> QED
  BY <1>1 DEF Accounts

(* The sum that a commit carries over from old to new. *)
LEMMA Carried ==
  ASSUME NEW old \in Nat, NEW new \in Nat, NEW rep \in Nat, NEW held \in Nat, NEW events \in Nat,
         old = rep + held, events - 0 = new - old
  PROVE  new = rep + (held - 0 + events)
  OBVIOUS

(***************************************************************************)
(* A handler with no events stores result, which it made of old, and takes *)
(* the events of result along.                                             *)
(***************************************************************************)
LEMMA UpdateAccounts ==
  ASSUME HandlerInv, Accounts, NEW h \in Handler, NEW rec, NEW old, NEW result,
         task[h].pc \notin {"invalidate", "publish"},
         SessionInv(old), old.pending_events = <<>>,
         old.total_frames = StoredFrames, old.completed_streams = StoredCompleted,
         Accounted(old, result), SessionInv(result), Store(result), reported' = reported,
         task' = [task EXCEPT ![h] = rec], rec.pc \in {"invalidate", "publish"},
         rec.events = result.pending_events
  PROVE  Accounts'
<1>1. LedgerOK(result) /\ Told(old, result) /\ QueueOK(rec.events)
  BY DEF Accounted, Told
<1>2. LedgerOK(session') /\ SessionInv(session')
  BY <1>1, TakeEventsLedger, EventsKeepInv DEF Store
<1>3. session'.total_frames = result.total_frames
      /\ session'.completed_streams = result.completed_streams
  BY DEF Store, take_events, SessionInv, SessionOK, SessionField
<1>4. Stored' /\ StoredFrames' = result.total_frames /\ StoredCompleted' = result.completed_streams
  BY <1>2, <1>3, SessionIsStored DEF Stored, StoredFrames, StoredCompleted
<1>5. /\ FramesIn(task[h].events) = 0 /\ CountOf(task[h].events, "StreamCompleted") = 0
      /\ FramesIn(old.pending_events) = 0 /\ CountOf(old.pending_events, "StreamCompleted") = 0
  BY EmptyQueue DEF Accounts
<1>6. /\ HeldFrames \in Nat /\ HeldCompleted \in Nat
      /\ HeldFrames' = HeldFrames - 0 + FramesIn(rec.events)
      /\ HeldCompleted' = HeldCompleted - 0 + CountOf(rec.events, "StreamCompleted")
  BY <1>1, <1>5, HeldChange
<1>7. /\ FramesIn(rec.events) - 0 = result.total_frames - old.total_frames
      /\ CountOf(rec.events, "StreamCompleted") - 0
           = result.completed_streams - old.completed_streams
  BY <1>1, <1>5 DEF Told
<1>8. FramesIn(rec.events) \in Nat /\ CountOf(rec.events, "StreamCompleted") \in Nat
  BY <1>1, CountType
<1>9. /\ old.total_frames \in Nat /\ old.completed_streams \in Nat
      /\ result.total_frames \in Nat /\ result.completed_streams \in Nat
      /\ reported.frames \in Nat /\ reported.completed \in Nat
  BY DEF SessionInv, SessionOK, Accounts
<1>10. StoredFrames = reported.frames + HeldFrames /\ StoredCompleted = reported.completed + HeldCompleted
  BY DEF Accounts
<1>11. StoredFrames' = reported.frames + HeldFrames'
  <2>1. result.total_frames = reported.frames + HeldFrames'
    BY ONLY <1>6, <1>7, <1>8, <1>9, <1>10, old.total_frames = StoredFrames, Carried
  <2> QED
    BY <1>4, <2>1
<1>12. StoredCompleted' = reported.completed + HeldCompleted'
  <2>1. result.completed_streams = reported.completed + HeldCompleted'
    BY ONLY <1>6, <1>7, <1>8, <1>9, <1>10, old.completed_streams = StoredCompleted, Carried
  <2> QED
    BY <1>4, <2>1
<1>13. /\ \A g \in Handler : QueueOK(task'[g].events)
       /\ \A g \in Handler : task'[g].pc \notin {"invalidate", "publish"} => task'[g].events = <<>>
  BY <1>1, RecordAccounts
<1> QED
  BY <1>2, <1>9, <1>11, <1>12, <1>13 DEF Accounts

(* A handler goes on with the events it has. *)
LEMMA QuietAccounts ==
  ASSUME HandlerInv, Accounts, NEW h \in Handler, NEW rec,
         session' = session, reported' = reported, task' = [task EXCEPT ![h] = rec],
         rec.events = task[h].events,
         rec.pc \notin {"invalidate", "publish"} => rec.events = <<>>
  PROVE  Accounts'
<1>1. QueueOK(rec.events)
  BY DEF Accounts
<1>2. /\ HeldFrames \in Nat /\ HeldCompleted \in Nat
      /\ HeldFrames' = HeldFrames - FramesIn(rec.events) + FramesIn(rec.events)
      /\ HeldCompleted' = HeldCompleted - CountOf(rec.events, "StreamCompleted")
                            + CountOf(rec.events, "StreamCompleted")
  BY <1>1, HeldChange
<1>3. FramesIn(rec.events) \in Nat /\ CountOf(rec.events, "StreamCompleted") \in Nat
  BY <1>1, CountType
<1>4. HeldFrames' = HeldFrames /\ HeldCompleted' = HeldCompleted
  BY <1>2, <1>3
<1>5. /\ \A g \in Handler : QueueOK(task'[g].events)
      /\ \A g \in Handler : task'[g].pc \notin {"invalidate", "publish"} => task'[g].events = <<>>
  BY <1>1, RecordAccounts
<1>6. (Stored' <=> Stored) /\ StoredFrames' = StoredFrames /\ StoredCompleted' = StoredCompleted
  BY DEF Stored, StoredFrames, StoredCompleted
<1> QED
  BY <1>4, <1>5, <1>6 DEF Accounts

(* Publication moves what the handler holds to what is reported. *)
LEMMA PublishAccounts ==
  ASSUME HandlerInv, Accounts, NEW h \in Handler, PublishBatch(h)
  PROVE  Accounts'
<1> DEFINE q == task[h].events
<1>0. DOMAIN task[h] = {"pc", "events", "frames", "arg"}
  BY DEF HandlerInv, TasksOK
<1>1. PICK rec : task' = [task EXCEPT ![h] = rec] /\ rec.events = <<>>
  <2>1. CASE task[h].frames = <<>>
    <3>1. task' = [task EXCEPT ![h] = Idle]
      BY <2>1 DEF PublishBatch
    <3>2. Idle.events = <<>>
      BY DEF Idle
    <3> QED
      BY <3>1, <3>2
  <2>2. CASE task[h].frames # <<>>
    <3> DEFINE rec == [[task[h] EXCEPT !.pc = "append"] EXCEPT !.events = <<>>]
    <3>1. task' = [task EXCEPT ![h] = rec] /\ rec.events = <<>>
      BY <1>0, <2>2 DEF PublishBatch
    <3> QED
      BY <3>1
  <2> QED
    BY <2>1, <2>2
<1>2. /\ session' = session /\ reported' = AddTally(reported, EventTally(q))
  BY DEF PublishBatch
<1>3. /\ reported'.frames = reported.frames + FramesIn(q)
      /\ reported'.completed = reported.completed + CountOf(q, "StreamCompleted")
  BY <1>2 DEF AddTally, EventTally
<1>4. /\ QueueOK(rec.events) /\ FramesIn(rec.events) = 0
      /\ CountOf(rec.events, "StreamCompleted") = 0
  BY <1>1, EmptyQueue
<1>5. /\ HeldFrames \in Nat /\ HeldCompleted \in Nat
      /\ HeldFrames' = HeldFrames - FramesIn(q) + 0
      /\ HeldCompleted' = HeldCompleted - CountOf(q, "StreamCompleted") + 0
  BY <1>1, <1>4, HeldChange
<1>6. FramesIn(q) \in Nat /\ CountOf(q, "StreamCompleted") \in Nat
  BY CountType DEF Accounts
<1>7. /\ \A g \in Handler : QueueOK(task'[g].events)
      /\ \A g \in Handler : task'[g].pc \notin {"invalidate", "publish"} => task'[g].events = <<>>
  BY <1>1, <1>4, RecordAccounts
<1>8. (Stored' <=> Stored) /\ StoredFrames' = StoredFrames /\ StoredCompleted' = StoredCompleted
  BY <1>2 DEF Stored, StoredFrames, StoredCompleted
<1>9. /\ reported.frames \in Nat /\ reported.completed \in Nat
      /\ StoredFrames = reported.frames + HeldFrames
      /\ StoredCompleted = reported.completed + HeldCompleted
  BY DEF Accounts
<1> HIDE DEF q
<1>10. reported'.frames \in Nat /\ StoredFrames' = reported'.frames + HeldFrames'
  BY <1>3, <1>5, <1>6, <1>8, <1>9
<1>11. reported'.completed \in Nat /\ StoredCompleted' = reported'.completed + HeldCompleted'
  BY <1>3, <1>5, <1>6, <1>8, <1>9
<1> QED
  BY <1>2, <1>7, <1>8, <1>10, <1>11 DEF Accounts

(* What a single-stream commit stores, accounted for. *)
LEMMA CommitAccounted ==
  ASSUME HandlerInv, Accounts, NEW h \in Handler, GenerateCommit(h)
  PROVE  LET arg == task[h].arg
         IN  Accounted(session, commit_for_stream(session, arg.id, arg.patches, arg.max_frames))
<1> DEFINE arg == task[h].arg
<1>1. /\ CanCommitForStream(session, arg.id) /\ Stored /\ arg.max_frames \in FrameLimit
      /\ \E t \in Threshold : arg.patches = extract_for_stream(session, arg.id, t)
  BY DEF GenerateCommit, HandlerInv, ExtractionFresh
<1>2. SessionInv(session) /\ HasStream(session, arg.id) /\ arg.max_frames \in Nat
  BY <1>1, FrameLimitAssumption DEF HandlerInv, StoredOK, CanCommitForStream
<1>3. session.streams[arg.id].source \in Seq(Patch(Path))
  BY <1>2, SourceAssumption DEF SessionInv, SessionOK, StreamOK, HasStream
<1>4. \E R : arg.patches \in Seq(R)
  BY <1>1, <1>3, ExtractIsSeq DEF extract_for_stream, extract_prioritized_patches
<1>5. LedgerOK(session) /\ QueueOK(session.pending_events)
  BY <1>1, EmptyQueue DEF HandlerInv, StoredOK, Accounts
<1> HIDE DEF arg
<1>6. Accounted(session, commit_for_stream(session, arg.id, arg.patches, arg.max_frames))
  BY <1>1, <1>2, <1>4, <1>5, CommitForStreamAccounted
<1> QED
  BY <1>6 DEF arg

(* What a cross-stream commit stores, accounted for. *)
LEMMA BatchCommitAccounted ==
  ASSUME HandlerInv, Accounts, NEW h \in Handler, BatchCommit(h)
  PROVE  LET arg == task[h].arg
             candidates == Candidates(session, arg.extracted, arg.order)
         IN  Accounted(session, commit_priority_frames(session, candidates, arg.batch_size))
<1> DEFINE arg == task[h].arg
           order == arg.order
           extracted == arg.extracted
           candidates == Candidates(session, extracted, order)
<1>1. Stored /\ SessionInv(session) /\ LedgerOK(session) /\ QueueOK(session.pending_events)
  BY EmptyQueue DEF BatchCommit, HandlerInv, BatchFresh, StoredOK, Accounts
<1>2. PICK t \in Threshold, visited \in SUBSET DOMAIN session.streams :
        /\ order \in SetToSeqs(visited)
        /\ extracted = [id \in visited |-> extract_for_stream(session, id, t)]
  BY DEF BatchCommit, HandlerInv, BatchFresh
<1>3. Cardinality(visited) \in Nat
  BY <1>1, FiniteParts, FS_Subset, FS_CardinalityType DEF SessionInv, SessionOK
<1>4. order \in [1..Cardinality(visited) -> visited]
  BY <1>2 DEF SetToSeqs
<1> HIDE DEF order, extracted
<1>5. order \in Seq(visited)
  BY <1>3, <1>4, SeqDef
<1>6. ASSUME NEW i \in DOMAIN order PROVE \E X : extracted[order[i]] \in Seq(X)
  <2>1. order[i] \in visited /\ HasStream(session, order[i])
    BY <1>4 DEF HasStream
  <2>2. extracted[order[i]] = extract_for_stream(session, order[i], t)
    BY <1>2, <2>1
  <2>3. session.streams[order[i]].source \in Seq(Patch(Path))
    BY <1>1, <2>1, SourceAssumption DEF SessionInv, SessionOK, StreamOK, HasStream
  <2> QED
    BY <2>2, <2>3, ExtractIsSeq DEF extract_for_stream, extract_prioritized_patches
<1>7. IsFiniteSet(DOMAIN candidates)
  BY <1>5, CandidatesFinite
<1>8. \A k \in DOMAIN candidates : CanCommitForStream(session, candidates[k].stream)
  BY DEF Candidates
<1>9. DOMAIN candidates \subseteq Int
  <2>1. DOMAIN candidates \subseteq 1..(MaxCandidatesPerStream * Len(order))
    BY DEF Candidates
  <2>2. MaxCandidatesPerStream * Len(order) \in Int
    BY <1>5, LenProperties DEF MaxCandidatesPerStream
  <2> HIDE DEF candidates
  <2> QED
    BY <2>1, <2>2
<1>10. \A k \in DOMAIN candidates : Len(candidates[k].patches) \in Nat
  BY <1>5, <1>6, CandidateLengths
<1> HIDE DEF candidates, arg
<1>11. Accounted(session, commit_priority_frames(session, candidates, arg.batch_size))
  BY <1>1, <1>7, <1>8, <1>9, <1>10, CommitPriorityFramesAccounted
<1> QED
  BY <1>11 DEF candidates, order, extracted, arg

(* Nothing stored, nothing reported, nothing held. *)
LEMMA InitAccounts == Init => Accounts
<1> SUFFICES ASSUME Init PROVE Accounts
  OBVIOUS
<1>1. ~Stored /\ reported.frames = 0 /\ reported.completed = 0
  BY DEF Init, Stored
<1>2. \A h \in Handler : task[h].events = <<>>
  BY DEF Init, Idle
<1>3. ASSUME NEW f, DOMAIN f = Handler, \A h \in Handler : f[h] = 0 PROVE SumFunction(f) = 0
  <2>1. SumFunctionOnSet(f, Handler) \in Nat
    BY <1>3, HandlerAssumption, SumStep
  <2>2. SumFunctionOnSet(f, Handler) = SumFunctionOnSet(f, Handler) + SumFunctionOnSet(f, Handler)
    BY <1>3, HandlerAssumption, SumAdd
  <2>3. \A x \in Nat : x = x + x => x = 0
    OBVIOUS
  <2>4. SumFunctionOnSet(f, Handler) = 0
    BY <2>1, <2>2, <2>3, Zenon
  <2>5. SumFunction(f) = SumFunctionOnSet(f, Handler)
    BY <1>3 DEF SumFunction
  <2> QED
    BY <2>4, <2>5
<1>4. HeldFrames = 0 /\ HeldCompleted = 0
  <2> DEFINE f == [h \in Handler |-> FramesIn(task[h].events)]
             c == [h \in Handler |-> CountOf(task[h].events, "StreamCompleted")]
  <2>1. /\ DOMAIN f = Handler /\ \A h \in Handler : f[h] = 0
        /\ DOMAIN c = Handler /\ \A h \in Handler : c[h] = 0
    BY <1>2, EmptyQueue
  <2>2. HeldFrames = SumFunction(f) /\ HeldCompleted = SumFunction(c)
    BY DEF HeldFrames, HeldCompleted
  <2> HIDE DEF f, c
  <2> QED
    BY <1>3, <2>1, <2>2
<1> QED
  BY <1>1, <1>2, <1>4, EmptyQueue DEF Accounts, StoredFrames, StoredCompleted

(* A handler stores result under the lock and goes on with its events. *)
LEMMA AtomicAccounts ==
  ASSUME HandlerInv, Accounts, NEW h \in Handler, NEW result, NEW frames, Stored,
         task[h].pc \notin {"invalidate", "publish"},
         SessionInv(result), Accounted(session, result), AtomicSessionUpdate(h, result, frames)
  PROVE  Accounts'
<1> DEFINE rec == [pc |-> "invalidate", events |-> result.pending_events, frames |-> frames, arg |-> <<>>]
<1>1. Store(result) /\ reported' = reported /\ task' = [task EXCEPT ![h] = rec]
  BY DEF AtomicSessionUpdate
<1>2. rec.pc = "invalidate" /\ rec.events = result.pending_events
  OBVIOUS
<1>3. /\ SessionInv(session) /\ session.pending_events = <<>>
      /\ session.total_frames = StoredFrames /\ session.completed_streams = StoredCompleted
  BY DEF HandlerInv, StoredOK, StoredFrames, StoredCompleted
<1> HIDE DEF rec
<1> QED
  BY <1>1, <1>2, <1>3, UpdateAccounts

(* The commands that change a session or one of its streams. *)
LEMMA LifecycleAccounts ==
  ASSUME HandlerInv, Accounts, NEW h \in Handler, Lifecycle(h)
  PROVE  Accounts'
<1>0. Stored => /\ SessionInv(session) /\ LedgerOK(session) /\ QueueOK(session.pending_events)
                /\ session.pending_events = <<>>
  BY EmptyQueue DEF HandlerInv, StoredOK, Accounts
<1>1. CASE CreateSession(h)
  <2> DEFINE fresh == NewSession(now)
             created == activate(fresh)
             rec == [pc |-> "publish", events |-> created.pending_events, frames |-> <<>>, arg |-> <<>>]
  <2>1. SessionInv(fresh) /\ CanActivate(fresh) /\ LedgerOK(fresh)
        /\ fresh.pending_events = <<>> /\ fresh.total_frames = 0 /\ fresh.completed_streams = 0
    BY NewSessionInv, NewLedger DEF HandlerInv, CanActivate, NewSession
  <2>2. /\ Store(created) /\ reported' = reported /\ task' = [task EXCEPT ![h] = rec]
        /\ ~Stored /\ task[h].pc = "idle"
    BY <1>1 DEF CreateSession
  <2>3. rec.pc = "publish" /\ rec.events = created.pending_events
    OBVIOUS
  <2>4. StoredFrames = 0 /\ StoredCompleted = 0
    BY <2>2 DEF StoredFrames, StoredCompleted
  <2> HIDE DEF fresh, rec
  <2>5. SessionInv(created) /\ Accounted(fresh, created)
    <3>1. 0 \in Nat /\ QueueOK(fresh.pending_events)
      BY <2>1, EmptyQueue
    <3> QED
      BY <2>1, <3>1, ActivateInv, SessionAccounted
  <2> HIDE DEF created
  <2> QED
    BY <2>1, <2>2, <2>3, <2>4, <2>5, UpdateAccounts
<1>3. ASSUME NEW id \in StreamId, NEW source \in Source, NEW rules \in Rules,
             CreateStreamCommand(h, id, source, rules)
      PROVE  Accounts'
  <2>1. /\ ~HasStream(session, id) /\ CanCreateStream(session, now) /\ Stored /\ task[h].pc = "idle"
    BY <1>3 DEF CreateStreamCommand, Ready
  <2>2. \/ AtomicSessionUpdate(h, create_stream(session, id, source, <<>>), <<>>)
        \/ AtomicSessionUpdate(h, create_stream_with_config(session, id, source, rules), <<>>)
    BY <1>3 DEF CreateStreamCommand
  <2>3. RulesOK(rules) /\ RulesOK(<<>>)
    BY RulesAssumption DEF RulesOK
  <2>4. /\ SessionInv(create_stream(session, id, source, <<>>))
        /\ SessionInv(create_stream_with_config(session, id, source, rules))
    BY <1>0, <2>1, <2>3, CreateStreamInv, CreateStreamWithConfigInv
  <2>5. /\ Accounted(session, create_stream(session, id, source, <<>>))
        /\ Accounted(session, create_stream_with_config(session, id, source, rules))
    BY <1>0, <2>1, <2>3, CreateStreamAccounted, CreateStreamWithConfigAccounted
  <2> QED
    BY <2>1, <2>2, <2>4, <2>5, AtomicAccounts
<1>4. ASSUME NEW id \in StreamId, StartStreamCommand(h, id)
      PROVE  Accounts'
  <2>1. /\ CanStartStream(session, id) /\ HasStream(session, id) /\ Stored /\ task[h].pc = "idle"
        /\ AtomicSessionUpdate(h, start_stream(session, id), <<>>)
    BY <1>4 DEF StartStreamCommand, Ready, CanStartStream
  <2>2. SessionInv(start_stream(session, id)) /\ Accounted(session, start_stream(session, id))
    BY <1>0, <2>1, StartStreamInv, StreamAccounted
  <2> QED
    BY <2>1, <2>2, AtomicAccounts
<1>5. ASSUME NEW id \in StreamId, CompleteStreamCommand(h, id)
      PROVE  Accounts'
  <2>1. /\ CanCompleteStream(session, id) /\ HasStream(session, id) /\ Stored /\ task[h].pc = "idle"
        /\ AtomicSessionUpdate(h, complete_stream(session, id), <<>>)
    BY <1>5 DEF CompleteStreamCommand, Ready, CanCompleteStream
  <2>2. SessionInv(complete_stream(session, id)) /\ Accounted(session, complete_stream(session, id))
    BY <1>0, <2>1, CompleteStreamInv, StreamAccounted
  <2> QED
    BY <2>1, <2>2, AtomicAccounts
<1>6. CASE CloseSessionCommand(h)
  <2>1. /\ CanClose(session) /\ Stored /\ task[h].pc = "idle"
        /\ AtomicSessionUpdate(h, close(session), <<>>)
    BY <1>6 DEF CloseSessionCommand, Ready
  <2>2. SessionInv(close(session)) /\ Accounted(session, close(session))
    BY <1>0, <2>1, CloseInv, CloseAccounted
  <2> QED
    BY <2>1, <2>2, AtomicAccounts
<1> QED
  BY <1>1, <1>3, <1>4, <1>5, <1>6 DEF Lifecycle

(* A handler that holds no events goes to a point where it holds none. *)
LEMMA GotoAccounts ==
  ASSUME HandlerInv, Accounts, NEW h \in Handler, NEW pc, NEW arg, Goto(h, pc, arg),
         task[h].pc \notin {"invalidate", "publish"}, session' = session, reported' = reported
  PROVE  Accounts'
<1> DEFINE rec == [pc |-> pc, events |-> <<>>, frames |-> <<>>, arg |-> arg]
<1>1. task' = [task EXCEPT ![h] = rec] /\ rec.events = <<>>
  BY DEF Goto
<1>2. task[h].events = <<>>
  BY DEF Accounts
<1> HIDE DEF rec
<1> QED
  BY <1>1, <1>2, QuietAccounts

(* Extraction, commit and rejection. *)
LEMMA FramesAccounts ==
  ASSUME HandlerInv, Accounts, NEW h \in Handler, Frames(h)
  PROVE  Accounts'
<1>1. CASE \/ \E id \in StreamId, t \in Threshold, n \in FrameLimit : GenerateExtract(h, id, t, n)
           \/ \E t \in Threshold, n \in FrameLimit : BatchExtract(h, t, n)
           \/ GenerateReject(h) \/ BatchReject(h)
  <2>1. /\ task[h].pc \in {"idle", "commit", "batch_commit"}
        /\ session' = session /\ reported' = reported
    BY <1>1 DEF GenerateExtract, BatchExtract, GenerateReject, BatchReject, OtherThanTask, Ready
  <2>2. \E pc, arg : Goto(h, pc, arg)
    BY <1>1 DEF GenerateExtract, BatchExtract, GenerateReject, BatchReject
  <2> QED
    BY <2>1, <2>2, GotoAccounts
<1>2. CASE GenerateCommit(h)
  <2> DEFINE arg == task[h].arg
             result == commit_for_stream(session, arg.id, arg.patches, arg.max_frames)
  <2>1. Stored /\ SessionInv(result) /\ Accounted(session, result)
    BY <1>2, CommitResult, CommitAccounted
  <2>2. /\ AtomicSessionUpdate(h, result, FramesForStream(session, arg.id, arg.patches, arg.max_frames))
        /\ task[h].pc = "commit"
    BY <1>2 DEF GenerateCommit
  <2> HIDE DEF result, arg
  <2> QED
    BY <2>1, <2>2, AtomicAccounts
<1>3. CASE BatchCommit(h)
  <2> DEFINE arg == task[h].arg
             candidates == Candidates(session, arg.extracted, arg.order)
             result == commit_priority_frames(session, candidates, arg.batch_size)
  <2>1. Stored /\ SessionInv(result) /\ Accounted(session, result)
    BY <1>3, BatchResult, BatchCommitAccounted
  <2>2. /\ AtomicSessionUpdate(h, result, PriorityFrames(session, candidates, arg.batch_size))
        /\ task[h].pc = "batch_commit"
    BY <1>3 DEF BatchCommit
  <2> HIDE DEF result, arg, candidates
  <2> QED
    BY <2>1, <2>2, AtomicAccounts
<1> QED
  BY <1>1, <1>2, <1>3 DEF Frames

(* The steps after a commit, a dropped future and the health query. *)
LEMMA OtherAccounts ==
  ASSUME HandlerInv, Accounts, NEW h \in Handler, Continue(h) \/ DropHandler(h) \/ Health(h)
  PROVE  Accounts'
<1>0. DOMAIN task[h] = {"pc", "events", "frames", "arg"}
  BY DEF HandlerInv, TasksOK
<1>1. CASE InvalidateStatsCache(h)
  <2> DEFINE rec == [task[h] EXCEPT !.pc = "publish"]
  <2>1. task' = [task EXCEPT ![h] = rec] /\ rec.events = task[h].events /\ rec.pc = "publish"
        /\ session' = session /\ reported' = reported
    BY <1>0, <1>1 DEF InvalidateStatsCache
  <2> HIDE DEF rec
  <2> QED
    BY <2>1, QuietAccounts
<1>2. CASE PublishBatch(h)
  BY <1>2, PublishAccounts
<1>3. CASE AppendFrames(h) \/ DropHandler(h) \/ HealthMiss(h)
  <2>1. /\ task[h].pc \in {"append", "health"} /\ session' = session /\ reported' = reported
    BY <1>3 DEF AppendFrames, DropHandler, HealthMiss, OtherThanTask
  <2>2. task[h].events = <<>>
    BY <2>1 DEF Accounts
  <2>3. \E rec : task' = [task EXCEPT ![h] = rec] /\ rec.events = <<>>
    <3>1. CASE task' = [task EXCEPT ![h] = Idle]
      <4>1. Idle.events = <<>>
        BY DEF Idle
      <4> QED
        BY <3>1, <4>1
    <3>2. ASSUME NEW rest, task' = [task EXCEPT ![h].frames = rest]
          PROVE  /\ task' = [task EXCEPT ![h] = [task[h] EXCEPT !.frames = rest]]
                 /\ [task[h] EXCEPT !.frames = rest].events = <<>>
      BY <1>0, <2>2, <3>2
    <3>3. CASE task' = [task EXCEPT ![h].pc = "fill"]
      <4> DEFINE rec == [task[h] EXCEPT !.pc = "fill"]
      <4>1. task' = [task EXCEPT ![h] = rec] /\ rec.events = <<>>
        BY <1>0, <2>2, <3>3
      <4> QED
        BY <4>1
    <3>4. \/ task' = [task EXCEPT ![h] = Idle]
          \/ \E rest : task' = [task EXCEPT ![h].frames = rest]
          \/ task' = [task EXCEPT ![h].pc = "fill"]
      BY <1>3 DEF AppendFrames, DropHandler, HealthMiss
    <3> QED
      BY <3>1, <3>2, <3>3, <3>4
  <2> QED
    BY <2>1, <2>2, <2>3, QuietAccounts
<1>4. CASE HealthSnapshot(h) \/ HealthCached(h) \/ HealthFill(h)
  <2>1. /\ task[h].pc \in {"idle", "health", "fill"} /\ session' = session /\ reported' = reported
        /\ \E pc, arg : Goto(h, pc, arg)
    BY <1>4 DEF HealthSnapshot, HealthCached, HealthFill, Ready, OtherThanTask
  <2> QED
    BY <2>1, GotoAccounts
<1> QED
  BY <1>1, <1>2, <1>3, <1>4 DEF Continue, Health

(* Every step keeps the accounts. *)
LEMMA NextAccounts == HandlerInv /\ Accounts /\ [Next]_vars => Accounts'
<1> SUFFICES ASSUME HandlerInv, Accounts, [Next]_vars PROVE Accounts'
  OBVIOUS
<1>1. CASE UNCHANGED vars \/ Tick
  <2>1. session' = session /\ task' = task /\ reported' = reported
    BY <1>1 DEF vars, Tick
  <2> QED
    BY <2>1 DEF Accounts, Stored, StoredFrames, StoredCompleted, HeldFrames, HeldCompleted
<1>2. ASSUME NEW h \in Handler,
             Lifecycle(h) \/ Frames(h) \/ Continue(h) \/ DropHandler(h) \/ Health(h)
      PROVE  Accounts'
  BY <1>2, LifecycleAccounts, FramesAccounts, OtherAccounts
<1> QED
  BY <1>1, <1>2 DEF Next

(* The accounts balance in every reachable state. *)
THEOREM AccountsInvariant == Spec => []Accounts
  BY InitAccounts, NextAccounts, Invariance, PTL DEF Spec

(***************************************************************************)
(* However many handlers, and however their commits, cache invalidations   *)
(* and publications interleave: what has been published and what the       *)
(* handlers still hold add up to the statistics of the stored session.     *)
(* Draining the queue under the shard lock loses no event and hands none   *)
(* to two handlers.                                                        *)
(***************************************************************************)
THEOREM EventAccountingCorrect == Spec => []EventAccounting
<1>1. Accounts => EventAccounting
  BY DEF Accounts, EventAccounting, StoredFrames, StoredCompleted, HeldFrames, HeldCompleted
<1> QED
  BY <1>1, AccountsInvariant, PTL

-----------------------------------------------------------------------------
(* Frames. *)

(* What identifies a frame. *)
Key(f) == <<f.stream, f.sequence>>

(* A sequence of frames no two of which have the same number. *)
Numbered(s) ==
  /\ \E R : s \in Seq(R)
  /\ \A i, j \in DOMAIN s : Key(s[i]) = Key(s[j]) => i = j

(* Such a sequence has as many keys as entries. *)
LEMMA KeysCount ==
  ASSUME NEW s, Numbered(s)
  PROVE  /\ Len(s) \in Nat /\ DOMAIN s = 1..Len(s)
         /\ Keys(s) = {Key(s[i]) : i \in DOMAIN s}
         /\ IsFiniteSet(Keys(s)) /\ Cardinality(Keys(s)) = Len(s)
<1>1. Len(s) \in Nat /\ DOMAIN s = 1..Len(s)
  BY LenProperties DEF Numbered
<1>2. Keys(s) = {Key(s[i]) : i \in DOMAIN s}
  BY DEF Keys, ToSet, Key
<1>3. IsFiniteSet(DOMAIN s) /\ Cardinality(DOMAIN s) = Len(s)
  <2> DEFINE n == Len(s)
  <2> HIDE DEF n
  <2>1. n \in Nat /\ DOMAIN s = 1..n
    BY <1>1 DEF n
  <2>2. IsFiniteSet(1..n) /\ Cardinality(1..n) = n
    BY <2>1, FS_Interval
  <2> QED
    BY <2>1, <2>2 DEF n
<1> DEFINE S == DOMAIN s
           g == [i \in S |-> Key(s[i])]
           T == {g[i] : i \in S}
<1>4. IsFiniteSet(T) /\ Cardinality(T) = Cardinality(S)
  <2>1. \A i, j \in S : g[i] = g[j] => i = j
    BY DEF Numbered
  <2>2. Cardinality({g[i] : i \in S}) = Cardinality(S)
    BY <1>3, <2>1, ImageCardinality
  <2>3. g \in Surjection(S, T)
    BY DEF Surjection
  <2> QED
    BY <1>3, <2>2, <2>3, FS_Surjection
<1>5. T = {Key(s[i]) : i \in DOMAIN s}
  OBVIOUS
<1> QED
  BY <1>1, <1>2, <1>3, <1>4, <1>5

(* No frames, no keys. *)
LEMMA NoFrames == Numbered(<<>>) /\ Keys(<<>>) = {}
<1>1. <<>> \in Seq({}) /\ DOMAIN <<>> = {}
  OBVIOUS
<1> QED
  BY <1>1 DEF Numbered, Keys, ToSet

(* The entries at a set of positions, without a change of numbers. *)
LEMMA EntriesAt ==
  ASSUME NEW s, Numbered(s), NEW at \in SUBSET DOMAIN s
  PROVE  /\ Numbered(Entries(s, at))
         /\ Keys(Entries(s, at)) = {Key(s[i]) : i \in at}
         /\ Entries(s, at) = <<>> <=> at = {}
<1> DEFINE place == [i \in at |-> Cardinality({j \in at : j <= i})]
           t == [i \in at |-> [priority |-> 0]]
           m == Cardinality(at)
           From(n) == CHOOSE i \in at : place[i] = n
           e == Entries(s, at)
<1>1. IsFiniteSet(DOMAIN s) /\ at \subseteq Int
  <2> DEFINE n == Len(s)
  <2>1. n \in Nat /\ DOMAIN s = 1..n
    BY KeysCount
  <2> HIDE DEF n
  <2> QED
    BY <2>1, FS_Interval
<1>2. IsFiniteSet(at) /\ m \in Nat
  BY <1>1, FS_Subset, FS_CardinalityType
<1>3. \A i \in at : Rank(t, i) = place[i]
  <2> TAKE i \in at
  <2>1. {j \in DOMAIN t : \/ t[j].priority > t[i].priority
                          \/ t[j].priority = t[i].priority /\ j <= i} = {j \in at : j <= i}
    OBVIOUS
  <2> QED
    BY <2>1 DEF Rank
<1>4. Sortable(t) /\ DOMAIN t = at
  BY <1>1, <1>2 DEF Sortable
<1> HIDE DEF place, t
<1>5. /\ \A i \in at : place[i] \in 1..m
      /\ \A i, j \in at : place[i] = place[j] => i = j
      /\ \A n \in 1..m : \E i \in at : place[i] = n
  BY <1>3, <1>4, RankOnto
<1>6. \A n \in 1..m : From(n) \in at /\ place[From(n)] = n
  BY <1>5
<1>7. \A i \in at : From(place[i]) = i
  BY <1>5, <1>6
<1>8. e = [n \in 1..m |-> s[From(n)]]
  BY DEF Entries, place
<1> HIDE DEF From, e
<1>9. \E R : e \in Seq(R)
  <2>1. e \in [1..m -> {s[i] : i \in at}]
    BY <1>6, <1>8
  <2> QED
    BY <1>2, <2>1, SeqDef
<1>10. DOMAIN e = 1..m /\ \A n \in 1..m : e[n] = s[From(n)]
  BY <1>8
<1>11. \A n, k \in DOMAIN e : Key(e[n]) = Key(e[k]) => n = k
  <2> SUFFICES ASSUME NEW n \in 1..m, NEW k \in 1..m, Key(e[n]) = Key(e[k])
               PROVE  n = k
    BY <1>10
  <2>1. From(n) = From(k)
    BY <1>6, <1>10 DEF Numbered
  <2> QED
    BY <1>6, <2>1
<1>12. Numbered(e)
  BY <1>9, <1>11 DEF Numbered
<1>13. Keys(e) = {Key(s[i]) : i \in at}
  <2>1. Keys(e) = {Key(e[n]) : n \in 1..m}
    BY <1>10, <1>12, KeysCount
  <2>2. {Key(e[n]) : n \in 1..m} \subseteq {Key(s[i]) : i \in at}
    BY <1>6, <1>10
  <2>3. ASSUME NEW i \in at PROVE \E n \in 1..m : Key(s[i]) = Key(e[n])
    BY <1>5, <1>7, <1>10
  <2> QED
    BY <2>1, <2>2, <2>3
<1>14. e = <<>> <=> at = {}
  <2>1. at = {} => m = 0
    BY FS_EmptySet
  <2>2. at # {} => DOMAIN e # {}
    BY <1>5, <1>10
  <2>3. m = 0 => e = <<>>
    BY <1>8
  <2> QED
    BY <2>1, <2>2, <2>3
<1> QED
  BY <1>12, <1>13, <1>14 DEF e

(* The frames of one stream and those of the others. *)
LEMMA GroupRest ==
  ASSUME NEW s, Numbered(s), NEW id
  PROVE  /\ Numbered(Group(s, id)) /\ Numbered(Rest(s, id))
         /\ Keys(Group(s, id)) = {k \in Keys(s) : k[1] = id}
         /\ Keys(Rest(s, id)) = Keys(s) \ Keys(Group(s, id))
<1> DEFINE own == {i \in DOMAIN s : s[i].stream = id}
           other == {i \in DOMAIN s : s[i].stream # id}
<1>1. own \in SUBSET DOMAIN s /\ other \in SUBSET DOMAIN s
  OBVIOUS
<1>2. /\ \A i \in DOMAIN s : Key(s[i])[1] = s[i].stream
      /\ \A i \in DOMAIN s : i \in own <=> s[i].stream = id
      /\ \A i \in DOMAIN s : i \in other <=> s[i].stream # id
  BY DEF Key
<1>3. Keys(s) = {Key(s[i]) : i \in DOMAIN s}
  BY KeysCount
<1>4. /\ Numbered(Group(s, id)) /\ Keys(Group(s, id)) = {Key(s[i]) : i \in own}
      /\ Numbered(Rest(s, id)) /\ Keys(Rest(s, id)) = {Key(s[i]) : i \in other}
  BY <1>1, EntriesAt DEF Group, Rest
<1> HIDE DEF own, other
<1>5. {Key(s[i]) : i \in own} = {k \in Keys(s) : k[1] = id}
  BY <1>1, <1>2, <1>3
<1>6. {Key(s[i]) : i \in other} = Keys(s) \ {Key(s[i]) : i \in own}
  BY <1>1, <1>2, <1>3
<1> QED
  BY <1>4, <1>5, <1>6

(* Two sequences without a common number. *)
LEMMA JoinNumbered ==
  ASSUME NEW s, NEW t, Numbered(s), Numbered(t), Keys(s) \intersect Keys(t) = {}
  PROVE  /\ Numbered(s \o t) /\ Keys(s \o t) = Keys(s) \union Keys(t)
         /\ Len(s \o t) = Len(s) + Len(t)
<1> DEFINE u == s \o t
           m == Len(s)
           n == Len(t)
<1>1. /\ m \in Nat /\ DOMAIN s = 1..m /\ Keys(s) = {Key(s[i]) : i \in 1..m}
      /\ n \in Nat /\ DOMAIN t = 1..n /\ Keys(t) = {Key(t[i]) : i \in 1..n}
  BY KeysCount
<1>2. PICK R : s \in Seq(R)
  BY DEF Numbered
<1>3. PICK Q : t \in Seq(Q)
  BY DEF Numbered
<1>4. s \in Seq(R \union Q) /\ t \in Seq(R \union Q)
  BY <1>2, <1>3
<1>5. /\ u \in Seq(R \union Q) /\ Len(u) = m + n /\ DOMAIN u = 1..(m + n)
      /\ \A i \in 1..(m + n) : u[i] = IF i <= m THEN s[i] ELSE t[i - m]
  BY <1>4, ConcatProperties, LenProperties
<1> HIDE DEF u, m, n
<1>6. \A i \in 1..(m + n) : IF i <= m THEN i \in 1..m ELSE i - m \in 1..n
  BY <1>1
<1>7. ASSUME NEW i \in 1..(m + n), NEW j \in 1..(m + n), Key(u[i]) = Key(u[j])
      PROVE  i = j
  <2>1. CASE i <= m /\ j <= m
    BY <1>1, <1>5, <1>6, <1>7, <2>1 DEF Numbered
  <2>2. CASE ~(i <= m) /\ ~(j <= m)
    <3>1. i - m = j - m
      BY <1>1, <1>5, <1>6, <1>7, <2>2 DEF Numbered
    <3> QED
      BY <1>1, <3>1
  <2>3. CASE i <= m /\ ~(j <= m)
    <3>1. Key(u[i]) \in Keys(s) /\ Key(u[j]) \in Keys(t)
      BY <1>1, <1>5, <1>6, <2>3
    <3> QED
      BY <1>7, <3>1
  <2>4. CASE ~(i <= m) /\ j <= m
    <3>1. Key(u[i]) \in Keys(t) /\ Key(u[j]) \in Keys(s)
      BY <1>1, <1>5, <1>6, <2>4
    <3> QED
      BY <1>7, <3>1
  <2> QED
    BY <2>1, <2>2, <2>3, <2>4
<1>8. Numbered(u)
  BY <1>5, <1>7 DEF Numbered
<1>9. Keys(u) = {Key(u[i]) : i \in 1..(m + n)}
  BY <1>5, <1>8, KeysCount
<1>10. Keys(u) \subseteq Keys(s) \union Keys(t)
  BY <1>1, <1>5, <1>6, <1>9
<1>11. ASSUME NEW i \in 1..m PROVE Key(s[i]) \in Keys(u)
  <2>1. i \in 1..(m + n) /\ i <= m
    BY <1>1
  <2> QED
    BY <1>5, <1>9, <2>1
<1>12. ASSUME NEW i \in 1..n PROVE Key(t[i]) \in Keys(u)
  <2>1. i + m \in 1..(m + n) /\ ~(i + m <= m) /\ (i + m) - m = i
    BY <1>1
  <2> QED
    BY <1>5, <1>9, <2>1
<1> QED
  BY <1>1, <1>5, <1>8, <1>10, <1>11, <1>12 DEF u, m, n

(* What is left of a sequence when its first entries are dropped. *)
LEMMA SuffixNumbered ==
  ASSUME NEW s, Numbered(s), NEW m \in 1..Len(s)
  PROVE  LET t == SubSeq(s, m, Len(s))
         IN  Numbered(t) /\ Keys(t) \subseteq Keys(s) /\ Len(t) = Len(s) - m + 1
<1> DEFINE n == Len(s)
           t == SubSeq(s, m, n)
<1>1. n \in Nat /\ DOMAIN s = 1..n /\ Keys(s) = {Key(s[i]) : i \in 1..n}
  BY KeysCount
<1>2. PICK R : s \in Seq(R)
  BY DEF Numbered
<1>3. \A i \in 1..n : s[i] \in R
  BY <1>2, ElementOfSeq
<1>4. m \in 1..n
  OBVIOUS
<1> HIDE DEF n
<1>5. m \in Int /\ n \in Int /\ \A i \in m..n : s[i] \in R
  BY <1>1, <1>3, <1>4
<1>6. /\ t \in Seq(R) /\ Len(t) = IF m <= n THEN n - m + 1 ELSE 0
      /\ \A i \in 1..(n - m + 1) : t[i] = s[m + i - 1]
  BY <1>5, SubSeqProperties
<1> HIDE DEF t
<1>7. Len(t) = n - m + 1 /\ DOMAIN t = 1..(n - m + 1)
  BY <1>1, <1>4, <1>6, LenProperties
<1>8. \A i \in 1..(n - m + 1) : m + i - 1 \in 1..n
  BY <1>1, <1>4
<1>9. ASSUME NEW i \in 1..(n - m + 1), NEW j \in 1..(n - m + 1), Key(t[i]) = Key(t[j])
      PROVE  i = j
  <2>1. m + i - 1 = m + j - 1
    BY <1>1, <1>6, <1>8, <1>9 DEF Numbered
  <2> QED
    BY <1>5, <2>1
<1>10. Numbered(t)
  BY <1>6, <1>7, <1>9 DEF Numbered
<1>11. Keys(t) = {Key(t[i]) : i \in 1..(n - m + 1)}
  BY <1>7, <1>10, KeysCount
<1>12. Keys(t) \subseteq Keys(s)
  BY <1>1, <1>6, <1>8, <1>11
<1> QED
  BY <1>7, <1>10, <1>12 DEF t, n

(* append_frames keeps the newest frames, as many as the capacity allows. *)
LEMMA AppendKeeps ==
  ASSUME NEW s, NEW t, Numbered(s), Numbered(t), Keys(s) \intersect Keys(t) = {}
  PROVE  LET u == append_frames(s, t)
             n == Len(s) + Len(t)
         IN  /\ Numbered(u) /\ Keys(u) \subseteq Keys(s) \union Keys(t)
             /\ Len(u) = IF n > max_frames_per_stream THEN max_frames_per_stream ELSE n
<1> DEFINE all == s \o t
           n == Len(all)
           excess == n - max_frames_per_stream
           u == append_frames(s, t)
<1>1. /\ Numbered(all) /\ Keys(all) = Keys(s) \union Keys(t) /\ n = Len(s) + Len(t) /\ n \in Nat
  BY JoinNumbered, KeysCount
<1>2. u = IF excess > 0 THEN SubSeq(all, excess + 1, n) ELSE all
  BY DEF append_frames
<1> HIDE DEF all, u
<1>3. max_frames_per_stream \in Nat \ {0}
  BY CapacityAssumption
<1>4. CASE excess > 0
  <2>1. excess + 1 \in 1..n /\ n - (excess + 1) + 1 = max_frames_per_stream
        /\ n > max_frames_per_stream
    BY <1>1, <1>3, <1>4 DEF n
  <2>2. u = SubSeq(all, excess + 1, n)
    BY <1>2, <1>4
  <2>3. Numbered(u) /\ Keys(u) \subseteq Keys(all) /\ Len(u) = n - (excess + 1) + 1
    BY <1>1, <2>1, <2>2, SuffixNumbered
  <2> QED
    BY <1>1, <2>1, <2>3 DEF u
<1>5. CASE ~(excess > 0)
  <2>1. u = all /\ ~(n > max_frames_per_stream)
    BY <1>1, <1>2, <1>3, <1>5
  <2> QED
    BY <1>1, <2>1 DEF u
<1> QED
  BY <1>4, <1>5

(* The numbers the streams of a session have handed out. *)
Handed(ss) ==
  {k \in StreamId \X Nat : /\ k[1] \in DOMAIN ss.streams
                           /\ 1 <= k[2] /\ k[2] < ss.streams[k[1]].next_sequence}

(* The numbers of a stream start at one. *)
LEMMA NumbersStart ==
  ASSUME NEW ss, SessionInv(ss), NEW id \in DOMAIN ss.streams
  PROVE  /\ id \in StreamId /\ ss.streams[id].next_sequence \in Nat
         /\ ss.streams[id].next_sequence >= 1
         /\ ss.streams[id].patch_frames \in Nat
         /\ ss.streams[id].next_sequence = ss.streams[id].patch_frames + 1
<1>1. /\ id \in StreamId /\ ss.streams[id].next_sequence \in Nat
      /\ ss.streams[id].total_frames \in Nat /\ ss.streams[id].patch_frames \in Nat
  BY DEF SessionInv, SessionOK, StreamOK
<1>2. /\ ss.streams[id].next_sequence = ss.streams[id].total_frames + 1
      /\ ss.streams[id].total_frames = ss.streams[id].patch_frames
  BY DEF SessionInv, SequencesOK
<1> QED
  BY <1>1, <1>2

(* The numbers from a to the one before b. *)
LEMMA NumbersBetween ==
  ASSUME NEW a \in Nat, NEW c \in Nat, NEW b, b = a + c
  PROVE  /\ IsFiniteSet(a..(b - 1)) /\ Cardinality(a..(b - 1)) = c
         /\ \A n \in Nat : n \in a..(b - 1) <=> a <= n /\ n < b
<1>1. a \in Int /\ b - 1 \in Int /\ (IF a > b - 1 THEN 0 ELSE (b - 1) - a + 1) = c
  OBVIOUS
<1>2. \A n \in Nat : n \in a..(b - 1) <=> a <= n /\ n < b
  OBVIOUS
<1>3. /\ IsFiniteSet(a..(b - 1))
      /\ Cardinality(a..(b - 1)) = IF a > b - 1 THEN 0 ELSE (b - 1) - a + 1
  BY <1>1, FS_Interval
<1> QED
  BY <1>1, <1>2, <1>3

(***************************************************************************)
(* The frames of a commit carry the numbers that the commit has handed     *)
(* out, each of them once.                                                 *)
(***************************************************************************)
LEMMA ContractHanded ==
  ASSUME NEW old, NEW new, NEW batch, SessionInv(old), SessionInv(new),
         Contract(new, batch), Grows(old, new, batch)
  PROVE  /\ Numbered(batch)
         /\ Handed(new) = Handed(old) \union Keys(batch)
         /\ Handed(old) \intersect Keys(batch) = {}
<1> DEFINE D == DOMAIN batch
           At(id) == {i \in D : batch[i].stream = id}
           Earlier(i) == {j \in At(batch[i].stream) : j < i}
           Later(i) == {j \in At(batch[i].stream) : j > i}
           From(id) == old.streams[id].next_sequence
           To(id) == new.streams[id].next_sequence
<1>1. IsFiniteSet(D) /\ D \subseteq Int
  <2>1. PICK R : batch \in Seq(R)
    BY DEF Grows
  <2>2. D = 1..Len(batch) /\ Len(batch) \in Nat
    BY <2>1, LenProperties
  <2> QED
    BY <2>2, FS_Interval
<1>2. \A id : IsFiniteSet(At(id)) /\ At(id) \in SUBSET Int /\ At(id) \subseteq D
  <2> TAKE id
  <2>1. At(id) \subseteq D
    OBVIOUS
  <2> QED
    BY <1>1, <2>1, FS_Subset
<1>3. \A id : Cardinality(At(id)) \in Nat
  BY <1>2, FS_CardinalityType
<1>4. \A id \in DOMAIN old.streams : /\ From(id) \in Nat /\ To(id) \in Nat
                                     /\ From(id) >= 1 /\ id \in StreamId
                                     /\ To(id) = From(id) + Cardinality(At(id))
  BY NumbersStart DEF Grows
<1>5. DOMAIN new.streams = DOMAIN old.streams
  BY DEF Grows
<1>6. ASSUME NEW i \in D
      PROVE  LET id == batch[i].stream
             IN  /\ id \in DOMAIN old.streams /\ i \in At(id)
                 /\ Cardinality(Earlier(i)) \in Nat
                 /\ batch[i].sequence = From(id) + Cardinality(Earlier(i))
                 /\ batch[i].sequence \in Nat
                 /\ From(id) <= batch[i].sequence /\ batch[i].sequence < To(id)
  <2> DEFINE id == batch[i].stream
             S == At(id)
             e == Cardinality(Earlier(i))
             l == Cardinality(Later(i))
  <2>1. id \in DOMAIN old.streams
    BY <1>5 DEF Contract, HasStream
  <2>2. batch[i].sequence = To(id) - 1 - Cardinality({j \in D : j > i /\ batch[j].stream = id})
    BY DEF Contract
  <2>3. {j \in D : j > i /\ batch[j].stream = id} = Later(i)
    OBVIOUS
  <2>4. i \in S
    OBVIOUS
  <2>5. e \in Nat /\ l \in Nat /\ Cardinality(S) = e + 1 + l
    <3>1. S \in SUBSET Int /\ IsFiniteSet(S)
      BY <1>2
    <3>2. Earlier(i) = {j \in S : j < i} /\ Later(i) = {j \in S : j > i}
      OBVIOUS
    <3> HIDE DEF S, Earlier, Later
    <3> QED
      BY <2>4, <3>1, <3>2, SplitAt
  <2>6. To(id) = From(id) + (e + 1 + l) /\ From(id) \in Nat
    BY <1>4, <2>1, <2>5
  <2>7. batch[i].sequence = To(id) - 1 - l
    BY <2>2, <2>3
  <2> HIDE DEF e, l, From, To, S
  <2>8. /\ batch[i].sequence = From(id) + e /\ batch[i].sequence \in Nat
        /\ From(id) <= batch[i].sequence /\ batch[i].sequence < To(id)
    BY <2>5, <2>6, <2>7
  <2> QED
    BY <2>1, <2>4, <2>5, <2>8 DEF e, S
<1>7. ASSUME NEW i \in D, NEW j \in D, batch[i].stream = batch[j].stream, i < j
      PROVE  batch[i].sequence # batch[j].sequence
  <2>1. Earlier(i) \subseteq Earlier(j) /\ i \in Earlier(j) /\ i \notin Earlier(i)
    BY <1>1, <1>7
  <2>2. IsFiniteSet(Earlier(j))
    BY <1>2, FS_Subset
  <2>3. Cardinality(Earlier(i)) # Cardinality(Earlier(j))
    <3> HIDE DEF Earlier
    <3> QED
      BY <2>1, <2>2, FS_Subset
  <2>4. /\ batch[i].sequence = From(batch[i].stream) + Cardinality(Earlier(i))
        /\ batch[j].sequence = From(batch[i].stream) + Cardinality(Earlier(j))
        /\ Cardinality(Earlier(i)) \in Nat /\ Cardinality(Earlier(j)) \in Nat
        /\ From(batch[i].stream) \in Nat
    BY <1>4, <1>6, <1>7
  <2> HIDE DEF Earlier, From
  <2> QED
    BY <2>3, <2>4
<1>8. ASSUME NEW i \in D, NEW j \in D, Key(batch[i]) = Key(batch[j])
      PROVE  i = j
  <2>1. batch[i].stream = batch[j].stream /\ batch[i].sequence = batch[j].sequence
    BY <1>8 DEF Key
  <2>2. ~(i < j) /\ ~(j < i)
    BY <1>7, <2>1
  <2> QED
    BY <1>1, <2>2
<1>9. Numbered(batch)
  BY <1>8 DEF Numbered, Grows
<1>10. Keys(batch) = {Key(batch[i]) : i \in D}
  BY <1>9, KeysCount
<1>11. ASSUME NEW id \in DOMAIN old.streams, NEW n \in Nat, From(id) <= n, n < To(id)
       PROVE  \E i \in D : batch[i].stream = id /\ batch[i].sequence = n
  <2> DEFINE S == At(id)
             T == From(id)..(To(id) - 1)
             g == [i \in S |-> batch[i].sequence]
  <2>1. \A i \in S : i \in D /\ batch[i].stream = id
    OBVIOUS
  <2>2. \A i \in S : g[i] \in T
    <3>1. \A i \in S : /\ batch[i].sequence \in Nat /\ From(id) <= batch[i].sequence
                       /\ batch[i].sequence < To(id)
      BY <1>6, <2>1
    <3>2. From(id) \in Nat /\ To(id) \in Nat
      BY <1>4
    <3> HIDE DEF From, To, S
    <3> QED
      BY <3>1, <3>2
  <2>3. \A i, j \in S : g[i] = g[j] => i = j
    BY <1>8, <2>1 DEF Key
  <2>4. IsFiniteSet(T) /\ Cardinality(T) = Cardinality(S) /\ n \in T
    <3>1. From(id) \in Nat /\ To(id) = From(id) + Cardinality(S) /\ Cardinality(S) \in Nat
      BY <1>3, <1>4
    <3> HIDE DEF From, To, S
    <3> QED
      BY <1>11, <3>1, NumbersBetween
  <2> HIDE DEF S, T
  <2>5. g \in Injection(S, T)
    BY <2>2, <2>3 DEF Injection, IsInjective
  <2>6. g \in Surjection(S, T)
    BY <2>4, <2>5, FS_Injection
  <2>7. PICK i \in S : g[i] = n
    BY <2>4, <2>6 DEF Surjection
  <2> QED
    BY <2>1, <2>7
<1>12. Keys(batch) \subseteq Handed(new)
  <2> SUFFICES ASSUME NEW i \in D PROVE Key(batch[i]) \in Handed(new)
    BY <1>10
  <2> DEFINE id == batch[i].stream
  <2>1. /\ id \in DOMAIN new.streams /\ id \in StreamId /\ From(id) >= 1 /\ From(id) \in Nat
        /\ batch[i].sequence \in Nat /\ From(id) <= batch[i].sequence
        /\ batch[i].sequence < To(id)
    BY <1>4, <1>5, <1>6
  <2>2. 1 <= batch[i].sequence
    BY <2>1
  <2> QED
    BY <2>1, <2>2 DEF Handed, Key
<1>13. Handed(old) \subseteq Handed(new)
  <2> SUFFICES ASSUME NEW k \in Handed(old) PROVE k \in Handed(new)
    OBVIOUS
  <2>1. /\ k \in StreamId \X Nat /\ k[1] \in DOMAIN old.streams /\ 1 <= k[2] /\ k[2] < From(k[1])
    BY DEF Handed
  <2>2. From(k[1]) \in Nat /\ To(k[1]) = From(k[1]) + Cardinality(At(k[1])) /\ k[2] \in Nat
        /\ Cardinality(At(k[1])) \in Nat
    BY <1>3, <1>4, <2>1
  <2>3. k[2] < To(k[1])
    BY <2>1, <2>2
  <2> QED
    BY <1>5, <2>1, <2>3 DEF Handed
<1>14. ASSUME NEW k \in Handed(new), k \notin Handed(old)
       PROVE  k \in Keys(batch)
  <2>1. /\ k \in StreamId \X Nat /\ k[1] \in DOMAIN old.streams /\ 1 <= k[2] /\ k[2] < To(k[1])
        /\ k[2] \in Nat /\ From(k[1]) \in Nat
    BY <1>4, <1>5 DEF Handed
  <2>2. ~(k[2] < From(k[1]))
    BY <1>14, <2>1 DEF Handed
  <2>3. From(k[1]) <= k[2]
    BY <2>1, <2>2
  <2>4. PICK i \in D : batch[i].stream = k[1] /\ batch[i].sequence = k[2]
    BY <1>11, <2>1, <2>3
  <2>5. Key(batch[i]) = k
    BY <2>1, <2>4 DEF Key
  <2> QED
    BY <1>10, <2>5
<1>15. ASSUME NEW i \in D PROVE Key(batch[i]) \notin Handed(old)
  <2>1. /\ From(batch[i].stream) <= batch[i].sequence /\ batch[i].sequence \in Nat
        /\ From(batch[i].stream) \in Nat
    BY <1>4, <1>6
  <2>2. ~(batch[i].sequence < From(batch[i].stream))
    BY <2>1
  <2> QED
    BY <2>2 DEF Handed, Key
<1> QED
  BY <1>9, <1>10, <1>12, <1>13, <1>14, <1>15

(* new has the numbers of old: its other streams have handed out none. *)
KeepsNumbers(old, new) ==
  /\ old.state # "Failed" => new.state # "Failed"
  /\ DOMAIN old.streams \subseteq DOMAIN new.streams
  /\ \A id \in DOMAIN old.streams :
       new.streams[id].next_sequence = old.streams[id].next_sequence
  /\ \A id \in DOMAIN new.streams \ DOMAIN old.streams : new.streams[id].next_sequence = 1

(* What has been handed out is then the same. *)
LEMMA SameHanded ==
  ASSUME NEW old, NEW new, KeepsNumbers(old, new)
  PROVE  Handed(new) = Handed(old)
<1>1. ASSUME NEW k \in Handed(old) PROVE k \in Handed(new)
  BY DEF Handed, KeepsNumbers
<1>2. ASSUME NEW k \in Handed(new) PROVE k \in Handed(old)
  <2>1. k \in StreamId \X Nat /\ k[1] \in DOMAIN new.streams /\ 1 <= k[2]
        /\ k[2] < new.streams[k[1]].next_sequence /\ k[2] \in Nat
    BY DEF Handed
  <2>2. k[1] \in DOMAIN old.streams
    <3> SUFFICES ASSUME k[1] \notin DOMAIN old.streams PROVE FALSE
      OBVIOUS
    <3>1. k[2] < 1
      BY <2>1 DEF KeepsNumbers
    <3> QED
      BY <2>1, <3>1
  <2> QED
    BY <2>1, <2>2 DEF Handed, KeepsNumbers
<1> QED
  BY <1>1, <1>2

(* Draining the events. *)
LEMMA TakeEventsKeepsNumbers ==
  ASSUME NEW ss, SessionInv(ss)
  PROVE  KeepsNumbers(ss, take_events(ss))
<1>1. take_events(ss).streams = ss.streams /\ take_events(ss).state = ss.state
  BY DEF take_events, SessionInv, SessionOK, SessionField
<1> QED
  BY <1>1 DEF KeepsNumbers

(* Creating a stream, with and without a configuration. *)
LEMMA CreateKeepsNumbers ==
  ASSUME NEW ss, NEW id, NEW source, NEW rules, SessionInv(ss), ~HasStream(ss, id)
  PROVE  /\ KeepsNumbers(ss, create_stream(ss, id, source, rules))
         /\ KeepsNumbers(ss, create_stream_with_config(ss, id, source, rules))
<1>0. DOMAIN ss = SessionField /\ id \notin DOMAIN ss.streams
  BY DEF SessionInv, SessionOK, HasStream
<1>1. \A r : /\ create_stream(ss, id, source, r).streams
                  = WithStream(ss.streams, id, NewStream(id, source, r))
             /\ create_stream(ss, id, source, r).state = ss.state
             /\ DOMAIN create_stream(ss, id, source, r) = SessionField
  BY <1>0 DEF create_stream, add_event, SessionField
<1>2. \A r : NewStream(id, source, r).next_sequence = 1 /\ DOMAIN NewStream(id, source, r) = StreamField
  BY DEF NewStream, StreamField
<1>3. KeepsNumbers(ss, create_stream(ss, id, source, rules))
  <2> DEFINE t == create_stream(ss, id, source, rules)
  <2>1. /\ t.state = ss.state /\ DOMAIN t.streams = DOMAIN ss.streams \union {id}
        /\ \A i \in DOMAIN ss.streams : t.streams[i] = ss.streams[i]
        /\ t.streams[id] = NewStream(id, source, rules)
    BY <1>0, <1>1 DEF WithStream
  <2> HIDE DEF t
  <2>2. t.streams[id].next_sequence = 1
    BY <1>2, <2>1
  <2>3. KeepsNumbers(ss, t)
    BY <2>1, <2>2 DEF KeepsNumbers
  <2> QED
    BY <2>3 DEF t
<1> DEFINE c == create_stream(ss, id, source, <<>>)
           u == update_stream_config(c, id, rules)
<1>4. /\ DOMAIN c = SessionField /\ c.state = ss.state
      /\ DOMAIN c.streams = DOMAIN ss.streams \union {id}
      /\ \A i \in DOMAIN ss.streams : c.streams[i] = ss.streams[i]
      /\ c.streams[id] = NewStream(id, source, <<>>)
  BY <1>0, <1>1 DEF WithStream
<1> HIDE DEF c
<1>5. /\ u.streams = [c.streams EXCEPT ![id] = update_config(@, rules)] /\ u.state = ss.state
  BY <1>4 DEF update_stream_config, add_event, SessionField
<1>6. update_config(c.streams[id], rules).next_sequence = 1
  BY <1>2, <1>4 DEF update_config, StreamField
<1>7. KeepsNumbers(ss, u)
  BY <1>0, <1>4, <1>5, <1>6 DEF KeepsNumbers
<1> QED
  BY <1>3, <1>7 DEF create_stream_with_config, c

(* Starting and completing a stream. *)
LEMMA LifecycleKeepsNumbers ==
  ASSUME NEW ss, NEW id, SessionInv(ss), HasStream(ss, id)
  PROVE  /\ KeepsNumbers(ss, start_stream(ss, id))
         /\ KeepsNumbers(ss, complete_stream(ss, id))
<1>0. DOMAIN ss = SessionField /\ DOMAIN ss.streams[id] = StreamField /\ id \in DOMAIN ss.streams
  BY DEF SessionInv, SessionOK, StreamOK, HasStream
<1>1. /\ start_stream(ss, id).streams = [ss.streams EXCEPT ![id] = start_streaming(ss.streams[id])]
      /\ start_stream(ss, id).state = ss.state
  BY <1>0 DEF start_stream, add_event, SessionField
<1>2. /\ complete_stream(ss, id).streams = [ss.streams EXCEPT ![id] = complete(ss.streams[id])]
      /\ complete_stream(ss, id).state = ss.state
  BY <1>0 DEF complete_stream, add_event, SessionField
<1>3. /\ start_streaming(ss.streams[id]).next_sequence = ss.streams[id].next_sequence
      /\ complete(ss.streams[id]).next_sequence = ss.streams[id].next_sequence
  BY <1>0 DEF start_streaming, complete, StreamField
<1>4. ASSUME NEW tt, NEW st, tt.state = ss.state, tt.streams = [ss.streams EXCEPT ![id] = st],
             st.next_sequence = ss.streams[id].next_sequence
      PROVE  KeepsNumbers(ss, tt)
  BY <1>0, <1>4 DEF KeepsNumbers
<1> QED
  BY <1>1, <1>2, <1>3, <1>4

(* Closing a session. *)
LEMMA CloseKeepsNumbers ==
  ASSUME NEW ss, SessionInv(ss)
  PROVE  KeepsNumbers(ss, close(ss))
<1>1. close(ss).streams = CancelActive(ss.streams) /\ close(ss).state = "Completed"
  BY DEF close, add_event, SessionInv, SessionOK, SessionField
<1>2. \A id \in DOMAIN ss.streams :
        cancel(ss.streams[id]).next_sequence = ss.streams[id].next_sequence
  BY DEF cancel, SessionInv, SessionOK, StreamOK, StreamField
<1> QED
  BY <1>1, <1>2 DEF KeepsNumbers, CancelActive

(* A commit does not change the state of the session. *)
LEMMA CommitKeepsState ==
  ASSUME NEW ss, SessionInv(ss), NEW id, NEW patches, NEW n, NEW candidates
  PROVE  /\ commit_for_stream(ss, id, patches, n).state = ss.state
         /\ commit_priority_frames(ss, candidates, n).state = ss.state
<1>1. DOMAIN ss = SessionField
  BY DEF SessionInv, SessionOK
<1>2. ASSUME NEW t, NEW m, DOMAIN t = SessionField PROVE WithBatchEvent(t, m).state = t.state
  BY <1>2 DEF WithBatchEvent, add_event, SessionField
<1>3. commit_for_stream(ss, id, patches, n).state = ss.state
  <2> DEFINE st == commit_patch_frames(ss.streams[id], patches, n)
             new == Len(FramesForStream(ss, id, patches, n))
             t == [ss EXCEPT !.streams[id]  = st,
                             !.total_frames = @ + new,
                             !.total_bytes  = @ + st.total_bytes - ss.streams[id].total_bytes]
  <2>1. commit_for_stream(ss, id, patches, n) = WithBatchEvent(t, new)
    BY DEF commit_for_stream
  <2> HIDE DEF st, new
  <2>2. t.state = ss.state /\ DOMAIN t = SessionField
    BY <1>1 DEF SessionField
  <2> HIDE DEF t
  <2> QED
    BY <1>2, <2>1, <2>2
<1>4. commit_priority_frames(ss, candidates, n).state = ss.state
  <2> DEFINE kept == Survivors(candidates, n)
             recorded == [d \in DOMAIN ss.streams |->
                            IF OfStream(candidates, kept, d) = {} THEN ss.streams[d]
                            ELSE record_frames_created(ss.streams[d],
                                   {FinalizedFrame(ss, candidates, kept, k) :
                                      k \in OfStream(candidates, kept, d)})]
             bytes == SumFunction([k \in kept |-> Len(candidates[k].patches)])
             t == [ss EXCEPT !.streams      = recorded,
                             !.total_frames = @ + Cardinality(kept),
                             !.total_bytes  = @ + bytes]
  <2>1. commit_priority_frames(ss, candidates, n) = WithBatchEvent(t, Cardinality(kept))
    BY DEF commit_priority_frames
  <2> HIDE DEF recorded, bytes
  <2>2. t.state = ss.state /\ DOMAIN t = SessionField
    BY <1>1 DEF SessionField
  <2> HIDE DEF t
  <2> QED
    BY <1>2, <2>1, <2>2
<1> QED
  BY <1>3, <1>4

(* A stream's frames are among those of its session. *)
LEMMA TermOfSum ==
  ASSUME NEW f, NEW S, IsFiniteSet(S), \A x \in S : f[x] \in Nat, NEW x \in S
  PROVE  SumFunctionOnSet(f, S) \in Nat /\ f[x] <= SumFunctionOnSet(f, S)
<1>1. IsFiniteSet(S \ {x}) /\ \A y \in S \ {x} : f[y] \in Nat
  BY FS_Subset
<1>2. SumFunctionOnSet(f, S) = f[x] + SumFunctionOnSet(f, S \ {x}) /\ SumFunctionOnSet(f, S) \in Nat
  BY SumStep
<1>3. SumFunctionOnSet(f, S \ {x}) \in Nat
  BY <1>1, SumStep
<1> QED
  BY <1>2, <1>3

(***************************************************************************)
(* As many numbers have been handed out as the session counts frames.      *)
(***************************************************************************)
LEMMA HandedCount ==
  ASSUME NEW ss, SessionInv(ss), LedgerOK(ss), ss.state # "Failed"
  PROVE  /\ Cardinality(Handed(ss)) = ss.total_frames
         /\ Handed(ss) = {k \in StreamId \X (1..ss.total_frames) :
                            HasStream(ss, k[1]) /\ k[2] < ss.streams[k[1]].next_sequence}
<1> DEFINE D == DOMAIN ss.streams
           p == [id \in D |-> ss.streams[id].patch_frames]
           H == Handed(ss)
           n == ss.total_frames
           own == [id \in D |-> {k \in H : k[1] = id}]
           one == [k \in H |-> 1]
           owner == [k \in H |-> k[1]]
<1>1. IsFiniteSet(D) /\ n \in Nat
  BY FiniteParts DEF SessionInv, SessionOK
<1>2. n = SumFunctionOnSet(p, D)
  BY DEF LedgerOK, FramesAddUp, SumFunction
<1>3. \A id \in D : /\ p[id] \in Nat /\ ss.streams[id].next_sequence = p[id] + 1 /\ id \in StreamId
  BY NumbersStart
<1>4. \A id \in D : p[id] <= n
  <2>1. \A id \in D : p[id] \in Nat
    BY <1>3
  <2> HIDE DEF p
  <2> QED
    BY <1>1, <1>2, <2>1, TermOfSum
<1>5. ASSUME NEW k \in StreamId \X Nat
      PROVE  k \in H <=> k[1] \in D /\ k[2] \in 1..p[k[1]]
  <2>1. k \in H <=> k[1] \in D /\ 1 <= k[2] /\ k[2] < ss.streams[k[1]].next_sequence
    BY DEF Handed
  <2>2. k[2] \in Nat
    OBVIOUS
  <2> HIDE DEF p, D, H
  <2> QED
    BY <1>3, <2>1, <2>2
<1>6. H \subseteq StreamId \X Nat
  BY DEF Handed
<1>7. H = {k \in StreamId \X (1..n) : HasStream(ss, k[1]) /\ k[2] < ss.streams[k[1]].next_sequence}
  <2>1. ASSUME NEW k \in H
        PROVE  k \in StreamId \X (1..n) /\ HasStream(ss, k[1]) /\ k[2] < ss.streams[k[1]].next_sequence
    <3>1. k[1] \in D /\ k[2] \in 1..p[k[1]] /\ k \in StreamId \X Nat
      BY <1>5, <1>6
    <3>2. p[k[1]] \in Nat /\ p[k[1]] <= n
      BY <1>3, <1>4, <3>1
    <3> HIDE DEF p, n
    <3>3. k[2] \in 1..n
      BY <1>1, <3>1, <3>2
    <3> QED
      BY <2>1, <3>1, <3>3 DEF HasStream, Handed
  <2>2. ASSUME NEW k \in StreamId \X (1..n), HasStream(ss, k[1]), k[2] < ss.streams[k[1]].next_sequence
        PROVE  k \in H
    BY <1>1, <2>2 DEF Handed, HasStream
  <2> QED
    BY <2>1, <2>2
<1>8. IsFiniteSet(H)
  <2>1. IsFiniteSet(1..n)
    <3>1. 1 \in Int /\ n \in Int
      BY <1>1
    <3> HIDE DEF n
    <3> QED
      BY ONLY <3>1, FS_Interval
  <2>2. IsFiniteSet(StreamId \X (1..n))
    BY <2>1, StreamIdAssumption, FS_Product
  <2> QED
    BY <1>7, <2>2, FS_Subset
<1>9. ASSUME NEW id \in D
      PROVE  own[id] \subseteq H /\ p[id] = SumFunctionOnSet(one, own[id])
  <2> DEFINE S == 1..p[id]
             g == [m \in S |-> <<id, m>>]
  <2>1. own[id] \subseteq H
    OBVIOUS
  <2>2. own[id] = {g[m] : m \in S}
    <3>1. ASSUME NEW k \in own[id] PROVE k[2] \in S /\ k = g[k[2]]
      BY <1>5, <1>6
    <3>2. ASSUME NEW m \in S PROVE g[m] \in own[id]
      <4>1. <<id, m>> \in StreamId \X Nat
        BY <1>3
      <4>2. <<id, m>> \in H
        BY <1>5, <4>1
      <4> QED
        BY <4>2
    <3> HIDE DEF own, g, S
    <3> QED
      BY <3>1, <3>2
  <2>3. IsFiniteSet(S) /\ Cardinality(S) = p[id]
    <3>1. p[id] \in Nat
      BY <1>3
    <3> HIDE DEF p
    <3> QED
      BY <3>1, FS_Interval
  <2>4. \A m, l \in S : g[m] = g[l] => m = l
    OBVIOUS
  <2> HIDE DEF S
  <2>5. Cardinality({g[m] : m \in S}) = Cardinality(S)
    BY <2>3, <2>4, ImageCardinality
  <2>6. IsFiniteSet(own[id]) /\ \A k \in own[id] : one[k] = 1
    BY <1>8, <2>1, FS_Subset
  <2> HIDE DEF own, one, g
  <2>7. SumFunctionOnSet(one, own[id]) = Cardinality(own[id])
    BY <2>6, SumOnes
  <2> QED
    BY <2>1, <2>2, <2>3, <2>5, <2>7
<1>10. SumFunctionOnSet(one, H) = Cardinality(H)
  <2>1. \A k \in H : one[k] = 1
    OBVIOUS
  <2> HIDE DEF one, H
  <2> QED
    BY <1>8, <2>1, SumOnes
<1>11. SumFunctionOnSet(p, D) = SumFunctionOnSet(one, H)
  <2>1. \A k \in H : one[k] \in Nat /\ owner[k] \in D
    BY <1>5, <1>6
  <2>2. \A id \in D : /\ own[id] \subseteq H /\ p[id] = SumFunctionOnSet(one, own[id])
                      /\ \A k \in H : k \in own[id] <=> owner[k] = id
    <3>1. \A id \in D : \A k \in H : k \in own[id] <=> owner[k] = id
      OBVIOUS
    <3> HIDE DEF own, owner, p, one, D, H
    <3> QED
      BY <1>9, <3>1
  <2> HIDE DEF own, owner, p, one, D, H
  <2> QED
    BY <1>1, <1>8, <2>1, <2>2, SumPartition
<1> QED
  BY <1>2, <1>7, <1>10, <1>11

(***************************************************************************)
(* G is divided among A, B and the sets K[h], without an overlap.          *)
(***************************************************************************)
Divided(G, A, B, K) ==
  /\ \A k : k \in G <=> (k \in A \/ k \in B \/ \E h \in Handler : k \in K[h])
  /\ \A k \in A : k \notin B
  /\ \A h \in Handler : \A k \in K[h] : k \notin A /\ k \notin B
  /\ \A g, h \in Handler : g # h => \A k \in K[g] : k \notin K[h]

(* A handler that had nothing gets what is new. *)
LEMMA DividedGrows ==
  ASSUME NEW G, NEW A, NEW B, NEW K, Divided(G, A, B, K), DOMAIN K = Handler,
         NEW h \in Handler, K[h] = {}, NEW X, G \intersect X = {}
  PROVE  Divided(G \union X, A, B, [K EXCEPT ![h] = X])
<1> DEFINE L == [K EXCEPT ![h] = X]
<1>1. L[h] = X /\ \A g \in Handler : g # h => L[g] = K[g]
  OBVIOUS
<1> HIDE DEF L
<1>2. \A k : (\E g \in Handler : k \in L[g]) <=> (k \in X \/ \E g \in Handler : k \in K[g])
  BY <1>1
<1>3. Divided(G \union X, A, B, L)
  BY <1>1, <1>2 DEF Divided
<1> QED
  BY <1>3 DEF L

(* A handler passes some of what it has on, to A and to B. *)
LEMMA DividedMoves ==
  ASSUME NEW G, NEW A, NEW B, NEW K, Divided(G, A, B, K), DOMAIN K = Handler,
         NEW h \in Handler, NEW X, X \subseteq K[h], NEW Y, Y = K[h] \ X
  PROVE  /\ Divided(G, A \union X, B, [K EXCEPT ![h] = Y])
         /\ Divided(G, A, B \union X, [K EXCEPT ![h] = Y])
<1> DEFINE L == [K EXCEPT ![h] = Y]
<1>1. L[h] = Y /\ \A g \in Handler : g # h => L[g] = K[g]
  OBVIOUS
<1> HIDE DEF L
<1>2. \A k : (\E g \in Handler : k \in K[g]) <=> (k \in X \/ \E g \in Handler : k \in L[g])
  BY <1>1
<1>3. Divided(G, A \union X, B, L)
  BY <1>1, <1>2 DEF Divided
<1>4. Divided(G, A, B \union X, L)
  BY <1>1, <1>2 DEF Divided
<1> QED
  BY <1>3, <1>4 DEF L

(* What the stored session has handed out, and what the handlers carry. *)
Given == IF Stored THEN Handed(session) ELSE {}
Flights == [h \in Handler |-> InFlight(h)]

AppendedOf(id) == {k \in appended : k[1] = id}

(* A stream's history: the newest frames, as many as it can hold. *)
HistoryKept(id) ==
  LET n == Cardinality(AppendedOf(id))
  IN  /\ Numbered(history[id])
      /\ Keys(history[id]) \subseteq AppendedOf(id)
      /\ Len(history[id]) = IF n > max_frames_per_stream THEN max_frames_per_stream ELSE n

(***************************************************************************)
(* FrameAccounting with what makes it inductive: a handler carries frames  *)
(* only between its commit and its last append, no two of one handler have *)
(* the same number, and no command ever fails the stored session.          *)
(***************************************************************************)
Books ==
  /\ Stored => session.state # "Failed"
  /\ \A h \in Handler : Numbered(task[h].frames)
  /\ \A h \in Handler : task[h].pc \notin {"invalidate", "publish", "append"} => task[h].frames = <<>>
  /\ DOMAIN history = StreamId
  /\ IsFiniteSet(appended)
  /\ \A id \in StreamId : HistoryKept(id)
  /\ Divided(Given, appended, abandoned, Flights)

(* The parts of the invariant that one handler's record can disturb. *)
LEMMA RecordBooks ==
  ASSUME HandlerInv, Books, NEW h \in Handler, NEW rec, Numbered(rec.frames),
         rec.pc \notin {"invalidate", "publish", "append"} => rec.frames = <<>>,
         task' = [task EXCEPT ![h] = rec]
  PROVE  /\ \A g \in Handler : Numbered(task'[g].frames)
         /\ \A g \in Handler : task'[g].pc \notin {"invalidate", "publish", "append"}
                                 => task'[g].frames = <<>>
         /\ Flights' = [Flights EXCEPT ![h] = Keys(rec.frames)]
         /\ DOMAIN Flights = Handler /\ Flights[h] = Keys(task[h].frames)
<1>1. task'[h] = rec /\ \A g \in Handler \ {h} : task'[g] = task[g]
  BY DEF HandlerInv, TasksOK
<1>2. /\ \A g \in Handler : Numbered(task'[g].frames)
      /\ \A g \in Handler : task'[g].pc \notin {"invalidate", "publish", "append"}
                              => task'[g].frames = <<>>
  BY <1>1 DEF Books
<1>3. /\ Flights = [g \in Handler |-> Keys(task[g].frames)]
      /\ Flights' = [g \in Handler |-> Keys(task'[g].frames)]
  BY DEF Flights, InFlight
<1>4. Flights' = [Flights EXCEPT ![h] = Keys(rec.frames)]
  BY <1>1, <1>3
<1> QED
  BY <1>2, <1>3, <1>4

(* The frame store is as it was. *)
LEMMA HistorySame ==
  ASSUME Books, history' = history, appended' = appended
  PROVE  /\ DOMAIN history' = StreamId /\ IsFiniteSet(appended')
         /\ \A id \in StreamId : HistoryKept(id)'
  BY DEF Books, HistoryKept, AppendedOf

(* A handler without frames stores result and goes on with the frames that *)
(* carry the new numbers.                                                  *)
LEMMA UpdateBooks ==
  ASSUME HandlerInv, Books, NEW h \in Handler, NEW rec, NEW result,
         task[h].frames = <<>>, SessionInv(result), result.state # "Failed", Store(result),
         history' = history, appended' = appended, abandoned' = abandoned,
         task' = [task EXCEPT ![h] = rec], Numbered(rec.frames),
         rec.pc \in {"invalidate", "publish"},
         Handed(result) = Given \union Keys(rec.frames), Given \intersect Keys(rec.frames) = {}
  PROVE  Books'
<1>1. /\ \A g \in Handler : Numbered(task'[g].frames)
      /\ \A g \in Handler : task'[g].pc \notin {"invalidate", "publish", "append"}
                              => task'[g].frames = <<>>
      /\ Flights' = [Flights EXCEPT ![h] = Keys(rec.frames)]
      /\ DOMAIN Flights = Handler /\ Flights[h] = {}
  BY RecordBooks, NoFrames
<1>2. KeepsNumbers(result, session') /\ SessionInv(session')
  BY TakeEventsKeepsNumbers, EventsKeepInv DEF Store
<1>3. Stored' /\ session'.state # "Failed"
  BY <1>2, SessionIsStored DEF Stored, KeepsNumbers
<1>4. Given' = Given \union Keys(rec.frames)
  <2>1. Handed(session') = Handed(result)
    BY <1>2, SameHanded
  <2>2. Given' = Handed(session')
    BY <1>3 DEF Given, Stored, Handed
  <2> QED
    BY <2>1, <2>2
<1>5. Divided(Given', appended', abandoned', Flights')
  <2>1. Divided(Given, appended, abandoned, Flights)
    BY DEF Books
  <2>2. Divided(Given \union Keys(rec.frames), appended, abandoned,
                [Flights EXCEPT ![h] = Keys(rec.frames)])
    BY <1>1, <2>1, DividedGrows
  <2> QED
    BY <1>1, <1>4, <2>2
<1> QED
  BY <1>1, <1>3, <1>5, HistorySame DEF Books

(* A handler goes on with the frames it has. *)
LEMMA QuietBooks ==
  ASSUME HandlerInv, Books, NEW h \in Handler, NEW rec,
         session' = session, history' = history, appended' = appended, abandoned' = abandoned,
         task' = [task EXCEPT ![h] = rec], rec.frames = task[h].frames,
         rec.pc \notin {"invalidate", "publish", "append"} => rec.frames = <<>>
  PROVE  Books'
<1>1. /\ \A g \in Handler : Numbered(task'[g].frames)
      /\ \A g \in Handler : task'[g].pc \notin {"invalidate", "publish", "append"}
                              => task'[g].frames = <<>>
      /\ Flights' = [Flights EXCEPT ![h] = Keys(rec.frames)]
      /\ DOMAIN Flights = Handler /\ Flights[h] = Keys(rec.frames)
  BY RecordBooks DEF Books
<1>2. Flights' = Flights
  <2>1. Flights = [g \in Handler |-> Flights[g]]
    BY DEF Flights
  <2> QED
    BY <1>1, <2>1
<1>3. (Stored' <=> Stored) /\ Given' = Given
  BY DEF Stored, Given, Handed
<1> QED
  BY <1>1, <1>2, <1>3, HistorySame DEF Books

(* One append of persist_frames_grouped_by_stream. *)
LEMMA AppendBooks ==
  ASSUME HandlerInv, Books, NEW h \in Handler, AppendFrames(h)
  PROVE  Books'
<1> DEFINE s == task[h].frames
<1>0. DOMAIN task[h] = {"pc", "events", "frames", "arg"} /\ Numbered(s)
  BY DEF HandlerInv, TasksOK, Books
<1>1. PICK id \in {f.stream : f \in ToSet(s)} :
        /\ history' = [history EXCEPT ![id] = append_frames(@, Group(s, id))]
        /\ appended' = appended \union Keys(Group(s, id))
        /\ task' = IF Rest(s, id) = <<>> THEN [task EXCEPT ![h] = Idle]
                   ELSE [task EXCEPT ![h].frames = Rest(s, id)]
  BY DEF AppendFrames
<1>2. session' = session /\ abandoned' = abandoned /\ task[h].pc = "append"
  BY DEF AppendFrames
<1> DEFINE g == Group(s, id)
           r == Rest(s, id)
           X == Keys(g)
           Y == Keys(r)
<1>3. /\ Numbered(g) /\ Numbered(r) /\ X = {k \in Keys(s) : k[1] = id} /\ Y = Keys(s) \ X
  BY <1>0, GroupRest
<1>4. PICK rec : /\ task' = [task EXCEPT ![h] = rec] /\ rec.frames = r
                 /\ rec.pc \notin {"invalidate", "publish", "append"} => rec.frames = <<>>
  <2>1. CASE r = <<>>
    <3>1. task' = [task EXCEPT ![h] = Idle]
      BY <1>1, <2>1
    <3>2. Idle.frames = <<>>
      BY DEF Idle
    <3> QED
      BY <2>1, <3>1, <3>2
  <2>2. CASE r # <<>>
    <3> DEFINE rec == [task[h] EXCEPT !.frames = r]
    <3>1. task' = [task EXCEPT ![h] = rec]
      BY <1>1, <2>2
    <3>2. rec.frames = r /\ rec.pc = "append"
      BY <1>0, <1>2
    <3> HIDE DEF rec
    <3> QED
      BY <3>1, <3>2
  <2> QED
    BY <2>1, <2>2
<1> HIDE DEF g, r
<1>5. /\ \A j \in Handler : Numbered(task'[j].frames)
      /\ \A j \in Handler : task'[j].pc \notin {"invalidate", "publish", "append"}
                              => task'[j].frames = <<>>
      /\ Flights' = [Flights EXCEPT ![h] = Y]
      /\ DOMAIN Flights = Handler /\ Flights[h] = Keys(s)
  BY <1>3, <1>4, RecordBooks
<1>6. Divided(Given, appended, abandoned, Flights)
  BY DEF Books
<1>7. appended \intersect X = {} /\ X \subseteq Given
  BY <1>3, <1>5, <1>6 DEF Divided
<1>8. id \in StreamId
  <2>1. PICK i \in DOMAIN s : s[i].stream = id
    BY DEF ToSet
  <2>2. Key(s[i]) \in Keys(s)
    BY <1>0, KeysCount
  <2>3. Key(s[i]) \in Given
    BY <1>5, <1>6, <2>2 DEF Divided
  <2>4. Key(s[i]) \in StreamId \X Nat
    BY <2>3 DEF Given, Handed
  <2> QED
    BY <2>1, <2>4 DEF Key
<1>9. IsFiniteSet(X) /\ Cardinality(X) = Len(g) /\ Len(g) \in Nat
  BY <1>3, KeysCount
<1>10. /\ DOMAIN history' = StreamId /\ history'[id] = append_frames(history[id], g)
       /\ \A j \in StreamId \ {id} : history'[j] = history[j]
  BY <1>1, <1>8 DEF Books, g
<1>11. appended' = appended \union X
  BY <1>1 DEF g
<1>12. IsFiniteSet(appended')
  BY <1>9, <1>11, FS_Union DEF Books
<1>13. /\ AppendedOf(id)' = AppendedOf(id) \union X /\ AppendedOf(id) \intersect X = {}
       /\ \A j \in StreamId \ {id} : AppendedOf(j)' = AppendedOf(j)
  <2>1. \A k \in X : k[1] = id
    BY <1>3
  <2> HIDE DEF X
  <2> QED
    BY <1>7, <1>11, <2>1 DEF AppendedOf
<1>14. HistoryKept(id)'
  <2> DEFINE n == Cardinality(AppendedOf(id))
             u == append_frames(history[id], g)
  <2>1. /\ Numbered(history[id]) /\ Keys(history[id]) \subseteq AppendedOf(id)
        /\ Len(history[id]) = IF n > max_frames_per_stream THEN max_frames_per_stream ELSE n
    BY <1>8 DEF Books, HistoryKept
  <2>2. IsFiniteSet(AppendedOf(id)) /\ n \in Nat
    <3>1. AppendedOf(id) \subseteq appended
      BY DEF AppendedOf
    <3> QED
      BY <3>1, FS_Subset, FS_CardinalityType DEF Books
  <2>3. Cardinality(AppendedOf(id)') = n + Len(g)
    <3>1. Cardinality(AppendedOf(id) \union X)
            = Cardinality(AppendedOf(id)) + Cardinality(X) - Cardinality(AppendedOf(id) \intersect X)
      BY <1>9, <2>2, FS_Union
    <3>2. Cardinality(AppendedOf(id) \intersect X) = 0
      BY <1>13, FS_EmptySet
    <3> HIDE DEF X
    <3> QED
      BY <1>9, <1>13, <2>2, <3>1, <3>2
  <2>4. Keys(history[id]) \intersect Keys(g) = {}
    BY <1>13, <2>1
  <2>5. /\ Numbered(u) /\ Keys(u) \subseteq Keys(history[id]) \union X
        /\ Len(u) = IF Len(history[id]) + Len(g) > max_frames_per_stream
                    THEN max_frames_per_stream ELSE Len(history[id]) + Len(g)
    BY <1>3, <2>1, <2>4, AppendKeeps
  <2>6. Keys(u) \subseteq AppendedOf(id)'
    BY <1>13, <2>1, <2>5
  <2> HIDE DEF u, n
  <2>7. Len(u) = IF n + Len(g) > max_frames_per_stream THEN max_frames_per_stream ELSE n + Len(g)
    <3> DEFINE m == Len(g)
               len == Len(history[id])
    <3>1. /\ max_frames_per_stream \in Nat /\ m \in Nat /\ n \in Nat
          /\ len = IF n > max_frames_per_stream THEN max_frames_per_stream ELSE n
          /\ Len(u) = IF len + m > max_frames_per_stream THEN max_frames_per_stream ELSE len + m
      BY <1>9, <2>1, <2>2, <2>5, CapacityAssumption
    <3> HIDE DEF m, len
    <3>2. (IF len + m > max_frames_per_stream THEN max_frames_per_stream ELSE len + m)
            = (IF n + m > max_frames_per_stream THEN max_frames_per_stream ELSE n + m)
      <4>1. CASE n > max_frames_per_stream
        BY ONLY <3>1, <4>1
      <4>2. CASE ~(n > max_frames_per_stream)
        BY ONLY <3>1, <4>2
      <4> QED
        BY <4>1, <4>2
    <3> QED
      BY <3>1, <3>2 DEF m
  <2> QED
    BY <1>10, <2>3, <2>5, <2>6, <2>7 DEF HistoryKept, u
<1>15. ASSUME NEW j \in StreamId PROVE HistoryKept(j)'
  <2>1. CASE j = id
    BY <1>14, <2>1
  <2>2. CASE j # id
    <3>1. history'[j] = history[j] /\ AppendedOf(j)' = AppendedOf(j)
      BY <1>10, <1>13, <2>2
    <3> QED
      BY <3>1 DEF Books, HistoryKept
  <2> QED
    BY <2>1, <2>2
<1>16. Divided(Given', appended', abandoned', Flights')
  <2>1. Given' = Given
    BY <1>2 DEF Stored, Given, Handed
  <2>2. X \subseteq Flights[h] /\ Y = Flights[h] \ X
    BY <1>3, <1>5
  <2> HIDE DEF X, Y
  <2>3. Divided(Given, appended \union X, abandoned, [Flights EXCEPT ![h] = Y])
    BY <1>5, <1>6, <2>2, DividedMoves
  <2> QED
    BY <1>2, <1>5, <1>11, <2>1, <2>3
<1> QED
  BY <1>2, <1>5, <1>10, <1>12, <1>15, <1>16 DEF Books, Stored

(* A dropped request gives its frames up. *)
LEMMA DropBooks ==
  ASSUME HandlerInv, Books, NEW h \in Handler, DropHandler(h)
  PROVE  Books'
<1> DEFINE X == Keys(task[h].frames)
           Y == Keys(Idle.frames)
<1>1. /\ task' = [task EXCEPT ![h] = Idle] /\ abandoned' = abandoned \union X
      /\ session' = session /\ history' = history /\ appended' = appended
  BY DEF DropHandler
<1>2. Idle.frames = <<>> /\ Idle.pc = "idle"
  BY DEF Idle
<1>3. /\ \A j \in Handler : Numbered(task'[j].frames)
      /\ \A j \in Handler : task'[j].pc \notin {"invalidate", "publish", "append"}
                              => task'[j].frames = <<>>
      /\ Flights' = [Flights EXCEPT ![h] = Y]
      /\ DOMAIN Flights = Handler /\ Flights[h] = X
  BY <1>1, <1>2, NoFrames, RecordBooks
<1>4. Y = Flights[h] \ X
  BY <1>2, <1>3, NoFrames
<1>5. Given' = Given /\ (Stored' <=> Stored)
  BY <1>1 DEF Stored, Given, Handed
<1> HIDE DEF X, Y
<1>6. Divided(Given, appended, abandoned \union X, [Flights EXCEPT ![h] = Y])
  <2>1. Divided(Given, appended, abandoned, Flights)
    BY DEF Books
  <2> QED
    BY <1>3, <1>4, <2>1, DividedMoves
<1> QED
  BY <1>1, <1>3, <1>5, <1>6, HistorySame DEF Books

(* A command stores result and goes on with frames. *)
LEMMA AtomicBooks ==
  ASSUME HandlerInv, Books, NEW h \in Handler, NEW result, NEW frames, Stored,
         task[h].pc \notin {"invalidate", "publish", "append"},
         SessionInv(result), session.state # "Failed" => result.state # "Failed",
         AtomicSessionUpdate(h, result, frames), Numbered(frames),
         Handed(result) = Handed(session) \union Keys(frames),
         Handed(session) \intersect Keys(frames) = {}
  PROVE  Books'
<1> DEFINE rec == [pc |-> "invalidate", events |-> result.pending_events, frames |-> frames, arg |-> <<>>]
<1>1. /\ Store(result) /\ task' = [task EXCEPT ![h] = rec]
      /\ history' = history /\ appended' = appended /\ abandoned' = abandoned
  BY DEF AtomicSessionUpdate
<1>2. rec.pc = "invalidate" /\ rec.frames = frames
  OBVIOUS
<1>3. task[h].frames = <<>> /\ session.state # "Failed"
  BY DEF Books
<1>4. Given = Handed(session)
  BY DEF Given
<1> HIDE DEF rec
<1> QED
  BY <1>1, <1>2, <1>3, <1>4, UpdateBooks

(* The same for a command that creates no frame. *)
LEMMA FramelessBooks ==
  ASSUME HandlerInv, Books, NEW h \in Handler, NEW result, Stored, task[h].pc = "idle",
         SessionInv(result), KeepsNumbers(session, result), AtomicSessionUpdate(h, result, <<>>)
  PROVE  Books'
<1>1. Handed(result) = Handed(session)
  BY SameHanded
<1>2. Numbered(<<>>) /\ Keys(<<>>) = {}
  BY NoFrames
<1> QED
  BY <1>1, <1>2, AtomicBooks DEF KeepsNumbers

(* GenerateFrames numbers the frames it commits under the lock. *)
LEMMA CommitBooks ==
  ASSUME HandlerInv, Books, NEW h \in Handler, GenerateCommit(h)
  PROVE  Books'
<1> DEFINE arg == task[h].arg
           result == commit_for_stream(session, arg.id, arg.patches, arg.max_frames)
           frames == FramesForStream(session, arg.id, arg.patches, arg.max_frames)
<1>1. /\ CanCommitForStream(session, arg.id) /\ Stored /\ arg.max_frames \in FrameLimit
      /\ \E t \in Threshold : arg.patches = extract_for_stream(session, arg.id, t)
      /\ AtomicSessionUpdate(h, result, frames) /\ task[h].pc = "commit"
  BY DEF GenerateCommit, HandlerInv, ExtractionFresh
<1>2. SessionInv(session) /\ SessionInv(result)
  BY CommitResult
<1>3. arg.id \in DOMAIN session.streams /\ arg.max_frames \in Nat
  BY <1>1, FrameLimitAssumption DEF CanCommitForStream, HasStream
<1>4. Descending(arg.patches) /\ \E R : arg.patches \in Seq(R)
  <2>1. \A t : LET patches == extract_prioritized_patches(session.streams[arg.id], t)
               IN  Descending(patches) /\ \E R : patches \in Seq(R)
    BY <1>2, <1>3, ExtractedDescends
  <2> QED
    BY <1>1, <2>1 DEF extract_for_stream
<1> HIDE DEF arg
<1>5. Contract(result, frames) /\ Grows(session, result, frames)
  BY <1>1, <1>2, <1>3, <1>4, ForStreamContract
<1>6. result.state = session.state
  BY <1>2, CommitKeepsState
<1> HIDE DEF result, frames
<1>7. /\ Numbered(frames) /\ Handed(result) = Handed(session) \union Keys(frames)
      /\ Handed(session) \intersect Keys(frames) = {}
  BY <1>2, <1>5, ContractHanded
<1> QED
  BY <1>1, <1>2, <1>6, <1>7, AtomicBooks

(* So does BatchGenerateFrames, across the streams. *)
LEMMA BatchBooks ==
  ASSUME HandlerInv, Books, NEW h \in Handler, BatchCommit(h)
  PROVE  Books'
<1> DEFINE arg == task[h].arg
           order == arg.order
           extracted == arg.extracted
           candidates == Candidates(session, extracted, order)
           result == commit_priority_frames(session, candidates, arg.batch_size)
           frames == PriorityFrames(session, candidates, arg.batch_size)
<1>1. Stored /\ SessionInv(session) /\ SessionInv(result)
  BY BatchResult
<1>2. AtomicSessionUpdate(h, result, frames) /\ task[h].pc = "batch_commit"
  BY DEF BatchCommit
<1>3. PICK t \in Threshold, visited \in SUBSET DOMAIN session.streams :
        /\ order \in SetToSeqs(visited)
        /\ extracted = [id \in visited |-> extract_for_stream(session, id, t)]
  BY DEF BatchCommit, HandlerInv, BatchFresh
<1>4. Cardinality(visited) \in Nat
  BY <1>1, FiniteParts, FS_Subset, FS_CardinalityType DEF SessionInv, SessionOK
<1>5. /\ order \in [1..Cardinality(visited) -> visited]
      /\ \A i, j \in DOMAIN order : order[i] = order[j] => i = j
  BY <1>3 DEF SetToSeqs
<1> HIDE DEF order, extracted, result, frames
<1>6. order \in Seq(visited)
  BY <1>4, <1>5, SeqDef
<1>7. ASSUME NEW i \in DOMAIN order
      PROVE  Descending(chunk_patches_for_commit(extracted[order[i]], MaxCandidatesPerStream))
  <2> DEFINE patches == extract_prioritized_patches(session.streams[order[i]], t)
  <2>1. order[i] \in visited /\ order[i] \in DOMAIN session.streams
    BY <1>5
  <2>2. extracted[order[i]] = patches
    BY <1>3, <2>1 DEF extract_for_stream
  <2>3. Descending(patches) /\ \E R : patches \in Seq(R)
    BY <1>1, <2>1, ExtractedDescends
  <2>4. MaxCandidatesPerStream \in Nat
    BY DEF MaxCandidatesPerStream
  <2> HIDE DEF patches
  <2>5. Descending(chunk_patches_for_commit(patches, MaxCandidatesPerStream))
    BY <2>3, <2>4, ChunksDescend
  <2> QED
    BY <2>2, <2>5
<1>8. IsFiniteSet(DOMAIN candidates)
  BY <1>6, CandidatesFinite
<1>9. /\ DOMAIN candidates \subseteq Int
      /\ \A k \in DOMAIN candidates : /\ candidates[k].priority \in Int
                                      /\ CanCommitForStream(session, candidates[k].stream)
      /\ \A k, m \in DOMAIN candidates :
           k < m /\ candidates[k].stream = candidates[m].stream =>
             candidates[k].priority >= candidates[m].priority
  BY <1>5, <1>6, <1>7, CandidatesDescend
<1> HIDE DEF candidates, arg
<1>10. Contract(result, frames) /\ Grows(session, result, frames)
  BY <1>1, <1>8, <1>9, PriorityContract DEF result, frames
<1>11. result.state = session.state
  BY <1>1, CommitKeepsState DEF result
<1>12. /\ Numbered(frames) /\ Handed(result) = Handed(session) \union Keys(frames)
       /\ Handed(session) \intersect Keys(frames) = {}
  BY <1>1, <1>10, ContractHanded
<1> QED
  BY <1>1, <1>2, <1>11, <1>12, AtomicBooks

(* The commands that change a session or one of its streams. *)
LEMMA LifecycleBooks ==
  ASSUME HandlerInv, Books, NEW h \in Handler, Lifecycle(h)
  PROVE  Books'
<1>0. Stored => SessionInv(session)
  BY DEF HandlerInv, StoredOK
<1>1. CASE CreateSession(h)
  <2> DEFINE fresh == NewSession(now)
             created == activate(fresh)
             rec == [pc |-> "publish", events |-> created.pending_events, frames |-> <<>>, arg |-> <<>>]
  <2>1. SessionInv(fresh) /\ CanActivate(fresh)
    BY NewSessionInv DEF HandlerInv, CanActivate, NewSession
  <2>2. SessionInv(created)
    BY <2>1, ActivateInv
  <2>3. created.streams = <<>> /\ created.state = "Active"
    BY DEF activate, add_event, NewSession
  <2>4. Handed(created) = {}
    <3>1. DOMAIN created.streams = {}
      BY <2>3
    <3> QED
      BY <3>1 DEF Handed
  <2>5. /\ Store(created) /\ task' = [task EXCEPT ![h] = rec] /\ ~Stored /\ task[h].pc = "idle"
        /\ history' = history /\ appended' = appended /\ abandoned' = abandoned
    BY <1>1 DEF CreateSession
  <2>6. rec.pc = "publish" /\ rec.frames = <<>>
    OBVIOUS
  <2>7. Given = {} /\ task[h].frames = <<>>
    BY <2>5 DEF Given, Books
  <2> HIDE DEF created, rec
  <2> QED
    BY <2>2, <2>3, <2>4, <2>5, <2>6, <2>7, NoFrames, UpdateBooks
<1>3. ASSUME NEW id \in StreamId, NEW source \in Source, NEW rules \in Rules,
             CreateStreamCommand(h, id, source, rules)
      PROVE  Books'
  <2>1. ~HasStream(session, id) /\ CanCreateStream(session, now) /\ Stored /\ task[h].pc = "idle"
    BY <1>3 DEF CreateStreamCommand, Ready
  <2>2. \/ AtomicSessionUpdate(h, create_stream(session, id, source, <<>>), <<>>)
        \/ AtomicSessionUpdate(h, create_stream_with_config(session, id, source, rules), <<>>)
    BY <1>3 DEF CreateStreamCommand
  <2>3. RulesOK(rules) /\ RulesOK(<<>>)
    BY RulesAssumption DEF RulesOK
  <2>4. /\ SessionInv(create_stream(session, id, source, <<>>))
        /\ SessionInv(create_stream_with_config(session, id, source, rules))
    BY <1>0, <2>1, <2>3, CreateStreamInv, CreateStreamWithConfigInv
  <2>5. /\ KeepsNumbers(session, create_stream(session, id, source, <<>>))
        /\ KeepsNumbers(session, create_stream_with_config(session, id, source, rules))
    BY <1>0, <2>1, CreateKeepsNumbers
  <2> QED
    BY <2>1, <2>2, <2>4, <2>5, FramelessBooks
<1>4. ASSUME NEW id \in StreamId, StartStreamCommand(h, id)
      PROVE  Books'
  <2>1. /\ CanStartStream(session, id) /\ HasStream(session, id) /\ Stored /\ task[h].pc = "idle"
        /\ AtomicSessionUpdate(h, start_stream(session, id), <<>>)
    BY <1>4 DEF StartStreamCommand, Ready, CanStartStream
  <2>2. SessionInv(start_stream(session, id)) /\ KeepsNumbers(session, start_stream(session, id))
    BY <1>0, <2>1, StartStreamInv, LifecycleKeepsNumbers
  <2> QED
    BY <2>1, <2>2, FramelessBooks
<1>5. ASSUME NEW id \in StreamId, CompleteStreamCommand(h, id)
      PROVE  Books'
  <2>1. /\ CanCompleteStream(session, id) /\ HasStream(session, id) /\ Stored /\ task[h].pc = "idle"
        /\ AtomicSessionUpdate(h, complete_stream(session, id), <<>>)
    BY <1>5 DEF CompleteStreamCommand, Ready, CanCompleteStream
  <2>2. SessionInv(complete_stream(session, id)) /\ KeepsNumbers(session, complete_stream(session, id))
    BY <1>0, <2>1, CompleteStreamInv, LifecycleKeepsNumbers
  <2> QED
    BY <2>1, <2>2, FramelessBooks
<1>6. CASE CloseSessionCommand(h)
  <2>1. /\ CanClose(session) /\ Stored /\ task[h].pc = "idle"
        /\ AtomicSessionUpdate(h, close(session), <<>>)
    BY <1>6 DEF CloseSessionCommand, Ready
  <2>2. SessionInv(close(session)) /\ KeepsNumbers(session, close(session))
    BY <1>0, <2>1, CloseInv, CloseKeepsNumbers
  <2> QED
    BY <2>1, <2>2, FramelessBooks
<1> QED
  BY <1>1, <1>3, <1>4, <1>5, <1>6 DEF Lifecycle

(* A handler that carries no frames goes to a point where it carries none. *)
LEMMA GotoBooks ==
  ASSUME HandlerInv, Books, NEW h \in Handler, NEW pc, NEW arg, Goto(h, pc, arg),
         task[h].pc \notin {"invalidate", "publish", "append"},
         session' = session, history' = history, appended' = appended, abandoned' = abandoned
  PROVE  Books'
<1> DEFINE rec == [pc |-> pc, events |-> <<>>, frames |-> <<>>, arg |-> arg]
<1>1. task' = [task EXCEPT ![h] = rec] /\ rec.frames = <<>>
  BY DEF Goto
<1>2. task[h].frames = <<>>
  BY DEF Books
<1> HIDE DEF rec
<1> QED
  BY <1>1, <1>2, QuietBooks

(* Extraction, commit and rejection. *)
LEMMA FramesBooks ==
  ASSUME HandlerInv, Books, NEW h \in Handler, Frames(h)
  PROVE  Books'
<1>1. CASE \/ \E id \in StreamId, t \in Threshold, n \in FrameLimit : GenerateExtract(h, id, t, n)
           \/ \E t \in Threshold, n \in FrameLimit : BatchExtract(h, t, n)
           \/ GenerateReject(h) \/ BatchReject(h)
  <2>1. /\ task[h].pc \in {"idle", "commit", "batch_commit"} /\ session' = session
        /\ history' = history /\ appended' = appended /\ abandoned' = abandoned
    BY <1>1 DEF GenerateExtract, BatchExtract, GenerateReject, BatchReject, OtherThanTask, Ready
  <2>2. \E pc, arg : Goto(h, pc, arg)
    BY <1>1 DEF GenerateExtract, BatchExtract, GenerateReject, BatchReject
  <2> QED
    BY <2>1, <2>2, GotoBooks
<1> QED
  BY <1>1, CommitBooks, BatchBooks DEF Frames

(* The steps after a commit, a dropped future and the health query. *)
LEMMA OtherBooks ==
  ASSUME HandlerInv, Books, NEW h \in Handler, Continue(h) \/ DropHandler(h) \/ Health(h)
  PROVE  Books'
<1>0. DOMAIN task[h] = {"pc", "events", "frames", "arg"}
  BY DEF HandlerInv, TasksOK
<1>1. CASE InvalidateStatsCache(h) \/ PublishBatch(h) \/ HealthMiss(h)
  <2>1. /\ session' = session /\ history' = history
        /\ appended' = appended /\ abandoned' = abandoned
    BY <1>1 DEF InvalidateStatsCache, PublishBatch, HealthMiss, OtherThanTask
  <2>2. \E rec : /\ task' = [task EXCEPT ![h] = rec] /\ rec.frames = task[h].frames
                 /\ rec.pc \notin {"invalidate", "publish", "append"} => rec.frames = <<>>
    <3>1. CASE InvalidateStatsCache(h)
      <4> DEFINE rec == [task[h] EXCEPT !.pc = "publish"]
      <4>1. task' = [task EXCEPT ![h] = rec] /\ rec.frames = task[h].frames /\ rec.pc = "publish"
        BY <1>0, <3>1 DEF InvalidateStatsCache
      <4> HIDE DEF rec
      <4> QED
        BY <4>1
    <3>2. CASE PublishBatch(h) /\ task[h].frames = <<>>
      <4>1. Idle.frames = <<>>
        BY DEF Idle
      <4> QED
        BY <3>2, <4>1 DEF PublishBatch
    <3>3. CASE PublishBatch(h) /\ task[h].frames # <<>>
      <4> DEFINE rec == [[task[h] EXCEPT !.pc = "append"] EXCEPT !.events = <<>>]
      <4>1. task' = [task EXCEPT ![h] = rec] /\ rec.frames = task[h].frames /\ rec.pc = "append"
        BY <1>0, <3>3 DEF PublishBatch
      <4> HIDE DEF rec
      <4> QED
        BY <4>1
    <3>4. CASE HealthMiss(h)
      <4> DEFINE rec == [task[h] EXCEPT !.pc = "fill"]
      <4>1. task' = [task EXCEPT ![h] = rec] /\ rec.frames = task[h].frames /\ task[h].pc = "health"
        BY <1>0, <3>4 DEF HealthMiss
      <4>2. task[h].frames = <<>>
        BY <4>1 DEF Books
      <4> HIDE DEF rec
      <4> QED
        BY <4>1, <4>2
    <3> QED
      BY <1>1, <3>1, <3>2, <3>3, <3>4
  <2> QED
    BY <2>1, <2>2, QuietBooks
<1>2. CASE AppendFrames(h)
  BY <1>2, AppendBooks
<1>3. CASE DropHandler(h)
  BY <1>3, DropBooks
<1>4. CASE HealthSnapshot(h) \/ HealthCached(h) \/ HealthFill(h)
  <2>1. /\ task[h].pc \in {"idle", "health", "fill"} /\ session' = session
        /\ history' = history /\ appended' = appended /\ abandoned' = abandoned
        /\ \E pc, arg : Goto(h, pc, arg)
    BY <1>4 DEF HealthSnapshot, HealthCached, HealthFill, Ready, OtherThanTask
  <2> QED
    BY <2>1, GotoBooks
<1> QED
  BY <1>1, <1>2, <1>3, <1>4 DEF Continue, Health

(* No frame anywhere. *)
LEMMA InitBooks == Init => Books
<1> SUFFICES ASSUME Init PROVE Books
  OBVIOUS
<1>1. ~Stored /\ appended = {} /\ abandoned = {} /\ history = [id \in StreamId |-> <<>>]
  BY DEF Init, Stored
<1>2. \A h \in Handler : task[h].frames = <<>>
  BY DEF Init, Idle
<1>3. Given = {} /\ \A h \in Handler : Flights[h] = {}
  BY <1>1, <1>2, NoFrames DEF Given, Flights, InFlight
<1>4. Divided(Given, appended, abandoned, Flights)
  BY <1>1, <1>3 DEF Divided
<1>5. ASSUME NEW id \in StreamId PROVE HistoryKept(id)
  <2>1. AppendedOf(id) = {} /\ history[id] = <<>>
    BY <1>1 DEF AppendedOf
  <2>2. Cardinality(AppendedOf(id)) = 0 /\ Len(history[id]) = 0
    BY <2>1, FS_EmptySet
  <2> QED
    BY <2>1, <2>2, NoFrames, CapacityAssumption DEF HistoryKept
<1>6. IsFiniteSet(appended)
  BY <1>1, FS_EmptySet
<1> QED
  BY <1>1, <1>2, <1>4, <1>5, <1>6, NoFrames DEF Books

(* Every step keeps the books. *)
LEMMA NextBooks == HandlerInv /\ Books /\ [Next]_vars => Books'
<1> SUFFICES ASSUME HandlerInv, Books, [Next]_vars PROVE Books'
  OBVIOUS
<1>1. CASE UNCHANGED vars \/ Tick
  <2>1. /\ session' = session /\ task' = task
        /\ history' = history /\ appended' = appended /\ abandoned' = abandoned
    BY <1>1 DEF vars, Tick
  <2>2. (Stored' <=> Stored) /\ Given' = Given /\ Flights' = Flights
    BY <2>1 DEF Stored, Given, Handed, Flights, InFlight
  <2> QED
    BY <2>1, <2>2, HistorySame DEF Books
<1>2. ASSUME NEW h \in Handler,
             Lifecycle(h) \/ Frames(h) \/ Continue(h) \/ DropHandler(h) \/ Health(h)
      PROVE  Books'
  BY <1>2, LifecycleBooks, FramesBooks, OtherBooks
<1> QED
  BY <1>1, <1>2 DEF Next

(* The books are in order in every reachable state. *)
THEOREM BooksInvariant == Spec => []Books
  BY InitBooks, NextBooks, Invariance, PTL DEF Spec

(***************************************************************************)
(* However many handlers extract from the same snapshot, commit, publish,  *)
(* append group by group or are dropped: every sequence number handed out  *)
(* is the number of exactly one frame, which was stored, is carried by     *)
(* exactly one handler or was given up; the session counts exactly these   *)
(* frames; and a history forgets a frame only when it is full.             *)
(***************************************************************************)
THEOREM FrameAccountingCorrect == Spec => []FrameAccounting
<1>1. HandlerInv /\ Accounts /\ Books => FrameAccounting
  <2> SUFFICES ASSUME HandlerInv, Accounts, Books PROVE FrameAccounting
    OBVIOUS
  <2>1. ASSUME NEW id \in StreamId
        PROVE  LET kept == Keys(history[id])
                   all == {k \in appended : k[1] = id}
               IN  /\ Cardinality(kept) = Len(history[id])
                   /\ kept \subseteq all
                   /\ Len(history[id]) = Min({Cardinality(all), max_frames_per_stream})
    <3> DEFINE n == Cardinality(AppendedOf(id))
    <3>1. /\ Numbered(history[id]) /\ Keys(history[id]) \subseteq AppendedOf(id)
          /\ Len(history[id]) = IF n > max_frames_per_stream THEN max_frames_per_stream ELSE n
      BY DEF Books, HistoryKept
    <3>2. n \in Nat
      <4>1. AppendedOf(id) \subseteq appended
        BY DEF AppendedOf
      <4> QED
        BY <4>1, FS_Subset, FS_CardinalityType DEF Books
    <3> HIDE DEF n
    <3>3. Min({n, max_frames_per_stream}) = IF n > max_frames_per_stream THEN max_frames_per_stream ELSE n
      BY <3>2, CapacityAssumption DEF Min
    <3>4. Cardinality(Keys(history[id])) = Len(history[id])
      BY <3>1, KeysCount
    <3> QED
      BY <3>1, <3>3, <3>4 DEF AppendedOf, n
  <2>2. HistoryExact
    BY <2>1 DEF HistoryExact
  <2>3. ASSUME Stored
        PROVE  LET flying == UNION {InFlight(h) : h \in Handler}
                   handed == {k \in StreamId \X (1..session.total_frames) :
                                HasStream(session, k[1]) /\ k[2] < session.streams[k[1]].next_sequence}
               IN  /\ handed = appended \union abandoned \union flying
                   /\ Cardinality(handed) = session.total_frames
                   /\ appended \intersect flying = {}
                   /\ abandoned \intersect (appended \union flying) = {}
                   /\ \A g, h \in Handler : g # h => InFlight(g) \intersect InFlight(h) = {}
    <3> DEFINE flying == UNION {InFlight(h) : h \in Handler}
               handed == {k \in StreamId \X (1..session.total_frames) :
                            HasStream(session, k[1]) /\ k[2] < session.streams[k[1]].next_sequence}
    <3>1. handed = Handed(session) /\ Cardinality(Handed(session)) = session.total_frames
      BY <2>3, HandedCount DEF HandlerInv, StoredOK, Accounts, Books
    <3>2. Divided(Handed(session), appended, abandoned, Flights)
      BY <2>3 DEF Books, Given
    <3>3. \A h \in Handler : Flights[h] = InFlight(h)
      BY DEF Flights
    <3>4. \A k : k \in flying <=> \E h \in Handler : k \in Flights[h]
      BY <3>3
    <3> HIDE DEF flying, handed
    <3>5. Handed(session) = appended \union abandoned \union flying
      BY <3>2, <3>4 DEF Divided
    <3>6. appended \intersect flying = {} /\ abandoned \intersect (appended \union flying) = {}
      BY <3>2, <3>4 DEF Divided
    <3>7. \A g, h \in Handler : g # h => InFlight(g) \intersect InFlight(h) = {}
      BY <3>2, <3>3 DEF Divided
    <3> QED
      BY <3>1, <3>5, <3>6, <3>7 DEF flying, handed
  <2> QED
    BY <2>2, <2>3 DEF FrameAccounting
<1> QED
  BY <1>1, Invariance, AccountsInvariant, BooksInvariant, PTL

=============================================================================
