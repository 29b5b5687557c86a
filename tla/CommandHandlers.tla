-------------------------- MODULE CommandHandlers --------------------------
(***************************************************************************)
(* Concurrent command handlers over one stored session:                    *)
(* application/handlers/command_handlers.rs on the in-memory repository    *)
(* (adapters/gat_memory_repository.rs) and frame store                     *)
(* (adapters/frame_store.rs) of crates/pjs-core.                           *)
(*                                                                         *)
(* A handler is a task.  One step is what it does between two points where *)
(* another task can run: the closure under the DashMap shard lock, the     *)
(* removal of the cached statistics, the publication of the drained        *)
(* events, one append to the frame store.  A command that fails before it  *)
(* changes anything is no step.                                            *)
(***************************************************************************)
EXTENDS StreamSession, Subsequences

CONSTANTS
  Rules,                  \* priority_rules maps, the empty one included
  Threshold,              \* priority thresholds a caller can ask for
  FrameLimit,             \* max_frames values a caller can ask for
  Handler,                \* the tasks serving requests
  max_frames_per_stream,  \* frame store capacity
  CacheTtl,               \* STATS_CACHE_TTL_SECS, in ticks
  NoCache,                \* no cached statistics
  MaxTime,                \* bound on the clock
  MaxFrames               \* generate commands start below this many frames

ASSUME CapacityAssumption == max_frames_per_stream \in Nat \ {0}
ASSUME HandlerAssumption == IsFiniteSet(Handler)
ASSUME RulesAssumption == \A rules \in Rules : RulesOK(rules)
ASSUME FrameLimitAssumption == FrameLimit \subseteq Nat

VARIABLES
  session,       \* the stored session, or NoSession
  now,           \* wall clock
  task,          \* per handler: program counter and locals
  history,       \* the frame store, per stream
  appended,      \* frames ever appended, as <<stream, sequence>>
  abandoned,     \* frames of handlers dropped before they appended
  reported,      \* frame and completion counts in published events
  stats_cache    \* cached total_frames, or NoCache

vars == <<session, now, task, history, appended, abandoned, reported, stats_cache>>

Idle == [pc |-> "idle", events |-> <<>>, frames |-> <<>>, arg |-> <<>>]

Stored == session # NoSession

Init ==
  /\ session = NoSession
  /\ now = 0
  /\ task = [h \in Handler |-> Idle]
  /\ history = [id \in StreamId |-> <<>>]
  /\ appended = {}
  /\ abandoned = {}
  /\ reported = [completed |-> 0, frames |-> 0]
  /\ stats_cache = NoCache

-----------------------------------------------------------------------------
(* The atomic repository calls. *)

(* The stored session becomes result, its events drained. *)
Store(result) == session' = take_events(result)

(***************************************************************************)
(* atomic_session_update: under the shard lock the session becomes result  *)
(* and its events are drained into the handler, which then goes on.        *)
(***************************************************************************)
AtomicSessionUpdate(h, result, frames) ==
  /\ Store(result)
  /\ task' = [task EXCEPT ![h] = [pc |-> "invalidate", events |-> result.pending_events,
                                  frames |-> frames, arg |-> <<>>]]
  /\ UNCHANGED <<now, history, appended, abandoned, reported, stats_cache>>

Ready(h) == task[h].pc = "idle" /\ Stored

(* CreateSessionCommand: save_session drops the cached statistics, then stores. *)
CreateSession(h) ==
  LET created == activate(NewSession(now))
  IN  /\ task[h].pc = "idle"
      /\ ~Stored
      /\ Store(created)
      /\ stats_cache' = NoCache
      /\ task' = [task EXCEPT ![h] = [pc |-> "publish", events |-> created.pending_events,
                                      frames |-> <<>>, arg |-> <<>>]]
      /\ UNCHANGED <<now, history, appended, abandoned, reported>>

CreateStreamCommand(h, id, source, rules) ==
  /\ Ready(h)
  /\ ~HasStream(session, id)
  /\ CanCreateStream(session, now)
  /\ AtomicSessionUpdate(h, IF rules = <<>>
                            THEN create_stream(session, id, source, <<>>)
                            ELSE create_stream_with_config(session, id, source, rules), <<>>)

StartStreamCommand(h, id) ==
  /\ Ready(h)
  /\ CanStartStream(session, id)
  /\ AtomicSessionUpdate(h, start_stream(session, id), <<>>)

CompleteStreamCommand(h, id) ==
  /\ Ready(h)
  /\ CanCompleteStream(session, id)
  /\ AtomicSessionUpdate(h, complete_stream(session, id), <<>>)

CloseSessionCommand(h) ==
  /\ Ready(h)
  /\ CanClose(session)
  /\ AtomicSessionUpdate(h, close(session), <<>>)

-----------------------------------------------------------------------------
(* Generate commands: extract from a snapshot, then commit under the lock. *)

Goto(h, pc, arg) ==
  task' = [task EXCEPT ![h] = [pc |-> pc, events |-> <<>>, frames |-> <<>>, arg |-> arg]]

OtherThanTask == <<session, now, history, appended, abandoned, reported, stats_cache>>

(* validate_generate_frames rejects max_frames = 0. *)
GenerateExtract(h, id, threshold, max_frames) ==
  /\ Ready(h)
  /\ session.total_frames < MaxFrames
  /\ max_frames > 0
  /\ CanExtractForStream(session, id)
  /\ Goto(h, "commit", [id |-> id, max_frames |-> max_frames,
                        patches |-> extract_for_stream(session, id, threshold)])
  /\ UNCHANGED OtherThanTask

GenerateCommit_Unchecked(h) ==  \* mutant: trusts the extraction's check
  LET arg == task[h].arg
      result == commit_for_stream(session, arg.id, arg.patches, arg.max_frames)
  IN  /\ task[h].pc = "commit"
      /\ AtomicSessionUpdate(h, result,
           FramesForStream(session, arg.id, arg.patches, arg.max_frames))

GenerateCommit(h) ==
  LET arg == task[h].arg
      result == commit_for_stream(session, arg.id, arg.patches, arg.max_frames)
  IN  /\ task[h].pc = "commit"
      /\ CanCommitForStream(session, arg.id)
      /\ AtomicSessionUpdate(h, result,
           FramesForStream(session, arg.id, arg.patches, arg.max_frames))

(* The stream left Streaming meanwhile: the command fails. *)
GenerateReject(h) ==
  /\ task[h].pc = "commit"
  /\ ~CanCommitForStream(session, task[h].arg.id)
  /\ Goto(h, "idle", <<>>)
  /\ UNCHANGED OtherThanTask

(* BatchGenerateFramesCommand validates nothing. *)
BatchExtract(h, threshold, batch_size) ==
  /\ Ready(h)
  /\ session.total_frames < MaxFrames
  /\ \E order \in SetToSeqs(InState(session, "Streaming")) :
       Goto(h, "batch_commit",
            [order |-> order, batch_size |-> batch_size,
             extracted |-> extract_for_active_streams(session, threshold)])
  /\ UNCHANGED OtherThanTask

BatchCommit(h) ==
  LET arg == task[h].arg
      candidates == Candidates(session, arg.extracted, arg.order)
      result == commit_priority_frames(session, candidates, arg.batch_size)
  IN  /\ task[h].pc = "batch_commit"
      /\ CanCommitPriorityFrames(session, now)
      /\ AtomicSessionUpdate(h, result, PriorityFrames(session, candidates, arg.batch_size))

BatchReject(h) ==
  /\ task[h].pc = "batch_commit"
  /\ ~CanCommitPriorityFrames(session, now)
  /\ Goto(h, "idle", <<>>)
  /\ UNCHANGED OtherThanTask

-----------------------------------------------------------------------------
(* What every successful command does after its update. *)

(* invalidate_stats_cache, after the shard lock is released. *)
InvalidateStatsCache(h) ==
  /\ task[h].pc = "invalidate"
  /\ stats_cache' = NoCache
  /\ task' = [task EXCEPT ![h].pc = "publish"]
  /\ UNCHANGED <<session, now, history, appended, abandoned, reported>>

EventTally(events) ==
  [completed |-> CountOf(events, "StreamCompleted"), frames |-> FramesIn(events)]

AddTally(a, b) == [completed |-> a.completed + b.completed, frames |-> a.frames + b.frames]

PublishBatch_OneOrOther(h) ==  \* mutant: publishes only if nothing is to be stored
  /\ task[h].pc = "publish"
  /\ reported' = IF task[h].frames = <<>>
                 THEN AddTally(reported, EventTally(task[h].events)) ELSE reported
  /\ task' = IF task[h].frames = <<>>
             THEN [task EXCEPT ![h] = Idle]
             ELSE [task EXCEPT ![h].pc = "append", ![h].events = <<>>]
  /\ UNCHANGED <<session, now, history, appended, abandoned, stats_cache>>

(* publish_batch comes before any step that can fail or be dropped. *)
PublishBatch(h) ==
  /\ task[h].pc = "publish"
  /\ reported' = AddTally(reported, EventTally(task[h].events))
  /\ task' = IF task[h].frames = <<>>
             THEN [task EXCEPT ![h] = Idle]
             ELSE [task EXCEPT ![h].pc = "append", ![h].events = <<>>]
  /\ UNCHANGED <<session, now, history, appended, abandoned, stats_cache>>

Keys(frames) == {<<f.stream, f.sequence>> : f \in ToSet(frames)}

(* append_frames: FIFO eviction once the history of the stream is full. *)
append_frames(old, frames) ==
  LET all == old \o frames
      excess == Len(all) - max_frames_per_stream
  IN  IF excess > 0 THEN SubSeq(all, excess + 1, Len(all)) ELSE all

(* The frames of one stream, and those of the others. *)
Group(frames, id) == Entries(frames, {i \in DOMAIN frames : frames[i].stream = id})

Rest(frames, id) == Entries(frames, {i \in DOMAIN frames : frames[i].stream # id})

AppendFrames_FirstGroup(h) ==  \* mutant: returns after the first group
  /\ task[h].pc = "append"
  /\ \E id \in {f.stream : f \in ToSet(task[h].frames)} :
       LET group == Group(task[h].frames, id)
       IN  /\ history' = [history EXCEPT ![id] = append_frames(@, group)]
           /\ appended' = appended \union Keys(group)
           /\ task' = [task EXCEPT ![h] = Idle]
  /\ UNCHANGED <<session, now, abandoned, reported, stats_cache>>

(***************************************************************************)
(* persist_frames_grouped_by_stream: one append per stream, in no          *)
(* particular order; a single-stream command has one group.                *)
(***************************************************************************)
AppendFrames(h) ==
  /\ task[h].pc = "append"
  /\ \E id \in {f.stream : f \in ToSet(task[h].frames)} :
       LET group == Group(task[h].frames, id)
           rest == Rest(task[h].frames, id)
       IN  /\ history' = [history EXCEPT ![id] = append_frames(@, group)]
           /\ appended' = appended \union Keys(group)
           /\ task' = IF rest = <<>> THEN [task EXCEPT ![h] = Idle]
                      ELSE [task EXCEPT ![h].frames = rest]
  /\ UNCHANGED <<session, now, abandoned, reported, stats_cache>>

(* The request is dropped while the handler awaits dictionary training,    *)
(* which comes between publication and the first append.                   *)
DropHandler(h) ==
  /\ task[h].pc = "append"
  /\ abandoned' = abandoned \union Keys(task[h].frames)
  /\ task' = [task EXCEPT ![h] = Idle]
  /\ UNCHANGED <<session, now, history, appended, reported, stats_cache>>

-----------------------------------------------------------------------------
(* Session health: get_session_health and its cache of total_frames. *)

TotalFrames(ss) ==
  SumFunction([id \in DOMAIN ss.streams |-> ss.streams[id].total_frames])

CacheValid == stats_cache # NoCache /\ now - stats_cache.computed_at < CacheTtl

(* The health check works on the session it cloned out of the store. *)
HealthSnapshot(h) ==
  /\ Ready(h)
  /\ Goto(h, "health", [total |-> TotalFrames(session)])
  /\ UNCHANGED OtherThanTask

HealthCached(h) ==
  /\ task[h].pc = "health"
  /\ CacheValid
  /\ Goto(h, "idle", <<>>)
  /\ UNCHANGED OtherThanTask

HealthMiss(h) ==
  /\ task[h].pc = "health"
  /\ ~CacheValid
  /\ task' = [task EXCEPT ![h].pc = "fill"]
  /\ UNCHANGED OtherThanTask

(* The entry upsert of get_cached_total_frames. *)
HealthFill(h) ==
  /\ task[h].pc = "fill"
  /\ stats_cache' = [total |-> task[h].arg.total, computed_at |-> now]
  /\ Goto(h, "idle", <<>>)
  /\ UNCHANGED <<session, now, history, appended, abandoned, reported>>

Tick ==
  /\ now < MaxTime
  /\ now' = now + 1
  /\ UNCHANGED <<session, task, history, appended, abandoned, reported, stats_cache>>

Health(h) == HealthSnapshot(h) \/ HealthCached(h) \/ HealthMiss(h) \/ HealthFill(h)

Lifecycle(h) ==
  \/ CreateSession(h)
  \/ \E id \in StreamId :
       \/ \E source \in Source, rules \in Rules : CreateStreamCommand(h, id, source, rules)
       \/ StartStreamCommand(h, id)
       \/ CompleteStreamCommand(h, id)
  \/ CloseSessionCommand(h)

Frames(h) ==
  \/ \E id \in StreamId, t \in Threshold, n \in FrameLimit : GenerateExtract(h, id, t, n)
  \/ GenerateCommit(h) \/ GenerateReject(h)
  \/ \E t \in Threshold, n \in FrameLimit : BatchExtract(h, t, n)
  \/ BatchCommit(h) \/ BatchReject(h)

Continue(h) == InvalidateStatsCache(h) \/ PublishBatch(h) \/ AppendFrames(h)

Next ==
  \/ \E h \in Handler :
       Lifecycle(h) \/ Frames(h) \/ Continue(h) \/ DropHandler(h) \/ Health(h)
  \/ Tick

(***************************************************************************)
(* The runtime polls every task that can run, so a command that has        *)
(* committed goes on.  Nothing obliges a client to send a command.         *)
(***************************************************************************)
Fairness == \A h \in Handler : WF_vars(Continue(h))

Spec == Init /\ [][Next]_vars /\ Fairness

-----------------------------------------------------------------------------

TaskPc == {"idle", "commit", "batch_commit", "invalidate", "publish", "append",
           "health", "fill"}

(* Types of the control state. *)
TypeOK ==
  /\ Stored => SessionOK(session) /\ session.pending_events = <<>>
  /\ \A h \in Handler : task[h].pc \in TaskPc
  /\ now \in Nat

InFlight(h) == Keys(task[h].frames)

(* Each stream's history holds different stored frames, all of them unless *)
(* they are more than its capacity.                                        *)
HistoryExact ==
  \A id \in StreamId :
    LET kept == Keys(history[id])
        all == {k \in appended : k[1] = id}
    IN  /\ Cardinality(kept) = Len(history[id])
        /\ kept \subseteq all
        /\ Len(history[id]) = Min({Cardinality(all), max_frames_per_stream})

(***************************************************************************)
(* Every sequence number a stream handed out belongs to exactly one frame, *)
(* and that frame was stored, is in the hands of exactly one handler, or   *)
(* was given up with a dropped request.  Two generate commands that        *)
(* extracted from the same snapshot never number a frame alike, and the    *)
(* bounded history forgets a frame only when it is full.                   *)
(***************************************************************************)
FrameAccounting ==
  /\ HistoryExact
  /\ Stored =>
       LET flying == UNION {InFlight(h) : h \in Handler}
           handed == {k \in StreamId \X (1..session.total_frames) :
                        HasStream(session, k[1]) /\ k[2] < session.streams[k[1]].next_sequence}
       IN  /\ handed = appended \union abandoned \union flying
           /\ Cardinality(handed) = session.total_frames
           /\ appended \intersect flying = {}
           /\ abandoned \intersect (appended \union flying) = {}
           /\ \A g, h \in Handler : g # h => InFlight(g) \intersect InFlight(h) = {}

(***************************************************************************)
(* The events already published and those still with a handler add up to   *)
(* the session's statistics: draining under the lock loses and repeats     *)
(* nothing, whatever the interleaving.                                     *)
(***************************************************************************)
EventAccounting ==
  Stored =>
    /\ session.total_frames =
         reported.frames + SumFunction([h \in Handler |-> FramesIn(task[h].events)])
    /\ session.completed_streams =
         reported.completed +
         SumFunction([h \in Handler |-> CountOf(task[h].events, "StreamCompleted")])

(***************************************************************************)
(* Frames committed are eventually reported by a published FramesBatched.  *)
(***************************************************************************)
FramesEventuallyReported ==
  \A n \in 1..MaxFrames :
    (Stored /\ session.total_frames >= n) ~> (reported.frames >= n)

(***************************************************************************)
(* The snapshot-then-commit commands implement the atomic ones: extracting *)
(* outside the lock is indistinguishable from extracting inside it.  The   *)
(* tasks, the frame store and the cache are hidden by the mapping.         *)
(***************************************************************************)
Service == INSTANCE SessionService WITH session <- session, now <- now

ImplementsService == Service!ServiceSpec

=============================================================================
