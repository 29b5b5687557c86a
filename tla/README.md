# A TLA+ model of PJS, the priority JSON streaming server

PJS splits a JSON document into prioritised *frames* and streams them to a
client, the most important data first.  This directory models the parts of the
server where order, concurrency and bookkeeping decide whether it is right,
checks them with TLC on small instances and proves the central invariants with
TLAPS for every value of the constants.  Paths below are relative to
`src/crates/`.

## 1. Inventory

| Component | State it keeps | Operations | What makes it correct |
|---|---|---|---|
| Stream entity (`pjs-domain/src/entities/stream.rs`, `frame.rs`) | lifecycle state, next sequence number, source document, rules, statistics | start, complete, fail, cancel, update config, create skeleton / patch / completion frames, extract and commit patches | frames numbered without gaps; statistics agree with the frames returned; a finished stream is frozen |
| Priority heuristic (`pjs-domain/src/services/priority.rs`, `value_objects/priority.rs`) | none (pure) | priority of a leaf from key, depth, kind, size | result stays in 1..255 |
| Patch extraction and chunking (`stream.rs`) | none (pure) | filter, stable sort, chunk | nothing lost, repeated, or reordered; no empty chunk |
| StreamSession aggregate (`pjs-core/src/domain/aggregates/stream_session.rs`) | session state, expiry, map of streams, statistics, pending events | activate, close, force_close_expired, extend_timeout, create / configure / start / complete / fail a stream, single-stream and cross-stream frame generation, take_events | statistics match the streams and the events; a closed session holds nothing active |
| Command handlers (`pjs-core/src/application/handlers/command_handlers.rs`) | locals of each request | seven commands | snapshot-then-commit behaves like an atomic command; every frame and event is accounted for |
| Session repository (`infrastructure/adapters/gat_memory_repository.rs`, `generic_store.rs`) | sharded map of sessions, statistics cache | find, save, remove, atomic update, health check | updates are atomic; cache agrees with the session |
| Frame store (`infrastructure/adapters/frame_store.rs`) | bounded history per stream | append, list, delete | bounded, oldest evicted first |
| Event publisher (`infrastructure/adapters/event_publisher.rs`) | bounded event log with monotone stamps, subscriber callbacks, optional bounded channel | publish, publish_batch, eviction | newest events survive eviction; log bounded once publishers are done |
| Byte-bounded channel (`infrastructure/bounded_channel.rs`) | queue, byte semaphore | try_send, send, recv, detach | bytes in the queue bounded; no byte budget lost |
| Rate limiter (`security/rate_limit.rs`) | per-client token bucket, connection count, client table | check_request, check_message, add / remove connection, cleanup | limits hold; the table stays bounded; no count goes below zero |
| Dictionary store (`infrastructure/repositories/dictionary_store.rs`) | per-session samples and trained dictionary, one process-wide byte counter | train_if_ready, get_dictionary, periodic eviction with resynchronisation | trained once; the counter heals after a sweep; every call ends |
| WebSocket transport (`infrastructure/websocket/`) | connections, outgoing channels, sessions, stream tasks, limiter slots | upgrade, receive and send loop, start / close / broadcast, teardown | every task ends with its session and every connection gives everything back |
| HTTP server (`infrastructure/http/`) | connection permits, per-address counts, request slots | accept, refuse, time out, rate-limit, authenticate, answer, stream a body | no permit or slot leaks; the backlog drains |
| Query handlers (`application/handlers/query_handlers.rs`) | none; they read the repositories | page, sort and filter sessions; poll the frames of a stream | pages agree with each other when nothing changes, a walk ends whatever changes, and a poll skips no frame that was there in order |
| Priority streamer and reconstructor (`stream/priority.rs`, `reconstruction.rs`) | the plan; the client's partial document | analyze; add, process and reset frames | the document is rebuilt, and nothing known is unlearned on the way |
| Schema compression (`compression/mod.rs`, `stream/compression_integration.rs`) | the strategies of two compressors | analyse samples, compress a frame, decompress it | what was compressed comes back |
| JavaScript client (`pjs-js-client/src/`) | pending calls, sockets, reconnection timers, reconstructors | stream, connect, disconnect, frame handlers, timeouts | a call resolves with its own document, settles, and the connection state is what the sockets say |
| Orchestrator, parser, schema validation, WASM crate | see section 7 | | |

Interactions.  An HTTP or WebSocket request becomes a command.  The handler
runs a closure on the aggregate under the repository's shard lock, drains the
aggregate's events inside the closure, and after the lock is released drops the
cached statistics, publishes the events, feeds the dictionary trainer and
appends the frames to the frame store.  Generate commands first extract patches
from a *clone* of the session outside the lock and commit them under it.

Hard behaviours: the gap between extraction and commit; the order of appends
and publications of two handlers; a request dropped between publication and
append; the session expiring in between; the cache refilled from a stale clone;
saturating counters that hide a missed update; sequence numbers assigned only to
the survivors of a cross-stream cut; eviction loops that run while others
insert; tasks aborted between two awaits; timers that race with the answer they
wait for; frames of one call handled by another.  `PROJECT.json` lists each with its line.

## 2. Plan

1. Core: `Patches`, `PriorityHeuristic`, `Stream`, `StreamSession`, the machines
   `StreamEntity` and `SessionAggregate`, and their proofs. *(done)*
2. The handlers around the core: `SessionService` (abstract), `CommandHandlers`
   (detailed), their refinement. *(done)*
3. What the handlers publish into: `ByteChannel`, `ByteBoundedChannel`,
   `EventPublisher` and its proofs. *(done)*
4. `RateLimiter` and its proofs. *(done)*
5. `DictionaryStore`. *(done)*
6. The servers: `WebSocketTransport` over `ByteChannel`, and `HttpServer`. *(done)*
7. The readers' side: `SessionQueries`, `PriorityStreaming`, `StreamCompression`
   and `JsClient`; `FramePipelines` puts the ways of a document together. *(done)*
8. Proofs: the core, the publisher and the limiter first; then the refinement
   `ImplementsService`, the contract of a batch, the order of the channel and of
   the broadcast, `NothingLeaks`, `NoOrphans` and `ServedNotEvicted`; then the
   sums: `FrameLedger`, `EventLedger`, `FrameAccounting`, `EventAccounting`,
   `ResourcesExact`, `BudgetSelfHeals`, and `WindowLimit`. *(done)*  To add:
   `BudgetConserved` and the two invariants of `JsClient`.
9. To model: the orchestrator's buffered streaming, the parser's buffer pool, the
   browser's frame generation in the WASM crate.


## 3. Modules

| Module | Models |
|---|---|
| `Patches` | filtering by threshold, rule overrides, stable sort, chunking |
| `PriorityHeuristic` | field tiers, depth and size adjustments, `u8` saturation |
| `Stream` | the stream as a record and one operator per method |
| `StreamEntity` | one stream under every sequence of calls; its frames compared with an extraction written independently |
| `StreamSession` | the aggregate as a record and one operator per method |
| `SessionAggregate` | the aggregate under every sequence of calls, with the clock |
| `SessionService` | abstract specification: each command is one atomic step on the stored session |
| `CommandHandlers` | concurrent handlers, cache, publication, frame store; implements `SessionService` |
| `Totals` | the total of finitely many amounts, as the number of their units |
| `Subsequences` | the part of a sequence at some of its positions: `Vec::retain` and loops that pick elements |
| `ByteChannel` | the byte-bounded queue as a record and one operator per method |
| `ByteBoundedChannel` | senders that wait, cancel or give up on it, on tokio's fair semaphore; detached permits; a receiver that goes away |
| `EventPublisher` | publishers that stamp, insert, stream and evict over a sharded event log |
| `EventPublisher_proofs` | racing evictors keep the newest events; the channel keeps the order of a batch |
| `RateLimiter` | the per-address limits, the check before the lock apart from the update under it, and the sweep |
| `RateLimiter_proofs` | connection counts, the size of the table, the token buckets, the request window |
| `DictionaryStore` | concurrent training calls, suspended or dropped, over states that the sweep evicts; the byte counter it overwrites |
| `DictionaryStore_proofs` | one caller at a time in a state; bounded corpora; no eviction of a served session; every byte of the budget returned once |
| `WebSocketTransport` | connection tasks and stream tasks between two awaits, abort, lagging broadcast receivers, write timeout, teardown; uses `ByteChannel` |
| `WebSocketTransport_proofs` | no orphaned session or task; exact slots and byte budgets; abort; order of delivery |
| `HttpServer` | accept loop, connection limits, the layers of a request, and every way a connection or a request ends |
| `HttpServer_proofs` | permits, per-address counts and slots add up |
| `SessionQueries` | a client that walks the pages of a changing store, and one that polls the frames of a stream |
| `PriorityStreaming` | plans of the `PriorityStreamer` and the reconstructor that applies them |
| `StreamCompression` | analysis, the five strategies, and the decompressor |
| `FramePipelines` | `StreamEntity`, `PriorityStreaming` and `StreamCompression` as the three ways of a document |
| `JsClient` | overlapping calls of the JavaScript client over its three transports |
| `StreamSession_proofs`, `SessionAggregate_proofs` | lemmas per method, on the stable sort, on chunking and on sums; the theorems |
| `CommandHandlers_proofs` | the handlers keep the aggregate's invariant, implement `SessionService` and account for every event and frame |
| `MC*` | the finite instances |

*Values and machines.*  `Stream` and `StreamSession` are libraries of operators
over records: `CanXxx` is the condition under which a method returns `Ok`, and
the operator with the method's name is the new value.  `StreamEntity` and
`SessionAggregate` turn each method into an action; `CommandHandlers` uses the
same operators inside the lock.  So the lemmas about a method, proved once,
serve both.

*Data.*  A document is the sequence of its leaves in traversal order, a leaf its
path and heuristic priority.  The path 0 stands for a leaf under a key that the
path syntax cannot express; the walker skips it.  A frame is its stream,
sequence number, priority and patches, and its size is its number of patches.
Client information, metadata, duration averages and timestamps nobody compares
are left out.  A `HashMap`'s iteration order is a nondeterministic permutation.

*Errors.*  A method that returns `Err` changes nothing, so it is not a step;
where an error is the outcome of a race (`GenerateReject`, `BatchReject`) it is
an action of its own.

*Mutants.*  An operator marked `\* mutant:` is a plausible wrong version of the
definition after it.  No action uses it; it documents that the property it is
paired with in `PROJECT.json` notices the mistake.

## 4. Runs

| Run | Module, config | Result | What it shows | Properties |
|---|---|---|---|---|
| `session_aggregate` | `MCSessionAggregate`, `MCSessionAggregate.cfg` | passes | Every sequence of aggregate calls on two streams, with expiry, keeps the counters, the sequence numbers, the returned batches and the events consistent. | `StreamLedger`, `FrameLedger`, `SequenceDense`, `BatchContract`, `EventLedger`, `ClosedSessionIdle`, `FinishedIsFrozen` |
| `command_handlers` | `MCCommandHandlers`, `MCCommandHandlers.cfg` | passes | Two concurrent handlers over two streams of a session that may expire account for every frame and event, implement the atomic service, and report every frame they commit. | `FrameAccounting`, `EventAccounting`, `FramesEventuallyReported`, `ImplementsService` |
| `dictionary_store` | `MCDictionaryStore`, `MCDictionaryStore.cfg` | passes | Two callers that collect, train, fail, register or are dropped, and a sweep that evicts and resynchronises, return every reserved byte exactly once; a dropped training goes on in the background with its snapshot, uncounted. | `BudgetSelfHeals`, `ServedNotEvicted`, `CallsEnd` |
| `frame_pipelines` | `MCFramePipelines`, `MCFramePipelines.cfg` | passes | The ways from a document to the client keep it whole: the Stream entity under every sequence of its calls, PriorityStreamer plans rebuilt by a JsonReconstructor that processes frames at any time, and compressed frames whose compressor is re-optimised while they travel. | `EmissionsAccounted`, `FramesCarryExtraction`, `ReconstructsDocument`, `CompressionRoundTrips`, `NothingUnlearned` |
| `byte_channel` | `MCByteBoundedChannel`, `MCByteBoundedChannel.cfg` | passes | Two senders, cancellation, detached permits and a vanishing receiver keep the byte budget exact and let every send end. | `BudgetConserved`, `SendTerminates` |
| `event_publisher` | `MCEventPublisher`, `MCEventPublisher.cfg` | passes | Racing publishers and evictors keep the newest events and trim the log, with torn reads of the sharded map. | `NewestKept`, `StreamedInBatchOrder`, `LogEventuallyTrimmed` |
| `http_server` | `MCHttpServer`, `MCHttpServer.cfg` | passes | Three connections for two permits and two requests for one slot: timeouts, refusals, hangs and disconnects return every permit and slot, and the backlog drains. | `NothingLeaks`, `BacklogDrains` |
| `js_client` | `MCJsClient`, `MCJsClient.cfg` | passes | Two calls of one client over each transport: bodies cut anywhere, early ends, invalid frames, callbacks that start a stream or disconnect between two frames of a chunk, timeouts, supersession, broken sockets, reconnection and disconnect; results are exact where no other stream interferes, which over HTTP is so for the latest call unless it started while a chunk of an older one was being emitted; the client knows when it has given up, and every call settles. | `ResolvedExact`, `GivenUpIsKnown`, `CallsSettle` |
| `streams_isolated` | `MCJsClient`, `MCStreamsIsolated.cfg` | violated, as expected | A second call on the same WebSocket resolves on the end of the first call's stream, without its own document. | `StreamsIsolated` |
| `session_queries` | `MCSessionQueries`, `MCSessionQueries.cfg` | passes | Page walks over stores of three to five sessions, from the first page or from an offset past the limit, with a session created or closed on the way, and a frame poll against out-of-order appends: walks end and miss nothing within the limits, searches are exact, and a poll misses only frames that were appended late or have been evicted. | `PagesAreExact`, `MissedOnlyIfLate`, `WalkEnds` |
| `rate_limiter` | `MCRateLimiter`, `MCRateLimiter.cfg` | passes | Two concurrent calls, a sweep and the clock keep connection counts exact and every window within its limit. | `GuardsCounted`, `WindowLimit`, `MeteredWhileConnected` |
| `websocket_transport` | `MCWebSocketTransport`, `MCWebSocketTransport.cfg` | passes | Two connections that come, stream, stall, lag and go, an application that starts, restarts and closes streams and the sweep leave no session, task, slot or byte behind. | `NoOrphans`, `ResourcesExact`, `CompleteComesLast`, `ConnectionReleased` |

All runs set `CHECK_DEADLOCK FALSE`: the server may stop when clients send
nothing more, or when a bound named in a guard is reached.

*Bounds.*  Two streams are the least for which a cross-stream cut, the order of
iteration and the stream limit matter; two handlers are the least for a race,
and no handler waits for a third.  Three leaves make the sort change the order
and the chunking both split and merge.  The clock reaches the expiry, passes it
and is overtaken by `extend_timeout`; in the handler run the session expires at
the first tick.  `max_frames_per_stream = 2` is exceeded in the handler run.
Two senders and two publishers are the least that wait for, or race with, each
other; a payload of four bytes exceeds the budget of three.  Two callers and two
states of one session let a sweep evict a state that a caller still holds, and
one training may go on after its caller is gone (`MaxDetached = 1`).  Two
connections for one slot, and one session whose task is restarted once
(`MaxTasks = 2`), let every teardown overlap with a start; the message that fills the byte budget is being
written while the next one waits.  Three connections for two permits and two
requests for one slot fill the HTTP server; one address key and the clients
without one are both there.  Of the limits of `SessionQueries`, some store
exceeds the page, result and scan limits, some query starts past the offset
limit, and the frame history evicts.  Documents of `FramePipelines` contain arrays on both sides of
every chunk boundary, keys that no path can express, strings that look like
dictionary markers and escapes, arrays one element beyond the run limit and
values that look like encodings.  Two calls of the JavaScript client overlap on
each of the three transports, with one reconnection and three sockets; a chunk
may hold the whole answer, so that a callback can start the second call between
two frames of the first.  In `StreamCompression` integers are exact up to
`MaxExact = 128` (2^53 for `f64`) and finite up to `MaxFloat = 1024`; the documents
have numbers at and beyond both.  Symmetry
is used only in runs without liveness.

*Fairness.*  `CommandHandlers` assumes weak fairness of `Continue(h)`, the steps
a handler takes after its commit: the runtime polls a task that can run.  No
step of a client is fair.  A dropped request (`DropHandler`) is possible and is
never forced.
`ByteBoundedChannel` assumes it of each sender's `Push` (the runtime polls a
woken sender), of `Recv` while the receiver lives (the receive loops take
messages without end) and of the drop of a detached permit (its holder drops it
when the write ends or times out).  `EventPublisher` assumes it of a publisher's
own steps.  `RateLimiter` states no liveness and assumes none.

*Granularity of the newer modules.*  In `EventPublisher` one step is one shard of
`len()` or `iter()`, one insertion, one `try_send` or one removal; reading the
channel handle (`channel_tx.read().await`) never waits, because the handle is
set when the publisher is built and never written again.  In `RateLimiter` a call reads the
table and the clock in one step and works under the entry's lock in another;
`MaxLag` bounds the ticks between the two, and `WindowLimit` shrinks the window by
that much, which is what the code really guarantees.  One address sends plain
requests and all three open connections (`HttpIp`): the limits of different
addresses meet only in the table.  `MAX_TRACKED_CLIENTS = 1` with two calls in
flight overshoots; the clock runs past two windows, so that entries expire.

`DictionaryStore` assumes strong fairness of a caller's steps: the corpus mutex
of tokio is fair, so a caller that finds it free again and again gets it.
`WebSocketTransport` assumes weak fairness of what a connection task and a stream
task can do without the client (tokio polls what is ready), and strong fairness
of leaving once the client is gone (`select!` sees the closed socket although
other branches are ready in between); no message, ping or close of a client is
fair.  `HttpServer` assumes that the header timeout and, where one is set, the
connection deadline fire, that the accept loop
is polled, and that the listener is offered a connection again after it failed
(strong, since a failing accept sleeps in between); no handler, body or client
is fair, and `BacklogDrains` is stated under `DeadlineSet`, for the deployments
that configure a connection deadline: without it clients may keep every permit.
`SessionQueries` assumes only that the walking client goes on asking.  `JsClient`
assumes that a loop over lines runs to its end, that timers fire and that an attempt to connect succeeds or fails; it
does not assume that the server ever sends a frame.

## 5. What is proved

`SessionAggregate_proofs` proves, for any sets of streams, documents, rules and
limits, that every call preserves

    SessionInv == SessionOK /\ ActiveCountOK /\ CountersOK /\ SequencesOK /\ ClosedIdle

and derives `TypeOK`, `StreamLedger`, `SequenceDense` and `ClosedSessionIdle`, and from it the action property `FinishedIsFrozen`.

No conjunct is inductive alone.  `complete_stream` and `fail_stream` check the
stream's state and not the session's, and decrement `active_streams` with
saturation: the sum in `CountersOK` survives only if the counter is at least
one, which `ActiveCountOK` gives while the session is open, and `ClosedIdle`
excludes once it is closed (`close` leaves the counter as it was).  `ClosedIdle`
in turn needs that `create_stream` refuses a closed session.  For frames,
`RecordFramesOK` shows that a commit advances the next number and the frame
counts by the same amount; `CommitPriorityFramesInv` uses it once per stream for
whatever set of candidates survives the cut.

`BatchContract` is about what a call returns, so it needs the operators and not
only the invariant.  `SetToSortSeq` is defined by a `CHOOSE` over permutations:
`RankOrder` and `RankOnto` show that ranking the elements of a finite set by
priority and position is such a permutation, `SortMoves` and `SortDescends` that
the result is the set in descending priority with ties in their old order.
`ChunksDescend` carries this through the chunking (a chunk's priority is its
highest, and that is its first), `ForStreamContract` and `PriorityContract` to
the frames of a commit: among the survivors of the cut, the frames of one stream
are numbered in the order of the candidates, and the final stable sort keeps that
order because `CandidatesDescend`.

`CommandHandlers_proofs` proves that any number of handlers implement
`SessionService` (`Refinement`), by simulation: a commit under the lock is the
abstract command, every other step a stutter.  The abstract command extracts and
commits at once, the handler committed what it extracted earlier; `HandlerInv`
therefore says that what a handler between the two has in hand is still what its
threshold gives on the session stored now.  It holds because no command removes a
stream of a stored session or changes its document or its rules
(`KeepsDocuments`, one lemma per method), which is why the lock may be released
in between.  The same invariant carries `SessionInv` over to the stored session.

Assumptions on constants: frame limits are naturals; documents are sequences of
leaves; rules map paths to priorities; identifiers of new streams are unused
(`StreamId::new` draws a UUID).

`EventPublisher_proofs` proves `NewestKept` for any capacity, target, number of
shards and publishers.  An evictor decides on a snapshot that others have made
stale, so the property is not inductive.  `PublisherInv` adds that a snapshot
holds only inserted events, and that whatever has left the log, or is a victim
of some evictor, already has `EVENT_LOG_EVICT_TARGET` newer inserted events.
Insertions can only add newer events, so a decision taken on a stale snapshot
stays right.  `StreamedInBatchOrder` needs `OrderInv`: every queued event carries
a stamp already handed out, a batch that is still being stamped or sent is ahead
of everything queued of it, and two publishers never have the same batch.
Assumptions: at least one shard, a positive target, naturals for the bounds.

`RateLimiter_proofs` proves `TypeOK`, `GuardsCounted`, `TableBounded`,
`MeteredWhileConnected` and `WindowLimit` for any sets of addresses, any finite set of calls and any limits.  With the types,
`GuardsCounted` is inductive: the sweep spares entries with connections, so a
guard's address stays tracked and the saturating decrement never saturates.
`TableBounded` counts the addresses in the table together with those of calls
past their capacity check; only a call that found fewer than
`MAX_TRACKED_CLIENTS` entries adds to that set, and at that moment the calls in
flight are at most as many as there are tasks.  `MeteredWhileConnected` compares
what a bucket would hold after a refill before and after the step: refilling
earlier, and a tick, give the same amount up to the cap, so only time adds.

`WindowLimit` is about admissions, at the instant of the lock, while the code
keeps the instants that calls read before the lock, and keeps them out of order.
`WindowInv` relates the two: for every instant `x` of the window there are at
least as many recorded requests from `x` on as admissions from `x + MaxLag` on
(`Covered`), so that the count `check_request` compares with the limit is never
too small.  The sweep looks at the last record only; that this is enough, although
an earlier record may carry a later instant, is `LastCovers`: no admission that is
still limited is later than the last record plus `MaxLag`.  The cutoff two windows
back then lies before everything that counts.  A trimmed sequence is given by the
positions that are kept (`Entries`), for the prover has no definition of
`SelectSeq`; `EntriesOf` says how many of its instants are at least `x`.

`HttpServer_proofs` proves `NothingLeaks` for any limits and numbers of clients
and requests.  `ServerInv` states the three sums with the sets they count and adds
`BacklogOK`: a connection waits in the backlog once, and what `Accept` takes off
it is not counted as live yet, which the sums alone do not say.

`DictionaryStore_proofs` proves `ServedNotEvicted` and two facts no run lists:
the corpus mutex and the dictionary cell of a state are taken exactly while one
caller is inside (`OneAtATime`), and a corpus never grows past `N_TRAIN`
(`CorpusBounded`).  The first is what makes the second inductive: the length that
`Reserve` checked is still right at `Admit` because nobody else is between the two.
`BudgetSelfHeals`, that every reserved byte is returned exactly once, needs
`BudgetInv`: a sweep that no call has disturbed ran while every caller was idle
and its running total is what it would read now (`SweepReads`); no two sessions
share a state (`OwnState`); while the counter is exact every call is on a state
that the map still holds (`Exact`).  The counter itself is not bounded by the
budget, since `Reserve` adds before it checks and undoes later; what is bounded is
the bytes that are kept (`Within`), and beside them the snapshots of trainings
that go on in the background after their caller was dropped (`DetachedOK`).  The proof showed that the bound does not
return with the exact counter: a sweep that overlapped a call counts too little,
callers are then admitted beyond the budget, and a later undisturbed sweep makes
the counter exact but above it.  The property therefore claims the bound only
until a sweep has overlapped a call (`drift`), in agreement with the comment at
`dictionary_store.rs:174-194`, which calls the resynchronisation best effort.
`StampsOK` (no stamp, and no clock reading of a sweep, is in the future) makes the
eviction safe although the sweep compares with a clock it read earlier.

`WebSocketTransport_proofs` proves `NoOrphans`, `ResourcesExact` and
`CompleteComesLast`, and that an aborted task sends at most once more, for every
bound `MaxTasks` on the tasks a session is given by being started and restarted.  `NoOrphans` needs to know what a connection remembers at each await
(`Remembers`), that an identifier belongs to one `StreamInit` until its session is
created (`CreatesFresh`), and that a task above a session's current generation has
not been spawned (`Reachable`), so that a restart never overwrites a running task.
`CompleteComesLast` needs `DeliveryInv`: for every connection that missed nothing
of a task, each message of the task is in exactly one place (the client, the
writer or the receiver's buffer), a completion has its frame before it, and what
is there is what the task has broadcast.  A receiver that lags loses its oldest
message and is not concerned with that task any more; the lemmas `FitsTake`,
`FitsWritten`, `FitsDrop` and `FitsAppend` are one per way a message moves.
For the bytes, `BudgetInv` says that during the loop free, queued and written
bytes are the budget exactly, and that before and after it nothing is queued and
the channel refuses.

*Sums.*  The library's induction theorems take an operator, which the provers
cannot instantiate, so the proofs use a form of them with a *set*: what holds of a
subset of a finite set whenever it holds with any one element less holds of all
(`SubsetInduct`).  With it `SumFunction` over streams, events and handlers becomes
additive: adding, removing or changing one summand changes the sum by the
difference.  `Total`, for bytes and permits, is the number of units of the
amounts, and its additivity follows from the cardinality of finite sets alone.
From there the ledgers are ordinary invariants.  `FrameLedger` and `EventLedger`
follow from `Ledgers`: the totals are the sums over the streams, and the events
reported and pending add up to them.  `EventAccounting` needs `Accounts`: a
handler holds events only between its commit and its publication, so that a
commit never overwrites events, and the totals are those of the streams.
`FrameAccounting` needs `Books`: a handler carries frames only until its last
append, the frames of one handler have different numbers, and the numbers handed
out divide into those appended, abandoned and in flight (`Divided`).  Splitting a
batch by stream (`Group`, `Rest`) moves frames between two of these without
losing one.

## 6. What is only model-checked

*Liveness* (`FramesEventuallyReported`, `CallsEnd`, `SendTerminates`,
`LogEventuallyTrimmed`, `ConnectionReleased`, `BacklogDrains`, `CallsSettle`,
`WalkEnds`): fairness and `ENABLED` are
outside what the prover can do here.

*Recursive definitions* (`EmissionsAccounted`, `FramesCarryExtraction`,
`ReconstructsDocument`, `CompressionRoundTrips`, `NothingUnlearned`): documents
are trees, `StreamEntity`, `PriorityStreaming` and `StreamCompression` walk them
with `RECURSIVE` operators, and what those compute for every document needs
induction over data.

*Filters and folds from libraries* (`PagesAreExact`, `MissedOnlyIfLate`,
`ResolvedExact`): they rest on what `SelectSeq`, `SortSeq` and `FlattenSeq`
return, of which the prover knows no definition.

*Within reach of the methods of section 5, and left out*: `BudgetConserved`, the
budget of `ByteBoundedChannel` with senders that wait and cancel (the proofs about
the WebSocket transport cover the same accounting on a channel without waiting
senders), and `GivenUpIsKnown`.

*Refinement.*  `CommandHandlers` instantiates `SessionService` with the stored
session.  The run checks `ImplementsService` for two handlers, and
`Refinement` proves it for any number: whatever handlers do between extracting
from a clone and committing under the lock, the stored session changes only as if
each command ran alone.

Findings (runs that TLC refutes; each quotes the sentence of the source it
contradicts):

- `StreamsIsolated` (`src/crates/pjs-js-client/src/core/client.ts:471`): Frames carry no stream identifier and every pending stream() call listens to the client's one frame event, so a call that starts on a WebSocket while another is streaming takes the other's frames: it can resolve with the other document, or with nothing when it sees only the other's completion. The code says "Per-stream reconstructor so concurrent streams don't share state" (src/crates/pjs-js-client/src/core/client.ts:324) and stream() promises "Promise resolving to complete JSON data" (src/crates/pjs-js-client/src/core/client.ts:141).

### Observations

Places where the code does something a reader may not expect.  The models
contain them; no run states them as a property.

- Sessions: `create_stream` compares the number of streams *kept* with
  `max_concurrent_streams`, so finished streams, which are never removed, use up
  the limit.  `close` and `force_close_expired` cancel streams without adjusting
  `active_streams` (`stream_session.rs:840`, against the field's comment at
  `:112`, and the test comment "until it terminates" at
  `gat_memory_repository.rs:2041`), so a closed session reports cancelled streams
  as active; `StreamLedger` claims the count for open sessions only.  `Stream::progress` reports 0.1 for a streaming stream without frames
  and 0.01 after its first frame.
- Frame store: concurrent handlers append in an order of their own
  (`command_handlers.rs:415`), while `ports/gat.rs:243-249` says that append order
  equals sequence order and `:283` promises pages "in ascending sequence order";
  a client that polls with the last number it saw misses a frame that was
  appended late.  `MissedOnlyIfLate` says that it misses no other frame that is
  still stored.  `delete_frames_for_stream` and `remove_session` have no caller
  outside tests.
- Statistics cache: a reader that computed a total before an update can store it
  after the update invalidated the entry (`gat_memory_repository.rs:284`, `:294`).
- Queries: the list that `queries/mod.rs:22` ("Get all active sessions") and
  `handlers/sessions.rs:127` ("List active sessions") announce applies no criteria,
  so it returns completed and expired sessions too, and it refuses a limit of zero;
  `total_count`, "ignoring pagination" (`queries/mod.rs:154`), is capped by the
  scan and result limits.  `PagesAreExact` claims neither.  Also, the system statistics count sessions still stored as "ever" created.
- Dictionary store: dropping a caller that awaits training releases its
  reservation, but `spawn_blocking` (`dictionary_store.rs:551`) is not cancelled
  and keeps the snapshot in memory until it ends, uncounted, although `:43-49` says
  that the snapshot counts for the whole call and `:524-540` relies on the guard.
  `BudgetSelfHeals` bounds the bytes in memory by the budget and those snapshots.
  A sweep can overwrite the counter with a value that is too
  *high* as well (a training that ended in between), so it may refuse samples as
  well as admit too many (`dictionary_store.rs:212`, against `:187`); the next
  quiet sweep repairs both.
- PriorityStreamer: `priority_threshold` and `detect_semantics` of its
  configuration are never read; a document that is a single scalar reconstructs
  to `null`, and fields whose keys no path can express keep their placeholder.
- Compression: analysis selects Delta or Hybrid only when keys with dots make
  paths collide; run-length encoding with `min_frequency_count` of two or more
  drops elements (a run of two is pushed once); delta encoding goes through `f64`
  (`compression/mod.rs:933`), so integers come back as floats, integers beyond 2^53
  come back rounded (`[9007199254740993, ...]` as `9007199254740992.0`), and a delta
  that overflows is written as `null`, which the decoder refuses
  (`compression_integration.rs:462`); arrays beyond `MAX_RLE_COUNT` or `MAX_DELTA_ARRAY_SIZE` encode but do
  not decode; documents with keys such as `rle_value` collide with the encoding.
  `CompressionRoundTrips` is therefore stated for the other documents, in which
  every delta-encoded number is represented exactly, and for the default `min_frequency_count`.
- Buffer pool: `max_total_memory` sums idle buffers only.
- JavaScript client: user callbacks run inside the loop over a chunk's lines
  (`client.ts:375-451`, `http.ts:192-206`), so a stream that a callback starts there
  aborts the old one (`http.ts:80`) and still receives its remaining lines; it can
  resolve on the old stream's completion with nothing.  `ResolvedExact` therefore
  excepts calls started while a chunk was in hand.  A callback that throws ends its
  call as the timer does.  `disconnect()` is one step: a `stream()` made before it
  returns would be refused by the transport.  Connecting a WebSocket has no timeout; `disconnect` does not
  cancel a reconnection timer; an SSE stream that `EventSource` resumes gets its
  skeleton a second time; `validateFrame` refuses priorities above 100.


## 7. Not modelled

- **Command handlers, session repository and frame store** (`src/crates/pjs-core/src/application/handlers/command_handlers.rs`, `src/crates/pjs-core/src/infrastructure/adapters/gat_memory_repository.rs`, `src/crates/pjs-core/src/infrastructure/adapters/generic_store.rs`, `src/crates/pjs-core/src/infrastructure/adapters/frame_store.rs`): The seven commands, atomic updates under the shard lock, statistics cache, health check, event publication and frame persistence of one session. Criteria queries, the separate stream store, remove_session and delete_frames_for_stream (which no handler calls) are not modelled.
- **Event publisher** (`src/crates/pjs-core/src/infrastructure/adapters/event_publisher.rs`): publish, publish_batch, eviction over a sharded map, streaming channel. Notification callbacks, the query methods and clear (for tests) are left out.
- **HTTP server** (`src/crates/pjs-core/src/infrastructure/http/axum_adapter.rs`, `src/crates/pjs-core/src/infrastructure/http/middleware.rs`, `src/crates/pjs-core/src/infrastructure/http/auth.rs`, `src/crates/pjs-core/src/infrastructure/http/serve.rs`, `src/crates/pjs-core/src/infrastructure/http/streaming.rs`, `src/crates/pjs-core/src/infrastructure/http/handlers/streams.rs`, `src/crates/pjs-core/src/infrastructure/http/handlers/sessions.rs`, `src/crates/pjs-core/src/infrastructure/http/axum_extension.rs`, `src/crates/pjs-core/src/infrastructure/http/metrics.rs`): The accept loop, connection limits, the layers a request passes, and every way a connection or request can end. Status codes, headers, content negotiation and the optional stand-alone middlewares (which keep no state) are left out; what handlers do is in CommandHandlers and SessionQueries.
- **JavaScript client** (`src/crates/pjs-js-client/src/core/client.ts`, `src/crates/pjs-js-client/src/core/frame-processor.ts`, `src/crates/pjs-js-client/src/core/json-reconstructor.ts`, `src/crates/pjs-js-client/src/transport/base.ts`, `src/crates/pjs-js-client/src/transport/http.ts`, `src/crates/pjs-js-client/src/transport/websocket.ts`, `src/crates/pjs-js-client/src/transport/sse.ts`, `src/crates/pjs-js-client/src/transport/wasm-backend.ts`): Concurrent stream() calls over HTTP, WebSocket and SSE with connection, chunked bodies, validation, timeout, disconnection and reconnection. Patch application by path is in PriorityStreaming; the WASM transport, statistics, progress callbacks and FrameProcessor.processFrame (which the client never calls) are left out.
- **Query handlers** (`src/crates/pjs-core/src/application/handlers/query_handlers.rs`, `src/crates/pjs-core/src/application/queries/mod.rs`, `src/crates/pjs-core/src/domain/ports/repositories.rs`, `src/crates/pjs-core/src/infrastructure/http/handlers/sessions.rs`): Session pages (list, search) over a changing store and frame polls. The queries that return one stored record or sum a snapshot (get_session, get_stream, session and system statistics) are single reads.
- **Orchestrator** (`src/crates/pjs-core/src/domain/services/gat_orchestrator.rs`): Planned: buffered concurrent streaming; publishes completions on its own, without the aggregate.
- **Byte compression and bomb detection** (`src/crates/pjs-core/src/compression/secure.rs`, `src/crates/pjs-core/src/compression/zstd.rs`, `src/crates/pjs-core/src/security/compression_bomb.rs`): The bytes of zstd are external, and the detector is a counter per reader without concurrency.
- **Parser** (`src/crates/pjs-core/src/parser/mod.rs`, `src/crates/pjs-core/src/parser/partial.rs`, `src/crates/pjs-core/src/parser/zero_copy.rs`, `src/crates/pjs-core/src/parser/buffer_pool.rs`, `src/crates/pjs-core/src/parser/aligned_alloc.rs`, `src/crates/pjs-core/src/parser/simd/mod.rs`): Character-level parsing is out of TLC's reach; the buffer pool is planned.
- **Schema validation** (`src/crates/pjs-core/src/domain/services/validation_service.rs`, `src/crates/pjs-core/src/infrastructure/schema_repository.rs`, `src/crates/pjs-domain/src/value_objects/schema.rs`): Structural recursion over JSON values without shared state; the repository is one map.
- **Value objects and events** (`src/crates/pjs-domain/src/value_objects/json_path.rs`, `src/crates/pjs-domain/src/value_objects/json_data.rs`, `src/crates/pjs-domain/src/value_objects/depth_guard.rs`, `src/crates/pjs-domain/src/value_objects/backpressure.rs`, `src/crates/pjs-domain/src/value_objects/id.rs`, `src/crates/pjs-domain/src/events/mod.rs`): Validated data without behaviour over time; event kinds appear in StreamSession.
- **Configuration, metrics and limits** (`src/crates/pjs-core/src/config.rs`, `src/crates/pjs-core/src/config/security.rs`, `src/crates/pjs-core/src/infrastructure/adapters/metrics_collector.rs`, `src/crates/pjs-core/src/infrastructure/adapters/limits.rs`): Constants of the models, and counters nobody reads back.
- **WASM crate** (`src/crates/pjs-wasm/src/streaming.rs`, `src/crates/pjs-wasm/src/frame_generation.rs`, `src/crates/pjs-wasm/src/priority_assignment.rs`): Single-threaded reimplementation of extraction for the browser; not modelled yet.
- **Demo and benchmarks** (`src/crates/pjs-demo/src/lib.rs`, `src/crates/pjs-bench/src/lib.rs`): Examples.
- **WebSocket transport** (`src/crates/pjs-core/src/infrastructure/websocket/mod.rs`, `src/crates/pjs-core/src/infrastructure/websocket/server.rs`, `src/crates/pjs-core/src/infrastructure/websocket/security.rs`): Set-up, the connection's loop, StreamInit, teardown, stream tasks with abort, restart and sweep, the broadcast with its lag and the outgoing channel. Acknowledgements only feed the delay between frames; sockets and message encoding are I/O.

