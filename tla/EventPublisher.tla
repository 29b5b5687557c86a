--------------------------- MODULE EventPublisher ---------------------------
(***************************************************************************)
(* InMemoryEventPublisher of                                               *)
(* crates/pjs-core/src/infrastructure/adapters/event_publisher.rs: tasks   *)
(* that publish concurrently into a DashMap of stored events, evict the    *)
(* oldest ones and feed a byte-bounded channel.                            *)
(*                                                                         *)
(* An event is its StoredEvent::sequence.  Every access to one shard of    *)
(* the map is a step; len() and iter() visit the shards one after the      *)
(* other and see each at a different instant.  Notification callbacks have *)
(* no effect on the publisher and are left out.                            *)
(***************************************************************************)
EXTENDS ByteChannel

CONSTANTS
  Publisher,                \* tasks that publish
  NumShards,                \* shards of the DashMap
  EVENT_LOG_CAPACITY,
  EVENT_LOG_EVICT_TARGET,
  EventBytes,               \* values of approx_byte_size
  MaxBatch,                 \* bound on the events of one publish_batch
  MaxEvents                 \* bound on the events ever published

Shard == 1..NumShards

ASSUME LogAssumption ==
  /\ NumShards \in Nat \ {0}
  /\ EVENT_LOG_CAPACITY \in Nat
  /\ EVENT_LOG_EVICT_TARGET \in 1..EVENT_LOG_CAPACITY

ASSUME BatchAssumption == MaxBatch \in Nat /\ EventBytes \subseteq Nat

VARIABLES
  event_log,       \* shard -> events stored in it
  next_sequence,   \* next stamp
  inserted,        \* history: the events ever inserted
  task,            \* per publisher: program counter and locals
  channel          \* the streaming channel; closed if there is none

vars == <<event_log, next_sequence, inserted, task, channel>>

Idle ==
  [pc |-> "idle", batch |-> FALSE, events |-> {}, todo |-> {}, shard |-> 1,
   len |-> 0, snapshot |-> {}, victims |-> {}]

Init ==
  /\ event_log = [s \in Shard |-> {}]
  /\ next_sequence = 0
  /\ inserted = {}
  /\ task = [p \in Publisher |-> Idle]
  /\ channel \in {NewChannel, [NewChannel EXCEPT !.open = FALSE]}

Logged == UNION {event_log[s] : s \in Shard}

-----------------------------------------------------------------------------

(* fetch_add reserves the stamps before anything is inserted. *)
Begin(p, n, batch) ==
  LET events == next_sequence..(next_sequence + n - 1)
  IN  /\ task[p].pc = "idle"
      /\ next_sequence + n <= MaxEvents
      /\ next_sequence' = next_sequence + n
      /\ task' = [task EXCEPT ![p] =
           [Idle EXCEPT !.pc = IF n = 0 THEN "gate" ELSE "insert",
                        !.batch = batch, !.events = events, !.todo = events]]
      /\ UNCHANGED <<event_log, inserted, channel>>

Publish(p) == Begin(p, 1, FALSE)

PublishBatch(p, n) == Begin(p, n, TRUE)

(***************************************************************************)
(* One insertion.  The rayon threads of a batch insert in any order, into  *)
(* the shards the random EventIds hash to.  publish then evicts and sends; *)
(* publish_batch sends and then evicts.                                    *)
(***************************************************************************)
Insert(p, e, s) ==
  LET t == task[p]
      rest == t.todo \ {e}
      done == IF t.batch THEN "send" ELSE "gate"
  IN  /\ t.pc = "insert"
      /\ e \in t.todo
      /\ event_log' = [event_log EXCEPT ![s] = @ \union {e}]
      /\ inserted' = inserted \union {e}
      /\ task' = [task EXCEPT ![p].todo = IF rest = {} THEN t.events ELSE rest,
                              ![p].pc = IF rest = {} THEN done ELSE "insert"]
      /\ UNCHANGED <<next_sequence, channel>>

Send_AnyOrder(p, bytes) ==  \* mutant: the events of a batch are sent in parallel
  LET t == task[p]
      rest(e) == t.todo \ {e}
  IN  /\ t.pc = "send"
      /\ \E e \in t.todo :
           /\ IF CanTrySend(channel, bytes)
              THEN channel' = try_send(channel, [event |-> e, of |-> t.events], bytes)
              ELSE UNCHANGED channel
           /\ task' = IF rest(e) # {} THEN [task EXCEPT ![p].todo = rest(e)]
                      ELSE IF t.batch THEN [task EXCEPT ![p].todo = {}, ![p].pc = "gate"]
                      ELSE [task EXCEPT ![p] = Idle]
      /\ UNCHANGED <<event_log, next_sequence, inserted>>

(* One try_send, in the order of the stamps; a refused event is dropped. *)
Send(p, bytes) ==
  LET t == task[p]
      e == Min(t.todo)
      rest == t.todo \ {e}
  IN  /\ t.pc = "send"
      /\ IF CanTrySend(channel, bytes)
         THEN channel' = try_send(channel, [event |-> e, of |-> t.events], bytes)
         ELSE UNCHANGED channel
      /\ task' = IF rest # {} THEN [task EXCEPT ![p].todo = rest]
                 ELSE IF t.batch THEN [task EXCEPT ![p].todo = {}, ![p].pc = "gate"]
                 ELSE [task EXCEPT ![p] = Idle]
      /\ UNCHANGED <<event_log, next_sequence, inserted>>

-----------------------------------------------------------------------------
(* evict_oldest_if_over_capacity. *)

(* What follows the eviction. *)
Evicted(t) ==
  IF t.batch THEN Idle
  ELSE [Idle EXCEPT !.pc = "send", !.events = t.events, !.todo = t.events]

LastShard(t) == t.shard = NumShards

Gate_NoEviction(p) ==  \* mutant: nothing is ever over capacity
  /\ task[p].pc = "gate"
  /\ task' = [task EXCEPT ![p] = Evicted(task[p])]
  /\ UNCHANGED <<event_log, next_sequence, inserted, channel>>

(* event_log.len(), one shard, and the gate after the last one. *)
Gate(p) ==
  LET t == task[p]
      len == t.len + Cardinality(event_log[t.shard])
  IN  /\ t.pc = "gate"
      /\ task' = [task EXCEPT ![p] =
           IF ~LastShard(t) THEN [t EXCEPT !.len = len, !.shard = @ + 1]
           ELSE IF len > EVENT_LOG_CAPACITY
           THEN [t EXCEPT !.len = len, !.shard = 1, !.pc = "scan"]
           ELSE Evicted(t)]
      /\ UNCHANGED <<event_log, next_sequence, inserted, channel>>

Victims_StaleLen(t) ==  \* mutant: the excess is sized by the earlier len()
  {e \in t.snapshot :
     Cardinality({f \in t.snapshot : f < e}) < t.len - EVENT_LOG_EVICT_TARGET}

(* The excess of the snapshot, lowest sequence first. *)
Victims(t) ==
  {e \in t.snapshot :
     Cardinality({f \in t.snapshot : f > e}) >= EVENT_LOG_EVICT_TARGET}

(* event_log.iter(), one shard; after the last one, the sort and the cut. *)
Scan(p) ==
  LET t == [task[p] EXCEPT !.snapshot = @ \union event_log[task[p].shard]]
  IN  /\ t.pc = "scan"
      /\ task' = [task EXCEPT ![p] =
           IF ~LastShard(t) THEN [t EXCEPT !.shard = @ + 1]
           ELSE IF Victims(t) = {} THEN Evicted(t)
           ELSE [t EXCEPT !.pc = "evict", !.victims = Victims(t), !.snapshot = {},
                          !.len = 0, !.shard = 1]]
      /\ UNCHANGED <<event_log, next_sequence, inserted, channel>>

(* One removal; another evictor may have been faster. *)
Evict(p) ==
  LET t == task[p]
      e == Min(t.victims)
      rest == t.victims \ {e}
  IN  /\ t.pc = "evict"
      /\ t.victims # {}
      /\ event_log' = [s \in Shard |-> event_log[s] \ {e}]
      /\ task' = [task EXCEPT ![p] = IF rest = {} THEN Evicted(t)
                                     ELSE [t EXCEPT !.victims = rest]]
      /\ UNCHANGED <<next_sequence, inserted, channel>>

-----------------------------------------------------------------------------

(* The consumer takes an envelope and drops its permit. *)
Receive ==
  /\ channel.queue # <<>>
  /\ channel' = [channel EXCEPT !.queue = Tail(@),
                                !.free = @ + Head(channel.queue).permit]
  /\ UNCHANGED <<event_log, next_sequence, inserted, task>>

Step(p) ==
  \/ \E e \in task[p].todo, s \in Shard : Insert(p, e, s)
  \/ \E bytes \in EventBytes : Send(p, bytes)
  \/ Gate(p) \/ Scan(p) \/ Evict(p)

Next ==
  \/ \E p \in Publisher :
       \/ Publish(p)
       \/ \E n \in 0..MaxBatch : PublishBatch(p, n)
       \/ Step(p)
  \/ Receive

(* The runtime runs a publication to its end; nobody is obliged to publish *)
(* or to receive.                                                          *)
Fairness == \A p \in Publisher : WF_vars(Step(p))

Spec == Init /\ [][Next]_vars /\ Fairness

-----------------------------------------------------------------------------

Task ==
  [pc : {"idle", "insert", "send", "gate", "scan", "evict"}, batch : BOOLEAN,
   events : SUBSET Nat, todo : SUBSET Nat, shard : Shard, len : Nat,
   snapshot : SUBSET Nat, victims : SUBSET Nat]

(* Types; every event at hand carries a stamp that was handed out. *)
TypeOK ==
  /\ next_sequence \in Nat
  /\ inserted \subseteq 0..(next_sequence - 1)
  /\ event_log \in [Shard -> SUBSET inserted]
  /\ task \in [Publisher -> Task]
  /\ \A p \in Publisher :
       /\ task[p].events \union task[p].todo \subseteq 0..(next_sequence - 1)
       /\ task[p].snapshot \union task[p].victims \subseteq inserted

Newer(e) == {f \in inserted : f > e}

(***************************************************************************)
(* Eviction removes the oldest only: an inserted event with fewer than     *)
(* EVENT_LOG_EVICT_TARGET newer ones is in the log, whatever evictors race *)
(* over stale lengths and snapshots.  So the log never falls below the     *)
(* target once it has reached it, and recent_events is complete.           *)
(***************************************************************************)
NewestKept ==
  \A e \in inserted :
    Cardinality(Newer(e)) < EVENT_LOG_EVICT_TARGET => e \in Logged

(***************************************************************************)
(* The channel carries no event twice, and the events of one batch in the  *)
(* order of the batch, whatever a full channel made it drop.               *)
(***************************************************************************)
StreamedInBatchOrder ==
  \A i, j \in DOMAIN channel.queue :
    LET a == channel.queue[i].value
        b == channel.queue[j].value
    IN  i < j /\ a.of = b.of => a.event < b.event

(***************************************************************************)
(* A log over capacity is trimmed.                                         *)
(***************************************************************************)
LogEventuallyTrimmed ==
  (Cardinality(Logged) > EVENT_LOG_CAPACITY) ~>
    (Cardinality(Logged) <= EVENT_LOG_CAPACITY)

=============================================================================
