--------------------------- MODULE DictionaryStore ---------------------------
(***************************************************************************)
(* InMemoryDictionaryStore: every session collects training samples until  *)
(* N_TRAIN are there, then one caller trains a dictionary from them.  The  *)
(* bytes of samples that wait or are being trained are counted in one      *)
(* process-wide atomic, which a periodic sweep evicts idle sessions from   *)
(* and then overwrites with the sum it read.                               *)
(*                                                                         *)
(* A session's state lives behind an Arc: callers go on using it after the *)
(* sweep has dropped it from the map.  So states have identities of their  *)
(* own, and `map` says which of them a session reaches.                    *)
(***************************************************************************)
EXTENDS Integers, FiniteSets, FiniteSetsExt, Totals

CONSTANTS
  Sessions,                  \* session identifiers
  Callers,                   \* concurrent calls of train_if_ready or register
  SampleSizes,               \* sizes of the samples offered
  N_TRAIN,                   \* samples that start a training
  MAX_TRAINING_SAMPLE_SIZE,  \* larger samples are skipped
  TOTAL_CORPUS_BYTE_BUDGET,  \* bound on the bytes reserved by all sessions
  SESSION_TTL,               \* idle time after which a state is evicted
  MaxStates,                 \* bound: states ever created
  MaxDetached,               \* bound: dropped trainings still running
  MaxTime                    \* bound: the clock

ASSUME DictionaryAssumption ==
  /\ IsFiniteSet(Sessions) /\ IsFiniteSet(Callers)
  /\ N_TRAIN \in Nat \ {0}
  /\ {TOTAL_CORPUS_BYTE_BUDGET, MAX_TRAINING_SAMPLE_SIZE, SESSION_TTL} \subseteq Nat
  /\ SampleSizes \subseteq Nat \ {0}
  /\ MaxStates \in Nat \ {0}
  /\ MaxDetached \in Nat

VARIABLES
  map,       \* session -> identity of its state, 0 when it has none
  states,    \* identity -> the state: corpus, dictionary cell, last access
  in_flight, \* corpus_bytes_in_flight
  calls,     \* the call each caller is in
  sweep,     \* the eviction pass under way
  now,       \* now_millis()
  drift,     \* history: whether a sweep ran while some call was under way
  detached   \* job -> bytes of its snapshot, for the trainings that go on in the
             \* blocking pool after their call was dropped; 0 when there is none

vars == <<map, states, in_flight, calls, sweep, now, drift, detached>>

StateIds == 1..MaxStates
Jobs == 1..MaxDetached
NoState == [used |-> FALSE, len |-> 0, pending |-> 0, locked |-> FALSE,
            cell |-> "empty", access |-> 0, served |-> 0]
NewState == [NoState EXCEPT !.used = TRUE, !.access = now]
NoCall == [pc |-> "idle", op |-> "none", id |-> 0, size |-> 0, reserved |-> 0]
NoSweep == [pc |-> "idle", now |-> 0, todo |-> {}, total |-> 0, disturbed |-> FALSE]

Init ==
  /\ map = [s \in Sessions |-> 0]
  /\ states = [i \in StateIds |-> NoState]
  /\ in_flight = 0
  /\ calls = [c \in Callers |-> NoCall]
  /\ sweep = NoSweep
  /\ now = 0
  /\ drift = "no"
  /\ detached = [j \in Jobs |-> 0]

Live == {map[s] : s \in Sessions} \ {0}
Idle(c) == calls[c].pc = "idle"
State(c) == states[calls[c].id]

\* A sweep during which a call runs may read the bytes of that call or miss
\* them; drift remembers that the last sweep, or an earlier one, was such.
Disturbs == sweep' = [sweep EXCEPT !.disturbed = @ \/ sweep.pc # "idle"]
Goto(c, pc) == calls' = [calls EXCEPT ![c].pc = pc]
Return(c) == calls' = [calls EXCEPT ![c] = NoCall]

SaturatingSub(m, n) == IF m >= n THEN m - n ELSE 0
release_corpus_bytes(amount) == in_flight' = SaturatingSub(in_flight, amount)
-----------------------------------------------------------------------------
(* session_state: the map's entry under its shard lock; the time stamp is    *)
(* written after the lock is released.                                       *)

session_state(c, s, op, size) ==
  /\ \E i \in StateIds :
       /\ \/ /\ map[s] # 0
             /\ i = map[s]
             /\ UNCHANGED <<map, states>>
          \/ /\ map[s] = 0
             /\ i = Min({j \in StateIds : ~states[j].used} \cup {MaxStates})
             /\ ~states[i].used
             /\ map' = [map EXCEPT ![s] = i]
             /\ states' = [states EXCEPT ![i] = NewState]
       /\ calls' = [calls EXCEPT ![c] =
            [NoCall EXCEPT !.pc = "found", !.op = op, !.id = i, !.size = size]]
  /\ UNCHANGED in_flight

TrainIfReady(c) ==
  /\ Idle(c)
  /\ \E s \in Sessions, z \in SampleSizes : session_state(c, s, "train", z)
  /\ Disturbs /\ UNCHANGED <<now, drift, detached>>

Register(c) ==
  /\ Idle(c)
  /\ \E s \in Sessions : session_state(c, s, "register", 0)
  /\ Disturbs /\ UNCHANGED <<now, drift, detached>>

\* OnceCell::set fails, and register ignores it, when the cell is set and also
\* while a training holds the cell.
RegisterSet(c) ==
  /\ calls[c].pc = "found" /\ calls[c].op = "register"
  /\ states' = [states EXCEPT ![calls[c].id] =
                   [@ EXCEPT !.access = now,
                             !.cell = IF State(c).cell = "empty" THEN "set" ELSE State(c).cell]]
  /\ Return(c) /\ Disturbs /\ UNCHANGED <<map, in_flight, now, drift, detached>>

\* The stamp, and the fast path of a session that has its dictionary.
Touch(c) ==
  /\ calls[c].pc = "found" /\ calls[c].op = "train"
  /\ states' = [states EXCEPT ![calls[c].id].access = now]
  /\ IF State(c).cell = "set" THEN Return(c) ELSE Goto(c, "lock")
  /\ Disturbs /\ UNCHANGED <<map, in_flight, now, drift, detached>>

\* The corpus mutex, and the reservation in the global counter.
Reserve(c) ==
  /\ calls[c].pc = "lock" /\ ~State(c).locked
  /\ states' = [states EXCEPT ![calls[c].id].locked = TRUE]
  /\ IF State(c).len < N_TRAIN /\ calls[c].size <= MAX_TRAINING_SAMPLE_SIZE
     THEN /\ in_flight' = in_flight + calls[c].size
          /\ Goto(c, IF in_flight' <= TOTAL_CORPUS_BYTE_BUDGET THEN "admit" ELSE "undo")
     ELSE Goto(c, "decide") /\ UNCHANGED in_flight
  /\ Disturbs /\ UNCHANGED <<map, now, drift, detached>>

Admit(c) ==
  /\ calls[c].pc = "admit"
  /\ states' = [states EXCEPT ![calls[c].id] =
                   [@ EXCEPT !.pending = State(c).pending + calls[c].size,
                             !.len = State(c).len + 1]]
  /\ Goto(c, "decide")
  /\ Disturbs /\ UNCHANGED <<map, in_flight, now, drift, detached>>

\* mutant: a refused sample is tried again with the corpus still locked.
Undo_Retries(c) ==
  /\ calls[c].pc = "undo"
  /\ release_corpus_bytes(calls[c].size)
  /\ Goto(c, "lock")
  /\ Disturbs /\ UNCHANGED <<map, states, now, drift, detached>>

Undo(c) ==
  /\ calls[c].pc = "undo"
  /\ release_corpus_bytes(calls[c].size)
  /\ Goto(c, "decide")
  /\ Disturbs /\ UNCHANGED <<map, states, now, drift, detached>>

\* Below the threshold the call ends; at it, the corpus and its reservation
\* are moved into the call and the mutex is released.
Decide(c) ==
  /\ calls[c].pc = "decide"
  /\ \/ /\ State(c).len < N_TRAIN
        /\ states' = [states EXCEPT ![calls[c].id].locked = FALSE]
        /\ Return(c)
     \/ /\ State(c).len >= N_TRAIN
        /\ calls' = [calls EXCEPT ![c] =
                        [@ EXCEPT !.pc = "init", !.reserved = State(c).pending]]
        /\ states' = [states EXCEPT ![calls[c].id] =
                         [@ EXCEPT !.locked = FALSE, !.pending = 0, !.len = 0]]
  /\ Disturbs /\ UNCHANGED <<map, in_flight, now, drift, detached>>

\* get_or_try_init: the cell is set already, or this caller is to fill it.
GetOrTryInit(c) ==
  /\ calls[c].pc = "init" /\ State(c).cell # "busy"
  /\ Goto(c, IF State(c).cell = "set" THEN "release" ELSE "training")
  /\ states' = [states EXCEPT ![calls[c].id].cell = IF @ = "empty" THEN "busy" ELSE @]
  /\ Disturbs /\ UNCHANGED <<map, in_flight, now, drift, detached>>

\* spawn_blocking and the detector's check: a failure leaves the cell empty.
Trained(c) ==
  /\ calls[c].pc = "training"
  /\ \E result \in {"set", "empty"} :
       states' = [states EXCEPT ![calls[c].id].cell = result]
  /\ Goto(c, "release")
  /\ Disturbs /\ UNCHANGED <<map, in_flight, now, drift, detached>>

\* Drop of CorpusBudgetReservation at the end of the call.
DropReservation(c) ==
  /\ calls[c].pc = "release"
  /\ release_corpus_bytes(calls[c].reserved)
  /\ Return(c)
  /\ Disturbs /\ UNCHANGED <<map, states, now, drift, detached>>

\* What the drop of a call leaves behind: a cell that was being filled is free
\* again, but spawn_blocking is not cancelled with the future that awaits it.
\* The training runs on, its snapshot in memory, and its result is lost.
Abandon(c) ==
  \/ /\ calls[c].pc \in {"lock", "init"}
     /\ UNCHANGED <<states, detached>>
  \/ /\ calls[c].pc = "training"
     /\ states' = [states EXCEPT ![calls[c].id].cell = "empty"]
     /\ \E j \in Jobs :
          /\ detached[j] = 0
          /\ detached' = [detached EXCEPT ![j] = calls[c].reserved]

\* mutant: the release stands after the await instead of in a guard.
Cancel_NoGuard(c) ==
  /\ Abandon(c)
  /\ Return(c)
  /\ Disturbs /\ UNCHANGED <<map, in_flight, now, drift>>

\* The future is dropped at an await: for the mutex, for the cell, for the
\* training.  The guard returns the reserved bytes at once.
Cancel(c) ==
  /\ Abandon(c)
  /\ release_corpus_bytes(calls[c].reserved)
  /\ Return(c)
  /\ Disturbs /\ UNCHANGED <<map, now, drift>>

\* The blocking pool is done with a training that nobody awaits any more.
DetachedEnds(j) ==
  /\ detached[j] # 0
  /\ detached' = [detached EXCEPT ![j] = 0]
  /\ UNCHANGED <<map, states, in_flight, calls, sweep, now, drift>>

\* mutant: reads do not count as use.
GetDictionary_NoBump(s) ==
  /\ map[s] # 0 /\ states[map[s]].cell = "set"
  /\ states' = [states EXCEPT ![map[s]].served = now]
  /\ UNCHANGED <<map, in_flight, calls, sweep, now, drift, detached>>

\* A dictionary is served: the read refreshes the time stamp.  (A read that
\* finds none changes nothing.)
GetDictionary(s) ==
  /\ map[s] # 0 /\ states[map[s]].cell = "set"
  /\ states' = [states EXCEPT ![map[s]] = [@ EXCEPT !.access = now, !.served = now]]
  /\ UNCHANGED <<map, in_flight, calls, sweep, now, drift, detached>>
-----------------------------------------------------------------------------
(* evict_expired_sessions: retain, then sum, then store, an entry at a time. *)

BeginSweep ==
  /\ sweep.pc = "idle"
  /\ sweep' = [pc |-> "retain", now |-> now, todo |-> Sessions, total |-> 0,
               disturbed |-> \E c \in Callers : ~Idle(c)]
  /\ UNCHANGED <<map, states, in_flight, calls, now, drift, detached>>

Expired(i) == SaturatingSub(sweep.now, states[i].access) >= SESSION_TTL

Retain(s) ==
  /\ sweep.pc = "retain" /\ s \in sweep.todo
  /\ map' = [map EXCEPT ![s] = IF @ # 0 /\ Expired(@) THEN 0 ELSE @]
  /\ sweep' = [sweep EXCEPT !.todo = IF @ = {s} THEN Sessions ELSE @ \ {s},
                            !.pc = IF sweep.todo = {s} THEN "sum" ELSE @]
  /\ UNCHANGED <<states, in_flight, calls, now, drift, detached>>

SumEntry(s) ==
  /\ sweep.pc = "sum" /\ s \in sweep.todo
  /\ sweep' = [sweep EXCEPT !.todo = @ \ {s},
                            !.total = @ + (IF map[s] = 0 THEN 0 ELSE states[map[s]].pending),
                            !.pc = IF sweep.todo = {s} THEN "store" ELSE @]
  /\ UNCHANGED <<map, states, in_flight, calls, now, drift, detached>>

Resync ==
  /\ sweep.pc = "store"
  /\ in_flight' = sweep.total
  /\ drift' = IF sweep.disturbed THEN "now" ELSE IF drift = "no" THEN "no" ELSE "past"
  /\ sweep' = NoSweep
  /\ UNCHANGED <<map, states, calls, now, detached>>

Tick == now < MaxTime /\ now' = now + 1 /\ UNCHANGED <<map, states, in_flight, calls, sweep, drift, detached>>

\* The steps of a call, after the one that starts it.
Step(c) == \/ RegisterSet(c) \/ Touch(c) \/ Reserve(c) \/ Admit(c) \/ Undo(c) \/ Decide(c)
           \/ GetOrTryInit(c) \/ Trained(c) \/ DropReservation(c)

Next ==
  \/ \E c \in Callers : TrainIfReady(c) \/ Register(c) \/ Step(c) \/ Cancel(c)
  \/ \E s \in Sessions : GetDictionary(s) \/ Retain(s) \/ SumEntry(s)
  \/ BeginSweep \/ Resync
  \/ \E j \in Jobs : DetachedEnds(j)
  \/ Tick

\* The runtime polls a call that can run; the corpus mutex and the cell hand
\* over in the order of arrival, so a waiting call is not passed over for ever.
Spec == Init /\ [][Next]_vars /\ \A c \in Callers : SF_vars(Step(c))
-----------------------------------------------------------------------------
\* The bytes that callers hold: a reservation not yet settled, or a snapshot.
Transient(c) == IF calls[c].pc \in {"admit", "undo"} THEN calls[c].size ELSE calls[c].reserved
Held == Total([i \in Live |-> states[i].pending])

\* The sample bytes in memory: corpora, the snapshots that calls hold, and
\* those of trainings whose call was dropped, which nothing counts.
LiveBytes == Held + Total([c \in Callers |-> calls[c].reserved]) + Total(detached)

\* Every reserved byte is returned exactly once, whether a training succeeds,
\* fails or is dropped half way, and a sweep that no call disturbs restores
\* the count: outside sweeps, and unless the last sweep overlapped a call, the
\* counter is the sum of all reservations.  Until a sweep has overlapped a call
\* (one that missed the bytes of a call lets others in, and the bytes are there
\* to stay) the bytes in memory exceed the budget at most by the snapshots of
\* dropped trainings: CorpusBudgetReservation releases those while
\* spawn_blocking still works on them.
BudgetSelfHeals ==
  sweep.pc = "idle" =>
     /\ drift # "now" => in_flight = Held + Total([c \in Callers |-> Transient(c)])
     /\ drift = "no" => LiveBytes <= TOTAL_CORPUS_BYTE_BUDGET + Total(detached)

\* A sweep never evicts a session whose dictionary was served within the TTL,
\* however the sweep's clock reading and the read interleave.
ServedNotEvicted ==
  [][\A s \in Sessions :
       (map[s] # 0 /\ map'[s] = 0 /\ states[map[s]].served > 0)
         => now - states[map[s]].served >= SESSION_TTL]_vars

\* Two callers of one session that both reach the threshold, fail or are
\* dropped do not leave a third waiting for the mutex or the cell.
CallsEnd == \A c \in Callers : calls[c].pc = "lock" ~> calls[c].pc = "idle"

=============================================================================
