------------------------ MODULE EventPublisher_proofs ------------------------
(***************************************************************************)
(* Eviction by racing publishers removes the oldest events only, and the   *)
(* channel carries the events of a batch in its order.                     *)
(***************************************************************************)
EXTENDS EventPublisher, FiniteSetTheorems, TLAPS

(* e has enough newer events to be evicted. *)
Old(e) == Cardinality(Newer(e)) >= EVENT_LOG_EVICT_TARGET

(***************************************************************************)
(* What has left the log, and what an evictor is about to remove, is old.  *)
(* An evictor decides on a snapshot, and a snapshot contains inserted      *)
(* events only: the events newer than a victim in the snapshot are among   *)
(* those newer than it in the history.                                     *)
(***************************************************************************)
PublisherInv ==
  /\ TypeOK
  /\ IsFiniteSet(inserted)
  /\ \A e \in inserted : e \in Logged \/ Old(e)
  /\ \A p \in Publisher : \A e \in task[p].victims : Old(e)

(* A new task has its type. *)
LEMMA IdleTask == Idle \in Task
  BY LogAssumption DEF Idle, Task, Shard

(* A subset of a finite set of inserted events has a cardinality. *)
LEMMA FinitePart ==
  ASSUME NEW T, IsFiniteSet(T), NEW S \in SUBSET T
  PROVE  IsFiniteSet(S) /\ Cardinality(S) \in Nat /\ Cardinality(S) <= Cardinality(T)
  BY FS_Subset, FS_CardinalityType

(* An event stays old when others are inserted. *)
LEMMA OldStaysOld ==
  ASSUME PublisherInv, NEW e, Old(e), inserted \subseteq inserted', IsFiniteSet(inserted')
  PROVE  Old(e)'
<1>1. /\ Newer(e) \subseteq Newer(e)'
      /\ Newer(e) \subseteq inserted
      /\ Newer(e)' \subseteq inserted'
  BY DEF Newer
<1>2. Cardinality(Newer(e)) <= Cardinality(Newer(e)')
  BY <1>1, FinitePart
<1>3. Cardinality(Newer(e)) \in Nat /\ Cardinality(Newer(e)') \in Nat
  BY <1>1, FinitePart DEF PublisherInv
<1> QED
  BY <1>2, <1>3, LogAssumption DEF Old

(* The victims of a snapshot of inserted events are old. *)
LEMMA VictimsAreOld ==
  ASSUME PublisherInv, NEW t \in Task, t.snapshot \subseteq inserted,
         NEW e \in Victims(t)
  PROVE  Old(e) /\ e \in t.snapshot
<1> DEFINE seen == {f \in t.snapshot : f > e}
<1>1. e \in t.snapshot /\ Cardinality(seen) >= EVENT_LOG_EVICT_TARGET
  BY DEF Victims
<1>2. seen \subseteq Newer(e) /\ Newer(e) \subseteq inserted
  BY DEF Newer
<1>3. IsFiniteSet(Newer(e)) /\ Cardinality(Newer(e)) \in Nat
  BY <1>2, FinitePart DEF PublisherInv
<1>4. Cardinality(seen) <= Cardinality(Newer(e)) /\ Cardinality(seen) \in Nat
  BY <1>2, <1>3, FinitePart
<1> QED
  BY <1>1, <1>3, <1>4, LogAssumption DEF Old

(* What the eviction goes on to is a task without victims. *)
LEMMA EvictedTask ==
  ASSUME NEW t \in Task
  PROVE  /\ Evicted(t) \in Task
         /\ Evicted(t).snapshot = {} /\ Evicted(t).victims = {}
         /\ Evicted(t).todo \subseteq t.events
  BY IdleTask DEF Evicted, Idle, Task

(* A publisher without events satisfies the invariant. *)
LEMMA InitInv == Init => PublisherInv
<1> SUFFICES ASSUME Init PROVE PublisherInv
  OBVIOUS
<1>1. TypeOK
  BY IdleTask DEF Init, TypeOK, Idle
<1>2. IsFiniteSet(inserted)
  BY FS_EmptySet DEF Init
<1> QED
  BY <1>1, <1>2 DEF Init, PublisherInv, Idle

(* Intervals grow with their bound. *)
LEMMA WiderInterval ==
  ASSUME NEW m \in Nat, NEW n \in Nat, m <= n
  PROVE  0..(m - 1) \subseteq 0..(n - 1)
  OBVIOUS

(* A step that changes one task and nothing the invariant reads of the map. *)
LEMMA TaskStepInv ==
  ASSUME PublisherInv, NEW p \in Publisher, NEW t \in Task,
         task' = [task EXCEPT ![p] = t],
         t.events \union t.todo \subseteq 0..(next_sequence' - 1),
         next_sequence' \in Nat, next_sequence <= next_sequence',
         t.snapshot \union t.victims \subseteq inserted,
         \A e \in t.victims : Old(e),
         UNCHANGED <<event_log, inserted>>
  PROVE  PublisherInv'
<1>1. TypeOK'
  <2>1. /\ next_sequence \in Nat
        /\ inserted \subseteq 0..(next_sequence - 1)
        /\ event_log \in [Shard -> SUBSET inserted]
        /\ task \in [Publisher -> Task]
        /\ \A q \in Publisher :
             /\ task[q].events \union task[q].todo \subseteq 0..(next_sequence - 1)
             /\ task[q].snapshot \union task[q].victims \subseteq inserted
    BY DEF PublisherInv, TypeOK
  <2>2. 0..(next_sequence - 1) \subseteq 0..(next_sequence' - 1)
    BY <2>1, WiderInterval
  <2>3. task' \in [Publisher -> Task]
    BY <2>1
  <2>4. \A q \in Publisher : task'[q] = IF q = p THEN t ELSE task[q]
    BY <2>1
  <2>5. \A q \in Publisher :
          /\ task'[q].events \union task'[q].todo \subseteq 0..(next_sequence' - 1)
          /\ task'[q].snapshot \union task'[q].victims \subseteq inserted
    BY <2>1, <2>2, <2>4
  <2>6. inserted \subseteq 0..(next_sequence' - 1)
    BY <2>1, <2>2
  <2> QED
    BY <2>1, <2>3, <2>5, <2>6 DEF TypeOK
<1>2. Logged' = Logged /\ \A e : Old(e)' = Old(e)
  BY DEF Logged, Old, Newer
<1> QED
  BY <1>1, <1>2 DEF PublisherInv, TypeOK

(* The same for a step that stamps nothing. *)
LEMMA LocalStepInv ==
  ASSUME PublisherInv, NEW p \in Publisher, NEW t \in Task,
         task' = [task EXCEPT ![p] = t],
         t.events \union t.todo \subseteq 0..(next_sequence - 1),
         t.snapshot \union t.victims \subseteq inserted,
         \A e \in t.victims : Old(e),
         UNCHANGED <<event_log, inserted, next_sequence>>
  PROVE  PublisherInv'
<1>1. next_sequence' \in Nat /\ next_sequence <= next_sequence'
  BY DEF PublisherInv, TypeOK
<1>2. t.events \union t.todo \subseteq 0..(next_sequence' - 1)
  OBVIOUS
<1> QED
  BY <1>1, <1>2, TaskStepInv

-----------------------------------------------------------------------------
(* The actions. *)

(* Stamping: the new events are above every event stamped before. *)
LEMMA BeginInv ==
  ASSUME PublisherInv, NEW p \in Publisher, NEW n \in Nat, NEW batch \in BOOLEAN,
         Begin(p, n, batch)
  PROVE  PublisherInv'
<1> DEFINE events == next_sequence..(next_sequence + n - 1)
           t == [Idle EXCEPT !.pc = IF n = 0 THEN "gate" ELSE "insert",
                             !.batch = batch, !.events = events, !.todo = events]
<1>1. next_sequence \in Nat
  BY DEF PublisherInv, TypeOK
<1>2. /\ next_sequence' = next_sequence + n
      /\ task' = [task EXCEPT ![p] = t]
      /\ UNCHANGED <<event_log, inserted>>
  BY DEF Begin
<1>3. events \subseteq Nat /\ events \subseteq 0..(next_sequence' - 1)
  BY <1>1, <1>2
<1>4. t \in Task
  BY <1>3, IdleTask DEF Task
<1>5. t.events = events /\ t.todo = events /\ t.snapshot = {} /\ t.victims = {}
  BY DEF Idle
<1>6. next_sequence' \in Nat /\ next_sequence <= next_sequence'
  BY <1>1, <1>2
<1> HIDE DEF t, events
<1> QED
  BY <1>2, <1>3, <1>4, <1>5, <1>6, TaskStepInv

(* Sending touches the channel and what is left to send. *)
LEMMA SendInv ==
  ASSUME PublisherInv, NEW p \in Publisher, NEW bytes, Send(p, bytes)
  PROVE  PublisherInv'
<1> DEFINE t == task[p]
           rest == t.todo \ {Min(t.todo)}
<1>1. /\ next_sequence \in Nat /\ t \in Task
      /\ t.events \union t.todo \subseteq 0..(next_sequence - 1)
      /\ t.snapshot \union t.victims \subseteq inserted
      /\ \A e \in t.victims : Old(e)
  BY DEF PublisherInv, TypeOK
<1>2. PICK u : /\ task' = [task EXCEPT ![p] = u]
               /\ u \in {[t EXCEPT !.todo = rest], [t EXCEPT !.todo = {}, !.pc = "gate"], Idle}
  BY DEF Send
<1>3. UNCHANGED <<event_log, inserted, next_sequence>>
  BY DEF Send
<1>4. /\ u \in Task
      /\ u.events \union u.todo \subseteq 0..(next_sequence - 1)
      /\ u.snapshot \union u.victims \subseteq inserted
      /\ \A e \in u.victims : Old(e)
  <2>1. CASE u = [t EXCEPT !.todo = rest]
    BY <1>1, <2>1 DEF Task
  <2>2. CASE u = [t EXCEPT !.todo = {}, !.pc = "gate"]
    BY <1>1, <2>2 DEF Task
  <2>3. CASE u = Idle
    BY <2>3, IdleTask DEF Idle
  <2> QED
    BY <1>2, <2>1, <2>2, <2>3
<1> QED
  BY <1>2, <1>3, <1>4, LocalStepInv

(* What follows an eviction that removes nothing more. *)
LEMMA EvictedOK ==
  ASSUME PublisherInv, NEW p \in Publisher
  PROVE  LET u == Evicted(task[p])
         IN  /\ u \in Task
             /\ u.events \union u.todo \subseteq 0..(next_sequence - 1)
             /\ u.snapshot = {} /\ u.victims = {}
<1> DEFINE t == task[p]
           u == Evicted(t)
<1>1. t \in Task /\ t.events \subseteq 0..(next_sequence - 1)
  BY DEF PublisherInv, TypeOK
<1>2. CASE t.batch
  BY <1>2, IdleTask DEF Evicted, Idle
<1>3. CASE ~t.batch
  BY <1>1, <1>3, IdleTask DEF Evicted, Idle, Task
<1> QED
  BY <1>2, <1>3

(* The gate reads lengths. *)
LEMMA GateInv ==
  ASSUME PublisherInv, NEW p \in Publisher, Gate(p)
  PROVE  PublisherInv'
<1> DEFINE t == task[p]
           len == t.len + Cardinality(event_log[t.shard])
<1>1. /\ next_sequence \in Nat /\ t \in Task
      /\ t.events \union t.todo \subseteq 0..(next_sequence - 1)
      /\ t.snapshot \union t.victims \subseteq inserted
      /\ \A e \in t.victims : Old(e)
      /\ event_log[t.shard] \subseteq inserted
  BY DEF PublisherInv, TypeOK, Task
<1>2. len \in Nat
  BY <1>1, FinitePart DEF PublisherInv, Task
<1>3. PICK u : /\ task' = [task EXCEPT ![p] = u]
               /\ \/ u = [t EXCEPT !.len = len, !.shard = @ + 1] /\ ~LastShard(t)
                  \/ u = [t EXCEPT !.len = len, !.shard = 1, !.pc = "scan"]
                  \/ u = Evicted(t)
  BY DEF Gate
<1>4. UNCHANGED <<event_log, inserted, next_sequence>>
  BY DEF Gate
<1>5. /\ u \in Task
      /\ u.events \union u.todo \subseteq 0..(next_sequence - 1)
      /\ u.snapshot \union u.victims \subseteq inserted
      /\ \A e \in u.victims : Old(e)
  <2> HIDE DEF t, len
  <2>1. CASE u = [t EXCEPT !.len = len, !.shard = @ + 1] /\ ~LastShard(t)
    <3>1. t.shard + 1 \in Shard
      BY <1>1, <2>1, LogAssumption DEF Task, Shard, LastShard
    <3> QED
      BY <1>1, <1>2, <2>1, <3>1 DEF Task
  <2>2. CASE u = [t EXCEPT !.len = len, !.shard = 1, !.pc = "scan"]
    <3>1. 1 \in Shard
      BY LogAssumption DEF Shard
    <3> QED
      BY <1>1, <1>2, <2>2, <3>1 DEF Task
  <2>3. CASE u = Evicted(t)
    BY <2>3, EvictedOK DEF t
  <2> QED
    BY <1>3, <2>1, <2>2, <2>3
<1> QED
  BY <1>3, <1>4, <1>5, LocalStepInv

(* A scan adds stored events to the snapshot; the cut takes old ones. *)
LEMMA ScanInv ==
  ASSUME PublisherInv, NEW p \in Publisher, Scan(p)
  PROVE  PublisherInv'
<1> DEFINE t0 == task[p]
           t == [task[p] EXCEPT !.snapshot = @ \union event_log[task[p].shard]]
<1>1. /\ t0 \in Task
      /\ t0.events \union t0.todo \subseteq 0..(next_sequence - 1)
      /\ t0.snapshot \union t0.victims \subseteq inserted
      /\ \A e \in t0.victims : Old(e)
      /\ event_log[t0.shard] \subseteq inserted
      /\ inserted \subseteq Nat
  BY DEF PublisherInv, TypeOK, Task
<1>2. /\ t \in Task /\ t.events = t0.events /\ t.todo = t0.todo
      /\ t.snapshot \subseteq inserted /\ t.victims = t0.victims
      /\ t.batch = t0.batch
  BY <1>1 DEF Task
<1>3. PICK u : /\ task' = [task EXCEPT ![p] = u]
               /\ \/ u = [t EXCEPT !.shard = @ + 1] /\ ~LastShard(t)
                  \/ u = Evicted(t)
                  \/ u = [t EXCEPT !.pc = "evict", !.victims = Victims(t),
                                   !.snapshot = {}, !.len = 0, !.shard = 1]
  BY DEF Scan
<1>4. UNCHANGED <<event_log, inserted, next_sequence>>
  BY DEF Scan
<1>5. Evicted(t) = Evicted(t0)
  BY <1>2 DEF Evicted
<1>6. Victims(t) \subseteq inserted /\ \A e \in Victims(t) : Old(e)
  BY <1>2, VictimsAreOld
<1>7. /\ u \in Task
      /\ u.events \union u.todo \subseteq 0..(next_sequence - 1)
      /\ u.snapshot \union u.victims \subseteq inserted
      /\ \A e \in u.victims : Old(e)
  <2>1. CASE u = Evicted(t)
    BY <1>5, <2>1, EvictedOK
  <2> HIDE DEF t, t0
  <2>2. CASE u = [t EXCEPT !.shard = @ + 1] /\ ~LastShard(t)
    <3>1. t.shard + 1 \in Shard
      BY <1>2, <2>2, LogAssumption DEF Task, Shard, LastShard
    <3> QED
      BY <1>1, <1>2, <2>2, <3>1 DEF Task
  <2>3. CASE u = [t EXCEPT !.pc = "evict", !.victims = Victims(t),
                           !.snapshot = {}, !.len = 0, !.shard = 1]
    <3>1. 1 \in Shard
      BY LogAssumption DEF Shard
    <3>2. Victims(t) \subseteq Nat
      BY <1>1, <1>6
    <3> QED
      BY <1>1, <1>2, <1>6, <2>3, <3>1, <3>2 DEF Task
  <2> QED
    BY <1>3, <2>1, <2>2, <2>3
<1> QED
  BY <1>3, <1>4, <1>7, LocalStepInv

(* An insertion adds the event to the log and to the history at once. *)
LEMMA InsertInv ==
  ASSUME PublisherInv, NEW p \in Publisher, NEW e \in task[p].todo, NEW s \in Shard,
         Insert(p, e, s)
  PROVE  PublisherInv'
<1> DEFINE t == task[p]
           rest == t.todo \ {e}
           u == [t EXCEPT !.todo = IF rest = {} THEN t.events ELSE rest,
                          !.pc = IF rest = {} THEN (IF t.batch THEN "send" ELSE "gate")
                                 ELSE "insert"]
<1>1. /\ next_sequence \in Nat
      /\ inserted \subseteq 0..(next_sequence - 1)
      /\ event_log \in [Shard -> SUBSET inserted]
      /\ task \in [Publisher -> Task]
      /\ \A q \in Publisher :
           /\ task[q].events \union task[q].todo \subseteq 0..(next_sequence - 1)
           /\ task[q].snapshot \union task[q].victims \subseteq inserted
      /\ \A q \in Publisher : \A v \in task[q].victims : Old(v)
      /\ \A f \in inserted : f \in Logged \/ Old(f)
      /\ IsFiniteSet(inserted)
  BY DEF PublisherInv, TypeOK
<1>2. /\ event_log' = [event_log EXCEPT ![s] = @ \union {e}]
      /\ inserted' = inserted \union {e}
      /\ next_sequence' = next_sequence
  BY DEF Insert
<1>3. task' = [task EXCEPT ![p] = u]
  BY <1>1 DEF Insert
<1>4. t \in Task /\ u \in Task
  BY <1>1 DEF Task
<1>5. /\ u.events = t.events /\ u.todo \subseteq t.events \union t.todo
      /\ u.snapshot = t.snapshot /\ u.victims = t.victims
  BY <1>4 DEF Task
<1>6. IsFiniteSet(inserted') /\ inserted \subseteq inserted'
  BY <1>1, <1>2, FS_AddElement
<1>7. \A v : Old(v) => Old(v)'
  BY <1>6, OldStaysOld
<1> HIDE DEF u
<1>8. \A q \in Publisher : task'[q] = IF q = p THEN u ELSE task[q]
  BY <1>1, <1>3
<1>9. TypeOK'
  <2>1. task' \in [Publisher -> Task]
    BY <1>1, <1>3, <1>4
  <2>2. event_log' \in [Shard -> SUBSET inserted']
    BY <1>1, <1>2, <1>6
  <2>3. inserted' \subseteq 0..(next_sequence' - 1)
    BY <1>1, <1>2
  <2>4. \A q \in Publisher :
          /\ task'[q].events \union task'[q].todo \subseteq 0..(next_sequence' - 1)
          /\ task'[q].snapshot \union task'[q].victims \subseteq inserted'
    BY <1>1, <1>2, <1>5, <1>6, <1>8
  <2> QED
    BY <1>1, <1>2, <2>1, <2>2, <2>3, <2>4 DEF TypeOK
<1>10. \A f \in inserted' : f \in Logged' \/ Old(f)'
  <2>1. Logged \union {e} \subseteq Logged'
    BY <1>1, <1>2 DEF Logged
  <2> QED
    BY <1>1, <1>2, <1>7, <2>1
<1>11. \A q \in Publisher : \A v \in task'[q].victims : Old(v)'
  BY <1>1, <1>5, <1>7, <1>8
<1> QED
  BY <1>6, <1>9, <1>10, <1>11 DEF PublisherInv

(* A non-empty set of naturals has the minimum that Min names. *)
LEMMA MinOfNaturals ==
  ASSUME NEW S \in SUBSET Nat, S # {}
  PROVE  Min(S) \in S /\ \A y \in S : Min(S) <= y
<1>1. PICK x \in S : \A y \in S : ~(<<y, x>> \in OpToRel(<, Nat))
  BY WFMin, NatLessThanWellFounded
<1>2. \A y \in S : x <= y
  <2> SUFFICES ASSUME NEW y \in S, y < x
               PROVE  FALSE
    OBVIOUS
  <2>1. <<y, x>> \in Nat \X Nat
    OBVIOUS
  <2>2. <<y, x>> \in {ss \in Nat \X Nat : ss[1] < ss[2]}
    BY <2>1
  <2> QED
    BY <1>1, <2>2 DEF OpToRel
<1> QED
  BY <1>2 DEF Min

(* A removal takes a victim, which is old. *)
LEMMA EvictInv ==
  ASSUME PublisherInv, NEW p \in Publisher, Evict(p)
  PROVE  PublisherInv'
<1> DEFINE t == task[p]
           e == Min(t.victims)
           rest == t.victims \ {e}
<1>1. /\ next_sequence \in Nat
      /\ inserted \subseteq 0..(next_sequence - 1)
      /\ event_log \in [Shard -> SUBSET inserted]
      /\ task \in [Publisher -> Task]
      /\ \A q \in Publisher :
           /\ task[q].events \union task[q].todo \subseteq 0..(next_sequence - 1)
           /\ task[q].snapshot \union task[q].victims \subseteq inserted
      /\ \A q \in Publisher : \A v \in task[q].victims : Old(v)
      /\ \A f \in inserted : f \in Logged \/ Old(f)
      /\ IsFiniteSet(inserted)
  BY DEF PublisherInv, TypeOK
<1>2. /\ event_log' = [s \in Shard |-> event_log[s] \ {e}]
      /\ inserted' = inserted /\ next_sequence' = next_sequence
      /\ t.victims # {}
  BY DEF Evict
<1>3. PICK u : /\ task' = [task EXCEPT ![p] = u]
               /\ u = Evicted(t) \/ u = [t EXCEPT !.victims = rest]
  BY DEF Evict
<1>4. t \in Task /\ t.victims \subseteq Nat
  BY <1>1 DEF Task
<1>5. e \in t.victims
  BY <1>2, <1>4, MinOfNaturals
<1>6. /\ u \in Task
      /\ u.events \union u.todo \subseteq 0..(next_sequence - 1)
      /\ u.snapshot \union u.victims \subseteq inserted
      /\ \A v \in u.victims : Old(v)
  <2>1. CASE u = Evicted(t)
    BY <2>1, EvictedOK
  <2> HIDE DEF t, e
  <2>2. CASE u = [t EXCEPT !.victims = rest]
    <3>1. /\ t.events \union t.todo \subseteq 0..(next_sequence - 1)
          /\ t.snapshot \union t.victims \subseteq inserted
          /\ \A v \in t.victims : Old(v)
      BY <1>1 DEF t
    <3> QED
      BY <1>4, <2>2, <3>1 DEF Task
  <2> QED
    BY <1>3, <2>1, <2>2
<1>7. \A v : Old(v)' = Old(v)
  BY <1>2 DEF Old, Newer
<1>8. \A q \in Publisher : task'[q] = IF q = p THEN u ELSE task[q]
  BY <1>1, <1>3
<1>9. TypeOK'
  <2>1. task' \in [Publisher -> Task]
    BY <1>1, <1>3, <1>6
  <2>2. event_log' \in [Shard -> SUBSET inserted']
    BY <1>1, <1>2
  <2>3. \A q \in Publisher :
          /\ task'[q].events \union task'[q].todo \subseteq 0..(next_sequence - 1)
          /\ task'[q].snapshot \union task'[q].victims \subseteq inserted
    BY <1>1, <1>6, <1>8
  <2> QED
    BY <1>1, <1>2, <2>1, <2>2, <2>3 DEF TypeOK
<1>10. \A f \in inserted : f \in Logged' \/ Old(f)
  <2>1. Logged \ {e} \subseteq Logged'
    BY <1>1, <1>2 DEF Logged
  <2>2. Old(e)
    BY <1>1, <1>5
  <2> QED
    BY <1>1, <2>1, <2>2
<1> QED
  BY <1>1, <1>2, <1>6, <1>7, <1>8, <1>9, <1>10 DEF PublisherInv

-----------------------------------------------------------------------------

(* Every step of a publisher, and the consumer, preserves the invariant. *)
LEMMA NextInv == PublisherInv /\ [Next]_vars => PublisherInv'
<1> SUFFICES ASSUME PublisherInv, [Next]_vars PROVE PublisherInv'
  OBVIOUS
<1>1. CASE \E p \in Publisher : Publish(p)
  BY <1>1, BeginInv DEF Publish
<1>2. CASE \E p \in Publisher, n \in 0..MaxBatch : PublishBatch(p, n)
  <2>1. \A n \in 0..MaxBatch : n \in Nat
    BY BatchAssumption
  <2> QED
    BY <1>2, <2>1, BeginInv DEF PublishBatch
<1>3. CASE \E p \in Publisher : Step(p)
  BY <1>3, InsertInv, SendInv, GateInv, ScanInv, EvictInv DEF Step
<1>4. CASE Receive \/ UNCHANGED vars
  <2>1. UNCHANGED <<event_log, next_sequence, inserted, task>>
    BY <1>4 DEF Receive, vars
  <2>2. TypeOK' /\ Logged' = Logged /\ \A e : Old(e)' = Old(e)
    BY <2>1 DEF PublisherInv, TypeOK, Logged, Old, Newer
  <2> QED
    BY <2>1, <2>2 DEF PublisherInv
<1> QED
  BY <1>1, <1>2, <1>3, <1>4 DEF Next

(* Every reachable state satisfies the inductive invariant. *)
THEOREM PublisherInvariance == Spec => []PublisherInv
  BY InitInv, NextInv, PTL DEF Spec

(* Stamps, log, snapshots and victims keep their types: no snapshot holds  *)
(* an event that was never inserted.                                       *)
THEOREM PublisherTypeCorrect == Spec => []TypeOK
<1>1. PublisherInv => TypeOK
  BY DEF PublisherInv
<1> QED
  BY <1>1, PublisherInvariance, PTL

(* However many publishers race, whatever the capacity, the target and the *)
(* shards: the EVENT_LOG_EVICT_TARGET newest inserted events are stored.   *)
THEOREM NewestKeptCorrect == Spec => []NewestKept
<1>1. PublisherInv => NewestKept
  <2> SUFFICES ASSUME PublisherInv, NEW e \in inserted,
                      Cardinality(Newer(e)) < EVENT_LOG_EVICT_TARGET
               PROVE  e \in Logged
    BY DEF NewestKept
  <2>1. Cardinality(Newer(e)) \in Nat
    <3>1. Newer(e) \subseteq inserted
      BY DEF Newer
    <3> QED
      BY <3>1, FinitePart DEF PublisherInv
  <2> QED
    BY <2>1, LogAssumption DEF PublisherInv, Old
<1> QED
  BY <1>1, PublisherInvariance, PTL

-----------------------------------------------------------------------------
(* The order of the channel. *)

Streamed == [value : [event : Nat, of : SUBSET Nat], len : Nat, permit : Nat]
Streaming == [queue : Seq(Streamed), free : Int, open : BOOLEAN]

(* A publication before its first try_send, and until its last. *)
BeforeSend(t) == t.pc = "insert" \/ (t.pc \in {"gate", "scan", "evict"} /\ ~t.batch)
Unsent(t) == BeforeSend(t) \/ t.pc = "send"

Queued(i) == channel.queue[i].value

(* What is queued was stamped, as part of its batch. *)
QueuedStamped ==
  \A i \in DOMAIN channel.queue : /\ Queued(i).event \in Queued(i).of
                                  /\ Queued(i).of \subseteq 0..(next_sequence - 1)

(***************************************************************************)
(* Of a batch that was not sent yet the queue has nothing; of one that is  *)
(* being sent it has only what comes before the rest.                      *)
(***************************************************************************)
Ahead(t) ==
  /\ Unsent(t) => t.events # {}
  /\ BeforeSend(t) => \A i \in DOMAIN channel.queue : Queued(i).of # t.events
  /\ t.pc = "send" =>
       /\ t.todo # {} /\ t.todo \subseteq t.events
       /\ \A i \in DOMAIN channel.queue : Queued(i).of = t.events => \A e \in t.todo : Queued(i).event < e

(* No two publications have the same batch. *)
OwnBatch ==
  \A p, q \in Publisher :
    Unsent(task[p]) /\ Unsent(task[q]) /\ task[p].events = task[q].events => p = q

OrderInv ==
  /\ channel \in Streaming
  /\ QueuedStamped
  /\ StreamedInBatchOrder
  /\ \A p \in Publisher : Ahead(task[p])
  /\ OwnBatch

(* A publisher goes on without touching the channel, and sends nothing twice. *)
LEMMA QuietOrder ==
  ASSUME PublisherInv, OrderInv, NEW p \in Publisher, NEW t, task' = [task EXCEPT ![p] = t],
         UNCHANGED channel, next_sequence' \in Nat, next_sequence <= next_sequence',
         Unsent(t) => Unsent(task[p]) /\ t.events = task[p].events,
         BeforeSend(t) => BeforeSend(task[p]),
         t.pc = "send" => BeforeSend(task[p]) /\ t.todo = t.events
  PROVE  OrderInv'
<1>1. /\ task'[p] = t /\ \A q \in Publisher : q # p => task'[q] = task[q]
  BY DEF PublisherInv, TypeOK
<1>2. /\ next_sequence \in Nat /\ \A i : Queued(i)' = Queued(i)
      /\ 0..(next_sequence - 1) \subseteq 0..(next_sequence' - 1)
  BY WiderInterval DEF PublisherInv, TypeOK, Queued
<1>3. channel' \in Streaming /\ QueuedStamped' /\ StreamedInBatchOrder'
  <2>1. channel' \in Streaming /\ StreamedInBatchOrder'
    BY DEF OrderInv, StreamedInBatchOrder
  <2>2. QueuedStamped'
    BY <1>2 DEF OrderInv, QueuedStamped
  <2> QED
    BY <2>1, <2>2
<1>4. \A q \in Publisher : q # p => Ahead(task[q])'
  BY <1>1, <1>2 DEF OrderInv, Ahead
<1>5. Ahead(task[p])'
  <2>1. Ahead(task[p])
    BY DEF OrderInv
  <2>2. Unsent(t) => t.events # {}
    BY <2>1 DEF Ahead
  <2>3. BeforeSend(t) => \A i \in DOMAIN channel'.queue : Queued(i)'.of # t.events
    BY <1>2, <2>1 DEF Ahead, Unsent
  <2>4. t.pc = "send" => /\ t.todo # {} /\ t.todo \subseteq t.events
                         /\ \A i \in DOMAIN channel'.queue : Queued(i)'.of # t.events
    BY <1>2, <2>1, <2>2 DEF Ahead, Unsent
  <2> QED
    BY <1>1, <2>2, <2>3, <2>4 DEF Ahead, Unsent, BeforeSend
<1>6. OwnBatch'
  BY <1>1 DEF OrderInv, OwnBatch
<1> QED
  BY <1>3, <1>4, <1>5, <1>6 DEF OrderInv

(* The stamps of a new batch are new: nothing queued or pending has them. *)
LEMMA BeginOrder ==
  ASSUME PublisherInv, OrderInv, NEW p \in Publisher, NEW n \in Nat, NEW batch \in BOOLEAN,
         Begin(p, n, batch), n = 0 => batch
  PROVE  OrderInv'
<1> DEFINE events == next_sequence..(next_sequence + n - 1)
           t == [Idle EXCEPT !.pc = IF n = 0 THEN "gate" ELSE "insert",
                             !.batch = batch, !.events = events, !.todo = events]
<1>1. /\ next_sequence \in Nat /\ next_sequence' = next_sequence + n
      /\ task' = [task EXCEPT ![p] = t] /\ channel' = channel
  BY DEF Begin, PublisherInv, TypeOK
<1>2. t.pc = (IF n = 0 THEN "gate" ELSE "insert") /\ t.batch = batch /\ t.events = events
  BY DEF Idle
<1>3. n # 0 => next_sequence \in events
  BY <1>1
<1>4. next_sequence \notin 0..(next_sequence - 1)
  BY <1>1
<1>5. next_sequence' \in Nat /\ next_sequence <= next_sequence'
  BY <1>1
<1> HIDE DEF t, events
<1>6. CASE n = 0
  <2>1. ~Unsent(t) /\ ~BeforeSend(t) /\ t.pc # "send"
    BY <1>2, <1>6 DEF Unsent, BeforeSend
  <2> QED
    BY <1>1, <1>5, <2>1, QuietOrder
<1>7. CASE n # 0
  <2>1. /\ task'[p] = t /\ \A q \in Publisher : q # p => task'[q] = task[q]
    BY <1>1 DEF PublisherInv, TypeOK
  <2>2. /\ \A i : Queued(i)' = Queued(i)
        /\ 0..(next_sequence - 1) \subseteq 0..(next_sequence' - 1)
    BY <1>1, <1>5, WiderInterval DEF Queued
  <2>3. channel' \in Streaming /\ StreamedInBatchOrder'
    BY <1>1 DEF OrderInv, StreamedInBatchOrder
  <2>4. QueuedStamped'
    BY <1>1, <2>2 DEF OrderInv, QueuedStamped
  <2>5. \A q \in Publisher : q # p => Ahead(task[q])'
    BY <1>1, <2>1, <2>2 DEF OrderInv, Ahead
  <2>6. \A i \in DOMAIN channel.queue : Queued(i).of # events
    BY <1>3, <1>4, <1>7 DEF OrderInv, QueuedStamped
  <2>7. \A q \in Publisher : task[q].events # events
    BY <1>3, <1>4, <1>7 DEF PublisherInv, TypeOK
  <2>8. Ahead(task[p])'
    BY <1>1, <1>2, <1>3, <1>7, <2>1, <2>2, <2>6 DEF Ahead
  <2>9. OwnBatch'
    BY <1>2, <2>1, <2>7 DEF OrderInv, OwnBatch
  <2> QED
    BY <2>3, <2>4, <2>5, <2>8, <2>9 DEF OrderInv
<1> QED
  BY <1>6, <1>7

(* What follows an eviction: the events of publish, or nothing. *)
LEMMA EvictedOrder ==
  ASSUME NEW t \in Task, t.pc \in {"gate", "scan", "evict"}
  PROVE  LET u == Evicted(t)
         IN  /\ ~BeforeSend(u)
             /\ Unsent(u) => Unsent(t) /\ u.events = t.events
             /\ u.pc = "send" => BeforeSend(t) /\ u.todo = u.events
<1>1. CASE t.batch
  BY <1>1 DEF Evicted, Idle, Unsent, BeforeSend
<1>2. CASE ~t.batch
  BY <1>2 DEF Evicted, Idle, Unsent, BeforeSend
<1> QED
  BY <1>1, <1>2

(* Insertions and evictions do not touch the channel. *)
LEMMA InsertOrder ==
  ASSUME PublisherInv, OrderInv, NEW p \in Publisher, NEW e \in task[p].todo, NEW s \in Shard,
         Insert(p, e, s)
  PROVE  OrderInv'
<1> DEFINE t == task[p]
           rest == t.todo \ {e}
           todo == IF rest = {} THEN t.events ELSE rest
           pc == IF rest = {} THEN (IF t.batch THEN "send" ELSE "gate") ELSE "insert"
           u == [t EXCEPT !.todo = todo, !.pc = pc]
<1>1. /\ task \in [Publisher -> Task] /\ t \in Task /\ next_sequence \in Nat /\ t.pc = "insert"
      /\ next_sequence' = next_sequence /\ channel' = channel
  BY DEF PublisherInv, TypeOK, Insert
<1>2. task' = [task EXCEPT ![p] = u]
  BY <1>1 DEF Insert
<1>3. u.pc = pc /\ u.todo = todo /\ u.events = t.events /\ u.batch = t.batch
  BY <1>1 DEF Task
<1>4. pc = "send" => todo = t.events
  OBVIOUS
<1>5. BeforeSend(t)
  BY <1>1 DEF BeforeSend
<1>6. next_sequence' \in Nat /\ next_sequence <= next_sequence'
  BY <1>1
<1>7. /\ Unsent(u) => Unsent(t) /\ u.events = t.events
      /\ BeforeSend(u) => BeforeSend(t)
      /\ u.pc = "send" => BeforeSend(t) /\ u.todo = u.events
  BY <1>3, <1>4, <1>5 DEF Unsent
<1> HIDE DEF u
<1> QED
  BY <1>1, <1>2, <1>6, <1>7, QuietOrder

(* Eviction removes events from the log and touches no message. *)
LEMMA EvictionOrder ==
  ASSUME PublisherInv, OrderInv, NEW p \in Publisher, Gate(p) \/ Scan(p) \/ Evict(p)
  PROVE  OrderInv'
<1> DEFINE t == task[p]
<1>1. /\ t \in Task /\ next_sequence \in Nat /\ t.pc \in {"gate", "scan", "evict"}
      /\ next_sequence' = next_sequence /\ channel' = channel
  BY DEF PublisherInv, TypeOK, Gate, Scan, Evict, Task
<1>2. PICK u : /\ task' = [task EXCEPT ![p] = u]
               /\ \/ u = Evicted(t)
                  \/ /\ u.pc \in {"gate", "scan", "evict"}
                     /\ u.batch = t.batch /\ u.events = t.events
  <2>1. CASE Gate(p)
    <3> DEFINE len == t.len + Cardinality(event_log[t.shard])
    <3>1. PICK v : /\ task' = [task EXCEPT ![p] = v]
                   /\ \/ v = [t EXCEPT !.len = len, !.shard = @ + 1]
                      \/ v = [t EXCEPT !.len = len, !.shard = 1, !.pc = "scan"]
                      \/ v = Evicted(t)
      BY <2>1 DEF Gate
    <3>2. v = Evicted(t) \/ (v.pc \in {"gate", "scan", "evict"} /\ v.batch = t.batch /\ v.events = t.events)
      BY <1>1, <3>1 DEF Task
    <3> QED
      BY <3>1, <3>2
  <2>2. CASE Scan(p)
    <3> DEFINE r == [t EXCEPT !.snapshot = @ \union event_log[t.shard]]
    <3>1. PICK v : /\ task' = [task EXCEPT ![p] = v]
                   /\ \/ v = [r EXCEPT !.shard = @ + 1]
                      \/ v = Evicted(r)
                      \/ v = [r EXCEPT !.pc = "evict", !.victims = Victims(r),
                                       !.snapshot = {}, !.len = 0, !.shard = 1]
      BY <2>2 DEF Scan
    <3>2. /\ r.pc = t.pc /\ r.batch = t.batch /\ r.events = t.events
          /\ DOMAIN r = {"pc", "batch", "events", "todo", "shard", "len", "snapshot", "victims"}
      BY <1>1 DEF Task
    <3>3. Evicted(r) = Evicted(t)
      BY <3>2 DEF Evicted
    <3> HIDE DEF r
    <3>4. v = Evicted(r) \/ (v.pc \in {"gate", "scan", "evict"} /\ v.batch = t.batch /\ v.events = t.events)
      BY <1>1, <3>1, <3>2
    <3> QED
      BY <3>1, <3>3, <3>4
  <2>3. CASE Evict(p)
    <3> DEFINE rest == t.victims \ {Min(t.victims)}
    <3>1. PICK v : /\ task' = [task EXCEPT ![p] = v]
                   /\ v = Evicted(t) \/ v = [t EXCEPT !.victims = rest]
      BY <2>3 DEF Evict
    <3>2. v = Evicted(t) \/ (v.pc \in {"gate", "scan", "evict"} /\ v.batch = t.batch /\ v.events = t.events)
      BY <1>1, <3>1 DEF Task
    <3> QED
      BY <3>1, <3>2
  <2> QED
    BY <2>1, <2>2, <2>3
<1>3. /\ Unsent(u) => Unsent(t) /\ u.events = t.events
      /\ BeforeSend(u) => BeforeSend(t)
      /\ u.pc = "send" => BeforeSend(t) /\ u.todo = u.events
  <2>1. CASE u = Evicted(t)
    BY <1>1, <2>1, EvictedOrder
  <2>2. CASE u.pc \in {"gate", "scan", "evict"} /\ u.batch = t.batch /\ u.events = t.events
    BY <1>1, <2>2 DEF Unsent, BeforeSend
  <2> QED
    BY <1>2, <2>1, <2>2
<1>4. next_sequence' \in Nat /\ next_sequence <= next_sequence'
  BY <1>1
<1> QED
  BY <1>1, <1>2, <1>3, <1>4, QuietOrder

(***************************************************************************)
(* One try_send: the event comes after everything the queue has of its     *)
(* batch, and before what is left of it; no other publication has it.      *)
(***************************************************************************)
LEMMA SendOrder ==
  ASSUME PublisherInv, OrderInv, NEW p \in Publisher, NEW bytes \in EventBytes, Send(p, bytes)
  PROVE  OrderInv'
<1> DEFINE t == task[p]
           e == Min(t.todo)
           rest == t.todo \ {e}
<1>1. /\ t \in Task /\ t.pc = "send" /\ next_sequence \in Nat /\ next_sequence' = next_sequence
      /\ t.events \subseteq 0..(next_sequence - 1) /\ t.todo \subseteq Nat /\ t.events \subseteq Nat
      /\ task \in [Publisher -> Task]
  BY DEF PublisherInv, TypeOK, Send, Task
<1>2. /\ t.todo # {} /\ t.todo \subseteq t.events /\ t.events # {} /\ Unsent(t)
      /\ \A i \in DOMAIN channel.queue : Queued(i).of = t.events => \A f \in t.todo : Queued(i).event < f
  BY <1>1 DEF OrderInv, Ahead, Unsent
<1>3. e \in t.todo /\ \A f \in t.todo : e <= f
  BY <1>1, <1>2, MinOfNaturals
<1>4. \A f \in rest : e < f
  BY <1>1, <1>3
<1>5. PICK u : /\ task' = [task EXCEPT ![p] = u]
               /\ \/ rest # {} /\ u = [t EXCEPT !.todo = rest]
                  \/ t.batch /\ u = [t EXCEPT !.todo = {}, !.pc = "gate"]
                  \/ u = Idle
  BY DEF Send
<1> HIDE DEF e
<1>6. \/ ~Unsent(u) /\ ~BeforeSend(u) /\ u.pc # "send"
      \/ /\ rest # {} /\ u.pc = "send" /\ u.todo = rest /\ u.events = t.events
         /\ ~BeforeSend(u)
  <2>1. CASE rest # {} /\ u = [t EXCEPT !.todo = rest]
    BY <1>1, <2>1 DEF Task, BeforeSend
  <2>2. CASE t.batch /\ u = [t EXCEPT !.todo = {}, !.pc = "gate"]
    BY <1>1, <2>2 DEF Task, Unsent, BeforeSend
  <2>3. CASE u = Idle
    BY <2>3 DEF Idle, Unsent, BeforeSend
  <2> QED
    BY <1>5, <2>1, <2>2, <2>3
<1>7. /\ task'[p] = u /\ \A q \in Publisher : q # p => task'[q] = task[q]
  BY <1>1, <1>5
<1>8. OwnBatch'
  BY <1>2, <1>6, <1>7 DEF OrderInv, OwnBatch, Unsent
<1>9. \A q \in Publisher : q # p /\ Unsent(task[q]) => task[q].events # t.events
  BY <1>2 DEF OrderInv, OwnBatch
<1>10. CASE channel' = channel
  <2>1. \A i : Queued(i)' = Queued(i)
    BY <1>10 DEF Queued
  <2>2. \A q \in Publisher : q # p => Ahead(task[q])'
    BY <1>7, <1>10, <2>1 DEF OrderInv, Ahead
  <2>3. Ahead(task[p])'
    BY <1>2, <1>6, <1>7, <1>10, <2>1 DEF Ahead, Unsent
  <2>4. channel' \in Streaming /\ StreamedInBatchOrder'
    BY <1>10 DEF OrderInv, StreamedInBatchOrder
  <2>5. QueuedStamped'
    BY <1>1, <1>10, <2>1 DEF OrderInv, QueuedStamped
  <2> QED
    BY <1>8, <2>2, <2>3, <2>4, <2>5 DEF OrderInv
<1>11. CASE channel' = try_send(channel, [event |-> e, of |-> t.events], bytes)
  <2> DEFINE value == [event |-> e, of |-> t.events]
             queue == channel.queue
             new == Append(queue, Envelope(value, bytes))
             free == channel.free - permits_for(bytes)
  <2>1. channel \in Streaming /\ queue \in Seq(Streamed) /\ channel.free \in Int
    BY DEF OrderInv, Streaming
  <2>2. bytes \in Nat /\ permits_for(bytes) \in Nat
    BY BatchAssumption DEF permits_for
  <2>3. e \in Nat
    BY <1>1, <1>3
  <2>4. Envelope(value, bytes) \in Streamed /\ Envelope(value, bytes).value = value
    BY <1>1, <2>2, <2>3 DEF Envelope, Streamed
  <2>5. channel' = [channel EXCEPT !.queue = new, !.free = free]
    BY <1>11, <2>1 DEF try_send, Enqueue, Streaming
  <2>6. free \in Int
    BY <2>1, <2>2
  <2>7. /\ new \in Seq(Streamed) /\ Len(new) = Len(queue) + 1 /\ Len(queue) \in Nat
        /\ \A i \in 1..Len(queue) : new[i] = queue[i]
        /\ new[Len(queue) + 1] = Envelope(value, bytes)
    BY <2>1, <2>4
  <2>8. DOMAIN queue = 1..Len(queue) /\ DOMAIN new = 1..(Len(queue) + 1)
    BY <2>1, <2>7
  <2> HIDE DEF new, free
  <2>9. channel' \in Streaming /\ channel'.queue = new
    BY <2>1, <2>5, <2>6, <2>7 DEF Streaming
  <2>10. \A i \in DOMAIN new : i \in DOMAIN queue \/ i = Len(queue) + 1
    BY <2>7, <2>8
  <2>11. /\ \A i \in DOMAIN queue : Queued(i)' = Queued(i)
         /\ \A i \in DOMAIN new : i \notin DOMAIN queue => Queued(i)' = value
         /\ \A i, j \in DOMAIN new : i < j => i \in DOMAIN queue
    BY <2>4, <2>7, <2>8, <2>9, <2>10 DEF Queued
  <2>12. value.event = e /\ value.of = t.events
    OBVIOUS
  <2> HIDE DEF value, queue
  <2>13. QueuedStamped'
    BY <1>1, <1>2, <1>3, <2>9, <2>11, <2>12 DEF OrderInv, QueuedStamped, queue
  <2>14. StreamedInBatchOrder'
    <3> SUFFICES ASSUME NEW i \in DOMAIN new, NEW j \in DOMAIN new,
                        i < j, Queued(i)'.of = Queued(j)'.of
                 PROVE  Queued(i)'.event < Queued(j)'.event
      BY <2>9 DEF StreamedInBatchOrder, Queued
    <3>1. i \in DOMAIN queue /\ Queued(i)' = Queued(i)
      BY <2>11
    <3>2. CASE j \in DOMAIN queue
      BY <2>11, <3>1, <3>2 DEF OrderInv, StreamedInBatchOrder, Queued, queue
    <3>3. CASE j \notin DOMAIN queue
      BY <1>2, <1>3, <2>11, <2>12, <3>1, <3>3 DEF queue
    <3> QED
      BY <3>2, <3>3
  <2>15. \A q \in Publisher : q # p => Ahead(task[q])'
    <3> SUFFICES ASSUME NEW q \in Publisher, q # p PROVE Ahead(task[q])'
      OBVIOUS
    <3>1. task'[q] = task[q] /\ Ahead(task[q])
      BY <1>7 DEF OrderInv
    <3>2. \A i \in DOMAIN new : Queued(i)'.of = task[q].events /\ Unsent(task[q]) =>
                                  i \in DOMAIN queue /\ Queued(i)' = Queued(i)
      BY <1>9, <2>11, <2>12
    <3> QED
      BY <2>9, <3>1, <3>2 DEF Ahead, Unsent, queue
  <2>16. Ahead(task[p])'
    <3>1. CASE ~Unsent(u) /\ ~BeforeSend(u) /\ u.pc # "send"
      BY <1>7, <3>1 DEF Ahead
    <3>2. CASE /\ rest # {} /\ u.pc = "send" /\ u.todo = rest /\ u.events = t.events
               /\ ~BeforeSend(u)
      <4>1. \A i \in DOMAIN new : Queued(i)'.of = t.events => \A f \in rest : Queued(i)'.event < f
        BY <1>2, <1>4, <2>11, <2>12 DEF queue
      <4> QED
        BY <1>2, <1>7, <2>9, <3>2, <4>1 DEF Ahead
    <3> QED
      BY <1>6, <3>1, <3>2
  <2> QED
    BY <1>8, <2>9, <2>13, <2>14, <2>15, <2>16 DEF OrderInv
<1> QED
  BY <1>10, <1>11 DEF Send, e

(* The consumer takes the first event. *)
LEMMA ReceiveOrder ==
  ASSUME PublisherInv, OrderInv, Receive
  PROVE  OrderInv'
<1> DEFINE queue == channel.queue
           rest == Tail(queue)
           free == channel.free + Head(queue).permit
<1>1. channel \in Streaming /\ queue \in Seq(Streamed) /\ queue # <<>> /\ channel.free \in Int
  BY DEF OrderInv, Streaming, Receive
<1>2. channel' = [channel EXCEPT !.queue = rest, !.free = free] /\ UNCHANGED <<task, next_sequence>>
  BY DEF Receive
<1>3. Head(queue) \in Streamed
  BY <1>1
<1>4. free \in Int
  BY <1>1, <1>3 DEF Streamed
<1>5. /\ rest \in Seq(Streamed) /\ Len(rest) = Len(queue) - 1 /\ Len(queue) \in Nat
      /\ \A i \in 1..(Len(queue) - 1) : rest[i] = queue[i + 1]
  BY <1>1
<1>6. DOMAIN rest = 1..(Len(queue) - 1) /\ DOMAIN queue = 1..Len(queue)
  BY <1>1, <1>5
<1> HIDE DEF rest, free
<1>7. channel' \in Streaming /\ channel'.queue = rest
  BY <1>1, <1>2, <1>4, <1>5 DEF Streaming
<1>8. \A i \in DOMAIN rest : i \in Nat /\ i + 1 \in DOMAIN queue /\ Queued(i)' = Queued(i + 1)
  BY <1>5, <1>6, <1>7 DEF Queued
<1> HIDE DEF queue
<1>9. QueuedStamped'
  BY <1>2, <1>7, <1>8 DEF OrderInv, QueuedStamped, queue
<1>10. StreamedInBatchOrder'
  <2> SUFFICES ASSUME NEW i \in DOMAIN rest, NEW j \in DOMAIN rest,
                      i < j, Queued(i)'.of = Queued(j)'.of
               PROVE  Queued(i)'.event < Queued(j)'.event
    BY <1>7 DEF StreamedInBatchOrder, Queued
  <2>1. i + 1 < j + 1
    BY <1>8
  <2> QED
    BY <1>8, <2>1 DEF OrderInv, StreamedInBatchOrder, Queued, queue
<1>11. \A q \in Publisher : Ahead(task[q])'
  BY <1>2, <1>7, <1>8 DEF OrderInv, Ahead, queue
<1>12. OwnBatch'
  BY <1>2 DEF OrderInv, OwnBatch
<1> QED
  BY <1>7, <1>9, <1>10, <1>11, <1>12 DEF OrderInv

(* The channel starts empty. *)
LEMMA InitOrder == Init => OrderInv
<1> SUFFICES ASSUME Init PROVE OrderInv
  OBVIOUS
<1>1. channel \in Streaming /\ channel.queue = <<>>
  <2>1. <<>> \in Seq(Streamed) /\ max_queued_bytes \in Int
    BY ChannelAssumption
  <2>2. NewChannel \in Streaming /\ NewChannel.queue = <<>>
    BY <2>1 DEF NewChannel, Streaming
  <2>3. [NewChannel EXCEPT !.open = FALSE] \in Streaming
    BY <2>2 DEF Streaming
  <2>4. [NewChannel EXCEPT !.open = FALSE].queue = <<>>
    BY DEF NewChannel
  <2> QED
    BY <2>2, <2>3, <2>4 DEF Init
<1>2. DOMAIN channel.queue = {}
  BY <1>1
<1>3. \A p \in Publisher : task[p] = Idle
  BY DEF Init
<1>4. ~Unsent(Idle) /\ ~BeforeSend(Idle) /\ Idle.pc # "send"
  BY DEF Idle, Unsent, BeforeSend
<1> QED
  BY <1>1, <1>2, <1>3, <1>4 DEF OrderInv, QueuedStamped, StreamedInBatchOrder, Ahead, OwnBatch

(* Every step of the publishers and of the receiver keeps the order. *)
LEMMA NextOrder == PublisherInv /\ OrderInv /\ [Next]_vars => OrderInv'
<1> SUFFICES ASSUME PublisherInv, OrderInv, [Next]_vars PROVE OrderInv'
  OBVIOUS
<1>1. CASE \E p \in Publisher : Publish(p)
  <2>1. PICK p \in Publisher : Begin(p, 1, FALSE)
    BY <1>1 DEF Publish
  <2>2. 1 \in Nat /\ FALSE \in BOOLEAN /\ (1 = 0 => FALSE)
    OBVIOUS
  <2> QED
    BY <2>1, <2>2, BeginOrder
<1>2. CASE \E p \in Publisher, n \in 0..MaxBatch : PublishBatch(p, n)
  <2>1. \A n \in 0..MaxBatch : n \in Nat
    BY BatchAssumption
  <2> QED
    BY <1>2, <2>1, BeginOrder DEF PublishBatch
<1>3. CASE \E p \in Publisher : Step(p)
  BY <1>3, InsertOrder, SendOrder, EvictionOrder DEF Step
<1>4. CASE Receive
  BY <1>4, ReceiveOrder
<1>5. CASE UNCHANGED vars
  BY <1>5 DEF vars, OrderInv, QueuedStamped, Queued, StreamedInBatchOrder, Ahead, OwnBatch
<1> QED
  BY <1>1, <1>2, <1>3, <1>4, <1>5 DEF Next

(***************************************************************************)
(* The property of the runs: the channel carries no event twice and the    *)
(* events of a batch in its order, for every number of publishers, size of *)
(* batch and capacity, whatever a full channel drops.                      *)
(***************************************************************************)
THEOREM StreamedInOrderCorrect == Spec => []StreamedInBatchOrder
<1>1. OrderInv => StreamedInBatchOrder
  BY DEF OrderInv
<1> QED
  BY <1>1, PublisherInvariance, InitOrder, NextOrder, PTL DEF Spec

=============================================================================
