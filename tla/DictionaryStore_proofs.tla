------------------------ MODULE DictionaryStore_proofs ------------------------
(***************************************************************************)
(* The dictionary store under any number of callers, sessions and sweeps:  *)
(* the corpus mutex and the dictionary cell of every state are used by one *)
(* caller at a time and never stay taken, a corpus holds at most N_TRAIN   *)
(* samples, the sweep evicts no session that was just served, and the      *)
(* budget counter is the sum of all reservations unless the last sweep     *)
(* overlapped a call.                                                      *)
(***************************************************************************)
EXTENDS DictionaryStore, FiniteSetTheorems, TLAPS

Pc == {"idle", "found", "lock", "admit", "undo", "decide", "init", "training", "release"}

SessionState ==
  [used : BOOLEAN, len : Nat, pending : Nat, locked : BOOLEAN,
   cell : {"empty", "busy", "set"}, access : Nat, served : Nat]

Call == [pc : Pc, op : {"none", "train", "register"}, id : 0..MaxStates, size : Nat, reserved : Nat]

TypeOK ==
  /\ map \in [Sessions -> 0..MaxStates]
  /\ states \in [StateIds -> SessionState]
  /\ calls \in [Callers -> Call]
  /\ sweep \in [pc : {"idle", "retain", "sum", "store"}, now : Nat, todo : SUBSET Sessions,
                total : Nat, disturbed : BOOLEAN]
  /\ in_flight \in Nat
  /\ now \in Nat

(* Between Reserve and Decide a caller holds the corpus mutex of its state; *)
(* between GetOrTryInit and Trained, the dictionary cell.                   *)
Critical == {"admit", "undo", "decide"}
InCritical(c, i) == calls[c].pc \in Critical /\ calls[c].id = i
Training(c, i) == calls[c].pc = "training" /\ calls[c].id = i

(***************************************************************************)
(* One caller at a time adds to a corpus, and one trains from it; the      *)
(* mutex and the cell are taken exactly while there is such a caller, so   *)
(* no failure, cancellation or eviction leaves one of them taken.          *)
(***************************************************************************)
OneAtATime ==
  \A i \in StateIds :
    /\ states[i].locked <=> \E c \in Callers : InCritical(c, i)
    /\ (states[i].cell = "busy") <=> \E c \in Callers : Training(c, i)
    /\ \A c, d \in Callers :
         \/ InCritical(c, i) /\ InCritical(d, i)
         \/ Training(c, i) /\ Training(d, i)
         => c = d

(***************************************************************************)
(* Callers that race at the threshold never grow a corpus past N_TRAIN:    *)
(* the length that Reserve checks is still right when Admit uses it.       *)
(***************************************************************************)
CorpusBounded ==
  /\ \A i \in StateIds : states[i].len <= N_TRAIN
  /\ \A c \in Callers : calls[c].pc = "admit" => State(c).len < N_TRAIN

(* A caller, and a session of the map, has a state that is in use. *)
Reached ==
  /\ \A c \in Callers : calls[c].pc # "idle" => calls[c].id \in StateIds /\ State(c).used
  /\ \A s \in Sessions : map[s] # 0 => states[map[s]].used

(* No time stamp, and no clock reading of a sweep, is in the future. *)
StampsOK ==
  /\ \A i \in StateIds : states[i].served <= states[i].access /\ states[i].access <= now
  /\ sweep.now <= now

StoreInv ==
  /\ TypeOK
  /\ Reached
  /\ OneAtATime
  /\ CorpusBounded
  /\ StampsOK

-----------------------------------------------------------------------------
(* The step of a call. *)

(* A step that a sweep in progress notices. *)
LEMMA DisturbsType ==
  ASSUME TypeOK, Disturbs
  PROVE  /\ sweep' \in [pc : {"idle", "retain", "sum", "store"}, now : Nat, todo : SUBSET Sessions,
                        total : Nat, disturbed : BOOLEAN]
         /\ sweep'.now = sweep.now
<1>1. (sweep.disturbed \/ sweep.pc # "idle") \in BOOLEAN
  OBVIOUS
<1> DEFINE b == sweep.disturbed \/ sweep.pc # "idle"
<1>2. sweep' = [sweep EXCEPT !.disturbed = b] /\ b \in BOOLEAN
  BY DEF Disturbs
<1> HIDE DEF b
<1> QED
  BY <1>2 DEF TypeOK

(***************************************************************************)
(* Caller c, in a call on state i, changes that state to st and its call   *)
(* to call.  The mutex and the cell change hands as they may: they are     *)
(* taken when free, and given back by who has them; the corpus changes     *)
(* under the mutex only.                                                   *)
(***************************************************************************)
LEMMA CallStep ==
  ASSUME StoreInv, NEW c \in Callers, NEW i, NEW st \in SessionState, NEW call \in Call,
         calls[c].pc # "idle", i = calls[c].id,
         states' = [states EXCEPT ![i] = st], calls' = [calls EXCEPT ![c] = call],
         map' = map, now' = now, Disturbs, in_flight' \in Nat,
         st.used = states[i].used,
         call.pc # "idle" => call.id = i,
         st.locked <=> \/ call.pc \in Critical
                       \/ states[i].locked /\ calls[c].pc \notin Critical,
         call.pc \in Critical => calls[c].pc \in Critical \/ ~states[i].locked,
         (st.cell = "busy") <=> \/ call.pc = "training"
                                \/ states[i].cell = "busy" /\ calls[c].pc # "training",
         call.pc = "training" => calls[c].pc = "training" \/ states[i].cell # "busy",
         st.len = states[i].len \/ (calls[c].pc \in Critical /\ st.len <= N_TRAIN),
         call.pc = "admit" => st.len < N_TRAIN,
         st.served <= st.access, st.access <= now
  PROVE  StoreInv'
<1>0. /\ TypeOK /\ i \in StateIds /\ states[i].used
      /\ N_TRAIN \in Nat
  BY DictionaryAssumption DEF StoreInv, Reached, State
<1>1. /\ \A j \in StateIds : states'[j] = IF j = i THEN st ELSE states[j]
      /\ \A d \in Callers : calls'[d] = IF d = c THEN call ELSE calls[d]
  BY <1>0 DEF TypeOK
<1>2. TypeOK'
  <2>1. states' \in [StateIds -> SessionState] /\ calls' \in [Callers -> Call]
    BY <1>0 DEF TypeOK
  <2>2. map' \in [Sessions -> 0..MaxStates] /\ now' \in Nat
    BY <1>0 DEF TypeOK
  <2> QED
    BY <1>0, <2>1, <2>2, DisturbsType DEF TypeOK
<1>3. Reached'
  <2>1. \A j \in StateIds : states'[j].used = states[j].used
    BY <1>1
  <2>2. ASSUME NEW d \in Callers, calls'[d].pc # "idle"
        PROVE  calls'[d].id \in StateIds /\ states'[calls'[d].id].used
    BY <1>0, <1>1, <2>1, <2>2 DEF StoreInv, Reached, State
  <2>3. \A s \in Sessions : map[s] # 0 => map[s] \in StateIds /\ states[map[s]].used
    BY <1>0 DEF StoreInv, Reached, TypeOK, StateIds
  <2> QED
    BY <2>1, <2>2, <2>3 DEF Reached, State
<1>4. StampsOK'
  BY <1>0, <1>1, DisturbsType DEF StoreInv, StampsOK
<1>5. OneAtATime'
  <2> SUFFICES ASSUME NEW j \in StateIds
               PROVE  /\ states'[j].locked <=> \E d \in Callers : InCritical(d, j)'
                      /\ (states'[j].cell = "busy") <=> \E d \in Callers : Training(d, j)'
                      /\ \A d, e \in Callers :
                           \/ InCritical(d, j)' /\ InCritical(e, j)'
                           \/ Training(d, j)' /\ Training(e, j)'
                           => d = e
    BY DEF OneAtATime
  <2>1. /\ states[j].locked <=> \E d \in Callers : InCritical(d, j)
        /\ (states[j].cell = "busy") <=> \E d \in Callers : Training(d, j)
        /\ \A d, e \in Callers :
             \/ InCritical(d, j) /\ InCritical(e, j)
             \/ Training(d, j) /\ Training(e, j)
             => d = e
    BY DEF StoreInv, OneAtATime
  <2>2. /\ \A d \in Callers : d # c => /\ InCritical(d, j)' <=> InCritical(d, j)
                                       /\ Training(d, j)' <=> Training(d, j)
        /\ InCritical(c, j)' <=> call.pc \in Critical /\ j = i
        /\ Training(c, j)' <=> call.pc = "training" /\ j = i
        /\ InCritical(c, j) <=> calls[c].pc \in Critical /\ j = i
        /\ Training(c, j) <=> calls[c].pc = "training" /\ j = i
    BY <1>1 DEF InCritical, Training, Critical
  <2>3. CASE j # i
    <3>1. states'[j] = states[j]
      BY <1>1, <2>3
    <3>2. \A d \in Callers : /\ InCritical(d, j)' <=> InCritical(d, j)
                             /\ Training(d, j)' <=> Training(d, j)
      BY <2>2, <2>3
    <3> QED
      BY <2>1, <3>1, <3>2
  <2>4. CASE j = i
    <3>1. states'[j] = st
      BY <1>1, <2>4
    <3>2. st.locked <=> \E d \in Callers : InCritical(d, j)'
      BY <2>1, <2>2, <2>4
    <3>3. (st.cell = "busy") <=> \E d \in Callers : Training(d, j)'
      BY <2>1, <2>2, <2>4
    <3>4. \A d, e \in Callers : InCritical(d, j)' /\ InCritical(e, j)' => d = e
      BY <2>1, <2>2, <2>4
    <3>5. \A d, e \in Callers : Training(d, j)' /\ Training(e, j)' => d = e
      BY <2>1, <2>2, <2>4
    <3> QED
      BY <3>1, <3>2, <3>3, <3>4, <3>5
  <2> QED
    BY <2>3, <2>4
<1>6. CorpusBounded'
  <2>1. \A j \in StateIds : states'[j].len <= N_TRAIN
    BY <1>0, <1>1 DEF StoreInv, CorpusBounded
  <2>2. ASSUME NEW d \in Callers, calls'[d].pc = "admit" PROVE State(d)'.len < N_TRAIN
    <3>1. CASE d = c
      BY <1>0, <1>1, <2>2, <3>1 DEF State
    <3>2. CASE d # c
      <4>1. calls'[d] = calls[d] /\ calls[d].pc = "admit" /\ calls[d].id \in StateIds
        BY <1>1, <2>2, <3>2 DEF StoreInv, Reached
      <4>2. State(d).len < N_TRAIN
        BY <4>1 DEF StoreInv, CorpusBounded
      <4>3. calls[d].id = i => calls[c].pc \notin Critical
        BY <1>0, <3>2, <4>1 DEF StoreInv, OneAtATime, InCritical, Critical
      <4> QED
        BY <1>1, <4>1, <4>2, <4>3 DEF State
    <3> QED
      BY <3>1, <3>2
  <2> QED
    BY <2>1, <2>2 DEF CorpusBounded
<1> QED
  BY <1>2, <1>3, <1>4, <1>5, <1>6 DEF StoreInv

(* A call that has ended. *)
LEMMA NoCallIsIdle == NoCall \in Call /\ NoCall.pc = "idle"
  BY DictionaryAssumption DEF NoCall, Call, Pc

(* The counter does not wrap below zero. *)
LEMMA SubNat ==
  ASSUME NEW m \in Nat, NEW n \in Nat
  PROVE  SaturatingSub(m, n) \in Nat
  BY DEF SaturatingSub

(* A call that goes on. *)
LEMMA GotoCall ==
  ASSUME NEW c \in Callers, calls[c] \in Call, NEW pc \in Pc, Goto(c, pc)
  PROVE  \E call \in Call : /\ calls' = [calls EXCEPT ![c] = call]
                            /\ call.pc = pc /\ call.id = calls[c].id
<1> DEFINE call == [calls[c] EXCEPT !.pc = pc]
<1>1. call \in Call /\ call.pc = pc /\ call.id = calls[c].id
  BY DEF Call
<1>2. calls' = [calls EXCEPT ![c] = call]
  BY DEF Goto
<1> HIDE DEF call
<1> QED
  BY <1>1, <1>2

(* Every step of a call, and its cancellation. *)
LEMMA StepInv ==
  ASSUME StoreInv, NEW c \in Callers, Step(c) \/ Cancel(c)
  PROVE  StoreInv'
<1> DEFINE i == calls[c].id
           old == states[i]
<1>0. /\ TypeOK /\ N_TRAIN \in Nat \ {0} /\ in_flight \in Nat /\ now \in Nat
      /\ calls[c] \in Call /\ calls[c].pc \in Pc /\ calls[c].size \in Nat /\ calls[c].reserved \in Nat
  BY DictionaryAssumption DEF StoreInv, TypeOK, Call
<1>1. calls[c].pc # "idle"
  BY DEF Step, RegisterSet, Touch, Reserve, Admit, Undo, Decide, GetOrTryInit, Trained,
         DropReservation, Cancel, Abandon
<1>2. /\ i \in StateIds /\ old \in SessionState /\ State(c) = old
      /\ old.len <= N_TRAIN /\ old.served <= old.access /\ old.access <= now
      /\ old.len \in Nat /\ old.pending \in Nat /\ old.locked \in BOOLEAN
      /\ old.cell \in {"empty", "busy", "set"} /\ old.access \in Nat /\ old.served \in Nat
  <2>1. i \in StateIds /\ old \in SessionState /\ State(c) = old
    BY <1>1 DEF StoreInv, Reached, TypeOK, State
  <2> QED
    BY <2>1 DEF StoreInv, CorpusBounded, StampsOK, SessionState
<1>3. /\ calls[c].pc \in Critical <=> old.locked /\ InCritical(c, i)
      /\ calls[c].pc = "training" <=> (old.cell = "busy" /\ Training(c, i))
  BY <1>2 DEF StoreInv, OneAtATime, InCritical, Training
<1>4. calls[c].pc = "admit" => old.len < N_TRAIN
  BY <1>2 DEF StoreInv, CorpusBounded
<1>5. map' = map /\ now' = now /\ Disturbs
  BY DEF Step, RegisterSet, Touch, Reserve, Admit, Undo, Decide, GetOrTryInit, Trained,
         DropReservation, Cancel, Abandon
<1>6. in_flight' \in Nat
  BY <1>0, SubNat DEF Step, RegisterSet, Touch, Reserve, Admit, Undo, Decide, GetOrTryInit,
         Trained, DropReservation, Cancel, Abandon, release_corpus_bytes
<1> HIDE DEF old
<1>7. CASE RegisterSet(c)
  <2> DEFINE cell == IF old.cell = "empty" THEN "set" ELSE old.cell
             st == [old EXCEPT !.access = now, !.cell = cell]
  <2>1. /\ calls[c].pc = "found" /\ calls' = [calls EXCEPT ![c] = NoCall]
        /\ states' = [states EXCEPT ![i] = st]
    BY <1>2, <1>7 DEF RegisterSet, Return, State, old
  <2>2. st \in SessionState
    BY <1>0, <1>2 DEF SessionState
  <2>3. /\ st.used = old.used /\ st.locked = old.locked /\ st.len = old.len
        /\ st.cell = cell /\ st.access = now /\ st.served = old.served
        /\ cell = "busy" <=> old.cell = "busy"
    BY <1>2 DEF SessionState
  <2> HIDE DEF st, cell
  <2>4. st.served <= st.access /\ st.access <= now
    BY <1>0, <1>2, <2>3
  <2> QED
    BY <1>0, <1>1, <1>5, <1>6, <2>1, <2>2, <2>3, <2>4, NoCallIsIdle, CallStep DEF Critical, old
<1>8. CASE Touch(c)
  <2> DEFINE st == [old EXCEPT !.access = now]
  <2>1. /\ calls[c].pc = "found"
        /\ states' = [states EXCEPT ![i] = st]
    BY <1>8 DEF Touch, old
  <2>2. PICK call \in Call : /\ calls' = [calls EXCEPT ![c] = call]
                             /\ call.pc \in {"idle", "lock"}
                             /\ call.pc # "idle" => call.id = i
    <3>1. CASE Return(c)
      BY <3>1, NoCallIsIdle DEF Return
    <3>2. CASE Goto(c, "lock")
      BY <1>0, <3>2, GotoCall DEF Pc
    <3> QED
      BY <1>8, <3>1, <3>2 DEF Touch
  <2>3. st \in SessionState
    BY <1>0, <1>2 DEF SessionState
  <2>4. /\ st.used = old.used /\ st.locked = old.locked /\ st.len = old.len
        /\ st.cell = old.cell /\ st.access = now /\ st.served = old.served
    BY <1>2 DEF SessionState
  <2> HIDE DEF st
  <2>5. st.served <= st.access /\ st.access <= now
    BY <1>0, <1>2, <2>4
  <2> QED
    BY <1>0, <1>1, <1>5, <1>6, <2>1, <2>2, <2>3, <2>4, <2>5, CallStep DEF Critical, old
<1>9. CASE Reserve(c)
  <2> DEFINE st == [old EXCEPT !.locked = TRUE]
  <2>1. /\ calls[c].pc = "lock" /\ ~old.locked
        /\ states' = [states EXCEPT ![i] = st]
    BY <1>2, <1>9 DEF Reserve, old
  <2>2. PICK call \in Call : /\ calls' = [calls EXCEPT ![c] = call] /\ call.id = i
                             /\ call.pc \in Critical
                             /\ call.pc = "admit" => old.len < N_TRAIN
    <3>1. \E pc \in Critical : Goto(c, pc) /\ (pc = "admit" => old.len < N_TRAIN)
      BY <1>2, <1>9 DEF Reserve, Critical
    <3> QED
      BY <1>0, <3>1, GotoCall DEF Pc, Critical
  <2>3. st \in SessionState
    BY <1>0, <1>2 DEF SessionState
  <2>4. /\ st.used = old.used /\ st.locked = TRUE /\ st.len = old.len
        /\ st.cell = old.cell /\ st.access = old.access /\ st.served = old.served
    BY <1>2 DEF SessionState
  <2> HIDE DEF st
  <2>5. call.pc # "idle" /\ call.pc # "training" /\ calls[c].pc # "training" /\ calls[c].pc \notin Critical
    BY <2>1, <2>2 DEF Critical
  <2> QED
    BY <1>1, <1>2, <1>5, <1>6, <2>1, <2>2, <2>3, <2>4, <2>5, CallStep DEF old
<1>10. CASE Admit(c)
  <2> DEFINE st == [old EXCEPT !.pending = old.pending + calls[c].size, !.len = old.len + 1]
  <2>1. /\ calls[c].pc = "admit"
        /\ states' = [states EXCEPT ![i] = st]
    BY <1>2, <1>10 DEF Admit, old
  <2>2. PICK call \in Call : /\ calls' = [calls EXCEPT ![c] = call] /\ call.id = i
                             /\ call.pc = "decide"
    BY <1>0, <1>10, GotoCall DEF Pc, Admit
  <2>0. old.pending + calls[c].size \in Nat /\ old.len + 1 \in Nat
    BY <1>0, <1>2
  <2>3. st \in SessionState
    <3> DEFINE p == old.pending + calls[c].size
               n == old.len + 1
    <3>1. p \in Nat /\ n \in Nat /\ st = [old EXCEPT !.pending = p, !.len = n]
      BY <2>0
    <3> HIDE DEF p, n, st
    <3> QED
      BY <1>2, <3>1 DEF SessionState
  <2>4. /\ st.used = old.used /\ st.locked = old.locked /\ st.len = old.len + 1
        /\ st.cell = old.cell /\ st.access = old.access /\ st.served = old.served
    BY <1>2 DEF SessionState
  <2> HIDE DEF st
  <2>5. st.len <= N_TRAIN /\ st.locked
    BY <1>0, <1>2, <1>3, <1>4, <2>1, <2>4 DEF Critical
  <2> QED
    BY <1>1, <1>2, <1>5, <1>6, <2>1, <2>2, <2>3, <2>4, <2>5, CallStep DEF old, Critical
<1>11. CASE Undo(c)
  <2>1. calls[c].pc = "undo" /\ states' = [states EXCEPT ![i] = old]
    BY <1>0, <1>2, <1>11 DEF Undo, old, TypeOK
  <2>2. PICK call \in Call : /\ calls' = [calls EXCEPT ![c] = call] /\ call.id = i
                             /\ call.pc = "decide"
    BY <1>0, <1>11, GotoCall DEF Pc, Undo
  <2>3. old.locked
    BY <1>3, <2>1 DEF Critical
  <2> QED
    BY <1>1, <1>2, <1>5, <1>6, <2>1, <2>2, <2>3, CallStep DEF old, Critical
<1>12. CASE Decide(c) /\ old.len < N_TRAIN
  <2> DEFINE st == [old EXCEPT !.locked = FALSE]
  <2>1. /\ calls[c].pc = "decide" /\ calls' = [calls EXCEPT ![c] = NoCall]
        /\ states' = [states EXCEPT ![i] = st]
    BY <1>0, <1>2, <1>12 DEF Decide, Return, old
  <2>2. st \in SessionState
    BY <1>0, <1>2 DEF SessionState
  <2>3. /\ st.used = old.used /\ st.locked = FALSE /\ st.len = old.len
        /\ st.cell = old.cell /\ st.access = old.access /\ st.served = old.served
    BY <1>2 DEF SessionState
  <2> HIDE DEF st
  <2> QED
    BY <1>1, <1>2, <1>5, <1>6, <2>1, <2>2, <2>3, NoCallIsIdle, CallStep DEF old, Critical
<1>13. CASE Decide(c) /\ old.len >= N_TRAIN
  <2> DEFINE st == [old EXCEPT !.locked = FALSE, !.pending = 0, !.len = 0]
             call == [calls[c] EXCEPT !.pc = "init", !.reserved = old.pending]
  <2>1. /\ calls[c].pc = "decide" /\ calls' = [calls EXCEPT ![c] = call]
        /\ states' = [states EXCEPT ![i] = st]
    BY <1>0, <1>2, <1>13 DEF Decide, old
  <2>2. st \in SessionState /\ call \in Call
    BY <1>0, <1>2 DEF SessionState, Call, Pc
  <2>3. /\ st.used = old.used /\ st.locked = FALSE /\ st.len = 0
        /\ st.cell = old.cell /\ st.access = old.access /\ st.served = old.served
        /\ call.pc = "init" /\ call.id = i
    BY <1>0, <1>2 DEF SessionState, Call
  <2> HIDE DEF st, call
  <2>4. 0 <= N_TRAIN
    BY <1>0
  <2> QED
    BY <1>1, <1>2, <1>5, <1>6, <2>1, <2>2, <2>3, <2>4, CallStep DEF old, Critical
<1>14. CASE GetOrTryInit(c)
  <2> DEFINE cell == IF old.cell = "empty" THEN "busy" ELSE old.cell
             st == [old EXCEPT !.cell = cell]
  <2>1. /\ calls[c].pc = "init" /\ old.cell # "busy"
        /\ states' = [states EXCEPT ![i] = st]
    BY <1>2, <1>14 DEF GetOrTryInit, old
  <2>2. PICK call \in Call : /\ calls' = [calls EXCEPT ![c] = call] /\ call.id = i
                             /\ call.pc = IF old.cell = "set" THEN "release" ELSE "training"
    BY <1>0, <1>2, <1>14, GotoCall DEF Pc, GetOrTryInit
  <2>3. st \in SessionState
    BY <1>0, <1>2 DEF SessionState
  <2>4. /\ st.used = old.used /\ st.locked = old.locked /\ st.len = old.len
        /\ st.cell = cell /\ st.access = old.access /\ st.served = old.served
        /\ cell = "busy" <=> old.cell = "empty"
    BY <1>2, <2>1 DEF SessionState
  <2> HIDE DEF st, cell
  <2>5. old.cell = "set" \/ old.cell = "empty"
    BY <1>2, <2>1
  <2> QED
    BY <1>1, <1>2, <1>5, <1>6, <2>1, <2>2, <2>3, <2>4, <2>5, CallStep DEF old, Critical
<1>15. CASE Trained(c)
  <2>1. PICK cell \in {"set", "empty"} : states' = [states EXCEPT ![i].cell = cell]
    BY <1>15 DEF Trained
  <2> DEFINE st == [old EXCEPT !.cell = cell]
  <2>2. calls[c].pc = "training" /\ states' = [states EXCEPT ![i] = st]
    BY <1>15, <2>1 DEF Trained, old
  <2>3. PICK call \in Call : /\ calls' = [calls EXCEPT ![c] = call] /\ call.id = i
                             /\ call.pc = "release"
    BY <1>0, <1>15, GotoCall DEF Pc, Trained
  <2>4. st \in SessionState
    BY <1>0, <1>2 DEF SessionState
  <2>5. /\ st.used = old.used /\ st.locked = old.locked /\ st.len = old.len
        /\ st.cell = cell /\ st.access = old.access /\ st.served = old.served
    BY <1>2 DEF SessionState
  <2> HIDE DEF st
  <2>6. /\ call.pc # "idle" /\ call.pc # "training" /\ call.pc # "admit"
        /\ call.pc \notin Critical /\ calls[c].pc \notin Critical /\ st.cell # "busy"
    BY <2>2, <2>3, <2>5 DEF Critical
  <2> QED
    BY <1>1, <1>2, <1>5, <1>6, <2>2, <2>3, <2>4, <2>5, <2>6, CallStep DEF old
<1>16. CASE DropReservation(c)
  <2>1. /\ calls[c].pc = "release" /\ states' = [states EXCEPT ![i] = old]
        /\ calls' = [calls EXCEPT ![c] = NoCall]
    BY <1>0, <1>2, <1>16 DEF DropReservation, Return, old, TypeOK
  <2> QED
    BY <1>1, <1>2, <1>5, <1>6, <2>1, NoCallIsIdle, CallStep DEF old, Critical
<1>17. CASE Cancel(c)
  <2> DEFINE cell == IF calls[c].pc = "training" THEN "empty" ELSE old.cell
             st == [old EXCEPT !.cell = cell]
  <2>0. states = [states EXCEPT ![i] = old] /\ old = [old EXCEPT !.cell = old.cell]
    BY <1>0, <1>2 DEF TypeOK, SessionState, old
  <2>1. /\ calls[c].pc \in {"lock", "init", "training"} /\ states' = [states EXCEPT ![i] = st]
        /\ calls' = [calls EXCEPT ![c] = NoCall]
    BY <1>17, <2>0 DEF Cancel, Abandon, Return, old
  <2>2. st \in SessionState
    BY <1>0, <1>2 DEF SessionState
  <2>3. /\ st.used = old.used /\ st.locked = old.locked /\ st.len = old.len
        /\ st.cell = cell /\ st.access = old.access /\ st.served = old.served
        /\ cell = "busy" <=> old.cell = "busy" /\ calls[c].pc # "training"
    BY <1>2 DEF SessionState
  <2> HIDE DEF st, cell
  <2> QED
    BY <1>1, <1>2, <1>5, <1>6, <2>1, <2>2, <2>3, NoCallIsIdle, CallStep DEF old, Critical
<1>18. old.len < N_TRAIN \/ old.len >= N_TRAIN
  BY <1>0, <1>2
<1> QED
  BY <1>7, <1>8, <1>9, <1>10, <1>11, <1>12, <1>13, <1>14, <1>15, <1>16, <1>17, <1>18 DEF Step

-----------------------------------------------------------------------------
(* The other actions. *)

(***************************************************************************)
(* A call begins on the state of its session, which it creates when there  *)
(* is none: nobody else can have the new state yet.                        *)
(***************************************************************************)
LEMMA StartInv ==
  ASSUME StoreInv, NEW c \in Callers, Idle(c), NEW s \in Sessions,
         NEW op \in {"train", "register"}, NEW size \in Nat,
         session_state(c, s, op, size), Disturbs, now' = now
  PROVE  StoreInv'
<1>1. PICK i \in StateIds :
        /\ \/ map[s] # 0 /\ i = map[s] /\ map' = map /\ states' = states
           \/ /\ ~states[i].used
              /\ map' = [map EXCEPT ![s] = i]
              /\ states' = [states EXCEPT ![i] = NewState]
        /\ calls' = [calls EXCEPT ![c] =
             [NoCall EXCEPT !.pc = "found", !.op = op, !.id = i, !.size = size]]
  BY DEF session_state
<1> DEFINE call == [NoCall EXCEPT !.pc = "found", !.op = op, !.id = i, !.size = size]
<1>2. /\ TypeOK /\ i \in 0..MaxStates /\ i # 0 /\ in_flight' = in_flight /\ now \in Nat
      /\ N_TRAIN \in Nat \ {0}
  BY <1>1, DictionaryAssumption DEF StoreInv, TypeOK, StateIds, session_state
<1>3. call \in Call /\ call.pc = "found" /\ call.id = i
  BY <1>2 DEF NoCall, Call, Pc
<1>4. calls' = [calls EXCEPT ![c] = call]
  BY <1>1
<1> HIDE DEF call
<1>5. \A d \in Callers : calls'[d] = IF d = c THEN call ELSE calls[d]
  BY <1>2, <1>4 DEF TypeOK
<1>6. \A d \in Callers, j \in StateIds : /\ InCritical(d, j)' <=> InCritical(d, j)
                                         /\ Training(d, j)' <=> Training(d, j)
  BY <1>3, <1>5 DEF InCritical, Training, Critical, Idle
<1>7. \A d \in Callers : calls'[d].pc = "admit" => d # c /\ calls'[d] = calls[d]
  BY <1>3, <1>5
<1>8. calls' \in [Callers -> Call]
  BY <1>2, <1>3, <1>4 DEF TypeOK
<1>9. CASE map' = map /\ states' = states /\ map[s] # 0 /\ i = map[s]
  <2>1. TypeOK'
    BY <1>2, <1>8, <1>9, DisturbsType DEF TypeOK
  <2>2. Reached'
    <3>1. \A d \in Callers : calls'[d].pc # "idle" => calls'[d].id \in StateIds /\ states[calls'[d].id].used
      BY <1>1, <1>3, <1>5, <1>9 DEF StoreInv, Reached, State
    <3> QED
      BY <1>9, <3>1 DEF StoreInv, Reached, State
  <2>3. OneAtATime'
    BY <1>6, <1>9 DEF StoreInv, OneAtATime
  <2>4. CorpusBounded'
    BY <1>7, <1>9 DEF StoreInv, CorpusBounded, State
  <2>5. StampsOK'
    BY <1>2, <1>9, DisturbsType DEF StoreInv, StampsOK
  <2> QED
    BY <2>1, <2>2, <2>3, <2>4, <2>5 DEF StoreInv
<1>10. CASE /\ ~states[i].used
            /\ map' = [map EXCEPT ![s] = i]
            /\ states' = [states EXCEPT ![i] = NewState]
  <2>1. /\ NewState \in SessionState /\ NewState.used /\ ~NewState.locked /\ NewState.cell = "empty"
        /\ NewState.len = 0 /\ NewState.served = 0 /\ NewState.access = now
    BY <1>2 DEF NewState, NoState, SessionState
  <2>2. /\ \A j \in StateIds : states'[j] = IF j = i THEN NewState ELSE states[j]
        /\ \A t \in Sessions : map'[t] = IF t = s THEN i ELSE map[t]
    BY <1>2, <1>10 DEF TypeOK
  <2>3. TypeOK'
    <3>1. map' \in [Sessions -> 0..MaxStates] /\ states' \in [StateIds -> SessionState]
      BY <1>2, <1>10, <2>1 DEF TypeOK
    <3> QED
      BY <1>2, <1>8, <3>1, DisturbsType DEF TypeOK
  <2>4. \A d \in Callers : calls[d].pc # "idle" => calls[d].id \in StateIds /\ calls[d].id # i
    BY <1>10 DEF StoreInv, Reached, State
  <2>5. Reached'
    <3>1. \A d \in Callers : calls'[d].pc # "idle" => calls'[d].id \in StateIds /\ states'[calls'[d].id].used
      BY <1>3, <1>5, <2>1, <2>2, <2>4 DEF StoreInv, Reached, State
    <3>2. \A t \in Sessions : map[t] # 0 => map[t] \in StateIds /\ states[map[t]].used
      BY <1>2 DEF StoreInv, Reached, TypeOK, StateIds
    <3>3. \A t \in Sessions : map'[t] # 0 => states'[map'[t]].used
      BY <2>1, <2>2, <3>2
    <3> QED
      BY <3>1, <3>3 DEF Reached, State
  <2>6. \A d \in Callers : ~InCritical(d, i) /\ ~Training(d, i)
    BY <2>4 DEF InCritical, Training, Critical
  <2>7. OneAtATime'
    <3> SUFFICES ASSUME NEW j \in StateIds
                 PROVE  /\ states'[j].locked <=> \E d \in Callers : InCritical(d, j)'
                        /\ (states'[j].cell = "busy") <=> \E d \in Callers : Training(d, j)'
                        /\ \A d, e \in Callers :
                             \/ InCritical(d, j)' /\ InCritical(e, j)'
                             \/ Training(d, j)' /\ Training(e, j)'
                             => d = e
      BY DEF OneAtATime
    <3>1. CASE j = i
      BY <1>6, <2>1, <2>2, <2>6, <3>1
    <3>2. CASE j # i
      <4>1. states'[j] = states[j]
        BY <2>2, <3>2
      <4> QED
        BY <1>6, <4>1 DEF StoreInv, OneAtATime
    <3> QED
      BY <3>1, <3>2
  <2>8. CorpusBounded'
    <3>1. \A j \in StateIds : states'[j].len <= N_TRAIN
      BY <1>2, <2>1, <2>2 DEF StoreInv, CorpusBounded
    <3>2. \A d \in Callers : calls'[d].pc = "admit" => states'[calls'[d].id].len < N_TRAIN
      BY <1>7, <2>2, <2>4 DEF StoreInv, CorpusBounded, State
    <3> QED
      BY <3>1, <3>2 DEF CorpusBounded, State
  <2>9. StampsOK'
    <3>1. \A j \in StateIds : states'[j].served <= states'[j].access /\ states'[j].access <= now
      BY <1>2, <2>1, <2>2 DEF StoreInv, StampsOK
    <3> QED
      BY <1>2, <3>1, DisturbsType DEF StoreInv, StampsOK
  <2> QED
    BY <2>3, <2>5, <2>7, <2>8, <2>9 DEF StoreInv
<1> QED
  BY <1>1, <1>9, <1>10

(* A served dictionary: only the two time stamps of its state change. *)
LEMMA ServeInv ==
  ASSUME StoreInv, NEW s \in Sessions, GetDictionary(s)
  PROVE  StoreInv'
<1> DEFINE i == map[s]
           st == [states[i] EXCEPT !.access = now, !.served = now]
<1>1. /\ TypeOK /\ i \in StateIds /\ states[i] \in SessionState /\ now \in Nat
      /\ states' = [states EXCEPT ![i] = st]
      /\ UNCHANGED <<map, in_flight, calls, sweep, now>>
  BY DEF StoreInv, TypeOK, StateIds, GetDictionary
<1>2. /\ st \in SessionState /\ st.used = states[i].used /\ st.locked = states[i].locked
      /\ st.len = states[i].len /\ st.cell = states[i].cell /\ st.access = now /\ st.served = now
  BY <1>1 DEF SessionState
<1> HIDE DEF st
<1>3. /\ \A j \in StateIds : states'[j] = IF j = i THEN st ELSE states[j]
      /\ states' \in [StateIds -> SessionState]
  BY <1>1, <1>2 DEF TypeOK
<1> HIDE DEF i
<1>4. /\ \A j \in StateIds : /\ states'[j].used = states[j].used
                             /\ states'[j].locked = states[j].locked
                             /\ states'[j].len = states[j].len
                             /\ states'[j].cell = states[j].cell
  BY <1>2, <1>3
<1>5. TypeOK'
  BY <1>1, <1>3 DEF TypeOK
<1>6. Reached'
  <2>1. \A t \in Sessions : map[t] # 0 => map[t] \in StateIds
    BY <1>1 DEF TypeOK, StateIds
  <2> QED
    BY <1>1, <1>4, <2>1 DEF StoreInv, Reached, State
<1>7. OneAtATime'
  <2>1. \A d \in Callers, j \in StateIds : /\ InCritical(d, j)' <=> InCritical(d, j)
                                           /\ Training(d, j)' <=> Training(d, j)
    BY <1>1 DEF InCritical, Training
  <2> QED
    BY <1>4, <2>1 DEF StoreInv, OneAtATime
<1>8. CorpusBounded'
  <2>1. \A c \in Callers : calls[c].pc = "admit" => calls[c].id \in StateIds
    BY DEF StoreInv, Reached
  <2> QED
    BY <1>1, <1>4, <2>1 DEF StoreInv, CorpusBounded, State
<1>9. StampsOK'
  BY <1>1, <1>2, <1>3 DEF StoreInv, StampsOK
<1> QED
  BY <1>5, <1>6, <1>7, <1>8, <1>9 DEF StoreInv

(***************************************************************************)
(* The sweep and the clock: they touch neither a call nor a state, and     *)
(* only take sessions out of the map.                                      *)
(***************************************************************************)
LEMMA SweepInv ==
  ASSUME StoreInv, UNCHANGED <<states, calls>>, TypeOK', now' >= now, sweep'.now <= now',
         \A s \in Sessions : map'[s] \in {0, map[s]}
  PROVE  StoreInv'
<1>1. Reached'
  BY DEF StoreInv, Reached, State
<1>2. OneAtATime'
  <2>1. \A d \in Callers, j \in StateIds : /\ InCritical(d, j)' <=> InCritical(d, j)
                                           /\ Training(d, j)' <=> Training(d, j)
    BY DEF InCritical, Training
  <2> QED
    BY <2>1 DEF StoreInv, OneAtATime
<1>3. CorpusBounded'
  BY DEF StoreInv, CorpusBounded, State
<1>4. StampsOK'
  <2>1. \A i \in StateIds : states[i].access \in Nat /\ states[i].access <= now
    BY DEF StoreInv, StampsOK, TypeOK, SessionState
  <2>2. \A i \in StateIds : states[i].access <= now'
    BY <2>1 DEF StoreInv, TypeOK
  <2> QED
    BY <2>2 DEF StoreInv, StampsOK
<1> QED
  BY <1>1, <1>2, <1>3, <1>4 DEF StoreInv

(* An empty store satisfies the invariant. *)
LEMMA InitInv == Init => StoreInv
<1> SUFFICES ASSUME Init PROVE StoreInv
  OBVIOUS
<1>0. /\ N_TRAIN \in Nat \ {0} /\ MaxStates \in Nat \ {0}
  BY DictionaryAssumption
<1>1. /\ \A i \in StateIds : states[i] = NoState
      /\ \A c \in Callers : calls[c] = NoCall
      /\ \A s \in Sessions : map[s] = 0
  BY DEF Init
<1>2. NoState \in SessionState /\ ~NoState.locked /\ NoState.cell = "empty"
      /\ NoState.len = 0 /\ NoState.access = 0 /\ NoState.served = 0
  BY DEF NoState, SessionState
<1>3. TypeOK
  BY <1>0, <1>2, NoCallIsIdle DEF Init, TypeOK, NoSweep
<1>4. Reached
  BY <1>1, NoCallIsIdle DEF Reached
<1>5. OneAtATime
  BY <1>1, <1>2, NoCallIsIdle DEF OneAtATime, InCritical, Training, Critical
<1>6. CorpusBounded
  BY <1>0, <1>1, <1>2, NoCallIsIdle DEF CorpusBounded
<1>7. StampsOK
  BY <1>1, <1>2 DEF StampsOK, Init, NoSweep
<1> QED
  BY <1>3, <1>4, <1>5, <1>6, <1>7 DEF StoreInv

(* Every step of a caller, of the sweep and of the clock keeps it. *)
LEMMA NextInv == StoreInv /\ [Next]_vars => StoreInv'
<1> SUFFICES ASSUME StoreInv, [Next]_vars PROVE StoreInv'
  OBVIOUS
<1>0. TypeOK /\ now \in Nat /\ sweep.now \in Nat /\ sweep.now <= now
  BY DEF StoreInv, TypeOK, StampsOK
<1>1. ASSUME NEW c \in Callers, TrainIfReady(c) PROVE StoreInv'
  BY <1>1, StartInv, DictionaryAssumption DEF TrainIfReady
<1>2. ASSUME NEW c \in Callers, Register(c) PROVE StoreInv'
  BY <1>2, StartInv DEF Register
<1>3. ASSUME NEW c \in Callers, Step(c) \/ Cancel(c) PROVE StoreInv'
  BY <1>3, StepInv
<1>4. ASSUME NEW s \in Sessions, GetDictionary(s) PROVE StoreInv'
  BY <1>4, ServeInv
<1>5. ASSUME NEW s \in Sessions, Retain(s) PROVE StoreInv'
  <2>1. /\ map' \in [Sessions -> 0..MaxStates]
        /\ \A t \in Sessions : map'[t] \in {0, map[t]}
    <3> DEFINE v == IF map[s] # 0 /\ Expired(map[s]) THEN 0 ELSE map[s]
    <3>1. v \in {0, map[s]}
      OBVIOUS
    <3>2. map' = [map EXCEPT ![s] = v]
      BY <1>5 DEF Retain
    <3>3. 0 \in 0..MaxStates
      BY DictionaryAssumption
    <3> HIDE DEF v
    <3> QED
      BY <1>0, <3>1, <3>2, <3>3 DEF TypeOK
  <2>2. /\ sweep' \in [pc : {"idle", "retain", "sum", "store"}, now : Nat, todo : SUBSET Sessions,
                       total : Nat, disturbed : BOOLEAN]
        /\ sweep'.now = sweep.now
    <3> DEFINE todo == IF sweep.todo = {s} THEN Sessions ELSE sweep.todo \ {s}
               pc == IF sweep.todo = {s} THEN "sum" ELSE sweep.pc
    <3>1. todo \in SUBSET Sessions /\ pc \in {"idle", "retain", "sum", "store"}
      BY <1>0 DEF TypeOK
    <3>2. sweep' = [sweep EXCEPT !.todo = todo, !.pc = pc]
      BY <1>5 DEF Retain
    <3> HIDE DEF todo, pc
    <3> QED
      BY <1>0, <3>1, <3>2 DEF TypeOK
  <2>3. TypeOK' /\ UNCHANGED <<states, calls, now>>
    BY <1>0, <1>5, <2>1, <2>2 DEF Retain, TypeOK
  <2> QED
    BY <1>0, <2>1, <2>2, <2>3, SweepInv
<1>6. ASSUME NEW s \in Sessions, SumEntry(s) PROVE StoreInv'
  <2> DEFINE bytes == IF map[s] = 0 THEN 0 ELSE states[map[s]].pending
             total == sweep.total + bytes
             pc == IF sweep.todo = {s} THEN "store" ELSE sweep.pc
             todo == sweep.todo \ {s}
  <2>1. bytes \in Nat
    BY <1>0 DEF TypeOK, SessionState, StateIds
  <2> HIDE DEF bytes
  <2>2. total \in Nat
    BY <1>0, <2>1 DEF TypeOK
  <2>3. sweep' = [sweep EXCEPT !.todo = todo, !.total = total, !.pc = pc]
    BY <1>6 DEF SumEntry, bytes
  <2>4. pc \in {"idle", "retain", "sum", "store"} /\ todo \in SUBSET Sessions
    BY <1>0 DEF TypeOK
  <2> HIDE DEF total, pc, todo
  <2>5. /\ sweep' \in [pc : {"idle", "retain", "sum", "store"}, now : Nat, todo : SUBSET Sessions,
                       total : Nat, disturbed : BOOLEAN]
        /\ sweep'.now = sweep.now
    BY <1>0, <2>2, <2>3, <2>4 DEF TypeOK
  <2>6. TypeOK' /\ UNCHANGED <<map, states, calls, now>>
    BY <1>0, <1>6, <2>5 DEF SumEntry, TypeOK
  <2> QED
    BY <1>0, <2>5, <2>6, SweepInv
<1>7. CASE BeginSweep
  <2> DEFINE b == \E c \in Callers : ~Idle(c)
  <2>1. b \in BOOLEAN
    OBVIOUS
  <2>2. sweep' = [pc |-> "retain", now |-> now, todo |-> Sessions, total |-> 0, disturbed |-> b]
    BY <1>7 DEF BeginSweep
  <2> HIDE DEF b
  <2>3. TypeOK' /\ sweep'.now = now /\ UNCHANGED <<map, states, calls, now>>
    BY <1>0, <1>7, <2>1, <2>2 DEF BeginSweep, TypeOK
  <2> QED
    BY <1>0, <2>3, SweepInv
<1>8. CASE Resync
  <2>1. TypeOK' /\ sweep'.now = 0 /\ UNCHANGED <<map, states, calls, now>>
    BY <1>0, <1>8 DEF Resync, NoSweep, TypeOK
  <2> QED
    BY <1>0, <2>1, SweepInv
<1>9. CASE Tick
  <2>1. now' = now + 1 /\ UNCHANGED <<map, states, in_flight, calls, sweep>>
    BY <1>9 DEF Tick
  <2>2. TypeOK' /\ sweep'.now <= now' /\ now' >= now
    BY <1>0, <2>1 DEF TypeOK
  <2> QED
    BY <2>1, <2>2, SweepInv
<1>10. CASE UNCHANGED vars \/ \E j \in Jobs : DetachedEnds(j)
  <2>1. TypeOK' /\ sweep'.now <= now' /\ now' >= now /\ UNCHANGED <<map, states, calls>>
    BY <1>0, <1>10 DEF TypeOK, vars, DetachedEnds
  <2> QED
    BY <2>1, SweepInv
<1> QED
  BY <1>1, <1>2, <1>3, <1>4, <1>5, <1>6, <1>7, <1>8, <1>9, <1>10 DEF Next

(* The inductive invariant of the dictionary store holds throughout. *)
THEOREM Invariance == Spec => []StoreInv
<1> QED
  BY InitInv, NextInv, PTL DEF Spec

(***************************************************************************)
(* The state of a dictionary is never torn by callers that race, fail, are *)
(* dropped at an await, or outlive the eviction of their session: the      *)
(* mutex and the cell are taken exactly while one caller has them.         *)
(***************************************************************************)
THEOREM ExclusiveTraining == Spec => []OneAtATime
<1>1. StoreInv => OneAtATime
  BY DEF StoreInv
<1> QED
  BY <1>1, Invariance, PTL

(* No race at the threshold grows a corpus past N_TRAIN samples. *)
THEOREM CorporaBounded == Spec => []CorpusBounded
<1>1. StoreInv => CorpusBounded
  BY DEF StoreInv
<1> QED
  BY <1>1, Invariance, PTL

(* Only the sweep takes a session out of the map, and only an expired one. *)
LEMMA OnlyRetainEvicts ==
  ASSUME StoreInv, [Next]_vars, NEW s \in Sessions, map[s] # 0, map'[s] = 0
  PROVE  Expired(map[s]) /\ now' = now
<1>0. TypeOK
  BY DEF StoreInv
<1>1. ASSUME NEW c \in Callers, NEW t \in Sessions, NEW op, NEW z, session_state(c, t, op, z)
      PROVE  FALSE
  <2>1. PICK i \in StateIds : map' = map \/ map' = [map EXCEPT ![t] = i]
    BY <1>1 DEF session_state
  <2>2. i # 0
    BY DictionaryAssumption DEF StateIds
  <2> QED
    BY <1>0, <2>1, <2>2 DEF TypeOK
<1>2. ASSUME NEW c \in Callers PROVE ~TrainIfReady(c) /\ ~Register(c)
  BY <1>1 DEF TrainIfReady, Register
<1>3. ASSUME NEW c \in Callers PROVE ~Step(c) /\ ~Cancel(c)
  BY DEF Step, RegisterSet, Touch, Reserve, Admit, Undo, Decide, GetOrTryInit, Trained,
         DropReservation, Cancel, Abandon
<1>4. ASSUME NEW t \in Sessions PROVE ~GetDictionary(t) /\ ~SumEntry(t)
  BY DEF GetDictionary, SumEntry
<1>5. ~BeginSweep /\ ~Resync /\ ~Tick /\ ~UNCHANGED vars /\ ~\E j \in Jobs : DetachedEnds(j)
  BY DEF BeginSweep, Resync, Tick, DetachedEnds, vars
<1>6. PICK t \in Sessions : Retain(t)
  BY <1>2, <1>3, <1>4, <1>5 DEF Next
<1> QED
  BY <1>0, <1>6 DEF Retain, TypeOK

(***************************************************************************)
(* The property of the runs: a sweep never evicts a session whose          *)
(* dictionary was served within the TTL, however the sweep's clock         *)
(* reading and the read interleave, for every TTL and number of sessions.  *)
(***************************************************************************)
THEOREM ServedSessionsStay == Spec => ServedNotEvicted
<1> DEFINE Kept == \A s \in Sessions :
             (map[s] # 0 /\ map'[s] = 0 /\ states[map[s]].served > 0)
               => now - states[map[s]].served >= SESSION_TTL
<1>1. StoreInv /\ [Next]_vars => [Kept]_vars
  <2> SUFFICES ASSUME StoreInv, [Next]_vars, NEW s \in Sessions,
                      map[s] # 0, map'[s] = 0, states[map[s]].served > 0
               PROVE  now - states[map[s]].served >= SESSION_TTL
    OBVIOUS
  <2>1. Expired(map[s])
    BY OnlyRetainEvicts
  <2> DEFINE st == states[map[s]]
  <2>2. /\ st.access \in Nat /\ st.served \in Nat /\ st.served <= st.access /\ st.access <= now
        /\ sweep.now \in Nat /\ now \in Nat /\ sweep.now <= now /\ SESSION_TTL \in Nat
    <3>1. TypeOK /\ StampsOK
      BY DEF StoreInv
    <3>2. map[s] \in StateIds
      <4>1. MaxStates \in Nat /\ map[s] \in 0..MaxStates
        BY <3>1, DictionaryAssumption DEF TypeOK
      <4> QED
        BY <4>1 DEF StateIds
    <3>3. st \in SessionState
      BY <3>1, <3>2 DEF TypeOK
    <3>4. st.access \in Nat /\ st.served \in Nat
      <4> HIDE DEF st
      <4> QED
        BY <3>3 DEF SessionState
    <3>5. st.served <= st.access /\ st.access <= now /\ sweep.now <= now
      BY <3>1, <3>2 DEF StampsOK
    <3>6. sweep.now \in Nat /\ now \in Nat
      BY <3>1 DEF TypeOK
    <3>7. SESSION_TTL \in Nat
      BY DictionaryAssumption
    <3> QED
      BY <3>4, <3>5, <3>6, <3>7
  <2>3. SaturatingSub(sweep.now, st.access) >= SESSION_TTL
    BY <2>1 DEF Expired
  <2> HIDE DEF st
  <2>4. now - st.served >= SESSION_TTL
    BY <2>2, <2>3 DEF SaturatingSub
  <2> QED
    BY <2>4 DEF st
<1> QED
  BY <1>1, Invariance, PTL DEF Spec, ServedNotEvicted

-----------------------------------------------------------------------------
(* Totals. *)

(* The units of finitely many amounts, as pairs. *)
LEMMA UnitsOf ==
  ASSUME NEW f, NEW p
  PROVE  p \in Units(f) <=> \E x \in DOMAIN f : \E b \in 1..f[x] : p = <<x, b>>
  BY DEF Units

(* A total is a number. *)
LEMMA TotalNat ==
  ASSUME NEW f, IsFiniteSet(DOMAIN f), \A x \in DOMAIN f : f[x] \in Nat
  PROVE  IsFiniteSet(Units(f)) /\ Total(f) \in Nat
<1> DEFINE D == DOMAIN f
           image == [x \in D |-> {x} \X (1..f[x])]
           parts == {image[x] : x \in D}
<1>1. IsFiniteSet(parts)
  <2>1. image \in Surjection(D, parts)
    BY DEF Surjection
  <2> HIDE DEF image, parts
  <2> QED
    BY <2>1, FS_Surjection
<1>2. ASSUME NEW x \in D PROVE IsFiniteSet(image[x])
  <2>1. 1 \in Int /\ f[x] \in Int
    OBVIOUS
  <2>2. IsFiniteSet(1..f[x])
    BY ONLY <2>1, FS_Interval
  <2> QED
    BY <2>2, FS_Singleton, FS_Product
<1>3. Units(f) = UNION parts
  BY DEF Units
<1>4. \A T \in parts : IsFiniteSet(T)
  BY <1>2
<1> HIDE DEF parts
<1>5. IsFiniteSet(UNION parts)
  BY <1>1, <1>4, FS_UNION
<1> QED
  BY <1>3, <1>5, FS_CardinalityType DEF Total

(* Equal amounts have equal totals. *)
LEMMA TotalSame ==
  ASSUME NEW f, NEW g, DOMAIN g = DOMAIN f, \A x \in DOMAIN f : g[x] = f[x]
  PROVE  Total(g) = Total(f)
<1>1. \A p : p \in Units(g) <=> p \in Units(f)
  BY UnitsOf
<1>2. Units(g) = Units(f)
  BY <1>1
<1> QED
  BY <1>2 DEF Total

(* Nothing adds up to nothing. *)
LEMMA TotalZero ==
  ASSUME NEW f, \A x \in DOMAIN f : f[x] = 0
  PROVE  Total(f) = 0
<1>1. Units(f) = {}
  <2> SUFFICES ASSUME NEW p \in Units(f) PROVE FALSE
    OBVIOUS
  <2>1. PICK x \in DOMAIN f : \E b \in 1..f[x] : p = <<x, b>>
    BY UnitsOf
  <2> QED
    BY <2>1
<1> QED
  BY <1>1, FS_EmptySet DEF Total

(* Smaller amounts, or fewer, have a smaller total. *)
LEMMA TotalWithin ==
  ASSUME NEW f, NEW g, IsFiniteSet(DOMAIN g), \A x \in DOMAIN g : g[x] \in Nat,
         DOMAIN f \subseteq DOMAIN g, \A x \in DOMAIN f : f[x] \in Nat /\ f[x] <= g[x]
  PROVE  Total(f) <= Total(g)
<1>1. Units(f) \subseteq Units(g)
  <2> SUFFICES ASSUME NEW p \in Units(f) PROVE p \in Units(g)
    OBVIOUS
  <2>1. PICK x \in DOMAIN f : \E b \in 1..f[x] : p = <<x, b>>
    BY UnitsOf
  <2>2. PICK b \in 1..f[x] : p = <<x, b>>
    BY <2>1
  <2>3. x \in DOMAIN g /\ b \in 1..g[x]
    BY <2>1, <2>2
  <2> QED
    BY <2>2, <2>3, UnitsOf
<1>2. IsFiniteSet(Units(g))
  BY TotalNat
<1> QED
  BY <1>1, <1>2, FS_Subset DEF Total

(* One amount taken out. *)
LEMMA TotalWithout ==
  ASSUME NEW f, IsFiniteSet(DOMAIN f), \A x \in DOMAIN f : f[x] \in Nat, NEW x \in DOMAIN f,
         NEW g, DOMAIN g = DOMAIN f \ {x}, \A y \in DOMAIN g : g[y] = f[y]
  PROVE  Total(g) \in Nat /\ Total(f) = Total(g) + f[x]
<1> DEFINE own == {x} \X (1..f[x])
<1>1. IsFiniteSet(Units(g)) /\ Total(g) \in Nat
  BY FS_Subset, TotalNat
<1>2. IsFiniteSet(own) /\ Cardinality(own) = f[x]
  <2> DEFINE n == f[x]
  <2>1. 1 \in Int /\ n \in Int /\ n \in Nat
    OBVIOUS
  <2> HIDE DEF n
  <2>2. IsFiniteSet(1..n) /\ Cardinality(1..n) = IF 1 > n THEN 0 ELSE n - 1 + 1
    BY ONLY <2>1, FS_Interval
  <2>3. Cardinality(1..n) = n
    BY <2>1, <2>2
  <2>4. IsFiniteSet({x}) /\ Cardinality({x}) = 1
    BY FS_Singleton
  <2>5. IsFiniteSet({x} \X (1..n)) /\ Cardinality({x} \X (1..n)) = Cardinality({x}) * Cardinality(1..n)
    BY <2>2, <2>4, FS_Product
  <2>6. 1 * n = n
    BY <2>1
  <2> QED
    BY <2>3, <2>4, <2>5, <2>6 DEF n
<1>3. Units(f) = Units(g) \union own
  <2>1. \A p : p \in own <=> \E b \in 1..f[x] : p = <<x, b>>
    OBVIOUS
  <2> HIDE DEF own
  <2> QED
    BY <2>1, UnitsOf
<1>4. Units(g) \intersect own = {}
  <2>1. \A p \in own : p[1] = x
    OBVIOUS
  <2>2. \A p \in Units(g) : p[1] \in DOMAIN g
    BY UnitsOf
  <2> QED
    BY <2>1, <2>2
<1> HIDE DEF own
<1>5. Cardinality(Units(f)) = Cardinality(Units(g)) + Cardinality(own)
                                - Cardinality(Units(g) \intersect own)
  BY <1>1, <1>2, <1>3, FS_Union
<1>6. Cardinality(Units(g) \intersect own) = 0
  BY <1>4, FS_EmptySet
<1> QED
  BY <1>1, <1>2, <1>5, <1>6 DEF Total

(* One amount changed. *)
LEMMA TotalChange ==
  ASSUME NEW f, IsFiniteSet(DOMAIN f), \A x \in DOMAIN f : f[x] \in Nat, NEW x \in DOMAIN f,
         NEW g, DOMAIN g = DOMAIN f, g[x] \in Nat, \A y \in DOMAIN f : y # x => g[y] = f[y]
  PROVE  /\ Total(f) \in Nat /\ Total(g) \in Nat
         /\ Total(g) + f[x] = Total(f) + g[x]
<1> DEFINE h == [y \in DOMAIN f \ {x} |-> f[y]]
<1>1. DOMAIN h = DOMAIN f \ {x} /\ \A y \in DOMAIN h : h[y] = f[y] /\ h[y] = g[y]
  OBVIOUS
<1>2. \A y \in DOMAIN g : g[y] \in Nat
  OBVIOUS
<1> HIDE DEF h
<1>3. Total(h) \in Nat /\ Total(f) = Total(h) + f[x]
  BY <1>1, TotalWithout
<1>4. Total(g) = Total(h) + g[x]
  BY <1>1, <1>2, TotalWithout
<1> QED
  BY <1>3, <1>4

-----------------------------------------------------------------------------
(* The byte budget. *)

(* The bytes a caller has and keeps: an admission decided, or a snapshot. *)
Firm(c) == IF calls[c].pc = "admit" THEN calls[c].size ELSE calls[c].reserved

(* The states that the sweep has read. *)
Summed == {map[s] : s \in Sessions \ sweep.todo} \ {0}

(* Every session has a state of its own; only a snapshot is reserved. *)
OwnState ==
  /\ \A s, t \in Sessions : map[s] # 0 /\ map[s] = map[t] => s = t
  /\ \A c \in Callers : calls[c].pc \notin {"init", "training", "release"} => calls[c].reserved = 0

(***************************************************************************)
(* A sweep that no call has disturbed ran while every caller was idle, and *)
(* its total is what it would read now from the states it has visited.     *)
(***************************************************************************)
SweepReads ==
  /\ sweep.pc = "idle" => ~sweep.disturbed
  /\ sweep.pc # "idle" /\ ~sweep.disturbed => \A c \in Callers : Idle(c)
  /\ sweep.pc = "retain" => sweep.total = 0
  /\ sweep.pc = "store" => sweep.todo = {}
  /\ sweep.pc \in {"sum", "store"} /\ ~sweep.disturbed =>
       sweep.total = Total([i \in Summed |-> states[i].pending])

(***************************************************************************)
(* Outside sweeps, and unless the last one overlapped a call, every call   *)
(* is on a state of the map, and the counter is the sum.                   *)
(***************************************************************************)
Exact ==
  /\ \A c \in Callers : ~Idle(c) => calls[c].id \in Live
  /\ in_flight = Held + Total([c \in Callers |-> Transient(c)])

(* The bytes that are kept stay within the budget, also during a sweep. *)
Within == Held + Total([c \in Callers |-> Firm(c)]) <= TOTAL_CORPUS_BYTE_BUDGET

BudgetInv ==
  /\ OwnState
  /\ SweepReads
  /\ sweep.pc = "idle" /\ drift # "now" => Exact
  /\ drift = "no" /\ ~sweep.disturbed => Within

-----------------------------------------------------------------------------
(* What the sums are over. *)

(* A session's state, and its bytes. *)
LEMMA Pending ==
  ASSUME TypeOK, NEW j \in StateIds
  PROVE  states[j] \in SessionState /\ states[j].pending \in Nat
  BY DEF TypeOK, SessionState

(* The states of the map, and those the sweep has read, are finitely many. *)
LEMMA LiveStates ==
  ASSUME TypeOK
  PROVE  /\ IsFiniteSet(Live) /\ Live \subseteq StateIds
         /\ IsFiniteSet(Summed) /\ Summed \subseteq Live
<1>1. \A s \in Sessions : map[s] # 0 => map[s] \in StateIds
  BY DictionaryAssumption DEF TypeOK, StateIds
<1>2. Live \subseteq StateIds /\ Summed \subseteq Live
  BY <1>1 DEF Live, Summed
<1>3. IsFiniteSet(StateIds)
  <2>1. 1 \in Int /\ MaxStates \in Int
    BY DictionaryAssumption
  <2>2. IsFiniteSet(1..MaxStates)
    BY ONLY <2>1, FS_Interval
  <2> QED
    BY <2>2 DEF StateIds
<1> QED
  BY <1>2, <1>3, FS_Subset

(* What waits in the map is a number of bytes. *)
LEMMA HeldNat ==
  ASSUME TypeOK
  PROVE  Held \in Nat
<1> DEFINE f == [j \in Live |-> states[j].pending]
<1>1. IsFiniteSet(DOMAIN f) /\ \A j \in DOMAIN f : f[j] \in Nat
  BY LiveStates, Pending
<1>2. Held = Total(f)
  BY DEF Held
<1> HIDE DEF f
<1> QED
  BY <1>1, <1>2, TotalNat

(* So is what a caller holds, and what it keeps is part of it. *)
LEMMA CallerBytes ==
  ASSUME TypeOK, NEW c \in Callers
  PROVE  /\ calls[c].size \in Nat /\ calls[c].reserved \in Nat
         /\ Transient(c) \in Nat /\ Firm(c) \in Nat
         /\ OwnState => Firm(c) <= Transient(c)
<1>1. calls[c].size \in Nat /\ calls[c].reserved \in Nat
  BY DEF TypeOK, Call
<1>2. CASE calls[c].pc = "admit"
  BY <1>1, <1>2 DEF Transient, Firm
<1>3. CASE calls[c].pc = "undo"
  BY <1>1, <1>3 DEF Transient, Firm, OwnState
<1>4. CASE calls[c].pc \notin {"admit", "undo"}
  BY <1>1, <1>4 DEF Transient, Firm
<1> QED
  BY <1>1, <1>2, <1>3, <1>4

(* The totals of the callers. *)
LEMMA CallerTotals ==
  ASSUME TypeOK
  PROVE  /\ Total([d \in Callers |-> Transient(d)]) \in Nat
         /\ Total([d \in Callers |-> Firm(d)]) \in Nat
         /\ OwnState => Total([d \in Callers |-> Firm(d)]) <= Total([d \in Callers |-> Transient(d)])
         /\ \A c \in Callers : Transient(c) <= Total([d \in Callers |-> Transient(d)])
<1> DEFINE T == [d \in Callers |-> Transient(d)]
           F == [d \in Callers |-> Firm(d)]
<1>1. /\ DOMAIN T = Callers /\ DOMAIN F = Callers /\ IsFiniteSet(Callers)
      /\ \A d \in Callers : T[d] \in Nat /\ F[d] \in Nat /\ T[d] = Transient(d)
      /\ OwnState => \A d \in Callers : F[d] <= T[d]
  BY CallerBytes, DictionaryAssumption
<1> HIDE DEF T, F
<1>2. Total(T) \in Nat /\ Total(F) \in Nat
  BY <1>1, TotalNat
<1>3. OwnState => Total(F) <= Total(T)
  BY <1>1, TotalWithin
<1>4. ASSUME NEW c \in Callers PROVE Transient(c) <= Total(T)
  <2> DEFINE g == [d \in Callers \ {c} |-> T[d]]
  <2>1. DOMAIN g = DOMAIN T \ {c} /\ \A d \in DOMAIN g : g[d] = T[d]
    BY <1>1
  <2> HIDE DEF g
  <2>2. Total(g) \in Nat /\ Total(T) = Total(g) + T[c]
    BY <1>1, <2>1, TotalWithout
  <2> QED
    BY <1>1, <2>2
<1> QED
  BY <1>2, <1>3, <1>4 DEF T, F

(* The sums of the budget and how they compare. *)
Sums ==
  /\ Held \in Nat
  /\ Total([d \in Callers |-> Transient(d)]) \in Nat
  /\ Total([d \in Callers |-> Firm(d)]) \in Nat
  /\ OwnState => Total([d \in Callers |-> Firm(d)]) <= Total([d \in Callers |-> Transient(d)])

(* Well-typed states have these sums, before a step and after it. *)
LEMMA SumsAreNumbers == TypeOK => Sums
  BY HeldNat, CallerTotals DEF Sums

(* One caller changes what it holds or keeps. *)
LEMMA CallerChange ==
  ASSUME TypeOK, TypeOK', NEW c \in Callers,
         \A d \in Callers : d # c => calls'[d] = calls[d]
  PROVE  /\ Total([d \in Callers |-> Transient(d)])' + Transient(c)
              = Total([d \in Callers |-> Transient(d)]) + Transient(c)'
         /\ Total([d \in Callers |-> Firm(d)])' + Firm(c)
              = Total([d \in Callers |-> Firm(d)]) + Firm(c)'
<1> DEFINE T == [d \in Callers |-> Transient(d)]
           F == [d \in Callers |-> Firm(d)]
           T1 == [d \in Callers |-> Transient(d)']
           F1 == [d \in Callers |-> Firm(d)']
<1>1. /\ \A d \in Callers : Transient(d) \in Nat /\ Firm(d) \in Nat
      /\ \A d \in Callers : Transient(d)' \in Nat /\ Firm(d)' \in Nat
  <2>1. \A d \in Callers : Transient(d) \in Nat /\ Firm(d) \in Nat
    BY CallerBytes
  <2>2. \A d \in Callers : calls'[d].size \in Nat /\ calls'[d].reserved \in Nat
    BY DEF TypeOK, Call
  <2> QED
    BY <2>1, <2>2 DEF Transient, Firm
<1>2. \A d \in Callers : d # c => Transient(d)' = Transient(d) /\ Firm(d)' = Firm(d)
  BY DEF Transient, Firm
<1>3. /\ DOMAIN T = Callers /\ DOMAIN F = Callers /\ DOMAIN T1 = Callers /\ DOMAIN F1 = Callers
      /\ IsFiniteSet(Callers)
      /\ \A d \in Callers : T[d] \in Nat /\ F[d] \in Nat /\ T1[d] \in Nat /\ F1[d] \in Nat
      /\ \A d \in Callers : d # c => T1[d] = T[d] /\ F1[d] = F[d]
      /\ T[c] = Transient(c) /\ F[c] = Firm(c) /\ T1[c] = Transient(c)' /\ F1[c] = Firm(c)'
  BY <1>1, <1>2, DictionaryAssumption
<1>4. /\ Total([d \in Callers |-> Transient(d)])' = Total(T1)
      /\ Total([d \in Callers |-> Firm(d)])' = Total(F1)
  OBVIOUS
<1> HIDE DEF T, F, T1, F1
<1>5. Total(T1) + T[c] = Total(T) + T1[c]
  BY <1>3, TotalChange
<1>6. Total(F1) + F[c] = Total(F) + F1[c]
  BY <1>3, TotalChange
<1> QED
  BY <1>3, <1>4, <1>5, <1>6 DEF T, F

(* One state of the map changes its bytes. *)
LEMMA HeldChange ==
  ASSUME TypeOK, TypeOK', map' = map, NEW i \in Live,
         \A j \in StateIds : j # i => states'[j].pending = states[j].pending
  PROVE  Held' + states[i].pending = Held + states'[i].pending
<1> DEFINE f == [j \in Live |-> states[j].pending]
           g == [j \in Live |-> states'[j].pending]
<1>1. IsFiniteSet(Live) /\ Live \subseteq StateIds
  BY LiveStates
<1>2. \A j \in StateIds : states[j].pending \in Nat /\ states'[j].pending \in Nat
  BY DEF TypeOK, SessionState
<1>3. Live' = Live
  BY DEF Live
<1>4. Held = Total(f) /\ Held' = Total(g)
  BY <1>3 DEF Held
<1>5. /\ DOMAIN f = Live /\ DOMAIN g = Live /\ f[i] = states[i].pending /\ g[i] = states'[i].pending
      /\ \A j \in Live : f[j] \in Nat /\ g[j] \in Nat
      /\ \A j \in Live : j # i => g[j] = f[j]
  BY <1>1, <1>2
<1> HIDE DEF f, g
<1>6. Total(g) + f[i] = Total(f) + g[i]
  BY <1>1, <1>5, TotalChange
<1> QED
  BY <1>4, <1>5, <1>6

(* No state changes its bytes. *)
LEMMA HeldSame ==
  ASSUME TypeOK, map' = map, \A j \in StateIds : states'[j].pending = states[j].pending
  PROVE  Held' = Held
<1> DEFINE f == [j \in Live |-> states[j].pending]
           g == [j \in Live |-> states'[j].pending]
<1>1. Live \subseteq StateIds /\ Live' = Live
  BY LiveStates DEF Live
<1>2. Held = Total(f) /\ Held' = Total(g)
  BY <1>1 DEF Held
<1>3. DOMAIN f = Live /\ DOMAIN g = Live /\ \A j \in Live : g[j] = f[j]
  BY <1>1
<1> HIDE DEF f, g
<1> QED
  BY <1>2, <1>3, TotalSame

-----------------------------------------------------------------------------
(* Preservation of the byte budget. *)

(* A step of a call that finds a sweep under way disturbs it. *)
LEMMA DisturbsSweep ==
  ASSUME TypeOK, Disturbs
  PROVE  /\ sweep'.pc = sweep.pc /\ sweep'.todo = sweep.todo /\ sweep'.total = sweep.total
         /\ sweep.pc # "idle" => sweep'.disturbed
         /\ sweep.pc = "idle" => sweep' = sweep
<1> DEFINE b == sweep.disturbed \/ sweep.pc # "idle"
<1>1. sweep' = [sweep EXCEPT !.disturbed = b] /\ (sweep.pc # "idle" => b)
      /\ (sweep.pc = "idle" => b = sweep.disturbed)
  BY DEF Disturbs, TypeOK
<1> HIDE DEF b
<1>2. /\ sweep'.pc = sweep.pc /\ sweep'.todo = sweep.todo /\ sweep'.total = sweep.total
      /\ sweep'.disturbed = b
  BY <1>1 DEF TypeOK
<1>3. sweep.pc = "idle" => sweep' = sweep
  BY <1>1 DEF TypeOK
<1> QED
  BY <1>1, <1>2, <1>3

(***************************************************************************)
(* During a sweep a step of a call leaves only what no sweep can change:   *)
(* the rest of the invariant speaks of undisturbed sweeps.                 *)
(***************************************************************************)
LEMMA DisturbedBudget ==
  ASSUME TypeOK, BudgetInv, Disturbs, sweep.pc # "idle", OwnState'
  PROVE  BudgetInv'
<1>1. sweep'.pc = sweep.pc /\ sweep'.todo = sweep.todo /\ sweep'.total = sweep.total /\ sweep'.disturbed
  BY DisturbsSweep
<1>2. SweepReads'
  BY <1>1 DEF BudgetInv, SweepReads
<1> QED
  BY <1>1, <1>2 DEF BudgetInv

(***************************************************************************)
(* Caller c, in a call on state i, changes the bytes that wait there, the  *)
(* bytes it holds and the counter.  The counter follows the sum, and what  *)
(* is kept does not grow, unless the counter itself is within the budget.  *)
(***************************************************************************)
LEMMA CallBudget ==
  ASSUME TypeOK, TypeOK', BudgetInv, NEW c \in Callers, ~Idle(c), NEW i, i = calls[c].id, i \in StateIds,
         map' = map, drift' = drift, Disturbs,
         \A j \in StateIds : j # i => states'[j].pending = states[j].pending,
         \A d \in Callers : d # c => calls'[d] = calls[d],
         calls'[c].pc # "idle" => calls'[c].id = i,
         calls'[c].pc \notin {"init", "training", "release"} => calls'[c].reserved = 0,
         Exact => in_flight' + states[i].pending + Transient(c) = in_flight + states'[i].pending + Transient(c)',
         \/ Exact => in_flight' <= TOTAL_CORPUS_BYTE_BUDGET
         \/ states'[i].pending + Firm(c)' <= states[i].pending + Firm(c)
  PROVE  BudgetInv'
<1>1. OwnState'
  BY DEF BudgetInv, OwnState
<1>2. CASE sweep.pc # "idle"
  BY <1>1, <1>2, DisturbedBudget
<1>3. CASE sweep.pc = "idle"
  <2>1. sweep' = sweep /\ ~sweep.disturbed
    BY <1>3, DisturbsSweep DEF BudgetInv, SweepReads
  <2>2. SweepReads'
    BY <1>3, <2>1 DEF BudgetInv, SweepReads
  <2>3. CASE drift = "now"
    BY <1>1, <2>1, <2>2, <2>3 DEF BudgetInv
  <2>4. CASE drift # "now"
    <3> DEFINE H == Held
               T == Total([d \in Callers |-> Transient(d)])
               F == Total([d \in Callers |-> Firm(d)])
               p == states[i].pending
               q == states'[i].pending
               a == Transient(c)
               b == Transient(c)'
               k == Firm(c)
               l == Firm(c)'
    <3>1. Exact /\ i \in Live
      BY <1>3, <2>4 DEF BudgetInv, Exact
    <3>2. Held' + p = H + q
      BY <3>1, HeldChange
    <3>3. /\ Total([d \in Callers |-> Transient(d)])' + a = T + b
          /\ Total([d \in Callers |-> Firm(d)])' + k = F + l
      BY CallerChange
    <3>4. /\ H \in Nat /\ T \in Nat /\ F \in Nat /\ p \in Nat /\ a \in Nat /\ k \in Nat
          /\ in_flight \in Nat
      BY HeldNat, CallerTotals, CallerBytes, Pending DEF TypeOK
    <3>5. /\ Held' \in Nat /\ q \in Nat /\ b \in Nat /\ l \in Nat /\ in_flight' \in Nat
          /\ Total([d \in Callers |-> Transient(d)])' \in Nat
          /\ Total([d \in Callers |-> Firm(d)])' \in Nat
          /\ Total([d \in Callers |-> Firm(d)])' <= Total([d \in Callers |-> Transient(d)])'
      <4>1. /\ Held' \in Nat
            /\ Total([d \in Callers |-> Transient(d)])' \in Nat
            /\ Total([d \in Callers |-> Firm(d)])' \in Nat
            /\ Total([d \in Callers |-> Firm(d)])' <= Total([d \in Callers |-> Transient(d)])'
        <5>1. Sums'
          BY SumsAreNumbers, PTL
        <5> QED
          BY <1>1, <5>1 DEF Sums
      <4>2. q \in Nat /\ in_flight' \in Nat
        BY DEF TypeOK, SessionState
      <4>3. calls'[c].size \in Nat /\ calls'[c].reserved \in Nat
        BY DEF TypeOK, Call
      <4>4. b \in Nat /\ l \in Nat
        BY <4>3 DEF Transient, Firm
      <4> QED
        BY <4>1, <4>2, <4>4
    <3>6. in_flight = H + T /\ in_flight' + p + a = in_flight + q + b
      BY <3>1 DEF Exact
    <3>7. (in_flight' <= TOTAL_CORPUS_BYTE_BUDGET) \/ q + l <= p + k
      BY <3>1
    <3>8. drift = "no" => H + F <= TOTAL_CORPUS_BYTE_BUDGET
      BY <2>1 DEF BudgetInv, Within
    <3>9. TOTAL_CORPUS_BYTE_BUDGET \in Nat
      BY DictionaryAssumption
    <3> DEFINE H1 == Held'
               T1 == Total([d \in Callers |-> Transient(d)])'
               F1 == Total([d \in Callers |-> Firm(d)])'
               n == in_flight'
               m == in_flight
    <3>10. /\ H1 \in Nat /\ T1 \in Nat /\ F1 \in Nat /\ q \in Nat /\ b \in Nat /\ l \in Nat /\ n \in Nat
           /\ F1 <= T1 /\ H1 + p = H + q /\ T1 + a = T + b /\ F1 + k = F + l
           /\ m = H + T /\ n + p + a = m + q + b
           /\ n <= TOTAL_CORPUS_BYTE_BUDGET \/ q + l <= p + k
           /\ H \in Nat /\ T \in Nat /\ F \in Nat /\ p \in Nat /\ a \in Nat /\ k \in Nat /\ m \in Nat
      BY <3>2, <3>3, <3>4, <3>5, <3>6, <3>7
    <3> HIDE DEF H, T, F, p, q, a, b, k, l, H1, T1, F1, n, m
    <3>11. n = H1 + T1
      BY ONLY <3>10
    <3>12. drift = "no" => H1 + F1 <= TOTAL_CORPUS_BYTE_BUDGET
      BY ONLY <3>8, <3>9, <3>10, <3>11
    <3>13. ASSUME NEW d \in Callers, ~Idle(d)' PROVE calls'[d].id \in Live'
      <4>1. Live' = Live
        BY DEF Live
      <4> QED
        BY <3>1, <3>13, <4>1 DEF Idle, Exact
    <3>14. Exact'
      BY <3>11, <3>13 DEF Exact, H1, T1, n
    <3>15. drift = "no" => Within'
      BY <3>12 DEF Within, H1, F1
    <3> QED
      BY <1>1, <2>2, <3>14, <3>15 DEF BudgetInv
  <2> QED
    BY <2>3, <2>4
<1> QED
  BY <1>2, <1>3

(* Neither the bytes, nor the calls, nor the sweep change. *)
LEMMA QuietBudget ==
  ASSUME TypeOK, BudgetInv, UNCHANGED <<map, calls, in_flight, sweep, drift>>,
         \A j \in StateIds : states'[j].pending = states[j].pending
  PROVE  BudgetInv'
<1>1. Held' = Held
  BY HeldSame
<1>2. OwnState'
  BY DEF BudgetInv, OwnState
<1>3. SweepReads'
  <2> DEFINE f == [j \in Summed |-> states[j].pending]
             g == [j \in Summed |-> states'[j].pending]
  <2>1. Summed' = Summed /\ Summed \subseteq StateIds
    BY LiveStates DEF Summed
  <2>2. DOMAIN f = Summed /\ DOMAIN g = Summed /\ \A j \in Summed : g[j] = f[j]
    BY <2>1
  <2>3. Total([j \in Summed |-> states[j].pending])' = Total(g)
    BY <2>1
  <2> HIDE DEF f, g
  <2>4. Total(g) = Total(f)
    BY <2>2, TotalSame
  <2>5. Total([j \in Summed |-> states[j].pending])' = Total([j \in Summed |-> states[j].pending])
    BY <2>3, <2>4 DEF f
  <2> QED
    BY <2>5 DEF BudgetInv, SweepReads, Idle
<1>4. Live' = Live
  BY DEF Live
<1>5. /\ Total([d \in Callers |-> Transient(d)])' = Total([d \in Callers |-> Transient(d)])
      /\ Total([d \in Callers |-> Firm(d)])' = Total([d \in Callers |-> Firm(d)])
  BY DEF Transient, Firm
<1>6. Exact => Exact'
  BY <1>1, <1>4, <1>5 DEF Exact, Idle
<1>7. Within => Within'
  BY <1>1, <1>5 DEF Within
<1> QED
  BY <1>2, <1>3, <1>6, <1>7 DEF BudgetInv

(* A call that goes on keeps its bytes. *)
LEMMA GotoBytes ==
  ASSUME TypeOK, NEW c \in Callers, NEW pc, Goto(c, pc)
  PROVE  /\ calls'[c].pc = pc /\ calls'[c].id = calls[c].id
         /\ calls'[c].size = calls[c].size /\ calls'[c].reserved = calls[c].reserved
         /\ \A d \in Callers : d # c => calls'[d] = calls[d]
<1> DEFINE call == [calls[c] EXCEPT !.pc = pc]
<1>1. calls[c] \in Call /\ calls' = [calls EXCEPT ![c] = call]
  BY DEF Goto, TypeOK
<1>2. /\ call.pc = pc /\ call.id = calls[c].id
      /\ call.size = calls[c].size /\ call.reserved = calls[c].reserved
  BY <1>1 DEF Call
<1> HIDE DEF call
<1> QED
  BY <1>1, <1>2 DEF TypeOK

(* A call that ends has none. *)
LEMMA ReturnBytes ==
  ASSUME TypeOK, NEW c \in Callers, Return(c)
  PROVE  /\ calls'[c].pc = "idle" /\ calls'[c].reserved = 0
         /\ Transient(c)' = 0 /\ Firm(c)' = 0
         /\ \A d \in Callers : d # c => calls'[d] = calls[d]
<1>1. calls' = [calls EXCEPT ![c] = NoCall] /\ NoCall.pc = "idle" /\ NoCall.reserved = 0
  BY DEF Return, NoCall
<1>2. calls'[c] = NoCall /\ \A d \in Callers : d # c => calls'[d] = calls[d]
  BY <1>1 DEF TypeOK
<1> QED
  BY <1>1, <1>2 DEF Transient, Firm

(* What is given back was counted: the counter does not saturate. *)
LEMMA ReleaseExact ==
  ASSUME TypeOK, NEW c \in Callers, NEW n \in Nat, n <= Transient(c),
         release_corpus_bytes(n), Exact
  PROVE  in_flight' + n = in_flight
<1>1. /\ Held \in Nat /\ Transient(c) \in Nat /\ in_flight \in Nat
      /\ Total([d \in Callers |-> Transient(d)]) \in Nat
      /\ Transient(c) <= Total([d \in Callers |-> Transient(d)])
  BY HeldNat, CallerBytes, CallerTotals DEF TypeOK
<1>2. in_flight = Held + Total([d \in Callers |-> Transient(d)])
  BY DEF Exact
<1>3. in_flight >= n
  BY <1>1, <1>2
<1> QED
  BY <1>1, <1>3 DEF release_corpus_bytes, SaturatingSub

(* Every step of a call, and its cancellation, settles its bytes. *)
LEMMA StepBudget ==
  ASSUME StoreInv, StoreInv', BudgetInv, NEW c \in Callers, Step(c) \/ Cancel(c)
  PROVE  BudgetInv'
<1> DEFINE i == calls[c].id
           p == states[i].pending
           z == calls[c].size
           r == calls[c].reserved
           Snapshot == {"init", "training", "release"}
<1>0. TypeOK /\ TypeOK' /\ in_flight \in Nat
  BY DEF StoreInv, TypeOK
<1>1. ~Idle(c)
  BY DEF Idle, Step, RegisterSet, Touch, Reserve, Admit, Undo, Decide, GetOrTryInit, Trained,
         DropReservation, Cancel, Abandon
<1>2. i \in StateIds /\ State(c) = states[i] /\ states[i] \in SessionState /\ p \in Nat
  BY <1>0, <1>1, Pending DEF StoreInv, Reached, Idle, State
<1>3. z \in Nat /\ r \in Nat /\ Transient(c) \in Nat /\ Firm(c) \in Nat /\ states'[i].pending \in Nat
  <2>1. states'[i].pending \in Nat
    BY <1>0, <1>2 DEF TypeOK, SessionState
  <2> QED
    BY <1>0, <2>1, CallerBytes
<1>4. calls[c].pc \notin Snapshot => r = 0
  BY DEF BudgetInv, OwnState
<1>5. map' = map /\ drift' = drift /\ Disturbs
  BY DEF Step, RegisterSet, Touch, Reserve, Admit, Undo, Decide, GetOrTryInit, Trained,
         DropReservation, Cancel, Abandon
<1>6. /\ calls[c].pc \in {"admit", "undo"} => Transient(c) = z
      /\ calls[c].pc \notin {"admit", "undo"} => Transient(c) = r /\ Firm(c) = r
      /\ calls[c].pc = "admit" => Firm(c) = z
      /\ calls[c].pc = "undo" => Firm(c) = 0
  BY <1>4 DEF Transient, Firm
<1> HIDE DEF i
(* The state keeps its bytes. *)
<1>7. ASSUME \A j \in StateIds : states'[j].pending = states[j].pending,
             \A d \in Callers : d # c => calls'[d] = calls[d],
             calls'[c].pc # "idle" => calls'[c].id = i,
             calls'[c].pc \notin Snapshot => calls'[c].reserved = 0,
             Exact => in_flight' + Transient(c) = in_flight + Transient(c)',
             (Exact => in_flight' <= TOTAL_CORPUS_BYTE_BUDGET) \/ Firm(c)' <= Firm(c)
      PROVE  BudgetInv'
  <2>1. states'[i].pending = p
    BY <1>2, <1>7
  <2>2. Transient(c)' \in Nat /\ Firm(c)' \in Nat /\ in_flight' \in Nat
    <3>1. calls'[c].size \in Nat /\ calls'[c].reserved \in Nat /\ in_flight' \in Nat
      BY <1>0 DEF TypeOK, Call
    <3> QED
      BY <3>1 DEF Transient, Firm
  <2>3. Exact => in_flight' + p + Transient(c) = in_flight + states'[i].pending + Transient(c)'
    BY <1>0, <1>2, <1>3, <1>7, <2>1, <2>2
  <2>4. \/ Exact => in_flight' <= TOTAL_CORPUS_BYTE_BUDGET
        \/ states'[i].pending + Firm(c)' <= p + Firm(c)
    BY <1>2, <1>3, <1>7, <2>1, <2>2
  <2> QED
    BY <1>0, <1>1, <1>2, <1>5, <1>7, <2>3, <2>4, CallBudget DEF i
(* The call goes on with the bytes it has. *)
<1>8. ASSUME NEW pc, Goto(c, pc), pc \in {"lock", "decide", "training", "release"},
             calls[c].pc \notin {"admit", "undo"}, pc \in Snapshot \/ r = 0,
             \A j \in StateIds : states'[j].pending = states[j].pending,
             in_flight' = in_flight
      PROVE  BudgetInv'
  <2>1. /\ calls'[c].pc = pc /\ calls'[c].id = i /\ calls'[c].reserved = r
        /\ \A d \in Callers : d # c => calls'[d] = calls[d]
    BY <1>0, <1>8, GotoBytes DEF i
  <2>2. Transient(c)' = r /\ Firm(c)' = r
    BY <1>8, <2>1 DEF Transient, Firm
  <2>3. Transient(c) = r /\ Firm(c) = r
    BY <1>6, <1>8
  <2>4. Firm(c)' <= Firm(c)
    BY <1>3, <2>2, <2>3
  <2>5. in_flight' + Transient(c) = in_flight + Transient(c)'
    BY <1>8, <2>2, <2>3
  <2>6. calls'[c].pc \notin Snapshot => calls'[c].reserved = 0
    BY <1>8, <2>1
  <2> QED
    BY <1>7, <1>8, <2>1, <2>4, <2>5, <2>6
(* The call ends, and gives back what it has. *)
<1>9. ASSUME Return(c), calls[c].pc \notin {"admit", "undo"},
             \A j \in StateIds : states'[j].pending = states[j].pending,
             release_corpus_bytes(r) \/ (r = 0 /\ in_flight' = in_flight)
      PROVE  BudgetInv'
  <2>1. /\ calls'[c].pc = "idle" /\ calls'[c].reserved = 0
        /\ \A d \in Callers : d # c => calls'[d] = calls[d]
        /\ Transient(c)' = 0 /\ Firm(c)' = 0
    BY <1>0, <1>9, ReturnBytes
  <2>2. Transient(c) = r /\ Firm(c) = r /\ r <= Transient(c)
    BY <1>3, <1>6, <1>9
  <2>3. Firm(c)' <= Firm(c)
    BY <1>3, <2>1
  <2>4. Exact => in_flight' + r = in_flight
    <3>1. CASE release_corpus_bytes(r)
      BY <1>0, <1>3, <2>2, <3>1, ReleaseExact
    <3>2. CASE r = 0 /\ in_flight' = in_flight
      BY <1>0, <3>2
    <3> QED
      BY <1>9, <3>1, <3>2
  <2>5. Exact => in_flight' + Transient(c) = in_flight + Transient(c)'
    BY <1>0, <2>1, <2>2, <2>4
  <2> QED
    BY <1>7, <1>9, <2>1, <2>3, <2>5
(* The bytes of a state whose other fields change. *)
<1>10. ASSUME NEW st, states' = [states EXCEPT ![i] = st], st.pending = p
       PROVE  \A j \in StateIds : states'[j].pending = states[j].pending
  BY <1>0, <1>2, <1>10 DEF TypeOK
<1>11. CASE RegisterSet(c)
  <2> DEFINE st == [states[i] EXCEPT !.access = now,
                                     !.cell = IF State(c).cell = "empty" THEN "set" ELSE State(c).cell]
  <2>1. states' = [states EXCEPT ![i] = st] /\ st.pending = p
    BY <1>2, <1>11 DEF RegisterSet, SessionState, i
  <2> HIDE DEF st
  <2>2. \A j \in StateIds : states'[j].pending = states[j].pending
    BY <1>10, <2>1
  <2>3. calls[c].pc = "found" /\ Return(c) /\ in_flight' = in_flight
    BY <1>11 DEF RegisterSet
  <2> QED
    BY <1>4, <1>9, <2>2, <2>3
<1>12. CASE Touch(c)
  <2> DEFINE st == [states[i] EXCEPT !.access = now]
  <2>1. states' = [states EXCEPT ![i] = st] /\ st.pending = p
    BY <1>2, <1>12 DEF Touch, SessionState, i
  <2> HIDE DEF st
  <2>2. \A j \in StateIds : states'[j].pending = states[j].pending
    BY <1>10, <2>1
  <2>3. calls[c].pc = "found" /\ (Return(c) \/ Goto(c, "lock")) /\ in_flight' = in_flight
    BY <1>12 DEF Touch
  <2>4. r = 0
    BY <1>4, <2>3
  <2>5. CASE Return(c)
    BY <1>9, <2>2, <2>3, <2>4, <2>5
  <2>6. CASE Goto(c, "lock")
    BY <1>8, <2>2, <2>3, <2>4, <2>6
  <2> QED
    BY <2>3, <2>5, <2>6
<1>13. CASE Reserve(c)
  <2> DEFINE st == [states[i] EXCEPT !.locked = TRUE]
             fits == in_flight' <= TOTAL_CORPUS_BYTE_BUDGET
  <2>1. states' = [states EXCEPT ![i] = st] /\ st.pending = p
    BY <1>2, <1>13 DEF Reserve, SessionState, i
  <2> HIDE DEF st
  <2>2. \A j \in StateIds : states'[j].pending = states[j].pending
    BY <1>10, <2>1
  <2>3. calls[c].pc = "lock" /\ r = 0 /\ Transient(c) = 0 /\ Firm(c) = 0
    BY <1>4, <1>6, <1>13 DEF Reserve
  <2>4. \/ Goto(c, "decide") /\ in_flight' = in_flight
        \/ Goto(c, "admit") /\ in_flight' = in_flight + z /\ fits
        \/ Goto(c, "undo") /\ in_flight' = in_flight + z
    BY <1>13 DEF Reserve
  <2>5. CASE Goto(c, "decide") /\ in_flight' = in_flight
    BY <1>8, <2>2, <2>3, <2>5
  <2>6. CASE Goto(c, "admit") /\ in_flight' = in_flight + z /\ fits
    <3>1. /\ calls'[c].pc = "admit" /\ calls'[c].id = i /\ calls'[c].reserved = 0 /\ calls'[c].size = z
          /\ \A d \in Callers : d # c => calls'[d] = calls[d]
      BY <1>0, <2>3, <2>6, GotoBytes DEF i
    <3>2. Transient(c)' = z
      BY <3>1 DEF Transient
    <3>3. in_flight' + Transient(c) = in_flight + Transient(c)'
      BY <1>0, <1>3, <2>3, <2>6, <3>2
    <3> QED
      BY <1>7, <2>2, <2>6, <3>1, <3>3
  <2>7. CASE Goto(c, "undo") /\ in_flight' = in_flight + z
    <3>1. /\ calls'[c].pc = "undo" /\ calls'[c].id = i /\ calls'[c].reserved = 0 /\ calls'[c].size = z
          /\ \A d \in Callers : d # c => calls'[d] = calls[d]
      BY <1>0, <2>3, <2>7, GotoBytes DEF i
    <3>2. Transient(c)' = z /\ Firm(c)' = 0
      BY <3>1 DEF Transient, Firm
    <3>3. in_flight' + Transient(c) = in_flight + Transient(c)' /\ Firm(c)' <= Firm(c)
      BY <1>0, <1>3, <2>3, <2>7, <3>2
    <3> QED
      BY <1>7, <2>2, <3>1, <3>3
  <2> QED
    BY <2>4, <2>5, <2>6, <2>7
<1>14. CASE Admit(c)
  <2> DEFINE q == p + z
             n == State(c).len + 1
             st == [states[i] EXCEPT !.pending = q, !.len = n]
  <2>1. states' = [states EXCEPT ![i] = st]
    BY <1>2, <1>14 DEF Admit, i
  <2>2. st.pending = q
    <3> HIDE DEF q, n
    <3> QED
      BY <1>2 DEF SessionState
  <2> HIDE DEF st
  <2>3. states'[i].pending = q /\ \A j \in StateIds : j # i => states'[j].pending = states[j].pending
    BY <1>0, <1>2, <2>1, <2>2 DEF TypeOK
  <2>4. calls[c].pc = "admit" /\ Goto(c, "decide") /\ in_flight' = in_flight
    BY <1>14 DEF Admit
  <2>5. /\ calls'[c].pc = "decide" /\ calls'[c].id = i /\ calls'[c].reserved = 0
        /\ \A d \in Callers : d # c => calls'[d] = calls[d]
    BY <1>0, <1>4, <2>4, GotoBytes DEF i
  <2>6. Transient(c)' = 0 /\ Firm(c)' = 0 /\ Transient(c) = z /\ Firm(c) = z
    BY <1>6, <2>4, <2>5 DEF Transient, Firm
  <2>7. /\ in_flight' + p + Transient(c) = in_flight + states'[i].pending + Transient(c)'
        /\ states'[i].pending + Firm(c)' <= p + Firm(c)
    BY <1>0, <1>2, <1>3, <2>3, <2>4, <2>6
  <2> QED
    BY <1>0, <1>1, <1>2, <1>5, <2>3, <2>5, <2>7, CallBudget DEF i
<1>15. CASE Undo(c)
  <2>1. \A j \in StateIds : states'[j].pending = states[j].pending
    BY <1>15 DEF Undo
  <2>2. calls[c].pc = "undo" /\ Goto(c, "decide") /\ release_corpus_bytes(z)
    BY <1>15 DEF Undo
  <2>3. /\ calls'[c].pc = "decide" /\ calls'[c].id = i /\ calls'[c].reserved = 0
        /\ \A d \in Callers : d # c => calls'[d] = calls[d]
    BY <1>0, <1>4, <2>2, GotoBytes DEF i
  <2>4. Transient(c)' = 0 /\ Firm(c)' = 0 /\ Transient(c) = z /\ Firm(c) = 0
    BY <1>6, <2>2, <2>3 DEF Transient, Firm
  <2>5. z <= Transient(c) /\ Firm(c)' <= Firm(c)
    BY <1>3, <2>4
  <2>6. Exact => in_flight' + z = in_flight
    BY <1>0, <1>3, <2>2, <2>5, ReleaseExact
  <2>7. Exact => in_flight' + Transient(c) = in_flight + Transient(c)'
    BY <1>0, <2>4, <2>6
  <2> QED
    BY <1>7, <2>1, <2>3, <2>5, <2>7
<1>16. CASE Decide(c) /\ Return(c)
  <2> DEFINE st == [states[i] EXCEPT !.locked = FALSE]
  <2>1. calls[c].pc = "decide" /\ in_flight' = in_flight
    BY <1>16 DEF Decide
  <2>2. states' = [states EXCEPT ![i] = st] \/ calls'[c].pc = "init"
    <3>1. CASE states' = [states EXCEPT ![i].locked = FALSE]
      BY <3>1 DEF i
    <3>2. CASE calls' = [calls EXCEPT ![c] = [@ EXCEPT !.pc = "init", !.reserved = State(c).pending]]
      <4> DEFINE call == [calls[c] EXCEPT !.pc = "init", !.reserved = State(c).pending]
      <4>1. calls' = [calls EXCEPT ![c] = call] /\ calls[c] \in Call
        BY <1>0, <3>2 DEF TypeOK
      <4>2. call.pc = "init"
        BY <4>1 DEF Call
      <4> HIDE DEF call
      <4> QED
        BY <1>0, <4>1, <4>2 DEF TypeOK
    <3> QED
      BY <1>16, <3>1, <3>2 DEF Decide, i
  <2>3. st.pending = p
    BY <1>2 DEF SessionState
  <2> HIDE DEF st
  <2>4. calls'[c].pc = "idle"
    BY <1>0, <1>16, ReturnBytes
  <2>5. \A j \in StateIds : states'[j].pending = states[j].pending
    BY <1>10, <2>2, <2>3, <2>4
  <2> QED
    BY <1>4, <1>9, <1>16, <2>1, <2>5
<1>17. CASE Decide(c) /\ ~Return(c)
  <2> DEFINE st == [states[i] EXCEPT !.locked = FALSE, !.pending = 0, !.len = 0]
             call == [calls[c] EXCEPT !.pc = "init", !.reserved = p]
  <2>1. /\ calls[c].pc = "decide" /\ in_flight' = in_flight
        /\ states' = [states EXCEPT ![i] = st] /\ calls' = [calls EXCEPT ![c] = call]
    BY <1>2, <1>17 DEF Decide, i
  <2>2. st.pending = 0
    BY <1>2 DEF SessionState
  <2>3. call.pc = "init" /\ call.id = i /\ call.reserved = p
    <3>1. calls[c] \in Call
      BY <1>0 DEF TypeOK
    <3> HIDE DEF p
    <3> QED
      BY <3>1 DEF Call, i
  <2> HIDE DEF st, call
  <2>4. states'[i].pending = 0 /\ \A j \in StateIds : j # i => states'[j].pending = states[j].pending
    BY <1>0, <1>2, <2>1, <2>2 DEF TypeOK
  <2>5. calls'[c] = call /\ \A d \in Callers : d # c => calls'[d] = calls[d]
    BY <1>0, <2>1 DEF TypeOK
  <2>6. Transient(c)' = p /\ Firm(c)' = p /\ Transient(c) = 0 /\ Firm(c) = 0
    BY <1>4, <1>6, <2>1, <2>3, <2>5 DEF Transient, Firm
  <2>7. /\ in_flight' + p + Transient(c) = in_flight + states'[i].pending + Transient(c)'
        /\ states'[i].pending + Firm(c)' <= p + Firm(c)
    BY <1>0, <1>2, <1>3, <2>1, <2>4, <2>6
  <2>8. calls'[c].id = i /\ calls'[c].pc = "init"
    BY <2>3, <2>5
  <2> QED
    BY <1>0, <1>1, <1>2, <1>5, <2>4, <2>5, <2>7, <2>8, CallBudget DEF i
<1>18. CASE GetOrTryInit(c)
  <2> DEFINE st == [states[i] EXCEPT !.cell = IF @ = "empty" THEN "busy" ELSE @]
  <2>1. states' = [states EXCEPT ![i] = st] /\ st.pending = p
    BY <1>2, <1>18 DEF GetOrTryInit, SessionState, i
  <2> HIDE DEF st
  <2>2. \A j \in StateIds : states'[j].pending = states[j].pending
    BY <1>10, <2>1
  <2>3. calls[c].pc = "init" /\ (Goto(c, "release") \/ Goto(c, "training")) /\ in_flight' = in_flight
    BY <1>18 DEF GetOrTryInit
  <2> QED
    BY <1>8, <2>2, <2>3
<1>19. CASE Trained(c)
  <2>1. PICK cell : states' = [states EXCEPT ![i].cell = cell]
    BY <1>19 DEF Trained, i
  <2> DEFINE st == [states[i] EXCEPT !.cell = cell]
  <2>2. states' = [states EXCEPT ![i] = st] /\ st.pending = p
    BY <1>2, <2>1 DEF SessionState
  <2> HIDE DEF st
  <2>3. \A j \in StateIds : states'[j].pending = states[j].pending
    BY <1>10, <2>2
  <2>4. calls[c].pc = "training" /\ Goto(c, "release") /\ in_flight' = in_flight
    BY <1>19 DEF Trained
  <2> QED
    BY <1>8, <2>3, <2>4
<1>20. CASE DropReservation(c)
  <2>1. /\ calls[c].pc = "release" /\ Return(c) /\ release_corpus_bytes(r) /\ states' = states
    BY <1>20 DEF DropReservation
  <2> QED
    BY <1>9, <2>1
<1>21. CASE Cancel(c)
  <2> DEFINE st == [states[i] EXCEPT !.cell = "empty"]
  <2>1. (states' = states \/ states' = [states EXCEPT ![i] = st]) /\ st.pending = p
    BY <1>2, <1>21 DEF Cancel, Abandon, SessionState, i
  <2> HIDE DEF st
  <2>2. \A j \in StateIds : states'[j].pending = states[j].pending
    BY <1>10, <2>1
  <2>3. calls[c].pc \in {"lock", "init", "training"} /\ Return(c) /\ release_corpus_bytes(r)
    BY <1>21 DEF Cancel, Abandon
  <2> QED
    BY <1>9, <2>2, <2>3
<1> QED
  BY <1>11, <1>12, <1>13, <1>14, <1>15, <1>16, <1>17, <1>18, <1>19, <1>20, <1>21 DEF Step

(* A call begins: it has no bytes, and the state it may create has none. *)
LEMMA StartBudget ==
  ASSUME StoreInv, StoreInv', BudgetInv, NEW c \in Callers, Idle(c), NEW s \in Sessions, NEW op, NEW size,
         session_state(c, s, op, size), Disturbs, drift' = drift
  PROVE  BudgetInv'
<1> DEFINE Snapshot == {"init", "training", "release"}
<1>0. TypeOK /\ TypeOK' /\ in_flight' = in_flight
  BY DEF StoreInv, session_state
<1>1. PICK i \in StateIds :
        /\ \/ map[s] # 0 /\ i = map[s] /\ map' = map /\ states' = states
           \/ /\ ~states[i].used
              /\ map' = [map EXCEPT ![s] = i]
              /\ states' = [states EXCEPT ![i] = NewState]
        /\ calls' = [calls EXCEPT ![c] =
             [NoCall EXCEPT !.pc = "found", !.op = op, !.id = i, !.size = size]]
  BY DEF session_state
<1> DEFINE call == [NoCall EXCEPT !.pc = "found", !.op = op, !.id = i, !.size = size]
<1>2. call.pc = "found" /\ call.id = i /\ call.reserved = 0
  BY DEF NoCall
<1>3. calls' = [calls EXCEPT ![c] = call]
  BY <1>1
<1> HIDE DEF call
<1>4. calls'[c] = call /\ \A d \in Callers : d # c => calls'[d] = calls[d]
  BY <1>0, <1>3 DEF TypeOK
<1>5. Transient(c)' = 0 /\ Firm(c)' = 0
  BY <1>2, <1>4 DEF Transient, Firm
<1>6. Transient(c) = 0 /\ Firm(c) = 0
  BY DEF BudgetInv, OwnState, Idle, Transient, Firm
<1>7. i # 0 /\ \A t \in Sessions : map[t] # 0 => map[t] \in StateIds /\ states[map[t]].used
  BY <1>0, DictionaryAssumption DEF StoreInv, Reached, TypeOK, StateIds
(* The map: unchanged, or with a new state that nobody reached before. *)
<1>8. /\ \A t, u \in Sessions : map'[t] # 0 /\ map'[t] = map'[u] => t = u
      /\ Live' = Live \union {i}
      /\ i \notin Live => states'[i].pending = 0
      /\ \A j \in Live : states'[j] = states[j]
  <2>1. CASE map[s] # 0 /\ i = map[s] /\ map' = map /\ states' = states
    <3>1. i \in Live /\ Live' = Live
      BY <1>7, <2>1 DEF Live
    <3> QED
      BY <2>1, <3>1 DEF BudgetInv, OwnState
  <2>2. CASE /\ ~states[i].used /\ map' = [map EXCEPT ![s] = i]
             /\ states' = [states EXCEPT ![i] = NewState]
    <3>1. \A t \in Sessions : map'[t] = IF t = s THEN i ELSE map[t]
      BY <1>0, <2>2 DEF TypeOK
    <3>2. \A t \in Sessions : map[t] # i
      BY <1>7, <2>2
    <3>3. states'[i] = NewState /\ \A j \in StateIds : j # i => states'[j] = states[j]
      BY <1>0, <2>2 DEF TypeOK
    <3>4. NewState.pending = 0
      BY DEF NewState, NoState
    <3>5. i \notin Live /\ Live \subseteq StateIds
      BY <1>0, <3>2, LiveStates DEF Live
    <3>6. map[s] = 0
      <4>1. CASE map[s] # 0
        <5>1. \E j \in StateIds : /\ map[s] # 0 /\ j = map[s] /\ map' = map
          BY <1>7, <4>1 DEF session_state
        <5> QED
          BY <1>0, <3>1, <3>2, <5>1
      <4> QED
        BY <4>1
    <3>7. Live' = Live \union {i}
      BY <1>7, <3>1, <3>6 DEF Live
    <3>8. \A t, u \in Sessions : map'[t] # 0 /\ map'[t] = map'[u] => t = u
      BY <3>1, <3>2 DEF BudgetInv, OwnState
    <3> QED
      BY <3>3, <3>4, <3>5, <3>7, <3>8
  <2> QED
    BY <1>1, <2>1, <2>2
<1>9. OwnState'
  BY <1>2, <1>4, <1>8 DEF BudgetInv, OwnState
<1>10. CASE sweep.pc # "idle"
  BY <1>0, <1>9, <1>10, DisturbedBudget
<1>11. CASE sweep.pc = "idle"
  <2>1. sweep' = sweep /\ ~sweep.disturbed
    BY <1>0, <1>11, DisturbsSweep DEF BudgetInv, SweepReads
  <2>2. SweepReads'
    BY <1>11, <2>1 DEF BudgetInv, SweepReads
  <2>3. Held' = Held
    <3> DEFINE f == [j \in Live |-> states[j].pending]
               g == [j \in Live \union {i} |-> states'[j].pending]
    <3>1. Held = Total(f) /\ Held' = Total(g)
      BY <1>8 DEF Held
    <3>2. /\ IsFiniteSet(Live) /\ Live \subseteq StateIds /\ IsFiniteSet(Live \union {i})
      BY <1>0, LiveStates, FS_AddElement
    <3>3. \A j \in StateIds : states'[j].pending \in Nat /\ states[j].pending \in Nat
      BY <1>0 DEF TypeOK, SessionState
    <3>4. /\ DOMAIN f = Live /\ DOMAIN g = Live \union {i} /\ g[i] = states'[i].pending
          /\ \A j \in Live \union {i} : g[j] \in Nat
          /\ \A j \in Live : f[j] = g[j] /\ f[j] \in Nat
      BY <1>8, <3>2, <3>3
    <3> HIDE DEF f, g
    <3>5. CASE i \in Live
      <4>1. Live \union {i} = Live
        BY <3>5
      <4> QED
        BY <3>1, <3>4, <4>1, TotalSame
    <3>6. CASE i \notin Live
      <4>1. DOMAIN f = DOMAIN g \ {i} /\ i \in DOMAIN g /\ g[i] = 0
        BY <1>8, <3>4, <3>6
      <4>2. Total(f) \in Nat /\ Total(g) = Total(f) + g[i]
        BY <3>2, <3>4, <4>1, TotalWithout
      <4> QED
        BY <3>1, <4>1, <4>2
    <3> QED
      BY <3>5, <3>6
  <2>4. /\ Total([d \in Callers |-> Transient(d)])' = Total([d \in Callers |-> Transient(d)])
        /\ Total([d \in Callers |-> Firm(d)])' = Total([d \in Callers |-> Firm(d)])
    <3>1. \A d \in Callers : Transient(d)' = Transient(d) /\ Firm(d)' = Firm(d)
      <4>1. \A d \in Callers : d # c => Transient(d)' = Transient(d) /\ Firm(d)' = Firm(d)
        BY <1>4 DEF Transient, Firm
      <4> QED
        BY <1>5, <1>6, <4>1
    <3>2. /\ [d \in Callers |-> Transient(d)]' = [d \in Callers |-> Transient(d)]
          /\ [d \in Callers |-> Firm(d)]' = [d \in Callers |-> Firm(d)]
      BY <3>1
    <3> QED
      BY <3>2
  <2>5. Exact => Exact'
    <3>1. Exact => \A d \in Callers : ~Idle(d)' => calls'[d].id \in Live'
      BY <1>2, <1>4, <1>8 DEF Exact, Idle
    <3> QED
      BY <1>0, <2>3, <2>4, <3>1 DEF Exact
  <2>6. Within => Within'
    BY <2>3, <2>4 DEF Within
  <2> QED
    BY <1>9, <2>1, <2>2, <2>5, <2>6 DEF BudgetInv
<1> QED
  BY <1>10, <1>11

(* A sweep begins, and is disturbed from the start when a call is under way. *)
LEMMA BeginBudget ==
  ASSUME StoreInv, BudgetInv, BeginSweep
  PROVE  BudgetInv'
<1> DEFINE b == \E c \in Callers : ~Idle(c)
<1>1. /\ sweep' = [pc |-> "retain", now |-> now, todo |-> Sessions, total |-> 0, disturbed |-> b]
      /\ sweep.pc = "idle" /\ UNCHANGED <<map, states, in_flight, calls, drift>>
  BY DEF BeginSweep
<1>2. ~b => \A c \in Callers : Idle(c)
  OBVIOUS
<1> HIDE DEF b
<1>3. sweep'.pc = "retain" /\ sweep'.total = 0 /\ sweep'.disturbed = b
  BY <1>1
<1>4. OwnState'
  BY <1>1 DEF BudgetInv, OwnState
<1>5. SweepReads'
  BY <1>1, <1>2, <1>3 DEF SweepReads, Idle
<1>6. ~sweep.disturbed
  BY <1>1 DEF BudgetInv, SweepReads
<1>7. Within => Within'
  BY <1>1 DEF Within, Held, Live, Firm
<1> QED
  BY <1>1, <1>3, <1>4, <1>5, <1>6, <1>7 DEF BudgetInv

(* The sweep takes sessions out: less waits, and nothing has been read. *)
LEMMA RetainBudget ==
  ASSUME StoreInv, StoreInv', BudgetInv, NEW s \in Sessions, Retain(s)
  PROVE  BudgetInv'
<1> DEFINE v == IF map[s] # 0 /\ Expired(map[s]) THEN 0 ELSE map[s]
           todo == IF sweep.todo = {s} THEN Sessions ELSE sweep.todo \ {s}
           pc == IF sweep.todo = {s} THEN "sum" ELSE sweep.pc
<1>0. TypeOK /\ TypeOK' /\ sweep.pc = "retain" /\ UNCHANGED <<states, in_flight, calls, drift>>
  BY DEF StoreInv, Retain
<1>1. map' = [map EXCEPT ![s] = v] /\ sweep' = [sweep EXCEPT !.todo = todo, !.pc = pc]
  BY DEF Retain
<1>2. v \in {0, map[s]} /\ pc \in {"retain", "sum"} /\ (pc = "sum" => todo = Sessions)
  BY <1>0
<1> HIDE DEF v, todo, pc
<1>3. \A t \in Sessions : map'[t] \in {0, map[t]}
  BY <1>0, <1>1, <1>2 DEF TypeOK
<1>4. /\ sweep'.pc = pc /\ sweep'.todo = todo /\ sweep'.total = sweep.total
      /\ sweep'.disturbed = sweep.disturbed
  BY <1>0, <1>1 DEF TypeOK
<1>5. OwnState'
  BY <1>0, <1>3 DEF BudgetInv, OwnState
<1>6. SweepReads'
  <2>1. sweep.total = 0
    BY <1>0 DEF BudgetInv, SweepReads
  <2>2. pc = "sum" => Total([j \in Summed |-> states[j].pending])' = 0
    <3> SUFFICES ASSUME pc = "sum" PROVE Total([j \in Summed |-> states[j].pending])' = 0
      OBVIOUS
    <3>1. Summed' = {}
      BY <1>2, <1>4 DEF Summed
    <3> DEFINE f == [j \in Summed' |-> states'[j].pending]
    <3>2. \A j \in DOMAIN f : f[j] = 0
      BY <3>1
    <3>3. Total([j \in Summed |-> states[j].pending])' = Total(f)
      OBVIOUS
    <3> HIDE DEF f
    <3> QED
      BY <3>2, <3>3, TotalZero
  <2>3. ~sweep.disturbed => \A c \in Callers : Idle(c)'
    BY <1>0 DEF BudgetInv, SweepReads, Idle
  <2> QED
    BY <1>2, <1>4, <2>1, <2>2, <2>3 DEF SweepReads
<1>7. Within => Within'
  <2> DEFINE f == [j \in Live' |-> states[j].pending]
             g == [j \in Live |-> states[j].pending]
  <2>1. Live' \subseteq Live
    BY <1>3 DEF Live
  <2>2. IsFiniteSet(Live) /\ \A j \in Live : states[j].pending \in Nat
    BY <1>0, LiveStates, Pending
  <2>3. /\ DOMAIN f = Live' /\ DOMAIN g = Live /\ \A j \in Live : g[j] \in Nat
        /\ \A j \in Live' : f[j] \in Nat /\ f[j] <= g[j]
    BY <2>1, <2>2
  <2>4. Held' = Total(f) /\ Held = Total(g)
    BY <1>0 DEF Held
  <2> HIDE DEF f, g
  <2>5. Total(f) <= Total(g)
    BY <2>1, <2>2, <2>3, TotalWithin
  <2>6. Held \in Nat /\ Held' \in Nat /\ Total([d \in Callers |-> Firm(d)]) \in Nat
    <3>1. Sums
      BY <1>0, SumsAreNumbers
    <3>2. Sums'
      BY <1>0, SumsAreNumbers, PTL
    <3> QED
      BY <3>1, <3>2 DEF Sums
  <2>7. Total([d \in Callers |-> Firm(d)])' = Total([d \in Callers |-> Firm(d)])
    BY <1>0 DEF Firm
  <2>8. TOTAL_CORPUS_BYTE_BUDGET \in Nat
    BY DictionaryAssumption
  <2> QED
    BY <2>4, <2>5, <2>6, <2>7, <2>8 DEF Within
<1> QED
  BY <1>0, <1>2, <1>4, <1>5, <1>6, <1>7 DEF BudgetInv

(* The sweep reads one more session, whose state it has not read yet. *)
LEMMA SumBudget ==
  ASSUME StoreInv, BudgetInv, NEW s \in Sessions, SumEntry(s)
  PROVE  BudgetInv'
<1> DEFINE bytes == IF map[s] = 0 THEN 0 ELSE states[map[s]].pending
           total == sweep.total + bytes
           pc == IF sweep.todo = {s} THEN "store" ELSE sweep.pc
           todo == sweep.todo \ {s}
<1>0. /\ TypeOK /\ sweep.pc = "sum" /\ s \in sweep.todo
      /\ UNCHANGED <<map, states, in_flight, calls, drift>>
  BY DEF StoreInv, SumEntry
<1>1. sweep' = [sweep EXCEPT !.todo = todo, !.total = total, !.pc = pc]
  BY DEF SumEntry
<1>2. pc \in {"sum", "store"} /\ (pc = "store" => todo = {})
  BY <1>0
<1> HIDE DEF total, pc
<1>3. /\ sweep'.pc = pc /\ sweep'.todo = todo /\ sweep'.total = total
      /\ sweep'.disturbed = sweep.disturbed
  BY <1>0, <1>1 DEF TypeOK
<1>4. OwnState'
  BY <1>0 DEF BudgetInv, OwnState
<1>5. Within => Within'
  BY <1>0 DEF Within, Held, Live, Firm
<1>6. ASSUME ~sweep.disturbed PROVE total = Total([j \in Summed |-> states[j].pending])'
  <2> DEFINE f == [j \in Summed |-> states[j].pending]
             g == [j \in Summed' |-> states[j].pending]
  <2>1. sweep.total = Total(f)
    BY <1>0, <1>6 DEF BudgetInv, SweepReads
  <2>2. Total([j \in Summed |-> states[j].pending])' = Total(g)
    BY <1>0
  <2>3. Summed' = (Summed \union {map[s]}) \ {0}
    BY <1>0, <1>3 DEF Summed
  <2>4. map[s] # 0 => map[s] \notin Summed
    BY <1>0 DEF BudgetInv, OwnState, Summed
  <2>5. /\ IsFiniteSet(Summed) /\ Summed \subseteq StateIds /\ 0 \notin Summed
        /\ map[s] # 0 => map[s] \in StateIds
    <3>1. map[s] # 0 => map[s] \in Live
      BY DEF Live
    <3>2. Live \subseteq StateIds /\ IsFiniteSet(Summed) /\ Summed \subseteq Live
      BY <1>0, LiveStates
    <3> QED
      BY <3>1, <3>2 DEF Summed
  <2>6. CASE map[s] = 0
    <3>1. Summed' = Summed
      BY <2>3, <2>5, <2>6
    <3>2. bytes = 0 /\ total = sweep.total + bytes /\ sweep.total \in Nat
      BY <1>0, <2>6 DEF total, TypeOK
    <3> QED
      BY <2>1, <2>2, <3>1, <3>2
  <2>7. CASE map[s] # 0
    <3>1. Summed' = Summed \union {map[s]} /\ IsFiniteSet(Summed \union {map[s]})
      BY <2>3, <2>5, <2>7, FS_AddElement
    <3>2. /\ DOMAIN f = DOMAIN g \ {map[s]} /\ map[s] \in DOMAIN g /\ IsFiniteSet(DOMAIN g)
          /\ g[map[s]] = states[map[s]].pending
          /\ \A j \in DOMAIN f : f[j] = g[j]
      BY <2>4, <2>7, <3>1
    <3>3. \A j \in DOMAIN g : g[j] \in Nat
      BY <1>0, <2>5, <2>7, <3>1, Pending
    <3> HIDE DEF f, g
    <3>4. Total(f) \in Nat /\ Total(g) = Total(f) + g[map[s]]
      BY <3>2, <3>3, TotalWithout
    <3>5. total = sweep.total + states[map[s]].pending
      BY <2>7 DEF total
    <3> QED
      BY <2>1, <2>2, <3>2, <3>4, <3>5
  <2> QED
    BY <2>6, <2>7
<1>7. SweepReads'
  <2>1. ~sweep.disturbed => \A c \in Callers : Idle(c)'
    BY <1>0 DEF BudgetInv, SweepReads, Idle
  <2> QED
    BY <1>2, <1>3, <1>6, <2>1 DEF SweepReads
<1> QED
  BY <1>0, <1>2, <1>3, <1>4, <1>5, <1>7 DEF BudgetInv

(* An undisturbed sweep stores the sum, while no caller holds a byte. *)
LEMMA ResyncBudget ==
  ASSUME StoreInv, BudgetInv, Resync
  PROVE  BudgetInv'
<1>0. /\ TypeOK /\ sweep.pc = "store" /\ in_flight' = sweep.total /\ sweep' = NoSweep
      /\ drift' = IF sweep.disturbed THEN "now" ELSE IF drift = "no" THEN "no" ELSE "past"
      /\ UNCHANGED <<map, states, calls>>
  BY DEF StoreInv, Resync
<1>1. sweep'.pc = "idle" /\ ~sweep'.disturbed
  BY <1>0 DEF NoSweep
<1>2. OwnState'
  BY <1>0 DEF BudgetInv, OwnState
<1>3. SweepReads'
  BY <1>1 DEF SweepReads
<1>4. Within => Within'
  BY <1>0 DEF Within, Held, Live, Firm
<1>5. ASSUME ~sweep.disturbed PROVE Exact'
  <2>1. \A c \in Callers : Idle(c)
    BY <1>0, <1>5 DEF BudgetInv, SweepReads
  <2>2. Total([d \in Callers |-> Transient(d)]) = 0
    <3> DEFINE f == [d \in Callers |-> Transient(d)]
    <3>1. \A d \in DOMAIN f : f[d] = 0
      BY <2>1 DEF BudgetInv, OwnState, Idle, Transient
    <3> HIDE DEF f
    <3>2. Total(f) = 0
      BY <3>1, TotalZero
    <3> QED
      BY <3>2 DEF f
  <2>3. Summed = Live
    BY <1>0 DEF BudgetInv, SweepReads, Summed, Live
  <2>4. sweep.total = Held
    BY <1>0, <1>5, <2>3 DEF BudgetInv, SweepReads, Held
  <2>5. Held' = Held /\ Total([d \in Callers |-> Transient(d)])' = Total([d \in Callers |-> Transient(d)])
    BY <1>0 DEF Held, Live, Transient
  <2>6. Held \in Nat
    BY <1>0, HeldNat
  <2>7. \A c \in Callers : Idle(c)'
    BY <1>0, <2>1 DEF Idle
  <2> QED
    BY <1>0, <2>2, <2>4, <2>5, <2>6, <2>7 DEF Exact
<1> QED
  BY <1>0, <1>1, <1>2, <1>3, <1>4, <1>5 DEF BudgetInv

(* An empty store. *)
LEMMA InitBudget == Init => BudgetInv
<1> SUFFICES ASSUME Init PROVE BudgetInv
  OBVIOUS
<1>1. /\ \A c \in Callers : calls[c] = NoCall
      /\ \A s \in Sessions : map[s] = 0
      /\ sweep = NoSweep /\ drift = "no" /\ in_flight = 0
  BY DEF Init
<1>2. sweep.pc = "idle" /\ ~sweep.disturbed
  BY <1>1 DEF NoSweep
<1>3. NoCall.pc = "idle" /\ NoCall.reserved = 0
  BY DEF NoCall
<1>4. Live = {}
  BY <1>1 DEF Live
<1>5. OwnState
  BY <1>1, <1>3 DEF OwnState
<1>6. SweepReads
  BY <1>2 DEF SweepReads
<1> DEFINE f == [j \in Live |-> states[j].pending]
           t == [d \in Callers |-> Transient(d)]
           k == [d \in Callers |-> Firm(d)]
<1>7. /\ \A j \in DOMAIN f : f[j] = 0
      /\ \A d \in DOMAIN t : t[d] = 0
      /\ \A d \in DOMAIN k : k[d] = 0
  BY <1>1, <1>3, <1>4 DEF Transient, Firm
<1>8. Held = Total(f)
  BY DEF Held
<1> HIDE DEF f, t, k
<1>9. Total(f) = 0 /\ Total(t) = 0 /\ Total(k) = 0
  BY <1>7, TotalZero
<1>10. Exact
  BY <1>1, <1>3, <1>8, <1>9 DEF Exact, Idle, t
<1>11. Within
  BY <1>8, <1>9, DictionaryAssumption DEF Within, k
<1> QED
  BY <1>5, <1>6, <1>10, <1>11 DEF BudgetInv

(* Every step of a caller, of the sweep and of the clock keeps the budget. *)
LEMMA NextBudget == StoreInv /\ StoreInv' /\ BudgetInv /\ [Next]_vars => BudgetInv'
<1> SUFFICES ASSUME StoreInv, StoreInv', BudgetInv, [Next]_vars PROVE BudgetInv'
  OBVIOUS
<1>0. TypeOK
  BY DEF StoreInv
<1>1. ASSUME NEW c \in Callers, TrainIfReady(c) PROVE BudgetInv'
  BY <1>1, StartBudget DEF TrainIfReady
<1>2. ASSUME NEW c \in Callers, Register(c) PROVE BudgetInv'
  BY <1>2, StartBudget DEF Register
<1>3. ASSUME NEW c \in Callers, Step(c) \/ Cancel(c) PROVE BudgetInv'
  BY <1>3, StepBudget
<1>4. ASSUME NEW s \in Sessions, GetDictionary(s) PROVE BudgetInv'
  <2> DEFINE st == [states[map[s]] EXCEPT !.access = now, !.served = now]
  <2>1. /\ states' = [states EXCEPT ![map[s]] = st] /\ map[s] \in StateIds
        /\ UNCHANGED <<map, calls, in_flight, sweep, drift>>
    BY <1>0, <1>4 DEF GetDictionary, TypeOK, StateIds
  <2>2. st.pending = states[map[s]].pending
    BY <1>0, <2>1 DEF TypeOK, SessionState
  <2> HIDE DEF st
  <2>3. \A j \in StateIds : states'[j].pending = states[j].pending
    BY <1>0, <2>1, <2>2 DEF TypeOK
  <2> QED
    BY <1>0, <2>1, <2>3, QuietBudget
<1>5. ASSUME NEW s \in Sessions, Retain(s) \/ SumEntry(s) PROVE BudgetInv'
  BY <1>5, RetainBudget, SumBudget
<1>6. CASE BeginSweep \/ Resync
  BY <1>6, BeginBudget, ResyncBudget
<1>7. CASE Tick \/ UNCHANGED vars \/ \E j \in Jobs : DetachedEnds(j)
  BY <1>0, <1>7, QuietBudget DEF Tick, DetachedEnds, vars
<1> QED
  BY <1>1, <1>2, <1>3, <1>4, <1>5, <1>6, <1>7 DEF Next

(* The snapshots that dropped calls left to the blocking pool have sizes. *)
DetachedOK == detached \in [Jobs -> Nat]

(* At the start no call has been dropped. *)
LEMMA InitDetached == Init => DetachedOK
  BY DEF Init, DetachedOK

(* Only a dropped call and the pool change them. *)
LEMMA NextDetached == StoreInv /\ DetachedOK /\ [Next]_vars => DetachedOK'
<1> SUFFICES ASSUME StoreInv, DetachedOK, [Next]_vars PROVE DetachedOK'
  OBVIOUS
<1>1. ASSUME NEW c \in Callers, Cancel(c) PROVE DetachedOK'
  <2>1. calls[c].reserved \in Nat
    BY DEF StoreInv, TypeOK, Call
  <2> QED
    BY <1>1, <2>1 DEF Cancel, Abandon, DetachedOK
<1>2. ASSUME NEW j \in Jobs, DetachedEnds(j) PROVE DetachedOK'
  BY <1>2 DEF DetachedEnds, DetachedOK
<1>3. ASSUME NEW c \in Callers, TrainIfReady(c) \/ Register(c) \/ Step(c) PROVE DetachedOK'
  BY <1>3 DEF TrainIfReady, Register, Step, RegisterSet, Touch, Reserve, Admit, Undo, Decide,
              GetOrTryInit, Trained, DropReservation, DetachedOK
<1>4. ASSUME NEW s \in Sessions, GetDictionary(s) \/ Retain(s) \/ SumEntry(s) PROVE DetachedOK'
  BY <1>4 DEF GetDictionary, Retain, SumEntry, DetachedOK
<1>5. CASE BeginSweep \/ Resync \/ Tick \/ UNCHANGED vars
  BY <1>5 DEF BeginSweep, Resync, Tick, vars, DetachedOK
<1> QED
  BY <1>1, <1>2, <1>3, <1>4, <1>5 DEF Next

(***************************************************************************)
(* The property of the runs: every reserved byte is returned exactly once, *)
(* a sweep that no call disturbs restores the counter, and until one was   *)
(* disturbed the bytes in memory exceed the budget at most by those that   *)
(* dropped calls left to spawn_blocking; for every number of callers,      *)
(* sessions, states and dropped trainings and every budget.                *)
(***************************************************************************)
THEOREM BudgetHeals == Spec => []BudgetSelfHeals
<1>1. StoreInv /\ BudgetInv /\ DetachedOK => BudgetSelfHeals
  <2> SUFFICES ASSUME StoreInv, BudgetInv, DetachedOK, sweep.pc = "idle" PROVE
        /\ drift # "now" => in_flight = Held + Total([c \in Callers |-> Transient(c)])
        /\ drift = "no" => LiveBytes <= TOTAL_CORPUS_BYTE_BUDGET + Total(detached)
    BY DEF BudgetSelfHeals
  <2>1. drift # "now" => in_flight = Held + Total([c \in Callers |-> Transient(c)])
    BY DEF BudgetInv, Exact
  <2>2. drift = "no" => Within
    BY DEF BudgetInv, SweepReads
  <2> DEFINE f == [c \in Callers |-> calls[c].reserved]
             g == [c \in Callers |-> Firm(c)]
  <2>3. TypeOK /\ IsFiniteSet(Callers) /\ TOTAL_CORPUS_BYTE_BUDGET \in Nat
    BY DictionaryAssumption DEF StoreInv
  <2>4. \A c \in Callers : calls[c].reserved \in Nat /\ Firm(c) \in Nat /\ calls[c].reserved <= Firm(c)
    <3>1. ASSUME NEW c \in Callers PROVE calls[c].reserved <= Firm(c)
      <4>1. calls[c].reserved \in Nat /\ Firm(c) \in Nat
        BY <2>3, CallerBytes
      <4> QED
        BY <4>1 DEF BudgetInv, OwnState, Firm
    <3> QED
      BY <2>3, <3>1, CallerBytes
  <2>5. DOMAIN f = Callers /\ DOMAIN g = Callers /\ \A c \in Callers : f[c] \in Nat /\ g[c] \in Nat /\ f[c] <= g[c]
    BY <2>4
  <2> HIDE DEF f, g
  <2>6. Total(f) <= Total(g) /\ Total(f) \in Nat /\ Total(g) \in Nat
    BY <2>3, <2>5, TotalNat, TotalWithin
  <2>7. Within => Held + Total(f) <= TOTAL_CORPUS_BYTE_BUDGET
    <3>1. Within => Held + Total(g) <= TOTAL_CORPUS_BYTE_BUDGET
      BY DEF Within, g
    <3>2. Held \in Nat
      BY <2>3, HeldNat
    <3> QED
      BY <2>3, <2>6, <3>1, <3>2
  <2>8. Total(detached) \in Nat
    <3>1. 1 \in Int /\ MaxDetached \in Int
      BY DictionaryAssumption
    <3>2. IsFiniteSet(Jobs)
      BY <3>1, FS_Interval DEF Jobs
    <3>3. DOMAIN detached = Jobs /\ \A j \in Jobs : detached[j] \in Nat
      BY DEF DetachedOK
    <3> QED
      BY <3>2, <3>3, TotalNat
  <2>9. LiveBytes = Held + Total(f) + Total(detached)
    BY DEF LiveBytes, f
  <2>10. Held \in Nat
    BY <2>3, HeldNat
  <2>11. Within => LiveBytes <= TOTAL_CORPUS_BYTE_BUDGET + Total(detached)
    BY <2>3, <2>6, <2>7, <2>8, <2>9, <2>10
  <2> QED
    BY <2>1, <2>2, <2>11
<1> QED
  BY <1>1, InitBudget, NextBudget, InitDetached, NextDetached, Invariance, PTL DEF Spec

=============================================================================
