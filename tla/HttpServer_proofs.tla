-------------------------- MODULE HttpServer_proofs --------------------------
(***************************************************************************)
(* The permits, the per-address counts and the slots of the server add up, *)
(* for any number of clients and requests and any limits.                  *)
(***************************************************************************)
EXTENDS HttpServer, FiniteSetTheorems, TLAPS

Connection ==
  [state : {"outside", "backlog", "first_byte", "serving", "closed"}, ip : Ip, guard : BOOLEAN]

TypeOK ==
  /\ loop \in {"permit", "accept", "backoff"}
  /\ permits \in Int
  /\ backlog \in Seq(Conn)
  /\ conn \in [Conn -> Connection]
  /\ per_ip \in [Ip -> Int]
  /\ slots \in Int
  /\ request \in [Request -> [phase : Open \union {"unsent", "done", "dropped"},
                              conn : Conn, route : Route]]

(* A connection waits in the backlog once, and has no task while it does. *)
BacklogOK ==
  /\ \A k \in 1..Len(backlog) : conn[backlog[k]].state = "backlog"
  /\ \A j, k \in 1..Len(backlog) : backlog[j] = backlog[k] => j = k

(* The connections the limiter counts for a key, and the requests in       *)
(* front of which the concurrency limit has one slot less.                 *)
Guarded(i) == {c \in Live : conn[c].ip = i /\ conn[c].guard}

InSlots == {r \in Request : request[r].phase \in HoldsSlot}

PermitsExact ==
  permits + Cardinality(Live) + (IF loop = "permit" THEN 0 ELSE 1) = max_connections

PerIpExact == \A i \in Ip : per_ip[i] = Cardinality(Guarded(i))

SlotsExact == slots + Cardinality(InSlots) = MAX_CONCURRENT_REQUESTS

(***************************************************************************)
(* The sums need to know that what Accept takes off the backlog is not     *)
(* counted as live yet, which the sums alone do not say.                   *)
(***************************************************************************)
ServerInv ==
  /\ TypeOK
  /\ BacklogOK
  /\ PermitsExact
  /\ PerIpExact
  /\ SlotsExact

(* Every set that is counted is finite. *)
LEMMA CountedSets ==
  /\ IsFiniteSet(Live) /\ Cardinality(Live) \in Nat
  /\ \A i : IsFiniteSet(Guarded(i)) /\ Cardinality(Guarded(i)) \in Nat
  /\ IsFiniteSet(InSlots) /\ Cardinality(InSlots) \in Nat
<1>1. Live \subseteq Conn /\ InSlots \subseteq Request /\ \A i : Guarded(i) \subseteq Conn
  BY DEF Live, InSlots, Guarded
<1>2. IsFiniteSet(Live) /\ IsFiniteSet(InSlots) /\ \A i : IsFiniteSet(Guarded(i))
  BY <1>1, FS_Subset, HttpAssumption
<1> QED
  BY <1>2, FS_CardinalityType

(* A connection of which the state, or the guard too, is updated. *)
LEMMA ConnectionUpdated ==
  ASSUME NEW d \in Connection,
         NEW state \in {"outside", "backlog", "first_byte", "serving", "closed"},
         NEW guard \in BOOLEAN
  PROVE  /\ [d EXCEPT !.state = state] \in Connection
         /\ [d EXCEPT !.state = state, !.guard = guard] \in Connection
  BY DEF Connection

(* A server nobody has connected to. *)
LEMMA InitInv == Init => ServerInv
<1> SUFFICES ASSUME Init PROVE ServerInv
  OBVIOUS
<1>1. TypeOK
  <2>1. (CHOOSE c \in Conn : TRUE) \in Conn
    BY HttpAssumption
  <2>2. request \in [Request -> [phase : {"unsent"}, conn : Conn, route : {"public"}]]
    BY <2>1 DEF Init
  <2>3. \A r \in Request : request[r] \in [phase : Open \union {"unsent", "done", "dropped"},
                                           conn : Conn, route : Route]
    BY <2>2 DEF Route
  <2>4. permits \in Int /\ slots \in Int /\ per_ip \in [Ip -> Int]
    BY HttpAssumption DEF Init
  <2>5. \A c \in Conn : conn[c] \in Connection
    BY DEF Init, Connection
  <2>6. conn = [c \in Conn |-> conn[c]]
    BY DEF Init
  <2>7. loop \in {"permit", "accept", "backoff"} /\ backlog \in Seq(Conn)
    BY DEF Init
  <2> QED
    BY <2>2, <2>3, <2>4, <2>5, <2>6, <2>7 DEF TypeOK
<1>2. Live = {} /\ InSlots = {} /\ \A i \in Ip : Guarded(i) = {}
  BY DEF Init, Live, InSlots, Guarded, HoldsSlot
<1>3. Cardinality(Live) = 0 /\ Cardinality(InSlots) = 0 /\ \A i \in Ip : Cardinality(Guarded(i)) = 0
  BY <1>2, FS_EmptySet
<1>4. PermitsExact /\ PerIpExact /\ SlotsExact
  BY <1>3, HttpAssumption DEF Init, PermitsExact, PerIpExact, SlotsExact
<1>5. BacklogOK
  BY DEF Init, BacklogOK
<1> QED
  BY <1>1, <1>4, <1>5 DEF ServerInv

-----------------------------------------------------------------------------
(* What a step on one request does to the slots. *)

(* One request moves on: it joins or leaves those that hold a slot. *)
LEMMA GotoCounts ==
  ASSUME TypeOK, NEW r \in Request,
         NEW phase \in Open \union {"unsent", "done", "dropped"}, Goto(r, phase)
  PROVE  /\ Cardinality(InSlots') = Cardinality(InSlots)
              + (IF phase \in HoldsSlot THEN 1 ELSE 0)
              - (IF request[r].phase \in HoldsSlot THEN 1 ELSE 0)
         /\ request' \in [Request -> [phase : Open \union {"unsent", "done", "dropped"},
                                      conn : Conn, route : Route]]
<1>1. /\ request' \in [Request -> [phase : Open \union {"unsent", "done", "dropped"},
                                   conn : Conn, route : Route]]
      /\ request'[r].phase = phase
      /\ \A q \in Request : q # r => request'[q] = request[q]
  BY DEF TypeOK, Goto
<1>2. CASE phase \in HoldsSlot
  <2>1. InSlots' = InSlots \union {r}
    BY <1>1, <1>2 DEF InSlots, HoldsSlot
  <2>2. r \in InSlots <=> request[r].phase \in HoldsSlot
    BY DEF InSlots
  <2>3. Cardinality(InSlots \union {r})
          = IF r \in InSlots THEN Cardinality(InSlots) ELSE Cardinality(InSlots) + 1
    BY CountedSets, FS_AddElement
  <2>4. Cardinality(InSlots') = Cardinality(InSlots) + 1
          - (IF request[r].phase \in HoldsSlot THEN 1 ELSE 0)
    BY <2>1, <2>2, <2>3, CountedSets
  <2> QED
    BY <1>1, <1>2, <2>4
<1>3. CASE phase \notin HoldsSlot
  <2>1. InSlots' = InSlots \ {r}
    BY <1>1, <1>3 DEF InSlots, HoldsSlot
  <2>2. r \in InSlots <=> request[r].phase \in HoldsSlot
    BY DEF InSlots
  <2>3. Cardinality(InSlots \ {r})
          = IF r \in InSlots THEN Cardinality(InSlots) - 1 ELSE Cardinality(InSlots)
    BY CountedSets, FS_RemoveElement
  <2>4. Cardinality(InSlots') = Cardinality(InSlots) + 0
          - (IF request[r].phase \in HoldsSlot THEN 1 ELSE 0)
    BY <2>1, <2>2, <2>3, CountedSets
  <2> QED
    BY <1>1, <1>3, <2>4
<1> QED
  BY <1>2, <1>3

(* A step that moves one request and leaves the connections alone keeps    *)
(* the invariant when the free slots change by what the request gives back *)
(* or takes.                                                               *)
LEMMA RequestStep ==
  ASSUME ServerInv, NEW r \in Request,
         NEW phase \in Open \union {"unsent", "done", "dropped"}, Goto(r, phase),
         UNCHANGED connVars,
         slots' = slots + (IF request[r].phase \in HoldsSlot THEN 1 ELSE 0)
                        - (IF phase \in HoldsSlot THEN 1 ELSE 0)
  PROVE  ServerInv'
<1>1. TypeOK
  BY DEF ServerInv
<1>2. TypeOK'
  BY <1>1, GotoCounts DEF TypeOK, connVars
<1>3. SlotsExact'
  <2>1. Cardinality(InSlots) \in Nat /\ slots \in Int
    BY <1>1, CountedSets DEF TypeOK
  <2>2. Cardinality(InSlots') = Cardinality(InSlots)
          + (IF phase \in HoldsSlot THEN 1 ELSE 0)
          - (IF request[r].phase \in HoldsSlot THEN 1 ELSE 0)
    BY <1>1, GotoCounts
  <2>3. slots + Cardinality(InSlots) = MAX_CONCURRENT_REQUESTS
    BY DEF ServerInv, SlotsExact
  <2>4. slots' + Cardinality(InSlots') = MAX_CONCURRENT_REQUESTS
    BY <2>1, <2>2, <2>3
  <2> QED
    BY <2>4 DEF SlotsExact
<1>4. BacklogOK' /\ PermitsExact' /\ PerIpExact'
  <2>1. conn' = conn /\ loop' = loop /\ permits' = permits /\ backlog' = backlog /\ per_ip' = per_ip
    BY DEF connVars
  <2>2. Live' = Live /\ \A i : Guarded(i)' = Guarded(i)
    BY <2>1 DEF Live, Guarded
  <2> QED
    BY <2>1, <2>2 DEF ServerInv, BacklogOK, PermitsExact, PerIpExact
<1> QED
  BY <1>2, <1>3, <1>4 DEF ServerInv

(* The steps of a request through the layers. *)
LEMMA RequestSteps ==
  ASSUME ServerInv, NEW r \in Request,
         Layers(r) \/ HandlerReturns(r) \/ BodyEnds(r) \/ RequestTimeout(r)
  PROVE  ServerInv'
<1> USE DEF Open, Waiting, HoldsSlot
<1>0. slots \in Int
  BY DEF ServerInv, TypeOK
<1>1. CASE Preflight(r)
  BY <1>0, <1>1, RequestStep DEF Preflight
<1>2. CASE RateLimit(r)
  BY <1>0, <1>2, RequestStep DEF RateLimit
<1>3. CASE TakeSlot(r)
  BY <1>0, <1>3, RequestStep DEF TakeSlot
<1>4. CASE Authenticate(r)
  BY <1>0, <1>4, RequestStep DEF Authenticate
<1>5. CASE HandlerReturns(r)
  BY <1>0, <1>5, RequestStep DEF HandlerReturns
<1>6. CASE BodyEnds(r)
  BY <1>0, <1>6, RequestStep DEF BodyEnds
<1>7. CASE RequestTimeout(r)
  BY <1>0, <1>7, RequestStep DEF RequestTimeout, TimedOut
<1> QED
  BY <1>1, <1>2, <1>3, <1>4, <1>5, <1>6, <1>7 DEF Layers

(* A new request holds no slot. *)
LEMMA SendStep ==
  ASSUME ServerInv, NEW r \in Request, NEW c \in Conn, NEW route \in Route, Send(r, c, route)
  PROVE  ServerInv'
<1>1. TypeOK'
  BY DEF ServerInv, TypeOK, Send, connVars, Open, Waiting
<1>2. conn' = conn /\ loop' = loop /\ permits' = permits /\ backlog' = backlog
      /\ per_ip' = per_ip /\ slots' = slots
  BY DEF Send, connVars
<1>3. Live' = Live /\ \A i : Guarded(i)' = Guarded(i)
  BY <1>2 DEF Live, Guarded
<1>4. InSlots' = InSlots
  BY DEF ServerInv, TypeOK, Send, InSlots, HoldsSlot
<1> QED
  BY <1>1, <1>2, <1>3, <1>4
     DEF ServerInv, BacklogOK, PermitsExact, PerIpExact, SlotsExact

-----------------------------------------------------------------------------
(* What a step on one connection does to the counts. *)

(* Connect and FirstByte change no count: the connection is live after the *)
(* step exactly if it was before it, with the guard it had.                *)
LEMMA QuietConnectionStep ==
  ASSUME ServerInv, NEW c \in Conn, Connect(c) \/ FirstByte(c)
  PROVE  ServerInv'
<1>1. /\ \A d \in Conn : d # c => conn'[d] = conn[d]
      /\ conn'[c].ip = conn[c].ip /\ conn'[c].guard = conn[c].guard
      /\ c \in Live' <=> c \in Live
  BY DEF ServerInv, TypeOK, Connect, FirstByte, Live, Connection
<1>2. Live' = Live
  BY <1>1 DEF Live
<1>3. \A i : Guarded(i)' = Guarded(i)
  BY <1>1, <1>2 DEF Live, Guarded
<1>4. InSlots' = InSlots
  BY DEF InSlots, Connect, FirstByte
<1>5. loop' = loop /\ permits' = permits /\ per_ip' = per_ip /\ slots' = slots
  BY DEF Connect, FirstByte
<1>6. PermitsExact' /\ PerIpExact' /\ SlotsExact'
  BY <1>2, <1>3, <1>4, <1>5 DEF ServerInv, PermitsExact, PerIpExact, SlotsExact
<1>7. TypeOK'
  <2>1. backlog \in Seq(Conn) /\ TypeOK
    BY DEF ServerInv, TypeOK
  <2>2. backlog' = backlog \/ backlog' = Append(backlog, c)
    BY DEF Connect, FirstByte
  <2>3. backlog' \in Seq(Conn)
    BY <2>1, <2>2
  <2>4. PICK state \in {"backlog", "serving"} : conn' = [conn EXCEPT ![c].state = state]
    BY DEF Connect, FirstByte
  <2>5. [conn[c] EXCEPT !.state = state] \in Connection
    BY <2>1, ConnectionUpdated DEF TypeOK
  <2>6. conn' \in [Conn -> Connection]
    BY <2>1, <2>4, <2>5 DEF TypeOK
  <2>7. request' = request
    BY DEF Connect, FirstByte
  <2> QED
    BY <1>5, <2>1, <2>3, <2>6, <2>7 DEF TypeOK
<1>8. BacklogOK'
  <2>1. CASE Connect(c)
    <3>1. /\ backlog \in Seq(Conn) /\ backlog' = Append(backlog, c)
          /\ conn[c].state = "outside"
          /\ conn'[c].state = "backlog"
      BY <2>1 DEF ServerInv, TypeOK, Connect
    <3>2. /\ \A k \in 1..Len(backlog) : backlog[k] \in Conn /\ backlog[k] # c
                                         /\ conn[backlog[k]].state = "backlog"
          /\ \A j, k \in 1..Len(backlog) : backlog[j] = backlog[k] => j = k
      BY <3>1 DEF ServerInv, BacklogOK
    <3>3. /\ Len(backlog') = Len(backlog) + 1 /\ Len(backlog) \in Nat
          /\ \A k \in 1..Len(backlog) : backlog'[k] = backlog[k]
          /\ backlog'[Len(backlog) + 1] = c
      BY <3>1
    <3>4. \A k \in 1..Len(backlog') : k \in 1..Len(backlog) \/ k = Len(backlog) + 1
      BY <3>3
    <3>5. \A k \in 1..Len(backlog') : conn'[backlog'[k]].state = "backlog"
      BY <1>1, <3>1, <3>2, <3>3, <3>4
    <3>6. \A j, k \in 1..Len(backlog') : backlog'[j] = backlog'[k] => j = k
      BY <3>2, <3>3, <3>4
    <3> QED
      BY <3>5, <3>6 DEF BacklogOK
  <2>2. CASE FirstByte(c)
    <3>1. backlog' = backlog /\ conn[c].state = "first_byte" /\ backlog \in Seq(Conn)
      BY <2>2 DEF ServerInv, TypeOK, FirstByte
    <3>2. \A k \in 1..Len(backlog) : backlog[k] # c /\ backlog[k] \in Conn
      BY <3>1 DEF ServerInv, BacklogOK
    <3> QED
      BY <1>1, <3>1, <3>2 DEF ServerInv, BacklogOK
  <2> QED
    BY <2>1, <2>2
<1> QED
  BY <1>6, <1>7, <1>8 DEF ServerInv

(* A step of the accept loop that takes nothing off the backlog. *)
LEMMA LoopStep ==
  ASSUME ServerInv, AcquirePermit \/ AcceptFails \/ BackoffEnds
  PROVE  ServerInv'
<1>1. conn' = conn /\ backlog' = backlog /\ per_ip' = per_ip /\ slots' = slots /\ request' = request
  BY DEF AcquirePermit, AcceptFails, BackoffEnds
<1>2. Live' = Live /\ InSlots' = InSlots /\ \A i : Guarded(i)' = Guarded(i)
  BY <1>1 DEF Live, InSlots, Guarded
<1> DEFINE held(l) == IF l = "permit" THEN 0 ELSE 1
<1>3. /\ permits' + held(loop') = permits + held(loop)
      /\ held(loop) \in Int /\ held(loop') \in Int
      /\ permits \in Int /\ permits' \in Int
      /\ loop' \in {"permit", "accept", "backoff"}
  BY DEF ServerInv, TypeOK, AcquirePermit, AcceptFails, BackoffEnds
<1>4. Cardinality(Live) \in Nat /\ Cardinality(Live') = Cardinality(Live)
  BY <1>2, CountedSets
<1>5. permits + Cardinality(Live) + held(loop) = max_connections
  BY DEF ServerInv, PermitsExact
<1>6. permits' + Cardinality(Live') + held(loop') = max_connections
  <2> HIDE DEF held
  <2> QED
    BY <1>3, <1>4, <1>5
<1>7. PermitsExact'
  BY <1>6 DEF PermitsExact
<1> QED
  BY <1>1, <1>2, <1>3, <1>7 DEF ServerInv, TypeOK, BacklogOK, PerIpExact, SlotsExact

(* Taking the head off the backlog leaves a backlog. *)
LEMMA BacklogTail ==
  ASSUME ServerInv, backlog # <<>>, backlog' = Tail(backlog),
         \A d \in Conn : d # Head(backlog) => conn'[d] = conn[d]
  PROVE  /\ Head(backlog) \in Conn
         /\ conn[Head(backlog)].state = "backlog"
         /\ backlog' \in Seq(Conn)
         /\ BacklogOK'
<1>1. backlog \in Seq(Conn) /\ Len(backlog) \in Nat /\ Len(backlog) > 0
  BY DEF ServerInv, TypeOK
<1>2. Head(backlog) = backlog[1] /\ 1 \in 1..Len(backlog)
  BY <1>1
<1>3. /\ Head(backlog) \in Conn /\ backlog' \in Seq(Conn)
      /\ Len(backlog') = Len(backlog) - 1
      /\ \A k \in 1..Len(backlog') : backlog'[k] = backlog[k + 1]
  BY <1>1
<1>4. \A k \in 1..Len(backlog') : k + 1 \in 1..Len(backlog) /\ k + 1 # 1
  BY <1>1, <1>3
<1>5. /\ \A k \in 1..Len(backlog) : conn[backlog[k]].state = "backlog"
      /\ \A j, k \in 1..Len(backlog) : backlog[j] = backlog[k] => j = k
  BY DEF ServerInv, BacklogOK
<1>6. \A k \in 1..Len(backlog') : backlog'[k] # Head(backlog) /\ backlog'[k] \in Conn
  BY <1>1, <1>2, <1>3, <1>4, <1>5
<1>7. \A k \in 1..Len(backlog') : conn'[backlog'[k]].state = "backlog"
  BY <1>3, <1>4, <1>5, <1>6
<1>8. \A j, k \in 1..Len(backlog') : backlog'[j] = backlog'[k] => j = k
  <2> SUFFICES ASSUME NEW j \in 1..Len(backlog'), NEW k \in 1..Len(backlog'),
                      backlog'[j] = backlog'[k]
               PROVE  j = k
    OBVIOUS
  <2>1. backlog[j + 1] = backlog[k + 1]
    BY <1>3
  <2>2. j + 1 = k + 1
    BY <1>4, <1>5, <2>1
  <2> QED
    BY <1>1, <1>3, <2>2
<1> QED
  BY <1>2, <1>3, <1>5, <1>7, <1>8 DEF BacklogOK

(* A connection with a task joins the live ones; with a guard, it is       *)
(* counted for its key.                                                    *)
LEMMA AdmitCounts ==
  ASSUME TypeOK, NEW c \in Conn, NEW guarded \in BOOLEAN, Admit(c, guarded), c \notin Live
  PROVE  /\ conn' \in [Conn -> Connection]
         /\ \A d \in Conn : d # c => conn'[d] = conn[d]
         /\ Cardinality(Live') = Cardinality(Live) + 1
         /\ PerIpExact => PerIpExact'
<1>1. conn' \in [Conn -> Connection]
  BY ConnectionUpdated DEF TypeOK, Admit
<1>2. /\ \A d \in Conn : d # c => conn'[d] = conn[d]
      /\ conn'[c].state = "first_byte" /\ conn'[c].ip = conn[c].ip /\ conn'[c].guard = guarded
  BY DEF TypeOK, Admit, Connection
<1>3. Live' = Live \union {c}
  BY <1>2 DEF Live
<1>4. Cardinality(Live') = Cardinality(Live) + 1
  BY <1>3, CountedSets, FS_AddElement
<1>5. ASSUME PerIpExact PROVE PerIpExact'
  <2> SUFFICES ASSUME NEW i \in Ip PROVE per_ip'[i] = Cardinality(Guarded(i)')
    BY DEF PerIpExact
  <2>1. per_ip[i] = Cardinality(Guarded(i)) /\ per_ip[i] \in Int
    BY <1>5 DEF PerIpExact, TypeOK
  <2>2. c \notin Guarded(i) /\ IsFiniteSet(Guarded(i)) /\ Cardinality(Guarded(i)) \in Nat
    BY CountedSets DEF Guarded
  <2>3. CASE i = conn[c].ip /\ guarded
    <3>1. Guarded(i)' = Guarded(i) \union {c}
      BY <1>2, <1>3, <2>3 DEF Guarded, Live
    <3>2. Cardinality(Guarded(i)') = Cardinality(Guarded(i)) + 1
      BY <3>1, <2>2, FS_AddElement
    <3>3. per_ip'[i] = per_ip[i] + 1
      BY <2>3 DEF Admit, TypeOK
    <3> QED
      BY <2>1, <3>2, <3>3
  <2>4. CASE ~(i = conn[c].ip /\ guarded)
    <3>1. Guarded(i)' = Guarded(i)
      BY <1>2, <1>3, <2>4 DEF Guarded, Live
    <3>2. per_ip'[i] = per_ip[i]
      BY <2>1, <2>4 DEF Admit, TypeOK
    <3> QED
      BY <2>1, <3>1, <3>2
  <2> QED
    BY <2>3, <2>4
<1> QED
  BY <1>1, <1>2, <1>4, <1>5

(* A refused connection was not live and does not become so. *)
LEMMA RefuseCounts ==
  ASSUME TypeOK, NEW c \in Conn, Refuse(c), c \notin Live
  PROVE  /\ conn' \in [Conn -> Connection]
         /\ \A d \in Conn : d # c => conn'[d] = conn[d]
         /\ Cardinality(Live') = Cardinality(Live)
         /\ PerIpExact => PerIpExact'
<1>1. conn' \in [Conn -> Connection]
  BY ConnectionUpdated DEF TypeOK, Refuse
<1>2. /\ \A d \in Conn : d # c => conn'[d] = conn[d]
      /\ conn'[c].state = "closed"
  BY DEF TypeOK, Refuse, Connection
<1>3. Live' = Live
  BY <1>2 DEF Live
<1>4. \A i : Guarded(i)' = Guarded(i)
  BY <1>2, <1>3 DEF Guarded, Live
<1>5. per_ip' = per_ip
  BY DEF Refuse
<1> QED
  BY <1>1, <1>2, <1>3, <1>4, <1>5 DEF PerIpExact

(* A connection comes off the backlog: the permit of the loop goes to its  *)
(* task, or back to the semaphore.                                         *)
LEMMA AcceptStep ==
  ASSUME ServerInv, Accept
  PROVE  ServerInv'
<1> DEFINE c == Head(backlog)
<1>1. /\ TypeOK /\ backlog # <<>> /\ backlog' = Tail(backlog)
      /\ loop = "accept" /\ loop' = "permit" /\ slots' = slots /\ request' = request
  BY DEF ServerInv, Accept
<1>2. c \in Conn /\ c \notin Live
  <2>1. backlog \in Seq(Conn) /\ Len(backlog) \in Nat /\ Len(backlog) > 0
    BY <1>1 DEF TypeOK
  <2>2. c \in Conn /\ c = backlog[1] /\ 1 \in 1..Len(backlog)
    BY <2>1
  <2> QED
    BY <2>2 DEF ServerInv, BacklogOK, Live
<1>3. (\E guarded \in BOOLEAN : Admit(c, guarded)) \/ Refuse(c)
  BY DEF Accept
<1>4. /\ conn' \in [Conn -> Connection]
      /\ \A d \in Conn : d # c => conn'[d] = conn[d]
      /\ PerIpExact'
  BY <1>1, <1>2, <1>3, AdmitCounts, RefuseCounts DEF ServerInv
<1>5. /\ permits' \in Int
      /\ permits' + Cardinality(Live') = permits + Cardinality(Live) + 1
  <2>1. permits \in Int /\ Cardinality(Live) \in Nat
    BY <1>1, CountedSets DEF TypeOK
  <2>2. CASE \E guarded \in BOOLEAN : Admit(c, guarded)
    <3>1. permits' = permits /\ Cardinality(Live') = Cardinality(Live) + 1
      BY <1>1, <1>2, <2>2, AdmitCounts DEF Admit
    <3> QED
      BY <2>1, <3>1
  <2>3. CASE Refuse(c)
    <3>1. permits' = permits + 1 /\ Cardinality(Live') = Cardinality(Live)
      BY <1>1, <1>2, <2>3, RefuseCounts DEF Refuse
    <3> QED
      BY <2>1, <3>1
  <2> QED
    BY <1>3, <2>2, <2>3
<1>6. PermitsExact'
  <2>1. permits + Cardinality(Live) + 1 = max_connections
    BY <1>1 DEF ServerInv, PermitsExact
  <2>2. permits' + Cardinality(Live') \in Int
    BY <1>1, <1>5, CountedSets DEF TypeOK
  <2> QED
    BY <1>1, <1>5, <2>1, <2>2 DEF PermitsExact
<1>7. BacklogOK' /\ backlog' \in Seq(Conn)
  BY <1>1, <1>4, BacklogTail
<1>8. per_ip' \in [Ip -> Int]
  <2>1. per_ip \in [Ip -> Int]
    BY <1>1 DEF TypeOK
  <2>2. per_ip' = per_ip \/ \E n \in {0, 1} : per_ip' = [per_ip EXCEPT ![conn[c].ip] = @ + n]
    BY <1>3 DEF Admit, Refuse
  <2> QED
    BY <2>1, <2>2
<1>9. TypeOK'
  BY <1>1, <1>4, <1>5, <1>7, <1>8 DEF TypeOK
<1>10. SlotsExact'
  BY <1>1 DEF ServerInv, SlotsExact, InSlots
<1> QED
  BY <1>4, <1>6, <1>7, <1>9, <1>10 DEF ServerInv

(* The task of a live connection ends, with every request on it: the       *)
(* permit, the guard and the slots of those requests are given back.       *)
LEMMA EndConnectionStep ==
  ASSUME ServerInv, NEW c \in Conn, c \in Live, EndConnection(c)
  PROVE  ServerInv'
<1> DEFINE freed == {r \in OnConn(c) : request[r].phase \in HoldsSlot}
<1>1. TypeOK /\ conn \in [Conn -> Connection] /\ loop' = loop /\ backlog' = backlog
  BY DEF ServerInv, TypeOK, EndConnection
<1>2. conn' \in [Conn -> Connection]
  BY <1>1, ConnectionUpdated DEF EndConnection
<1>3. /\ \A d \in Conn : d # c => conn'[d] = conn[d]
      /\ conn'[c].state = "closed"
  BY <1>1 DEF EndConnection, Connection
<1>4. PermitsExact' /\ permits' \in Int
  <2>1. Live' = Live \ {c}
    BY <1>3 DEF Live
  <2>2. Cardinality(Live') = Cardinality(Live) - 1 /\ Cardinality(Live) \in Nat
    BY <2>1, CountedSets, FS_RemoveElement
  <2>3. permits' = permits + 1 /\ permits \in Int
    BY <1>1 DEF EndConnection, TypeOK
  <2>4. permits' + Cardinality(Live') = permits + Cardinality(Live)
    BY <2>2, <2>3
  <2> QED
    BY <1>1, <2>3, <2>4 DEF ServerInv, PermitsExact
<1>5. PerIpExact' /\ per_ip' \in [Ip -> Int]
  <2>1. per_ip \in [Ip -> Int] /\ conn[c].ip \in Ip /\ conn[c].guard \in BOOLEAN
    BY <1>1 DEF TypeOK, Connection
  <2>2. \E n \in {0, 1} : per_ip' = [per_ip EXCEPT ![conn[c].ip] = @ - n]
    BY DEF EndConnection
  <2>3. per_ip' \in [Ip -> Int]
    BY <2>1, <2>2
  <2>4. ASSUME NEW i \in Ip PROVE per_ip'[i] = Cardinality(Guarded(i)')
    <3>1. per_ip[i] = Cardinality(Guarded(i)) /\ per_ip[i] \in Int
      BY <2>1 DEF ServerInv, PerIpExact
    <3>2. IsFiniteSet(Guarded(i)) /\ Cardinality(Guarded(i)) \in Nat
      BY CountedSets
    <3>3. Guarded(i)' = Guarded(i) \ {c}
      BY <1>3 DEF Guarded, Live
    <3>4. c \in Guarded(i) <=> i = conn[c].ip /\ conn[c].guard
      BY DEF Guarded
    <3>5. Cardinality(Guarded(i)')
            = IF c \in Guarded(i) THEN Cardinality(Guarded(i)) - 1 ELSE Cardinality(Guarded(i))
      BY <3>2, <3>3, FS_RemoveElement
    <3>6. per_ip'[i] = IF i = conn[c].ip /\ conn[c].guard THEN per_ip[i] - 1 ELSE per_ip[i]
      BY <2>1, <3>1 DEF EndConnection
    <3> QED
      BY <3>1, <3>4, <3>5, <3>6
  <2> QED
    BY <2>3, <2>4 DEF PerIpExact
<1>6. SlotsExact' /\ slots' \in Int
  <2>1. freed \subseteq InSlots /\ InSlots' = InSlots \ freed
    BY DEF EndConnection, OnConn, InSlots, HoldsSlot
  <2>2. /\ IsFiniteSet(InSlots) /\ Cardinality(InSlots) \in Nat
        /\ IsFiniteSet(InSlots \ freed) /\ IsFiniteSet(freed)
    <3>1. freed \in SUBSET InSlots /\ InSlots \ freed \in SUBSET InSlots
      BY <2>1
    <3> HIDE DEF freed
    <3> QED
      BY <3>1, CountedSets, FS_Subset
  <2>3. /\ Cardinality(freed) \in Nat /\ Cardinality(InSlots \ freed) \in Nat
    <3> HIDE DEF freed
    <3> QED
      BY <2>2, FS_CardinalityType
  <2>4. Cardinality((InSlots \ freed) \union freed)
          = Cardinality(InSlots \ freed) + Cardinality(freed) - Cardinality((InSlots \ freed) \cap freed)
    BY <2>2, FS_Union
  <2>5. /\ Cardinality((InSlots \ freed) \cap freed) = 0
        /\ InSlots = (InSlots \ freed) \union freed
    <3>1. (InSlots \ freed) \cap freed = {} /\ InSlots = (InSlots \ freed) \union freed
      BY <2>1
    <3> QED
      BY <3>1, FS_EmptySet
  <2>6. Cardinality(InSlots) = Cardinality(InSlots \ freed) + Cardinality(freed)
    <3>1. Cardinality(InSlots) = Cardinality((InSlots \ freed) \union freed)
      BY <2>5
    <3> HIDE DEF freed
    <3> QED
      BY <2>3, <2>4, <2>5, <3>1
  <2>7. slots' = slots + Cardinality(freed) /\ slots \in Int
    BY <1>1 DEF EndConnection, TypeOK
  <2>8. slots' + Cardinality(InSlots \ freed) = slots + Cardinality(InSlots) /\ slots' \in Int
    <3> HIDE DEF freed
    <3> QED
      BY <2>2, <2>3, <2>6, <2>7
  <2> QED
    BY <2>1, <2>8 DEF ServerInv, SlotsExact
<1>7. BacklogOK'
  <2>1. \A k \in 1..Len(backlog) : backlog[k] # c /\ backlog[k] \in Conn
    BY <1>1 DEF ServerInv, TypeOK, BacklogOK, Live
  <2> QED
    BY <1>1, <1>3, <2>1 DEF ServerInv, BacklogOK
<1>8. request' \in [Request -> [phase : Open \union {"unsent", "done", "dropped"},
                                conn : Conn, route : Route]]
  BY <1>1 DEF EndConnection, TypeOK
<1>9. TypeOK'
  BY <1>1, <1>2, <1>4, <1>5, <1>6, <1>8 DEF TypeOK
<1> QED
  BY <1>4, <1>5, <1>6, <1>7, <1>9 DEF ServerInv

-----------------------------------------------------------------------------

(***************************************************************************)
(* Every step of the accept loop, a connection, a client or a layer keeps  *)
(* the sums.                                                               *)
(***************************************************************************)
LEMMA NextInv == ServerInv /\ [Next]_vars => ServerInv'
<1> SUFFICES ASSUME ServerInv, [Next]_vars PROVE ServerInv'
  OBVIOUS
<1>1. CASE AcquirePermit \/ AcceptFails \/ BackoffEnds
  BY <1>1, LoopStep
<1>2. CASE Accept
  BY <1>2, AcceptStep
<1>3. ASSUME NEW c \in Conn, Connect(c) \/ FirstByte(c)
      PROVE  ServerInv'
  BY <1>3, QuietConnectionStep
<1>4. ASSUME NEW c \in Conn, HeaderTimeout(c) \/ ConnectionDeadline(c) \/ ClientGone(c)
      PROVE  ServerInv'
  <2>1. c \in Live /\ EndConnection(c)
    BY <1>4 DEF HeaderTimeout, ConnectionDeadline, ClientGone, Live
  <2> QED
    BY <2>1, EndConnectionStep
<1>5. ASSUME NEW r \in Request, NEW c \in Conn, NEW route \in Route, Send(r, c, route)
      PROVE  ServerInv'
  BY <1>5, SendStep
<1>6. ASSUME NEW r \in Request, Layers(r) \/ HandlerReturns(r) \/ BodyEnds(r) \/ RequestTimeout(r)
      PROVE  ServerInv'
  BY <1>6, RequestSteps
<1>7. CASE UNCHANGED vars
  <2>1. Live' = Live /\ InSlots' = InSlots /\ \A i : Guarded(i)' = Guarded(i)
    BY <1>7 DEF vars, Live, InSlots, Guarded
  <2> QED
    BY <1>7, <2>1
       DEF vars, ServerInv, TypeOK, BacklogOK, PermitsExact, PerIpExact, SlotsExact
<1> QED
  BY <1>1, <1>2, <1>3, <1>4, <1>5, <1>6, <1>7 DEF Next

(***************************************************************************)
(* For any numbers of connections, addresses and requests, and any limits: *)
(* refusal, timeout, deadline, a client that goes away and a handler that  *)
(* returns each give back exactly what their connection or request took.   *)
(***************************************************************************)
THEOREM NothingEverLeaks == Spec => []NothingLeaks
<1>1. ServerInv => NothingLeaks
  BY DEF ServerInv, NothingLeaks, PermitsExact, PerIpExact, SlotsExact, Guarded, InSlots
<1> QED
  BY <1>1, InitInv, NextInv, PTL DEF Spec

(***************************************************************************)
(* serve_with_limits never runs more connections than it has permits, and  *)
(* never more for one address than the limiter allows; no more requests    *)
(* are in front of a handler than the concurrency limit has slots.         *)
(***************************************************************************)
WithinLimits ==
  /\ Cardinality(Live) <= max_connections
  /\ \A i \in Ip : Cardinality(Guarded(i)) <= max_connections_per_ip
  /\ Cardinality(InSlots) <= MAX_CONCURRENT_REQUESTS

(* What the guards of AcquirePermit, Accept and TakeSlot ensure. *)
FreeInv ==
  /\ permits \in Nat
  /\ \A i \in Ip : per_ip[i] <= max_connections_per_ip
  /\ slots \in Nat

(* The three counters, step by step. *)
LEMMA CounterSteps ==
  ASSUME ServerInv, [Next]_vars
  PROVE  /\ permits' >= permits \/ (permits > 0 /\ permits' = permits - 1)
         /\ slots' >= slots \/ (slots > 0 /\ slots' = slots - 1)
         /\ \A i \in Ip : per_ip'[i] <= per_ip[i]
                          \/ (per_ip[i] < max_connections_per_ip /\ per_ip'[i] = per_ip[i] + 1)
<1> DEFINE Goal == /\ permits' >= permits \/ (permits > 0 /\ permits' = permits - 1)
                   /\ slots' >= slots \/ (slots > 0 /\ slots' = slots - 1)
                   /\ \A i \in Ip : per_ip'[i] <= per_ip[i]
                          \/ (per_ip[i] < max_connections_per_ip /\ per_ip'[i] = per_ip[i] + 1)
<1>0. permits \in Int /\ slots \in Int /\ per_ip \in [Ip -> Int]
  BY DEF ServerInv, TypeOK
<1>1. CASE AcquirePermit \/ AcceptFails \/ BackoffEnds
  BY <1>0, <1>1 DEF AcquirePermit, AcceptFails, BackoffEnds
<1>2. CASE Accept
  <2> DEFINE c == Head(backlog)
             count == per_ip[conn[c].ip]
  <2>1. \/ count < max_connections_per_ip /\ Admit(c, TRUE)
        \/ Refuse(c)
        \/ Admit(c, FALSE)
    BY <1>2 DEF Accept
  <2>2. slots' = slots
    BY <1>2 DEF Accept
  <2>3. CASE count < max_connections_per_ip /\ Admit(c, TRUE)
    BY <1>0, <2>2, <2>3 DEF Admit
  <2>4. CASE Refuse(c)
    BY <1>0, <2>2, <2>4 DEF Refuse
  <2>5. CASE Admit(c, FALSE)
    BY <1>0, <2>2, <2>5 DEF Admit
  <2> QED
    BY <2>1, <2>3, <2>4, <2>5
<1>3. ASSUME NEW c \in Conn, Connect(c) \/ FirstByte(c)
      PROVE  Goal
  BY <1>0, <1>3 DEF Connect, FirstByte
<1>4. ASSUME NEW c \in Conn, HeaderTimeout(c) \/ ConnectionDeadline(c) \/ ClientGone(c)
      PROVE  Goal
  <2>1. EndConnection(c)
    BY <1>4 DEF HeaderTimeout, ConnectionDeadline, ClientGone
  <2>2. {r \in OnConn(c) : request[r].phase \in HoldsSlot} \subseteq InSlots
    BY DEF OnConn, InSlots
  <2>3. Cardinality({r \in OnConn(c) : request[r].phase \in HoldsSlot}) \in Nat
    BY <2>2, CountedSets, FS_Subset, FS_CardinalityType
  <2>4. slots' >= slots /\ permits' >= permits
    BY <1>0, <2>1, <2>3 DEF EndConnection
  <2>5. \E n \in {0, 1} : per_ip' = [per_ip EXCEPT ![conn[c].ip] = @ - n]
    BY <2>1 DEF EndConnection
  <2>6. \A i \in Ip : per_ip'[i] <= per_ip[i]
    BY <1>0, <2>5
  <2> QED
    BY <2>4, <2>6
<1>5. ASSUME NEW r \in Request, NEW c \in Conn, NEW route \in Route, Send(r, c, route)
      PROVE  Goal
  BY <1>0, <1>5 DEF Send, connVars
<1>6. ASSUME NEW r \in Request, Layers(r) \/ HandlerReturns(r) \/ BodyEnds(r) \/ RequestTimeout(r)
      PROVE  Goal
  <2>1. permits' = permits /\ per_ip' = per_ip
    BY <1>6 DEF Layers, Preflight, RateLimit, TakeSlot, Authenticate, HandlerReturns, BodyEnds,
                RequestTimeout, TimedOut, connVars
  <2>2. slots' = slots \/ slots' = slots + 1 \/ (slots > 0 /\ slots' = slots - 1)
    BY <1>6 DEF Layers, Preflight, RateLimit, TakeSlot, Authenticate, HandlerReturns, BodyEnds,
                RequestTimeout, TimedOut
  <2> QED
    BY <1>0, <2>1, <2>2
<1>7. CASE UNCHANGED vars
  BY <1>0, <1>7 DEF vars
<1> QED
  BY <1>1, <1>2, <1>3, <1>4, <1>5, <1>6, <1>7 DEF Next

(* The server stays within its three limits, whatever they are. *)
THEOREM LimitsHold == Spec => []WithinLimits
<1>1. Init => FreeInv
  BY HttpAssumption DEF Init, FreeInv
<1>2. ServerInv /\ FreeInv /\ [Next]_vars => FreeInv'
  <2> SUFFICES ASSUME ServerInv, FreeInv, [Next]_vars PROVE FreeInv'
    OBVIOUS
  <2>1. TypeOK' /\ TypeOK
    BY NextInv DEF ServerInv
  <2> QED
    BY <2>1, CounterSteps, HttpAssumption DEF FreeInv, TypeOK
<1>3. ServerInv /\ FreeInv => WithinLimits
  BY CountedSets, HttpAssumption
     DEF ServerInv, FreeInv, WithinLimits, PermitsExact, PerIpExact, SlotsExact
<1> QED
  BY <1>1, <1>2, <1>3, InitInv, NextInv, PTL DEF Spec

=============================================================================
