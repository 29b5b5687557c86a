------------------------- MODULE RateLimiter_proofs -------------------------
(***************************************************************************)
(* Proofs about RateLimiter: its types, the agreement of connection counts *)
(* with live guards, the bound on the table, the metering of messages by   *)
(* the token buckets and the limit on the requests of a window, for any    *)
(* number of addresses and requests and any limits.                        *)
(***************************************************************************)
EXTENDS RateLimiter, FiniteSetTheorems, TLAPS

(* entry(ip).or_insert_with(new) yields a well-typed entry, and a new one  *)
(* has no connection.                                                      *)
LEMMA EntryOK ==
  ASSUME TypeOK, NEW ip \in Ip
  PROVE  /\ ClientOK(Entry(ip))
         /\ Entry(ip).connection_count =
              IF Tracked(ip) THEN clients[ip].connection_count ELSE 0
BY LimiterAssumption DEF TypeOK, Entry, Tracked, NewClient, ClientOK, MaxTokens

(* Writing a well-typed entry keeps the table well typed. *)
LEMMA PutClientOK ==
  ASSUME TypeOK, NEW ip \in Ip, NEW client, ClientOK(client), now' = now,
         PutClient(ip, client)
  PROVE  /\ DOMAIN clients' \subseteq Ip
         /\ clients' = [i \in DOMAIN clients' |-> clients'[i]]
         /\ \A i \in DOMAIN clients' : ClientOK(clients[i])'
<1>1. clients' = [i \in DOMAIN clients \union {ip} |-> IF i = ip THEN client ELSE clients[i]]
  BY DEF PutClient
<1>2. DOMAIN clients' = DOMAIN clients \union {ip}
  BY <1>1
<1>3. ASSUME NEW i \in DOMAIN clients'
      PROVE  ClientOK(clients[i])'
  <2>1. CASE i = ip
    BY <1>1, <1>2, <2>1 DEF ClientOK, MaxTokens
  <2>2. CASE i # ip
    BY <1>1, <1>2, <1>3, <2>2 DEF TypeOK, ClientOK, MaxTokens
  <2> QED BY <2>1, <2>2
<1> QED BY <1>1, <1>2, <1>3 DEF TypeOK

(* Replacing the entry of a tracked address is the same write. *)
LEMMA ReplaceIsPut ==
  ASSUME TypeOK, NEW ip \in DOMAIN clients, NEW client,
         clients' = [clients EXCEPT ![ip] = client]
  PROVE  PutClient(ip, client)
BY DEF TypeOK, PutClient

(* Refilling never takes tokens and stops at the size of the bucket. *)
LEMMA RefilledOK ==
  ASSUME now \in Nat, NEW client, ClientOK(client)
  PROVE  Refilled(client) \in 0..MaxTokens
<1> DEFINE elapsed == now - client.last_refill
           gain == elapsed * max_messages_per_second
<1>1. client.tokens \in Nat /\ client.last_refill \in Nat /\ MaxTokens \in Nat
      /\ client.tokens <= MaxTokens /\ client.last_refill <= now
  BY LimiterAssumption DEF ClientOK, MaxTokens
<1>2. elapsed \in Nat
  BY <1>1
<1>3. gain \in Nat
  <2> HIDE DEF elapsed
  <2>1. \A m, n \in Nat : m * n \in Nat
    OBVIOUS
  <2> QED BY <1>2, <2>1, LimiterAssumption
<1>4. Refilled(client) = IF client.tokens + gain < MaxTokens THEN client.tokens + gain
                         ELSE MaxTokens
  BY DEF Refilled
<1> HIDE DEF gain
<1> QED BY <1>1, <1>3, <1>4

-----------------------------------------------------------------------------
(* Types. *)

(* Every step keeps the types. *)
LEMMA TypeStep ==
  ASSUME TypeOK, [Next]_vars
  PROVE  TypeOK'
<1>1. ASSUME NEW h \in Task, NEW op \in {"request", "connection"}, NEW ip \in Ip,
             Begin(h, op, ip)
      PROVE  TypeOK'
  BY <1>1 DEF TypeOK, Begin, Call, Idle, ClientOK, MaxTokens
<1>2. ASSUME NEW h \in Task, CheckRequest(h)
      PROVE  TypeOK'
  <2> DEFINE ip == task[h].ip
             kept == Retained(Entry(ip).requests, task[h].now)
             requests == IF Len(kept) < max_requests_per_window
                         THEN Append(kept, task[h].now) ELSE kept
             client == [Entry(ip) EXCEPT !.requests = requests]
  <2>1. ip \in Ip
    BY <1>2 DEF TypeOK, CheckRequest, Idle, Call
  <2>2. PutClient(ip, client) /\ UNCHANGED <<guards, sweep, now>>
        /\ task' = [task EXCEPT ![h] = Idle]
    BY <1>2 DEF CheckRequest
  <2> HIDE DEF requests
  <2>3. ClientOK(client)
    BY <2>1, EntryOK DEF ClientOK
  <2> HIDE DEF client
  <2>4. task' \in [Task -> {Idle} \union Call]
    BY <2>2 DEF TypeOK
  <2> QED BY <2>1, <2>2, <2>3, <2>4, PutClientOK DEF TypeOK
<1>3. ASSUME NEW h \in Task, CheckConnection(h)
      PROVE  TypeOK'
  <2> DEFINE ip == task[h].ip
             ok == Entry(ip).connection_count < max_connections_per_ip
             client == [Entry(ip) EXCEPT !.connection_count = IF ok THEN @ + 1 ELSE @]
  <2>1. ip \in Ip
    BY <1>3 DEF TypeOK, CheckConnection, Idle, Call
  <2>2. PutClient(ip, client) /\ UNCHANGED <<sweep, now>>
        /\ task' = [task EXCEPT ![h] = Idle]
        /\ guards' = [guards EXCEPT ![ip] = IF ok THEN @ + 1 ELSE @]
    BY <1>3 DEF CheckConnection
  <2> HIDE DEF ok
  <2>3. ClientOK(client)
    BY <2>1, EntryOK DEF ClientOK
  <2> HIDE DEF client
  <2>4. task' \in [Task -> {Idle} \union Call] /\ guards' \in [Ip -> Nat]
    BY <2>1, <2>2 DEF TypeOK
  <2> QED BY <2>1, <2>2, <2>3, <2>4, PutClientOK DEF TypeOK
<1>4. ASSUME NEW ip \in Ip, DropGuard(ip)
      PROVE  TypeOK'
  <2>1. guards' \in [Ip -> Nat] /\ UNCHANGED <<task, sweep, now>>
    BY <1>4 DEF DropGuard, TypeOK
  <2>2. CASE Tracked(ip)
    <3> DEFINE count == SaturatingSub(clients[ip].connection_count, 1)
               client == [clients[ip] EXCEPT !.connection_count = count]
    <3>1. ip \in DOMAIN clients /\ clients' = [clients EXCEPT ![ip] = client]
      BY <1>4, <2>2 DEF DropGuard, close_connection, Tracked
    <3>2. count \in Nat
      BY <3>1 DEF SaturatingSub, TypeOK, ClientOK
    <3> HIDE DEF count
    <3>3. ClientOK(client)
      BY <3>1, <3>2 DEF TypeOK, ClientOK
    <3> HIDE DEF client
    <3> QED BY <2>1, <3>1, <3>3, PutClientOK, ReplaceIsPut DEF TypeOK
  <2>3. CASE ~Tracked(ip)
    BY <1>4, <2>1, <2>3 DEF DropGuard, close_connection, TypeOK, ClientOK, MaxTokens
  <2> QED BY <2>2, <2>3
<1>5. ASSUME NEW ip \in Ip, CheckMessage(ip)
      PROVE  TypeOK'
  <2> DEFINE tokens == Refilled(clients[ip])
             left == IF tokens >= 1 THEN tokens - 1 ELSE tokens
             client == [clients[ip] EXCEPT !.tokens = left, !.last_refill = now]
  <2>1. ip \in DOMAIN clients /\ ClientOK(clients[ip]) /\ now \in Nat
    BY <1>5 DEF TypeOK, CheckMessage, Tracked
  <2>2. left \in 0..MaxTokens
    <3>1. tokens \in 0..MaxTokens
      BY <2>1, RefilledOK
    <3>2. MaxTokens \in Nat
      BY LimiterAssumption DEF MaxTokens
    <3> HIDE DEF tokens
    <3> QED BY <3>1, <3>2
  <2>3. clients' = [clients EXCEPT ![ip] = client] /\ UNCHANGED <<guards, task, sweep, now>>
    BY <1>5 DEF CheckMessage, check_message_rate
  <2> HIDE DEF left
  <2>4. ClientOK(client)
    <3> DEFINE old == clients[ip]
               new == [requests |-> old.requests, connection_count |-> old.connection_count,
                       tokens |-> left, last_refill |-> now]
    <3>1. client = new
      <4> DEFINE metered == [old EXCEPT !.tokens = left]
      <4>1. client = [metered EXCEPT !.last_refill = now]
        OBVIOUS
      <4>2. metered = [requests |-> old.requests, connection_count |-> old.connection_count,
                       tokens |-> left, last_refill |-> old.last_refill]
        BY <2>1 DEF ClientOK
      <4> HIDE DEF metered
      <4> QED BY <4>1, <4>2
    <3>2. old.connection_count \in Nat
      BY <2>1 DEF ClientOK
    <3> HIDE DEF old
    <3>3. ClientOK(new)
      BY <2>1, <2>2, <3>2 DEF ClientOK
    <3> QED BY <3>1, <3>3
  <2> HIDE DEF client
  <2> QED BY <2>1, <2>3, <2>4, PutClientOK, ReplaceIsPut DEF TypeOK
<1>6. ASSUME NEW ip \in Ip, SweepEntry(ip)
      PROVE  TypeOK'
  BY <1>6 DEF TypeOK, SweepEntry, NoSweep, ClientOK, MaxTokens
<1>7. CASE BeginSweep
  BY <1>7, LimiterAssumption DEF TypeOK, BeginSweep, ClientOK, MaxTokens
<1>8. CASE Tick
  BY <1>8 DEF TypeOK, Tick, ClientOK, MaxTokens
<1>9. CASE UNCHANGED vars
  BY <1>9 DEF TypeOK, vars, ClientOK, MaxTokens
<1> QED BY <1>1, <1>2, <1>3, <1>4, <1>5, <1>6, <1>7, <1>8, <1>9, LimiterAssumption DEF Next

(***************************************************************************)
(* The table, the guards and the calls in flight of WebSocketRateLimiter   *)
(* keep their types, and no token bucket exceeds its size.                 *)
(***************************************************************************)
THEOREM LimiterTypeCorrect == Spec => []TypeOK
<1>1. Init => TypeOK
  BY DEF Init, TypeOK, NoSweep, Idle
<1> QED BY <1>1, TypeStep, PTL DEF Spec

-----------------------------------------------------------------------------
(* Connection counts. *)

(* Writing an entry whose count is the number of guards keeps them equal. *)
LEMMA PutKeepsCounts ==
  ASSUME TypeOK, GuardsCounted, NEW ip \in Ip, NEW client, NEW n \in Nat,
         PutClient(ip, client), client.connection_count = n,
         n <= max_connections_per_ip, guards' = [guards EXCEPT ![ip] = n]
  PROVE  GuardsCounted'
<1>1. guards' \in [Ip -> Nat] /\ guards'[ip] = n /\ Tracked(ip)' /\ clients'[ip] = client
  BY DEF TypeOK, PutClient, Tracked
<1>2. ASSUME NEW i \in Ip, i # ip
      PROVE  /\ guards'[i] = guards[i]
             /\ Tracked(i)' <=> Tracked(i)
             /\ Tracked(i) => clients'[i] = clients[i]
  BY <1>2 DEF TypeOK, PutClient, Tracked
<1> QED BY <1>1, <1>2 DEF GuardsCounted

(* Every step keeps the counts equal to the live guards. *)
LEMMA GuardsStep ==
  ASSUME TypeOK, GuardsCounted, [Next]_vars
  PROVE  GuardsCounted'
<1>1. ASSUME NEW h \in Task, CheckRequest(h)
      PROVE  GuardsCounted'
  <2> DEFINE ip == task[h].ip
             kept == Retained(Entry(ip).requests, task[h].now)
             requests == IF Len(kept) < max_requests_per_window
                         THEN Append(kept, task[h].now) ELSE kept
             client == [Entry(ip) EXCEPT !.requests = requests]
  <2>1. ip \in Ip
    BY <1>1 DEF TypeOK, CheckRequest, Idle, Call
  <2>2. PutClient(ip, client) /\ UNCHANGED guards
    BY <1>1 DEF CheckRequest
  <2> HIDE DEF requests
  <2>3. client.connection_count = guards[ip]
    BY <2>1, EntryOK DEF ClientOK, GuardsCounted
  <2>4. guards[ip] \in Nat /\ guards[ip] <= max_connections_per_ip
        /\ guards' = [guards EXCEPT ![ip] = guards[ip]]
    BY <2>1, <2>2 DEF GuardsCounted, TypeOK
  <2> HIDE DEF client
  <2> QED BY <2>1, <2>2, <2>3, <2>4, PutKeepsCounts
<1>2. ASSUME NEW h \in Task, CheckConnection(h)
      PROVE  GuardsCounted'
  <2> DEFINE ip == task[h].ip
             ok == Entry(ip).connection_count < max_connections_per_ip
             n == IF ok THEN guards[ip] + 1 ELSE guards[ip]
             client == [Entry(ip) EXCEPT !.connection_count = IF ok THEN @ + 1 ELSE @]
  <2>1. ip \in Ip
    BY <1>2 DEF TypeOK, CheckConnection, Idle, Call
  <2>2. PutClient(ip, client) /\ guards' = [guards EXCEPT ![ip] = IF ok THEN @ + 1 ELSE @]
    BY <1>2 DEF CheckConnection
  <2>3. Entry(ip).connection_count = guards[ip] /\ ClientOK(Entry(ip))
    BY <2>1, EntryOK DEF GuardsCounted
  <2>4. guards[ip] \in Nat /\ guards[ip] <= max_connections_per_ip
    BY <2>1 DEF GuardsCounted, TypeOK
  <2>5. n \in Nat /\ n <= max_connections_per_ip
    BY <2>3, <2>4, LimiterAssumption
  <2> HIDE DEF ok
  <2>6. client.connection_count = n
    BY <2>3 DEF ClientOK
  <2>7. guards' = [guards EXCEPT ![ip] = n]
    BY <2>2
  <2> HIDE DEF client, n
  <2> QED BY <2>1, <2>2, <2>5, <2>6, <2>7, PutKeepsCounts
<1>3. ASSUME NEW ip \in Ip, DropGuard(ip)
      PROVE  GuardsCounted'
  <2> DEFINE client == [clients[ip] EXCEPT !.connection_count = SaturatingSub(@, 1)]
             n == guards[ip] - 1
  <2>1. guards[ip] \in Nat /\ guards[ip] > 0 /\ guards[ip] <= max_connections_per_ip
        /\ guards' = [guards EXCEPT ![ip] = n]
    BY <1>3 DEF TypeOK, GuardsCounted, DropGuard
  <2>2. Tracked(ip) /\ clients[ip].connection_count = guards[ip]
    BY <2>1 DEF GuardsCounted
  <2>3. ip \in DOMAIN clients /\ ClientOK(clients[ip])
        /\ clients' = [clients EXCEPT ![ip] = client]
    BY <1>3, <2>2 DEF TypeOK, DropGuard, close_connection, Tracked
  <2>4. client.connection_count = n
    BY <2>1, <2>2, <2>3 DEF ClientOK, SaturatingSub
  <2>5. n \in Nat /\ n <= max_connections_per_ip
    BY <2>1, LimiterAssumption
  <2> HIDE DEF client, n
  <2> QED BY <2>1, <2>3, <2>4, <2>5, ReplaceIsPut, PutKeepsCounts
<1>4. ASSUME NEW ip \in Ip, CheckMessage(ip)
      PROVE  GuardsCounted'
  <2> DEFINE tokens == Refilled(clients[ip])
             left == IF tokens >= 1 THEN tokens - 1 ELSE tokens
             client == [clients[ip] EXCEPT !.tokens = left, !.last_refill = now]
  <2>1. ip \in DOMAIN clients /\ ClientOK(clients[ip])
        /\ clients[ip].connection_count = guards[ip]
        /\ guards[ip] \in Nat /\ guards[ip] <= max_connections_per_ip
    BY <1>4 DEF TypeOK, CheckMessage, Tracked, GuardsCounted
  <2>2. clients' = [clients EXCEPT ![ip] = client] /\ UNCHANGED guards
    BY <1>4 DEF CheckMessage, check_message_rate
  <2> HIDE DEF left
  <2>3. client.connection_count = guards[ip]
    BY <2>1 DEF ClientOK
  <2>4. guards' = [guards EXCEPT ![ip] = guards[ip]]
    BY <2>2 DEF TypeOK
  <2> HIDE DEF client
  <2> QED BY <2>1, <2>2, <2>3, <2>4, ReplaceIsPut, PutKeepsCounts
<1>5. ASSUME NEW ip \in Ip, SweepEntry(ip)
      PROVE  GuardsCounted'
  BY <1>5 DEF TypeOK, GuardsCounted, SweepEntry, Tracked, Expired
<1>6. ASSUME UNCHANGED <<clients, guards>>
      PROVE  GuardsCounted'
  BY <1>6 DEF GuardsCounted, Tracked
<1> QED BY <1>1, <1>2, <1>3, <1>4, <1>5, <1>6
        DEF Next, Begin, BeginSweep, Tick, vars

(***************************************************************************)
(* For any number of addresses, requests and limits: each address has as   *)
(* many connections on its count as live guards, at most                   *)
(* max_connections_per_ip, and cleanup_expired never drops a connected     *)
(* client.                                                                 *)
(***************************************************************************)
THEOREM GuardsCountedCorrect == Spec => []GuardsCounted
<1>1. Init => GuardsCounted
  BY LimiterAssumption DEF Init, GuardsCounted, Tracked
<1> QED BY <1>1, GuardsStep, LimiterTypeCorrect, PTL DEF Spec

-----------------------------------------------------------------------------
(* The size of the table. *)

Known == DOMAIN clients \union Arriving

(* The bound, on a set that TLAPS knows to be finite. *)
TableInv == IsFiniteSet(Known) /\ TableBounded

(* No more addresses arrive than there are tasks. *)
LEMMA FewArrive ==
  ASSUME NEW t
  PROVE  LET A == {t[h].ip : h \in {g \in Task : t[g] # Idle}}
         IN  /\ IsFiniteSet(A)
             /\ Cardinality(A) \in Nat
             /\ Cardinality(A) <= Cardinality(Task)
             /\ Cardinality(Task) \in Nat
<1> DEFINE busy == {h \in Task : t[h] # Idle}
           A == {t[h].ip : h \in busy}
           f == [h \in busy |-> t[h].ip]
<1>1. IsFiniteSet(Task) /\ busy \in SUBSET Task
  BY LimiterAssumption
<1>2. IsFiniteSet(busy) /\ Cardinality(busy) <= Cardinality(Task)
  BY <1>1, FS_Subset
<1>3. f \in Surjection(busy, A)
  BY DEF Surjection
<1> HIDE DEF f
<1>4. IsFiniteSet(A) /\ Cardinality(A) <= Cardinality(busy)
  BY <1>2, <1>3, FS_Surjection
<1>5. /\ Cardinality(A) \in Nat
      /\ Cardinality(busy) \in Nat
      /\ Cardinality(Task) \in Nat
  BY <1>1, <1>2, <1>4, FS_CardinalityType
<1> QED BY <1>2, <1>4, <1>5

(* A step that brings no address in keeps the bound. *)
LEMMA FewerKnown ==
  ASSUME TableInv, Known' \subseteq Known
  PROVE  TableInv'
<1>1. IsFiniteSet(Known') /\ Cardinality(Known') <= Cardinality(Known)
  BY FS_Subset DEF TableInv
<1>2. Cardinality(Known) \in Nat /\ Cardinality(Known') \in Nat
  BY <1>1, FS_CardinalityType DEF TableInv
<1>3. Cardinality(Known) < MAX_TRACKED_CLIENTS + Cardinality(Task)
  BY DEF TableInv, TableBounded, Known
<1>4. MAX_TRACKED_CLIENTS \in Nat /\ Cardinality(Task) \in Nat
  BY FewArrive, LimiterAssumption
<1>5. Cardinality(Known') < MAX_TRACKED_CLIENTS + Cardinality(Task)
  BY <1>1, <1>2, <1>3, <1>4
<1> QED BY <1>1, <1>5 DEF TableInv, TableBounded, Known

(* A call that found the address missing found room in the table. *)
LEMMA NewArrival ==
  ASSUME TypeOK, TableInv, NEW h \in Task, NEW op, NEW ip \in Ip,
         Begin(h, op, ip), ~Tracked(ip)
  PROVE  TableInv'
<1>1. DOMAIN clients' = DOMAIN clients
  BY DEF Begin
<1>2. IsFiniteSet(DOMAIN clients)
  BY FS_Subset DEF TableInv, Known
<1>3. Cardinality(DOMAIN clients) \in Nat
      /\ Cardinality(DOMAIN clients) < MAX_TRACKED_CLIENTS
  BY <1>2, FS_CardinalityType DEF Begin, HasRoom
<1>4. /\ IsFiniteSet(Arriving')
      /\ Cardinality(Arriving') \in Nat
      /\ Cardinality(Arriving') <= Cardinality(Task)
      /\ Cardinality(Task) \in Nat
  BY FewArrive DEF Arriving
<1>5. /\ IsFiniteSet(DOMAIN clients \union Arriving')
      /\ Cardinality(DOMAIN clients \union Arriving') =
           Cardinality(DOMAIN clients) + Cardinality(Arriving')
           - Cardinality(DOMAIN clients \intersect Arriving')
  BY <1>2, <1>4, FS_Union
<1>6. Cardinality(DOMAIN clients \intersect Arriving') \in Nat
  <2>1. IsFiniteSet(DOMAIN clients \intersect Arriving')
    BY <1>2, FS_Subset
  <2> QED BY <2>1, FS_CardinalityType
<1>7. Cardinality(DOMAIN clients \union Arriving')
        < MAX_TRACKED_CLIENTS + Cardinality(Task)
  BY <1>3, <1>4, <1>5, <1>6, LimiterAssumption
<1> QED BY <1>1, <1>5, <1>7 DEF TableInv, TableBounded, Known

(* Every step keeps the bound. *)
LEMMA TableStep ==
  ASSUME TypeOK, TableInv, [Next]_vars
  PROVE  TableInv'
<1>1. ASSUME NEW h \in Task, NEW op \in {"request", "connection"}, NEW ip \in Ip,
             Begin(h, op, ip)
      PROVE  TableInv'
  <2>1. CASE ~Tracked(ip)
    BY <1>1, <2>1, NewArrival
  <2>2. CASE Tracked(ip)
    <3>1. Known' \subseteq Known
      BY <1>1, <2>2 DEF Begin, Known, Arriving, Tracked, TypeOK, Idle
    <3> QED BY <3>1, FewerKnown
  <2> QED BY <2>1, <2>2
<1>2. ASSUME NEW h \in Task, NEW client, task[h] # Idle, PutClient(task[h].ip, client),
             task' = [task EXCEPT ![h] = Idle]
      PROVE  TableInv'
  <2>1. DOMAIN clients' = DOMAIN clients \union {task[h].ip}
    BY <1>2 DEF PutClient
  <2>2. task[h].ip \in Arriving
    BY <1>2 DEF Arriving
  <2>3. Arriving' \subseteq Arriving
    BY <1>2 DEF Arriving, TypeOK
  <2> QED BY <2>1, <2>2, <2>3, FewerKnown DEF Known
<1>3. ASSUME NEW h \in Task, CheckRequest(h) \/ CheckConnection(h)
      PROVE  TableInv'
  <2>1. task[h] # Idle
    BY <1>3 DEF CheckRequest, CheckConnection, Idle
  <2>2. task' = [task EXCEPT ![h] = Idle] /\ \E client : PutClient(task[h].ip, client)
    BY <1>3 DEF CheckRequest, CheckConnection
  <2> QED BY <1>2, <2>1, <2>2
<1>4. ASSUME DOMAIN clients' \subseteq DOMAIN clients, UNCHANGED task
      PROVE  TableInv'
  BY <1>4, FewerKnown DEF Known, Arriving
<1>5. ASSUME NEW ip \in Ip, DropGuard(ip) \/ CheckMessage(ip) \/ SweepEntry(ip)
      PROVE  DOMAIN clients' \subseteq DOMAIN clients /\ UNCHANGED task
  BY <1>5 DEF DropGuard, close_connection, CheckMessage, SweepEntry
<1> QED BY <1>1, <1>3, <1>4, <1>5, LimiterAssumption
        DEF Next, BeginSweep, Tick, vars

(***************************************************************************)
(* check_request and check_connection test the capacity before they lock   *)
(* the entry, so the table can pass MAX_TRACKED_CLIENTS; it never reaches  *)
(* MAX_TRACKED_CLIENTS plus the number of concurrent calls.                *)
(***************************************************************************)
THEOREM TableBoundedCorrect == Spec => []TableBounded
<1>1. Init => TableInv
  <2> SUFFICES ASSUME Init PROVE TableInv
    OBVIOUS
  <2>1. Known = {}
    BY DEF Init, Known, Arriving, Idle
  <2>2. Cardinality(Task) \in Nat
    BY FewArrive
  <2> QED BY <2>1, <2>2, FS_EmptySet, LimiterAssumption DEF TableInv, TableBounded, Known
<1>2. TableInv => TableBounded
  BY DEF TableInv
<1> QED BY <1>1, <1>2, TableStep, LimiterTypeCorrect, PTL DEF Spec

-----------------------------------------------------------------------------
(* The token buckets. *)

(* What MeteredWhileConnected says of one address. *)
Metered(ip) ==
  /\ Tracked(ip)'
  /\ Refilled(clients[ip])' <=
       Refilled(clients[ip]) + (now' - now) * max_messages_per_second

(* A step that leaves the bucket and the clock alone gives no tokens. *)
LEMMA SameBucket ==
  ASSUME TypeOK, NEW ip \in Ip, Tracked(ip), now' = now, Tracked(ip)',
         clients'[ip].tokens = clients[ip].tokens,
         clients'[ip].last_refill = clients[ip].last_refill
  PROVE  Metered(ip)
<1>1. Refilled(clients[ip])' = Refilled(clients[ip])
  BY DEF Refilled, MaxTokens
<1>2. Refilled(clients[ip]) \in Nat
  BY RefilledOK, LimiterAssumption DEF TypeOK, Tracked, MaxTokens
<1>3. (now' - now) * max_messages_per_second = 0
  BY LimiterAssumption DEF TypeOK
<1> QED
  BY <1>1, <1>2, <1>3 DEF Metered

(* Writing an entry that keeps the bucket, of this or another address. *)
LEMMA PutMetered ==
  ASSUME TypeOK, NEW ip \in Ip, Tracked(ip), now' = now, NEW i \in Ip, NEW client,
         PutClient(i, client),
         i = ip => client.tokens = clients[ip].tokens /\ client.last_refill = clients[ip].last_refill
  PROVE  Metered(ip)
<1>1. Tracked(ip)' /\ clients'[ip] = IF i = ip THEN client ELSE clients[ip]
  BY DEF PutClient, Tracked
<1> QED
  BY <1>1, SameBucket

(* A message spends a token, or finds none: what is left is not refilled   *)
(* again before time passes.                                               *)
LEMMA MessageMetered ==
  ASSUME TypeOK, NEW ip \in Ip, CheckMessage(ip)
  PROVE  Metered(ip)
<1> DEFINE tokens == Refilled(clients[ip])
           left == IF tokens >= 1 THEN tokens - 1 ELSE tokens
           client == [clients[ip] EXCEPT !.tokens = left, !.last_refill = now]
<1>1. ip \in DOMAIN clients /\ ClientOK(clients[ip]) /\ now \in Nat /\ now' = now
  BY DEF TypeOK, CheckMessage, Tracked
<1>2. clients' = [clients EXCEPT ![ip] = client]
  BY DEF CheckMessage, check_message_rate
<1>3. tokens \in Nat /\ tokens <= MaxTokens /\ MaxTokens \in Nat
  BY <1>1, RefilledOK, LimiterAssumption DEF MaxTokens
<1>4. left \in Nat /\ left <= tokens
  BY <1>3
<1> HIDE DEF left, tokens
<1>5. client.tokens = left /\ client.last_refill = now
  BY <1>1 DEF ClientOK
<1> HIDE DEF client
<1>6. Tracked(ip)' /\ clients'[ip] = client
  BY <1>1, <1>2 DEF TypeOK, Tracked
<1>7. (now' - now) * max_messages_per_second = 0 /\ (now' - now') * max_messages_per_second = 0
  BY <1>1, LimiterAssumption
<1>8. Refilled(clients[ip])' = IF left + 0 < MaxTokens THEN left + 0 ELSE MaxTokens
  <2>1. Refilled(clients[ip])' = IF left + (now' - now') * max_messages_per_second < MaxTokens
                                 THEN left + (now' - now') * max_messages_per_second ELSE MaxTokens
    BY <1>1, <1>5, <1>6 DEF Refilled, MaxTokens
  <2> QED
    BY <1>7, <2>1
<1>9. Refilled(clients[ip])' <= tokens
  BY <1>3, <1>4, <1>8
<1> QED
  BY <1>3, <1>6, <1>7, <1>9 DEF Metered, tokens

(* A tick gives at most its share. *)
LEMMA TickMetered ==
  ASSUME TypeOK, NEW ip \in Ip, Tracked(ip), Tick
  PROVE  Metered(ip)
<1> DEFINE client == clients[ip]
           m == max_messages_per_second
           gain == (now - client.last_refill) * m
           later == (now' - client.last_refill) * m
<1>1. /\ now \in Nat /\ now' = now + 1 /\ m \in Nat /\ MaxTokens \in Nat
      /\ client.tokens \in Nat /\ client.last_refill \in Nat
      /\ clients' = clients
  BY LimiterAssumption DEF TypeOK, Tick, Tracked, ClientOK, MaxTokens
<1>2. \A a, b \in Int : (a + 1 - b) * m = (a - b) * m + m
  BY <1>1
<1>3. later = gain + m
  <2> DEFINE refill == client.last_refill
  <2>1. refill \in Int /\ now \in Int /\ now' = now + 1
    BY <1>1
  <2> HIDE DEF refill, m
  <2>2. (now + 1 - refill) * m = (now - refill) * m + m
    BY <1>2, <2>1
  <2> QED
    BY <2>1, <2>2 DEF refill
<1>4. gain \in Int
  BY <1>1
<1>5. (now' - now) * m = m
  BY <1>1
<1>6. /\ Refilled(client) = IF client.tokens + gain < MaxTokens THEN client.tokens + gain ELSE MaxTokens
      /\ Refilled(clients[ip])' = IF client.tokens + later < MaxTokens THEN client.tokens + later ELSE MaxTokens
  BY <1>1 DEF Refilled, MaxTokens
<1> HIDE DEF gain, later
<1>7. Refilled(clients[ip])' <= Refilled(client) + m
  BY <1>1, <1>3, <1>4, <1>6
<1> QED
  BY <1>1, <1>5, <1>7 DEF Metered, Tracked

(* No step gives a connected client tokens that time did not. *)
LEMMA MeteredStep ==
  ASSUME TypeOK, GuardsCounted, Next, NEW ip \in Ip, guards[ip] > 0
  PROVE  Metered(ip)
<1>0. Tracked(ip) /\ clients[ip].connection_count = guards[ip]
  BY DEF GuardsCounted, TypeOK
<1>1. ASSUME NEW h \in Task, CheckRequest(h)
      PROVE  Metered(ip)
  <2> DEFINE i == task[h].ip
             kept == Retained(Entry(i).requests, task[h].now)
             requests == IF Len(kept) < max_requests_per_window
                         THEN Append(kept, task[h].now) ELSE kept
             client == [Entry(i) EXCEPT !.requests = requests]
  <2>1. i \in Ip /\ PutClient(i, client) /\ now' = now
    BY <1>1 DEF TypeOK, CheckRequest, Idle, Call
  <2> HIDE DEF requests
  <2>2. i = ip => client.tokens = clients[ip].tokens /\ client.last_refill = clients[ip].last_refill
    BY <1>0, <2>1, EntryOK DEF ClientOK, Entry
  <2> HIDE DEF client, i
  <2> QED
    BY <1>0, <2>1, <2>2, PutMetered
<1>2. ASSUME NEW h \in Task, CheckConnection(h)
      PROVE  Metered(ip)
  <2> DEFINE i == task[h].ip
             count == IF Entry(i).connection_count < max_connections_per_ip
                      THEN Entry(i).connection_count + 1 ELSE Entry(i).connection_count
             client == [Entry(i) EXCEPT !.connection_count = count]
  <2>1. i \in Ip /\ PutClient(i, client) /\ now' = now
    BY <1>2 DEF TypeOK, CheckConnection, Idle, Call
  <2> HIDE DEF count
  <2>2. i = ip => client.tokens = clients[ip].tokens /\ client.last_refill = clients[ip].last_refill
    BY <1>0, <2>1, EntryOK DEF ClientOK, Entry
  <2> HIDE DEF client, i
  <2> QED
    BY <1>0, <2>1, <2>2, PutMetered
<1>3. ASSUME NEW i \in Ip, DropGuard(i)
      PROVE  Metered(ip)
  <2> DEFINE count == SaturatingSub(clients[i].connection_count, 1)
             client == [clients[i] EXCEPT !.connection_count = count]
  <2>0. guards[i] \in Nat /\ guards[i] > 0 /\ Tracked(i)
    BY <1>3 DEF DropGuard, GuardsCounted, TypeOK
  <2>1. i \in DOMAIN clients /\ clients' = [clients EXCEPT ![i] = client] /\ now' = now
    BY <1>3, <2>0 DEF DropGuard, close_connection, Tracked
  <2> HIDE DEF count
  <2>2. i = ip => client.tokens = clients[ip].tokens /\ client.last_refill = clients[ip].last_refill
    BY <2>1 DEF ClientOK, TypeOK
  <2> HIDE DEF client
  <2> QED
    BY <1>0, <2>1, <2>2, ReplaceIsPut, PutMetered
<1>4. ASSUME NEW i \in Ip, CheckMessage(i)
      PROVE  Metered(ip)
  <2>1. CASE i = ip
    BY <1>4, <2>1, MessageMetered
  <2>2. CASE i # ip
    <3> DEFINE client == check_message_rate(clients[i])
    <3>1. i \in DOMAIN clients /\ clients' = [clients EXCEPT ![i] = client] /\ now' = now
      BY <1>4 DEF CheckMessage, Tracked
    <3> HIDE DEF client
    <3> QED
      BY <1>0, <2>2, <3>1, ReplaceIsPut, PutMetered
  <2> QED
    BY <2>1, <2>2
<1>5. ASSUME NEW i \in Ip, SweepEntry(i)
      PROVE  Metered(ip)
  <2>1. i = ip => ~Expired(clients[i], sweep.cutoff)
    BY <1>0 DEF Expired
  <2>2. Tracked(ip)' /\ clients'[ip] = clients[ip] /\ now' = now
    BY <1>0, <1>5, <2>1 DEF SweepEntry, Tracked
  <2> QED
    BY <1>0, <2>2, SameBucket
<1>6. ASSUME UNCHANGED <<clients, now>>
      PROVE  Metered(ip)
  BY <1>0, <1>6, SameBucket DEF Tracked
<1>7. CASE Tick
  BY <1>0, <1>7, TickMetered
<1> QED BY <1>1, <1>2, <1>3, <1>4, <1>5, <1>6, <1>7 DEF Next, Begin, BeginSweep

(***************************************************************************)
(* For any rate, burst and number of connections: check_message_rate and   *)
(* the sweep of cleanup_expired give a connected client no token that the  *)
(* clock did not.                                                          *)
(***************************************************************************)
THEOREM BucketsMetered == Spec => MeteredWhileConnected
<1> DEFINE Step == \A ip \in Ip : guards[ip] > 0 /\ guards'[ip] > 0 =>
             /\ Tracked(ip)'
             /\ Refilled(clients[ip])' <=
                  Refilled(clients[ip]) + (now' - now) * max_messages_per_second
<1>1. TypeOK /\ GuardsCounted /\ [Next]_vars => [Step]_vars
  BY MeteredStep DEF Metered
<1> QED
  BY <1>1, LimiterTypeCorrect, GuardsCountedCorrect, PTL DEF Spec, MeteredWhileConnected

-----------------------------------------------------------------------------
(* The request window. *)

(* The recorded requests of an address. *)
Requests(ip) == IF Tracked(ip) THEN clients[ip].requests ELSE <<>>

(* The positions of instants that are not before x. *)
AtLeast(s, x) == {i \in DOMAIN s : s[i] >= x}

(* The first instant of the window, and of the part of it that is limited. *)
Start == now - window_duration + 1

(* Instants are in the past; a request has paused for at most MaxLag, and  *)
(* the cutoff of a sweep is two windows back.                              *)
InstantsOK ==
  /\ \A ip \in DOMAIN clients : clients[ip].requests \in Seq(Nat)
  /\ admitted \in [Ip -> Seq(Nat)]
  /\ \A ip \in Ip : \A i \in DOMAIN admitted[ip] : admitted[ip][i] <= now
  /\ \A h \in Task : task[h] # Idle => task[h].now <= now /\ now <= task[h].now + MaxLag
  /\ sweep.left # {} => sweep.cutoff <= now - window_duration * 2

(***************************************************************************)
(* Every admission that is still limited has a recorded request of its     *)
(* own, stamped at most MaxLag earlier: no instant of the window has fewer *)
(* records after it than admissions MaxLag later.                          *)
(***************************************************************************)
Covered ==
  \A ip \in Ip : \A x \in Int : x >= Start =>
    Cardinality(AtLeast(admitted[ip], x + MaxLag)) <= Cardinality(AtLeast(Requests(ip), x))

(* What the sweep relies on: the last record is as late as any admission,  *)
(* although requests may be recorded out of order.                         *)
LastCovers ==
  \A ip \in Ip : \A i \in DOMAIN admitted[ip] :
    \/ admitted[ip][i] < Start + MaxLag
    \/ /\ Requests(ip) # <<>>
       /\ admitted[ip][i] <= Last(Requests(ip)) + MaxLag

(* The limit, as a number of admissions. *)
Limited ==
  \A ip \in Ip : Cardinality(AtLeast(admitted[ip], Start + MaxLag)) <= max_requests_per_window

WindowInv ==
  /\ InstantsOK
  /\ Covered
  /\ LastCovers
  /\ Limited

-----------------------------------------------------------------------------
(* Entries of a sequence. *)

(* The place of a position among others. *)
Place(at, i) == Cardinality({j \in at : j <= i})

(* Places number a finite set of positions from 1, in their order. *)
LEMMA PlacesOnto ==
  ASSUME NEW at, IsFiniteSet(at), at \subseteq Int
  PROVE  /\ Cardinality(at) \in Nat
         /\ \A i \in at : Place(at, i) \in 1..Cardinality(at)
         /\ \A i, j \in at : Place(at, i) = Place(at, j) => i = j
         /\ \A n \in 1..Cardinality(at) : \E i \in at : Place(at, i) = n
<1> DEFINE UpTo(i) == {j \in at : j <= i}
           m == Cardinality(at)
           place == [i \in at |-> Place(at, i)]
<1>1. m \in Nat /\ m = Cardinality(at)
  BY FS_CardinalityType
<1> HIDE DEF m
<1>2. ASSUME NEW i \in at
      PROVE  /\ UpTo(i) \subseteq at /\ i \in UpTo(i) /\ IsFiniteSet(UpTo(i))
             /\ place[i] = Cardinality(UpTo(i)) /\ place[i] \in 1..m
  <2>1. UpTo(i) \subseteq at /\ i \in UpTo(i) /\ place[i] = Cardinality(UpTo(i))
    BY DEF Place
  <2> HIDE DEF UpTo
  <2>2. IsFiniteSet(UpTo(i)) /\ Cardinality(UpTo(i)) <= m
    BY <1>1, <2>1, FS_Subset
  <2>3. Cardinality(UpTo(i)) \in Nat /\ Cardinality(UpTo(i)) # 0
    BY <2>1, <2>2, FS_CardinalityType, FS_EmptySet
  <2> QED
    BY <1>1, <2>1, <2>2, <2>3
<1>3. ASSUME NEW i \in at, NEW j \in at, i < j PROVE place[i] # place[j]
  <2>0. /\ \A k \in at : k <= i => k <= j
        /\ ~(j <= i) /\ j <= j
    <3>1. i \in Int /\ j \in Int /\ \A k \in at : k \in Int
      OBVIOUS
    <3> QED
      BY <1>3, <3>1
  <2>1. UpTo(i) \subseteq UpTo(j) /\ j \notin UpTo(i) /\ j \in UpTo(j)
    BY <2>0
  <2>2. /\ IsFiniteSet(UpTo(j)) /\ place[i] = Cardinality(UpTo(i)) /\ place[j] = Cardinality(UpTo(j))
    BY <1>2
  <2> HIDE DEF UpTo
  <2> QED
    BY <2>1, <2>2, FS_Subset
<1>4. \A i, j \in at : place[i] = place[j] => i = j
  <2>1. \A i, j \in at : i < j \/ j < i \/ i = j
    OBVIOUS
  <2> QED
    BY <1>3, <2>1
<1>5. \A n \in 1..m : \E i \in at : place[i] = n
  <2>1. place \in Injection(at, 1..m)
    BY <1>2, <1>4 DEF Injection, IsInjective
  <2>2. 1 \in Int /\ m \in Int
    BY <1>1
  <2>3. IsFiniteSet(1..m) /\ Cardinality(1..m) = IF 1 > m THEN 0 ELSE m - 1 + 1
    BY ONLY <2>2, FS_Interval
  <2>4. Cardinality(1..m) = Cardinality(at)
    BY <1>1, <2>3
  <2>5. place \in Surjection(at, 1..m)
    BY <2>1, <2>3, <2>4, FS_Injection
  <2> QED
    BY <2>5 DEF Surjection
<1> QED
  BY <1>1, <1>2, <1>4, <1>5

(* The positions of a sequence. *)
LEMMA Positions ==
  ASSUME NEW s \in Seq(Nat)
  PROVE  /\ Len(s) \in Nat /\ DOMAIN s = 1..Len(s)
         /\ IsFiniteSet(DOMAIN s) /\ Cardinality(DOMAIN s) = Len(s)
         /\ \A i \in DOMAIN s : s[i] \in Nat
<1>1. Len(s) \in Nat /\ DOMAIN s = 1..Len(s) /\ \A i \in DOMAIN s : s[i] \in Nat
  OBVIOUS
<1> DEFINE n == Len(s)
<1>2. 1 \in Int /\ n \in Int /\ n \in Nat
  BY <1>1
<1> HIDE DEF n
<1>3. IsFiniteSet(1..n) /\ Cardinality(1..n) = IF 1 > n THEN 0 ELSE n - 1 + 1
  BY ONLY <1>2, FS_Interval
<1>4. Cardinality(1..n) = n
  BY <1>2, <1>3
<1> QED
  BY <1>1, <1>3, <1>4 DEF n

(***************************************************************************)
(* Entries of a sequence of instants: as many as there are positions, with *)
(* the same number of instants from any x on; and the last one stays last. *)
(***************************************************************************)
LEMMA EntriesOf ==
  ASSUME NEW s \in Seq(Nat), NEW at \in SUBSET DOMAIN s, NEW e, e = Entries(s, at)
  PROVE  /\ e \in Seq(Nat) /\ Len(e) = Cardinality(at)
         /\ \A n \in DOMAIN e : \E i \in at : e[n] = s[i]
         /\ \A x \in Int : Cardinality(AtLeast(e, x)) = Cardinality({i \in at : s[i] >= x})
         /\ s # <<>> /\ Len(s) \in at => e # <<>> /\ Last(e) = Last(s)
<1> DEFINE place == [i \in at |-> Cardinality({j \in at : j <= i})]
           m == Cardinality(at)
           From(n) == CHOOSE i \in at : place[i] = n
<1>1. IsFiniteSet(at) /\ at \subseteq Int /\ \A i \in at : s[i] \in Nat
  <2>1. at \subseteq DOMAIN s /\ IsFiniteSet(DOMAIN s) /\ DOMAIN s \subseteq Int
        /\ \A i \in DOMAIN s : s[i] \in Nat
    BY Positions
  <2> QED
    BY <2>1, FS_Subset
<1>2. /\ m \in Nat
      /\ \A i \in at : place[i] \in 1..m
      /\ \A i, j \in at : place[i] = place[j] => i = j
      /\ \A n \in 1..m : \E i \in at : place[i] = n
  <2>1. \A i \in at : place[i] = Place(at, i)
    BY DEF Place
  <2> HIDE DEF place
  <2> QED
    BY <1>1, <2>1, PlacesOnto
<1>3. e = [n \in 1..m |-> s[From(n)]]
  BY DEF Entries
<1>4. s # <<>> /\ Len(s) \in at => at # {} /\ place[Len(s)] = m
  <2>1. at \subseteq 1..Len(s) /\ Len(s) \in Nat
    BY Positions
  <2>2. \A j \in at : j <= Len(s)
    BY <2>1
  <2>3. {j \in at : j <= Len(s)} = at
    BY <2>2
  <2> QED
    BY <2>3
<1> HIDE DEF place
<1>5. \A n \in 1..m : From(n) \in at /\ place[From(n)] = n
  BY <1>2
<1>6. \A i \in at : From(place[i]) = i
  BY <1>2, <1>5
<1> HIDE DEF From, m
<1>7. DOMAIN e = 1..m /\ \A n \in 1..m : e[n] = s[From(n)] /\ e[n] \in Nat
  BY <1>1, <1>3, <1>5
<1>8. e \in Seq(Nat) /\ Len(e) = m
  <2>1. e \in [1..m -> Nat]
    BY <1>3, <1>7
  <2> QED
    BY <1>2, <1>7, <2>1
<1>9. ASSUME NEW x \in Int PROVE Cardinality(AtLeast(e, x)) = Cardinality({i \in at : s[i] >= x})
  <2> DEFINE A == AtLeast(e, x)
             B == {i \in at : s[i] >= x}
             f == [n \in A |-> From(n)]
  <2>1. A \subseteq 1..m /\ \A n \in 1..m : n \in A <=> s[From(n)] >= x
    BY <1>7 DEF AtLeast
  <2>2. IsFiniteSet(A) /\ IsFiniteSet(B)
    <3>1. B \subseteq at /\ A \subseteq DOMAIN e
      BY <1>7, <2>1
    <3>2. IsFiniteSet(DOMAIN e)
      BY <1>8, Positions
    <3> QED
      BY <1>1, <3>1, <3>2, FS_Subset
  <2> HIDE DEF A
  <2>3. f \in [A -> B]
    BY <1>5, <2>1
  <2>4. \A k, n \in A : f[k] = f[n] => k = n
    BY <1>5, <2>1
  <2>5. \A i \in B : \E n \in A : f[n] = i
    <3> TAKE i \in B
    <3>1. place[i] \in 1..m /\ From(place[i]) = i
      BY <1>2, <1>6
    <3>2. place[i] \in A
      BY <2>1, <3>1
    <3> QED
      BY <3>1, <3>2
  <2> HIDE DEF f, B
  <2>6. f \in Bijection(A, B)
    BY <2>3, <2>4, <2>5 DEF Bijection, Injection, Surjection, IsInjective
  <2>7. ExistsBijection(A, B)
    BY <2>6 DEF ExistsBijection
  <2> QED
    BY <2>2, <2>7, FS_Bijection DEF A, B
<1>10. ASSUME s # <<>>, Len(s) \in at PROVE e # <<>> /\ Last(e) = Last(s)
  <2>1. m \in 1..m /\ From(m) = Len(s)
    BY <1>2, <1>4, <1>6, <1>10
  <2>2. Last(e) = e[m] /\ Last(s) = s[Len(s)]
    BY <1>8 DEF Last
  <2>3. e[m] = s[Len(s)]
    BY <1>7, <2>1
  <2>4. e # <<>>
    BY <1>7, <2>1
  <2> QED
    BY <2>2, <2>3, <2>4
<1> QED
  BY <1>5, <1>7, <1>8, <1>9, <1>10 DEF m

(* The instants from x on are finitely many, and fewer from a later one. *)
LEMMA AtLeastFinite ==
  ASSUME NEW s \in Seq(Nat), NEW x \in Int
  PROVE  /\ IsFiniteSet(AtLeast(s, x)) /\ Cardinality(AtLeast(s, x)) \in Nat
         /\ Cardinality(AtLeast(s, x)) <= Len(s)
         /\ \A y \in Int : y >= x => Cardinality(AtLeast(s, y)) <= Cardinality(AtLeast(s, x))
<1>1. /\ AtLeast(s, x) \subseteq DOMAIN s /\ IsFiniteSet(DOMAIN s) /\ Cardinality(DOMAIN s) = Len(s)
      /\ \A i \in DOMAIN s : s[i] \in Nat
  BY Positions DEF AtLeast
<1>2. IsFiniteSet(AtLeast(s, x)) /\ Cardinality(AtLeast(s, x)) <= Len(s)
  BY <1>1, FS_Subset
<1>3. ASSUME NEW y \in Int, y >= x PROVE Cardinality(AtLeast(s, y)) <= Cardinality(AtLeast(s, x))
  <2>1. AtLeast(s, y) \subseteq AtLeast(s, x)
    BY <1>1, <1>3 DEF AtLeast
  <2> QED
    BY <1>2, <2>1, FS_Subset
<1> QED
  BY <1>2, <1>3, FS_CardinalityType

(* One more instant. *)
LEMMA AtLeastAppend ==
  ASSUME NEW s \in Seq(Nat), NEW v \in Nat, NEW x \in Int
  PROVE  Cardinality(AtLeast(Append(s, v), x)) = Cardinality(AtLeast(s, x)) + (IF v >= x THEN 1 ELSE 0)
<1> DEFINE t == Append(s, v)
           n == Len(s)
<1>1. /\ DOMAIN s = 1..n /\ n \in Nat /\ DOMAIN t = 1..(n + 1) /\ t[n + 1] = v
      /\ \A i \in 1..n : t[i] = s[i]
  OBVIOUS
<1>2. IsFiniteSet(AtLeast(s, x)) /\ Cardinality(AtLeast(s, x)) \in Nat
  BY AtLeastFinite
<1> HIDE DEF t, n
<1>3. n + 1 \notin AtLeast(s, x)
  BY <1>1 DEF AtLeast
<1>4. AtLeast(t, x) = IF v >= x THEN AtLeast(s, x) \union {n + 1} ELSE AtLeast(s, x)
  <2>1. \A i : i \in 1..(n + 1) <=> (i \in 1..n \/ i = n + 1)
    BY <1>1
  <2>2. \A i : i \in AtLeast(t, x) <=> (i \in AtLeast(s, x) \/ (v >= x /\ i = n + 1))
    BY <1>1, <2>1 DEF AtLeast
  <2> QED
    BY <2>2
<1>5. CASE v >= x
  BY <1>2, <1>3, <1>4, <1>5, FS_AddElement DEF t
<1>6. CASE ~(v >= x)
  BY <1>2, <1>4, <1>6 DEF t
<1> QED
  BY <1>5, <1>6

-----------------------------------------------------------------------------
(* Preservation of the window. *)

(* The constants and the clock. *)
LEMMA Numbers ==
  ASSUME TypeOK
  PROVE  /\ now \in Nat /\ window_duration \in Nat /\ MaxLag \in Nat /\ max_requests_per_window \in Nat
         /\ Start \in Int /\ Start = now - window_duration + 1
  BY LimiterAssumption DEF TypeOK, Start

(* The recorded requests are instants. *)
LEMMA RequestsSeq ==
  ASSUME InstantsOK, NEW ip \in Ip
  PROVE  Requests(ip) \in Seq(Nat) /\ admitted[ip] \in Seq(Nat) /\ Entry(ip).requests = Requests(ip)
<1>1. <<>> \in Seq(Nat) /\ NewClient.requests = <<>>
  BY DEF NewClient
<1> QED
  BY <1>1 DEF InstantsOK, Requests, Tracked, Entry

(* A written entry. *)
LEMMA PutRequests ==
  ASSUME InstantsOK, NEW ip \in Ip, NEW client, PutClient(ip, client), client.requests \in Seq(Nat)
  PROVE  /\ \A i \in DOMAIN clients' : clients'[i].requests \in Seq(Nat)
         /\ Requests(ip)' = client.requests
         /\ \A i \in Ip : i # ip => Requests(i)' = Requests(i)
<1>1. clients' = [i \in DOMAIN clients \union {ip} |-> IF i = ip THEN client ELSE clients[i]]
  BY DEF PutClient
<1>2. /\ DOMAIN clients' = DOMAIN clients \union {ip} /\ clients'[ip] = client
      /\ \A i \in DOMAIN clients : i # ip => clients'[i] = clients[i]
  BY <1>1
<1> QED
  BY <1>2 DEF InstantsOK, Requests, Tracked

(* The requests in flight after one of them is served. *)
LEMMA ServedLag ==
  ASSUME TypeOK, InstantsOK, NEW h \in Task, task' = [task EXCEPT ![h] = Idle], now' = now
  PROVE  \A g \in Task : task'[g] # Idle => task'[g].now <= now' /\ now' <= task'[g].now + MaxLag
<1>1. \A g \in Task : task'[g] = IF g = h THEN Idle ELSE task[g]
  BY DEF TypeOK
<1> QED
  BY <1>1 DEF InstantsOK

(* Steps that neither record a request nor admit one. *)
LEMMA SameWindow ==
  ASSUME WindowInv, InstantsOK', \A ip \in Ip : Requests(ip)' = Requests(ip),
         admitted' = admitted, now' = now
  PROVE  WindowInv'
<1>1. Start' = Start
  BY DEF Start
<1>2. Covered'
  BY <1>1 DEF WindowInv, Covered
<1>3. LastCovers'
  BY <1>1 DEF WindowInv, LastCovers
<1>4. Limited'
  BY <1>1 DEF WindowInv, Limited
<1> QED
  BY <1>2, <1>3, <1>4 DEF WindowInv

(***************************************************************************)
(* check_request under the lock.  The instant it read may have passed, but *)
(* what it trims was out of the window then, and is now.                   *)
(***************************************************************************)
LEMMA RequestWindow ==
  ASSUME TypeOK, WindowInv, NEW h \in Task, CheckRequest(h)
  PROVE  WindowInv'
<1>00. PICK ip : ip = task[h].ip
  OBVIOUS
<1> DEFINE at == task[h].now
           R == Requests(ip)
           A == admitted[ip]
           kept == Retained(R, at)
           ok == Len(kept) < max_requests_per_window
           new == IF ok THEN Append(kept, at) ELSE kept
           client == [Entry(ip) EXCEPT !.requests = new]
           keep == {i \in DOMAIN R : R[i] > at - window_duration}
<1>0. InstantsOK /\ Covered /\ LastCovers /\ Limited
  BY DEF WindowInv
<1>1. ip \in Ip /\ at \in Nat /\ at <= now /\ now <= at + MaxLag
  BY <1>0, <1>00 DEF TypeOK, CheckRequest, Idle, Call, InstantsOK
<1>2. /\ now \in Nat /\ window_duration \in Nat /\ MaxLag \in Nat /\ max_requests_per_window \in Nat
      /\ Start \in Int /\ Start = now - window_duration + 1
  BY Numbers
<1>3. R \in Seq(Nat) /\ A \in Seq(Nat) /\ Entry(ip).requests = R
  BY <1>0, <1>1, RequestsSeq
<1>4. /\ PutClient(ip, client) /\ task' = [task EXCEPT ![h] = Idle]
      /\ admitted' = [admitted EXCEPT ![ip] = IF ok THEN Append(A, now) ELSE A]
      /\ sweep' = sweep /\ now' = now
  BY <1>00, <1>3 DEF CheckRequest
<1>5. client.requests = new
  <2>1. ClientOK(Entry(ip))
    BY <1>1, EntryOK
  <2> HIDE DEF new
  <2> QED
    BY <2>1 DEF ClientOK
<1> HIDE DEF client
<1>6. /\ kept \in Seq(Nat) /\ Len(kept) = Cardinality(keep)
      /\ \A x \in Int : Cardinality(AtLeast(kept, x)) = Cardinality({i \in keep : R[i] >= x})
      /\ R # <<>> /\ Len(R) \in keep => kept # <<>> /\ Last(kept) = Last(R)
  <2>1. keep \in SUBSET DOMAIN R /\ kept = Entries(R, keep)
    BY DEF Retained
  <2> HIDE DEF kept, keep, R
  <2> QED
    BY <1>3, <2>1, EntriesOf
(* Nothing of the window is trimmed. *)
<1>7. ASSUME NEW x \in Int, x >= Start
      PROVE  Cardinality(AtLeast(kept, x)) = Cardinality(AtLeast(R, x))
  <2>1. \A i \in DOMAIN R : R[i] \in Nat
    BY <1>3, Positions
  <2>2. \A i \in DOMAIN R : R[i] >= x => R[i] > at - window_duration
    BY <1>1, <1>2, <1>7, <2>1
  <2>3. {i \in keep : R[i] >= x} = AtLeast(R, x)
    BY <2>2 DEF AtLeast
  <2> QED
    BY <1>6, <2>3
(* When the last record is trimmed, no admission is limited any more. *)
<1>8. ASSUME NEW i \in DOMAIN A
      PROVE  A[i] < Start + MaxLag \/ (kept # <<>> /\ A[i] <= Last(kept) + MaxLag)
  <2>1. A[i] < Start + MaxLag \/ (R # <<>> /\ A[i] <= Last(R) + MaxLag)
    BY <1>0, <1>1, <1>8 DEF LastCovers
  <2>2. CASE R # <<>> /\ A[i] <= Last(R) + MaxLag
    <3>1. Len(R) \in DOMAIN R /\ Last(R) = R[Len(R)] /\ Last(R) \in Nat
      BY <1>3, <2>2 DEF Last
    <3>2. CASE Len(R) \in keep
      BY <1>6, <2>2, <3>2
    <3>3. CASE Len(R) \notin keep
      <4>1. ~(Last(R) > at - window_duration)
        BY <3>1, <3>3
      <4>2. A[i] \in Nat
        BY <1>3, <1>8, Positions
      <4> QED
        <5> DEFINE a == A[i]
                   l == Last(R)
                   first == Start
        <5>1. /\ a \in Nat /\ l \in Nat /\ a <= l + MaxLag /\ ~(l > at - window_duration)
              /\ first = now - window_duration + 1
          BY <1>2, <2>2, <3>1, <4>1, <4>2
        <5> HIDE DEF a, l, first, at
        <5>2. a < first + MaxLag
          BY ONLY <1>1, <1>2, <5>1
        <5> QED
          BY <5>2 DEF a, first
    <3> QED
      BY <3>2, <3>3
  <2> QED
    BY <2>1, <2>2
<1> HIDE DEF kept, keep
<1>9. /\ new \in Seq(Nat)
      /\ \A i \in DOMAIN clients' : clients'[i].requests \in Seq(Nat)
      /\ Requests(ip)' = new
      /\ \A i \in Ip : i # ip => Requests(i)' = Requests(i)
  <2>1. new \in Seq(Nat)
    BY <1>1, <1>6
  <2>2. client.requests \in Seq(Nat)
    BY <1>5, <2>1
  <2> QED
    BY <1>0, <1>1, <1>4, <1>5, <2>1, <2>2, PutRequests
<1>10. /\ admitted'[ip] = IF ok THEN Append(A, now) ELSE A
       /\ \A i \in Ip : i # ip => admitted'[i] = admitted[i]
       /\ admitted' \in [Ip -> Seq(Nat)]
  <2>1. (IF ok THEN Append(A, now) ELSE A) \in Seq(Nat)
    BY <1>2, <1>3
  <2> QED
    BY <1>0, <1>1, <1>4, <2>1 DEF InstantsOK
<1>11. InstantsOK'
  <2>1. \A g \in Task : task'[g] # Idle => task'[g].now <= now' /\ now' <= task'[g].now + MaxLag
    BY <1>0, <1>4, ServedLag
  <2>2. ASSUME NEW j \in Ip, NEW i \in DOMAIN admitted'[j] PROVE admitted'[j][i] <= now'
    <3>1. CASE j # ip
      BY <1>0, <1>4, <1>10, <2>2, <3>1 DEF InstantsOK
    <3>2. CASE j = ip /\ ~ok
      BY <1>0, <1>4, <1>10, <2>2, <3>2 DEF InstantsOK
    <3>3. CASE j = ip /\ ok
      <4>1. admitted'[ip] = Append(A, now)
        BY <1>10, <3>3
      <4>2. /\ Len(A) \in Nat /\ i \in 1..(Len(A) + 1)
            /\ i <= Len(A) => i \in DOMAIN A /\ Append(A, now)[i] = A[i]
            /\ i = Len(A) + 1 => Append(A, now)[i] = now
        BY <1>2, <1>3, <2>2, <3>3, <4>1
      <4>3. i \in DOMAIN A => A[i] <= now
        BY <1>0, <1>1 DEF InstantsOK
      <4> QED
        BY <1>2, <1>4, <3>3, <4>1, <4>2, <4>3
    <3> QED
      BY <3>1, <3>2, <3>3
  <2> QED
    BY <1>0, <1>4, <1>9, <1>10, <2>1, <2>2 DEF InstantsOK
<1>12. Start' = Start
  BY <1>4 DEF Start
<1>13. ASSUME NEW x \in Int
       PROVE  /\ Cardinality(AtLeast(new, x)) =
                   Cardinality(AtLeast(kept, x)) + (IF ok /\ at >= x THEN 1 ELSE 0)
              /\ Cardinality(AtLeast(admitted'[ip], x)) =
                   Cardinality(AtLeast(A, x)) + (IF ok /\ now >= x THEN 1 ELSE 0)
              /\ Cardinality(AtLeast(kept, x)) \in Nat /\ Cardinality(AtLeast(A, x)) \in Nat
  <2>1. Cardinality(AtLeast(kept, x)) \in Nat /\ Cardinality(AtLeast(A, x)) \in Nat
    BY <1>3, <1>6, AtLeastFinite
  <2>2. CASE ok
    <3>1. new = Append(kept, at) /\ admitted'[ip] = Append(A, now)
      BY <1>10, <2>2
    <3>2. Cardinality(AtLeast(Append(kept, at), x)) = Cardinality(AtLeast(kept, x)) + (IF at >= x THEN 1 ELSE 0)
      BY <1>1, <1>6, AtLeastAppend
    <3>3. Cardinality(AtLeast(Append(A, now), x)) = Cardinality(AtLeast(A, x)) + (IF now >= x THEN 1 ELSE 0)
      BY <1>2, <1>3, AtLeastAppend
    <3> QED
      BY <2>1, <2>2, <3>1, <3>2, <3>3
  <2>3. CASE ~ok
    BY <1>10, <2>1, <2>3
  <2> QED
    BY <2>1, <2>2, <2>3
<1>14. Covered'
  <2> SUFFICES ASSUME NEW j \in Ip, NEW x \in Int, x >= Start
               PROVE  Cardinality(AtLeast(admitted'[j], x + MaxLag)) <= Cardinality(AtLeast(Requests(j)', x))
    BY <1>12 DEF Covered
  <2>1. Cardinality(AtLeast(admitted[j], x + MaxLag)) <= Cardinality(AtLeast(Requests(j), x))
    BY <1>0 DEF Covered
  <2>2. CASE j # ip
    BY <1>9, <1>10, <2>1, <2>2
  <2>3. CASE j = ip
    <3>1. Requests(j)' = new
      BY <1>9, <2>3
    <3> DEFINE y == x + MaxLag
               a == Cardinality(AtLeast(A, y))
               b == Cardinality(AtLeast(kept, x))
               c == Cardinality(AtLeast(admitted'[ip], y))
               d == Cardinality(AtLeast(new, x))
    <3>2. y \in Int /\ y = x + MaxLag
      BY <1>2
    <3>3. a <= b
      BY <1>7, <2>1, <2>3
    <3>4. /\ c = a + (IF ok /\ now >= y THEN 1 ELSE 0) /\ d = b + (IF ok /\ at >= x THEN 1 ELSE 0)
          /\ a \in Nat /\ b \in Nat
      BY <1>13, <3>2
    <3>5. now >= y => at >= x
      BY <1>1, <1>2, <3>2
    <3> HIDE DEF y, a, b, c, d, ok
    <3>6. c <= d
      BY ONLY <3>3, <3>4, <3>5
    <3> QED
      BY <2>3, <3>1, <3>6 DEF c, d, y
  <2> QED
    BY <2>2, <2>3
<1>15. LastCovers'
  <2> SUFFICES ASSUME NEW j \in Ip, NEW i \in DOMAIN admitted'[j]
               PROVE  \/ admitted'[j][i] < Start + MaxLag
                      \/ /\ Requests(j)' # <<>>
                         /\ admitted'[j][i] <= Last(Requests(j)') + MaxLag
    BY <1>12 DEF LastCovers
  <2>1. CASE j # ip
    BY <1>0, <1>9, <1>10, <2>1 DEF LastCovers
  <2>2. CASE j = ip /\ ~ok
    <3>1. Requests(j)' = kept /\ admitted'[j] = A
      BY <1>9, <1>10, <2>2
    <3> QED
      BY <1>8, <3>1
  <2>3. CASE j = ip /\ ok
    <3>1. Requests(j)' = Append(kept, at)
      BY <1>9, <2>3
    <3>2. Append(kept, at) # <<>> /\ Last(Append(kept, at)) = at
      <4> HIDE DEF at
      <4>1. Len(Append(kept, at)) = Len(kept) + 1 /\ Append(kept, at)[Len(kept) + 1] = at /\ Len(kept) \in Nat
        BY <1>1, <1>6
      <4> QED
        BY <4>1 DEF Last
    <3>3. admitted'[j][i] <= now /\ admitted'[j][i] \in Nat
      BY <1>4, <1>10, <1>11, Positions DEF InstantsOK
    <3> QED
      BY <1>1, <1>2, <3>1, <3>2, <3>3
  <2> QED
    BY <2>1, <2>2, <2>3
<1>16. Limited'
  <2> SUFFICES ASSUME NEW j \in Ip
               PROVE  Cardinality(AtLeast(admitted'[j], Start + MaxLag)) <= max_requests_per_window
    BY <1>12 DEF Limited
  <2> DEFINE y == Start + MaxLag
             a == Cardinality(AtLeast(A, y))
             b == Cardinality(AtLeast(kept, Start))
             c == Cardinality(AtLeast(admitted'[ip], y))
  <2>1. CASE j # ip
    BY <1>0, <1>10, <2>1 DEF Limited
  <2>2. CASE j = ip
    <3>1. y \in Int /\ Start >= Start
      BY <1>2
    <3>2. a <= b /\ b <= Len(kept) /\ Len(kept) \in Nat
      <4>1. a <= Cardinality(AtLeast(R, Start))
        BY <1>0, <1>1, <1>2, <3>1 DEF Covered
      <4>2. b = Cardinality(AtLeast(R, Start))
        BY <1>2, <1>7, <3>1
      <4> QED
        BY <1>2, <1>6, <4>1, <4>2, AtLeastFinite, Positions
    <3>3. c = a + (IF ok /\ now >= y THEN 1 ELSE 0) /\ a \in Nat /\ b \in Nat
      BY <1>2, <1>13, <3>1
    <3>4. a <= max_requests_per_window
      BY <1>0, <1>1 DEF Limited
    <3> DEFINE l == Len(kept)
    <3>5. ok => l < max_requests_per_window
      OBVIOUS
    <3>6. a <= b /\ b <= l /\ l \in Nat
      BY <3>2
    <3> HIDE DEF y, a, b, c, ok, l
    <3>7. c <= max_requests_per_window
      BY ONLY <1>2, <3>3, <3>4, <3>5, <3>6
    <3> QED
      BY <2>2, <3>7 DEF c, y
  <2> QED
    BY <2>1, <2>2
<1> QED
  BY <1>11, <1>14, <1>15, <1>16 DEF WindowInv

(* Removing an expired entry forgets no admission that is still limited. *)
LEMMA SweepWindow ==
  ASSUME TypeOK, WindowInv, NEW ip \in Ip, SweepEntry(ip)
  PROVE  WindowInv'
<1> DEFINE gone == Tracked(ip) /\ Expired(clients[ip], sweep.cutoff)
           left == sweep.left \ {ip}
<1>0. InstantsOK /\ Covered /\ LastCovers /\ Limited
  BY DEF WindowInv
<1>1. /\ clients' = [i \in DOMAIN clients \ (IF gone THEN {ip} ELSE {}) |-> clients[i]]
      /\ ip \in sweep.left
      /\ sweep' = IF left = {} THEN NoSweep ELSE [sweep EXCEPT !.left = left]
      /\ UNCHANGED <<task, now, admitted>>
  BY DEF SweepEntry
<1>2. /\ now \in Nat /\ window_duration \in Nat /\ MaxLag \in Nat /\ Start \in Int
      /\ Start = now - window_duration + 1 /\ sweep.cutoff \in Int
  BY Numbers DEF TypeOK
<1>3. InstantsOK'
  <2>1. \A i \in DOMAIN clients' : clients'[i].requests \in Seq(Nat)
    BY <1>0, <1>1 DEF InstantsOK
  <2>2. sweep'.left # {} => sweep'.cutoff <= now' - window_duration * 2
    <3>1. CASE left = {}
      BY <1>1, <3>1 DEF NoSweep
    <3>2. CASE left # {}
      <4> HIDE DEF left
      <4>1. sweep'.cutoff = sweep.cutoff
        BY <1>1, <3>2 DEF TypeOK
      <4>2. sweep.left # {}
        BY <1>1
      <4> QED
        BY <1>0, <1>1, <4>1, <4>2 DEF InstantsOK
    <3> QED
      BY <3>1, <3>2
  <2> QED
    BY <1>0, <1>1, <2>1, <2>2 DEF InstantsOK
<1>4. \A i \in Ip : i # ip => Requests(i)' = Requests(i)
  BY <1>1 DEF Requests, Tracked
<1>5. CASE ~gone
  <2>1. Requests(ip)' = Requests(ip)
    BY <1>1, <1>5 DEF Requests, Tracked
  <2> QED
    BY <1>1, <1>3, <1>4, <2>1, SameWindow
<1>6. CASE gone
  <2>1. Requests(ip)' = <<>>
    BY <1>1, <1>6 DEF Requests, Tracked
  <2>2. Start' = Start /\ admitted' = admitted
    BY <1>1 DEF Start
  <2> DEFINE R == Requests(ip)
             A == admitted[ip]
  <2>3. R = clients[ip].requests /\ (R = <<>> \/ Last(R) < sweep.cutoff)
    BY <1>6 DEF Requests, Expired
  <2>4. sweep.cutoff <= now - window_duration * 2
    BY <1>0, <1>1 DEF InstantsOK
  <2>5. R \in Seq(Nat) /\ A \in Seq(Nat)
    BY <1>0, RequestsSeq
  <2>6. ASSUME NEW i \in DOMAIN A PROVE A[i] < Start + MaxLag
    <3>1. A[i] < Start + MaxLag \/ (R # <<>> /\ A[i] <= Last(R) + MaxLag)
      BY <1>0, <2>6 DEF LastCovers
    <3>2. CASE R # <<>> /\ A[i] <= Last(R) + MaxLag
      <4>1. Last(R) \in Nat /\ A[i] \in Nat
        <5>1. Len(R) \in DOMAIN R /\ Last(R) = R[Len(R)]
          BY <2>5, <3>2 DEF Last
        <5> QED
          BY <2>5, <2>6, <5>1, Positions
      <4>2. Last(R) < sweep.cutoff
        BY <2>3, <3>2
      <4> QED
        BY <1>2, <2>4, <3>2, <4>1, <4>2
    <3> QED
      BY <3>1, <3>2
  <2>7. ASSUME NEW x \in Int, x >= Start
        PROVE  Cardinality(AtLeast(A, x + MaxLag)) <= Cardinality(AtLeast(<<>>, x))
    <3>1. \A i \in DOMAIN A : A[i] \in Nat
      BY <2>5, Positions
    <3>2. AtLeast(A, x + MaxLag) = {}
      BY <1>2, <2>6, <2>7, <3>1 DEF AtLeast
    <3>3. AtLeast(<<>>, x) = {}
      BY DEF AtLeast
    <3> QED
      <4>1. Cardinality({}) = 0
        BY FS_EmptySet
      <4> QED
        <5> DEFINE c == Cardinality(AtLeast(A, x + MaxLag))
                   d == Cardinality(AtLeast(<<>>, x))
        <5>1. c = 0 /\ d = 0
          BY <3>2, <3>3, <4>1
        <5> HIDE DEF c, d
        <5>2. c <= d
          BY ONLY <5>1
        <5> QED
          BY <5>2 DEF c, d
  <2> HIDE DEF A, R
  <2>8. Covered'
    <3> SUFFICES ASSUME NEW j \in Ip, NEW x \in Int, x >= Start
                 PROVE  Cardinality(AtLeast(admitted[j], x + MaxLag)) <= Cardinality(AtLeast(Requests(j)', x))
      BY <2>2 DEF Covered
    <3>1. CASE j = ip
      BY <2>1, <2>7, <3>1 DEF A
    <3>2. CASE j # ip
      BY <1>0, <1>4, <3>2 DEF Covered
    <3> QED
      BY <3>1, <3>2
  <2>9. LastCovers'
    BY <1>0, <1>4, <2>2, <2>6 DEF LastCovers, A
  <2>10. Limited'
    BY <1>0, <2>2 DEF Limited
  <2> QED
    BY <1>3, <2>8, <2>9, <2>10 DEF WindowInv
<1> QED
  BY <1>5, <1>6

(* The clock advances: the window only moves on. *)
LEMMA TickWindow ==
  ASSUME TypeOK, WindowInv, Tick
  PROVE  WindowInv'
<1>0. InstantsOK /\ Covered /\ LastCovers /\ Limited
  BY DEF WindowInv
<1>1. /\ now' = now + 1 /\ UNCHANGED <<clients, guards, task, sweep>>
      /\ admitted' = [ip \in Ip |-> Recent(admitted[ip], now')]
      /\ \A h \in Task : task[h] # Idle => now - task[h].now < MaxLag
  BY DEF Tick
<1>2. /\ now \in Nat /\ window_duration \in Nat /\ MaxLag \in Nat /\ max_requests_per_window \in Nat
      /\ Start \in Int /\ Start = now - window_duration + 1
  BY Numbers
<1>3. Start' = Start + 1
  BY <1>1, <1>2 DEF Start
<1>4. \A ip \in Ip : Requests(ip)' = Requests(ip)
  BY <1>1 DEF Requests, Tracked
<1>5. ASSUME NEW ip \in Ip
      PROVE  /\ admitted'[ip] \in Seq(Nat)
             /\ \A n \in DOMAIN admitted'[ip] : \E i \in DOMAIN admitted[ip] : admitted'[ip][n] = admitted[ip][i]
             /\ \A x \in Int : Cardinality(AtLeast(admitted'[ip], x)) <= Cardinality(AtLeast(admitted[ip], x))
  <2>a. PICK A : A = admitted[ip]
    OBVIOUS
  <2>b. PICK at : at = {i \in DOMAIN A : A[i] > now' - Window}
    OBVIOUS
  <2>c. PICK e : e = Recent(A, now')
    OBVIOUS
  <2>1. A \in Seq(Nat) /\ at \in SUBSET DOMAIN A /\ e = Entries(A, at) /\ admitted'[ip] = e
    BY <1>0, <1>1, <2>a, <2>b, <2>c DEF InstantsOK, Recent
  <2>2. /\ e \in Seq(Nat)
        /\ \A n \in DOMAIN e : \E i \in at : e[n] = A[i]
        /\ \A x \in Int : Cardinality(AtLeast(e, x)) = Cardinality({i \in at : A[i] >= x})
    BY <2>1, EntriesOf
  <2>3. ASSUME NEW x \in Int PROVE Cardinality({i \in at : A[i] >= x}) <= Cardinality(AtLeast(A, x))
    <3>1. {i \in at : A[i] >= x} \subseteq AtLeast(A, x)
      BY <2>1 DEF AtLeast
    <3>2. IsFiniteSet(AtLeast(A, x))
      BY <2>1, AtLeastFinite
    <3> QED
      BY <3>1, <3>2, FS_Subset
  <2> QED
    BY <2>1, <2>2, <2>3, <2>a
<1>6. InstantsOK'
  <2>1. admitted' \in [Ip -> Seq(Nat)]
    BY <1>1, <1>5
  <2>2. ASSUME NEW ip \in Ip, NEW n \in DOMAIN admitted'[ip] PROVE admitted'[ip][n] <= now'
    <3>1. PICK i \in DOMAIN admitted[ip] : admitted'[ip][n] = admitted[ip][i]
      BY <1>5, <2>2
    <3>2. admitted[ip][i] <= now /\ admitted[ip][i] \in Nat
      BY <1>0, Positions DEF InstantsOK
    <3> QED
      BY <1>1, <1>2, <3>1, <3>2
  <2>3. ASSUME NEW h \in Task, task'[h] # Idle PROVE task'[h].now <= now' /\ now' <= task'[h].now + MaxLag
    <3>1. task[h] # Idle /\ task[h].now <= now /\ now - task[h].now < MaxLag /\ task[h].now \in Nat
      BY <1>0, <1>1, <2>3 DEF InstantsOK, TypeOK, Call
    <3> QED
      BY <1>1, <1>2, <3>1
  <2>4. sweep.left # {} => sweep.cutoff <= now' - window_duration * 2
    <3>1. sweep.cutoff \in Int
      BY DEF TypeOK
    <3>2. sweep.left # {} => sweep.cutoff <= now - window_duration * 2
      BY <1>0 DEF InstantsOK
    <3> QED
      BY <1>1, <1>2, <3>1, <3>2
  <2> QED
    BY <1>0, <1>1, <2>1, <2>2, <2>3, <2>4 DEF InstantsOK
<1>7. Covered'
  <2> SUFFICES ASSUME NEW ip \in Ip, NEW x \in Int, x >= Start'
               PROVE  Cardinality(AtLeast(admitted'[ip], x + MaxLag)) <= Cardinality(AtLeast(Requests(ip)', x))
    BY DEF Covered
  <2>1. x >= Start /\ x + MaxLag \in Int
    BY <1>2, <1>3
  <2>2. Cardinality(AtLeast(admitted[ip], x + MaxLag)) <= Cardinality(AtLeast(Requests(ip), x))
    BY <1>0, <2>1 DEF Covered
  <2>3. Cardinality(AtLeast(admitted'[ip], x + MaxLag)) <= Cardinality(AtLeast(admitted[ip], x + MaxLag))
    BY <1>5, <2>1
  <2>4. /\ Cardinality(AtLeast(admitted'[ip], x + MaxLag)) \in Nat
        /\ Cardinality(AtLeast(admitted[ip], x + MaxLag)) \in Nat
        /\ Cardinality(AtLeast(Requests(ip), x)) \in Nat
    BY <1>0, <1>5, <2>1, RequestsSeq, AtLeastFinite
  <2> QED
    BY <1>4, <2>2, <2>3, <2>4
<1>8. LastCovers'
  <2> SUFFICES ASSUME NEW ip \in Ip, NEW n \in DOMAIN admitted'[ip]
               PROVE  \/ admitted'[ip][n] < Start' + MaxLag
                      \/ /\ Requests(ip)' # <<>>
                         /\ admitted'[ip][n] <= Last(Requests(ip)') + MaxLag
    BY DEF LastCovers
  <2>1. PICK i \in DOMAIN admitted[ip] : admitted'[ip][n] = admitted[ip][i]
    BY <1>5
  <2>2. admitted[ip][i] \in Nat
    BY <1>0, <2>1, Positions DEF InstantsOK
  <2>3. \/ admitted[ip][i] < Start + MaxLag
        \/ Requests(ip) # <<>> /\ admitted[ip][i] <= Last(Requests(ip)) + MaxLag
    BY <1>0, <2>1 DEF LastCovers
  <2> QED
    BY <1>2, <1>3, <1>4, <2>1, <2>2, <2>3
<1>9. Limited'
  <2> SUFFICES ASSUME NEW ip \in Ip
               PROVE  Cardinality(AtLeast(admitted'[ip], Start' + MaxLag)) <= max_requests_per_window
    BY DEF Limited
  <2> DEFINE y == Start' + MaxLag
             z == Start + MaxLag
  <2>1. y \in Int /\ z \in Int /\ y >= z
    BY <1>2, <1>3
  <2>2. admitted[ip] \in Seq(Nat) /\ admitted'[ip] \in Seq(Nat)
    BY <1>0, <1>5 DEF InstantsOK
  <2>3. Cardinality(AtLeast(admitted[ip], z)) <= max_requests_per_window
    BY <1>0 DEF Limited
  <2> HIDE DEF y, z
  <2>4. /\ Cardinality(AtLeast(admitted'[ip], y)) <= Cardinality(AtLeast(admitted[ip], y))
        /\ Cardinality(AtLeast(admitted[ip], y)) <= Cardinality(AtLeast(admitted[ip], z))
    BY <1>5, <2>1, <2>2, AtLeastFinite
  <2>5. /\ Cardinality(AtLeast(admitted'[ip], y)) \in Nat /\ Cardinality(AtLeast(admitted[ip], y)) \in Nat
        /\ Cardinality(AtLeast(admitted[ip], z)) \in Nat
    BY <2>1, <2>2, AtLeastFinite
  <2>6. Cardinality(AtLeast(admitted'[ip], y)) <= max_requests_per_window
    BY <1>2, <2>3, <2>4, <2>5
  <2> QED
    BY <2>6 DEF y
<1> QED
  BY <1>6, <1>7, <1>8, <1>9 DEF WindowInv

(* A request reads the clock. *)
LEMMA BeginWindow ==
  ASSUME TypeOK, WindowInv, NEW h \in Task, NEW op, NEW ip \in Ip, Begin(h, op, ip)
  PROVE  WindowInv'
<1>0. InstantsOK
  BY DEF WindowInv
<1>1. /\ task' = [task EXCEPT ![h] = [op |-> op, ip |-> ip, now |-> now]]
      /\ UNCHANGED <<clients, guards, sweep, now, admitted>>
  BY DEF Begin
<1>2. now \in Nat /\ MaxLag \in Nat
  BY Numbers
<1>3. ASSUME NEW g \in Task, task'[g] # Idle PROVE task'[g].now <= now /\ now <= task'[g].now + MaxLag
  <2>1. task'[g] = IF g = h THEN [op |-> op, ip |-> ip, now |-> now] ELSE task[g]
    BY <1>1 DEF TypeOK
  <2>2. CASE g = h
    <3>1. task'[g].now = now
      BY <2>1, <2>2
    <3> QED
      BY <1>2, <3>1
  <2>3. CASE g # h
    BY <1>0, <1>3, <2>1, <2>3 DEF InstantsOK
  <2> QED
    BY <2>2, <2>3
<1>4. InstantsOK'
  BY <1>0, <1>1, <1>3 DEF InstantsOK
<1>5. \A i \in Ip : Requests(i)' = Requests(i)
  BY <1>1 DEF Requests, Tracked
<1> QED
  BY <1>1, <1>4, <1>5, SameWindow

(* A connection is counted: the entry keeps its requests. *)
LEMMA ConnectionWindow ==
  ASSUME TypeOK, WindowInv, NEW h \in Task, CheckConnection(h)
  PROVE  WindowInv'
<1>0. InstantsOK
  BY DEF WindowInv
<1>1. PICK ip : ip = task[h].ip
  OBVIOUS
<1> DEFINE ok == Entry(ip).connection_count < max_connections_per_ip
           client == [Entry(ip) EXCEPT !.connection_count = IF ok THEN @ + 1 ELSE @]
<1>2. ip \in Ip
  BY <1>1 DEF TypeOK, CheckConnection, Idle, Call
<1>3. /\ PutClient(ip, client) /\ task' = [task EXCEPT ![h] = Idle]
      /\ UNCHANGED <<sweep, now, admitted>>
  BY <1>1 DEF CheckConnection
<1>4. client.requests = Entry(ip).requests
  <2>1. ClientOK(Entry(ip))
    BY <1>2, EntryOK
  <2> HIDE DEF ok
  <2> QED
    BY <2>1 DEF ClientOK
<1> HIDE DEF client
<1>5. client.requests = Requests(ip) /\ client.requests \in Seq(Nat)
  BY <1>0, <1>2, <1>4, RequestsSeq
<1>6. /\ \A i \in DOMAIN clients' : clients'[i].requests \in Seq(Nat)
      /\ Requests(ip)' = client.requests
      /\ \A i \in Ip : i # ip => Requests(i)' = Requests(i)
  BY <1>0, <1>2, <1>3, <1>5, PutRequests
<1>7. \A g \in Task : task'[g] # Idle => task'[g].now <= now' /\ now' <= task'[g].now + MaxLag
  BY <1>0, <1>3, ServedLag
<1>8. InstantsOK'
  BY <1>0, <1>3, <1>6, <1>7 DEF InstantsOK
<1> QED
  BY <1>3, <1>5, <1>6, <1>8, SameWindow

(* Steps that change other fields of one entry. *)
LEMMA EntryWindow ==
  ASSUME WindowInv, NEW ip \in Ip, NEW client, Tracked(ip), client.requests = clients[ip].requests,
         clients' = [clients EXCEPT ![ip] = client], UNCHANGED <<task, sweep, now, admitted>>
  PROVE  WindowInv'
<1>0. InstantsOK
  BY DEF WindowInv
<1>1. /\ DOMAIN clients' = DOMAIN clients
      /\ \A i \in DOMAIN clients : clients'[i].requests = clients[i].requests
  BY DEF Tracked
<1>2. InstantsOK'
  BY <1>0, <1>1 DEF InstantsOK
<1>3. \A i \in Ip : Requests(i)' = Requests(i)
  BY <1>1 DEF Requests, Tracked
<1> QED
  BY <1>2, <1>3, SameWindow

(* A guard is dropped. *)
LEMMA DropWindow ==
  ASSUME TypeOK, WindowInv, NEW ip \in Ip, DropGuard(ip)
  PROVE  WindowInv'
<1>1. UNCHANGED <<task, sweep, now, admitted>>
  BY DEF DropGuard
<1>2. CASE ~Tracked(ip)
  <2>1. clients' = clients
    BY <1>2 DEF DropGuard, close_connection
  <2>2. InstantsOK'
    BY <1>1, <2>1 DEF WindowInv, InstantsOK
  <2>3. \A i \in Ip : Requests(i)' = Requests(i)
    BY <2>1 DEF Requests, Tracked
  <2> QED
    BY <1>1, <2>2, <2>3, SameWindow
<1>3. CASE Tracked(ip)
  <2> DEFINE count == SaturatingSub(clients[ip].connection_count, 1)
             client == [clients[ip] EXCEPT !.connection_count = count]
  <2>1. clients' = [clients EXCEPT ![ip] = client]
    BY <1>3 DEF DropGuard, close_connection
  <2>2. ClientOK(clients[ip])
    BY <1>3 DEF TypeOK, Tracked
  <2> HIDE DEF count
  <2>3. client.requests = clients[ip].requests
    BY <2>2 DEF ClientOK
  <2> HIDE DEF client
  <2> QED
    BY <1>1, <1>3, <2>1, <2>3, EntryWindow
<1> QED
  BY <1>2, <1>3

(* A message takes a token. *)
LEMMA MessageWindow ==
  ASSUME TypeOK, WindowInv, NEW ip \in Ip, CheckMessage(ip)
  PROVE  WindowInv'
<1> DEFINE client == check_message_rate(clients[ip])
<1>1. clients' = [clients EXCEPT ![ip] = client] /\ Tracked(ip) /\ UNCHANGED <<task, sweep, now, admitted>>
  BY DEF CheckMessage
<1>2. client.requests = clients[ip].requests
  <2>1. ClientOK(clients[ip])
    BY <1>1 DEF TypeOK, Tracked
  <2> DEFINE tokens == IF Refilled(clients[ip]) >= 1 THEN Refilled(clients[ip]) - 1 ELSE Refilled(clients[ip])
             first == [clients[ip] EXCEPT !.tokens = tokens]
  <2>2. client = [first EXCEPT !.last_refill = now]
    BY DEF check_message_rate
  <2> HIDE DEF tokens, client
  <2>3. /\ first = [requests |-> first.requests, connection_count |-> first.connection_count,
                    tokens |-> first.tokens, last_refill |-> first.last_refill]
        /\ first.requests = clients[ip].requests
    BY <2>1 DEF ClientOK
  <2> HIDE DEF first
  <2> QED
    BY <2>2, <2>3
<1> HIDE DEF client
<1> QED
  BY <1>1, <1>2, EntryWindow

(* A sweep chooses its cutoff. *)
LEMMA BeginSweepWindow ==
  ASSUME TypeOK, WindowInv, BeginSweep
  PROVE  WindowInv'
<1>1. /\ sweep' = [cutoff |-> now - window_duration * 2, left |-> Ip]
      /\ UNCHANGED <<clients, guards, task, now, admitted>>
  BY DEF BeginSweep
<1>2. sweep'.cutoff <= now' - window_duration * 2
  <2>1. now \in Nat /\ window_duration \in Nat
    BY Numbers
  <2>2. sweep'.cutoff = now - window_duration * 2 /\ now' = now
    BY <1>1
  <2> QED
    BY <2>1, <2>2
<1>3. InstantsOK'
  BY <1>1, <1>2 DEF WindowInv, InstantsOK
<1>4. \A i \in Ip : Requests(i)' = Requests(i)
  BY <1>1 DEF Requests, Tracked
<1> QED
  BY <1>1, <1>3, <1>4, SameWindow

(* Before the first request nothing is recorded and nothing was admitted. *)
LEMMA InitWindow == Init => WindowInv
<1> SUFFICES ASSUME Init PROVE WindowInv
  OBVIOUS
<1>1. /\ clients = <<>> /\ task = [h \in Task |-> Idle] /\ sweep = NoSweep /\ now = 0
      /\ admitted = [ip \in Ip |-> <<>>]
  BY DEF Init
<1>2. <<>> \in Seq(Nat) /\ DOMAIN <<>> = {}
  OBVIOUS
<1>3. \A ip \in Ip : Requests(ip) = <<>> /\ admitted[ip] = <<>>
  BY <1>1, <1>2 DEF Requests, Tracked
<1>4. InstantsOK
  BY <1>1, <1>2, <1>3 DEF InstantsOK, NoSweep
<1>5. \A x : AtLeast(<<>>, x) = {}
  BY <1>2 DEF AtLeast
<1>6. Cardinality({}) = 0
  BY FS_EmptySet
<1>7. \A x : Cardinality(AtLeast(<<>>, x)) = 0
  BY <1>5, <1>6
<1>8. Covered
  <2> SUFFICES ASSUME NEW ip \in Ip, NEW x \in Int
               PROVE  Cardinality(AtLeast(admitted[ip], x + MaxLag)) <= Cardinality(AtLeast(Requests(ip), x))
    BY DEF Covered
  <2> DEFINE c == Cardinality(AtLeast(admitted[ip], x + MaxLag))
             d == Cardinality(AtLeast(Requests(ip), x))
  <2>1. c = 0 /\ d = 0
    BY <1>3, <1>7
  <2> HIDE DEF c, d
  <2>2. c <= d
    BY ONLY <2>1
  <2> QED
    BY <2>2 DEF c, d
<1>9. LastCovers
  BY <1>2, <1>3 DEF LastCovers
<1>10. Limited
  <2> SUFFICES ASSUME NEW ip \in Ip
               PROVE  Cardinality(AtLeast(admitted[ip], Start + MaxLag)) <= max_requests_per_window
    BY DEF Limited
  <2> DEFINE c == Cardinality(AtLeast(admitted[ip], Start + MaxLag))
  <2>1. c = 0
    BY <1>3, <1>7
  <2> HIDE DEF c
  <2>2. c <= max_requests_per_window
    BY <2>1, LimiterAssumption
  <2> QED
    BY <2>2 DEF c
<1> QED
  BY <1>4, <1>8, <1>9, <1>10 DEF WindowInv

(* Every step preserves the invariant of the window. *)
LEMMA NextWindow == TypeOK /\ WindowInv /\ [Next]_vars => WindowInv'
<1> SUFFICES ASSUME TypeOK, WindowInv, [Next]_vars PROVE WindowInv'
  OBVIOUS
<1>1. ASSUME NEW h \in Task, NEW ip \in HttpIp, Begin(h, "request", ip) PROVE WindowInv'
  BY <1>1, BeginWindow, LimiterAssumption
<1>2. ASSUME NEW h \in Task, NEW ip \in Ip, Begin(h, "connection", ip) PROVE WindowInv'
  BY <1>2, BeginWindow
<1>3. ASSUME NEW h \in Task, CheckRequest(h) PROVE WindowInv'
  BY <1>3, RequestWindow
<1>4. ASSUME NEW h \in Task, CheckConnection(h) PROVE WindowInv'
  BY <1>4, ConnectionWindow
<1>5. ASSUME NEW ip \in Ip, DropGuard(ip) PROVE WindowInv'
  BY <1>5, DropWindow
<1>6. ASSUME NEW ip \in Ip, CheckMessage(ip) PROVE WindowInv'
  BY <1>6, MessageWindow
<1>7. ASSUME NEW ip \in Ip, SweepEntry(ip) PROVE WindowInv'
  BY <1>7, SweepWindow
<1>8. CASE BeginSweep
  BY <1>8, BeginSweepWindow
<1>9. CASE Tick
  BY <1>9, TickWindow
<1>10. CASE UNCHANGED vars
  <2>1. clients' = clients /\ UNCHANGED <<task, sweep, now, admitted>>
    BY <1>10 DEF vars
  <2>2. InstantsOK'
    BY <2>1 DEF WindowInv, InstantsOK
  <2>3. \A i \in Ip : Requests(i)' = Requests(i)
    BY <2>1 DEF Requests, Tracked
  <2> QED
    BY <2>1, <2>2, <2>3, SameWindow
<1> QED
  BY <1>1, <1>2, <1>3, <1>4, <1>5, <1>6, <1>7, <1>8, <1>9, <1>10 DEF Next

(* The invariant of the window gives the limit on the history. *)
LEMMA WindowCounts == TypeOK /\ WindowInv => WindowLimit
<1> SUFFICES ASSUME TypeOK, WindowInv, NEW ip \in Ip
             PROVE  Len(Recent(admitted[ip], now)) <= max_requests_per_window
  BY DEF WindowLimit
<1> DEFINE A == admitted[ip]
           at == {i \in DOMAIN A : A[i] > now - Window}
           e == Recent(A, now)
<1>1. A \in Seq(Nat) /\ at \in SUBSET DOMAIN A /\ e = Entries(A, at)
  BY DEF WindowInv, InstantsOK, Recent
<1>2. /\ now \in Nat /\ window_duration \in Nat /\ MaxLag \in Nat
      /\ Start = now - window_duration + 1
  BY Numbers
<1>3. \A i \in DOMAIN A : A[i] \in Nat
  BY <1>1, Positions
<1>4. \A i \in DOMAIN A : A[i] > now - Window <=> A[i] >= Start + MaxLag
  BY <1>2, <1>3 DEF Window
<1>5. at = AtLeast(A, Start + MaxLag)
  BY <1>4 DEF AtLeast
<1>6. Cardinality(AtLeast(A, Start + MaxLag)) <= max_requests_per_window
  BY DEF WindowInv, Limited
<1> HIDE DEF A, at, e
<1>7. Len(e) = Cardinality(at)
  BY <1>1, EntriesOf
<1> QED
  BY <1>5, <1>6, <1>7 DEF A, e

(***************************************************************************)
(* No window admits more than max_requests_per_window requests, except for *)
(* the time a request may pause before it gets the lock, for any number of *)
(* addresses and requests: check_request counts by the clock it read, and  *)
(* cleanup_expired forgets no request too early.                           *)
(***************************************************************************)
THEOREM WindowLimitCorrect == Spec => []WindowLimit
<1>1. Spec => []WindowInv
  BY InitWindow, NextWindow, LimiterTypeCorrect, PTL DEF Spec
<1> QED
  BY <1>1, WindowCounts, LimiterTypeCorrect, PTL

=============================================================================
