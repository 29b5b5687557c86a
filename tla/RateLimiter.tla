---------------------------- MODULE RateLimiter ----------------------------
(***************************************************************************)
(* WebSocketRateLimiter and RateLimitGuard of                              *)
(* crates/pjs-core/src/security/rate_limit.rs, called by concurrent        *)
(* requests and swept by a background task.                                *)
(*                                                                         *)
(* check_request and check_connection look at the table and the clock      *)
(* before they lock the client's entry: two steps, between which other     *)
(* tasks and the clock advance.  Everything under the lock of one entry is *)
(* one step.  Instants count from the start of the host's clock, so that   *)
(* checked_sub is subtraction with a negative result standing for None.    *)
(* Tokens are whole and max_messages_per_second is the rate per tick.      *)
(***************************************************************************)
EXTENDS Integers, Sequences, FiniteSets, SequencesExt, Subsequences

CONSTANTS
  Ip,                        \* client addresses; all may open connections
  HttpIp,                    \* those that also send plain requests
  Task,                      \* concurrent requests
  MAX_TRACKED_CLIENTS,
  max_requests_per_window,
  window_duration,
  max_connections_per_ip,
  max_messages_per_second,
  burst_allowance,
  MaxLag,                    \* ticks a task may pause before it gets the lock
  MaxTime                    \* bound on the clock

ASSUME LimiterAssumption ==
  /\ HttpIp \subseteq Ip
  /\ IsFiniteSet(Task)
  /\ MAX_TRACKED_CLIENTS \in Nat \ {0}
  /\ max_connections_per_ip \in Nat
  /\ max_requests_per_window \in Nat
  /\ window_duration \in Nat
  /\ max_messages_per_second \in Nat
  /\ burst_allowance \in Nat
  /\ MaxLag \in Nat

VARIABLES
  clients,     \* tracked address -> ClientRateLimit
  guards,      \* address -> live RateLimitGuards
  task,        \* per request: what it does and the instant it read
  sweep,       \* cleanup_expired: its cutoff and the addresses not yet visited
  now,
  admitted     \* history: address -> instants at which requests were admitted

vars == <<clients, guards, task, sweep, now, admitted>>

Idle == [op |-> "none"]
NoSweep == [cutoff |-> -1, left |-> {}]

Init ==
  /\ clients = <<>>
  /\ guards = [ip \in Ip |-> 0]
  /\ task = [h \in Task |-> Idle]
  /\ sweep = NoSweep
  /\ now = 0
  /\ admitted = [ip \in Ip |-> <<>>]

NewClient ==
  [requests |-> <<>>, connection_count |-> 0, tokens |-> burst_allowance,
   last_refill |-> now]

Tracked(ip) == ip \in DOMAIN clients

(* entry(ip).or_insert_with(new) *)
Entry(ip) == IF Tracked(ip) THEN clients[ip] ELSE NewClient

PutClient(ip, client) ==
  clients' = [i \in DOMAIN clients \union {ip} |-> IF i = ip THEN client ELSE clients[i]]

-----------------------------------------------------------------------------
(* Requests and connections. *)

(* The check before the lock. *)
HasRoom(ip) == Tracked(ip) \/ Cardinality(DOMAIN clients) < MAX_TRACKED_CLIENTS

Begin(h, op, ip) ==
  /\ task[h] = Idle
  /\ HasRoom(ip)
  /\ task' = [task EXCEPT ![h] = [op |-> op, ip |-> ip, now |-> now]]
  /\ UNCHANGED <<clients, guards, sweep, now, admitted>>

(* retain: the requests of the window that ends at an instant. *)
Retained(requests, at) ==
  Entries(requests, {i \in DOMAIN requests : requests[i] > at - window_duration})

(* check_request under the lock of the entry. *)
CheckRequest(h) ==
  LET ip == task[h].ip
      kept == Retained(Entry(ip).requests, task[h].now)
      ok == Len(kept) < max_requests_per_window
  IN  /\ task[h].op = "request"
      /\ PutClient(ip, [Entry(ip) EXCEPT !.requests =
                          IF ok THEN Append(kept, task[h].now) ELSE kept])
      /\ admitted' = [admitted EXCEPT ![ip] = IF ok THEN Append(@, now) ELSE @]
      /\ task' = [task EXCEPT ![h] = Idle]
      /\ UNCHANGED <<guards, sweep, now>>

CheckConnection_Late(h) ==  \* mutant: the limit is checked off by one
  LET ip == task[h].ip
      ok == Entry(ip).connection_count <= max_connections_per_ip
  IN  /\ task[h].op = "connection"
      /\ PutClient(ip, [Entry(ip) EXCEPT !.connection_count = IF ok THEN @ + 1 ELSE @])
      /\ guards' = [guards EXCEPT ![ip] = IF ok THEN @ + 1 ELSE @]
      /\ task' = [task EXCEPT ![h] = Idle]
      /\ UNCHANGED <<sweep, now, admitted>>

(* check_connection under the lock, and the guard its success creates. *)
CheckConnection(h) ==
  LET ip == task[h].ip
      ok == Entry(ip).connection_count < max_connections_per_ip
  IN  /\ task[h].op = "connection"
      /\ PutClient(ip, [Entry(ip) EXCEPT !.connection_count = IF ok THEN @ + 1 ELSE @])
      /\ guards' = [guards EXCEPT ![ip] = IF ok THEN @ + 1 ELSE @]
      /\ task' = [task EXCEPT ![h] = Idle]
      /\ UNCHANGED <<sweep, now, admitted>>

SaturatingSub(a, b) == IF a < b THEN 0 ELSE a - b

close_connection(ip) ==
  clients' = IF Tracked(ip)
             THEN [clients EXCEPT ![ip].connection_count = SaturatingSub(@, 1)]
             ELSE clients

(* Drop of a guard. *)
DropGuard(ip) ==
  /\ guards[ip] > 0
  /\ guards' = [guards EXCEPT ![ip] = @ - 1]
  /\ close_connection(ip)
  /\ UNCHANGED <<task, sweep, now, admitted>>

-----------------------------------------------------------------------------
(* Messages. *)

MaxTokens == max_messages_per_second + burst_allowance

(* refill_tokens *)
Refilled(client) ==
  LET sum == client.tokens + (now - client.last_refill) * max_messages_per_second
  IN  IF sum < MaxTokens THEN sum ELSE MaxTokens

(* A refused message still refills. *)
check_message_rate(client) ==
  LET tokens == Refilled(client)
  IN  [client EXCEPT !.tokens = IF tokens >= 1 THEN tokens - 1 ELSE tokens,
                     !.last_refill = now]

(* check_message through a guard. *)
CheckMessage(ip) ==
  /\ guards[ip] > 0
  /\ Tracked(ip)
  /\ clients' = [clients EXCEPT ![ip] = check_message_rate(clients[ip])]
  /\ UNCHANGED <<guards, task, sweep, now, admitted>>

-----------------------------------------------------------------------------
(* cleanup_expired. *)

BeginSweep_NoGrace ==  \* mutant: the cutoff is the present
  /\ sweep = NoSweep
  /\ sweep' = [cutoff |-> now, left |-> Ip]
  /\ UNCHANGED <<clients, guards, task, now, admitted>>

(* retain may reach entries inserted after it began. *)
BeginSweep ==
  /\ sweep = NoSweep
  /\ now - window_duration * 2 >= 0
  /\ sweep' = [cutoff |-> now - window_duration * 2, left |-> Ip]
  /\ UNCHANGED <<clients, guards, task, now, admitted>>

Expired_Connected(client, cutoff) ==  \* mutant: open connections are ignored
  client.requests = <<>> \/ Last(client.requests) < cutoff

Expired(client, cutoff) ==
  /\ client.connection_count = 0
  /\ client.requests = <<>> \/ Last(client.requests) < cutoff

(* retain visits one entry under its lock. *)
SweepEntry(ip) ==
  LET left == sweep.left \ {ip}
      gone == Tracked(ip) /\ Expired(clients[ip], sweep.cutoff)
  IN  /\ ip \in sweep.left
      /\ clients' = [i \in DOMAIN clients \ (IF gone THEN {ip} ELSE {}) |-> clients[i]]
      /\ sweep' = IF left = {} THEN NoSweep ELSE [sweep EXCEPT !.left = left]
      /\ UNCHANGED <<guards, task, now, admitted>>

-----------------------------------------------------------------------------

Window == window_duration - MaxLag

Recent(instants, at) == Entries(instants, {i \in DOMAIN instants : instants[i] > at - Window})

Tick ==
  /\ now < MaxTime
  /\ \A h \in Task : task[h] # Idle => now - task[h].now < MaxLag
  /\ now' = now + 1
  /\ admitted' = [ip \in Ip |-> Recent(admitted[ip], now')]
  /\ UNCHANGED <<clients, guards, task, sweep>>

Next ==
  \/ \E h \in Task :
       \/ \E ip \in HttpIp : Begin(h, "request", ip)
       \/ \E ip \in Ip : Begin(h, "connection", ip)
       \/ CheckRequest(h)
       \/ CheckConnection(h)
  \/ \E ip \in Ip : DropGuard(ip) \/ CheckMessage(ip) \/ SweepEntry(ip)
  \/ BeginSweep
  \/ Tick

Spec == Init /\ [][Next]_vars

-----------------------------------------------------------------------------

(* An entry: its fields, and their types but for the instants. *)
ClientOK(client) ==
  /\ client = [requests |-> client.requests, connection_count |-> client.connection_count,
               tokens |-> client.tokens, last_refill |-> client.last_refill]
  /\ client.connection_count \in Nat
  /\ client.tokens \in 0..MaxTokens
  /\ client.last_refill \in 0..now

Call == [op : {"request", "connection"}, ip : Ip, now : Nat]

(* Types; no bucket overflows and none was refilled in the future. *)
TypeOK ==
  /\ DOMAIN clients \subseteq Ip
  /\ clients = [ip \in DOMAIN clients |-> clients[ip]]
  /\ \A ip \in DOMAIN clients : ClientOK(clients[ip])
  /\ guards \in [Ip -> Nat]
  /\ task \in [Task -> {Idle} \union Call]
  /\ sweep \in [cutoff : Int, left : SUBSET Ip]
  /\ now \in Nat

(***************************************************************************)
(* An address has exactly as many connections on its count as it has live  *)
(* guards, never more than max_connections_per_ip, and is tracked while it *)
(* has one: neither the saturating decrement nor a sweep that races with   *)
(* new connections loses or leaks a slot.                                  *)
(***************************************************************************)
GuardsCounted ==
  \A ip \in Ip :
    /\ guards[ip] <= max_connections_per_ip
    /\ guards[ip] = IF Tracked(ip) THEN clients[ip].connection_count ELSE 0

(* Addresses for which a request passed the capacity check. *)
Arriving == {task[h].ip : h \in {g \in Task : task[g] # Idle}}

(***************************************************************************)
(* Checking the capacity before taking the lock lets the table overshoot,  *)
(* but by fewer entries than there are requests in flight, however often   *)
(* sweeps remove entries between check and insertion.                      *)
(***************************************************************************)
TableBounded ==
  Cardinality(DOMAIN clients \union Arriving)
    < MAX_TRACKED_CLIENTS + Cardinality(Task)

(***************************************************************************)
(* No window admits more than max_requests_per_window requests, except for *)
(* the time a request may pause between reading the clock and the lock,    *)
(* and no sweep makes the limiter forget a request too early.              *)
(***************************************************************************)
WindowLimit ==
  \A ip \in Ip : Len(Recent(admitted[ip], now)) <= max_requests_per_window

(***************************************************************************)
(* A connected client never gains tokens except by the passage of time: no *)
(* sweep, no second connection and no refused message refills its bucket.  *)
(***************************************************************************)
MeteredWhileConnected ==
  [][\A ip \in Ip : guards[ip] > 0 /\ guards'[ip] > 0 =>
       /\ Tracked(ip)'
       /\ Refilled(clients[ip])' <=
            Refilled(clients[ip]) + (now' - now) * max_messages_per_second]_vars

=============================================================================
