----------------------------- MODULE HttpServer -----------------------------
(***************************************************************************)
(* Connections and requests of the HTTP server: infrastructure/http        *)
(* serve.rs (accept loop), axum_adapter.rs (routes and layers),            *)
(* middleware.rs (rate limit), auth.rs and handlers/*.rs of crates/        *)
(* pjs-core.                                                               *)
(*                                                                         *)
(* The layers of a request, outermost first: timeout, body idle timeout,   *)
(* CORS, body limit, security headers, rate limit, concurrency limit; a    *)
(* protected route adds authentication inside them.  Timeouts carry no     *)
(* clock: one that is armed may fire at any moment.                        *)
(***************************************************************************)
EXTENDS Integers, Sequences, FiniteSets

CONSTANTS
  Conn,                     \* connections of clients
  Request,                  \* requests they send
  Ip,                       \* keys of the per-address limiter
  max_connections,
  max_connections_per_ip,
  max_concurrent_streams,   \* requests at once on one HTTP/2 connection
  MAX_CONCURRENT_REQUESTS

ASSUME HttpAssumption ==
  /\ IsFiniteSet(Conn) /\ Conn # {}
  /\ IsFiniteSet(Request)
  /\ max_connections \in Nat \ {0}
  /\ max_connections_per_ip \in Nat
  /\ MAX_CONCURRENT_REQUESTS \in Nat \ {0}

VARIABLES
  loop,        \* accept loop: "permit", "accept" or "backoff"
  permits,     \* free connection permits
  backlog,     \* the listener's queue of connections
  conn,        \* per connection: state, address key, and whether it has a guard
  per_ip,      \* connections the limiter counts for each key
  slots,       \* free permits of the global concurrency limit
  request      \* per request: phase, its connection, what it asks for

vars == <<loop, permits, backlog, conn, per_ip, slots, request>>

connVars == <<loop, permits, backlog, conn, per_ip>>

-----------------------------------------------------------------------------
(* Classes of requests. *)

(* public_routes and protected_routes; the frame stream has a long body. *)
Route == {"preflight", "public", "protected", "stream"}

Protected(r) == request[r].route \in {"protected", "stream"}

-----------------------------------------------------------------------------

Init ==
  /\ loop = "permit"
  /\ permits = max_connections
  /\ backlog = <<>>
  /\ conn \in [Conn -> [state : {"outside"}, ip : Ip, guard : {FALSE}]]
  /\ per_ip = [i \in Ip |-> 0]
  /\ slots = MAX_CONCURRENT_REQUESTS
  /\ request = [r \in Request |->
                  [phase |-> "unsent", conn |-> CHOOSE c \in Conn : TRUE,
                   route |-> "public"]]

(* Clients. *)

Connect(c) ==
  /\ conn[c].state = "outside"
  /\ conn' = [conn EXCEPT ![c].state = "backlog"]
  /\ backlog' = Append(backlog, c)
  /\ UNCHANGED <<loop, permits, per_ip, slots, request>>

Waiting == {"layers", "queue", "auth", "handler"}  \* before there is a response
Open == Waiting \union {"body"}
HoldsSlot == {"auth", "handler"}

OnConn(c) == {r \in Request : request[r].phase \in Open /\ request[r].conn = c}

Send(r, c, route) ==
  /\ request[r].phase = "unsent"
  /\ conn[c].state = "serving"
  /\ Cardinality(OnConn(c)) < max_concurrent_streams
  /\ request' = [request EXCEPT ![r] = [phase |-> "layers", conn |-> c, route |-> route]]
  /\ UNCHANGED <<connVars, slots>>

-----------------------------------------------------------------------------
(* serve_with_limits. *)

AcquirePermit ==
  /\ loop = "permit"
  /\ permits > 0
  /\ permits' = permits - 1
  /\ loop' = "accept"
  /\ UNCHANGED <<backlog, conn, per_ip, slots, request>>

(* accept_with_retry: an error other than a connection's own backs off. *)
AcceptFails ==
  /\ loop = "accept"
  /\ loop' = "backoff"
  /\ UNCHANGED <<permits, backlog, conn, per_ip, slots, request>>

BackoffEnds ==
  /\ loop = "backoff"
  /\ loop' = "accept"
  /\ UNCHANGED <<permits, backlog, conn, per_ip, slots, request>>

(* RateLimitGuard::new for the peer's key gives a guard, refuses the       *)
(* address, or has no room to track it: then the connection has no guard.  *)
Admit(c, guarded) ==
  /\ conn' = [conn EXCEPT ![c] = [@ EXCEPT !.state = "first_byte", !.guard = guarded]]
  /\ per_ip' = [per_ip EXCEPT ![conn[c].ip] = @ + IF guarded THEN 1 ELSE 0]
  /\ UNCHANGED permits

Refuse_KeepsPermit(c) ==  \* mutant: continue without dropping the permit
  /\ conn' = [conn EXCEPT ![c].state = "closed"]
  /\ UNCHANGED <<permits, per_ip>>

Refuse(c) ==
  /\ conn' = [conn EXCEPT ![c].state = "closed"]
  /\ permits' = permits + 1
  /\ UNCHANGED per_ip

Accept ==
  /\ loop = "accept"
  /\ backlog # <<>>
  /\ LET c == Head(backlog)
         count == per_ip[conn[c].ip]
     IN  \/ count < max_connections_per_ip /\ Admit(c, TRUE)
         \/ count >= max_connections_per_ip /\ Refuse(c)
         \/ count = 0 /\ Admit(c, FALSE)
  /\ backlog' = Tail(backlog)
  /\ loop' = "permit"
  /\ UNCHANGED <<slots, request>>

FirstByte(c) ==
  /\ conn[c].state = "first_byte"
  /\ conn' = [conn EXCEPT ![c].state = "serving"]
  /\ UNCHANGED <<loop, permits, backlog, per_ip, slots, request>>

(* The connection's task ends: permit and guard are dropped, and with the  *)
(* connection every request future it drives.                              *)
EndConnection(c) ==
  /\ conn' = [conn EXCEPT ![c] = [@ EXCEPT !.state = "closed", !.guard = FALSE]]
  /\ permits' = permits + 1
  /\ per_ip' = [per_ip EXCEPT ![conn[c].ip] = @ - IF conn[c].guard THEN 1 ELSE 0]
  /\ slots' = slots + Cardinality({r \in OnConn(c) : request[r].phase \in HoldsSlot})
  /\ request' = [r \in Request |-> IF r \in OnConn(c) THEN [request[r] EXCEPT !.phase = "dropped"]
                                   ELSE request[r]]
  /\ UNCHANGED <<loop, backlog>>

(* header_read_timeout before the first byte. *)
HeaderTimeout(c) == conn[c].state = "first_byte" /\ EndConnection(c)

ConnectionDeadline_Streaming(c) ==  \* mutant: spares a connection that is streaming
  /\ conn[c].state = "serving"
  /\ \A r \in OnConn(c) : request[r].phase # "body"
  /\ EndConnection(c)

(* max_connection_duration. *)
ConnectionDeadline(c) == conn[c].state = "serving" /\ EndConnection(c)

(* The client closes, or the connection fails. *)
ClientGone(c) == conn[c].state \in {"first_byte", "serving"} /\ EndConnection(c)

-----------------------------------------------------------------------------
(* The layers. *)

Goto(r, phase) == request' = [request EXCEPT ![r].phase = phase]

(* CorsLayer answers a preflight before any other layer. *)
Preflight(r) ==
  /\ request[r].phase = "layers" /\ request[r].route = "preflight"
  /\ Goto(r, "done")
  /\ UNCHANGED <<connVars, slots>>

(* RateLimitService::call; the limiter itself is in RateLimiter. *)
RateLimit(r) ==
  /\ request[r].phase = "layers" /\ request[r].route # "preflight"
  /\ \/ Goto(r, "queue")
     \/ Goto(r, "done")      \* 429, or 503 when the limiter is full
  /\ UNCHANGED <<connVars, slots>>

(* GlobalConcurrencyLimitLayer: one semaphore for all routes. *)
TakeSlot(r) ==
  /\ request[r].phase = "queue"
  /\ slots > 0
  /\ slots' = slots - 1
  /\ Goto(r, "auth")
  /\ UNCHANGED connVars

(* ApiKeyAuthService::call or JwtAuthService::call, on protected routes. *)
Authenticate(r) ==
  /\ request[r].phase = "auth"
  /\ \/ Goto(r, "handler") /\ UNCHANGED slots
     \/ Protected(r) /\ Goto(r, "done") /\ slots' = slots + 1
  /\ UNCHANGED connVars

(* The handler's future resolves, to an error response (into_response) or  *)
(* to its result, which frees the slot; the body of the frame stream is    *)
(* still to be read by the client.                                         *)
HandlerReturns(r) ==
  /\ request[r].phase = "handler"
  /\ \/ Goto(r, "done")
     \/ request[r].route = "stream" /\ Goto(r, "body")
  /\ slots' = slots + 1
  /\ UNCHANGED connVars

BodyEnds(r) ==
  /\ request[r].phase = "body"
  /\ Goto(r, "done")
  /\ UNCHANGED <<connVars, slots>>

TimedOut(r) ==
  /\ Goto(r, "done")
  /\ slots' = IF request[r].phase \in HoldsSlot THEN slots + 1 ELSE slots
  /\ UNCHANGED connVars

(* TimeoutLayer: the future is dropped wherever it stands, up to the       *)
(* response; a body that has started is not its concern.                   *)
RequestTimeout(r) == request[r].phase \in Waiting /\ TimedOut(r)

-----------------------------------------------------------------------------

Layers(r) == Preflight(r) \/ RateLimit(r) \/ TakeSlot(r) \/ Authenticate(r)

Next ==
  \/ AcquirePermit \/ AcceptFails \/ BackoffEnds \/ Accept
  \/ \E c \in Conn : Connect(c) \/ FirstByte(c) \/ HeaderTimeout(c)
                     \/ ConnectionDeadline(c) \/ ClientGone(c)
  \/ \E r \in Request :
       \/ \E c \in Conn, route \in Route : Send(r, c, route)
       \/ Layers(r) \/ HandlerReturns(r) \/ BodyEnds(r) \/ RequestTimeout(r)

(***************************************************************************)
(* The runtime polls the accept loop and fires armed timers.  Nothing is   *)
(* assumed of clients, of handlers, or of the consumer of a body; the      *)
(* accept call itself does not fail for ever.  max_connection_duration is  *)
(* an option: a property that needs the deadline says so.                  *)
(***************************************************************************)
Fairness ==
  /\ WF_vars(AcquirePermit) /\ WF_vars(BackoffEnds) /\ SF_vars(Accept)
  /\ \A c \in Conn : WF_vars(HeaderTimeout(c))

Spec == Init /\ [][Next]_vars /\ Fairness

DeadlineSet == \A c \in Conn : WF_vars(ConnectionDeadline(c))

-----------------------------------------------------------------------------

Live == {c \in Conn : conn[c].state \in {"first_byte", "serving"}}

(***************************************************************************)
(* Every way a connection or a request can end gives back exactly what it  *)
(* took: the connection permits, the per-address counts and the slots of   *)
(* the concurrency limit add up in every state, although a refusal, a      *)
(* timeout, a dropped connection and a finished handler take four          *)
(* different paths; a request that is only streaming its body has no slot. *)
(***************************************************************************)
NothingLeaks ==
  /\ permits + Cardinality(Live) + (IF loop = "permit" THEN 0 ELSE 1) = max_connections
  /\ \A i \in Ip : per_ip[i] = Cardinality({c \in Live : conn[c].ip = i /\ conn[c].guard})
  /\ slots + Cardinality({r \in Request : request[r].phase \in HoldsSlot})
       = MAX_CONCURRENT_REQUESTS

(***************************************************************************)
(* With a deadline set, a connection in the backlog is eventually taken    *)
(* off it, even when all permits are held by clients that never send a     *)
(* byte, or never read the body they asked for.                            *)
(***************************************************************************)
BacklogDrains ==
  DeadlineSet =>
    \A c \in Conn : (conn[c].state = "backlog") ~> (conn[c].state # "backlog")

=============================================================================
