------------------------- MODULE WebSocketTransport -------------------------
(***************************************************************************)
(* The WebSocket server of crates/pjs-core/src/infrastructure/websocket:   *)
(* AxumWebSocketTransport (server.rs) over AdaptiveStreamController        *)
(* (mod.rs).  One connection is one task that selects over the broadcast   *)
(* of frames, its own outgoing channel and the client; a streaming session *)
(* is one more task, cancelled through an abort handle.                    *)
(*                                                                         *)
(* A step is what a task does between two awaits.  tokio's abort takes     *)
(* effect when the aborted task next waits: a task that is being polled    *)
(* runs on to its next await.  Broadcast messages go to every connection,  *)
(* whoever owns the session.                                               *)
(***************************************************************************)
EXTENDS ByteChannel, FiniteSets

CONSTANTS
  Conn,                \* connections
  Session,             \* streaming session identifiers
  Size,                \* lengths of messages sent by send_frame
  max_connections,     \* max_connections_per_ip: the connections share an address
  broadcast_capacity,  \* messages a lagging receiver keeps
  MaxHostCalls,        \* bound: start and close calls of the application
  MaxTasks             \* bound: stream tasks of a session, one per start and restart

ASSUME TransportAssumption ==
  /\ max_connections \in Nat /\ broadcast_capacity \in Nat \ {0} /\ MaxTasks \in Nat
  /\ IsFiniteSet(Conn) /\ Size \subseteq Nat

VARIABLES
  conn,                 \* per connection: program counter and locals
  slots,                \* connections counted by the rate limiter
  active_connections,
  outgoing_channels,    \* connection -> channel, or NoChannel
  connection_sessions,  \* connection -> sessions it started
  sessions,             \* session -> created, stored, owner, current task
  tasks,                \* <<session, generation>> -> its stream_frames task
  hostcalls,            \* history: start and close calls of the application
  seen                  \* history: what each connection got of each task

vars == <<conn, slots, active_connections, outgoing_channels, connection_sessions,
          sessions, tasks, hostcalls, seen>>

Task == Session \X (1..MaxTasks)
NoChannel == [queue |-> <<>>, free |-> 0, open |-> FALSE]
NoConn == [pc |-> "none", clones |-> 0, gone |-> FALSE, rx |-> <<>>, lagged |-> FALSE,
           write |-> <<>>, permit |-> 0, sid |-> <<>>, todo |-> <<>>]
NoSession == [state |-> "none", owner |-> {}, task |-> 0]
NoTask == [pc |-> "none", aborted |-> FALSE, late |-> 0]

Init ==
  /\ conn = [c \in Conn |-> NoConn]
  /\ slots = 0
  /\ active_connections = {}
  /\ outgoing_channels = [c \in Conn |-> NoChannel]
  /\ connection_sessions = [c \in Conn |-> <<>>]
  /\ sessions = [s \in Session |-> NoSession]
  /\ tasks = [t \in Task |-> NoTask]
  /\ hostcalls = 0
  /\ seen = [c \in Conn |-> [t \in Task |-> "none"]]

Goto(c, pc) == conn' = [conn EXCEPT ![c].pc = pc]
Stored(s) == sessions[s].state = "stored"

Controller == <<sessions, tasks>>
Registry == <<slots, active_connections, outgoing_channels, connection_sessions>>
History == <<hostcalls, seen>>
-----------------------------------------------------------------------------
(* handle_socket, up to the connection's loop. *)

\* RateLimitGuard::new fails: the socket is closed and nothing is kept.
Reject(c) ==
  /\ conn[c].pc = "none" /\ slots >= max_connections
  /\ Goto(c, "closed")
  /\ UNCHANGED <<Registry, Controller, History>>

Accept(c) ==
  /\ conn[c].pc = "none" /\ slots < max_connections
  /\ slots' = slots + 1
  /\ conn' = [conn EXCEPT ![c] = [@ EXCEPT !.pc = "guarded", !.clones = 1]]
  /\ UNCHANGED <<active_connections, outgoing_channels, connection_sessions, Controller, History>>

List(c) ==
  /\ conn[c].pc = "guarded"
  /\ active_connections' = active_connections \union {c}
  /\ Goto(c, "listed")
  /\ UNCHANGED <<slots, outgoing_channels, connection_sessions, Controller, History>>

Begun(t) == tasks[t].pc \notin {"none", "spawned", "frame"}

\* subscribe_frames: what was sent before is not received.
Subscribe(c) ==
  /\ conn[c].pc = "listed"
  /\ Goto(c, "subscribed")
  /\ seen' = [seen EXCEPT ![c] = [t \in Task |-> IF Begun(t) THEN "missed" ELSE "none"]]
  /\ UNCHANGED <<Registry, Controller, hostcalls>>

\* The outgoing channel is published and the connection's task spawned with a
\* second handle on the guard.
OpenChannel(c) ==
  /\ conn[c].pc = "subscribed"
  /\ outgoing_channels' = [outgoing_channels EXCEPT ![c] = NewChannel]
  /\ conn' = [conn EXCEPT ![c] = [@ EXCEPT !.pc = "open", !.clones = 2]]
  /\ UNCHANGED <<slots, active_connections, connection_sessions, Controller, History>>
-----------------------------------------------------------------------------
(* The connection's loop. *)

Receivers == {c \in Conn : conn[c].pc \in {"subscribed", "open", "writing", "creating",
                                           "tracking", "starting"}}

RecvFrame(c) ==
  /\ conn[c].pc = "open" /\ ~conn[c].lagged /\ conn[c].rx # <<>>
  /\ conn' = [conn EXCEPT ![c] = [@ EXCEPT !.pc = "writing", !.write = Head(conn[c].rx),
                                           !.rx = Tail(conn[c].rx)]]
  /\ UNCHANGED <<Registry, Controller, History>>

RecvLagged(c) ==
  /\ conn[c].pc = "open" /\ conn[c].lagged
  /\ conn' = [conn EXCEPT ![c].lagged = FALSE]
  /\ UNCHANGED <<Registry, Controller, History>>

RecvOutgoing_IntoInner(c) ==  \* mutant: the permit is dropped when the message is taken
  /\ conn[c].pc = "open" /\ outgoing_channels[c].queue # <<>>
  /\ LET envelope == Head(outgoing_channels[c].queue)
     IN  /\ conn' = [conn EXCEPT ![c].pc = "writing", ![c].permit = envelope.permit]
         /\ outgoing_channels' = [outgoing_channels EXCEPT ![c].queue = Tail(@),
                                                           ![c].free = @ + envelope.permit]
  /\ UNCHANGED <<slots, active_connections, connection_sessions, Controller, History>>

\* split keeps the byte permit until the write is over.
RecvOutgoing(c) ==
  /\ conn[c].pc = "open" /\ outgoing_channels[c].queue # <<>>
  /\ conn' = [conn EXCEPT ![c] = [@ EXCEPT !.pc = "writing",
                                           !.permit = Head(outgoing_channels[c].queue).permit]]
  /\ outgoing_channels' = [outgoing_channels EXCEPT ![c].queue = Tail(@)]
  /\ UNCHANGED <<slots, active_connections, connection_sessions, Controller, History>>

\* A write that fails, or stalls for the write timeout, ends the loop.  The
\* loop's end drops its receivers and its handle on the guard.
EndLoop(c) ==
  /\ conn' = [conn EXCEPT ![c] = [NoConn EXCEPT !.pc = "ended", !.clones = 1, !.gone = conn[c].gone]]
  /\ outgoing_channels' = [outgoing_channels EXCEPT
                             ![c] = [NoChannel EXCEPT !.free = max_queued_bytes]]
  /\ seen' = [seen EXCEPT ![c] = [t \in Task |-> "missed"]]
  /\ UNCHANGED <<slots, active_connections, connection_sessions, Controller, hostcalls>>

WriteFailed(c) == conn[c].pc = "writing" /\ EndLoop(c)

Rank(kind) == CASE kind = "frame" -> 1 [] kind = "complete" -> 2 [] OTHER -> 0

WriteDone(c) ==
  /\ conn[c].pc = "writing"
  /\ conn' = [conn EXCEPT ![c] = [@ EXCEPT !.pc = "open", !.write = <<>>, !.permit = 0]]
  /\ outgoing_channels' = [outgoing_channels EXCEPT ![c].free = @ + conn[c].permit]
  /\ seen' = IF conn[c].write = <<>> \/ seen[c][conn[c].write.task] = "missed" THEN seen
             ELSE [seen EXCEPT ![c][conn[c].write.task] = conn[c].write.kind]
  /\ UNCHANGED <<slots, active_connections, connection_sessions, Controller, hostcalls>>

\* A close frame, a socket error, or a message beyond the rate limits.
Leave(c) == conn[c].pc = "open" /\ EndLoop(c)

\* A ping is answered by the loop; messages of other kinds change nothing.
Ping(c) ==
  /\ conn[c].pc = "open" /\ ~conn[c].gone
  /\ Goto(c, "writing")
  /\ UNCHANGED <<Registry, Controller, History>>

\* An identifier nobody uses; this bounded instance may have none left.
Fresh(s) == sessions[s].state = "none" /\ \A c \in Conn : conn[c].sid # <<s>>

(* StreamInit: the loop is inside handle_message until streaming starts. *)
StreamInit(c) ==
  /\ conn[c].pc = "open" /\ ~conn[c].gone
  /\ \E s \in Session :
       Fresh(s) /\ conn' = [conn EXCEPT ![c] = [@ EXCEPT !.pc = "creating", !.sid = <<s>>]]
  /\ UNCHANGED <<Registry, Controller, History>>

create_session(s, owner) ==
  sessions' = [sessions EXCEPT ![s] = [NoSession EXCEPT !.state = "stored", !.owner = owner]]

CreateSession(c) ==
  /\ conn[c].pc = "creating"
  /\ create_session(conn[c].sid[1], {c})
  /\ Goto(c, "tracking")
  /\ UNCHANGED <<Registry, tasks, History>>

TrackSession(c) ==
  /\ conn[c].pc = "tracking"
  /\ connection_sessions' = [connection_sessions EXCEPT ![c] = @ \o conn[c].sid]
  /\ Goto(c, "starting")
  /\ UNCHANGED <<slots, active_connections, outgoing_channels, Controller, History>>

\* AbortHandle::abort: a task that waits is dropped, one that runs goes on to
\* its next await.
Abort(task) ==
  IF task.pc \in {"spawned", "delay"} THEN [task EXCEPT !.pc = "ended", !.aborted = TRUE]
  ELSE [task EXCEPT !.aborted = TRUE]

start_streaming_Leaks(s) ==  \* mutant: the handle of the earlier task is overwritten
  LET g == sessions[s].task
  IN  /\ sessions' = [sessions EXCEPT ![s].task = g + 1]
      /\ tasks' = [tasks EXCEPT ![<<s, g + 1>>] = [NoTask EXCEPT !.pc = "spawned"]]

\* start_streaming spawns the task and aborts the one it replaces.
start_streaming(s) ==
  LET g == sessions[s].task
  IN  /\ sessions' = [sessions EXCEPT ![s].task = g + 1]
      /\ tasks' = [t \in Task |->
                     CASE t = <<s, g + 1>> -> [NoTask EXCEPT !.pc = "spawned"]
                       [] t = <<s, g>> -> Abort(tasks[t])
                       [] OTHER -> tasks[t]]

\* The session may be gone meanwhile: the error is logged.
StartStreaming(c) ==
  /\ conn[c].pc = "starting"
  /\ LET s == conn[c].sid[1]
     IN  IF Stored(s) /\ sessions[s].task < MaxTasks THEN start_streaming(s) ELSE UNCHANGED Controller
  /\ conn' = [conn EXCEPT ![c] = [@ EXCEPT !.pc = "open", !.sid = <<>>]]
  /\ UNCHANGED <<Registry, History>>
-----------------------------------------------------------------------------
(* handle_socket, after the loop. *)

RemoveChannel(c) ==
  /\ conn[c].pc = "ended"
  /\ outgoing_channels' = [outgoing_channels EXCEPT ![c] = NoChannel]
  /\ Goto(c, "unrouted")
  /\ UNCHANGED <<slots, active_connections, connection_sessions, Controller, History>>

Unlist(c) ==
  /\ conn[c].pc = "unrouted"
  /\ active_connections' = active_connections \ {c}
  /\ conn' = [conn EXCEPT ![c] = [@ EXCEPT !.pc = "unlisted", !.clones = 0]]
  /\ slots' = slots - 1
  /\ UNCHANGED <<outgoing_channels, connection_sessions, Controller, History>>

\* The connection with the sessions it still has to remove.
Removing(todo) == [NoConn EXCEPT !.pc = IF todo = <<>> THEN "closed" ELSE "removing", !.todo = todo]

TakeSessions_Forgets(c) ==  \* mutant: the entry is dropped, the sessions are not removed
  /\ conn[c].pc = "unlisted"
  /\ conn' = [conn EXCEPT ![c] = Removing(<<>>)]
  /\ connection_sessions' = [connection_sessions EXCEPT ![c] = <<>>]
  /\ UNCHANGED <<slots, active_connections, outgoing_channels, Controller, History>>

TakeSessions(c) ==
  /\ conn[c].pc = "unlisted"
  /\ conn' = [conn EXCEPT ![c] = Removing(connection_sessions[c])]
  /\ connection_sessions' = [connection_sessions EXCEPT ![c] = <<>>]
  /\ UNCHANGED <<slots, active_connections, outgoing_channels, Controller, History>>

\* remove_session: a second removal of the same session does nothing.
remove_session(s) ==
  IF Stored(s)
  THEN /\ sessions' = [sessions EXCEPT ![s].state = "removed"]
       /\ tasks' = [t \in Task |-> IF t = <<s, sessions[s].task>> THEN Abort(tasks[t]) ELSE tasks[t]]
  ELSE UNCHANGED Controller

RemoveNext(c) ==
  /\ conn[c].pc = "removing"
  /\ remove_session(Head(conn[c].todo))
  /\ conn' = [conn EXCEPT ![c] = Removing(Tail(conn[c].todo))]
  /\ UNCHANGED <<Registry, History>>
-----------------------------------------------------------------------------
(* stream_frames.  create_session plans a single frame. *)

\* A receiver that lags keeps the newest messages and learns that it lost some.
Broadcast(msg) ==
  LET full(c) == Len(conn[c].rx) = broadcast_capacity
  IN  /\ conn' = [c \in Conn |->
                    IF c \notin Receivers THEN conn[c]
                    ELSE [conn[c] EXCEPT !.rx = Append(IF full(c) THEN Tail(@) ELSE @, msg),
                                         !.lagged = @ \/ full(c)]]
      /\ seen' = [c \in Conn |->
                    IF c \in Receivers /\ full(c)
                    THEN [seen[c] EXCEPT ![Head(conn[c].rx).task] = "missed"]
                    ELSE seen[c]]

Advance(t, pc) ==
  LET late == tasks[t].late + (IF tasks[t].aborted /\ Receivers # {} THEN 1 ELSE 0)
  IN  tasks' = [tasks EXCEPT ![t] = [@ EXCEPT !.pc = pc, !.late = late]]

Poll(t) ==
  /\ tasks[t].pc = "spawned"
  /\ tasks' = [tasks EXCEPT ![t].pc = "frame"]
  /\ UNCHANGED <<conn, Registry, sessions, History>>

\* With no receiver the send fails and the loop goes on to StreamComplete.
SendFrameMessage(t) ==
  /\ tasks[t].pc = "frame"
  /\ Broadcast([task |-> t, kind |-> "frame"])
  /\ Advance(t, IF Receivers = {} THEN "complete" ELSE "sent")
  /\ UNCHANGED <<Registry, sessions, hostcalls>>

\* The delay, read from the session if it is still there; the first await of a
\* task that was aborted meanwhile is its last.
Sleep(t) ==
  /\ tasks[t].pc = "sent"
  /\ tasks' = [tasks EXCEPT ![t].pc = IF tasks[t].aborted THEN "ended" ELSE "delay"]
  /\ UNCHANGED <<conn, Registry, sessions, History>>

Wake_Again(t) ==  \* mutant: the frame is sent again
  /\ tasks[t].pc = "delay"
  /\ tasks' = [tasks EXCEPT ![t].pc = "frame"]
  /\ UNCHANGED <<conn, Registry, sessions, History>>

Wake(t) ==
  /\ tasks[t].pc = "delay"
  /\ tasks' = [tasks EXCEPT ![t].pc = "complete"]
  /\ UNCHANGED <<conn, Registry, sessions, History>>

SendComplete(t) ==
  /\ tasks[t].pc = "complete"
  /\ Broadcast([task |-> t, kind |-> "complete"])
  /\ Advance(t, "ended")
  /\ UNCHANGED <<Registry, sessions, hostcalls>>
-----------------------------------------------------------------------------
(* The embedding application and the periodic sweep. *)

HostCall == hostcalls < MaxHostCalls /\ hostcalls' = hostcalls + 1

\* send_frame drops the message when the channel refuses it or is gone.
SendFrame(c, len) ==
  /\ outgoing_channels[c].free > 0 /\ CanTrySend(outgoing_channels[c], len)
  /\ outgoing_channels' = [outgoing_channels EXCEPT ![c] = try_send(@, "text", len)]
  /\ UNCHANGED <<conn, slots, active_connections, connection_sessions, Controller, History>>

\* start_stream: a session no connection owns.
StartStream(s) ==
  /\ HostCall
  /\ \/ Fresh(s) /\ create_session(s, {}) /\ UNCHANGED tasks
     \/ Stored(s) /\ sessions[s].task < MaxTasks /\ start_streaming(s)
  /\ UNCHANGED <<conn, Registry, seen>>

CloseStream(s) ==
  /\ HostCall /\ Stored(s)
  /\ remove_session(s)
  /\ UNCHANGED <<conn, Registry, seen>>

\* cleanup_expired_sessions: whichever sessions are older than an hour.
Sweep ==
  /\ \E old \in SUBSET {s \in Session : Stored(s)} \ {{}} :
       /\ sessions' = [s \in Session |-> IF s \in old THEN [sessions[s] EXCEPT !.state = "removed"]
                                         ELSE sessions[s]]
       /\ tasks' = [t \in Task |-> IF t[1] \in old /\ t[2] = sessions[t[1]].task
                                   THEN Abort(tasks[t]) ELSE tasks[t]]
  /\ UNCHANGED <<conn, Registry, History>>

\* The client disappears; the loop notices at a read or a write.
ClientGone(c) ==
  /\ conn[c].pc \in {"open", "writing", "creating", "tracking", "starting"} /\ ~conn[c].gone
  /\ conn' = [conn EXCEPT ![c].gone = TRUE]
  /\ UNCHANGED <<Registry, Controller, History>>
-----------------------------------------------------------------------------
Setup(c) == List(c) \/ Subscribe(c) \/ OpenChannel(c)
Handling(c) == CreateSession(c) \/ TrackSession(c) \/ StartStreaming(c)
Writing(c) == WriteDone(c) \/ WriteFailed(c)
Teardown(c) == RemoveChannel(c) \/ Unlist(c) \/ TakeSessions(c) \/ RemoveNext(c)
Loop(c) == RecvFrame(c) \/ RecvLagged(c) \/ RecvOutgoing(c)
Client(c) == Leave(c) \/ Ping(c) \/ StreamInit(c)
Step(t) == Poll(t) \/ SendFrameMessage(t) \/ Sleep(t) \/ Wake(t) \/ SendComplete(t)

Next ==
  \/ \E c \in Conn : \/ Accept(c) \/ Reject(c) \/ Setup(c) \/ Loop(c) \/ Client(c)
                     \/ Handling(c) \/ Writing(c) \/ Teardown(c) \/ ClientGone(c)
                     \/ \E len \in Size : SendFrame(c, len)
  \/ \E t \in Task : Step(t)
  \/ \E s \in Session : StartStream(s) \/ CloseStream(s)
  \/ Sweep

\* The runtime polls every task that can run; a write ends by its timeout; a
\* socket whose client is gone reports it, and select! passes over no branch
\* that stays ready.  No client is obliged to do anything.
Fairness ==
  /\ \A c \in Conn : /\ WF_vars(Setup(c) \/ Handling(c) \/ Writing(c) \/ Teardown(c))
                     /\ SF_vars(conn[c].gone /\ Leave(c))
  /\ \A t \in Task : WF_vars(Step(t))

Spec == Init /\ [][Next]_vars /\ Fairness
-----------------------------------------------------------------------------
\* Nothing a connection started outlives it: a stored session that a client
\* opened is in the hands of a connection that will still remove it, and a
\* task that has not ended either serves a stored session that can abort it or
\* has been aborted - whichever of teardown, sweep, close and restart come
\* between the steps of StreamInit.
NoOrphans ==
  /\ \A s \in Session : Stored(s) =>
       \A c \in sessions[s].owner :
         s \in ToSet(connection_sessions[c] \o conn[c].todo \o conn[c].sid)
  /\ \A c \in Conn : conn[c].pc = "closed" => connection_sessions[c] = <<>>
  /\ \A t \in Task : tasks[t].pc \notin {"none", "ended"} =>
       tasks[t].aborted \/ (Stored(t[1]) /\ sessions[t[1]].task = t[2])

\* The rate limiter's count, the list of connections and the table of channels
\* agree at every await of set-up and teardown: a listed connection holds its
\* slot, a routed one is listed, and both handles of the guard return one slot.
\* The bytes queued for a connection together with those it is writing never
\* exceed the byte budget, however slow the client reads.
ResourcesExact ==
  /\ slots = Cardinality({c \in Conn : conn[c].clones > 0})
  /\ slots <= max_connections
  /\ \A c \in active_connections : conn[c].clones > 0
  /\ \A c \in Conn :
       /\ outgoing_channels[c] # NoChannel => c \in active_connections
       /\ PermitsOf(outgoing_channels[c].queue) + conn[c].permit <= max_queued_bytes

\* A connection that missed nothing of a stream, by lagging or by subscribing
\* late, gets its frame once and before StreamComplete, which comes last.
CompleteComesLast ==
  [][\A c \in Conn :
       LET msg == conn[c].write
       IN  (conn[c].pc = "writing" /\ conn'[c].pc = "open" /\ msg # <<>>) =>
             \/ seen[c][msg.task] = "missed"
             \/ Rank(msg.kind) = Rank(seen[c][msg.task]) + 1]_vars

\* When a client is gone its connection eventually gives back its slot, its
\* channel and its sessions, whatever it was doing.
ConnectionReleased ==
  \A c \in Conn : conn[c].gone ~>
    /\ conn[c].pc = "closed"
    /\ \A s \in Session : c \in sessions[s].owner => ~Stored(s)
=============================================================================
