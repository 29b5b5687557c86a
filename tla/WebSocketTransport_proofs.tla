---------------------- MODULE WebSocketTransport_proofs ----------------------
(***************************************************************************)
(* The WebSocket server for every number of connections, sessions and      *)
(* messages: no streaming session or task outlives the connection that     *)
(* started it, an aborted task sends at most one more message, the slots   *)
(* of the rate limiter are exact, a client that lags behind no stream gets *)
(* its frame before its completion, and what is queued for a client or     *)
(* being written to it stays within the byte budget.                       *)
(***************************************************************************)
EXTENDS WebSocketTransport, FiniteSetTheorems, TLAPS

(* The places of handle_socket at which a connection has a slot, is        *)
(* listed, and has a channel; at which it handles a StreamInit; and at     *)
(* which it has sessions of its own.                                       *)
InHandler == {"creating", "tracking", "starting"}
InLoop == {"open", "writing"} \union InHandler
Routed == InLoop \union {"ended"}
Listed == Routed \union {"listed", "subscribed", "unrouted"}
Guarded == Listed \union {"guarded"}
Tracked == Routed \union {"unrouted", "unlisted"}
Pc == Guarded \union {"none", "unlisted", "removing", "closed"}

TaskPc == {"none", "spawned", "frame", "sent", "delay", "complete", "ended"}

Message == [task : Task, kind : {"frame", "complete"}]
ConnRecord == [pc : Pc, clones : 0..2, gone : BOOLEAN, rx : Seq(Message), lagged : BOOLEAN,
               write : Message \union {<<>>}, permit : Nat, sid : Seq(Session), todo : Seq(Session)]
Queued == [value : {"text"}, len : Size, permit : Nat]
Channel == [queue : Seq(Queued), free : Nat, open : BOOLEAN]
SessionRecord == [state : {"none", "stored", "removed"}, owner : SUBSET Conn, task : 0..MaxTasks]
TaskRecord == [pc : TaskPc, aborted : BOOLEAN, late : Nat]

TypeOK ==
  /\ conn \in [Conn -> ConnRecord]
  /\ slots \in Nat
  /\ active_connections \subseteq Conn
  /\ outgoing_channels \in [Conn -> Channel]
  /\ connection_sessions \in [Conn -> Seq(Session)]
  /\ sessions \in [Session -> SessionRecord]
  /\ tasks \in [Task -> TaskRecord]
  /\ seen \in [Conn -> [Task -> {"none", "frame", "complete", "missed"}]]

-----------------------------------------------------------------------------
(* Slots, listings and channels follow the connection's place. *)

Slotted(c) ==
  /\ conn[c].clones > 0 <=> conn[c].pc \in Guarded
  /\ c \in active_connections <=> conn[c].pc \in Listed
  /\ outgoing_channels[c] # NoChannel => conn[c].pc \in Routed

Holders == {c \in Conn : conn[c].clones > 0}

SlotInv ==
  /\ \A c \in Conn : Slotted(c)
  /\ slots = Cardinality(Holders)
  /\ slots <= max_connections

(***************************************************************************)
(* The part of ResourcesExact that is about slots: the rate limiter counts *)
(* each connection once, the list holds counted connections only, the      *)
(* table of channels listed ones only, and the limit is kept.              *)
(***************************************************************************)
SlotsExact ==
  /\ slots = Cardinality({c \in Conn : conn[c].clones > 0})
  /\ slots <= max_connections
  /\ \A c \in active_connections : conn[c].clones > 0
  /\ \A c \in Conn : outgoing_channels[c] # NoChannel => c \in active_connections

-----------------------------------------------------------------------------
(* Sessions and their tasks. *)

(* What a connection remembers of sessions at its place. *)
Remembers(c) ==
  /\ IF conn[c].pc \in InHandler THEN \E s \in Session : conn[c].sid = <<s>> ELSE conn[c].sid = <<>>
  /\ conn[c].todo # <<>> <=> conn[c].pc = "removing"
  /\ connection_sessions[c] # <<>> => conn[c].pc \in Tracked
  /\ conn[c].pc = "starting" => conn[c].sid[1] \in ToSet(connection_sessions[c])

(* Some list of the connection has the session. *)
Holds(c, s) ==
  \/ s \in ToSet(connection_sessions[c])
  \/ s \in ToSet(conn[c].todo)
  \/ s \in ToSet(conn[c].sid)

(* Until create_session runs, the identifier belongs to one StreamInit. *)
CreatesFresh ==
  \A c \in Conn : conn[c].pc = "creating" =>
    /\ sessions[conn[c].sid[1]].state = "none"
    /\ \A d \in Conn : conn[d].pc = "creating" /\ conn[d].sid = conn[c].sid => d = c

Owned == \A s \in Session : Stored(s) => \A c \in sessions[s].owner : Holds(c, s)

Running(t) == tasks[t].pc \notin {"none", "ended"}
Current(t) == Stored(t[1]) /\ sessions[t[1]].task = t[2]

(* A task that can still send is aborted or can be reached by who aborts.  *)
Reachable ==
  /\ \A s \in Session : sessions[s].state = "none" => sessions[s].task = 0
  /\ \A t \in Task : t[2] > sessions[t[1]].task => tasks[t].pc = "none"
  /\ \A t \in Task : Running(t) => tasks[t].aborted \/ Current(t)

SessionInv ==
  /\ \A c \in Conn : Remembers(c)
  /\ CreatesFresh
  /\ Owned
  /\ Reachable

(***************************************************************************)
(* abort() takes effect at the next await of the task: a stream that was   *)
(* closed, swept or replaced sends at most one more message, and none once *)
(* it waits.                                                               *)
(***************************************************************************)
AbortedSendsOnce ==
  \A t \in Task :
    \/ tasks[t].late = 0
    \/ tasks[t].late = 1 /\ tasks[t].aborted /\ tasks[t].pc \in {"sent", "ended"}

Inv == TypeOK /\ SlotInv /\ SessionInv /\ AbortedSendsOnce

-----------------------------------------------------------------------------
(* Steps of one connection. *)

(* The places of a connection, apart. *)
LEMMA Places ==
  /\ InHandler \subseteq Routed /\ Routed \subseteq Listed /\ Listed \subseteq Guarded
  /\ Routed \subseteq Tracked /\ Guarded \subseteq Pc /\ Tracked \subseteq Pc
  /\ "removing" \in Pc /\ "closed" \in Pc /\ "none" \in Pc
  BY DEF InHandler, InLoop, Routed, Listed, Guarded, Tracked, Pc

(* What a connection's record becomes. *)
LEMMA ConnMoves ==
  ASSUME TypeOK, NEW c \in Conn, NEW k \in ConnRecord, conn' = [conn EXCEPT ![c] = k]
  PROVE  /\ conn' \in [Conn -> ConnRecord]
         /\ conn'[c] = k
         /\ \A d \in Conn : d # c => conn'[d] = conn[d]
  BY DEF TypeOK

(* A connection keeps, takes or returns its slot, and counts accordingly. *)
LEMMA SlotStep ==
  ASSUME TypeOK, SlotInv, NEW c \in Conn, NEW k \in ConnRecord, conn' = [conn EXCEPT ![c] = k],
         \A d \in Conn : d # c => /\ d \in active_connections' <=> d \in active_connections
                                  /\ outgoing_channels'[d] = outgoing_channels[d],
         k.clones > 0 <=> k.pc \in Guarded,
         c \in active_connections' <=> k.pc \in Listed,
         outgoing_channels'[c] # NoChannel => k.pc \in Routed,
         \/ (k.clones > 0 <=> conn[c].clones > 0) /\ slots' = slots
         \/ k.clones > 0 /\ ~(conn[c].clones > 0) /\ slots' = slots + 1 /\ slots < max_connections
         \/ ~(k.clones > 0) /\ conn[c].clones > 0 /\ slots' = slots - 1
  PROVE  SlotInv'
<1>1. /\ conn'[c] = k /\ \A d \in Conn : d # c => conn'[d] = conn[d]
  BY ConnMoves
<1>2. \A d \in Conn : Slotted(d)'
  BY <1>1 DEF SlotInv, Slotted
<1>3. /\ IsFiniteSet(Holders) /\ Cardinality(Holders) \in Nat /\ slots = Cardinality(Holders)
      /\ slots <= max_connections /\ max_connections \in Nat
  BY TransportAssumption, FS_Subset, FS_CardinalityType DEF SlotInv, Holders
<1>4. CASE (k.clones > 0 <=> conn[c].clones > 0) /\ slots' = slots
  <2>1. Holders' = Holders
    BY <1>1, <1>4 DEF Holders
  <2> QED
    BY <1>2, <1>3, <1>4, <2>1 DEF SlotInv
<1>5. CASE k.clones > 0 /\ ~(conn[c].clones > 0) /\ slots' = slots + 1 /\ slots < max_connections
  <2>1. Holders' = Holders \union {c} /\ c \notin Holders
    BY <1>1, <1>5 DEF Holders
  <2>2. Cardinality(Holders') = slots + 1
    BY <1>3, <2>1, FS_AddElement
  <2>3. slots + 1 <= max_connections
    BY <1>3, <1>5
  <2> QED
    BY <1>2, <1>5, <2>2, <2>3 DEF SlotInv
<1>6. CASE ~(k.clones > 0) /\ conn[c].clones > 0 /\ slots' = slots - 1
  <2>1. Holders' = Holders \ {c} /\ c \in Holders
    BY <1>1, <1>6 DEF Holders
  <2>2. Cardinality(Holders') = slots - 1
    BY <1>3, <2>1, FS_RemoveElement
  <2>3. slots - 1 <= max_connections
    BY <1>3
  <2> QED
    BY <1>2, <1>6, <2>2, <2>3 DEF SlotInv
<1> QED
  BY <1>4, <1>5, <1>6

(* A connection changes what it remembers and forgets no session. *)
LEMMA SessionStep ==
  ASSUME TypeOK, SessionInv, NEW c \in Conn, NEW k \in ConnRecord, conn' = [conn EXCEPT ![c] = k],
         UNCHANGED <<sessions, tasks>>,
         \A d \in Conn : d # c => connection_sessions'[d] = connection_sessions[d],
         Remembers(c)',
         k.pc = "creating" =>
           /\ sessions[k.sid[1]].state = "none"
           /\ \A d \in Conn : d # c => ~(conn[d].pc = "creating" /\ conn[d].sid = k.sid),
         \A s \in Session : Holds(c, s) => Holds(c, s)'
  PROVE  SessionInv'
<1>1. /\ conn'[c] = k /\ \A d \in Conn : d # c => conn'[d] = conn[d]
  BY ConnMoves
<1>2. \A d \in Conn : Remembers(d)'
  BY <1>1 DEF SessionInv, Remembers
<1>3. CreatesFresh'
  BY <1>1 DEF SessionInv, CreatesFresh
<1>4. \A d \in Conn : \A s \in Session : Holds(d, s) => Holds(d, s)'
  BY <1>1 DEF Holds
<1>5. Owned'
  BY <1>4 DEF SessionInv, Owned, Stored, TypeOK, SessionRecord
<1>6. Reachable'
  BY DEF SessionInv, Reachable, Running, Current, Stored
<1> QED
  BY <1>2, <1>3, <1>5, <1>6 DEF SessionInv

(* Most steps of a connection do not touch what it remembers. *)
LEMMA CalmStep ==
  ASSUME TypeOK, SessionInv, NEW c \in Conn, NEW k \in ConnRecord, conn' = [conn EXCEPT ![c] = k],
         UNCHANGED <<sessions, tasks, connection_sessions>>,
         k.sid = conn[c].sid, k.todo = conn[c].todo,
         \/ k.pc = conn[c].pc
         \/ /\ conn[c].pc \notin InHandler /\ conn[c].pc # "removing"
            /\ k.pc \notin InHandler /\ k.pc # "removing",
         conn[c].pc \in Tracked => k.pc \in Tracked
  PROVE  SessionInv'
<1>1. /\ conn'[c] = k /\ \A d \in Conn : d # c => conn'[d] = conn[d]
  BY ConnMoves
<1>2. Remembers(c)
  BY DEF SessionInv
<1>3. Remembers(c)'
  BY <1>1, <1>2 DEF Remembers, InHandler
<1>4. \A s \in Session : Holds(c, s) => Holds(c, s)'
  BY <1>1 DEF Holds
<1>5. k.pc = "creating" => conn[c].pc = "creating"
  BY DEF InHandler
<1>6. k.pc = "creating" =>
           /\ sessions[k.sid[1]].state = "none"
           /\ \A d \in Conn : d # c => ~(conn[d].pc = "creating" /\ conn[d].sid = k.sid)
  BY <1>5 DEF SessionInv, CreatesFresh
<1> QED
  BY <1>3, <1>4, <1>6, SessionStep

(* The types of a connection's record and of its channel. *)
LEMMA ConnType ==
  ASSUME TypeOK, NEW c \in Conn
  PROVE  /\ conn[c] \in ConnRecord /\ conn[c].pc \in Pc /\ conn[c].clones \in 0..2
         /\ conn[c].gone \in BOOLEAN /\ conn[c].rx \in Seq(Message) /\ conn[c].lagged \in BOOLEAN
         /\ conn[c].write \in Message \union {<<>>} /\ conn[c].permit \in Nat
         /\ conn[c].sid \in Seq(Session) /\ conn[c].todo \in Seq(Session)
         /\ outgoing_channels[c] \in Channel /\ outgoing_channels[c].queue \in Seq(Queued)
         /\ outgoing_channels[c].free \in Nat
         /\ connection_sessions[c] \in Seq(Session)
         /\ <<>> \in Seq(Session) /\ <<>> \in Seq(Message)
<1>1. conn[c] \in ConnRecord /\ outgoing_channels[c] \in Channel /\ connection_sessions[c] \in Seq(Session)
  BY DEF TypeOK
<1> QED
  BY <1>1 DEF ConnRecord, Channel

(* A channel without its first message, or with a byte budget given back. *)
LEMMA ChannelMoves ==
  ASSUME TypeOK, NEW c \in Conn, NEW ch \in Channel,
         outgoing_channels' = [outgoing_channels EXCEPT ![c] = ch]
  PROVE  /\ outgoing_channels' \in [Conn -> Channel]
         /\ outgoing_channels'[c] = ch
         /\ \A d \in Conn : d # c => outgoing_channels'[d] = outgoing_channels[d]
  BY DEF TypeOK

(***************************************************************************)
(* A step of a connection that leaves the controller alone, in which the   *)
(* connection's record becomes k.                                          *)
(***************************************************************************)
LEMMA ConnStep ==
  ASSUME Inv, NEW c \in Conn, NEW k \in ConnRecord, conn' = [conn EXCEPT ![c] = k],
         UNCHANGED <<sessions, tasks, connection_sessions>>,
         slots' \in Nat, active_connections' \subseteq Conn,
         outgoing_channels' \in [Conn -> Channel],
         seen' \in [Conn -> [Task -> {"none", "frame", "complete", "missed"}]],
         \A d \in Conn : d # c => /\ d \in active_connections' <=> d \in active_connections
                                  /\ outgoing_channels'[d] = outgoing_channels[d],
         k.clones > 0 <=> k.pc \in Guarded,
         c \in active_connections' <=> k.pc \in Listed,
         outgoing_channels'[c] # NoChannel => k.pc \in Routed,
         \/ (k.clones > 0 <=> conn[c].clones > 0) /\ slots' = slots
         \/ k.clones > 0 /\ ~(conn[c].clones > 0) /\ slots' = slots + 1 /\ slots < max_connections
         \/ ~(k.clones > 0) /\ conn[c].clones > 0 /\ slots' = slots - 1,
         k.sid = conn[c].sid, k.todo = conn[c].todo,
         \/ k.pc = conn[c].pc
         \/ /\ conn[c].pc \notin InHandler /\ conn[c].pc # "removing"
            /\ k.pc \notin InHandler /\ k.pc # "removing",
         conn[c].pc \in Tracked => k.pc \in Tracked
  PROVE  Inv'
<1>1. TypeOK'
  BY ConnMoves DEF Inv, TypeOK
<1>2. SlotInv'
  BY SlotStep DEF Inv
<1>3. SessionInv'
  BY CalmStep DEF Inv
<1>4. AbortedSendsOnce'
  BY DEF Inv, AbortedSendsOnce
<1> QED
  BY <1>1, <1>2, <1>3, <1>4 DEF Inv

(* The records of a connection and of a channel that do nothing. *)
LEMMA NoRecords ==
  /\ NoConn \in ConnRecord /\ NoConn.pc = "none" /\ NoConn.clones = 0
  /\ NoConn.sid = <<>> /\ NoConn.todo = <<>> /\ NoConn.rx = <<>>
  /\ NoChannel \in Channel
<1>1. 0 \in 0..2 /\ 0 \in Nat /\ "none" \in Pc
  BY Places
<1>2. <<>> \in Seq(Message) /\ <<>> \in Seq(Session) /\ <<>> \in Seq(Queued)
  OBVIOUS
<1>3. NoConn \in ConnRecord
  BY <1>1, <1>2 DEF NoConn, ConnRecord
<1>4. NoChannel \in Channel
  BY <1>1, <1>2 DEF NoChannel, Channel
<1> QED
  BY <1>3, <1>4 DEF NoConn

(* handle_socket, up to the connection's loop, and after it. *)
LEMMA SocketInv ==
  ASSUME Inv, NEW c \in Conn,
         Reject(c) \/ Accept(c) \/ Setup(c) \/ RemoveChannel(c) \/ Unlist(c)
  PROVE  Inv'
<1> DEFINE old == conn[c]
<1>0. /\ TypeOK /\ Slotted(c) /\ slots \in Nat /\ active_connections \subseteq Conn
      /\ outgoing_channels \in [Conn -> Channel]
      /\ seen \in [Conn -> [Task -> {"none", "frame", "complete", "missed"}]]
      /\ slots <= max_connections
  BY DEF Inv, SlotInv, TypeOK
<1>1. old \in ConnRecord /\ old.clones \in 0..2
  BY <1>0, ConnType
<1>2. /\ old.clones > 0 <=> old.pc \in Guarded
      /\ c \in active_connections <=> old.pc \in Listed
      /\ outgoing_channels[c] # NoChannel => old.pc \in Routed
  BY <1>0 DEF Slotted
<1>3. /\ UNCHANGED <<sessions, tasks, connection_sessions>>
  BY DEF Reject, Accept, Setup, List, Subscribe, OpenChannel, RemoveChannel, Unlist, Registry,
         Controller
<1> HIDE DEF old
<1>4. CASE Reject(c)
  <2> DEFINE k == [old EXCEPT !.pc = "closed"]
  <2>1. /\ old.pc = "none" /\ conn' = [conn EXCEPT ![c] = k]
        /\ UNCHANGED <<slots, active_connections, outgoing_channels, seen>>
    BY <1>4 DEF Reject, Goto, Registry, History, old
  <2>2. /\ k \in ConnRecord /\ k.pc = "closed" /\ k.clones = old.clones /\ k.sid = old.sid
        /\ k.todo = old.todo
    BY <1>1, Places DEF ConnRecord
  <2> HIDE DEF k
  <2>3. /\ old.pc \notin Guarded /\ k.pc \notin Guarded /\ old.pc \notin Listed /\ k.pc \notin Listed
        /\ old.pc \notin Routed /\ old.pc \notin InHandler /\ k.pc \notin InHandler /\ old.pc \notin Tracked
    BY <2>1, <2>2 DEF Guarded, Listed, Routed, InLoop, InHandler, Tracked
  <2> QED
    BY <1>0, <1>2, <1>3, <2>1, <2>2, <2>3, ConnStep DEF old
<1>5. CASE Accept(c)
  <2> DEFINE k == [old EXCEPT !.pc = "guarded", !.clones = 1]
  <2>1. /\ old.pc = "none" /\ conn' = [conn EXCEPT ![c] = k] /\ slots' = slots + 1
        /\ slots < max_connections
        /\ UNCHANGED <<active_connections, outgoing_channels, seen>>
    BY <1>5 DEF Accept, Registry, History, old
  <2>0. "guarded" \in Pc
    BY DEF Guarded, Pc
  <2>9. 1 \in 0..2
    OBVIOUS
  <2>2. /\ k \in ConnRecord /\ k.pc = "guarded" /\ k.clones = 1 /\ k.sid = old.sid
        /\ k.todo = old.todo
    BY <1>1, <2>0, <2>9 DEF ConnRecord
  <2> HIDE DEF k
  <2>3. /\ old.pc \notin Guarded /\ k.pc \in Guarded /\ old.pc \notin Listed /\ k.pc \notin Listed
        /\ old.pc \notin Routed /\ old.pc \notin InHandler /\ k.pc \notin InHandler /\ old.pc \notin Tracked
    BY <2>1, <2>2 DEF Guarded, Listed, Routed, InLoop, InHandler, Tracked
  <2>4. k.clones > 0 /\ slots + 1 \in Nat
    BY <1>0, <2>2
  <2> QED
    BY <1>0, <1>2, <1>3, <2>1, <2>2, <2>3, <2>4, ConnStep DEF old
<1>6. CASE List(c)
  <2> DEFINE k == [old EXCEPT !.pc = "listed"]
  <2>1. /\ old.pc = "guarded" /\ conn' = [conn EXCEPT ![c] = k]
        /\ active_connections' = active_connections \union {c}
        /\ UNCHANGED <<slots, outgoing_channels, seen>>
    BY <1>6 DEF List, Goto, History, old
  <2>2. /\ k \in ConnRecord /\ k.pc = "listed" /\ k.clones = old.clones /\ k.sid = old.sid
        /\ k.todo = old.todo
    BY <1>1 DEF ConnRecord, Guarded, Listed, Pc
  <2> HIDE DEF k
  <2>3. /\ old.pc \in Guarded /\ k.pc \in Guarded /\ k.pc \in Listed
        /\ old.pc \notin Routed /\ old.pc \notin InHandler /\ k.pc \notin InHandler /\ old.pc \notin Tracked
    BY <2>1, <2>2 DEF Guarded, Listed, Routed, InLoop, InHandler, Tracked
  <2> QED
    BY <1>0, <1>2, <1>3, <2>1, <2>2, <2>3, ConnStep DEF old
<1>7. CASE Subscribe(c)
  <2> DEFINE k == [old EXCEPT !.pc = "subscribed"]
             got == [t \in Task |-> IF Begun(t) THEN "missed" ELSE "none"]
  <2>1. /\ old.pc = "listed" /\ conn' = [conn EXCEPT ![c] = k]
        /\ seen' = [seen EXCEPT ![c] = got]
        /\ UNCHANGED <<slots, active_connections, outgoing_channels>>
    BY <1>7 DEF Subscribe, Goto, Registry, old
  <2>2. /\ k \in ConnRecord /\ k.pc = "subscribed" /\ k.clones = old.clones /\ k.sid = old.sid
        /\ k.todo = old.todo
    BY <1>1 DEF ConnRecord, Guarded, Listed, Pc
  <2> HIDE DEF k
  <2>3. /\ old.pc \in Guarded /\ k.pc \in Guarded /\ old.pc \in Listed /\ k.pc \in Listed
        /\ old.pc \notin Routed /\ old.pc \notin InHandler /\ k.pc \notin InHandler /\ old.pc \notin Tracked
    BY <2>1, <2>2 DEF Guarded, Listed, Routed, InLoop, InHandler, Tracked
  <2>4. got \in [Task -> {"none", "frame", "complete", "missed"}]
    OBVIOUS
  <2> HIDE DEF got
  <2>5. seen' \in [Conn -> [Task -> {"none", "frame", "complete", "missed"}]]
    BY <1>0, <2>1, <2>4
  <2> QED
    BY <1>0, <1>2, <1>3, <2>1, <2>2, <2>3, <2>5, ConnStep DEF old
<1>8. CASE OpenChannel(c)
  <2> DEFINE k == [old EXCEPT !.pc = "open", !.clones = 2]
  <2>1. /\ old.pc = "subscribed" /\ conn' = [conn EXCEPT ![c] = k]
        /\ outgoing_channels' = [outgoing_channels EXCEPT ![c] = NewChannel]
        /\ UNCHANGED <<slots, active_connections, seen>>
    BY <1>8 DEF OpenChannel, History, old
  <2>0. "open" \in Pc
    BY DEF InLoop, Routed, Listed, Guarded, Pc
  <2>9. 2 \in 0..2
    OBVIOUS
  <2>2. /\ k \in ConnRecord /\ k.pc = "open" /\ k.clones = 2 /\ k.sid = old.sid
        /\ k.todo = old.todo
    BY <1>1, <2>0, <2>9 DEF ConnRecord
  <2> HIDE DEF k
  <2>3. /\ old.pc \in Guarded /\ k.pc \in Guarded /\ old.pc \in Listed /\ k.pc \in Listed
        /\ k.pc \in Routed /\ old.pc \notin InHandler /\ k.pc \notin InHandler /\ old.pc \notin Tracked
    BY <2>1, <2>2 DEF Guarded, Listed, Routed, InLoop, InHandler, Tracked
  <2>4. NewChannel \in Channel
    BY ChannelAssumption DEF NewChannel, Channel
  <2>5. /\ outgoing_channels' \in [Conn -> Channel]
        /\ \A d \in Conn : d # c => outgoing_channels'[d] = outgoing_channels[d]
    BY <1>0, <2>1, <2>4, ChannelMoves
  <2>6. k.clones > 0
    BY <2>2
  <2> QED
    BY <1>0, <1>2, <1>3, <2>1, <2>2, <2>3, <2>5, <2>6, ConnStep DEF old
<1>9. CASE RemoveChannel(c)
  <2> DEFINE k == [old EXCEPT !.pc = "unrouted"]
  <2>1. /\ old.pc = "ended" /\ conn' = [conn EXCEPT ![c] = k]
        /\ outgoing_channels' = [outgoing_channels EXCEPT ![c] = NoChannel]
        /\ UNCHANGED <<slots, active_connections, seen>>
    BY <1>9 DEF RemoveChannel, Goto, History, old
  <2>2. /\ k \in ConnRecord /\ k.pc = "unrouted" /\ k.clones = old.clones /\ k.sid = old.sid
        /\ k.todo = old.todo
    BY <1>1 DEF ConnRecord, Guarded, Listed, Pc
  <2> HIDE DEF k
  <2>3. /\ old.pc \in Guarded /\ k.pc \in Guarded /\ old.pc \in Listed /\ k.pc \in Listed
        /\ old.pc \notin InHandler /\ k.pc \notin InHandler /\ k.pc \in Tracked
    BY <2>1, <2>2 DEF Guarded, Listed, Routed, InLoop, InHandler, Tracked
  <2>4. NoChannel \in Channel
    BY DEF NoChannel, Channel
  <2>5. /\ outgoing_channels' \in [Conn -> Channel] /\ outgoing_channels'[c] = NoChannel
        /\ \A d \in Conn : d # c => outgoing_channels'[d] = outgoing_channels[d]
    BY <1>0, <2>1, <2>4, ChannelMoves
  <2> QED
    BY <1>0, <1>2, <1>3, <2>1, <2>2, <2>3, <2>5, ConnStep DEF old
<1>10. CASE Unlist(c)
  <2> DEFINE k == [old EXCEPT !.pc = "unlisted", !.clones = 0]
  <2>1. /\ old.pc = "unrouted" /\ conn' = [conn EXCEPT ![c] = k] /\ slots' = slots - 1
        /\ active_connections' = active_connections \ {c}
        /\ UNCHANGED <<outgoing_channels, seen>>
    BY <1>10 DEF Unlist, History, old
  <2>0. "unlisted" \in Pc
    BY DEF Pc
  <2>9. 0 \in 0..2
    OBVIOUS
  <2>2. /\ k \in ConnRecord /\ k.pc = "unlisted" /\ k.clones = 0 /\ k.sid = old.sid
        /\ k.todo = old.todo
    BY <1>1, <2>0, <2>9 DEF ConnRecord
  <2> HIDE DEF k
  <2>3. /\ old.pc \in Guarded /\ k.pc \notin Guarded /\ k.pc \notin Listed /\ old.pc \notin Routed
        /\ old.pc \notin InHandler /\ k.pc \notin InHandler /\ k.pc \in Tracked
    BY <2>1, <2>2 DEF Guarded, Listed, Routed, InLoop, InHandler, Tracked
  <2>4. c \in Holders /\ IsFiniteSet(Holders) /\ slots = Cardinality(Holders)
    BY <1>2, <2>3, TransportAssumption, FS_Subset DEF Inv, SlotInv, Holders, old
  <2>5. Cardinality(Holders) # 0
    BY <2>4, FS_EmptySet
  <2>6. slots - 1 \in Nat /\ ~(k.clones > 0)
    BY <1>0, <2>2, <2>4, <2>5
  <2> QED
    BY <1>0, <1>2, <1>3, <2>1, <2>2, <2>3, <2>6, ConnStep DEF old
<1> QED
  BY <1>4, <1>5, <1>6, <1>7, <1>8, <1>9, <1>10 DEF Setup

(* The connection's loop, except what it does for a StreamInit. *)
LEMMA LoopInv ==
  ASSUME Inv, NEW c \in Conn,
         Loop(c) \/ Leave(c) \/ Ping(c) \/ Writing(c) \/ ClientGone(c)
  PROVE  Inv'
<1> DEFINE old == conn[c]
<1>0. /\ TypeOK /\ Slotted(c) /\ Remembers(c) /\ slots \in Nat /\ active_connections \subseteq Conn
      /\ outgoing_channels \in [Conn -> Channel]
      /\ seen \in [Conn -> [Task -> {"none", "frame", "complete", "missed"}]]
  BY DEF Inv, SlotInv, SessionInv, TypeOK
<1>1. /\ old \in ConnRecord /\ old.clones \in 0..2 /\ old.rx \in Seq(Message)
      /\ old.write \in Message \union {<<>>} /\ old.permit \in Nat /\ old.gone \in BOOLEAN
      /\ outgoing_channels[c] \in Channel /\ outgoing_channels[c].queue \in Seq(Queued)
      /\ outgoing_channels[c].free \in Nat
  BY <1>0, ConnType
<1>2. /\ old.clones > 0 <=> old.pc \in Guarded
      /\ c \in active_connections <=> old.pc \in Listed
      /\ outgoing_channels[c] # NoChannel => old.pc \in Routed
  BY <1>0 DEF Slotted
<1>3. UNCHANGED <<sessions, tasks, connection_sessions, slots, active_connections>>
  BY DEF Loop, RecvFrame, RecvLagged, RecvOutgoing, Leave, WriteFailed, EndLoop, Ping, Writing,
         WriteDone, ClientGone, Registry, Controller
<1>4. /\ old.pc \in InLoop /\ InLoop \subseteq Routed /\ InLoop \subseteq Listed
      /\ InLoop \subseteq Guarded /\ InLoop \subseteq Tracked /\ InLoop \subseteq Pc
      /\ Routed \subseteq Listed /\ Routed \subseteq Guarded /\ Routed \subseteq Tracked
      /\ Routed \subseteq Pc
  BY DEF Loop, RecvFrame, RecvLagged, RecvOutgoing, Leave, WriteFailed, Ping, Writing, WriteDone,
         ClientGone, Guarded, Listed, Routed, InLoop, InHandler, Tracked, Pc
<1> HIDE DEF old
(* The record may change in any field but clones, sid and todo. *)
<1>5. ASSUME NEW k \in ConnRecord, conn' = [conn EXCEPT ![c] = k],
             k.pc \in Routed, k.pc = old.pc \/ (old.pc \notin InHandler /\ k.pc \notin InHandler),
             k.clones > 0, k.sid = old.sid, k.todo = old.todo,
             outgoing_channels' \in [Conn -> Channel],
             \A d \in Conn : d # c => outgoing_channels'[d] = outgoing_channels[d],
             seen' \in [Conn -> [Task -> {"none", "frame", "complete", "missed"}]]
      PROVE  Inv'
  <2>1. "removing" \notin Routed
    BY DEF Routed, InLoop, InHandler
  <2>2. old.pc # "removing" /\ k.pc # "removing"
    BY <1>4, <1>5, <2>1
  <2>3. /\ k.pc \in Guarded /\ k.pc \in Listed /\ k.pc \in Tracked /\ old.pc \in Guarded
        /\ old.pc \in Listed
    BY <1>4, <1>5
  <2> QED
    BY <1>0, <1>2, <1>3, <1>5, <2>2, <2>3, ConnStep DEF old
<1>6. "open" \in InLoop /\ "writing" \in InLoop /\ "open" \notin InHandler /\ "writing" \notin InHandler
      /\ "ended" \in Routed /\ "ended" \notin InHandler
  BY DEF InLoop, InHandler, Routed
<1>7. CASE RecvFrame(c)
  <2> DEFINE msg == Head(old.rx)
             rest == Tail(old.rx)
             k == [old EXCEPT !.pc = "writing", !.write = msg, !.rx = rest]
  <2>1. /\ old.pc = "open" /\ old.rx # <<>> /\ conn' = [conn EXCEPT ![c] = k]
        /\ UNCHANGED <<outgoing_channels, seen>>
    BY <1>7 DEF RecvFrame, Registry, History, old
  <2>2. msg \in Message /\ rest \in Seq(Message)
    BY <1>1, <2>1
  <2> HIDE DEF msg, rest
  <2>3. /\ k \in ConnRecord /\ k.pc = "writing" /\ k.clones = old.clones /\ k.sid = old.sid
        /\ k.todo = old.todo
    BY <1>1, <1>4, <1>6, <2>2 DEF ConnRecord
  <2> HIDE DEF k
  <2> QED
    BY <1>0, <1>2, <1>4, <1>5, <1>6, <2>1, <2>3
<1>8. CASE RecvLagged(c)
  <2> DEFINE k == [old EXCEPT !.lagged = FALSE]
  <2>1. /\ old.pc = "open" /\ conn' = [conn EXCEPT ![c] = k]
        /\ UNCHANGED <<outgoing_channels, seen>>
    BY <1>8 DEF RecvLagged, Registry, History, old
  <2>2. /\ k \in ConnRecord /\ k.pc = old.pc /\ k.clones = old.clones /\ k.sid = old.sid
        /\ k.todo = old.todo
    BY <1>1 DEF ConnRecord
  <2> HIDE DEF k
  <2> QED
    BY <1>0, <1>2, <1>4, <1>5, <1>6, <2>1, <2>2
<1>9. CASE RecvOutgoing(c)
  <2> DEFINE permit == Head(outgoing_channels[c].queue).permit
             k == [old EXCEPT !.pc = "writing", !.permit = permit]
             rest == Tail(outgoing_channels[c].queue)
             ch == [outgoing_channels[c] EXCEPT !.queue = rest]
  <2>1. /\ old.pc = "open" /\ outgoing_channels[c].queue # <<>> /\ conn' = [conn EXCEPT ![c] = k]
        /\ outgoing_channels' = [outgoing_channels EXCEPT ![c] = ch] /\ UNCHANGED seen
    BY <1>9 DEF RecvOutgoing, History, old
  <2>2. Head(outgoing_channels[c].queue) \in Queued /\ rest \in Seq(Queued)
    BY <1>1, <2>1
  <2>3. permit \in Nat
    BY <2>2 DEF Queued
  <2> HIDE DEF permit, rest
  <2>4. /\ k \in ConnRecord /\ k.pc = "writing" /\ k.clones = old.clones /\ k.sid = old.sid
        /\ k.todo = old.todo
    BY <1>1, <1>4, <1>6, <2>3 DEF ConnRecord
  <2>5. ch \in Channel
    BY <1>1, <2>2 DEF Channel
  <2> HIDE DEF k, ch
  <2>6. /\ outgoing_channels' \in [Conn -> Channel]
        /\ \A d \in Conn : d # c => outgoing_channels'[d] = outgoing_channels[d]
    BY <1>0, <2>1, <2>5, ChannelMoves
  <2> QED
    BY <1>0, <1>2, <1>4, <1>5, <1>6, <2>1, <2>4, <2>6
<1>10. CASE Leave(c) \/ WriteFailed(c)
  <2> DEFINE k == [NoConn EXCEPT !.pc = "ended", !.clones = 1, !.gone = old.gone]
             ch == [NoChannel EXCEPT !.free = max_queued_bytes]
             got == [t \in Task |-> "missed"]
  <2>1. /\ old.pc \in {"open", "writing"} /\ conn' = [conn EXCEPT ![c] = k]
        /\ outgoing_channels' = [outgoing_channels EXCEPT ![c] = ch]
        /\ seen' = [seen EXCEPT ![c] = got]
    BY <1>10 DEF Leave, WriteFailed, EndLoop, old
  <2>2. old.sid = <<>> /\ old.todo = <<>>
    BY <1>0, <1>6, <2>1 DEF Remembers, old
  <2>3. 1 \in 0..2 /\ 1 > 0
    OBVIOUS
  <2>4. k \in ConnRecord /\ k.pc = "ended" /\ k.clones = 1 /\ k.sid = <<>> /\ k.todo = <<>>
    BY <1>1, <1>4, <1>6, <2>3, NoRecords DEF ConnRecord
  <2>5. ch \in Channel
    BY ChannelAssumption, NoRecords DEF Channel
  <2>6. got \in [Task -> {"none", "frame", "complete", "missed"}]
    OBVIOUS
  <2> HIDE DEF k, ch, got
  <2>7. /\ outgoing_channels' \in [Conn -> Channel]
        /\ \A d \in Conn : d # c => outgoing_channels'[d] = outgoing_channels[d]
    BY <1>0, <2>1, <2>5, ChannelMoves
  <2>8. seen' \in [Conn -> [Task -> {"none", "frame", "complete", "missed"}]]
    BY <1>0, <2>1, <2>6
  <2> QED
    BY <1>4, <1>5, <1>6, <2>1, <2>2, <2>3, <2>4, <2>7, <2>8
<1>11. CASE WriteDone(c)
  <2> DEFINE k == [old EXCEPT !.pc = "open", !.write = <<>>, !.permit = 0]
             free == outgoing_channels[c].free + old.permit
             ch == [outgoing_channels[c] EXCEPT !.free = free]
  <2>1. /\ old.pc = "writing" /\ conn' = [conn EXCEPT ![c] = k]
        /\ outgoing_channels' = [outgoing_channels EXCEPT ![c] = ch]
        /\ \/ seen' = seen
           \/ old.write # <<>> /\ seen' = [seen EXCEPT ![c][old.write.task] = old.write.kind]
    BY <1>11 DEF WriteDone, old
  <2>2. free \in Nat
    BY <1>1
  <2> HIDE DEF free
  <2>3. /\ k \in ConnRecord /\ k.pc = "open" /\ k.clones = old.clones /\ k.sid = old.sid
        /\ k.todo = old.todo
    BY <1>1, <1>4, <1>6 DEF ConnRecord
  <2>4. ch \in Channel
    BY <1>1, <2>2 DEF Channel
  <2> HIDE DEF k, ch
  <2>5. /\ outgoing_channels' \in [Conn -> Channel]
        /\ \A d \in Conn : d # c => outgoing_channels'[d] = outgoing_channels[d]
    BY <1>0, <2>1, <2>4, ChannelMoves
  <2>6. old.write # <<>> => old.write.task \in Task /\ old.write.kind \in {"frame", "complete"}
    BY <1>1 DEF Message
  <2>7. seen' \in [Conn -> [Task -> {"none", "frame", "complete", "missed"}]]
    <3>1. CASE seen' = seen
      BY <1>0, <3>1
    <3>2. CASE old.write # <<>> /\ seen' = [seen EXCEPT ![c][old.write.task] = old.write.kind]
      <4> DEFINE got == [seen[c] EXCEPT ![old.write.task] = old.write.kind]
      <4>1. got \in [Task -> {"none", "frame", "complete", "missed"}]
        BY <1>0, <2>6, <3>2
      <4>2. seen' = [seen EXCEPT ![c] = got]
        BY <3>2
      <4> HIDE DEF got
      <4> QED
        BY <1>0, <4>1, <4>2
    <3> QED
      BY <2>1, <3>1, <3>2
  <2> QED
    BY <1>0, <1>2, <1>4, <1>5, <1>6, <2>1, <2>3, <2>5, <2>7
<1>12. CASE Ping(c)
  <2> DEFINE k == [old EXCEPT !.pc = "writing"]
  <2>1. /\ old.pc = "open" /\ conn' = [conn EXCEPT ![c] = k]
        /\ UNCHANGED <<outgoing_channels, seen>>
    BY <1>12 DEF Ping, Goto, Registry, History, old
  <2>2. /\ k \in ConnRecord /\ k.pc = "writing" /\ k.clones = old.clones /\ k.sid = old.sid
        /\ k.todo = old.todo
    BY <1>1, <1>4, <1>6 DEF ConnRecord
  <2> HIDE DEF k
  <2> QED
    BY <1>0, <1>2, <1>4, <1>5, <1>6, <2>1, <2>2
<1>13. CASE ClientGone(c)
  <2> DEFINE k == [old EXCEPT !.gone = TRUE]
  <2>1. conn' = [conn EXCEPT ![c] = k] /\ UNCHANGED <<outgoing_channels, seen>>
    BY <1>13 DEF ClientGone, Registry, History, old
  <2>2. /\ k \in ConnRecord /\ k.pc = old.pc /\ k.clones = old.clones /\ k.sid = old.sid
        /\ k.todo = old.todo
    BY <1>1 DEF ConnRecord
  <2> HIDE DEF k
  <2> QED
    BY <1>0, <1>2, <1>4, <1>5, <2>1, <2>2
<1> QED
  BY <1>7, <1>8, <1>9, <1>10, <1>11, <1>12, <1>13 DEF Loop, Writing

(* send_frame queues only where there is a channel. *)
LEMMA SendFrameInv ==
  ASSUME Inv, NEW c \in Conn, NEW len \in Size, SendFrame(c, len)
  PROVE  Inv'
<1> DEFINE ch == outgoing_channels[c]
           queue == Append(ch.queue, Envelope("text", len))
           free == ch.free - permits_for(len)
<1>1. /\ TypeOK /\ conn[c] \in ConnRecord /\ ch \in Channel /\ ch.queue \in Seq(Queued)
      /\ ch.free \in Nat /\ len \in Nat /\ permits_for(len) <= ch.free /\ ch.free > 0
  BY ConnType, TransportAssumption DEF Inv, SendFrame, CanTrySend
<1>2. permits_for(len) \in Nat
  BY <1>1 DEF permits_for
<1>3. Envelope("text", len) \in Queued /\ free \in Nat
  BY <1>1, <1>2 DEF Envelope, Queued
<1>4. queue \in Seq(Queued)
  BY <1>1, <1>3
<1>5. try_send(ch, "text", len) = [ch EXCEPT !.queue = queue, !.free = free]
  BY <1>1 DEF try_send, Enqueue, Channel
<1> HIDE DEF queue, free
<1>6. [ch EXCEPT !.queue = queue, !.free = free] \in Channel
  BY <1>1, <1>3, <1>4 DEF Channel
<1>7. ch # NoChannel
  BY <1>1 DEF NoChannel
<1>8. /\ outgoing_channels' \in [Conn -> Channel]
      /\ \A d \in Conn : d # c => outgoing_channels'[d] = outgoing_channels[d]
  BY <1>1, <1>5, <1>6, ChannelMoves DEF SendFrame
<1>9. /\ conn' = [conn EXCEPT ![c] = conn[c]]
      /\ UNCHANGED <<slots, active_connections, connection_sessions, sessions, tasks, seen>>
  BY <1>1 DEF SendFrame, Controller, History, TypeOK
<1>10. /\ Slotted(c) /\ slots \in Nat /\ active_connections \subseteq Conn
       /\ seen \in [Conn -> [Task -> {"none", "frame", "complete", "missed"}]]
  BY DEF Inv, SlotInv, TypeOK
<1> QED
  BY <1>1, <1>7, <1>8, <1>9, <1>10, ConnStep DEF Slotted

-----------------------------------------------------------------------------
(* What a connection remembers of its sessions. *)

(* The elements of the lists of sessions. *)
LEMMA ConcatSet ==
  ASSUME NEW a \in Seq(Session), NEW b \in Seq(Session)
  PROVE  ToSet(a \o b) = ToSet(a) \union ToSet(b)
<1>1. /\ a \o b \in Seq(Session) /\ Len(a \o b) = Len(a) + Len(b)
      /\ \A i \in 1..Len(a \o b) : (a \o b)[i] = IF i <= Len(a) THEN a[i] ELSE b[i - Len(a)]
  OBVIOUS
<1>2. ASSUME NEW x \in ToSet(a \o b) PROVE x \in ToSet(a) \union ToSet(b)
  <2>1. PICK i \in 1..Len(a \o b) : x = (a \o b)[i]
    BY <1>1, <1>2 DEF ToSet
  <2>2. CASE i <= Len(a)
    BY <1>1, <2>1, <2>2 DEF ToSet
  <2>3. CASE ~(i <= Len(a))
    <3>1. i - Len(a) \in 1..Len(b)
      BY <1>1, <2>1, <2>3
    <3> QED
      BY <1>1, <2>1, <2>3, <3>1 DEF ToSet
  <2> QED
    BY <2>2, <2>3
<1>3. ASSUME NEW x \in ToSet(a) PROVE x \in ToSet(a \o b)
  <2>1. PICK i \in 1..Len(a) : x = a[i]
    BY <1>3 DEF ToSet
  <2>2. i \in 1..Len(a \o b) /\ (a \o b)[i] = x
    BY <1>1, <2>1
  <2> QED
    BY <1>1, <2>2 DEF ToSet
<1>4. ASSUME NEW x \in ToSet(b) PROVE x \in ToSet(a \o b)
  <2>1. PICK i \in 1..Len(b) : x = b[i]
    BY <1>4 DEF ToSet
  <2>2. i + Len(a) \in 1..Len(a \o b) /\ (a \o b)[i + Len(a)] = x
    BY <1>1, <2>1
  <2> QED
    BY <1>1, <2>2 DEF ToSet
<1> QED
  BY <1>2, <1>3, <1>4

(* The sessions of an empty list, and of a list of one. *)
LEMMA EmptySetOf == ToSet(<<>>) = {}
  BY DEF ToSet

(* The one session that StreamInit is about. *)
LEMMA OneSetOf ==
  ASSUME NEW s PROVE ToSet(<<s>>) = {s}
  BY DEF ToSet

(* What is left when the first session of the list has been removed. *)
LEMMA TailSet ==
  ASSUME NEW q \in Seq(Session), q # <<>>
  PROVE  /\ Head(q) \in Session /\ Tail(q) \in Seq(Session)
         /\ \A x \in ToSet(q) : x = Head(q) \/ x \in ToSet(Tail(q))
<1>1. /\ Head(q) \in Session /\ Tail(q) \in Seq(Session) /\ Head(q) = q[1]
      /\ Len(Tail(q)) = Len(q) - 1 /\ Len(q) \in Nat /\ Len(q) > 0
      /\ \A i \in 1..(Len(q) - 1) : Tail(q)[i] = q[i + 1]
  OBVIOUS
<1>2. ASSUME NEW x \in ToSet(q), x # Head(q) PROVE x \in ToSet(Tail(q))
  <2>1. PICK i \in 1..Len(q) : x = q[i]
    BY <1>2 DEF ToSet
  <2>2. i - 1 \in 1..(Len(q) - 1)
    BY <1>1, <1>2, <2>1
  <2>3. Tail(q)[i - 1] = x /\ i - 1 \in 1..Len(Tail(q))
    BY <1>1, <2>1, <2>2
  <2> DEFINE rest == Tail(q)
             j == i - 1
  <2>4. rest \in Seq(Session) /\ j \in 1..Len(rest) /\ rest[j] = x
    BY <1>1, <2>3
  <2> HIDE DEF rest, j
  <2>5. j \in DOMAIN rest
    BY <2>4
  <2>6. x \in ToSet(rest)
    BY <2>4, <2>5 DEF ToSet
  <2> QED
    BY <2>6 DEF rest
<1> QED
  BY <1>1, <1>2

(* A step that changes what a connection remembers, not its slot. *)
LEMMA QuietSlots ==
  ASSUME TypeOK, SlotInv, NEW c \in Conn, NEW k \in ConnRecord, conn' = [conn EXCEPT ![c] = k],
         UNCHANGED <<slots, active_connections, outgoing_channels>>,
         k.clones > 0 <=> conn[c].clones > 0,
         k.pc \in Guarded <=> conn[c].pc \in Guarded,
         k.pc \in Listed <=> conn[c].pc \in Listed,
         conn[c].pc \in Routed => k.pc \in Routed
  PROVE  SlotInv'
<1>1. Slotted(c)
  BY DEF SlotInv
<1> QED
  BY <1>1, SlotStep DEF Slotted

(* StreamInit picks an identifier that no other connection has. *)
LEMMA StreamInitInv ==
  ASSUME Inv, NEW c \in Conn, StreamInit(c)
  PROVE  Inv'
<1> DEFINE old == conn[c]
<1>1. PICK s \in Session : Fresh(s) /\ conn' = [conn EXCEPT ![c] = [old EXCEPT !.pc = "creating", !.sid = <<s>>]]
  BY DEF StreamInit
<1> DEFINE k == [old EXCEPT !.pc = "creating", !.sid = <<s>>]
<1>2. /\ TypeOK /\ SlotInv /\ SessionInv /\ Remembers(c) /\ old \in ConnRecord /\ old.pc = "open"
      /\ UNCHANGED <<slots, active_connections, outgoing_channels, connection_sessions, sessions, tasks, seen>>
  BY ConnType DEF Inv, SessionInv, StreamInit, Registry, Controller, History
<1>3. <<s>> \in Seq(Session) /\ "creating" \in Pc
  BY DEF InHandler, InLoop, Routed, Listed, Guarded, Pc
<1>4. /\ k \in ConnRecord /\ k.pc = "creating" /\ k.sid = <<s>> /\ k.todo = old.todo
      /\ k.clones = old.clones
  BY <1>2, <1>3 DEF ConnRecord
<1>5. conn' = [conn EXCEPT ![c] = k]
  BY <1>1
<1> HIDE DEF k, old
<1>6. conn' \in [Conn -> ConnRecord] /\ conn'[c] = k
  BY <1>2, <1>4, <1>5, ConnMoves
<1>7. TypeOK'
  BY <1>2, <1>6 DEF TypeOK
<1>8. /\ k.pc \in Guarded /\ old.pc \in Guarded /\ k.pc \in Listed /\ old.pc \in Listed
      /\ k.pc \in Routed /\ k.pc \in InHandler /\ old.pc \notin InHandler /\ k.pc \in Tracked
  BY <1>2, <1>4 DEF InHandler, InLoop, Routed, Listed, Guarded, Tracked
<1>9. SlotInv'
  BY <1>2, <1>4, <1>5, <1>8, QuietSlots DEF old
<1>10. /\ old.sid = <<>> /\ old.todo = <<>>
  BY <1>2, <1>8 DEF Remembers, old
<1>11. Remembers(c)'
  BY <1>2, <1>4, <1>6, <1>8, <1>10 DEF Remembers, old
<1>12. \A r \in Session : Holds(c, r) => Holds(c, r)'
  BY <1>2, <1>4, <1>6, <1>10, EmptySetOf DEF Holds, old
<1>13. /\ sessions[k.sid[1]].state = "none"
       /\ \A d \in Conn : d # c => ~(conn[d].pc = "creating" /\ conn[d].sid = k.sid)
  BY <1>1, <1>4 DEF Fresh
<1>14. SessionInv'
  BY <1>2, <1>4, <1>5, <1>11, <1>12, <1>13, SessionStep
<1>15. AbortedSendsOnce'
  BY <1>2 DEF Inv, AbortedSendsOnce
<1> QED
  BY <1>7, <1>9, <1>14, <1>15 DEF Inv

(* The session is tracked before it streams. *)
LEMMA TrackSessionInv ==
  ASSUME Inv, NEW c \in Conn, TrackSession(c)
  PROVE  Inv'
<1> DEFINE old == conn[c]
           k == [old EXCEPT !.pc = "starting"]
           list == connection_sessions[c] \o old.sid
<1>1. /\ TypeOK /\ SlotInv /\ SessionInv /\ Remembers(c) /\ old \in ConnRecord /\ old.pc = "tracking"
      /\ connection_sessions[c] \in Seq(Session) /\ old.sid \in Seq(Session)
      /\ conn' = [conn EXCEPT ![c] = k]
      /\ connection_sessions' = [connection_sessions EXCEPT ![c] = list]
      /\ UNCHANGED <<slots, active_connections, outgoing_channels, sessions, tasks, seen>>
  BY ConnType DEF Inv, SessionInv, TrackSession, Goto, Controller, History
<1>2. "starting" \in Pc
  BY DEF InHandler, InLoop, Routed, Listed, Guarded, Pc
<1>3. /\ k \in ConnRecord /\ k.pc = "starting" /\ k.sid = old.sid /\ k.todo = old.todo
      /\ k.clones = old.clones
  BY <1>1, <1>2 DEF ConnRecord
<1>4. /\ list \in Seq(Session) /\ ToSet(list) = ToSet(connection_sessions[c]) \union ToSet(old.sid)
  BY <1>1, ConcatSet
<1> HIDE DEF k, old, list
<1>5. conn' \in [Conn -> ConnRecord] /\ conn'[c] = k
  BY <1>1, <1>3, ConnMoves
<1>6. /\ connection_sessions' \in [Conn -> Seq(Session)] /\ connection_sessions'[c] = list
      /\ \A d \in Conn : d # c => connection_sessions'[d] = connection_sessions[d]
  BY <1>1, <1>4 DEF TypeOK
<1>7. TypeOK'
  BY <1>1, <1>5, <1>6 DEF TypeOK
<1>8. /\ k.pc \in Guarded /\ old.pc \in Guarded /\ k.pc \in Listed /\ old.pc \in Listed
      /\ k.pc \in Routed /\ k.pc \in InHandler /\ old.pc \in InHandler /\ k.pc \in Tracked
  BY <1>1, <1>3 DEF InHandler, InLoop, Routed, Listed, Guarded, Tracked
<1>9. SlotInv'
  BY <1>1, <1>3, <1>8, QuietSlots DEF old
<1>10. PICK s \in Session : old.sid = <<s>>
  BY <1>1, <1>8 DEF Remembers, old
<1>11. k.sid[1] \in ToSet(list) /\ old.todo = <<>>
  BY <1>1, <1>3, <1>4, <1>10, OneSetOf DEF Remembers, old
<1>12. Remembers(c)'
  BY <1>3, <1>5, <1>6, <1>8, <1>10, <1>11 DEF Remembers
<1>13. \A r \in Session : Holds(c, r) => Holds(c, r)'
  BY <1>3, <1>4, <1>5, <1>6 DEF Holds, old
<1>14. SessionInv'
  BY <1>1, <1>3, <1>6, <1>12, <1>13, SessionStep
<1>15. AbortedSendsOnce'
  BY <1>1 DEF Inv, AbortedSendsOnce
<1> QED
  BY <1>7, <1>9, <1>14, <1>15 DEF Inv

(* The record of a connection with sessions left to remove. *)
LEMMA RemovingRecord ==
  ASSUME NEW q \in Seq(Session)
  PROVE  /\ Removing(q) \in ConnRecord /\ Removing(q).todo = q /\ Removing(q).sid = <<>>
         /\ Removing(q).clones = 0
         /\ Removing(q).pc = IF q = <<>> THEN "closed" ELSE "removing"
<1> DEFINE pc == IF q = <<>> THEN "closed" ELSE "removing"
<1>1. pc \in Pc
  BY Places
<1>2. Removing(q) = [NoConn EXCEPT !.pc = pc, !.todo = q]
  BY DEF Removing
<1> HIDE DEF pc
<1>3. /\ Removing(q) \in ConnRecord /\ Removing(q).todo = q /\ Removing(q).sid = <<>>
      /\ Removing(q).clones = 0 /\ Removing(q).pc = pc
  BY <1>1, <1>2, NoRecords DEF ConnRecord
<1> QED
  BY <1>3 DEF pc

(* Teardown takes over every session the connection tracked. *)
LEMMA TakeSessionsInv ==
  ASSUME Inv, NEW c \in Conn, TakeSessions(c)
  PROVE  Inv'
<1> DEFINE old == conn[c]
           list == connection_sessions[c]
           k == Removing(list)
<1>1. /\ TypeOK /\ SlotInv /\ SessionInv /\ Remembers(c) /\ Slotted(c) /\ old.pc = "unlisted"
      /\ list \in Seq(Session) /\ <<>> \in Seq(Session)
      /\ conn' = [conn EXCEPT ![c] = k]
      /\ connection_sessions' = [connection_sessions EXCEPT ![c] = <<>>]
      /\ UNCHANGED <<slots, active_connections, outgoing_channels, sessions, tasks, seen>>
  BY ConnType DEF Inv, SessionInv, SlotInv, TakeSessions, Controller, History
<1>2. /\ k \in ConnRecord /\ k.sid = <<>> /\ k.todo = list /\ k.clones = 0
      /\ k.pc = IF list = <<>> THEN "closed" ELSE "removing"
  BY <1>1, RemovingRecord
<1> HIDE DEF k, old, list
<1>3. conn' \in [Conn -> ConnRecord] /\ conn'[c] = k
  BY <1>1, <1>2, ConnMoves
<1>4. /\ connection_sessions' \in [Conn -> Seq(Session)] /\ connection_sessions'[c] = <<>>
      /\ \A d \in Conn : d # c => connection_sessions'[d] = connection_sessions[d]
  BY <1>1 DEF TypeOK
<1>5. TypeOK'
  BY <1>1, <1>3, <1>4 DEF TypeOK
<1>6. /\ k.pc \notin Guarded /\ old.pc \notin Guarded /\ k.pc \notin Listed /\ old.pc \notin Listed
      /\ old.pc \notin Routed /\ k.pc \notin InHandler /\ old.pc \notin InHandler
      /\ k.pc \notin {"starting", "creating"}
  BY <1>1, <1>2 DEF InHandler, InLoop, Routed, Listed, Guarded
<1>7. ~(k.clones > 0) /\ ~(old.clones > 0)
  BY <1>1, <1>2, <1>6 DEF Slotted, old
<1>8. SlotInv'
  BY <1>1, <1>2, <1>6, <1>7, QuietSlots DEF old
<1>9. old.sid = <<>> /\ old.todo = <<>>
  BY <1>1, <1>6 DEF Remembers, old
<1>10. Remembers(c)'
  BY <1>2, <1>3, <1>4, <1>6 DEF Remembers
<1>11. \A r \in Session : Holds(c, r) => Holds(c, r)'
  BY <1>2, <1>3, <1>9, EmptySetOf DEF Holds, old, list
<1>12. SessionInv'
  BY <1>1, <1>2, <1>4, <1>6, <1>10, <1>11, SessionStep
<1>13. AbortedSendsOnce'
  BY <1>1 DEF Inv, AbortedSendsOnce
<1> QED
  BY <1>5, <1>8, <1>12, <1>13 DEF Inv

-----------------------------------------------------------------------------
(* The controller: sessions and their tasks. *)

(* abort() drops a task that waits and marks one that runs. *)
LEMMA AbortTask ==
  ASSUME NEW task \in TaskRecord
  PROVE  /\ Abort(task) \in TaskRecord /\ Abort(task).aborted /\ Abort(task).late = task.late
         /\ Abort(task).pc \in {task.pc, "ended"}
         /\ task.pc \notin {"spawned", "delay"} => Abort(task).pc = task.pc
  BY DEF Abort, TaskRecord, TaskPc

(* The types of a session's record. *)
LEMMA SessionType ==
  ASSUME TypeOK, NEW s \in Session
  PROVE  /\ sessions[s] \in SessionRecord /\ sessions[s].task \in 0..MaxTasks
         /\ sessions[s].owner \subseteq Conn /\ sessions[s].state \in {"none", "stored", "removed"}
<1>1. sessions[s] \in SessionRecord
  BY DEF TypeOK
<1> QED
  BY <1>1 DEF SessionRecord

(* What the controller keeps for itself, with its types. *)
ControllerInv ==
  /\ sessions \in [Session -> SessionRecord]
  /\ tasks \in [Task -> TaskRecord]
  /\ Reachable
  /\ AbortedSendsOnce

(***************************************************************************)
(* Sessions are removed, all those in `old`: their current tasks are       *)
(* aborted, and every other running task had been aborted before.          *)
(***************************************************************************)
LEMMA RemoveStep ==
  ASSUME TypeOK, ControllerInv, NEW old \in SUBSET {s \in Session : Stored(s)},
         sessions' = [s \in Session |-> IF s \in old THEN [sessions[s] EXCEPT !.state = "removed"]
                                        ELSE sessions[s]],
         tasks' = [t \in Task |-> IF t[1] \in old /\ t[2] = sessions[t[1]].task
                                  THEN Abort(tasks[t]) ELSE tasks[t]]
  PROVE  /\ ControllerInv'
         /\ \A s \in Session : /\ sessions'[s].owner = sessions[s].owner
                               /\ Stored(s)' <=> Stored(s) /\ s \notin old
                               /\ sessions'[s].state = "none" <=> sessions[s].state = "none"
<1>1. \A s \in Session :
        /\ sessions'[s] \in SessionRecord /\ sessions'[s].task = sessions[s].task
        /\ sessions'[s].owner = sessions[s].owner
        /\ sessions'[s].state = IF s \in old THEN "removed" ELSE sessions[s].state
  BY SessionType DEF SessionRecord
<1>2. \A s \in Session : /\ Stored(s)' <=> Stored(s) /\ s \notin old
                         /\ sessions'[s].state = "none" <=> sessions[s].state = "none"
  BY <1>1 DEF Stored
<1>3. sessions' \in [Session -> SessionRecord]
  BY <1>1
<1>4. \A t \in Task : /\ t[1] \in Session /\ t[2] \in 1..MaxTasks /\ tasks[t] \in TaskRecord
                      /\ tasks[t].pc \in TaskPc
  BY DEF Task, ControllerInv, TaskRecord
<1>5. \A t \in Task :
        /\ tasks'[t] \in TaskRecord /\ tasks'[t].late = tasks[t].late
        /\ tasks[t].aborted => tasks'[t].aborted
        /\ tasks'[t].pc \in {tasks[t].pc, "ended"}
        /\ tasks[t].pc \notin {"spawned", "delay"} => tasks'[t].pc = tasks[t].pc
        /\ t[1] \in old /\ t[2] = sessions[t[1]].task => tasks'[t].aborted
  BY <1>4, AbortTask
<1>6. tasks' \in [Task -> TaskRecord]
  BY <1>5
<1>7. AbortedSendsOnce'
  BY <1>5 DEF ControllerInv, AbortedSendsOnce
<1>8. Reachable'
  <2>1. \A s \in Session : sessions'[s].state = "none" => sessions'[s].task = 0
    BY <1>1, <1>2 DEF ControllerInv, Reachable
  <2>2. \A t \in Task : t[2] > sessions'[t[1]].task => tasks'[t].pc = "none"
    BY <1>1, <1>4, <1>5 DEF ControllerInv, Reachable
  <2>3. ASSUME NEW t \in Task, tasks'[t].pc \notin {"none", "ended"}
        PROVE  tasks'[t].aborted \/ (Stored(t[1])' /\ sessions'[t[1]].task = t[2])
    <3>1. Running(t)
      BY <1>5, <2>3 DEF Running
    <3>2. tasks[t].aborted \/ Current(t)
      BY <3>1 DEF ControllerInv, Reachable
    <3> QED
      BY <1>1, <1>2, <1>4, <1>5, <3>2 DEF Current
  <2> QED
    BY <2>1, <2>2, <2>3 DEF Reachable, Running, Current
<1> QED
  BY <1>1, <1>2, <1>3, <1>6, <1>7, <1>8 DEF ControllerInv

(* remove_session is the removal of one session, or of none. *)
LEMMA RemoveSessionStep ==
  ASSUME TypeOK, ControllerInv, NEW s \in Session, remove_session(s)
  PROVE  /\ ControllerInv'
         /\ \A r \in Session : /\ sessions'[r].owner = sessions[r].owner
                               /\ Stored(r)' <=> Stored(r) /\ r # s
                               /\ sessions'[r].state = "none" <=> sessions[r].state = "none"
<1>1. CASE Stored(s)
  <2>1. sessions' = [r \in Session |-> IF r \in {s} THEN [sessions[r] EXCEPT !.state = "removed"]
                                       ELSE sessions[r]]
    BY <1>1 DEF remove_session, ControllerInv
  <2>2. \A t \in Task : t = <<s, sessions[s].task>> <=> t[1] \in {s} /\ t[2] = sessions[t[1]].task
    BY DEF Task
  <2>3. tasks' = [t \in Task |-> IF t[1] \in {s} /\ t[2] = sessions[t[1]].task
                                 THEN Abort(tasks[t]) ELSE tasks[t]]
    BY <1>1, <2>2 DEF remove_session
  <2>4. {s} \in SUBSET {r \in Session : Stored(r)}
    BY <1>1
  <2> QED
    BY <2>1, <2>3, <2>4, RemoveStep
<1>2. CASE ~Stored(s)
  <2>1. sessions' = sessions /\ tasks' = tasks
    BY <1>2 DEF remove_session, Controller
  <2> QED
    BY <1>2, <2>1 DEF ControllerInv, Reachable, Running, Current, Stored, AbortedSendsOnce
<1> QED
  BY <1>1, <1>2

(* start_streaming: the task that is replaced is aborted. *)
LEMMA StartStep ==
  ASSUME TypeOK, ControllerInv, NEW s \in Session, Stored(s), sessions[s].task < MaxTasks, start_streaming(s)
  PROVE  /\ ControllerInv'
         /\ \A r \in Session : /\ sessions'[r].owner = sessions[r].owner
                               /\ sessions'[r].state = sessions[r].state
<1> DEFINE g == sessions[s].task
           n == g + 1
           new == [NoTask EXCEPT !.pc = "spawned"]
<1>0. g \in 0..MaxTasks /\ n \in 1..MaxTasks /\ n \in 0..MaxTasks /\ n > g
  BY SessionType, TransportAssumption
<1>1. sessions' = [sessions EXCEPT ![s].task = n]
  BY DEF start_streaming
<1>2. tasks' = [t \in Task |-> CASE t = <<s, n>> -> new
                                 [] t = <<s, g>> -> Abort(tasks[t])
                                 [] OTHER -> tasks[t]]
  BY DEF start_streaming
<1>3. new \in TaskRecord /\ new.pc = "spawned" /\ ~new.aborted /\ new.late = 0
  BY DEF NoTask, TaskRecord, TaskPc
<1> HIDE DEF n, new, g
<1>4. \A r \in Session :
        /\ sessions'[r] \in SessionRecord /\ sessions'[r].owner = sessions[r].owner
        /\ sessions'[r].state = sessions[r].state
        /\ sessions'[r].task = IF r = s THEN n ELSE sessions[r].task
  BY <1>0, <1>1, SessionType DEF SessionRecord, ControllerInv
<1>5. sessions' \in [Session -> SessionRecord]
  BY <1>1, <1>4 DEF ControllerInv
<1>6. <<s, n>> \in Task /\ <<s, n>> # <<s, g>>
  BY <1>0 DEF Task
<1>7. \A t \in Task : /\ t[1] \in Session /\ t[2] \in 1..MaxTasks /\ tasks[t] \in TaskRecord
                      /\ t = <<t[1], t[2]>> /\ tasks[t].pc \in TaskPc
                      /\ sessions[t[1]].task \in 0..MaxTasks
  BY SessionType DEF Task, ControllerInv, TaskRecord
<1>8. tasks'[<<s, n>>] = new
  BY <1>2, <1>6
<1>9. \A t \in Task : t # <<s, n>> =>
        /\ tasks'[t] \in TaskRecord /\ tasks'[t].late = tasks[t].late
        /\ tasks[t].aborted => tasks'[t].aborted
        /\ tasks'[t].pc \in {tasks[t].pc, "ended"}
        /\ tasks[t].pc \notin {"spawned", "delay"} => tasks'[t].pc = tasks[t].pc
        /\ t = <<s, g>> => tasks'[t].aborted
        /\ t # <<s, g>> => tasks'[t] = tasks[t]
  BY <1>2, <1>7, AbortTask
<1>10. tasks' \in [Task -> TaskRecord]
  BY <1>2, <1>3, <1>8, <1>9
<1>11. AbortedSendsOnce'
  BY <1>3, <1>8, <1>9 DEF ControllerInv, AbortedSendsOnce
<1>12. Reachable'
  <2>1. \A r \in Session : sessions'[r].state = "none" => sessions'[r].task = 0
    BY <1>4 DEF ControllerInv, Reachable, Stored
  <2>2. ASSUME NEW t \in Task, t[2] > sessions'[t[1]].task PROVE tasks'[t].pc = "none"
    <3>1. t[1] = s => t[2] > n
      BY <1>4, <1>7, <2>2
    <3>2. t # <<s, n>> /\ t # <<s, g>>
      BY <1>0, <1>7, <3>1
    <3>3. t[2] > sessions[t[1]].task
      <4>1. CASE t[1] = s
        BY <1>0, <1>7, <3>1, <4>1 DEF g
      <4>2. CASE t[1] # s
        BY <1>4, <1>7, <2>2, <4>2
      <4> QED
        BY <4>1, <4>2
    <3> QED
      BY <1>9, <3>2, <3>3 DEF ControllerInv, Reachable
  <2>3. ASSUME NEW t \in Task, tasks'[t].pc \notin {"none", "ended"}
        PROVE  tasks'[t].aborted \/ (Stored(t[1])' /\ sessions'[t[1]].task = t[2])
    <3>1. CASE t = <<s, n>>
      BY <1>4, <1>7, <3>1 DEF Stored
    <3>2. CASE t = <<s, g>> /\ t # <<s, n>>
      BY <1>9, <3>2
    <3>3. CASE t # <<s, n>> /\ t # <<s, g>>
      <4>1. Running(t) /\ tasks'[t] = tasks[t]
        BY <1>9, <2>3, <3>3 DEF Running
      <4>2. tasks[t].aborted \/ Current(t)
        BY <4>1 DEF ControllerInv, Reachable
      <4>3. Current(t) => t[1] # s
        BY <1>7, <3>3 DEF Current, g
      <4>4. Current(t) => Stored(t[1])' /\ sessions'[t[1]].task = t[2]
        BY <1>4, <1>7, <4>3 DEF Current, Stored
      <4> QED
        BY <4>1, <4>2, <4>4
    <3> QED
      BY <3>1, <3>2, <3>3
  <2> QED
    BY <2>1, <2>2, <2>3 DEF Reachable, Running, Current
<1> QED
  BY <1>4, <1>5, <1>10, <1>11, <1>12 DEF ControllerInv

(* create_session of an identifier nobody used has no task to forget. *)
LEMMA CreateStep ==
  ASSUME TypeOK, ControllerInv, NEW s \in Session, sessions[s].state = "none",
         NEW owner \in SUBSET Conn, create_session(s, owner), tasks' = tasks
  PROVE  /\ ControllerInv'
         /\ Stored(s)' /\ sessions'[s].owner = owner
         /\ \A r \in Session : r # s => sessions'[r] = sessions[r]
<1> DEFINE new == [NoSession EXCEPT !.state = "stored", !.owner = owner]
<1>1. sessions' = [sessions EXCEPT ![s] = new]
  BY DEF create_session
<1>0. 0 \in 0..MaxTasks
  BY TransportAssumption
<1>2. new \in SessionRecord /\ new.state = "stored" /\ new.owner = owner /\ new.task = 0
  BY <1>0 DEF NoSession, SessionRecord
<1> HIDE DEF new
<1>3. /\ sessions' \in [Session -> SessionRecord] /\ sessions'[s] = new
      /\ \A r \in Session : r # s => sessions'[r] = sessions[r]
  BY <1>1, <1>2 DEF ControllerInv
<1>4. sessions[s].task = 0
  BY DEF ControllerInv, Reachable
<1>5. \A t \in Task : t[1] \in Session /\ sessions'[t[1]].task = sessions[t[1]].task
  BY <1>2, <1>3, <1>4 DEF Task
<1>6. \A t \in Task : Current(t) => Current(t)'
  BY <1>3, <1>5 DEF Current, Stored
<1>7. Reachable'
  BY <1>2, <1>3, <1>5, <1>6 DEF ControllerInv, Reachable, Running
<1>8. AbortedSendsOnce'
  BY DEF ControllerInv, AbortedSendsOnce
<1> QED
  BY <1>2, <1>3, <1>7, <1>8 DEF ControllerInv, Stored

-----------------------------------------------------------------------------
(* Steps of a connection, of the application and of the sweep that change  *)
(* the controller.                                                         *)

(* The parts of the invariant that the lemmas on single steps use. *)
LEMMA InvParts ==
  ASSUME Inv
  PROVE  TypeOK /\ SlotInv /\ SessionInv /\ ControllerInv
  BY DEF Inv, SessionInv, ControllerInv, TypeOK

(***************************************************************************)
(* A connection's handler creates its session: the connection owns it and  *)
(* has it in sid.                                                          *)
(***************************************************************************)
LEMMA CreateSessionInv ==
  ASSUME Inv, NEW c \in Conn, CreateSession(c)
  PROVE  Inv'
<1> DEFINE old == conn[c]
           k == [old EXCEPT !.pc = "tracking"]
<1>1. /\ TypeOK /\ SlotInv /\ SessionInv /\ ControllerInv /\ Remembers(c)
      /\ old \in ConnRecord /\ old.pc = "creating"
      /\ conn' = [conn EXCEPT ![c] = k] /\ tasks' = tasks
      /\ create_session(old.sid[1], {c})
      /\ UNCHANGED <<slots, active_connections, outgoing_channels, connection_sessions, seen>>
  BY ConnType, InvParts DEF SessionInv, CreateSession, Goto, Registry, History
<1>2. "tracking" \in Pc
  BY DEF InHandler, InLoop, Routed, Listed, Guarded, Pc
<1>3. /\ k \in ConnRecord /\ k.pc = "tracking" /\ k.sid = old.sid /\ k.todo = old.todo
      /\ k.clones = old.clones
  BY <1>1, <1>2 DEF ConnRecord
<1> HIDE DEF k, old
<1>4. /\ conn' \in [Conn -> ConnRecord] /\ conn'[c] = k
      /\ \A d \in Conn : d # c => conn'[d] = conn[d]
  BY <1>1, <1>3, ConnMoves
<1>5. /\ k.pc \in Guarded /\ old.pc \in Guarded /\ k.pc \in Listed /\ old.pc \in Listed
      /\ k.pc \in Routed /\ k.pc \in InHandler /\ old.pc \in InHandler /\ k.pc \in Tracked
  BY <1>1, <1>3 DEF InHandler, InLoop, Routed, Listed, Guarded, Tracked
<1>6. PICK s \in Session : old.sid = <<s>>
  BY <1>1, <1>5 DEF Remembers, old
<1>7. /\ sessions[s].state = "none" /\ old.sid[1] = s
      /\ \A d \in Conn : conn[d].pc = "creating" /\ conn[d].sid = <<s>> => d = c
  BY <1>1, <1>6 DEF SessionInv, CreatesFresh, old
<1>8. /\ ControllerInv' /\ Stored(s)' /\ sessions'[s].owner = {c}
      /\ \A r \in Session : r # s => sessions'[r] = sessions[r]
  BY <1>1, <1>7, CreateStep
<1>9. TypeOK'
  BY <1>1, <1>4, <1>8 DEF TypeOK, ControllerInv
<1>10. SlotInv'
  BY <1>1, <1>3, <1>5, QuietSlots DEF old
<1>11. \A d \in Conn : Remembers(d)'
  <2>1. Remembers(c)'
    BY <1>1, <1>3, <1>4, <1>5 DEF Remembers, old
  <2>2. \A d \in Conn : d # c => Remembers(d)'
    BY <1>1, <1>4 DEF SessionInv, Remembers
  <2> QED
    BY <2>1, <2>2
<1>12. CreatesFresh'
  <2> SUFFICES ASSUME NEW d \in Conn, conn'[d].pc = "creating"
               PROVE  /\ sessions'[conn'[d].sid[1]].state = "none"
                      /\ \A e \in Conn : conn'[e].pc = "creating" /\ conn'[e].sid = conn'[d].sid => e = d
    BY DEF CreatesFresh
  <2>1. d # c /\ conn'[d] = conn[d]
    BY <1>3, <1>4
  <2>2. PICK r \in Session : conn[d].sid = <<r>>
    BY <1>1, <2>1 DEF SessionInv, Remembers, InHandler
  <2>3. r # s
    BY <1>7, <2>1, <2>2
  <2>4. conn[d].sid[1] = r
    BY <2>2
  <2>5. sessions'[r] = sessions[r] /\ sessions[r].state = "none"
    BY <1>1, <1>8, <2>1, <2>3, <2>4 DEF SessionInv, CreatesFresh
  <2>6. \A e \in Conn : conn'[e].pc = "creating" => e # c /\ conn'[e] = conn[e]
    BY <1>3, <1>4
  <2> QED
    BY <1>1, <2>1, <2>4, <2>5, <2>6 DEF SessionInv, CreatesFresh
<1>13. \A d \in Conn, r \in Session : Holds(d, r) => Holds(d, r)'
  BY <1>1, <1>3, <1>4 DEF Holds, old
<1>14. Holds(c, s)'
  BY <1>3, <1>4, <1>6, OneSetOf DEF Holds
<1>15. Owned'
  <2> SUFFICES ASSUME NEW r \in Session, Stored(r)', NEW d \in sessions'[r].owner
               PROVE  Holds(d, r)'
    BY DEF Owned
  <2>1. CASE r = s
    BY <1>8, <1>14, <2>1
  <2>2. CASE r # s
    <3>1. sessions'[r] = sessions[r] /\ Stored(r) /\ d \in Conn
      BY <1>1, <1>8, <2>2, SessionType DEF Stored
    <3> QED
      BY <1>1, <1>13, <3>1 DEF SessionInv, Owned
  <2> QED
    BY <2>1, <2>2
<1> QED
  BY <1>8, <1>9, <1>10, <1>11, <1>12, <1>15 DEF Inv, SessionInv, ControllerInv

(***************************************************************************)
(* A step that stores no session anew: who holds a stored session goes on  *)
(* holding it, and no fresh identifier is used up.                         *)
(***************************************************************************)
LEMMA KeepSessions ==
  ASSUME TypeOK, SessionInv, ControllerInv', conn' \in [Conn -> ConnRecord],
         \A d \in Conn : Remembers(d)',
         \A d \in Conn : conn'[d].pc = "creating" => conn[d].pc = "creating" /\ conn'[d].sid = conn[d].sid,
         \A r \in Session : Stored(r)' => Stored(r) /\ sessions'[r].owner = sessions[r].owner,
         \A r \in Session : sessions[r].state = "none" => sessions'[r].state = "none",
         \A d \in Conn, r \in Session : Stored(r)' /\ Holds(d, r) => Holds(d, r)'
  PROVE  SessionInv'
<1>1. CreatesFresh'
  <2> SUFFICES ASSUME NEW d \in Conn, conn'[d].pc = "creating"
               PROVE  /\ sessions'[conn'[d].sid[1]].state = "none"
                      /\ \A e \in Conn : conn'[e].pc = "creating" /\ conn'[e].sid = conn'[d].sid => e = d
    BY DEF CreatesFresh
  <2>1. PICK r \in Session : conn[d].sid = <<r>>
    BY DEF SessionInv, Remembers, InHandler
  <2>2. conn[d].sid[1] = r
    BY <2>1
  <2> QED
    BY <2>2 DEF SessionInv, CreatesFresh
<1>2. Owned'
  <2> SUFFICES ASSUME NEW r \in Session, Stored(r)', NEW d \in sessions'[r].owner
               PROVE  Holds(d, r)'
    BY DEF Owned
  <2>1. Stored(r) /\ d \in sessions[r].owner /\ d \in Conn
    BY SessionType
  <2>2. Holds(d, r)
    BY <2>1 DEF SessionInv, Owned
  <2> QED
    BY <2>1, <2>2
<1> QED
  BY <1>1, <1>2 DEF SessionInv, ControllerInv

(* StreamInit ends: the session streams, or is gone already. *)
LEMMA StartStreamingInv ==
  ASSUME Inv, NEW c \in Conn, StartStreaming(c)
  PROVE  Inv'
<1> DEFINE old == conn[c]
           k == [old EXCEPT !.pc = "open", !.sid = <<>>]
<1>1. /\ TypeOK /\ SlotInv /\ SessionInv /\ ControllerInv /\ Remembers(c)
      /\ old \in ConnRecord /\ old.pc = "starting" /\ <<>> \in Seq(Session)
      /\ conn' = [conn EXCEPT ![c] = k]
      /\ UNCHANGED <<slots, active_connections, outgoing_channels, connection_sessions, seen>>
  BY ConnType, InvParts DEF SessionInv, StartStreaming, Registry, History
<1>2. "open" \in Pc
  BY DEF InHandler, InLoop, Routed, Listed, Guarded, Pc
<1>3. /\ k \in ConnRecord /\ k.pc = "open" /\ k.sid = <<>> /\ k.todo = old.todo
      /\ k.clones = old.clones
  BY <1>1, <1>2 DEF ConnRecord
<1> HIDE DEF k, old
<1>4. /\ conn' \in [Conn -> ConnRecord] /\ conn'[c] = k
      /\ \A d \in Conn : d # c => conn'[d] = conn[d]
  BY <1>1, <1>3, ConnMoves
<1>5. /\ k.pc \in Guarded /\ old.pc \in Guarded /\ k.pc \in Listed /\ old.pc \in Listed
      /\ k.pc \in Routed /\ k.pc \notin InHandler /\ old.pc \in InHandler /\ k.pc \in Tracked
  BY <1>1, <1>3 DEF InHandler, InLoop, Routed, Listed, Guarded, Tracked
<1>6. PICK s \in Session : old.sid = <<s>>
  BY <1>1, <1>5 DEF Remembers, old
<1>7. old.sid[1] = s /\ s \in ToSet(connection_sessions[c]) /\ old.todo = <<>>
  BY <1>1, <1>6 DEF Remembers, old
<1>8. /\ ControllerInv'
      /\ \A r \in Session : /\ sessions'[r].owner = sessions[r].owner
                            /\ sessions'[r].state = sessions[r].state
  <2>1. CASE Stored(s) /\ sessions[s].task < MaxTasks
    <3>1. start_streaming(s)
      BY <1>7, <2>1 DEF StartStreaming, old
    <3> QED
      BY <1>1, <2>1, <3>1, StartStep
  <2>2. CASE ~(Stored(s) /\ sessions[s].task < MaxTasks)
    <3>1. sessions' = sessions /\ tasks' = tasks
      BY <1>7, <2>2 DEF StartStreaming, Controller, old
    <3> QED
      BY <1>1, <3>1 DEF ControllerInv, Reachable, Running, Current, Stored, AbortedSendsOnce
  <2> QED
    BY <2>1, <2>2
<1>9. TypeOK'
  BY <1>1, <1>4, <1>8 DEF TypeOK, ControllerInv
<1>10. SlotInv'
  BY <1>1, <1>3, <1>5, QuietSlots DEF old
<1>11. \A d \in Conn : Remembers(d)'
  <2>1. Remembers(c)'
    BY <1>1, <1>3, <1>4, <1>5, <1>7 DEF Remembers
  <2>2. \A d \in Conn : d # c => Remembers(d)'
    BY <1>1, <1>4 DEF SessionInv, Remembers
  <2> QED
    BY <2>1, <2>2
<1>12. \A d \in Conn, r \in Session : Holds(d, r) => Holds(d, r)'
  <2>1. \A r \in Session : Holds(c, r) => Holds(c, r)'
    BY <1>1, <1>3, <1>4, <1>6, <1>7, OneSetOf DEF Holds, old
  <2>2. \A d \in Conn : d # c => \A r \in Session : Holds(d, r) => Holds(d, r)'
    BY <1>1, <1>4 DEF Holds
  <2> QED
    BY <2>1, <2>2
<1>13. SessionInv'
  <2>1. \A d \in Conn : conn'[d].pc = "creating" => conn[d].pc = "creating" /\ conn'[d].sid = conn[d].sid
    BY <1>3, <1>4
  <2> QED
    BY <1>1, <1>4, <1>8, <1>11, <1>12, <2>1, KeepSessions DEF Stored
<1> QED
  BY <1>8, <1>9, <1>10, <1>13 DEF Inv, ControllerInv

(* Teardown removes the next session of its list. *)
LEMMA RemoveNextInv ==
  ASSUME Inv, NEW c \in Conn, RemoveNext(c)
  PROVE  Inv'
<1> DEFINE old == conn[c]
           s == Head(old.todo)
           rest == Tail(old.todo)
           k == Removing(rest)
<1>1. /\ TypeOK /\ SlotInv /\ SessionInv /\ ControllerInv /\ Remembers(c) /\ Slotted(c)
      /\ old.pc = "removing" /\ old.todo \in Seq(Session)
      /\ remove_session(s)
      /\ conn' = [conn EXCEPT ![c] = k]
      /\ UNCHANGED <<slots, active_connections, outgoing_channels, connection_sessions, seen>>
  BY ConnType, InvParts DEF SessionInv, SlotInv, RemoveNext, Registry, History
<1>2. old.todo # <<>>
  BY <1>1 DEF Remembers
<1>3. /\ s \in Session /\ rest \in Seq(Session)
      /\ \A x \in ToSet(old.todo) : x = s \/ x \in ToSet(rest)
  BY <1>1, <1>2, TailSet
<1>4. /\ k \in ConnRecord /\ k.sid = <<>> /\ k.todo = rest /\ k.clones = 0
      /\ k.pc = IF rest = <<>> THEN "closed" ELSE "removing"
  BY <1>3, RemovingRecord
<1> HIDE DEF k, s, rest, old
<1>5. /\ conn' \in [Conn -> ConnRecord] /\ conn'[c] = k
      /\ \A d \in Conn : d # c => conn'[d] = conn[d]
  BY <1>1, <1>4, ConnMoves
<1>6. /\ k.pc \notin Guarded /\ old.pc \notin Guarded /\ k.pc \notin Listed /\ old.pc \notin Listed
      /\ old.pc \notin Routed /\ k.pc \notin InHandler /\ old.pc \notin InHandler
      /\ k.pc \notin {"starting", "creating"} /\ old.pc \notin Tracked
  BY <1>1, <1>4 DEF InHandler, InLoop, Routed, Listed, Guarded, Tracked
<1>7. /\ ControllerInv'
      /\ \A r \in Session : /\ sessions'[r].owner = sessions[r].owner
                            /\ Stored(r)' <=> Stored(r) /\ r # s
                            /\ sessions'[r].state = "none" <=> sessions[r].state = "none"
  BY <1>1, <1>3, RemoveSessionStep
<1>8. TypeOK'
  BY <1>1, <1>5, <1>7 DEF TypeOK, ControllerInv
<1>9. ~(k.clones > 0) /\ ~(old.clones > 0)
  BY <1>1, <1>4, <1>6 DEF Slotted, old
<1>10. SlotInv'
  BY <1>1, <1>4, <1>6, <1>9, QuietSlots DEF old
<1>11. old.sid = <<>> /\ connection_sessions[c] = <<>>
  BY <1>1, <1>6 DEF Remembers, old
<1>12. \A d \in Conn : Remembers(d)'
  <2>1. Remembers(c)'
    BY <1>1, <1>4, <1>5, <1>6, <1>11 DEF Remembers
  <2>2. \A d \in Conn : d # c => Remembers(d)'
    BY <1>1, <1>5 DEF SessionInv, Remembers
  <2> QED
    BY <2>1, <2>2
<1>13. \A d \in Conn, r \in Session : Stored(r)' /\ Holds(d, r) => Holds(d, r)'
  <2>1. \A r \in Session : Stored(r)' /\ Holds(c, r) => Holds(c, r)'
    BY <1>3, <1>4, <1>5, <1>7, <1>11, EmptySetOf DEF Holds, old
  <2>2. \A d \in Conn : d # c => \A r \in Session : Holds(d, r) => Holds(d, r)'
    BY <1>1, <1>5 DEF Holds
  <2> QED
    BY <2>1, <2>2
<1>14. SessionInv'
  <2>1. \A d \in Conn : conn'[d].pc = "creating" => conn[d].pc = "creating" /\ conn'[d].sid = conn[d].sid
    BY <1>5, <1>6
  <2> QED
    BY <1>1, <1>5, <1>7, <1>12, <1>13, <2>1, KeepSessions
<1> QED
  BY <1>7, <1>8, <1>10, <1>14 DEF Inv, ControllerInv

(* Steps that change neither a connection nor what is registered for it. *)
LEMMA HostStep ==
  ASSUME Inv, ControllerInv',
         UNCHANGED <<conn, slots, active_connections, outgoing_channels, connection_sessions, seen>>,
         \A r \in Session : Stored(r)' => \/ sessions'[r].owner = {}
                                          \/ Stored(r) /\ sessions'[r].owner = sessions[r].owner,
         \A r \in Session : sessions[r].state = "none" =>
            \/ sessions'[r].state = "none"
            \/ \A d \in Conn : conn[d].sid # <<r>>
  PROVE  Inv'
<1>1. TypeOK'
  BY InvParts DEF TypeOK, ControllerInv
<1>2. SlotInv'
  BY InvParts DEF SlotInv, Slotted, Holders
<1>3. \A d \in Conn : Remembers(d)'
  BY InvParts DEF SessionInv, Remembers
<1>4. \A d \in Conn, r \in Session : Holds(d, r)' <=> Holds(d, r)
  BY DEF Holds
<1>5. CreatesFresh'
  <2> SUFFICES ASSUME NEW d \in Conn, conn[d].pc = "creating"
               PROVE  /\ sessions'[conn[d].sid[1]].state = "none"
                      /\ \A e \in Conn : conn[e].pc = "creating" /\ conn[e].sid = conn[d].sid => e = d
    BY DEF CreatesFresh
  <2>1. PICK r \in Session : conn[d].sid = <<r>>
    BY InvParts DEF SessionInv, Remembers, InHandler
  <2>2. conn[d].sid[1] = r
    BY <2>1
  <2> QED
    BY <2>1, <2>2, InvParts DEF SessionInv, CreatesFresh
<1>6. Owned'
  <2> SUFFICES ASSUME NEW r \in Session, Stored(r)', NEW d \in sessions'[r].owner
               PROVE  Holds(d, r)'
    BY DEF Owned
  <2>1. Stored(r) /\ d \in sessions[r].owner /\ d \in Conn
    BY SessionType, InvParts
  <2> QED
    BY <1>4, <2>1, InvParts DEF SessionInv, Owned
<1> QED
  BY <1>1, <1>2, <1>3, <1>5, <1>6 DEF Inv, SessionInv, ControllerInv

(* start_stream of the application. *)
LEMMA StartStreamInv ==
  ASSUME Inv, NEW s \in Session, StartStream(s)
  PROVE  Inv'
<1>1. /\ TypeOK /\ ControllerInv
      /\ UNCHANGED <<conn, slots, active_connections, outgoing_channels, connection_sessions, seen>>
  BY InvParts DEF StartStream, Registry
<1>2. CASE Fresh(s) /\ create_session(s, {}) /\ UNCHANGED tasks
  <2>1. /\ ControllerInv' /\ Stored(s)' /\ sessions'[s].owner = {}
        /\ \A r \in Session : r # s => sessions'[r] = sessions[r]
    BY <1>1, <1>2, CreateStep DEF Fresh
  <2> QED
    BY <1>1, <1>2, <2>1, HostStep DEF Fresh, Stored
<1>3. CASE Stored(s) /\ sessions[s].task < MaxTasks /\ start_streaming(s)
  <2>1. /\ ControllerInv'
        /\ \A r \in Session : /\ sessions'[r].owner = sessions[r].owner
                              /\ sessions'[r].state = sessions[r].state
    BY <1>1, <1>3, StartStep
  <2> QED
    BY <1>1, <2>1, HostStep DEF Stored
<1> QED
  BY <1>2, <1>3 DEF StartStream

(* close_stream of the application. *)
LEMMA CloseStreamInv ==
  ASSUME Inv, NEW s \in Session, CloseStream(s)
  PROVE  Inv'
<1>1. /\ TypeOK /\ ControllerInv /\ remove_session(s)
      /\ UNCHANGED <<conn, slots, active_connections, outgoing_channels, connection_sessions, seen>>
  BY InvParts DEF CloseStream, Registry
<1>2. /\ ControllerInv'
      /\ \A r \in Session : /\ sessions'[r].owner = sessions[r].owner
                            /\ Stored(r)' <=> Stored(r) /\ r # s
                            /\ sessions'[r].state = "none" <=> sessions[r].state = "none"
  BY <1>1, RemoveSessionStep
<1> QED
  BY <1>1, <1>2, HostStep

(* cleanup_expired_sessions. *)
LEMMA SweepInv ==
  ASSUME Inv, Sweep
  PROVE  Inv'
<1>1. /\ TypeOK /\ ControllerInv
      /\ UNCHANGED <<conn, slots, active_connections, outgoing_channels, connection_sessions, seen>>
  BY InvParts DEF Sweep, Registry, History
<1>2. PICK old \in SUBSET {s \in Session : Stored(s)} :
        /\ sessions' = [s \in Session |-> IF s \in old THEN [sessions[s] EXCEPT !.state = "removed"]
                                          ELSE sessions[s]]
        /\ tasks' = [t \in Task |-> IF t[1] \in old /\ t[2] = sessions[t[1]].task
                                    THEN Abort(tasks[t]) ELSE tasks[t]]
  BY DEF Sweep
<1>3. /\ ControllerInv'
      /\ \A r \in Session : /\ sessions'[r].owner = sessions[r].owner
                            /\ Stored(r)' <=> Stored(r) /\ r \notin old
                            /\ sessions'[r].state = "none" <=> sessions[r].state = "none"
  BY <1>1, <1>2, RemoveStep
<1> QED
  BY <1>1, <1>3, HostStep

-----------------------------------------------------------------------------
(* stream_frames. *)

(* A broadcast touches only what receivers have not read yet. *)
LEMMA BroadcastStep ==
  ASSUME TypeOK, NEW msg \in Message, Broadcast(msg)
  PROVE  /\ conn' \in [Conn -> ConnRecord]
         /\ seen' \in [Conn -> [Task -> {"none", "frame", "complete", "missed"}]]
         /\ \A c \in Conn : /\ conn'[c].pc = conn[c].pc /\ conn'[c].clones = conn[c].clones
                            /\ conn'[c].sid = conn[c].sid /\ conn'[c].todo = conn[c].todo
<1> DEFINE full(c) == Len(conn[c].rx) = broadcast_capacity
<1>1. ASSUME NEW c \in Conn
      PROVE  /\ conn'[c] \in ConnRecord
             /\ conn'[c].pc = conn[c].pc /\ conn'[c].clones = conn[c].clones
             /\ conn'[c].sid = conn[c].sid /\ conn'[c].todo = conn[c].todo
             /\ seen'[c] \in [Task -> {"none", "frame", "complete", "missed"}]
  <2>1. /\ conn[c] \in ConnRecord /\ conn[c].rx \in Seq(Message) /\ conn[c].lagged \in BOOLEAN
        /\ seen[c] \in [Task -> {"none", "frame", "complete", "missed"}]
    BY ConnType DEF TypeOK
  <2> DEFINE kept == IF full(c) THEN Tail(conn[c].rx) ELSE conn[c].rx
             rx == Append(kept, msg)
             lagged == conn[c].lagged \/ full(c)
  <2>2. broadcast_capacity > 0
    BY TransportAssumption
  <2>3. full(c) => conn[c].rx # <<>>
    BY <2>1, <2>2
  <2>4. kept \in Seq(Message)
    BY <2>1, <2>3
  <2>5. rx \in Seq(Message) /\ lagged \in BOOLEAN
    BY <2>4
  <2>6. conn'[c] = IF c \notin Receivers THEN conn[c] ELSE [conn[c] EXCEPT !.rx = rx, !.lagged = lagged]
    BY DEF Broadcast
  <2> HIDE DEF rx, lagged
  <2>7. /\ conn'[c] \in ConnRecord
        /\ conn'[c].pc = conn[c].pc /\ conn'[c].clones = conn[c].clones
        /\ conn'[c].sid = conn[c].sid /\ conn'[c].todo = conn[c].todo
    <3>1. CASE c \notin Receivers
      BY <2>1, <2>6, <3>1
    <3>2. CASE c \in Receivers
      <4> DEFINE k == [conn[c] EXCEPT !.rx = rx, !.lagged = lagged]
      <4>1. /\ k \in ConnRecord /\ k.pc = conn[c].pc /\ k.clones = conn[c].clones
            /\ k.sid = conn[c].sid /\ k.todo = conn[c].todo
        BY <2>1, <2>5 DEF ConnRecord
      <4>2. conn'[c] = k
        BY <2>6, <3>2
      <4> HIDE DEF k
      <4> QED
        BY <4>1, <4>2
    <3> QED
      BY <3>1, <3>2
  <2>8. seen'[c] \in [Task -> {"none", "frame", "complete", "missed"}]
    <3>1. seen'[c] = seen[c] \/ seen'[c] = [seen[c] EXCEPT ![Head(conn[c].rx).task] = "missed"]
      BY DEF Broadcast
    <3> QED
      BY <2>1, <3>1
  <2> QED
    BY <2>7, <2>8
<1>2. /\ conn' = [c \in Conn |-> conn'[c]] /\ seen' = [c \in Conn |-> seen'[c]]
  BY DEF Broadcast
<1> QED
  BY <1>1, <1>2

(***************************************************************************)
(* A task moves on: it goes on being current, or aborted, and counts what  *)
(* it sends after the abort.                                               *)
(***************************************************************************)
LEMMA TaskStep ==
  ASSUME Inv, NEW t \in Task, NEW new \in TaskRecord, tasks' = [tasks EXCEPT ![t] = new],
         Running(t), new.pc # "none", new.aborted = tasks[t].aborted,
         \/ new.late = 0
         \/ new.late = 1 /\ new.aborted /\ new.pc \in {"sent", "ended"},
         UNCHANGED <<sessions, slots, active_connections, outgoing_channels, connection_sessions>>,
         conn' \in [Conn -> ConnRecord],
         seen' \in [Conn -> [Task -> {"none", "frame", "complete", "missed"}]],
         \A c \in Conn : /\ conn'[c].pc = conn[c].pc /\ conn'[c].clones = conn[c].clones
                         /\ conn'[c].sid = conn[c].sid /\ conn'[c].todo = conn[c].todo
  PROVE  Inv'
<1>1. TypeOK /\ SlotInv /\ SessionInv /\ ControllerInv
  BY InvParts
<1>2. /\ tasks' \in [Task -> TaskRecord] /\ tasks'[t] = new
      /\ \A u \in Task : u # t => tasks'[u] = tasks[u]
  BY DEF Inv, TypeOK
<1>3. TypeOK'
  BY <1>1, <1>2 DEF TypeOK
<1>4. SlotInv'
  <2>1. Holders' = Holders
    BY DEF Holders
  <2> QED
    BY <1>1, <2>1 DEF SlotInv, Slotted
<1>5. AbortedSendsOnce'
  BY <1>2 DEF Inv, AbortedSendsOnce
<1>6. Reachable'
  <2>1. \A u \in Task : Current(u)' <=> Current(u)
    BY DEF Current, Stored
  <2>2. tasks[t].aborted \/ Current(t)
    BY <1>1 DEF SessionInv, Reachable
  <2>3. ~(t[2] > sessions[t[1]].task)
    BY <1>1 DEF SessionInv, Reachable, Running
  <2> QED
    BY <1>1, <1>2, <2>1, <2>2, <2>3 DEF SessionInv, Reachable, Running
<1>7. \A c \in Conn : Remembers(c)'
  BY <1>1 DEF SessionInv, Remembers
<1>8. \A c \in Conn, r \in Session : Holds(c, r) => Holds(c, r)'
  BY DEF Holds
<1>9. ControllerInv'
  BY <1>1, <1>2, <1>5, <1>6 DEF ControllerInv
<1>10. SessionInv'
  BY <1>1, <1>3, <1>7, <1>8, <1>9, KeepSessions DEF Stored, TypeOK
<1> QED
  BY <1>3, <1>4, <1>5, <1>10 DEF Inv

(* Every step of a streaming task. *)
LEMMA StepInv ==
  ASSUME Inv, NEW t \in Task, Step(t)
  PROVE  Inv'
<1> DEFINE old == tasks[t]
<1>1. /\ TypeOK /\ old \in TaskRecord /\ old.late \in Nat /\ old.aborted \in BOOLEAN
      /\ conn \in [Conn -> ConnRecord]
      /\ seen \in [Conn -> [Task -> {"none", "frame", "complete", "missed"}]]
      /\ \/ old.late = 0
         \/ old.late = 1 /\ old.aborted /\ old.pc \in {"sent", "ended"}
  <2>1. TypeOK /\ old \in TaskRecord
    BY DEF Inv, TypeOK
  <2> QED
    BY <2>1 DEF Inv, TypeOK, TaskRecord, AbortedSendsOnce
<1>2. UNCHANGED <<sessions, slots, active_connections, outgoing_channels, connection_sessions>>
  BY DEF Step, Poll, SendFrameMessage, Sleep, Wake, SendComplete, Registry
<1> HIDE DEF old
<1>3. ASSUME NEW pc \in TaskPc \ {"none"}, tasks' = [tasks EXCEPT ![t] = [old EXCEPT !.pc = pc]],
             UNCHANGED <<conn, seen>>, old.pc \notin {"none", "ended"},
             old.pc = "sent" => ~old.aborted \/ pc = "ended"
      PROVE  Inv'
  <2> DEFINE new == [old EXCEPT !.pc = pc]
  <2>1. new \in TaskRecord /\ new.pc = pc /\ new.aborted = old.aborted /\ new.late = old.late
    BY <1>1 DEF TaskRecord
  <2>2. tasks' = [tasks EXCEPT ![t] = new]
    BY <1>3
  <2> HIDE DEF new
  <2>3. new.late = 0 \/ (new.late = 1 /\ new.aborted /\ new.pc \in {"sent", "ended"})
    BY <1>1, <1>3, <2>1
  <2>4. Running(t)
    BY <1>3 DEF Running, old
  <2> QED
    BY <1>1, <1>2, <1>3, <2>1, <2>2, <2>3, <2>4, TaskStep DEF old
<1>4. ASSUME NEW kind \in {"frame", "complete"}, NEW pc \in {"sent", "complete", "ended"},
             Broadcast([task |-> t, kind |-> kind]), Advance(t, pc), old.pc \in {"frame", "complete"},
             pc = "complete" => Receivers = {}
      PROVE  Inv'
  <2> DEFINE more == IF old.aborted /\ Receivers # {} THEN 1 ELSE 0
             late == old.late + more
             new == [old EXCEPT !.pc = pc, !.late = late]
  <2>1. old.late = 0
    BY <1>1, <1>4
  <2>2. late = more
    BY <2>1
  <2>3. late \in Nat /\ (late = 0 \/ (late = 1 /\ old.aborted /\ pc # "complete"))
    BY <1>4, <2>2
  <2>4. tasks' = [tasks EXCEPT ![t] = new]
    BY <1>4 DEF Advance, old
  <2> HIDE DEF late, more
  <2>5. pc \in TaskPc
    BY <1>4 DEF TaskPc
  <2>6. new \in TaskRecord /\ new.pc = pc /\ new.aborted = old.aborted /\ new.late = late
    BY <1>1, <2>3, <2>5 DEF TaskRecord
  <2> HIDE DEF new
  <2>7. [task |-> t, kind |-> kind] \in Message
    BY DEF Message
  <2>8. /\ conn' \in [Conn -> ConnRecord]
        /\ seen' \in [Conn -> [Task -> {"none", "frame", "complete", "missed"}]]
        /\ \A c \in Conn : /\ conn'[c].pc = conn[c].pc /\ conn'[c].clones = conn[c].clones
                           /\ conn'[c].sid = conn[c].sid /\ conn'[c].todo = conn[c].todo
    BY <1>1, <1>4, <2>7, BroadcastStep
  <2>9. Running(t) /\ new.pc # "none"
    BY <1>4, <2>6 DEF Running, old
  <2>10. new.late = 0 \/ (new.late = 1 /\ new.aborted /\ new.pc \in {"sent", "ended"})
    BY <1>4, <2>3, <2>6
  <2> QED
    BY <1>2, <2>4, <2>6, <2>8, <2>9, <2>10, TaskStep DEF old
<1>5. CASE Poll(t)
  <2>1. old.pc = "spawned" /\ tasks' = [tasks EXCEPT ![t] = [old EXCEPT !.pc = "frame"]] /\ UNCHANGED <<conn, seen>>
    BY <1>5 DEF Poll, History, old
  <2>2. "frame" \in TaskPc \ {"none"}
    BY DEF TaskPc
  <2> QED
    BY <1>3, <2>1, <2>2
<1>6. CASE SendFrameMessage(t)
  <2>1. /\ old.pc = "frame" /\ Broadcast([task |-> t, kind |-> "frame"])
        /\ Advance(t, IF Receivers = {} THEN "complete" ELSE "sent")
    BY <1>6 DEF SendFrameMessage, old
  <2>2. CASE Receivers = {}
    BY <1>4, <2>1, <2>2
  <2>3. CASE Receivers # {}
    BY <1>4, <2>1, <2>3
  <2> QED
    BY <2>2, <2>3
<1>7. CASE Sleep(t)
  <2> DEFINE pc == IF old.aborted THEN "ended" ELSE "delay"
  <2>1. old.pc = "sent" /\ tasks' = [tasks EXCEPT ![t] = [old EXCEPT !.pc = pc]] /\ UNCHANGED <<conn, seen>>
    BY <1>7 DEF Sleep, History, old
  <2>2. pc \in TaskPc \ {"none"} /\ (~old.aborted \/ pc = "ended")
    BY DEF TaskPc
  <2> HIDE DEF pc
  <2> QED
    BY <1>3, <2>1, <2>2
<1>8. CASE Wake(t)
  <2>1. old.pc = "delay" /\ tasks' = [tasks EXCEPT ![t] = [old EXCEPT !.pc = "complete"]] /\ UNCHANGED <<conn, seen>>
    BY <1>8 DEF Wake, History, old
  <2>2. "complete" \in TaskPc \ {"none"}
    BY DEF TaskPc
  <2> QED
    BY <1>3, <2>1, <2>2
<1>9. CASE SendComplete(t)
  <2>1. /\ old.pc = "complete" /\ Broadcast([task |-> t, kind |-> "complete"]) /\ Advance(t, "ended")
    BY <1>9 DEF SendComplete, old
  <2> QED
    BY <1>4, <2>1
<1> QED
  BY <1>5, <1>6, <1>7, <1>8, <1>9 DEF Step

-----------------------------------------------------------------------------
(* The theorems. *)

(* At the start nobody is connected and nothing is stored. *)
LEMMA InitInv == Init => Inv
<1> SUFFICES ASSUME Init PROVE Inv
  OBVIOUS
<1>0. 0 \in 0..2 /\ 0 \in 0..MaxTasks /\ 0 \in Nat /\ ~(0 > 0) /\ 0 <= max_connections
  BY TransportAssumption
<1>1. /\ \A c \in Conn : /\ conn[c] = NoConn /\ outgoing_channels[c] = NoChannel
                         /\ connection_sessions[c] = <<>>
      /\ \A s \in Session : sessions[s] = NoSession
      /\ \A t \in Task : tasks[t] = NoTask
      /\ active_connections = {} /\ slots = 0
  BY DEF Init
<1>2. NoSession \in SessionRecord /\ NoSession.state = "none" /\ NoSession.task = 0
  BY <1>0 DEF NoSession, SessionRecord
<1>3. NoTask \in TaskRecord /\ NoTask.pc = "none" /\ NoTask.late = 0
  BY <1>0 DEF NoTask, TaskRecord, TaskPc
<1>4. <<>> \in Seq(Session)
  OBVIOUS
<1>5. TypeOK
  BY <1>0, <1>2, <1>3, <1>4, NoRecords DEF Init, TypeOK
<1>6. "none" \notin Guarded /\ "none" \notin Listed /\ "none" \notin Routed /\ "none" \notin InHandler
  BY DEF InHandler, InLoop, Routed, Listed, Guarded
<1>7. Holders = {}
  BY <1>0, <1>1, NoRecords DEF Holders
<1>8. SlotInv
  BY <1>0, <1>1, <1>6, <1>7, NoRecords, FS_EmptySet DEF SlotInv, Slotted
<1>9. \A c \in Conn : Remembers(c)
  BY <1>1, <1>6, NoRecords DEF Remembers
<1>10. CreatesFresh /\ Owned
  BY <1>1, <1>2, NoRecords DEF CreatesFresh, Owned, Stored
<1>11. \A t \in Task : t[1] \in Session
  BY DEF Task
<1>12. Reachable
  BY <1>1, <1>2, <1>3, <1>11 DEF Reachable, Running
<1>13. AbortedSendsOnce
  BY <1>1, <1>3 DEF AbortedSendsOnce
<1> QED
  BY <1>5, <1>8, <1>9, <1>10, <1>12, <1>13 DEF Inv, SessionInv

(* Every step keeps the invariant. *)
LEMMA NextInv == Inv /\ [Next]_vars => Inv'
<1> SUFFICES ASSUME Inv, [Next]_vars PROVE Inv'
  OBVIOUS
<1>1. ASSUME NEW c \in Conn, Reject(c) \/ Accept(c) \/ Setup(c) PROVE Inv'
  BY <1>1, SocketInv
<1>2. ASSUME NEW c \in Conn, Loop(c) \/ Writing(c) \/ ClientGone(c) PROVE Inv'
  BY <1>2, LoopInv
<1>3. ASSUME NEW c \in Conn, Client(c) PROVE Inv'
  BY <1>3, LoopInv, StreamInitInv DEF Client
<1>4. ASSUME NEW c \in Conn, Handling(c) PROVE Inv'
  BY <1>4, CreateSessionInv, TrackSessionInv, StartStreamingInv DEF Handling
<1>5. ASSUME NEW c \in Conn, Teardown(c) PROVE Inv'
  BY <1>5, SocketInv, TakeSessionsInv, RemoveNextInv DEF Teardown
<1>6. ASSUME NEW c \in Conn, NEW len \in Size, SendFrame(c, len) PROVE Inv'
  BY <1>6, SendFrameInv
<1>7. ASSUME NEW t \in Task, Step(t) PROVE Inv'
  BY <1>7, StepInv
<1>8. ASSUME NEW s \in Session, StartStream(s) \/ CloseStream(s) PROVE Inv'
  BY <1>8, StartStreamInv, CloseStreamInv
<1>9. CASE Sweep
  BY <1>9, SweepInv
<1>10. CASE UNCHANGED vars
  <2>1. UNCHANGED <<conn, slots, active_connections, outgoing_channels, connection_sessions, sessions, tasks, seen>>
    BY <1>10 DEF vars
  <2>2. ControllerInv'
    BY <2>1, InvParts DEF ControllerInv, Reachable, Running, Current, Stored, AbortedSendsOnce
  <2> QED
    BY <2>1, <2>2, HostStep DEF Stored
<1> QED
  BY <1>1, <1>2, <1>3, <1>4, <1>5, <1>6, <1>7, <1>8, <1>9, <1>10 DEF Next

(* The inductive invariant holds throughout. *)
THEOREM Invariance == Spec => []Inv
<1> QED
  BY InitInv, NextInv, PTL DEF Spec

(***************************************************************************)
(* The property of the runs: nothing a connection started outlives it,     *)
(* whichever of teardown, sweep, close and restart come between the steps  *)
(* of StreamInit.                                                          *)
(***************************************************************************)
THEOREM NothingOrphaned == Spec => []NoOrphans
<1>1. Inv => NoOrphans
  <2> SUFFICES ASSUME Inv PROVE NoOrphans
    OBVIOUS
  <2>0. TypeOK /\ SessionInv
    BY DEF Inv
  <2>1. ASSUME NEW s \in Session, Stored(s), NEW c \in sessions[s].owner
        PROVE  s \in ToSet(connection_sessions[c] \o conn[c].todo \o conn[c].sid)
    <3>1. c \in Conn /\ Holds(c, s)
      BY <2>0, <2>1, SessionType DEF SessionInv, Owned
    <3> DEFINE a == connection_sessions[c]
               b == conn[c].todo
               e == conn[c].sid
    <3>2. a \in Seq(Session) /\ b \in Seq(Session) /\ e \in Seq(Session)
      BY <2>0, <3>1, ConnType
    <3>3. s \in ToSet(a) \union ToSet(b) \union ToSet(e)
      BY <3>1 DEF Holds
    <3> HIDE DEF a, b, e
    <3>4. a \o b \in Seq(Session) /\ ToSet(a \o b) = ToSet(a) \union ToSet(b)
      BY <3>2, ConcatSet
    <3>5. ToSet((a \o b) \o e) = ToSet(a \o b) \union ToSet(e)
      BY <3>2, <3>4, ConcatSet
    <3> QED
      BY <3>3, <3>4, <3>5 DEF a, b, e
  <2>2. "closed" \notin Tracked
    BY DEF Tracked, Routed, InLoop, InHandler
  <2>3. \A c \in Conn : conn[c].pc = "closed" => connection_sessions[c] = <<>>
    BY <2>0, <2>2 DEF SessionInv, Remembers
  <2>4. \A t \in Task : tasks[t].pc \notin {"none", "ended"} =>
          tasks[t].aborted \/ (Stored(t[1]) /\ sessions[t[1]].task = t[2])
    BY <2>0 DEF SessionInv, Reachable, Running, Current
  <2> QED
    BY <2>1, <2>3, <2>4 DEF NoOrphans
<1> QED
  BY <1>1, Invariance, PTL

(* The rate limiter's slots, the list and the channels agree at every await. *)
THEOREM SlotsAreExact == Spec => []SlotsExact
<1>1. Inv => SlotsExact
  BY Places DEF Inv, TypeOK, SlotInv, Slotted, Holders, SlotsExact
<1> QED
  BY <1>1, Invariance, PTL

(* An aborted stream sends at most one more message. *)
THEOREM AbortTakesEffect == Spec => []AbortedSendsOnce
<1>1. Inv => AbortedSendsOnce
  BY DEF Inv
<1> QED
  BY <1>1, Invariance, PTL

-----------------------------------------------------------------------------
(* The order of delivery. *)

Frame(t) == [task |-> t, kind |-> "frame"]
Complete(t) == [task |-> t, kind |-> "complete"]

(* The message waits in the receiver's buffer; or there or in the writer.  *)
InRx(rx, msg) == \E i \in DOMAIN rx : rx[i] = msg
Pending(rx, write, msg) == write = msg \/ InRx(rx, msg)

(* The task has broadcast nothing; its frame and nothing more. *)
Unsent == {"none", "spawned", "frame"}
HalfSent == {"sent", "delay", "complete"}

(* Each message of the task is in one place: got by the client, in the     *)
(* writer or, once, in the buffer.                                         *)
OnePlace(rx, write, got, t) ==
  /\ got # "none" => ~Pending(rx, write, Frame(t))
  /\ got = "complete" => ~Pending(rx, write, Complete(t))
  /\ write = Frame(t) => ~InRx(rx, Frame(t))
  /\ write = Complete(t) => ~InRx(rx, Complete(t))
  /\ \A i, j \in DOMAIN rx : rx[i].task = t /\ rx[i] = rx[j] => i = j

(* The completion follows the frame. *)
FrameAhead(rx, write, got, t) ==
  /\ write = Complete(t) => got = "frame"
  /\ \A j \in DOMAIN rx : rx[j] = Complete(t) =>
       got = "frame" \/ write = Frame(t) \/ \E i \in DOMAIN rx : i < j /\ rx[i] = Frame(t)

(* What the connection has of the task is what the task has broadcast. *)
AsFarAs(rx, write, got, pc, t) ==
  /\ pc \in Unsent => /\ got = "none"
                      /\ ~Pending(rx, write, Frame(t)) /\ ~Pending(rx, write, Complete(t))
  /\ pc \in HalfSent => /\ got # "complete" /\ ~Pending(rx, write, Complete(t))
                        /\ got = "frame" \/ Pending(rx, write, Frame(t))

Fits(rx, write, got, pc, t) ==
  OnePlace(rx, write, got, t) /\ FrameAhead(rx, write, got, t) /\ AsFarAs(rx, write, got, pc, t)

(***************************************************************************)
(* A connection writes in one place only and receives from subscribe on,   *)
(* and unless it missed something of a task its messages fit the task.     *)
(***************************************************************************)
Holding(c) ==
  /\ conn[c].pc # "writing" => conn[c].write = <<>>
  /\ c \notin Receivers => conn[c].rx = <<>>

Follows(c, t) ==
  seen[c][t] = "missed" \/ Fits(conn[c].rx, conn[c].write, seen[c][t], tasks[t].pc, t)

DeliveryInv ==
  \A c \in Conn : Holding(c) /\ (c \in Receivers => \A t \in Task : Follows(c, t))

(* A message is not the writer's <<>>, and its two fields are all of it. *)
LEMMA Messages ==
  /\ \A t : Frame(t) # <<>> /\ Complete(t) # <<>> /\ Frame(t) # Complete(t)
  /\ \A t : Frame(t).task = t /\ Complete(t).task = t
            /\ Frame(t).kind = "frame" /\ Complete(t).kind = "complete"
  /\ \A t \in Task : Frame(t) \in Message /\ Complete(t) \in Message
  /\ \A m \in Message : m # <<>> /\ m.task \in Task /\ (m = Frame(m.task) \/ m = Complete(m.task))
<1>1. DOMAIN <<>> = {}
  OBVIOUS
<1>2. \A t : DOMAIN Frame(t) = {"task", "kind"} /\ DOMAIN Complete(t) = {"task", "kind"}
  BY DEF Frame, Complete
<1>3. \A m \in Message : DOMAIN m = {"task", "kind"}
  BY DEF Message
<1>4. \A m \in Message : m = Frame(m.task) \/ m = Complete(m.task)
  BY DEF Message, Frame, Complete
<1> QED
  BY <1>1, <1>2, <1>3, <1>4 DEF Frame, Complete, Message

(* The place of the task matters only as far as it tells what was sent. *)
LEMMA FitsPlace ==
  ASSUME NEW rx, NEW write, NEW got, NEW pc, NEW pc2, NEW t, Fits(rx, write, got, pc, t),
         pc2 \in Unsent => pc \in Unsent, pc2 \in HalfSent => pc \in HalfSent
  PROVE  Fits(rx, write, got, pc2, t)
  BY DEF Fits, AsFarAs

(* The loop takes the first message to write it. *)
LEMMA FitsTake ==
  ASSUME NEW rx \in Seq(Message), rx # <<>>, NEW got, NEW pc, NEW t, Fits(rx, <<>>, got, pc, t)
  PROVE  Fits(Tail(rx), Head(rx), got, pc, t)
<1> DEFINE h == Head(rx)
           r == Tail(rx)
<1>1. /\ Len(rx) \in Nat \ {0} /\ DOMAIN rx = 1..Len(rx) /\ DOMAIN r = 1..(Len(rx) - 1)
      /\ \A i \in DOMAIN r : r[i] = rx[i + 1]
      /\ h = rx[1] /\ 1 \in DOMAIN rx
      /\ \A i \in DOMAIN r : i + 1 \in DOMAIN rx /\ i + 1 # 1 /\ i \in Int
      /\ \A i \in DOMAIN rx : i \in Int /\ (i = 1 \/ i - 1 \in DOMAIN r)
  OBVIOUS
<1>2. \A m : InRx(rx, m) <=> h = m \/ InRx(r, m)
  <2> TAKE m
  <2>1. ASSUME InRx(rx, m) PROVE h = m \/ InRx(r, m)
    <3>1. PICK i \in DOMAIN rx : rx[i] = m
      BY <2>1 DEF InRx
    <3>2. CASE i = 1
      BY <1>1, <3>1, <3>2
    <3>3. CASE i # 1
      <4>1. i - 1 \in DOMAIN r /\ (i - 1) + 1 = i
        BY <1>1, <3>3
      <4> QED
        BY <1>1, <3>1, <4>1 DEF InRx
    <3> QED
      BY <3>2, <3>3
  <2>2. ASSUME h = m \/ InRx(r, m) PROVE InRx(rx, m)
    BY <1>1, <2>2 DEF InRx
  <2> QED
    BY <2>1, <2>2
<1>3. \A m : m # <<>> => (Pending(rx, <<>>, m) <=> Pending(r, h, m))
  BY <1>2 DEF Pending
<1>4. \A m : m.task = t /\ h = m => ~InRx(r, m)
  <2> SUFFICES ASSUME NEW m, m.task = t, h = m, NEW i \in DOMAIN r, r[i] = m PROVE FALSE
    BY DEF InRx
  <2>1. rx[1] = rx[i + 1] /\ rx[1].task = t /\ i + 1 \in DOMAIN rx /\ 1 # i + 1
    BY <1>1
  <2> QED
    BY <1>1, <2>1 DEF Fits, OnePlace
<1>5. ASSUME NEW i \in DOMAIN r, NEW j \in DOMAIN r, r[i].task = t, r[i] = r[j] PROVE i = j
  <2>1. i + 1 = j + 1
    BY <1>1, <1>5 DEF Fits, OnePlace
  <2> QED
    BY <1>1, <2>1
<1>6. OnePlace(r, h, got, t)
  <2> HIDE DEF r, h
  <2> QED
    BY <1>3, <1>4, <1>5, Messages DEF Fits, OnePlace
<1>7. FrameAhead(r, h, got, t)
  <2>1. ASSUME h = Complete(t) PROVE got = "frame"
    <3>1. ~\E i \in DOMAIN rx : i < 1 /\ rx[i] = Frame(t)
      BY <1>1
    <3> QED
      BY <1>1, <2>1, <3>1, Messages DEF Fits, FrameAhead
  <2>2. ASSUME NEW j \in DOMAIN r, r[j] = Complete(t)
        PROVE  got = "frame" \/ h = Frame(t) \/ \E i \in DOMAIN r : i < j /\ r[i] = Frame(t)
    <3>1. j + 1 \in DOMAIN rx /\ rx[j + 1] = Complete(t)
      BY <1>1, <2>2
    <3>2. got = "frame" \/ \E i \in DOMAIN rx : i < j + 1 /\ rx[i] = Frame(t)
      BY <3>1, Messages DEF Fits, FrameAhead
    <3>3. ASSUME NEW i \in DOMAIN rx, i < j + 1, rx[i] = Frame(t), i # 1
          PROVE  \E k \in DOMAIN r : k < j /\ r[k] = Frame(t)
      <4>1. i - 1 \in DOMAIN r /\ (i - 1) + 1 = i /\ i - 1 < j
        BY <1>1, <3>3
      <4> QED
        BY <1>1, <3>3, <4>1
    <3> QED
      BY <1>1, <3>2, <3>3
  <2> HIDE DEF r, h
  <2> QED
    BY <2>1, <2>2 DEF FrameAhead
<1>8. AsFarAs(r, h, got, pc, t)
  <2> HIDE DEF r, h
  <2> QED
    BY <1>3, Messages DEF Fits, AsFarAs
<1> QED
  BY <1>6, <1>7, <1>8 DEF Fits

(* The write is over: the client has the message. *)
LEMMA FitsWritten ==
  ASSUME NEW rx, NEW write \in Message, NEW got, NEW pc, NEW t, Fits(rx, write, got, pc, t)
  PROVE  IF write.task = t THEN Fits(rx, <<>>, write.kind, pc, t) ELSE Fits(rx, <<>>, got, pc, t)
<1>1. \A m : m # <<>> => (Pending(rx, <<>>, m) <=> InRx(rx, m))
  BY DEF Pending
<1>2. CASE write.task # t
  <2>1. write # Frame(t) /\ write # Complete(t)
    BY <1>2, Messages
  <2> QED
    BY <1>1, <1>2, <2>1, Messages DEF Fits, OnePlace, FrameAhead, AsFarAs, Pending
<1>3. CASE write = Frame(t)
  <2>1. Fits(rx, <<>>, "frame", pc, t)
    <3>1. OnePlace(rx, <<>>, "frame", t)
      BY <1>1, <1>3, Messages DEF Fits, OnePlace
    <3>2. FrameAhead(rx, <<>>, "frame", t)
      BY Messages DEF FrameAhead
    <3>3. AsFarAs(rx, <<>>, "frame", pc, t)
      BY <1>1, <1>3, Messages DEF Fits, AsFarAs, Pending
    <3> QED
      BY <3>1, <3>2, <3>3 DEF Fits
  <2> QED
    BY <1>3, <2>1, Messages
<1>4. CASE write = Complete(t)
  <2>1. got = "frame" /\ ~InRx(rx, Frame(t)) /\ ~InRx(rx, Complete(t))
    BY <1>4 DEF Fits, OnePlace, FrameAhead, Pending
  <2>2. Fits(rx, <<>>, "complete", pc, t)
    <3>1. OnePlace(rx, <<>>, "complete", t)
      BY <1>1, <2>1, Messages DEF Fits, OnePlace
    <3>2. FrameAhead(rx, <<>>, "complete", t)
      BY <2>1, Messages DEF FrameAhead, InRx
    <3>3. AsFarAs(rx, <<>>, "complete", pc, t)
      BY <1>4 DEF Fits, AsFarAs, Pending
    <3> QED
      BY <3>1, <3>2, <3>3 DEF Fits
  <2> QED
    BY <1>4, <2>2, Messages
<1> QED
  BY <1>2, <1>3, <1>4, Messages

(* A full buffer loses its first message, of another task. *)
LEMMA FitsDrop ==
  ASSUME NEW rx \in Seq(Message), rx # <<>>, NEW write, NEW got, NEW pc, NEW t,
         Fits(rx, write, got, pc, t), Head(rx).task # t
  PROVE  Fits(Tail(rx), write, got, pc, t)
<1> DEFINE r == Tail(rx)
<1>1. /\ Len(rx) \in Nat \ {0} /\ DOMAIN rx = 1..Len(rx) /\ DOMAIN r = 1..(Len(rx) - 1)
      /\ \A i \in DOMAIN r : r[i] = rx[i + 1]
      /\ rx[1].task # t
      /\ \A i \in DOMAIN r : i + 1 \in DOMAIN rx /\ i \in Int
      /\ \A i \in DOMAIN rx : i \in Int /\ (i = 1 \/ i - 1 \in DOMAIN r)
  OBVIOUS
<1>2. ASSUME NEW i \in DOMAIN rx, rx[i].task = t
      PROVE  i - 1 \in DOMAIN r /\ r[i - 1] = rx[i]
  <2>1. i - 1 \in DOMAIN r /\ (i - 1) + 1 = i
    BY <1>1, <1>2
  <2> QED
    BY <1>1, <2>1
<1>3. \A m : m.task = t => (InRx(rx, m) <=> InRx(r, m))
  <2> SUFFICES ASSUME NEW m, m.task = t PROVE InRx(rx, m) <=> InRx(r, m)
    OBVIOUS
  <2>1. ASSUME NEW i \in DOMAIN rx, rx[i] = m PROVE InRx(r, m)
    BY <1>2, <2>1 DEF InRx
  <2>2. ASSUME NEW i \in DOMAIN r, r[i] = m PROVE InRx(rx, m)
    BY <1>1, <2>2 DEF InRx
  <2> QED
    BY <2>1, <2>2 DEF InRx
<1>4. \A m : m.task = t => (Pending(rx, write, m) <=> Pending(r, write, m))
  BY <1>3 DEF Pending
<1>5. ASSUME NEW i \in DOMAIN r, NEW j \in DOMAIN r, r[i].task = t, r[i] = r[j] PROVE i = j
  <2>1. i + 1 = j + 1
    BY <1>1, <1>5 DEF Fits, OnePlace
  <2> QED
    BY <1>1, <2>1
<1>6. OnePlace(r, write, got, t)
  <2> HIDE DEF r
  <2> QED
    BY <1>3, <1>4, <1>5, Messages DEF Fits, OnePlace
<1>7. FrameAhead(r, write, got, t)
  <2>1. ASSUME NEW j \in DOMAIN r, r[j] = Complete(t)
        PROVE  got = "frame" \/ write = Frame(t) \/ \E i \in DOMAIN r : i < j /\ r[i] = Frame(t)
    <3>1. j + 1 \in DOMAIN rx /\ rx[j + 1] = Complete(t)
      BY <1>1, <2>1
    <3>2. got = "frame" \/ write = Frame(t) \/ \E i \in DOMAIN rx : i < j + 1 /\ rx[i] = Frame(t)
      BY <3>1 DEF Fits, FrameAhead
    <3>3. ASSUME NEW i \in DOMAIN rx, i < j + 1, rx[i] = Frame(t)
          PROVE  \E k \in DOMAIN r : k < j /\ r[k] = Frame(t)
      <4>1. i - 1 \in DOMAIN r /\ r[i - 1] = Frame(t)
        BY <1>2, <3>3, Messages
      <4>2. i - 1 < j
        BY <1>1, <3>3
      <4> QED
        BY <4>1, <4>2
    <3> QED
      BY <3>2, <3>3
  <2> HIDE DEF r
  <2> QED
    BY <2>1 DEF Fits, FrameAhead
<1>8. AsFarAs(r, write, got, pc, t)
  <2> HIDE DEF r
  <2> QED
    BY <1>4, Messages DEF Fits, AsFarAs
<1> QED
  BY <1>6, <1>7, <1>8 DEF Fits

(* A message joins the buffer: another task's, the task's frame when it    *)
(* had sent nothing, or its completion when it had sent the frame.         *)
LEMMA FitsAppend ==
  ASSUME NEW rx \in Seq(Message), NEW write \in Message \union {<<>>}, NEW got, NEW pc, NEW pc2,
         NEW t, Fits(rx, write, got, pc, t), NEW msg \in Message,
         \/ msg.task # t /\ pc2 = pc
         \/ msg = Frame(t) /\ pc = "frame" /\ pc2 \in {"sent", "complete"}
         \/ msg = Complete(t) /\ pc = "complete" /\ pc2 = "ended"
  PROVE  Fits(Append(rx, msg), write, got, pc2, t)
<1> DEFINE r == Append(rx, msg)
           n == Len(rx)
<1>1. /\ n \in Nat /\ DOMAIN rx = 1..n /\ DOMAIN r = 1..(n + 1)
      /\ \A i \in DOMAIN rx : i \in DOMAIN r /\ r[i] = rx[i] /\ i \in Int /\ i < n + 1
      /\ r[n + 1] = msg /\ n + 1 \in DOMAIN r
      /\ \A i \in DOMAIN r : i \in Int /\ (i = n + 1 \/ i \in DOMAIN rx)
  OBVIOUS
<1> HIDE DEF r, n
<1>2. \A m : InRx(r, m) <=> m = msg \/ InRx(rx, m)
  BY <1>1 DEF InRx
<1>3. \A m : Pending(r, write, m) <=> m = msg \/ Pending(rx, write, m)
  BY <1>2 DEF Pending
<1>4. msg.task = t => ~Pending(rx, write, msg)
  <2>1. CASE msg = Frame(t)
    BY <2>1, Messages DEF Fits, AsFarAs, Unsent
  <2>2. CASE msg = Complete(t)
    BY <2>2, Messages DEF Fits, AsFarAs, HalfSent
  <2> QED
    BY <2>1, <2>2
<1>5. ASSUME NEW i \in DOMAIN r, NEW j \in DOMAIN r, r[i].task = t, r[i] = r[j] PROVE i = j
  <2>1. CASE i \in DOMAIN rx /\ j \in DOMAIN rx
    BY <1>1, <1>5, <2>1 DEF Fits, OnePlace
  <2>2. CASE i = n + 1 /\ j \in DOMAIN rx
    BY <1>1, <1>4, <1>5, <2>2 DEF Pending, InRx
  <2>3. CASE i \in DOMAIN rx /\ j = n + 1
    BY <1>1, <1>4, <1>5, <2>3 DEF Pending, InRx
  <2> QED
    BY <1>1, <2>1, <2>2, <2>3
<1>6. /\ msg = Frame(t) => got = "none"
      /\ msg = Complete(t) => got # "complete"
  BY Messages DEF Fits, AsFarAs, Unsent, HalfSent
<1>7. OnePlace(r, write, got, t)
  BY <1>2, <1>3, <1>4, <1>5, <1>6, Messages DEF Fits, OnePlace, Pending
<1>8. FrameAhead(r, write, got, t)
  <2>1. ASSUME NEW j \in DOMAIN r, r[j] = Complete(t)
        PROVE  got = "frame" \/ write = Frame(t) \/ \E i \in DOMAIN r : i < j /\ r[i] = Frame(t)
    <3>1. CASE j \in DOMAIN rx
      BY <1>1, <2>1, <3>1 DEF Fits, FrameAhead
    <3>2. CASE j = n + 1
      <4>1. got = "frame" \/ Pending(rx, write, Frame(t))
        BY <1>1, <2>1, <3>2, Messages DEF Fits, AsFarAs, HalfSent
      <4> QED
        BY <1>1, <3>2, <4>1 DEF Pending, InRx
    <3> QED
      BY <1>1, <3>1, <3>2
  <2> QED
    BY <2>1 DEF Fits, FrameAhead
<1>9. AsFarAs(r, write, got, pc2, t)
  <2>1. CASE msg.task # t /\ pc2 = pc
    BY <1>3, <2>1, Messages DEF Fits, AsFarAs
  <2>2. CASE msg = Frame(t) /\ pc = "frame" /\ pc2 \in {"sent", "complete"}
    BY <1>3, <1>6, <2>2, Messages DEF Fits, AsFarAs, Unsent, HalfSent
  <2>3. CASE msg = Complete(t) /\ pc = "complete" /\ pc2 = "ended"
    BY <2>3 DEF AsFarAs, Unsent, HalfSent
  <2> QED
    BY <2>1, <2>2, <2>3
<1> QED
  BY <1>7, <1>8, <1>9 DEF Fits, r

(* The places at which a connection receives the broadcast. *)
Receiving == {"subscribed", "open", "writing", "creating", "tracking", "starting"}

(* The step of the tasks broadcasts nothing: a task starts, waits or ends. *)
Silent ==
  \A t \in Task : /\ tasks'[t].pc \in Unsent => tasks[t].pc \in Unsent
                  /\ tasks'[t].pc \in HalfSent => tasks[t].pc \in HalfSent

(* A step of one connection keeps the order when its own messages fit. *)
LEMMA DeliverStep ==
  ASSUME Inv, DeliveryInv, NEW c \in Conn, NEW k, conn' = [conn EXCEPT ![c] = k], Silent,
         \A d \in Conn : d # c => seen'[d] = seen[d],
         k.pc # "writing" => k.write = <<>>,
         k.pc \notin Receiving => k.rx = <<>>,
         k.pc \in Receiving => \A t \in Task :
           seen'[c][t] = "missed" \/ Fits(k.rx, k.write, seen'[c][t], tasks[t].pc, t)
  PROVE  DeliveryInv'
<1>1. conn'[c] = k /\ \A d \in Conn : d # c => conn'[d] = conn[d]
  BY DEF Inv, TypeOK
<1>2. \A d \in Conn : d \in Receivers <=> conn[d].pc \in Receiving
  BY DEF Receivers, Receiving
<1>3. \A d \in Conn : d \in Receivers' <=> conn'[d].pc \in Receiving
  BY DEF Receivers, Receiving
<1>4. Holding(c)' /\ (c \in Receivers' => \A t \in Task : Follows(c, t)')
  BY <1>1, <1>3, FitsPlace DEF Holding, Follows, Silent
<1>5. ASSUME NEW d \in Conn, d # c
      PROVE  Holding(d)' /\ (d \in Receivers' => \A t \in Task : Follows(d, t)')
  BY <1>1, <1>2, <1>3, <1>5, FitsPlace DEF DeliveryInv, Holding, Follows, Silent
<1> QED
  BY <1>4, <1>5 DEF DeliveryInv

(* The connection moves on and touches no message. *)
LEMMA DeliverCalm ==
  ASSUME Inv, DeliveryInv, NEW c \in Conn, NEW k, conn' = [conn EXCEPT ![c] = k], Silent,
         seen' = seen, k.rx = conn[c].rx, k.write = conn[c].write,
         conn[c].pc = k.pc \/ conn[c].pc # "writing",
         k.pc \in Receiving <=> conn[c].pc \in Receiving
  PROVE  DeliveryInv'
<1>1. c \in Receivers <=> conn[c].pc \in Receiving
  BY DEF Receivers, Receiving
<1>2. Holding(c) /\ (c \in Receivers => \A t \in Task : Follows(c, t))
  BY DEF DeliveryInv
<1> QED
  BY <1>1, <1>2, DeliverStep DEF Holding, Follows

(* No connection moves. *)
LEMMA DeliverQuiet ==
  ASSUME Inv, DeliveryInv, conn' = conn, seen' = seen, Silent
  PROVE  DeliveryInv'
  BY FitsPlace DEF DeliveryInv, Holding, Follows, Receivers, Silent

(* What starts, ends and aborts tasks broadcasts nothing. *)
LEMMA ControllerSilent ==
  ASSUME Inv
  PROVE  /\ tasks' = tasks => Silent
         /\ \A s \in Session : Stored(s) /\ sessions[s].task < MaxTasks /\ start_streaming(s) => Silent
         /\ \A s \in Session : remove_session(s) => Silent
         /\ Sweep => Silent
         /\ \A t \in Task : Poll(t) \/ Sleep(t) \/ Wake(t) => Silent
<1>0. /\ TypeOK /\ tasks \in [Task -> TaskRecord] /\ \A t \in Task : tasks[t] \in TaskRecord
      /\ \A t \in Task : t[2] > sessions[t[1]].task => tasks[t].pc = "none"
  BY DEF Inv, TypeOK, SessionInv, Reachable
<1>1. ASSUME \A t \in Task : tasks'[t] = tasks[t] \/ tasks'[t] = Abort(tasks[t])
      PROVE  Silent
  <2>1. "ended" \notin Unsent /\ "ended" \notin HalfSent
    BY DEF Unsent, HalfSent
  <2> QED
    BY <1>0, <1>1, <2>1, AbortTask DEF Silent
<1>2. ASSUME NEW s \in Session, Stored(s), sessions[s].task < MaxTasks, start_streaming(s)
      PROVE  Silent
  <2> DEFINE g == sessions[s].task
             n == g + 1
             new == [NoTask EXCEPT !.pc = "spawned"]
  <2>1. g \in 0..MaxTasks /\ n \in 1..MaxTasks /\ n > g
    BY <1>0, <1>2, SessionType, TransportAssumption
  <2>2. tasks' = [t \in Task |-> CASE t = <<s, n>> -> new
                                   [] t = <<s, g>> -> Abort(tasks[t])
                                   [] OTHER -> tasks[t]]
    BY <1>2 DEF start_streaming
  <2>3. new.pc = "spawned"
    BY DEF NoTask
  <2> HIDE DEF n, new
  <2>4. tasks[<<s, n>>].pc = "none"
    <3>1. <<s, n>> \in Task /\ <<s, n>>[1] = s /\ <<s, n>>[2] = n
      BY <2>1 DEF Task
    <3> QED
      BY <1>0, <2>1, <3>1
  <2> HIDE DEF g
  <2>5. <<s, n>> # <<s, g>>
    BY <2>1
  <2>6. \A t \in Task : t # <<s, n>> => tasks'[t] = tasks[t] \/ tasks'[t] = Abort(tasks[t])
    BY <2>2
  <2>7. \A t \in Task : t = <<s, n>> => tasks'[t] = new
    BY <2>2, <2>5
  <2> QED
    BY <1>0, <2>3, <2>4, <2>6, <2>7, AbortTask DEF Silent, Unsent, HalfSent
<1>3. ASSUME NEW s \in Session, remove_session(s) PROVE Silent
  <2>1. CASE Stored(s)
    BY <1>1, <1>3, <2>1 DEF remove_session
  <2>2. CASE ~Stored(s)
    BY <1>1, <1>3, <2>2 DEF remove_session, Controller
  <2> QED
    BY <2>1, <2>2
<1>4. ASSUME Sweep PROVE Silent
  BY <1>1, <1>4 DEF Sweep
<1>5. ASSUME NEW t \in Task, Poll(t) \/ Sleep(t) \/ Wake(t) PROVE Silent
  <2>1. PICK pc : /\ tasks' = [tasks EXCEPT ![t].pc = pc]
                  /\ \/ tasks[t].pc = "spawned" /\ pc = "frame"
                     \/ tasks[t].pc = "sent" /\ pc \in {"ended", "delay"}
                     \/ tasks[t].pc = "delay" /\ pc = "complete"
    BY <1>5 DEF Poll, Sleep, Wake
  <2>2. \A u \in Task : tasks'[u].pc = IF u = t THEN pc ELSE tasks[u].pc
    BY <1>0, <2>1 DEF TaskRecord
  <2> QED
    BY <2>1, <2>2 DEF Silent, Unsent, HalfSent
<1>6. tasks' = tasks => Silent
  BY <1>1
<1> QED
  BY <1>2, <1>3, <1>4, <1>5, <1>6

(* Set-up, StreamInit and teardown move no message. *)
LEMMA CalmDelivery ==
  ASSUME Inv, DeliveryInv, NEW c \in Conn,
         \/ Reject(c) \/ Accept(c) \/ List(c) \/ OpenChannel(c) \/ RecvLagged(c)
         \/ RecvOutgoing(c) \/ Ping(c) \/ StreamInit(c) \/ Handling(c) \/ RemoveChannel(c)
         \/ Unlist(c) \/ ClientGone(c)
  PROVE  DeliveryInv'
<1> DEFINE old == conn[c]
<1>0. TypeOK /\ old \in ConnRecord
  BY ConnType DEF Inv
<1>1. seen' = seen
  BY DEF Reject, Accept, List, OpenChannel, RecvLagged, RecvOutgoing, Ping, StreamInit, Handling,
         CreateSession, TrackSession, StartStreaming, RemoveChannel, Unlist, ClientGone, History
<1>2. Silent
  <2>1. CASE StartStreaming(c)
    <3>1. old.pc \in InHandler
      BY <2>1 DEF StartStreaming, InHandler
    <3>2. old.sid[1] \in Session
      BY <1>0, <3>1 DEF Inv, SessionInv, Remembers
    <3> QED
      BY <2>1, <3>2, ControllerSilent DEF StartStreaming, Controller
  <2>2. CASE ~StartStreaming(c)
    BY <2>2, ControllerSilent
       DEF Reject, Accept, List, OpenChannel, RecvLagged, RecvOutgoing, Ping, StreamInit, Handling,
           CreateSession, TrackSession, RemoveChannel, Unlist, ClientGone, Controller
  <2> QED
    BY <2>1, <2>2
<1> HIDE DEF old
<1>3. ASSUME NEW k, conn' = [conn EXCEPT ![c] = k], k.rx = old.rx, k.write = old.write,
             old.pc = k.pc \/ old.pc # "writing", k.pc \in Receiving <=> old.pc \in Receiving
      PROVE  DeliveryInv'
  BY <1>1, <1>2, <1>3, DeliverCalm DEF old
<1>4. ASSUME NEW pc, conn' = [conn EXCEPT ![c] = [old EXCEPT !.pc = pc]],
             old.pc # "writing", pc \in Receiving <=> old.pc \in Receiving
      PROVE  DeliveryInv'
  <2> DEFINE k == [old EXCEPT !.pc = pc]
  <2>1. k.rx = old.rx /\ k.write = old.write /\ k.pc = pc /\ conn' = [conn EXCEPT ![c] = k]
    BY <1>0, <1>4 DEF ConnRecord
  <2> HIDE DEF k
  <2> QED
    BY <1>3, <1>4, <2>1
<1>5. ASSUME NEW pc, NEW x, old.pc # "writing", pc \in Receiving <=> old.pc \in Receiving,
             \/ conn' = [conn EXCEPT ![c] = [old EXCEPT !.pc = pc, !.clones = x]]
             \/ conn' = [conn EXCEPT ![c] = [old EXCEPT !.pc = pc, !.sid = x]]
             \/ conn' = [conn EXCEPT ![c] = [old EXCEPT !.pc = pc, !.permit = x]]
      PROVE  DeliveryInv'
  <2> DEFINE k == [old EXCEPT !.pc = pc, !.clones = x]
             l == [old EXCEPT !.pc = pc, !.sid = x]
             m == [old EXCEPT !.pc = pc, !.permit = x]
  <2>1. /\ k.rx = old.rx /\ k.write = old.write /\ k.pc = pc
        /\ l.rx = old.rx /\ l.write = old.write /\ l.pc = pc
        /\ m.rx = old.rx /\ m.write = old.write /\ m.pc = pc
    BY <1>0 DEF ConnRecord
  <2>2. \/ conn' = [conn EXCEPT ![c] = k]
        \/ conn' = [conn EXCEPT ![c] = l]
        \/ conn' = [conn EXCEPT ![c] = m]
    BY <1>5
  <2> HIDE DEF k, l, m
  <2> QED
    BY <1>3, <1>5, <2>1, <2>2
<1>6. ASSUME NEW x, \/ conn' = [conn EXCEPT ![c] = [old EXCEPT !.gone = x]]
                    \/ conn' = [conn EXCEPT ![c] = [old EXCEPT !.lagged = x]]
      PROVE  DeliveryInv'
  <2> DEFINE k == [old EXCEPT !.gone = x]
             l == [old EXCEPT !.lagged = x]
  <2>1. /\ k.rx = old.rx /\ k.write = old.write /\ k.pc = old.pc
        /\ l.rx = old.rx /\ l.write = old.write /\ l.pc = old.pc
    BY <1>0 DEF ConnRecord
  <2>2. conn' = [conn EXCEPT ![c] = k] \/ conn' = [conn EXCEPT ![c] = l]
    BY <1>6
  <2> HIDE DEF k, l
  <2> QED
    BY <1>3, <2>1, <2>2
<1>7. CASE Reject(c) \/ List(c)
  <2>1. \/ old.pc = "none" /\ conn' = [conn EXCEPT ![c] = [old EXCEPT !.pc = "closed"]]
        \/ old.pc = "guarded" /\ conn' = [conn EXCEPT ![c] = [old EXCEPT !.pc = "listed"]]
    BY <1>7 DEF Reject, List, Goto, old
  <2> QED
    BY <1>4, <2>1 DEF Receiving
<1>8. CASE Ping(c) \/ CreateSession(c) \/ TrackSession(c) \/ RemoveChannel(c)
  <2>1. \/ old.pc = "open" /\ conn' = [conn EXCEPT ![c] = [old EXCEPT !.pc = "writing"]]
        \/ old.pc = "creating" /\ conn' = [conn EXCEPT ![c] = [old EXCEPT !.pc = "tracking"]]
        \/ old.pc = "tracking" /\ conn' = [conn EXCEPT ![c] = [old EXCEPT !.pc = "starting"]]
        \/ old.pc = "ended" /\ conn' = [conn EXCEPT ![c] = [old EXCEPT !.pc = "unrouted"]]
    BY <1>8 DEF Ping, CreateSession, TrackSession, RemoveChannel, Goto, old
  <2> QED
    BY <1>4, <2>1 DEF Receiving
<1>9. CASE Accept(c) \/ OpenChannel(c) \/ Unlist(c)
  <2>0. /\ "none" \notin Receiving /\ "guarded" \notin Receiving /\ "subscribed" \in Receiving
        /\ "open" \in Receiving /\ "unrouted" \notin Receiving /\ "unlisted" \notin Receiving
    BY DEF Receiving
  <2>1. CASE Accept(c)
    <3>1. old.pc = "none" /\ conn' = [conn EXCEPT ![c] = [old EXCEPT !.pc = "guarded", !.clones = 1]]
      BY <2>1 DEF Accept, old
    <3> QED
      BY <1>5, <2>0, <3>1
  <2>2. CASE OpenChannel(c)
    <3>1. old.pc = "subscribed" /\ conn' = [conn EXCEPT ![c] = [old EXCEPT !.pc = "open", !.clones = 2]]
      BY <2>2 DEF OpenChannel, old
    <3> QED
      BY <1>5, <2>0, <3>1
  <2>3. CASE Unlist(c)
    <3>1. old.pc = "unrouted" /\ conn' = [conn EXCEPT ![c] = [old EXCEPT !.pc = "unlisted", !.clones = 0]]
      BY <2>3 DEF Unlist, old
    <3> QED
      BY <1>5, <2>0, <3>1
  <2> QED
    BY <1>9, <2>1, <2>2, <2>3
<1>10. CASE StreamInit(c)
  <2>1. PICK s \in Session : conn' = [conn EXCEPT ![c] = [old EXCEPT !.pc = "creating", !.sid = <<s>>]]
    BY <1>10 DEF StreamInit, old
  <2>2. old.pc = "open"
    BY <1>10 DEF StreamInit, old
  <2> QED
    BY <1>5, <2>1, <2>2 DEF Receiving
<1>11. CASE StartStreaming(c)
  <2>1. old.pc = "starting" /\ conn' = [conn EXCEPT ![c] = [old EXCEPT !.pc = "open", !.sid = <<>>]]
    BY <1>11 DEF StartStreaming, old
  <2> QED
    BY <1>5, <2>1 DEF Receiving
<1>12. CASE RecvOutgoing(c)
  <2>1. /\ old.pc = "open"
        /\ conn' = [conn EXCEPT ![c] = [old EXCEPT !.pc = "writing",
                                                    !.permit = Head(outgoing_channels[c].queue).permit]]
    BY <1>12 DEF RecvOutgoing, old
  <2> QED
    BY <1>5, <2>1 DEF Receiving
<1>13. CASE RecvLagged(c) \/ ClientGone(c)
  <2>1. \/ conn' = [conn EXCEPT ![c] = [old EXCEPT !.lagged = FALSE]]
        \/ conn' = [conn EXCEPT ![c] = [old EXCEPT !.gone = TRUE]]
    BY <1>13 DEF RecvLagged, ClientGone, old
  <2> QED
    BY <1>6, <2>1
<1> QED
  BY <1>7, <1>8, <1>9, <1>10, <1>11, <1>12, <1>13 DEF Handling

(* Subscribing late, taking a message, having written it, and leaving. *)
LEMMA LoopDelivery ==
  ASSUME Inv, DeliveryInv, NEW c \in Conn,
         \/ Subscribe(c) \/ RecvFrame(c) \/ Writing(c) \/ Leave(c) \/ TakeSessions(c) \/ RemoveNext(c)
  PROVE  DeliveryInv'
<1> DEFINE old == conn[c]
<1>0. /\ TypeOK /\ old \in ConnRecord /\ old.rx \in Seq(Message) /\ old.write \in Message \union {<<>>}
      /\ seen \in [Conn -> [Task -> {"none", "frame", "complete", "missed"}]]
  BY ConnType DEF Inv, TypeOK
<1>1. /\ old.pc # "writing" => old.write = <<>>
      /\ old.pc \notin Receiving => old.rx = <<>>
      /\ old.pc \in Receiving => \A t \in Task :
           seen[c][t] = "missed" \/ Fits(old.rx, old.write, seen[c][t], tasks[t].pc, t)
  BY DEF DeliveryInv, Holding, Follows, Receivers, Receiving
<1> HIDE DEF old
<1>2. CASE Subscribe(c)
  <2> DEFINE k == [old EXCEPT !.pc = "subscribed"]
  <2>1. /\ old.pc = "listed" /\ conn' = [conn EXCEPT ![c] = k] /\ tasks' = tasks
        /\ seen' = [seen EXCEPT ![c] = [t \in Task |-> IF Begun(t) THEN "missed" ELSE "none"]]
    BY <1>2 DEF Subscribe, Goto, Controller, old
  <2>2. k.rx = <<>> /\ k.write = <<>> /\ k.pc = "subscribed"
    BY <1>0, <1>1, <2>1 DEF ConnRecord, Receiving
  <2> HIDE DEF k
  <2>3. ASSUME NEW t \in Task, tasks[t].pc \in Unsent PROVE Fits(<<>>, <<>>, "none", tasks[t].pc, t)
    <3>1. \A m : ~InRx(<<>>, m)
      BY DEF InRx
    <3>2. DOMAIN <<>> = {} /\ "none" # "complete" /\ tasks[t].pc \notin HalfSent
      BY <2>3 DEF Unsent, HalfSent
    <3> QED
      BY <3>1, <3>2, Messages DEF Fits, OnePlace, FrameAhead, AsFarAs, Pending
  <2>4. /\ \A t \in Task : seen'[c][t] = "missed" \/ (seen'[c][t] = "none" /\ tasks[t].pc \in Unsent)
        /\ \A d \in Conn : d # c => seen'[d] = seen[d]
    BY <1>0, <2>1 DEF Begun, Unsent
  <2>5. Silent
    BY <2>1, ControllerSilent
  <2> QED
    BY <2>1, <2>2, <2>3, <2>4, <2>5, DeliverStep
<1>3. CASE RecvFrame(c)
  <2> DEFINE k == [old EXCEPT !.pc = "writing", !.write = Head(old.rx), !.rx = Tail(old.rx)]
  <2>1. /\ old.pc = "open" /\ old.rx # <<>> /\ conn' = [conn EXCEPT ![c] = k] /\ tasks' = tasks
        /\ seen' = seen
    BY <1>3 DEF RecvFrame, Controller, History, old
  <2>2. k.rx = Tail(old.rx) /\ k.write = Head(old.rx) /\ k.pc = "writing"
    BY <1>0 DEF ConnRecord
  <2> HIDE DEF k
  <2>3. old.pc \in Receiving /\ old.write = <<>> /\ "writing" \in Receiving
    BY <1>1, <2>1 DEF Receiving
  <2>4. \A t \in Task : seen[c][t] = "missed" \/ Fits(k.rx, k.write, seen[c][t], tasks[t].pc, t)
    BY <1>0, <1>1, <2>1, <2>2, <2>3, FitsTake
  <2>5. Silent
    BY <2>1, ControllerSilent
  <2> QED
    BY <2>1, <2>2, <2>3, <2>4, <2>5, DeliverStep
<1>4. CASE WriteDone(c)
  <2> DEFINE k == [old EXCEPT !.pc = "open", !.write = <<>>, !.permit = 0]
             w == old.write
  <2>1. /\ old.pc = "writing" /\ conn' = [conn EXCEPT ![c] = k] /\ tasks' = tasks
        /\ seen' = IF w = <<>> \/ seen[c][w.task] = "missed" THEN seen
                   ELSE [seen EXCEPT ![c][w.task] = w.kind]
    BY <1>4 DEF WriteDone, Controller, old
  <2>2. k.rx = old.rx /\ k.write = <<>> /\ k.pc = "open"
    BY <1>0 DEF ConnRecord
  <2> HIDE DEF k
  <2>3. old.pc \in Receiving /\ "open" \in Receiving
    BY <2>1 DEF Receiving
  <2>4. Silent
    BY <2>1, ControllerSilent
  <2>5. CASE w = <<>>
    BY <1>1, <2>1, <2>2, <2>3, <2>4, <2>5, DeliverStep
  <2>6. CASE w # <<>>
    <3>1. w \in Message /\ w.task \in Task
      BY <1>0, <2>6, Messages
    <3>2. \A t \in Task : seen'[c][t] = IF t = w.task /\ seen[c][t] # "missed" THEN w.kind ELSE seen[c][t]
      BY <1>0, <2>1, <2>6, <3>1
    <3>3. \A d \in Conn : d # c => seen'[d] = seen[d]
      BY <1>0, <2>1
    <3>4. ASSUME NEW t \in Task
          PROVE  seen'[c][t] = "missed" \/ Fits(k.rx, <<>>, seen'[c][t], tasks[t].pc, t)
      <4>1. CASE seen[c][t] = "missed"
        BY <3>2, <4>1
      <4>2. CASE seen[c][t] # "missed"
        <5>1. Fits(old.rx, w, seen[c][t], tasks[t].pc, t)
          BY <1>1, <2>3, <4>2
        <5> HIDE DEF w
        <5>2. IF w.task = t THEN Fits(old.rx, <<>>, w.kind, tasks[t].pc, t)
              ELSE Fits(old.rx, <<>>, seen[c][t], tasks[t].pc, t)
          BY <3>1, <5>1, FitsWritten
        <5> QED
          BY <2>2, <3>2, <4>2, <5>2
      <4> QED
        BY <4>1, <4>2
    <3> QED
      BY <2>1, <2>2, <2>3, <2>4, <3>3, <3>4, DeliverStep
  <2> QED
    BY <2>5, <2>6
<1>5. CASE WriteFailed(c) \/ Leave(c)
  <2> DEFINE k == [NoConn EXCEPT !.pc = "ended", !.clones = 1, !.gone = conn[c].gone]
  <2>1. /\ conn' = [conn EXCEPT ![c] = k] /\ tasks' = tasks
        /\ seen' = [seen EXCEPT ![c] = [t \in Task |-> "missed"]]
    BY <1>5 DEF WriteFailed, Leave, EndLoop, Controller
  <2>2. k.rx = <<>> /\ k.write = <<>> /\ k.pc = "ended"
    BY DEF NoConn
  <2> HIDE DEF k
  <2>3. "ended" \notin Receiving /\ \A d \in Conn : d # c => seen'[d] = seen[d]
    BY <1>0, <2>1 DEF Receiving
  <2>4. Silent
    BY <2>1, ControllerSilent
  <2> QED
    BY <2>1, <2>2, <2>3, <2>4, DeliverStep
<1>6. CASE TakeSessions(c) \/ RemoveNext(c)
  <2>1. PICK q \in Seq(Session) : conn' = [conn EXCEPT ![c] = Removing(q)]
    <3>1. CASE TakeSessions(c)
      BY <1>0, <3>1, ConnType DEF TakeSessions
    <3>2. CASE RemoveNext(c)
      <4>1. conn[c].todo \in Seq(Session) /\ conn[c].todo # <<>>
        BY <1>0, <3>2, ConnType DEF RemoveNext, Inv, SessionInv, Remembers
      <4>2. Tail(conn[c].todo) \in Seq(Session)
        BY <4>1
      <4> QED
        BY <3>2, <4>2 DEF RemoveNext
    <3> QED
      BY <1>6, <3>1, <3>2
  <2>2. Silent /\ seen' = seen
    <3>1. CASE TakeSessions(c)
      BY <3>1, ControllerSilent DEF TakeSessions, Controller, History
    <3>2. CASE RemoveNext(c)
      <4>1. conn[c].todo \in Seq(Session) /\ conn[c].todo # <<>>
        BY <1>0, <3>2, ConnType DEF RemoveNext, Inv, SessionInv, Remembers
      <4>2. Head(conn[c].todo) \in Session
        BY <4>1
      <4> QED
        BY <3>2, <4>2, ControllerSilent DEF RemoveNext, History
    <3> QED
      BY <1>6, <3>1, <3>2
  <2> DEFINE k == Removing(q)
  <2>3. k.rx = <<>> /\ k.write = <<>> /\ k.pc \in {"closed", "removing"}
    BY DEF Removing, NoConn
  <2>4. conn' = [conn EXCEPT ![c] = k]
    BY <2>1
  <2> HIDE DEF k
  <2>5. k.pc \notin Receiving /\ k.pc # "writing"
    BY <2>3 DEF Receiving
  <2> QED
    BY <2>2, <2>3, <2>4, <2>5, DeliverStep
<1> QED
  BY <1>2, <1>3, <1>4, <1>5, <1>6 DEF Writing

(* A broadcast reaches every receiver; a full one loses its oldest message *)
(* and no longer counts as having missed nothing of that message's task.   *)
LEMMA BroadcastDelivery ==
  ASSUME Inv, DeliveryInv, NEW u \in Task, SendFrameMessage(u) \/ SendComplete(u)
  PROVE  DeliveryInv'
<1>0. /\ TypeOK /\ tasks \in [Task -> TaskRecord]
      /\ seen \in [Conn -> [Task -> {"none", "frame", "complete", "missed"}]]
  BY DEF Inv, TypeOK
<1>1. PICK msg \in Message, pc \in TaskPc :
        /\ Broadcast(msg) /\ Advance(u, pc)
        /\ \/ msg = Frame(u) /\ tasks[u].pc = "frame" /\ pc \in {"sent", "complete"}
           \/ msg = Complete(u) /\ tasks[u].pc = "complete" /\ pc = "ended"
  <2>1. CASE SendFrameMessage(u)
    <3> DEFINE pc == IF Receivers = {} THEN "complete" ELSE "sent"
    <3>1. tasks[u].pc = "frame" /\ Broadcast(Frame(u)) /\ Advance(u, pc)
      BY <2>1 DEF SendFrameMessage, Frame
    <3>2. pc \in {"sent", "complete"} /\ pc \in TaskPc /\ Frame(u) \in Message
      BY Messages DEF TaskPc
    <3> HIDE DEF pc
    <3> QED
      BY <3>1, <3>2
  <2>2. CASE SendComplete(u)
    <3>1. tasks[u].pc = "complete" /\ Broadcast(Complete(u)) /\ Advance(u, "ended")
      BY <2>2 DEF SendComplete, Complete
    <3>2. "ended" \in TaskPc /\ Complete(u) \in Message
      BY Messages DEF TaskPc
    <3> QED
      BY <3>1, <3>2
  <2> QED
    BY <2>1, <2>2
<1>2. \A t \in Task : tasks'[t].pc = IF t = u THEN pc ELSE tasks[t].pc
  BY <1>0, <1>1 DEF Advance, TaskRecord
<1>3. \A t \in Task : \/ msg.task # t /\ tasks'[t].pc = tasks[t].pc
                      \/ msg = Frame(t) /\ tasks[t].pc = "frame" /\ tasks'[t].pc \in {"sent", "complete"}
                      \/ msg = Complete(t) /\ tasks[t].pc = "complete" /\ tasks'[t].pc = "ended"
  BY <1>1, <1>2, Messages
<1>4. ASSUME NEW c \in Conn
      PROVE  Holding(c)' /\ (c \in Receivers' => \A t \in Task : Follows(c, t)')
  <2> DEFINE old == conn[c]
             full == Len(old.rx) = broadcast_capacity
             kept == IF full THEN Tail(old.rx) ELSE old.rx
             rx == Append(kept, msg)
             lagged == old.lagged \/ full
             k == [old EXCEPT !.rx = rx, !.lagged = lagged]
  <2>1. /\ old \in ConnRecord /\ old.rx \in Seq(Message) /\ old.write \in Message \union {<<>>}
        /\ broadcast_capacity > 0
    BY <1>0, ConnType, TransportAssumption
  <2>2. /\ conn'[c] = IF c \notin Receivers THEN old ELSE k
        /\ seen'[c] = IF c \in Receivers /\ full THEN [seen[c] EXCEPT ![Head(old.rx).task] = "missed"]
                      ELSE seen[c]
    BY <1>1 DEF Broadcast
  <2>3. full => old.rx # <<>>
    BY <2>1
  <2>4. kept \in Seq(Message)
    BY <2>1, <2>3
  <2>5. /\ k.pc = old.pc /\ k.write = old.write /\ k.rx = rx
    BY <2>1 DEF ConnRecord
  <2>6. Holding(c) /\ (c \in Receivers => \A t \in Task : Follows(c, t))
    BY DEF DeliveryInv
  <2> HIDE DEF k, lagged
  <2>7. /\ conn'[c].pc = old.pc /\ conn'[c].write = old.write
        /\ c \in Receivers => conn'[c].rx = rx
        /\ c \notin Receivers => conn'[c].rx = old.rx
    BY <2>2, <2>5
  <2>8. c \in Receivers' <=> c \in Receivers
    BY <2>7 DEF Receivers
  <2>9. Holding(c)'
    BY <2>6, <2>7, <2>8 DEF Holding
  <2>10. ASSUME c \in Receivers, NEW t \in Task, seen'[c][t] # "missed"
         PROVE  Fits(rx, old.write, seen'[c][t], tasks'[t].pc, t)
    <3>1. seen'[c][t] = seen[c][t] /\ (full => Head(old.rx).task # t)
      BY <1>0, <2>2, <2>10
    <3>2. Fits(old.rx, old.write, seen[c][t], tasks[t].pc, t)
      BY <2>6, <2>10, <3>1 DEF Follows
    <3> HIDE DEF old, full
    <3>3. Fits(kept, old.write, seen[c][t], tasks[t].pc, t)
      BY <2>1, <2>3, <3>1, <3>2, FitsDrop
    <3> HIDE DEF kept
    <3>4. Fits(rx, old.write, seen[c][t], tasks'[t].pc, t)
      BY <1>3, <2>1, <2>4, <3>3, FitsAppend
    <3> QED
      BY <3>1, <3>4
  <2> QED
    BY <2>7, <2>8, <2>9, <2>10 DEF Follows
<1> QED
  BY <1>4 DEF DeliveryInv

(* No connection receives or writes yet. *)
LEMMA InitDelivery == Init => DeliveryInv
<1> SUFFICES ASSUME Init, NEW c \in Conn
             PROVE  Holding(c) /\ c \notin Receivers
  BY DEF DeliveryInv
<1>1. conn[c] = NoConn
  BY DEF Init
<1> QED
  BY <1>1 DEF NoConn, Holding, Receivers

(* Every step keeps the order of delivery. *)
LEMMA NextDelivery == Inv /\ DeliveryInv /\ [Next]_vars => DeliveryInv'
<1> SUFFICES ASSUME Inv, DeliveryInv, [Next]_vars PROVE DeliveryInv'
  OBVIOUS
<1>1. ASSUME NEW c \in Conn, \/ Accept(c) \/ Reject(c) \/ Setup(c) \/ Loop(c) \/ Client(c)
                             \/ Handling(c) \/ Writing(c) \/ Teardown(c) \/ ClientGone(c)
      PROVE  DeliveryInv'
  BY <1>1, CalmDelivery, LoopDelivery DEF Setup, Loop, Client, Teardown
<1>2. ASSUME NEW c \in Conn, NEW len \in Size, SendFrame(c, len) PROVE DeliveryInv'
  BY <1>2, ControllerSilent, DeliverQuiet DEF SendFrame, Controller, History
<1>3. ASSUME NEW t \in Task, Step(t) PROVE DeliveryInv'
  <2>1. CASE Poll(t) \/ Sleep(t) \/ Wake(t)
    BY <2>1, ControllerSilent, DeliverQuiet DEF Poll, Sleep, Wake, History
  <2> QED
    BY <1>3, <2>1, BroadcastDelivery DEF Step
<1>4. ASSUME NEW s \in Session, StartStream(s) \/ CloseStream(s) PROVE DeliveryInv'
  <2>1. conn' = conn /\ seen' = seen
    BY <1>4 DEF StartStream, CloseStream
  <2>2. Silent
    BY <1>4, ControllerSilent DEF StartStream, CloseStream
  <2> QED
    BY <2>1, <2>2, DeliverQuiet
<1>5. CASE Sweep
  BY <1>5, ControllerSilent, DeliverQuiet DEF Sweep, History
<1>6. CASE UNCHANGED vars
  BY <1>6, ControllerSilent, DeliverQuiet DEF vars
<1> QED
  BY <1>1, <1>2, <1>3, <1>4, <1>5, <1>6 DEF Next

(***************************************************************************)
(* The property of the runs: a client that missed nothing of a stream gets *)
(* its frame once and before StreamComplete, which comes last, for every   *)
(* number of connections, sessions and restarts and every capacity of the  *)
(* broadcast.                                                              *)
(***************************************************************************)
THEOREM DeliveredInOrder == Spec => CompleteComesLast
<1> DEFINE InOrder == \A c \in Conn :
             LET msg == conn[c].write
             IN  (conn[c].pc = "writing" /\ conn'[c].pc = "open" /\ msg # <<>>) =>
                   \/ seen[c][msg.task] = "missed"
                   \/ Rank(msg.kind) = Rank(seen[c][msg.task]) + 1
<1>1. Inv /\ DeliveryInv => InOrder
  <2> SUFFICES ASSUME Inv, DeliveryInv, NEW c \in Conn, conn[c].pc = "writing", conn[c].write # <<>>,
                      seen[c][conn[c].write.task] # "missed"
               PROVE  Rank(conn[c].write.kind) = Rank(seen[c][conn[c].write.task]) + 1
    OBVIOUS
  <2> DEFINE msg == conn[c].write
             t == msg.task
             got == seen[c][t]
  <2>1. msg \in Message /\ t \in Task /\ (msg = Frame(t) \/ msg = Complete(t))
    <3>1. msg \in Message
      BY ConnType DEF Inv
    <3> QED
      BY <3>1, Messages
  <2>2. c \in Receivers
    BY DEF Receivers
  <2>3. Fits(conn[c].rx, msg, got, tasks[t].pc, t)
    BY <2>1, <2>2 DEF DeliveryInv, Follows
  <2>4. got \in {"none", "frame", "complete", "missed"}
    BY <2>1 DEF Inv, TypeOK
  <2> HIDE DEF msg, t, got
  <2>5. msg = Frame(t) => got = "none" /\ msg.kind = "frame"
    BY <2>3, Messages DEF Fits, OnePlace, Pending
  <2>6. msg = Complete(t) => got = "frame" /\ msg.kind = "complete"
    BY <2>3, Messages DEF Fits, FrameAhead
  <2>7. Rank(msg.kind) = Rank(got) + 1
    BY <2>1, <2>5, <2>6 DEF Rank
  <2> QED
    BY <2>7 DEF msg, t, got
<1>2. InOrder => [InOrder]_vars
  OBVIOUS
<1> QED
  BY <1>1, <1>2, Invariance, InitDelivery, NextDelivery, PTL DEF Spec, CompleteComesLast

-----------------------------------------------------------------------------
(* Totals. *)

(* The units of finitely many amounts, as pairs. *)
LEMMA UnitsOf ==
  ASSUME NEW f, NEW p
  PROVE  p \in Units(f) <=> \E x \in DOMAIN f : \E b \in 1..f[x] : p = <<x, b>>
  BY DEF Units

(* A total is a number. *)
LEMMA TotalNat ==
  ASSUME NEW f, IsFiniteSet(DOMAIN f), \A x \in DOMAIN f : f[x] \in Nat
  PROVE  IsFiniteSet(Units(f)) /\ Total(f) \in Nat
<1> DEFINE D == DOMAIN f
           image == [x \in D |-> {x} \X (1..f[x])]
           parts == {image[x] : x \in D}
<1>1. IsFiniteSet(parts)
  <2>1. image \in Surjection(D, parts)
    BY DEF Surjection
  <2> HIDE DEF image, parts
  <2> QED
    BY <2>1, FS_Surjection
<1>2. ASSUME NEW x \in D PROVE IsFiniteSet(image[x])
  <2>1. 1 \in Int /\ f[x] \in Int
    OBVIOUS
  <2>2. IsFiniteSet(1..f[x])
    BY ONLY <2>1, FS_Interval
  <2> QED
    BY <2>2, FS_Singleton, FS_Product
<1>3. Units(f) = UNION parts
  BY DEF Units
<1>4. \A T \in parts : IsFiniteSet(T)
  BY <1>2
<1> HIDE DEF parts
<1>5. IsFiniteSet(UNION parts)
  BY <1>1, <1>4, FS_UNION
<1> QED
  BY <1>3, <1>5, FS_CardinalityType DEF Total

(* Equal amounts have equal totals. *)
LEMMA TotalSame ==
  ASSUME NEW f, NEW g, DOMAIN g = DOMAIN f, \A x \in DOMAIN f : g[x] = f[x]
  PROVE  Total(g) = Total(f)
<1>1. \A p : p \in Units(g) <=> p \in Units(f)
  BY UnitsOf
<1>2. Units(g) = Units(f)
  BY <1>1
<1> QED
  BY <1>2 DEF Total

(* Nothing adds up to nothing. *)
LEMMA TotalZero ==
  ASSUME NEW f, \A x \in DOMAIN f : f[x] = 0
  PROVE  Total(f) = 0
<1>1. Units(f) = {}
  <2> SUFFICES ASSUME NEW p \in Units(f) PROVE FALSE
    OBVIOUS
  <2>1. PICK x \in DOMAIN f : \E b \in 1..f[x] : p = <<x, b>>
    BY UnitsOf
  <2> QED
    BY <2>1
<1> QED
  BY <1>1, FS_EmptySet DEF Total

(* Smaller amounts, or fewer, have a smaller total. *)
LEMMA TotalWithin ==
  ASSUME NEW f, NEW g, IsFiniteSet(DOMAIN g), \A x \in DOMAIN g : g[x] \in Nat,
         DOMAIN f \subseteq DOMAIN g, \A x \in DOMAIN f : f[x] \in Nat /\ f[x] <= g[x]
  PROVE  Total(f) <= Total(g)
<1>1. Units(f) \subseteq Units(g)
  <2> SUFFICES ASSUME NEW p \in Units(f) PROVE p \in Units(g)
    OBVIOUS
  <2>1. PICK x \in DOMAIN f : \E b \in 1..f[x] : p = <<x, b>>
    BY UnitsOf
  <2>2. PICK b \in 1..f[x] : p = <<x, b>>
    BY <2>1
  <2>3. x \in DOMAIN g /\ b \in 1..g[x]
    BY <2>1, <2>2
  <2> QED
    BY <2>2, <2>3, UnitsOf
<1>2. IsFiniteSet(Units(g))
  BY TotalNat
<1> QED
  BY <1>1, <1>2, FS_Subset DEF Total

(* One amount taken out. *)
LEMMA TotalWithout ==
  ASSUME NEW f, IsFiniteSet(DOMAIN f), \A x \in DOMAIN f : f[x] \in Nat, NEW x \in DOMAIN f,
         NEW g, DOMAIN g = DOMAIN f \ {x}, \A y \in DOMAIN g : g[y] = f[y]
  PROVE  Total(g) \in Nat /\ Total(f) = Total(g) + f[x]
<1> DEFINE own == {x} \X (1..f[x])
<1>1. IsFiniteSet(Units(g)) /\ Total(g) \in Nat
  BY FS_Subset, TotalNat
<1>2. IsFiniteSet(own) /\ Cardinality(own) = f[x]
  <2> DEFINE n == f[x]
  <2>1. 1 \in Int /\ n \in Int /\ n \in Nat
    OBVIOUS
  <2> HIDE DEF n
  <2>2. IsFiniteSet(1..n) /\ Cardinality(1..n) = IF 1 > n THEN 0 ELSE n - 1 + 1
    BY ONLY <2>1, FS_Interval
  <2>3. Cardinality(1..n) = n
    BY <2>1, <2>2
  <2>4. IsFiniteSet({x}) /\ Cardinality({x}) = 1
    BY FS_Singleton
  <2>5. IsFiniteSet({x} \X (1..n)) /\ Cardinality({x} \X (1..n)) = Cardinality({x}) * Cardinality(1..n)
    BY <2>2, <2>4, FS_Product
  <2>6. 1 * n = n
    BY <2>1
  <2> QED
    BY <2>3, <2>4, <2>5, <2>6 DEF n
<1>3. Units(f) = Units(g) \union own
  <2>1. \A p : p \in own <=> \E b \in 1..f[x] : p = <<x, b>>
    OBVIOUS
  <2> HIDE DEF own
  <2> QED
    BY <2>1, UnitsOf
<1>4. Units(g) \intersect own = {}
  <2>1. \A p \in own : p[1] = x
    OBVIOUS
  <2>2. \A p \in Units(g) : p[1] \in DOMAIN g
    BY UnitsOf
  <2> QED
    BY <2>1, <2>2
<1> HIDE DEF own
<1>5. Cardinality(Units(f)) = Cardinality(Units(g)) + Cardinality(own)
                                - Cardinality(Units(g) \intersect own)
  BY <1>1, <1>2, <1>3, FS_Union
<1>6. Cardinality(Units(g) \intersect own) = 0
  BY <1>4, FS_EmptySet
<1> QED
  BY <1>1, <1>2, <1>5, <1>6 DEF Total

(* One amount changed. *)
LEMMA TotalChange ==
  ASSUME NEW f, IsFiniteSet(DOMAIN f), \A x \in DOMAIN f : f[x] \in Nat, NEW x \in DOMAIN f,
         NEW g, DOMAIN g = DOMAIN f, g[x] \in Nat, \A y \in DOMAIN f : y # x => g[y] = f[y]
  PROVE  /\ Total(f) \in Nat /\ Total(g) \in Nat
         /\ Total(g) + f[x] = Total(f) + g[x]
<1> DEFINE h == [y \in DOMAIN f \ {x} |-> f[y]]
<1>1. DOMAIN h = DOMAIN f \ {x} /\ \A y \in DOMAIN h : h[y] = f[y] /\ h[y] = g[y]
  OBVIOUS
<1>2. \A y \in DOMAIN g : g[y] \in Nat
  OBVIOUS
<1> HIDE DEF h
<1>3. Total(h) \in Nat /\ Total(f) = Total(h) + f[x]
  BY <1>1, TotalWithout
<1>4. Total(g) = Total(h) + g[x]
  BY <1>1, <1>2, TotalWithout
<1> QED
  BY <1>3, <1>4

(* Amounts listed one place further on. *)
LEMMA TotalShift ==
  ASSUME NEW n \in Nat, NEW f, DOMAIN f = 1..n, \A i \in 1..n : f[i] \in Nat,
         NEW g, DOMAIN g = 2..(n + 1), \A i \in 1..n : g[i + 1] = f[i]
  PROVE  Total(g) = Total(f)
<1> DEFINE move == [p \in Units(f) |-> <<p[1] + 1, p[2]>>]
<1>1. ASSUME NEW p \in Units(f)
      PROVE  p = <<p[1], p[2]>> /\ p[1] \in 1..n /\ move[p] \in Units(g) /\ move[p] = <<p[1] + 1, p[2]>>
  <2>0. PICK i \in 1..n : \E b \in 1..f[i] : p = <<i, b>>
    BY UnitsOf
  <2>1. PICK b \in 1..f[i] : p = <<i, b>>
    BY <2>0
  <2>2. i + 1 \in DOMAIN g /\ b \in 1..g[i + 1]
    OBVIOUS
  <2>3. <<i + 1, b>> \in Units(g)
    BY <2>2, UnitsOf
  <2> QED
    BY <2>1, <2>3
<1>2. ASSUME NEW p \in Units(f), NEW q \in Units(f), move[p] = move[q] PROVE p = q
  BY <1>1, <1>2
<1>3. ASSUME NEW q \in Units(g) PROVE \E p \in Units(f) : move[p] = q
  <2>0. PICK j \in 2..(n + 1) : \E b \in 1..g[j] : q = <<j, b>>
    BY UnitsOf
  <2>1. PICK b \in 1..g[j] : q = <<j, b>>
    BY <2>0
  <2>2. j - 1 \in 1..n /\ (j - 1) + 1 = j
    OBVIOUS
  <2>3. b \in 1..f[j - 1]
    BY <2>2
  <2>4. <<j - 1, b>> \in Units(f)
    BY <2>2, <2>3, UnitsOf
  <2>5. move[<<j - 1, b>>] = <<(j - 1) + 1, b>>
    BY <2>4
  <2> QED
    BY <2>1, <2>2, <2>4, <2>5
<1>4. DOMAIN move = Units(f)
  OBVIOUS
<1>5. move = [p \in Units(f) |-> move[p]]
  OBVIOUS
<1> HIDE DEF move
<1>6. move \in [Units(f) -> Units(g)]
  BY <1>1, <1>5
<1>7. move \in Bijection(Units(f), Units(g))
  BY <1>2, <1>3, <1>6 DEF Bijection, Injection, Surjection, IsInjective
<1>8. IsFiniteSet(Units(f))
  <2>1. 1 \in Int /\ n \in Int
    OBVIOUS
  <2>2. IsFiniteSet(1..n)
    BY ONLY <2>1, FS_Interval
  <2> QED
    BY <2>2, TotalNat
<1> QED
  BY <1>7, <1>8, FS_Bijection DEF ExistsBijection, Total

(* An empty queue holds no permit. *)
LEMMA PermitsNone == PermitsOf(<<>>) = 0
  BY TotalZero DEF PermitsOf

(* The permits of a queue are a number. *)
LEMMA PermitsNat ==
  ASSUME NEW q \in Seq(Queued)
  PROVE  /\ \A i \in 1..Len(q) : q[i].permit \in Nat
         /\ IsFiniteSet(1..Len(q)) /\ Len(q) \in Nat /\ DOMAIN q = 1..Len(q)
         /\ PermitsOf(q) \in Nat
<1>0. \A i \in 1..Len(q) : q[i] \in Queued
  OBVIOUS
<1>1. \A i \in 1..Len(q) : q[i].permit \in Nat
  BY <1>0 DEF Queued
<1>2. 1 \in Int /\ Len(q) \in Int /\ DOMAIN q = 1..Len(q)
  OBVIOUS
<1>3. IsFiniteSet(1..Len(q))
  <2> DEFINE n == Len(q)
  <2>1. 1 \in Int /\ n \in Int
    BY <1>2
  <2> HIDE DEF n
  <2>2. IsFiniteSet(1..n)
    BY ONLY <2>1, FS_Interval
  <2> QED
    BY <2>2 DEF n
<1> DEFINE f == [i \in DOMAIN q |-> q[i].permit]
<1>4. DOMAIN f = 1..Len(q) /\ \A i \in DOMAIN f : f[i] \in Nat
  BY <1>1, <1>2
<1> HIDE DEF f
<1>5. Total(f) \in Nat
  BY <1>3, <1>4, TotalNat
<1> QED
  BY <1>1, <1>2, <1>3, <1>5 DEF PermitsOf, f

(* One more envelope. *)
LEMMA PermitsAppend ==
  ASSUME NEW q \in Seq(Queued), NEW e \in Queued
  PROVE  PermitsOf(Append(q, e)) = PermitsOf(q) + e.permit
<1> DEFINE r == Append(q, e)
           n == Len(q)
           f == [i \in DOMAIN r |-> r[i].permit]
           g == [i \in DOMAIN q |-> q[i].permit]
<1>1. r \in Seq(Queued) /\ Len(r) = n + 1 /\ r[n + 1] = e /\ \A i \in 1..n : r[i] = q[i]
  OBVIOUS
<1>2. n \in Nat /\ DOMAIN q = 1..n
  OBVIOUS
<1> HIDE DEF r
<1>3. /\ \A i \in 1..Len(r) : r[i].permit \in Nat
      /\ IsFiniteSet(1..Len(r)) /\ DOMAIN r = 1..Len(r)
  BY <1>1, PermitsNat
<1> HIDE DEF n
<1>4. DOMAIN f = 1..(n + 1) /\ \A i \in DOMAIN f : f[i] \in Nat
  BY <1>1, <1>3
<1>5. DOMAIN g = 1..n /\ n + 1 \in DOMAIN f /\ f[n + 1] = e.permit
  BY <1>1, <1>2, <1>4
<1>6. \A i \in DOMAIN g : g[i] = f[i]
  BY <1>1, <1>2, <1>4, <1>5
<1>7. DOMAIN g = DOMAIN f \ {n + 1}
  BY <1>2, <1>4, <1>5
<1> HIDE DEF f, g
<1>8. IsFiniteSet(DOMAIN f)
  BY <1>1, <1>3, <1>4
<1>9. Total(f) = Total(g) + f[n + 1]
  BY <1>4, <1>5, <1>6, <1>7, <1>8, TotalWithout
<1> QED
  BY <1>5, <1>9 DEF PermitsOf, f, g, r

(* The first envelope and the rest. *)
LEMMA PermitsTail ==
  ASSUME NEW q \in Seq(Queued), q # <<>>
  PROVE  PermitsOf(q) = PermitsOf(Tail(q)) + Head(q).permit
<1> DEFINE t == Tail(q)
           n == Len(t)
           f == [i \in DOMAIN q |-> q[i].permit]
           g == [i \in 2..(n + 1) |-> q[i].permit]
           h == [i \in DOMAIN t |-> t[i].permit]
<1>1. /\ t \in Seq(Queued) /\ Len(q) = n + 1 /\ n \in Nat /\ DOMAIN t = 1..n /\ Head(q) = q[1]
      /\ \A i \in 1..n : t[i] = q[i + 1]
  OBVIOUS
<1>2. /\ \A i \in 1..Len(q) : q[i].permit \in Nat
      /\ IsFiniteSet(1..Len(q)) /\ DOMAIN q = 1..Len(q)
  BY PermitsNat
<1> HIDE DEF t, n
<1>3. DOMAIN f = 1..(n + 1) /\ \A i \in DOMAIN f : f[i] \in Nat
  BY <1>1, <1>2
<1>4. 1 \in DOMAIN f /\ f[1] = Head(q).permit
  BY <1>1, <1>3
<1>5. DOMAIN g = DOMAIN f \ {1} /\ \A i \in DOMAIN g : g[i] = f[i]
  BY <1>1, <1>2, <1>3
<1>6. DOMAIN h = 1..n /\ \A i \in 1..n : h[i] \in Nat /\ g[i + 1] = h[i]
  <2>1. \A i \in 1..n : i + 1 \in 2..(n + 1) /\ i + 1 \in 1..Len(q)
    BY <1>1
  <2>2. \A i \in 1..n : h[i] = q[i + 1].permit
    BY <1>1
  <2>3. \A i \in 1..n : g[i + 1] = q[i + 1].permit
    BY <2>1
  <2>4. \A i \in 1..n : q[i + 1].permit \in Nat
    BY <1>2, <2>1
  <2> HIDE DEF g
  <2>5. DOMAIN h = 1..n
    BY <1>1
  <2> HIDE DEF h
  <2> QED
    BY <2>2, <2>3, <2>4, <2>5
<1>7. DOMAIN g = 2..(n + 1)
  OBVIOUS
<1> HIDE DEF f, g, h
<1>8. IsFiniteSet(DOMAIN f)
  BY <1>1, <1>2, <1>3
<1>9. Total(f) = Total(g) + f[1]
  BY <1>3, <1>4, <1>5, <1>8, TotalWithout
<1>10. Total(g) = Total(h)
  <2>1. n \in Nat /\ DOMAIN h = 1..n /\ DOMAIN g = 2..(n + 1)
    BY <1>1, <1>6, <1>7
  <2>2. \A i \in 1..n : h[i] \in Nat
    BY <1>6
  <2>3. \A i \in 1..n : g[i + 1] = h[i]
    BY <1>6
  <2> QED
    BY ONLY <2>1, <2>2, <2>3, TotalShift
<1> QED
  BY <1>4, <1>9, <1>10 DEF PermitsOf, f, h, t

-----------------------------------------------------------------------------
(* The byte budget of a connection. *)

(***************************************************************************)
(* While a connection is in its loop, the budget of its channel is divided *)
(* among what is free, what is queued and what is being written; before    *)
(* and after, nothing is queued and nothing can be.  Only a write in       *)
(* progress keeps permits outside the queue.                               *)
(***************************************************************************)
Charged(ch, k) ==
  /\ k.pc \in InLoop => ch.free + PermitsOf(ch.queue) + k.permit = max_queued_bytes
  /\ k.pc \notin InLoop => ch.queue = <<>> /\ k.permit = 0 /\ ~ch.open
  /\ k.pc # "writing" => k.permit = 0

BudgetInv == \A c \in Conn : Charged(outgoing_channels[c], conn[c])

(* One connection and its channel change. *)
LEMMA ChargeStep ==
  ASSUME TypeOK, BudgetInv, NEW c \in Conn, NEW k, conn' = [conn EXCEPT ![c] = k],
         \A d \in Conn : d # c => outgoing_channels'[d] = outgoing_channels[d],
         Charged(outgoing_channels'[c], k)
  PROVE  BudgetInv'
<1>1. conn'[c] = k /\ \A d \in Conn : d # c => conn'[d] = conn[d]
  BY DEF TypeOK
<1>2. ASSUME NEW d \in Conn PROVE Charged(outgoing_channels'[d], conn'[d])
  <2>1. CASE d = c
    BY <1>1, <2>1
  <2>2. CASE d # c
    BY <1>1, <2>2 DEF BudgetInv
  <2> QED
    BY <2>1, <2>2
<1> QED
  BY <1>2 DEF BudgetInv, Charged

(* A connection moves and its channel stays as it is. *)
LEMMA ChargeKept ==
  ASSUME TypeOK, BudgetInv, NEW c \in Conn, NEW k, conn' = [conn EXCEPT ![c] = k],
         outgoing_channels' = outgoing_channels,
         k.permit = conn[c].permit, k.pc \in InLoop <=> conn[c].pc \in InLoop,
         k.pc = conn[c].pc \/ conn[c].pc # "writing"
  PROVE  BudgetInv'
<1>1. Charged(outgoing_channels[c], conn[c])
  BY DEF BudgetInv
<1>2. Charged(outgoing_channels'[c], k)
  BY <1>1 DEF Charged
<1> QED
  BY <1>2, ChargeStep

(* The steps that leave the channel alone. *)
LEMMA CalmBudget ==
  ASSUME Inv, BudgetInv, NEW c \in Conn,
         \/ Reject(c) \/ Accept(c) \/ List(c) \/ Subscribe(c) \/ RecvFrame(c) \/ RecvLagged(c)
         \/ Ping(c) \/ StreamInit(c) \/ Handling(c) \/ Unlist(c) \/ ClientGone(c)
  PROVE  BudgetInv'
<1> DEFINE old == conn[c]
<1>0. TypeOK /\ old \in ConnRecord
  BY ConnType DEF Inv
<1>1. outgoing_channels' = outgoing_channels
  BY DEF Reject, Accept, List, Subscribe, RecvFrame, RecvLagged, Ping, StreamInit, Handling,
         CreateSession, TrackSession, StartStreaming, Unlist, ClientGone, Registry
<1> HIDE DEF old
<1>2. ASSUME NEW k, conn' = [conn EXCEPT ![c] = k], k.permit = old.permit,
             k.pc \in InLoop <=> old.pc \in InLoop, k.pc = old.pc \/ old.pc # "writing"
      PROVE  BudgetInv'
  BY <1>0, <1>1, <1>2, ChargeKept DEF old
<1>3. ASSUME NEW pc, pc \in InLoop <=> old.pc \in InLoop, old.pc # "writing",
             \/ conn' = [conn EXCEPT ![c] = [old EXCEPT !.pc = pc]]
             \/ \E x : conn' = [conn EXCEPT ![c] = [old EXCEPT !.pc = pc, !.clones = x]]
             \/ \E x : conn' = [conn EXCEPT ![c] = [old EXCEPT !.pc = pc, !.sid = x]]
             \/ \E x, y : conn' = [conn EXCEPT ![c] = [old EXCEPT !.pc = pc, !.write = x, !.rx = y]]
      PROVE  BudgetInv'
  <2>1. ASSUME NEW k, conn' = [conn EXCEPT ![c] = k], k.permit = old.permit, k.pc = pc
        PROVE  BudgetInv'
    BY <1>2, <1>3, <2>1
  <2>2. CASE conn' = [conn EXCEPT ![c] = [old EXCEPT !.pc = pc]]
    <3> DEFINE k == [old EXCEPT !.pc = pc]
    <3>1. k.permit = old.permit /\ k.pc = pc /\ conn' = [conn EXCEPT ![c] = k]
      BY <1>0, <2>2 DEF ConnRecord
    <3> HIDE DEF k
    <3> QED
      BY <2>1, <3>1
  <2>3. ASSUME NEW x, conn' = [conn EXCEPT ![c] = [old EXCEPT !.pc = pc, !.clones = x]]
        PROVE  BudgetInv'
    <3> DEFINE k == [old EXCEPT !.pc = pc, !.clones = x]
    <3>1. k.permit = old.permit /\ k.pc = pc /\ conn' = [conn EXCEPT ![c] = k]
      BY <1>0, <2>3 DEF ConnRecord
    <3> HIDE DEF k
    <3> QED
      BY <2>1, <3>1
  <2>4. ASSUME NEW x, conn' = [conn EXCEPT ![c] = [old EXCEPT !.pc = pc, !.sid = x]]
        PROVE  BudgetInv'
    <3> DEFINE k == [old EXCEPT !.pc = pc, !.sid = x]
    <3>1. k.permit = old.permit /\ k.pc = pc /\ conn' = [conn EXCEPT ![c] = k]
      BY <1>0, <2>4 DEF ConnRecord
    <3> HIDE DEF k
    <3> QED
      BY <2>1, <3>1
  <2>5. ASSUME NEW x, NEW y, conn' = [conn EXCEPT ![c] = [old EXCEPT !.pc = pc, !.write = x, !.rx = y]]
        PROVE  BudgetInv'
    <3> DEFINE k == [old EXCEPT !.pc = pc, !.write = x, !.rx = y]
    <3>1. k.permit = old.permit /\ k.pc = pc /\ conn' = [conn EXCEPT ![c] = k]
      BY <1>0, <2>5 DEF ConnRecord
    <3> HIDE DEF k
    <3> QED
      BY <2>1, <3>1
  <2> QED
    BY <1>3, <2>2, <2>3, <2>4, <2>5
<1>4. ASSUME NEW x, \/ conn' = [conn EXCEPT ![c] = [old EXCEPT !.gone = x]]
                    \/ conn' = [conn EXCEPT ![c] = [old EXCEPT !.lagged = x]]
      PROVE  BudgetInv'
  <2> DEFINE k == [old EXCEPT !.gone = x]
             l == [old EXCEPT !.lagged = x]
  <2>1. k.permit = old.permit /\ k.pc = old.pc /\ l.permit = old.permit /\ l.pc = old.pc
    BY <1>0 DEF ConnRecord
  <2>2. conn' = [conn EXCEPT ![c] = k] \/ conn' = [conn EXCEPT ![c] = l]
    BY <1>4
  <2> HIDE DEF k, l
  <2> QED
    BY <1>2, <2>1, <2>2
<1>5. CASE \/ Reject(c) \/ List(c) \/ Subscribe(c) \/ Ping(c) \/ CreateSession(c) \/ TrackSession(c)
  <2>1. \/ old.pc = "none" /\ conn' = [conn EXCEPT ![c] = [old EXCEPT !.pc = "closed"]]
        \/ old.pc = "guarded" /\ conn' = [conn EXCEPT ![c] = [old EXCEPT !.pc = "listed"]]
        \/ old.pc = "listed" /\ conn' = [conn EXCEPT ![c] = [old EXCEPT !.pc = "subscribed"]]
        \/ old.pc = "open" /\ conn' = [conn EXCEPT ![c] = [old EXCEPT !.pc = "writing"]]
        \/ old.pc = "creating" /\ conn' = [conn EXCEPT ![c] = [old EXCEPT !.pc = "tracking"]]
        \/ old.pc = "tracking" /\ conn' = [conn EXCEPT ![c] = [old EXCEPT !.pc = "starting"]]
    BY <1>5 DEF Reject, List, Subscribe, Ping, CreateSession, TrackSession, Goto, old
  <2>2. /\ {"open", "writing", "creating", "tracking", "starting"} \subseteq InLoop
        /\ InLoop \intersect {"none", "closed", "guarded", "listed", "subscribed"} = {}
    BY DEF InLoop, InHandler
  <2>3. ASSUME NEW pc, conn' = [conn EXCEPT ![c] = [old EXCEPT !.pc = pc]],
               pc \in InLoop <=> old.pc \in InLoop, old.pc # "writing"
        PROVE  BudgetInv'
    BY <1>3, <2>3
  <2> QED
    BY <2>1, <2>2, <2>3
<1>6. CASE Accept(c)
  <2>1. old.pc = "none" /\ conn' = [conn EXCEPT ![c] = [old EXCEPT !.pc = "guarded", !.clones = 1]]
    BY <1>6 DEF Accept, old
  <2>2. "none" \notin InLoop /\ "guarded" \notin InLoop
    BY DEF InLoop, InHandler
  <2> QED
    BY <1>3, <2>1, <2>2
<1>7. CASE Unlist(c)
  <2>1. old.pc = "unrouted" /\ conn' = [conn EXCEPT ![c] = [old EXCEPT !.pc = "unlisted", !.clones = 0]]
    BY <1>7 DEF Unlist, old
  <2>2. "unrouted" \notin InLoop /\ "unlisted" \notin InLoop
    BY DEF InLoop, InHandler
  <2> QED
    BY <1>3, <2>1, <2>2
<1>8. CASE RecvFrame(c)
  <2>1. /\ old.pc = "open"
        /\ conn' = [conn EXCEPT ![c] = [old EXCEPT !.pc = "writing", !.write = Head(old.rx),
                                                   !.rx = Tail(old.rx)]]
    BY <1>8 DEF RecvFrame, old
  <2>2. "open" \in InLoop /\ "writing" \in InLoop
    BY DEF InLoop
  <2> QED
    BY <1>3, <2>1, <2>2
<1>9. CASE StreamInit(c)
  <2>1. PICK s \in Session : conn' = [conn EXCEPT ![c] = [old EXCEPT !.pc = "creating", !.sid = <<s>>]]
    BY <1>9 DEF StreamInit, old
  <2>2. old.pc = "open" /\ "open" \in InLoop /\ "creating" \in InLoop
    BY <1>9 DEF StreamInit, old, InLoop, InHandler
  <2> QED
    BY <1>3, <2>1, <2>2
<1>10. CASE StartStreaming(c)
  <2>1. old.pc = "starting" /\ conn' = [conn EXCEPT ![c] = [old EXCEPT !.pc = "open", !.sid = <<>>]]
    BY <1>10 DEF StartStreaming, old
  <2>2. "starting" \in InLoop /\ "open" \in InLoop
    BY DEF InLoop, InHandler
  <2> QED
    BY <1>3, <2>1, <2>2
<1>11. CASE RecvLagged(c) \/ ClientGone(c)
  <2>1. \/ conn' = [conn EXCEPT ![c] = [old EXCEPT !.lagged = FALSE]]
        \/ conn' = [conn EXCEPT ![c] = [old EXCEPT !.gone = TRUE]]
    BY <1>11 DEF RecvLagged, ClientGone, old
  <2> QED
    BY <1>4, <2>1
<1> QED
  BY <1>5, <1>6, <1>7, <1>8, <1>9, <1>10, <1>11 DEF Handling

(* The steps that open, use and drop the channel. *)
LEMMA ChannelBudget ==
  ASSUME Inv, BudgetInv, NEW c \in Conn,
         \/ OpenChannel(c) \/ RecvOutgoing(c) \/ Writing(c) \/ Leave(c) \/ RemoveChannel(c)
         \/ TakeSessions(c) \/ RemoveNext(c)
  PROVE  BudgetInv'
<1> DEFINE old == conn[c]
           ch == outgoing_channels[c]
<1>0. /\ TypeOK /\ old \in ConnRecord /\ old.permit \in Nat /\ ch \in Channel
      /\ ch.queue \in Seq(Queued) /\ ch.free \in Nat /\ max_queued_bytes \in Nat
  BY ConnType, ChannelAssumption DEF Inv
<1>1. Charged(ch, old)
  BY DEF BudgetInv
<1>2. ASSUME NEW k, NEW new, conn' = [conn EXCEPT ![c] = k],
             outgoing_channels' = [outgoing_channels EXCEPT ![c] = new], Charged(new, k)
      PROVE  BudgetInv'
  <2>1. outgoing_channels'[c] = new /\ \A d \in Conn : d # c => outgoing_channels'[d] = outgoing_channels[d]
    BY <1>0, <1>2 DEF TypeOK
  <2> QED
    BY <1>0, <1>2, <2>1, ChargeStep
<1>3. PermitsOf(<<>>) = 0 /\ "open" \in InLoop /\ "writing" \in InLoop
  BY PermitsNone DEF InLoop
<1> HIDE DEF old, ch
<1>4. CASE OpenChannel(c)
  <2> DEFINE k == [old EXCEPT !.pc = "open", !.clones = 2]
  <2>1. /\ old.pc = "subscribed" /\ conn' = [conn EXCEPT ![c] = k]
        /\ outgoing_channels' = [outgoing_channels EXCEPT ![c] = NewChannel]
    BY <1>4 DEF OpenChannel, old
  <2>2. k.pc = "open" /\ k.permit = old.permit
    BY <1>0 DEF ConnRecord
  <2> HIDE DEF k
  <2>3. "subscribed" \notin InLoop
    BY DEF InLoop, InHandler
  <2>4. k.permit = 0
    BY <1>1, <2>1, <2>2, <2>3 DEF Charged
  <2>5. NewChannel.queue = <<>> /\ NewChannel.free = max_queued_bytes
    BY DEF NewChannel
  <2>6. NewChannel.free + PermitsOf(NewChannel.queue) + k.permit = max_queued_bytes
    BY <1>0, <1>3, <2>4, <2>5
  <2>7. Charged(NewChannel, k)
    BY <1>3, <2>2, <2>4, <2>6 DEF Charged
  <2> QED
    BY <1>2, <2>1, <2>7
<1>5. CASE RecvOutgoing(c)
  <2> DEFINE permit == Head(ch.queue).permit
             rest == Tail(ch.queue)
             k == [old EXCEPT !.pc = "writing", !.permit = permit]
             new == [ch EXCEPT !.queue = rest]
  <2>1. /\ old.pc = "open" /\ ch.queue # <<>> /\ conn' = [conn EXCEPT ![c] = k]
        /\ outgoing_channels' = [outgoing_channels EXCEPT ![c] = new]
    BY <1>5 DEF RecvOutgoing, old, ch
  <2>2. /\ PermitsOf(ch.queue) = PermitsOf(rest) + permit
        /\ PermitsOf(rest) \in Nat /\ permit \in Nat
    <3>1. rest \in Seq(Queued) /\ Head(ch.queue) \in Queued
      BY <1>0, <2>1
    <3>2. permit \in Nat
      BY <3>1 DEF Queued
    <3> QED
      BY <1>0, <2>1, <3>1, <3>2, PermitsTail, PermitsNat
  <2>3. old.permit = 0 /\ ch.free + PermitsOf(ch.queue) + old.permit = max_queued_bytes
    BY <1>1, <1>3, <2>1 DEF Charged
  <2> HIDE DEF permit, rest
  <2>4. k.pc = "writing" /\ k.permit = permit /\ new.queue = rest /\ new.free = ch.free
    BY <1>0 DEF ConnRecord, Channel
  <2> HIDE DEF k, new
  <2>5. ch.free + PermitsOf(rest) + permit = max_queued_bytes
    BY <1>0, <2>2, <2>3
  <2>6. Charged(new, k)
    BY <1>3, <2>4, <2>5 DEF Charged
  <2> QED
    BY <1>2, <2>1, <2>6
<1>6. CASE WriteDone(c)
  <2> DEFINE k == [old EXCEPT !.pc = "open", !.write = <<>>, !.permit = 0]
             free == ch.free + old.permit
             new == [ch EXCEPT !.free = free]
  <2>1. /\ old.pc = "writing" /\ conn' = [conn EXCEPT ![c] = k]
        /\ outgoing_channels' = [outgoing_channels EXCEPT ![c] = new]
    BY <1>6 DEF WriteDone, old, ch
  <2>2. k.pc = "open" /\ k.permit = 0 /\ new.queue = ch.queue /\ new.free = free
    BY <1>0 DEF ConnRecord, Channel
  <2>3. ch.free + PermitsOf(ch.queue) + old.permit = max_queued_bytes
    BY <1>1, <1>3, <2>1 DEF Charged
  <2>4. PermitsOf(ch.queue) \in Nat
    BY <1>0, PermitsNat
  <2>5. free + PermitsOf(ch.queue) + 0 = max_queued_bytes
    BY <1>0, <2>3, <2>4
  <2> HIDE DEF k, new, free
  <2>6. Charged(new, k)
    BY <1>3, <2>2, <2>5 DEF Charged
  <2> QED
    BY <1>2, <2>1, <2>6
<1>7. CASE WriteFailed(c) \/ Leave(c)
  <2> DEFINE k == [NoConn EXCEPT !.pc = "ended", !.clones = 1, !.gone = old.gone]
             new == [NoChannel EXCEPT !.free = max_queued_bytes]
  <2>1. conn' = [conn EXCEPT ![c] = k] /\ outgoing_channels' = [outgoing_channels EXCEPT ![c] = new]
    BY <1>7 DEF WriteFailed, Leave, EndLoop, old
  <2>2. k.pc = "ended" /\ k.permit = 0 /\ new.queue = <<>> /\ new.open = FALSE
    BY DEF NoConn, NoChannel
  <2> HIDE DEF k, new
  <2>3. "ended" \notin InLoop
    BY DEF InLoop, InHandler
  <2>4. Charged(new, k)
    BY <2>2, <2>3 DEF Charged
  <2> QED
    BY <1>2, <2>1, <2>4
<1>8. CASE RemoveChannel(c)
  <2> DEFINE k == [old EXCEPT !.pc = "unrouted"]
  <2>1. /\ old.pc = "ended" /\ conn' = [conn EXCEPT ![c] = k]
        /\ outgoing_channels' = [outgoing_channels EXCEPT ![c] = NoChannel]
    BY <1>8 DEF RemoveChannel, Goto, old
  <2>2. k.pc = "unrouted" /\ k.permit = old.permit /\ NoChannel.queue = <<>> /\ NoChannel.open = FALSE
    BY <1>0 DEF ConnRecord, NoChannel
  <2> HIDE DEF k
  <2>3. "ended" \notin InLoop /\ "unrouted" \notin InLoop
    BY DEF InLoop, InHandler
  <2>4. Charged(NoChannel, k)
    BY <1>1, <2>1, <2>2, <2>3 DEF Charged
  <2> QED
    BY <1>2, <2>1, <2>4
<1>9. CASE TakeSessions(c) \/ RemoveNext(c)
  <2>1. PICK q : conn' = [conn EXCEPT ![c] = Removing(q)]
    BY <1>9 DEF TakeSessions, RemoveNext
  <2>2. old.pc \in {"unlisted", "removing"} /\ outgoing_channels' = outgoing_channels
    BY <1>9 DEF TakeSessions, RemoveNext, Registry, old
  <2> DEFINE k == Removing(q)
  <2>3. k.pc \in {"closed", "removing"} /\ k.permit = 0
    BY DEF Removing, NoConn
  <2>4. conn' = [conn EXCEPT ![c] = k]
    BY <2>1
  <2> HIDE DEF k
  <2>5. old.pc \notin InLoop /\ k.pc \notin InLoop /\ old.pc # "writing"
    BY <2>2, <2>3 DEF InLoop, InHandler
  <2>6. k.permit = old.permit
    BY <1>1, <2>3, <2>5 DEF Charged
  <2> QED
    BY <1>0, <2>2, <2>4, <2>5, <2>6, ChargeKept DEF old
<1> QED
  BY <1>4, <1>5, <1>6, <1>7, <1>8, <1>9 DEF Writing

(* send_frame takes the permits of its message from the free ones. *)
LEMMA SendFrameBudget ==
  ASSUME Inv, BudgetInv, NEW c \in Conn, NEW len \in Size, SendFrame(c, len)
  PROVE  BudgetInv'
<1> DEFINE old == conn[c]
           ch == outgoing_channels[c]
           e == Envelope("text", len)
           p == permits_for(len)
           queue == Append(ch.queue, e)
           free == ch.free - p
           new == [ch EXCEPT !.queue = queue, !.free = free]
<1>1. /\ TypeOK /\ old \in ConnRecord /\ old.permit \in Nat /\ ch \in Channel
      /\ ch.queue \in Seq(Queued) /\ ch.free \in Nat /\ max_queued_bytes \in Nat
      /\ len \in Nat /\ p <= ch.free /\ ch.open
  BY ConnType, ChannelAssumption, TransportAssumption DEF Inv, SendFrame, CanTrySend
<1>2. p \in Nat
  BY <1>1 DEF permits_for
<1>3. e \in Queued /\ e.permit = p
  BY <1>1, <1>2 DEF Envelope, Queued
<1>4. try_send(ch, "text", len) = new
  BY <1>1 DEF try_send, Enqueue, Channel
<1>5. /\ outgoing_channels' = [outgoing_channels EXCEPT ![c] = new]
      /\ conn' = [conn EXCEPT ![c] = old]
  BY <1>1, <1>4 DEF SendFrame, TypeOK
<1>6. /\ Charged(ch, old)
      /\ old.pc \in InLoop
  BY <1>1 DEF BudgetInv, Charged
<1>7. PermitsOf(queue) = PermitsOf(ch.queue) + p /\ PermitsOf(ch.queue) \in Nat
  BY <1>1, <1>3, PermitsAppend, PermitsNat
<1>8. ch.free + PermitsOf(ch.queue) + old.permit = max_queued_bytes
      /\ (old.pc # "writing" => old.permit = 0)
  BY <1>6 DEF Charged
<1> HIDE DEF e, p, queue
<1>9. free + PermitsOf(queue) + old.permit = max_queued_bytes
  BY <1>1, <1>2, <1>7, <1>8
<1> HIDE DEF free
<1>10. new.queue = queue /\ new.free = free
  BY <1>1 DEF Channel
<1> HIDE DEF new
<1>11. Charged(new, old)
  BY <1>6, <1>8, <1>9, <1>10 DEF Charged
<1>12. /\ outgoing_channels'[c] = new
       /\ \A d \in Conn : d # c => outgoing_channels'[d] = outgoing_channels[d]
  BY <1>1, <1>5 DEF TypeOK
<1> QED
  BY <1>1, <1>5, <1>11, <1>12, ChargeStep

(* A broadcast goes to the buffers of the receivers, not to the channels. *)
LEMMA BroadcastBudget ==
  ASSUME Inv, BudgetInv, NEW t \in Task, SendFrameMessage(t) \/ SendComplete(t)
  PROVE  BudgetInv'
<1>0. TypeOK /\ outgoing_channels' = outgoing_channels
  BY DEF Inv, SendFrameMessage, SendComplete, Registry
<1>1. PICK msg : Broadcast(msg)
  BY DEF SendFrameMessage, SendComplete
<1>2. ASSUME NEW d \in Conn PROVE conn'[d].pc = conn[d].pc /\ conn'[d].permit = conn[d].permit
  <2>1. conn[d] \in ConnRecord
    BY <1>0, ConnType
  <2>2. PICK x, y : conn'[d] = conn[d] \/ conn'[d] = [conn[d] EXCEPT !.rx = x, !.lagged = y]
    BY <1>1 DEF Broadcast
  <2> QED
    BY <2>1, <2>2 DEF ConnRecord
<1> QED
  BY <1>0, <1>2 DEF BudgetInv, Charged

(* Initially no connection has a channel. *)
LEMMA InitBudget == Init => BudgetInv
<1> SUFFICES ASSUME Init, NEW c \in Conn PROVE Charged(outgoing_channels[c], conn[c])
  BY DEF BudgetInv
<1>1. conn[c] = NoConn /\ outgoing_channels[c] = NoChannel
  BY DEF Init
<1>2. "none" \notin InLoop
  BY DEF InLoop, InHandler
<1> QED
  BY <1>1, <1>2 DEF NoConn, NoChannel, Charged

(* Every step keeps the budget. *)
LEMMA NextBudget == Inv /\ BudgetInv /\ [Next]_vars => BudgetInv'
<1> SUFFICES ASSUME Inv, BudgetInv, [Next]_vars PROVE BudgetInv'
  OBVIOUS
<1>1. ASSUME NEW c \in Conn, \/ Accept(c) \/ Reject(c) \/ Setup(c) \/ Loop(c) \/ Client(c)
                             \/ Handling(c) \/ Writing(c) \/ Teardown(c) \/ ClientGone(c)
      PROVE  BudgetInv'
  BY <1>1, CalmBudget, ChannelBudget DEF Setup, Loop, Client, Teardown
<1>2. ASSUME conn' = conn, outgoing_channels' = outgoing_channels PROVE BudgetInv'
  BY <1>2 DEF BudgetInv, Charged
<1>3. ASSUME NEW t \in Task, Step(t) PROVE BudgetInv'
  <2>1. CASE Poll(t) \/ Sleep(t) \/ Wake(t)
    BY <1>2, <2>1 DEF Poll, Sleep, Wake, Registry
  <2> QED
    BY <1>3, <2>1, BroadcastBudget DEF Step
<1>4. ASSUME NEW s \in Session, StartStream(s) \/ CloseStream(s) PROVE BudgetInv'
  BY <1>2, <1>4 DEF StartStream, CloseStream, Registry
<1>5. CASE Sweep
  BY <1>2, <1>5 DEF Sweep, Registry
<1>6. CASE UNCHANGED vars
  BY <1>2, <1>6 DEF vars
<1> QED
  BY <1>1, <1>3, <1>4, <1>5, <1>6, SendFrameBudget DEF Next

(***************************************************************************)
(* The property of the runs: slots, listings and channels agree at every   *)
(* await, and what is queued for a client together with what is being      *)
(* written to it stays within the byte budget, for every number of         *)
(* connections, every mix of message sizes and every budget.               *)
(***************************************************************************)
THEOREM ResourcesAreExact == Spec => []ResourcesExact
<1>1. Inv /\ BudgetInv => ResourcesExact
  <2> SUFFICES ASSUME Inv, BudgetInv PROVE ResourcesExact
    OBVIOUS
  <2>1. SlotsExact
    BY Places DEF Inv, TypeOK, SlotInv, Slotted, Holders, SlotsExact
  <2>2. ASSUME NEW c \in Conn
        PROVE  PermitsOf(outgoing_channels[c].queue) + conn[c].permit <= max_queued_bytes
    <3> DEFINE ch == outgoing_channels[c]
               n == PermitsOf(ch.queue)
    <3>1. /\ ch.free \in Nat /\ conn[c].permit \in Nat /\ max_queued_bytes \in Nat
          /\ ch.queue \in Seq(Queued)
      BY ConnType, ChannelAssumption DEF Inv
    <3>2. n \in Nat
      BY <3>1, PermitsNat
    <3>3. Charged(ch, conn[c])
      BY DEF BudgetInv
    <3>4. CASE conn[c].pc \in InLoop
      <4>1. ch.free + n + conn[c].permit = max_queued_bytes
        BY <3>3, <3>4 DEF Charged
      <4> HIDE DEF n
      <4>2. n + conn[c].permit <= max_queued_bytes
        BY <3>1, <3>2, <4>1
      <4> QED
        BY <4>2 DEF n
    <3>5. CASE conn[c].pc \notin InLoop
      <4>1. n = 0 /\ conn[c].permit = 0
        BY <3>3, <3>5, PermitsNone DEF Charged
      <4> HIDE DEF n
      <4>2. n + conn[c].permit <= max_queued_bytes
        BY <3>1, <4>1
      <4> QED
        BY <4>2 DEF n
    <3> QED
      BY <3>4, <3>5
  <2> QED
    BY <2>1, <2>2 DEF SlotsExact, ResourcesExact
<1> QED
  BY <1>1, Invariance, InitBudget, NextBudget, PTL DEF Spec

=============================================================================
