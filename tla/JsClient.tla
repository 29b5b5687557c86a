------------------------------ MODULE JsClient ------------------------------
(***************************************************************************)
(* The JavaScript client, crates/pjs-js-client: concurrent stream() calls  *)
(* of one PJSClient, its HTTP, WebSocket and SSE transports with their     *)
(* failures and reconnections, and the reconstructor of every call.        *)
(*                                                                         *)
(* JavaScript runs one task at a time, so a step is what happens between   *)
(* two returns to the event loop; but the frames of an HTTP chunk are      *)
(* emitted in one loop, and the callbacks of the user, which run inside    *)
(* it, may start a stream or disconnect between two frames.  Every frame   *)
(* that a transport emits reaches the handler of every pending call: the   *)
(* client's event carries no stream identifier.                            *)
(*                                                                         *)
(* The server's answer to a call is a sequence of frames; on the wire a    *)
(* frame is a line of two parts and a newline, since HTTP may cut a body   *)
(* anywhere.                                                               *)
(***************************************************************************)
EXTENDS Integers, Sequences, FiniteSets, FiniteSetsExt, SequencesExt

CONSTANTS
  Call,                   \* stream() calls, each made at most once
  Transport,              \* transport types a client is configured with
  Answer,                 \* frame types of the answers a server may give
  maxReconnectAttempts,   \* of the WebSocket transport: 5
  MaxSocket,              \* bound on the sockets a client opens
  None

ASSUME ClientAssumption == maxReconnectAttempts \in Nat /\ MaxSocket \in Nat

Socket == 1..MaxSocket

VARIABLES
  transport,     \* the configured type
  isConnected,   \* [client, transport]: the flag of each layer
  call,          \* call -> phase, socket it connects on, and its reconstructor
  body,          \* call -> what the server still has to send it
  latest,        \* the call whose stream was started last, or None
  running,       \* the call whose lines are being emitted, or None
  ws,            \* the WebSocket transport's current socket, or 0
  sock,          \* socket -> state
  timers,        \* reconnection timers that have been set
  attempts       \* reconnectAttempts

vars == <<transport, isConnected, call, body, latest, running, ws, sock, timers,
          attempts>>
sockVars == <<ws, sock, timers, attempts>>

(* ready holds the frames of a chunk that was read and not emitted yet. *)
NoBody == [live |-> FALSE, answer |-> <<>>, left |-> <<>>, buffer |-> <<>>,
           ready |-> <<>>, socket |-> 0]

(* owner and applied are the reconstructor; shown says that result is not  *)
(* undefined; got and foreign only record which frames arrived, and quiet  *)
(* that no frame was ready when the call's stream started.                 *)
NewCall == [phase |-> "idle", owner |-> None, applied |-> <<>>, shown |-> FALSE,
            got |-> 0, foreign |-> FALSE, quiet |-> FALSE, socket |-> 0]

Init ==
  /\ transport \in Transport
  /\ isConnected = [client |-> FALSE, transport |-> FALSE]
  /\ call = [c \in Call |-> NewCall]
  /\ body = [c \in Call |-> NoBody]
  /\ latest = None /\ running = None
  /\ ws = 0 /\ sock = [k \in Socket |-> "unused"] /\ timers = 0 /\ attempts = 0

Pending(c) == call[c].phase = "pending"
Settled(c) == call[c].phase \in {"resolved", "rejected"}

-----------------------------------------------------------------------------
(* The handler of a call. *)

Settle(h, phase) == [h EXCEPT !.phase = phase]

processSkeleton(h, f) ==
  IF h.owner = None THEN [h EXCEPT !.owner = f.owner, !.shown = TRUE]
  ELSE [h EXCEPT !.shown = FALSE]

applyPatch(h, f) == [h EXCEPT !.applied = Append(@, f.n)]

(* A frame of an unknown type, with a priority above 100, or with a patch  *)
(* whose path or operation is not recognised.                              *)
validateFrame(f) == f.type # "invalid"

(* frameReceivedHandler, for the frame f.  A frame that validateFrame      *)
(* refuses, and a patch without a result, end the call.                    *)
frameReceivedHandler(c, h0, f) ==
  LET h == [h0 EXCEPT !.foreign = @ \/ f.owner # c \/ f.n <= h0.got, !.got = f.n]
  IN  CASE h.phase # "pending"  -> h0
        [] ~validateFrame(f)    -> Settle(h, "rejected")
        [] f.type = "skeleton"  -> processSkeleton(h, f)
        [] f.type = "patch"     -> IF h.shown THEN applyPatch(h, f) ELSE Settle(h, "rejected")
        [] f.type = "complete"  -> Settle(h, "resolved")

(* handleFrame: the transport emits a frame to the calls that listen now.  *)
(* A call that a callback starts meanwhile gets the next frame first.      *)
Emit(f) == call' = [c \in Call |-> frameReceivedHandler(c, call[c], f)]

-----------------------------------------------------------------------------
(* Lines on the wire. *)

Line(n) == <<[n |-> n, part |-> 1], [n |-> n, part |-> 2], [n |-> n, part |-> 0]>>

(* The newline after the last frame is optional. *)
Lines(answer, trailing) ==
  LET all == FlattenSeq([n \in DOMAIN answer |-> Line(n)])
  IN  IF trailing THEN all ELSE Front(all)

Newlines(text) == {i \in DOMAIN text : text[i].part = 0}

LastNewline(text) == Max({0} \union Newlines(text))

(* The frames that JSON.parse recognises in the lines of text; anything    *)
(* but a whole line is reported and skipped.                               *)
Parse(c, text) ==
  LET whole == {i \in DOMAIN text : /\ i + 1 \in DOMAIN text
                                    /\ text[i].part = 1 /\ text[i + 1].part = 2
                                    /\ text[i].n = text[i + 1].n}
      at == SetToSortSeq(whole, <)
  IN  [k \in DOMAIN at |-> [owner |-> c, n |-> text[at[k]].n,
                            type |-> body[c].answer[text[at[k]].n]]]

-----------------------------------------------------------------------------
(* Starting a stream. *)

(* A new HTTP or SSE stream cancels the one before, whose call stays       *)
(* pending, and nothing more is read; frames that were read stay ready.    *)
(* WebSocket streams share the socket.                                     *)
Cancelled(bodies) ==
  IF transport # "websocket" /\ latest # None
  THEN [bodies EXCEPT ![latest].live = FALSE] ELSE bodies

(* processStream, with the transport flag as given: the handler and the    *)
(* timer are set, then startStream either sends its request or throws.     *)
processStream(c, up) ==
  LET current == IF ws' = 0 THEN "none" ELSE sock'[ws']
      refused == ~up \/ (transport = "websocket" /\ current \in {"none", "connecting"})
      quiet == \A d \in Call : body[d].ready = <<>>
  IN  \/ /\ refused
         /\ call' = [call EXCEPT ![c].phase = "rejected"]
         /\ UNCHANGED <<body, latest>>
      \/ /\ ~refused
         /\ call' = [call EXCEPT ![c].phase = "pending", ![c].quiet = quiet]
         /\ latest' = c
         /\ \E answer \in Answer, trailing \in {TRUE, transport # "http"} :
              body' = [Cancelled(body) EXCEPT ![c] =
                         [live   |-> transport # "websocket" \/ current = "open",
                          answer |-> answer, left |-> Lines(answer, trailing),
                          buffer |-> <<>>, ready |-> <<>>, socket |-> ws']]

Unused == {k \in Socket : sock[k] = "unused"}

(* WebSocketTransport::connect makes a new socket the current one. *)
OpenSocket(k) ==
  /\ k = Min(Unused)
  /\ ws' = k
  /\ sock' = [sock EXCEPT ![k] = "connecting"]

(* stream() on a connected client. *)
StreamConnected(c) ==
  /\ call[c].phase = "idle" /\ isConnected.client
  /\ UNCHANGED sockVars
  /\ processStream(c, isConnected.transport)
  /\ UNCHANGED <<transport, running, isConnected>>

(* stream() awaits connect() first; several calls may be there together. *)
StreamConnecting(c) ==
  /\ call[c].phase = "idle" /\ ~isConnected.client
  /\ \/ /\ transport # "websocket"
        /\ call' = [call EXCEPT ![c].phase = "connecting"]
        /\ UNCHANGED sockVars
     \/ /\ transport = "websocket"
        /\ \E k \in Unused : OpenSocket(k) /\ call' = [call EXCEPT ![c].phase = "connecting", ![c].socket = k]
        /\ UNCHANGED <<timers, attempts>>
  /\ UNCHANGED <<transport, running, isConnected, body, latest>>

(* The HTTP session was created, or SSE, which connects with the stream. *)
Connected(c) ==
  /\ call[c].phase = "connecting" /\ transport # "websocket" /\ running = None
  /\ isConnected' = [client |-> TRUE, transport |-> TRUE]
  /\ UNCHANGED sockVars
  /\ processStream(c, TRUE)
  /\ UNCHANGED <<transport, running>>

ConnectFails(c) ==
  /\ call[c].phase = "connecting" /\ transport = "http" /\ running = None
  /\ call' = [call EXCEPT ![c].phase = "rejected"]
  /\ UNCHANGED <<transport, isConnected, body, latest, running, sockVars>>

-----------------------------------------------------------------------------
(* Frames. *)

(* The loop of processStreamingResponse awaits the next read. *)
Reading(c) ==
  transport = "http" /\ body[c].live /\ body[c].ready = <<>> /\ running = None

ReadChunk_Forgets(c) ==  \* mutant: the incomplete line is not kept
  /\ Reading(c) /\ body[c].left # <<>>
  /\ \E i \in DOMAIN body[c].left :
       LET text == SubSeq(body[c].left, 1, i)
       IN  body' = [body EXCEPT ![c].left = SubSeq(@, i + 1, Len(@)),
                                ![c].ready = Parse(c, SubSeq(text, 1, LastNewline(text)))]
  /\ UNCHANGED <<transport, isConnected, call, latest, running, sockVars>>

(* processStreamingResponse: a chunk completes any number of lines. *)
ReadChunk(c) ==
  /\ Reading(c) /\ body[c].left # <<>>
  /\ \E i \in DOMAIN body[c].left :
       LET text == body[c].buffer \o SubSeq(body[c].left, 1, i)
           cut == LastNewline(text)
       IN  body' = [body EXCEPT ![c].left = SubSeq(@, i + 1, Len(@)),
                                ![c].buffer = SubSeq(text, cut + 1, Len(text)),
                                ![c].ready = Parse(c, SubSeq(text, 1, cut))]
  /\ UNCHANGED <<transport, isConnected, call, latest, running, sockVars>>

(* The body ends, possibly early; what is left in the buffer is one frame. *)
BodyEnds(c) ==
  /\ Reading(c)
  /\ body' = [body EXCEPT ![c].live = FALSE, ![c].ready = Parse(c, body[c].buffer)]
  /\ UNCHANGED <<transport, isConnected, call, latest, running, sockVars>>

(* One turn of the loop over the lines, with every handler of the frame.   *)
(* Until the last frame, only a callback's own calls come between.         *)
EmitLine(c) ==
  /\ running \in {None, c} /\ body[c].ready # <<>>
  /\ Emit(Head(body[c].ready))
  /\ body' = [body EXCEPT ![c].ready = Tail(@)]
  /\ running' = IF Len(body[c].ready) = 1 THEN None ELSE c
  /\ UNCHANGED <<transport, isConnected, latest, sockVars>>

(* The request or a read fails: startStream throws. *)
RequestFails(c) ==
  /\ Reading(c)
  /\ call' = [call EXCEPT ![c] = IF @.phase = "pending" THEN Settle(@, "rejected") ELSE @]
  /\ body' = [body EXCEPT ![c].live = FALSE]
  /\ UNCHANGED <<transport, isConnected, latest, running, sockVars>>

(* A WebSocket message or an SSE event is a whole frame. *)
Message(c) ==
  /\ transport # "http" /\ body[c].live /\ body[c].left # <<>>
  /\ transport = "websocket" => sock[body[c].socket] = "open"
  /\ Emit(Head(Parse(c, SubSeq(body[c].left, 1, 2))))
  /\ body' = [body EXCEPT ![c].left = SubSeq(@, 4, Len(@))]
  /\ UNCHANGED <<transport, isConnected, latest, running, sockVars>>

(* EventSource reconnects by itself and asks for the stream again. *)
EventSourceReconnects(c) ==
  /\ transport = "sse" /\ body[c].live
  /\ body' = [body EXCEPT ![c].left = Lines(body[c].answer, TRUE)]
  /\ UNCHANGED <<transport, isConnected, call, latest, running, sockVars>>

Timeout_FirstFrame(c) ==  \* mutant: the timer is cleared by the first frame
  /\ Pending(c) /\ call[c].got = 0 /\ running = None
  /\ call' = [call EXCEPT ![c] = Settle(@, "rejected")]
  /\ UNCHANGED <<transport, isConnected, body, latest, running, sockVars>>

(* The call's timer ends it; the server's answer is not stopped. *)
Timeout(c) ==
  /\ Pending(c) /\ running = None
  /\ call' = [call EXCEPT ![c] = Settle(@, "rejected")]
  /\ UNCHANGED <<transport, isConnected, body, latest, running, sockVars>>

-----------------------------------------------------------------------------
(* Sockets. *)

(* onopen: a waiting connect() resolves, and its stream() goes on. *)
SocketOpens(k) ==
  /\ sock[k] = "connecting"
  /\ sock' = [sock EXCEPT ![k] = "open"]
  /\ attempts' = 0
  /\ UNCHANGED <<ws, timers, transport, running>>
  /\ LET waiting == {c \in Call : call[c].phase = "connecting" /\ call[c].socket = k}
     IN  \/ /\ waiting = {}
            /\ isConnected' = [isConnected EXCEPT !.transport = TRUE]
            /\ UNCHANGED <<call, body, latest>>
         \/ \E c \in waiting :
              /\ isConnected' = [client |-> TRUE, transport |-> TRUE]
              /\ processStream(c, TRUE)

(* onclose with the code 1000. *)
CloseNormally ==
  /\ isConnected' = [client |-> FALSE, transport |-> FALSE]
  /\ UNCHANGED timers

CloseAbnormally_Silent(clientUp) ==  \* mutant: giving up is not announced
  /\ timers' = IF attempts < maxReconnectAttempts THEN timers + 1 ELSE timers
  /\ isConnected' = [client |-> clientUp, transport |-> FALSE]

(* onclose after anything but disconnect(): reconnect later, or give up    *)
(* and emit disconnect.                                                    *)
CloseAbnormally(clientUp) ==
  IF attempts < maxReconnectAttempts
  THEN /\ timers' = timers + 1
       /\ isConnected' = [client |-> clientUp, transport |-> FALSE]
  ELSE CloseNormally

(* A socket cannot connect, or was closed while connecting, which fails it *)
(* without the code 1000: onerror, then onclose.  onerror rejects          *)
(* connect() unless the transport is connected through another socket; a   *)
(* rejected reconnection emits disconnect.                                 *)
SocketFails(k) ==
  /\ sock[k] \in {"connecting", "aborted"}
  /\ sock' = [sock EXCEPT ![k] = "closed"]
  /\ LET waiting == {c \in Call : call[c].phase = "connecting" /\ call[c].socket = k}
         rejects == ~isConnected.transport
     IN  /\ CloseAbnormally(isConnected.client /\ (rejects => waiting # {}))
         /\ call' = [c \in Call |-> IF rejects /\ c \in waiting
                                    THEN Settle(call[c], "rejected") ELSE call[c]]
  /\ UNCHANGED <<transport, running, body, latest, ws, attempts>>

(* An open socket breaks or is closed by the server, with its streams. *)
SocketBreaks(k) ==
  /\ sock[k] = "open"
  /\ sock' = [sock EXCEPT ![k] = "closed"]
  /\ body' = [c \in Call |-> IF body[c].socket = k THEN [body[c] EXCEPT !.live = FALSE]
                             ELSE body[c]]
  /\ CloseAbnormally(isConnected.client) \/ CloseNormally
  /\ UNCHANGED <<transport, running, call, latest, ws, attempts>>

(* onclose of a socket that disconnect() closed, whatever is current now. *)
SocketClosed(k) ==
  /\ sock[k] = "closing"
  /\ sock' = [sock EXCEPT ![k] = "closed"]
  /\ CloseNormally
  /\ UNCHANGED <<transport, running, call, body, latest, ws, attempts>>

ReconnectTimer ==
  /\ timers > 0
  /\ timers' = timers - 1
  /\ attempts' = attempts + 1
  /\ \E k \in Unused : OpenSocket(k)
  /\ UNCHANGED <<transport, running, isConnected, call, body, latest>>

(* disconnect(): the pending calls and a reconnection timer stay. *)
Disconnect ==
  /\ isConnected.client
  /\ isConnected' = [client |-> FALSE, transport |-> FALSE]
  /\ \/ /\ transport = "websocket"
        /\ ws' = 0
        /\ sock' = [k \in Socket |->
                     CASE k = ws /\ sock[k] = "open"       -> "closing"
                       [] k = ws /\ sock[k] = "connecting" -> "aborted"
                       [] OTHER                            -> sock[k]]
        /\ body' = [c \in Call |-> IF ws # 0 /\ body[c].socket = ws
                                   THEN [body[c] EXCEPT !.live = FALSE] ELSE body[c]]
     \/ /\ transport # "websocket"
        /\ body' = Cancelled(body)
        /\ UNCHANGED <<ws, sock>>
  /\ UNCHANGED <<transport, running, call, latest, timers, attempts>>

-----------------------------------------------------------------------------

Next ==
  \/ \E c \in Call :
       \/ StreamConnected(c) \/ StreamConnecting(c) \/ Connected(c) \/ ConnectFails(c)
       \/ ReadChunk(c) \/ BodyEnds(c) \/ EmitLine(c) \/ RequestFails(c)
       \/ Message(c) \/ EventSourceReconnects(c) \/ Timeout(c)
  \/ \E k \in Socket : SocketOpens(k) \/ SocketFails(k) \/ SocketBreaks(k) \/ SocketClosed(k)
  \/ ReconnectTimer
  \/ Disconnect

(* A loop runs to its end, setTimeout fires, and the session request       *)
(* answers, fails or is aborted by AbortSignal.timeout.  Servers, sockets  *)
(* and callers owe nothing.                                                *)
Fairness ==
  \A c \in Call : /\ WF_vars(EmitLine(c)) /\ WF_vars(Timeout(c))
                  /\ WF_vars(Connected(c) \/ ConnectFails(c))

Spec == Init /\ [][Next]_vars /\ Fairness

-----------------------------------------------------------------------------

(* The data a call resolves with is its own document, whole. *)
Exact(c) ==
  /\ call[c].shown
  /\ call[c].owner = c
  /\ ToSet(call[c].applied) = {n \in DOMAIN body[c].answer : body[c].answer[n] = "patch"}

(***************************************************************************)
(* However the body is cut into chunks, a call that only its own frames    *)
(* reached, each once, resolves with exactly its document; and over HTTP   *)
(* nothing else reaches the call that was started last, whatever older     *)
(* calls timed out, were superseded or still wait, provided that no chunk  *)
(* of theirs had been read and not yet emitted when it started.            *)
(***************************************************************************)
ResolvedExact ==
  \A c \in Call : call[c].phase = "resolved" =>
    /\ Exact(c) \/ call[c].foreign
    /\ (transport = "http" /\ latest = c /\ call[c].quiet) => ~call[c].foreign

(***************************************************************************)
(* The client does not take itself for connected when its WebSocket        *)
(* transport has given up: there is a connection, or an attempt under way  *)
(* or scheduled, whichever sockets fail, close late or are superseded.     *)
(***************************************************************************)
GivenUpIsKnown ==
  transport = "websocket" /\ isConnected.client =>
    \/ isConnected.transport
    \/ timers > 0
    \/ \E k \in Socket : sock[k] = "connecting"

(***************************************************************************)
(* A stream() call settles: by its timer once it has a handler, although   *)
(* its stream was cancelled, truncated or lost with its socket; and before *)
(* that, except on a WebSocket, whose connect() has no timeout.            *)
(***************************************************************************)
CallsSettle ==
  \A c \in Call :
    (Pending(c) \/ (call[c].phase = "connecting" /\ transport # "websocket")) ~> Settled(c)

(***************************************************************************)
(* "Per-stream reconstructor so concurrent streams don't share state"      *)
(* (client.ts): a call resolves with the document it asked for.            *)
(***************************************************************************)
StreamsIsolated ==
  \A c \in Call : call[c].phase = "resolved" => Exact(c)

=============================================================================
