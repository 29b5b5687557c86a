------------------------ MODULE MCWebSocketTransport ------------------------
(* WebSocketTransport on small instances. *)
EXTENDS WebSocketTransport

=============================================================================
