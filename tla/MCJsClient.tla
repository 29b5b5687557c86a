----------------------------- MODULE MCJsClient -----------------------------
(* JsClient on a small instance. *)
EXTENDS JsClient

MCAnswer == {<<"skeleton", "patch", "complete">>, <<"skeleton", "invalid">>}

=============================================================================
