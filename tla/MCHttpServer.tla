---------------------------- MODULE MCHttpServer ----------------------------
(* HttpServer with fewer permits than connections and fewer slots than      *)
(* requests.                                                               *)
EXTENDS HttpServer

=============================================================================
