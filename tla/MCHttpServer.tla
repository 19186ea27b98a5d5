---------------------------- MODULE MCHttpServer ----------------------------
(***************************************************************************)
(* Instances of HttpServer for TLC: the process with its one service.      *)
(***************************************************************************)
EXTENDS HttpServer, TLC

CONSTANTS http, q1

NoDeps == {(http :> {})}
NoRetries == (http :> 0)

=============================================================================
