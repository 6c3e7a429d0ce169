---------------------------- MODULE MCHttpServer ----------------------------
(* Three clients.                                                            *)
EXTENDS HttpServer

CONSTANTS c1, c2, c3
mcConns == {c1, c2, c3}
=============================================================================
