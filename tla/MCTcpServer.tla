----------------------------- MODULE MCTcpServer -----------------------------
(* An instance of TcpServer: one client whose requests are answered, one whose  *)
(* are not.                                                                     *)
EXTENDS TcpServer

CONSTANTS c1, c2
=============================================================================
