---------------------------- MODULE MCTcpClient ----------------------------
(* TcpClient with a few messages for TLC.                                    *)
EXTENDS TcpClient

=============================================================================
