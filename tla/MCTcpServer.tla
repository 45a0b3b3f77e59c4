---------------------------- MODULE MCTcpServer ----------------------------
(* Instances of TcpServer small enough for TLC. *)
EXTENDS TcpServer

=============================================================================
