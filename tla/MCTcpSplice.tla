---------------------------- MODULE MCTcpSplice ----------------------------
(* TcpSplice with a ring of two cells.                                   *)
EXTENDS TcpSplice
=============================================================================
