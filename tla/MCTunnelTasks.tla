--------------------------- MODULE MCTunnelTasks ---------------------------
(* TunnelTasks with two sessions.                                          *)
EXTENDS TunnelTasks
=============================================================================
