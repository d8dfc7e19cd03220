----------------------------- MODULE MCTunnelJni -----------------------------
(* TunnelJni with two Java threads.                                        *)
EXTENDS TunnelJni
=============================================================================
