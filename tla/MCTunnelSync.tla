---------------------------- MODULE MCTunnelSync ----------------------------
(* TunnelSync with three interchangeable threads that call stop.           *)
EXTENDS TunnelSync, TLC

StopperSymmetry == Permutations(Stoppers)
=============================================================================
