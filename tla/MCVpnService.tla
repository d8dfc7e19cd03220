---------------------------- MODULE MCVpnService ----------------------------
(* VpnService with two proxies: p has no method, so that its starts may    *)
(* choose ByeDPI, and q has one.                                           *)
EXTENDS VpnService
CONSTANTS p, q
=============================================================================
