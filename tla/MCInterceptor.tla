--------------------------- MODULE MCInterceptor ---------------------------
(* Interceptor with one proxy; it has no method, so that its starts may     *)
(* choose ByeDPI.                                                           *)
EXTENDS Interceptor
CONSTANT p
=============================================================================
