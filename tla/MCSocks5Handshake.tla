------------------------- MODULE MCSocks5Handshake -------------------------
(* Socks5Handshake with two users that have passwords of their own.        *)
EXTENDS Socks5Handshake
PasswordOf == [u \in Names |-> IF u = "u" THEN "x" ELSE "y"]
=============================================================================
