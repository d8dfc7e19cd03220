---------------------------- MODULE MCUdpSession ----------------------------
(* UdpSession with a list of two frames and batches of two messages.     *)
EXTENDS UdpSession

Clients3 == {<<"p", "q", "p">>, <<"n">>}
=============================================================================
