---------------------------- MODULE MCProxyList ----------------------------
(* ProxyList with two proxies besides the worker: b is one the network      *)
(* lists, and both may be added by hand.                                    *)
EXTENDS ProxyList
=============================================================================
