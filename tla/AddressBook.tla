---------------------------- MODULE AddressBook ----------------------------
(***************************************************************************)
(* What the mapped DNS promises to the applications behind the tunnel,     *)
(* without saying how (hev-mapped-dns.c).                                  *)
(*                                                                         *)
(* A name that is asked for gets an address of its own.  The address keeps *)
(* leading back to the name until CacheSize other names have been used     *)
(* since the name was used last, where a name is used when it is asked for *)
(* and when a connection to its address is opened.                         *)
(***************************************************************************)
EXTENDS Naturals, FiniteSets

CONSTANTS Names, Addresses, CacheSize, None

VARIABLES
    addr,   \* addr[n]: the address of n, None if n has none now
    since,  \* since[n]: the names used since n was, None if n has no address
    found   \* the address of the last connection and the name it led to, or None

vars == <<addr, since, found>>

Init ==
    /\ addr = [n \in Names |-> None]
    /\ since = [n \in Names |-> None]
    /\ found = [host |-> 0, name |-> None]

Known == {n \in Names : since[n] # None}

\* Since is the set of names used since a name, and n is used now.
StillKnown(n) == {m \in Known : Cardinality(since[m] \cup {n}) < CacheSize} \ {n}

Use(n) ==
    since' = [m \in Names |-> CASE m = n -> {}
                                [] m \in StillKnown(n) -> since[m] \cup {n}
                                [] OTHER -> None]

\* The name n is asked for and is now at address a.
Tell(n, a) ==
    /\ n \in Known => a = addr[n]
    /\ \A m \in StillKnown(n) : addr[m] # a
    /\ addr' = [m \in Names |-> CASE m = n -> a
                                  [] m \in StillKnown(n) -> addr[m]
                                  [] OTHER -> None]
    /\ Use(n)
    /\ UNCHANGED found

\* A connection to address a, which leads to the name that has it.
Find(a) ==
    \/ \E n \in Known :
          /\ addr[n] = a
          /\ found' = [host |-> a, name |-> n]
          /\ addr' = [m \in Names |-> IF m \in StillKnown(n) \cup {n} THEN addr[m] ELSE None]
          /\ Use(n)
    \/ /\ \A n \in Known : addr[n] # a
       /\ found' = [host |-> a, name |-> None]
       /\ UNCHANGED <<addr, since>>

\* The tunnel is stopped and started again.
Reset ==
    /\ addr' = [n \in Names |-> None]
    /\ since' = [n \in Names |-> None]
    /\ found' = [host |-> 0, name |-> None]

Next ==
    \/ \E n \in Names, a \in Addresses : Tell(n, a)
    \/ \E a \in Addresses : Find(a)
    \/ Reset

Spec == Init /\ [][Next]_vars
=============================================================================
