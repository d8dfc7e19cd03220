---------------------------- MODULE Interceptor ----------------------------
(***************************************************************************)
(* The encrypted DNS (TunPacketInterceptor.kt), as TunnelVpnService starts *)
(* and stops it.                                                           *)
(*                                                                         *)
(* A start with the setting on makes a pair of sockets, gives one end to   *)
(* the native worker in place of the interface, and launches two pumps     *)
(* between the interface and the other end.  The reader answers the DNS    *)
(* requests it meets in coroutines of their own.  Pumps and answers are    *)
(* never told to stop: they end when what they read or write is closed.    *)
(*                                                                         *)
(* Pair, pumps and answers are named after the coroutine of their start.   *)
(* What is in a packet matters as far as the pumps tell it apart; a packet *)
(* they carry changes no state.                                            *)
(***************************************************************************)
EXTENDS VpnService

CONSTANT ShortPackets    \* whether packets come that the reader cannot read

ASSUME InterceptorAssumption == ShortPackets \in BOOLEAN

VARIABLES
    socketPair,    \* the field of each instance
    made, pairs,   \* the pairs made so far, and those still open
    pumps,         \* the pumps that have been launched and have not ended
    asking,        \* the interceptors with a DNS request under way
    broken         \* history: the interceptors whose reader met a packet it
                   \* cannot read

pumpVars == <<pumps, asking, broken>>
interceptorVars == <<socketPair, made, pairs, pumpVars>>
allVars == <<vars, interceptorVars>>

Ends == {"reader", "writer"}
Pump == [of : Nat \ {None}, end : Ends, at : {"launched", "running"}]

InterceptorTypeOK ==
    /\ socketPair \in [Instances -> {None} \cup made]
    /\ made \subseteq DOMAIN jobs /\ pairs \subseteq made
    /\ pumps \subseteq Pump /\ \A x \in pumps : x.of \in made
    /\ asking \subseteq made /\ broken \subseteq made

InterceptorInit ==
    /\ Init
    /\ socketPair = [i \in Instances |-> None]
    /\ made = {} /\ pairs = {} /\ pumps = {} /\ asking = {} /\ broken = {}

InCancelled(k) == Inst(k) \in cancelled

-----------------------------------------------------------------------------
(* The service                                                             *)

\* Mutant: the second pump is forgotten.
ReaderOnly(k) == {[of |-> k, end |-> "reader", at |-> "launched"]}

\* start of TunPacketInterceptor; a cancelled scope launches nothing.
BothPumps(k) == {[of |-> k, end |-> e, at |-> "launched"] : e \in Ends}

MakesPair(j) ==
    /\ socketPair' = [socketPair EXCEPT ![Inst(j)] = j]
    /\ made' = made \cup {j} /\ pairs' = pairs \cup {j}
    /\ pumps' = IF InCancelled(j) THEN pumps ELSE pumps \cup BothPumps(j)
    /\ UNCHANGED <<asking, broken>>

\* The setting is read again by every start; a pair that cannot be made ends
\* the start like a worker that fails.
StartsWorker(j) ==
    /\ StartsNative(j)
    /\ MakesPair(j) \/ UNCHANGED interceptorVars

\* Mutant: only the field is cleared.
ForgetsPair(i) ==
    /\ pairs' = pairs
    /\ socketPair' = [socketPair EXCEPT ![i] = None]

\* The originals of the two ends stay open for ever; nobody uses them.
ClosesPair(i) ==
    /\ pairs' = pairs \ {socketPair[i]}
    /\ socketPair' = [socketPair EXCEPT ![i] = None]

StopClosesAll(j) ==
    /\ StopCloses(j)
    /\ ClosesPair(Inst(j))
    /\ UNCHANGED <<made, pumpVars>>

\* A start on an interface that is up closes it and leaves its pair alone.
OtherSteps(j) ==
    /\ \/ StartBegins(j) \/ StartStopsOld(j) \/ StartClosesOld(j) \/ StartEnters(j)
       \/ StartEstablishes(j) \/ StartsProcess(j) \/ WritesConfig(j)
       \/ StopBegins(j) \/ StopsNative(j) \/ StopDestroys(j) \/ StopsSelf(j)
    /\ UNCHANGED interceptorVars

ServiceStep == \E j \in DOMAIN jobs : StartsWorker(j) \/ StopClosesAll(j) \/ OtherSteps(j)

\* The screen, the system, the main thread, and the worker that begins
IntentStep ==
    /\ \/ ToggleOn \/ ToggleOff \/ \E p \in Proxies : Select(p)
       \/ NotificationStop \/ Revoke
       \/ OnStartCommand \/ OnDestroy \/ WorkerReads
    /\ UNCHANGED interceptorVars

-----------------------------------------------------------------------------
(* The pumps                                                               *)

Runs(k, e) == [of |-> k, end |-> e, at |-> "running"] \in pumps
Gone(k, e) == pumps' = {x \in pumps : ~(x.of = k /\ x.end = e)}

\* A coroutine whose scope is cancelled before it begins never does.
PumpBegins(x) ==
    /\ x \in pumps /\ x.at = "launched"
    /\ IF InCancelled(x.of) THEN Gone(x.of, x.end)
       ELSE pumps' = (pumps \ {x}) \cup {[x EXCEPT !.at = "running"]}
    /\ UNCHANGED <<asking, broken>>

\* The interface does not block: a reader that finds nothing looks at isActive.
ReaderStops(k) ==
    /\ Runs(k, "reader") /\ (k \notin tuns \/ InCancelled(k))
    /\ Gone(k, "reader")
    /\ UNCHANGED <<asking, broken>>

\* A packet for the worker finds the pair closed.
ReaderFails(k) ==
    /\ Runs(k, "reader") /\ k \in tuns /\ k \notin pairs
    /\ Gone(k, "reader")
    /\ UNCHANGED <<asking, broken>>

\* The last fragment of a UDP packet with one to three bytes: the log of the
\* port reads beyond its end, and the exception ends the loop.
ReaderBreaks(k) ==
    /\ ShortPackets /\ Runs(k, "reader") /\ k \in tuns
    /\ Gone(k, "reader")
    /\ broken' = broken \cup {k}
    /\ UNCHANGED asking

\* The socket blocks: the read fails when the pair is closed; a packet that
\* has come meanwhile fails at the interface, or is the last of a loop whose
\* scope is cancelled.
WriterStops(k) ==
    /\ Runs(k, "writer") /\ k \notin pairs
    /\ Gone(k, "writer")
    /\ UNCHANGED <<asking, broken>>
WriterFails(k) ==
    /\ Runs(k, "writer") /\ worker = k /\ (k \notin tuns \/ InCancelled(k))
    /\ Gone(k, "writer")
    /\ UNCHANGED <<asking, broken>>

\* A DNS request; those under way at the same time share nothing, so that one
\* of each interceptor is kept.
Asks(k) ==
    /\ Runs(k, "reader") /\ k \in tuns /\ ~InCancelled(k)
    /\ asking' = asking \cup {k}
    /\ UNCHANGED <<pumps, broken>>

\* The server answers or an error is made up.  The stream shares the
\* descriptor object of the interface that asked, so that a late answer fails
\* and cannot meet a descriptor that was opened since.
Answer(k) ==
    /\ k \in asking
    /\ asking' = asking \ {k}
    /\ UNCHANGED <<pumps, broken>>

PumpStep ==
    /\ \/ \E x \in pumps : PumpBegins(x)
       \/ \E k \in made : \/ ReaderStops(k) \/ ReaderFails(k) \/ ReaderBreaks(k)
                          \/ WriterStops(k) \/ WriterFails(k)
                          \/ Asks(k) \/ Answer(k)
    /\ UNCHANGED <<vars, socketPair, made, pairs>>

-----------------------------------------------------------------------------
InterceptorNext == IntentStep \/ ServiceStep \/ PumpStep

InterceptorSpec == InterceptorInit /\ [][InterceptorNext]_allVars

\* What a thread of the pool does by itself once it can.  Packets need not
\* come; a request ends by its answer or by its timeouts.
PumpEnds ==
    /\ \/ \E x \in pumps : PumpBegins(x)
       \/ \E k \in made : ReaderStops(k) \/ WriterStops(k) \/ Answer(k)
    /\ UNCHANGED <<vars, socketPair, made, pairs>>
InterceptorFairSpec == InterceptorSpec /\ WF_allVars(PumpEnds)

-----------------------------------------------------------------------------
(* Properties                                                              *)

Pumping(k) == \A e \in Ends : \E x \in pumps : x.of = k /\ x.end = e

\* As long as intents do not overlap a worker that was given an end of a pair
\* never uses it after it was closed, whatever fails; the number of the
\* descriptor may be another's by then.  A theorem of AppProofs.
WorkerHasPair == ~overlapped /\ worker \in made => worker \in pairs

\* And nobody keeps a pair when the work is done but a worker that uses it.
PairsAreClosed == Quiet /\ ~overlapped => pairs \subseteq {worker}

\* When intents did not overlap and nothing failed, and the screen says on,
\* both pumps carry the packets of the worker, unless its reader has met a
\* packet it cannot read.
CalmlyCarried ==
    Quiet /\ ~overlapped /\ disturbances = 0 /\ isVpnActive /\ worker \in made =>
        worker \in pairs /\ (worker \notin broken => Pumping(worker))

\* "interception of DNS and sending of the rest to the proxy": the reader goes
\* on with the next packet whatever the last one was.  This does not hold
\* (README, What was found); no run checks it.
RestGoesToProxy ==
    Quiet /\ ~overlapped /\ disturbances = 0 /\ isVpnActive /\ worker \in made =>
        \E x \in pumps : x.of = worker /\ x.end = "reader"

\* When the worker is gone and no work is left the pumps and the requests of
\* all interceptors end, unless intents overlapped or work comes up again.
PumpsEnd ==
    Quiet /\ ~overlapped /\ worker = None ~> (pumps = {} /\ asking = {}) \/ ~Quiet
=============================================================================
