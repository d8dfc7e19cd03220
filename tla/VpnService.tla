----------------------------- MODULE VpnService -----------------------------
(***************************************************************************)
(* The Android service TunnelVpnService and the screen that commands it.   *)
(*                                                                         *)
(* The screen sends intents; the main thread hands them to the current     *)
(* instance of the service, which launches a coroutine for each.  The      *)
(* coroutines of an instance run concurrently on Dispatchers.IO and share  *)
(* its fields.  The native tunnel, the file config.yaml which it reads, the *)
(* child processes and the ports on which they listen belong to the whole  *)
(* application.                                                            *)
(*                                                                         *)
(* A start runs one of two cores as a child process.  Xray speaks to the   *)
(* proxy of the start.  ByeDPI, which the user may switch on for proxies   *)
(* without a method, is told of no proxy and sends the traffic out itself. *)
(* The configuration names the core by its port, 10808 or 10800.           *)
(*                                                                         *)
(* The native calls are atomic here, as TunnelJni shows: a start is        *)
(* refused while a worker runs, a stop returns when the worker is gone.    *)
(***************************************************************************)
EXTENDS Integers, Sequences, FiniteSets

CONSTANTS
    Proxies,       \* the proxies the user may select
    WithoutMethod, \* those without a method: SOCKS5 and HTTP proxies
    MaxIntents,    \* how many intents are sent at most
    MaxDisturbances  \* how often establish, a process or the worker may fail or
                   \* others than the screen stop the service

ASSUME VpnAssumption ==
    /\ Proxies # {} /\ WithoutMethod \subseteq Proxies
    /\ MaxIntents \in Nat /\ MaxDisturbances \in Nat

VARIABLES
    isVpnActive, selectedProxy,  \* what the screen shows
    sent,           \* how many intents were sent
    main,           \* the messages of the main thread
    instance,       \* the instance of the service that lives, or None
    instances,      \* how many there were so far
    cancelled,      \* the instances whose scope is cancelled
    stopping,       \* the instances that have called stopSelf
    vpnInterface,   \* the field of each instance
    process,        \* the fields byedpiProcess and xrayProcess of each instance
    jobs,           \* the coroutines launched so far
    tuns,           \* the descriptors that are open
    worker,         \* the descriptor the native worker uses, or None
    config,         \* the core which the configuration file names, or "none"
    upstream,       \* the core which the worker read there, or "none" yet
    port,           \* the process that listens on the port of each core, or None
    overlapped,     \* history: an intent came while a coroutine was at work, or
                    \* the system destroyed the service
    stopped,        \* history: the last intent was a stop and found all at rest
    disturbances    \* how often something failed or another stopped the service

screen == <<isVpnActive, selectedProxy, sent>>
lifecycle == <<instance, instances, cancelled, stopping>>
fields == <<vpnInterface, process>>
outside == <<tuns, worker, config, upstream, port>>
history == <<overlapped, stopped, disturbances>>
vars == <<screen, main, lifecycle, fields, jobs, outside, history>>

\* A descriptor and a process are named after the coroutine that made them.
None == 0
Instances == 1 .. MaxIntents
JobKinds == {"start", "stop"}
Places == {"launched", "stopOld", "closeOld", "enter", "establish", "process", "config",
           "native", "stopNative", "close", "destroy", "stopSelf", "done"}
Cores == {"xray", "byedpi"}
Coroutines == [kind : JobKinds, inst : Nat \ {None}, pc : Places, proxy : Proxies,
               target : Cores]
Intents == [action : {"START"}, proxy : Proxies] \cup [action : {"STOP", "DESTROY"}]

TypeOK ==
    /\ isVpnActive \in BOOLEAN /\ selectedProxy \in Proxies
    /\ sent \in 0 .. MaxIntents /\ main \in Seq(Intents)
    /\ instance \in {None, instances} /\ instances \in Nat
    /\ cancelled \subseteq stopping /\ stopping \subseteq 1 .. instances
    /\ jobs \in Seq(Coroutines)
    /\ vpnInterface \in [Instances -> {None} \cup DOMAIN jobs]
    /\ process \in [Instances -> [Cores -> {None} \cup DOMAIN jobs]]
    /\ tuns \subseteq DOMAIN jobs
    /\ worker \in {None} \cup DOMAIN jobs
    /\ config \in Cores \cup {"none"} /\ upstream \in Cores \cup {"none"}
    /\ port \in [Cores -> {None} \cup DOMAIN jobs]
    /\ overlapped \in BOOLEAN /\ stopped \in BOOLEAN /\ disturbances \in 0 .. MaxDisturbances

Nobody == [c \in Cores |-> None]

Init ==
    /\ isVpnActive = FALSE /\ selectedProxy \in Proxies /\ sent = 0
    /\ main = <<>>
    /\ instance = None /\ instances = 0 /\ cancelled = {} /\ stopping = {}
    /\ vpnInterface = [i \in Instances |-> None]
    /\ process = [i \in Instances |-> Nobody]
    /\ jobs = <<>> /\ tuns = {} /\ worker = None /\ config = "none" /\ upstream = "none"
    /\ port = Nobody
    /\ overlapped = FALSE /\ stopped = FALSE /\ disturbances = 0

Disturbed == disturbances < MaxDisturbances /\ disturbances' = disturbances + 1

AtWork == \E j \in DOMAIN jobs : jobs[j].pc # "done"
Quiet == main = <<>> /\ ~AtWork

-----------------------------------------------------------------------------
(* The screen: ProxyListScreen of MainActivity                             *)

START(p) == [action |-> "START", proxy |-> p]
STOP == [action |-> "STOP"]
DESTROY == [action |-> "DESTROY"]

\* Intents wait for the main thread in the order they were sent.
Send(messages) ==
    /\ sent + Len(messages) <= MaxIntents
    /\ sent' = sent + Len(messages)
    /\ main' = main \o messages
    /\ overlapped' = (overlapped \/ ~Quiet \/ Len(messages) > 1)
    /\ stopped' = (Quiet /\ messages = <<STOP>>)
    /\ UNCHANGED <<lifecycle, fields, jobs, outside>>

ToggleOn ==
    /\ ~isVpnActive
    /\ isVpnActive' = TRUE /\ UNCHANGED <<selectedProxy, disturbances>>
    /\ Send(<<START(selectedProxy)>>)

ToggleOff ==
    /\ isVpnActive
    /\ isVpnActive' = FALSE /\ UNCHANGED <<selectedProxy, disturbances>>
    /\ Send(<<STOP>>)

\* selectProxyFromList; with the tunnel off only the selection changes.
Select(p) ==
    /\ selectedProxy' = p /\ UNCHANGED <<isVpnActive, disturbances>>
    /\ IF isVpnActive THEN Send(<<STOP, START(p)>>)
       ELSE UNCHANGED <<sent, main, lifecycle, fields, jobs, outside, overlapped, stopped>>

\* The action of the notification; the screen is not told.
NotificationStop ==
    /\ instance # None
    /\ Disturbed /\ UNCHANGED <<isVpnActive, selectedProxy>>
    /\ Send(<<STOP>>)

\* stopSelf, or the system after a revocation: unless the instance is already
\* stopping, the main thread is told to destroy it.
StopService(i) ==
    IF i = instance /\ i \notin stopping
    THEN main' = Append(main, DESTROY) /\ stopping' = stopping \cup {i}
    ELSE UNCHANGED <<main, stopping>>

Revoke ==
    /\ instance # None
    /\ StopService(instance)
    /\ Disturbed /\ overlapped' = TRUE /\ stopped' = FALSE
    /\ UNCHANGED <<screen, instance, instances, cancelled, fields, jobs, outside>>

-----------------------------------------------------------------------------
(* The main thread: onStartCommand and onDestroy                           *)

\* targetPort is that of Xray at first.
Launched(kind, i, p) ==
    [kind |-> kind, inst |-> i, pc |-> "launched", proxy |-> p, target |-> "xray"]

OnStartCommand ==
    /\ main # <<>> /\ Head(main).action # "DESTROY"
    /\ LET new == instance = None
           i == IF new THEN instances + 1 ELSE instance IN
       /\ main' = Tail(main)
       /\ instance' = i /\ instances' = IF new THEN i ELSE instances
       /\ jobs' = Append(jobs, IF Head(main).action = "START"
                               THEN Launched("start", i, Head(main).proxy)
                               ELSE Launched("stop", i, selectedProxy))
    /\ UNCHANGED <<screen, cancelled, stopping, fields, outside, history>>

\* stopVpn, then scope.cancel: the coroutine may begin in between, and those
\* that have not begun never do.
OnDestroy ==
    /\ main # <<>> /\ Head(main).action = "DESTROY"
    /\ main' = Tail(main)
    /\ instance' = None /\ cancelled' = cancelled \cup {instance}
    /\ LET kept == [j \in DOMAIN jobs |->
                       IF jobs[j].inst = instance /\ jobs[j].pc = "launched"
                       THEN [jobs[j] EXCEPT !.pc = "done"] ELSE jobs[j]]
           stop == Launched("stop", instance, selectedProxy) IN
       \E pc \in {"stopNative", "done"} : jobs' = Append(kept, [stop EXCEPT !.pc = pc])
    /\ UNCHANGED <<screen, instances, stopping, fields, outside, history>>

-----------------------------------------------------------------------------
(* The coroutine of a start                                                *)

At(j, kind, pc) == j \in DOMAIN jobs /\ jobs[j].kind = kind /\ jobs[j].pc = pc
Goto(j, pc) == jobs' = [jobs EXCEPT ![j].pc = pc]
Inst(j) == jobs[j].inst

\* stopVpn launches a coroutine, unless the scope is cancelled.
EndWithStop(j) ==
    LET ended == [jobs EXCEPT ![j].pc = "done"] IN
    jobs' = IF Inst(j) \in cancelled THEN ended
            ELSE Append(ended, Launched("stop", Inst(j), jobs[j].proxy))

StartBegins(j) ==
    /\ At(j, "start", "launched")
    /\ Goto(j, IF vpnInterface[Inst(j)] # None THEN "stopOld" ELSE "enter")
    /\ UNCHANGED <<screen, main, lifecycle, fields, outside, history>>

WorkerEnds == worker' = None /\ upstream' = "none" /\ UNCHANGED config

StartStopsOld(j) ==
    /\ At(j, "start", "stopOld")
    /\ WorkerEnds
    /\ Goto(j, "closeOld")
    /\ UNCHANGED <<screen, main, lifecycle, fields, tuns, port, history>>

Closed(i) == /\ tuns' = tuns \ {vpnInterface[i]}
             /\ vpnInterface' = [vpnInterface EXCEPT ![i] = None]

StartClosesOld(j) ==
    /\ At(j, "start", "closeOld")
    /\ Closed(Inst(j))
    /\ Goto(j, "enter")
    /\ UNCHANGED <<screen, main, lifecycle, process, worker, config, upstream, port, history>>

\* withContext of a cancelled scope ends the coroutine; nothing looks at the
\* cancellation after that.
StartEnters(j) ==
    /\ At(j, "start", "enter")
    /\ Goto(j, IF Inst(j) \in cancelled THEN "done" ELSE "establish")
    /\ UNCHANGED <<screen, main, lifecycle, fields, outside, history>>

StartEstablishes(j) ==
    /\ At(j, "start", "establish")
    /\ \/ /\ vpnInterface' = [vpnInterface EXCEPT ![Inst(j)] = j]
          /\ tuns' = tuns \cup {j}
          /\ Goto(j, "process")
          /\ UNCHANGED disturbances
       \/ /\ vpnInterface' = [vpnInterface EXCEPT ![Inst(j)] = None]
          /\ EndWithStop(j)
          /\ Disturbed
          /\ UNCHANGED tuns
    /\ UNCHANGED <<screen, main, lifecycle, process, worker, config, upstream, port,
                   overlapped, stopped>>

\* The setting for ByeDPI may change from start to start.
Chosen(p) == IF p \in WithoutMethod THEN Cores ELSE {"xray"}

\* A process that cannot listen on its port ends at once.
CoreStarts(j, core) ==
    /\ process' = [process EXCEPT ![Inst(j)][core] = j]
    /\ port' = [port EXCEPT ![core] = IF @ = None THEN j ELSE @]

\* The target is set whether or not the process starts.
GotoConfig(j, core) ==
    jobs' = [jobs EXCEPT ![j] = [@ EXCEPT !.pc = "config", !.target = core]]

StartsProcess(j) ==
    /\ At(j, "start", "process")
    /\ \E core \in Chosen(jobs[j].proxy) :
          /\ \/ CoreStarts(j, core) /\ UNCHANGED disturbances
             \/ UNCHANGED <<process, port>> /\ Disturbed
          /\ GotoConfig(j, core)
    /\ UNCHANGED <<screen, main, lifecycle, vpnInterface, tuns, worker, config, upstream,
                   overlapped, stopped>>

WritesConfig(j) ==
    /\ At(j, "start", "config")
    /\ config' = jobs[j].target
    /\ Goto(j, "native")
    /\ UNCHANGED <<screen, main, lifecycle, fields, tuns, worker, upstream, port, history>>

\* TProxyStartService with the descriptor established above.
StartsNative(j) ==
    /\ At(j, "start", "native")
    /\ \/ /\ worker = None
          /\ worker' = j
          /\ Goto(j, "done")
          /\ UNCHANGED disturbances
       \/ /\ EndWithStop(j)
          /\ IF worker = None THEN Disturbed ELSE UNCHANGED disturbances
          /\ UNCHANGED worker
    /\ UNCHANGED <<screen, main, lifecycle, fields, tuns, config, upstream, port,
                   overlapped, stopped>>

Start(j) ==
    \/ StartBegins(j) \/ StartStopsOld(j) \/ StartClosesOld(j) \/ StartEnters(j)
    \/ StartEstablishes(j) \/ StartsProcess(j) \/ WritesConfig(j) \/ StartsNative(j)

\* The worker is a thread of its own, and reads the file when it begins.
WorkerReads ==
    /\ worker # None /\ upstream = "none"
    /\ upstream' = config
    /\ UNCHANGED <<screen, main, lifecycle, fields, jobs, tuns, worker, config, port, history>>

-----------------------------------------------------------------------------
(* The coroutine of a stop                                                 *)

\* Mutant: without an interface there is nothing to stop.
StopIfUp(j) ==
    /\ At(j, "stop", "launched")
    /\ Goto(j, IF vpnInterface[Inst(j)] = None THEN "stopSelf" ELSE "stopNative")
    /\ UNCHANGED <<screen, main, lifecycle, fields, outside, history>>

StopBegins(j) ==
    /\ At(j, "stop", "launched")
    /\ Goto(j, "stopNative")
    /\ UNCHANGED <<screen, main, lifecycle, fields, outside, history>>

\* Mutants: the descriptor is closed first; the native service is not called.
StopClosesFirst(j) ==
    /\ At(j, "stop", "stopNative")
    /\ tuns' = tuns \ {vpnInterface[Inst(j)]}
    /\ Goto(j, "close")
    /\ UNCHANGED <<screen, main, lifecycle, fields, worker, config, upstream, port, history>>
StopForgetsNative(j) ==
    /\ At(j, "stop", "stopNative")
    /\ Goto(j, "close")
    /\ UNCHANGED <<screen, main, lifecycle, fields, outside, history>>

StopsNative(j) ==
    /\ At(j, "stop", "stopNative")
    /\ WorkerEnds
    /\ Goto(j, "close")
    /\ UNCHANGED <<screen, main, lifecycle, fields, tuns, port, history>>

StopCloses(j) ==
    /\ At(j, "stop", "close")
    /\ Closed(Inst(j))
    /\ Goto(j, "destroy")
    /\ UNCHANGED <<screen, main, lifecycle, process, worker, config, upstream, port, history>>

\* Mutant: the processes are left alone.
StopKeepsProcess(j) ==
    /\ At(j, "stop", "destroy")
    /\ Goto(j, "stopSelf")
    /\ UNCHANGED <<screen, main, lifecycle, fields, outside, history>>

\* The field of Xray keeps the process that was destroyed.
CoresEnd(i) ==
    /\ port' = [c \in Cores |-> IF port[c] = process[i][c] THEN None ELSE port[c]]
    /\ process' = [process EXCEPT ![i]["byedpi"] = None]

StopDestroys(j) ==
    /\ At(j, "stop", "destroy")
    /\ CoresEnd(Inst(j))
    /\ Goto(j, "stopSelf")
    /\ UNCHANGED <<screen, main, lifecycle, vpnInterface, tuns, worker, config, upstream, history>>

StopsSelf(j) ==
    /\ At(j, "stop", "stopSelf")
    /\ StopService(Inst(j))
    /\ Goto(j, "done")
    /\ UNCHANGED <<screen, instance, instances, cancelled, fields, outside, history>>

Stop(j) == StopBegins(j) \/ StopsNative(j) \/ StopCloses(j) \/ StopDestroys(j) \/ StopsSelf(j)

-----------------------------------------------------------------------------
Job(j) == Start(j) \/ Stop(j)
Service == OnStartCommand \/ OnDestroy \/ \E j \in DOMAIN jobs : Job(j)
Next ==
    \/ ToggleOn \/ ToggleOff \/ \E p \in Proxies : Select(p)
    \/ NotificationStop \/ Revoke
    \/ Service \/ WorkerReads

Spec == Init /\ [][Next]_vars

-----------------------------------------------------------------------------
(* Properties                                                              *)

\* The worker's interface is open, and the core it connects to runs; if it is
\* Xray it speaks to proxy p.
Tunneled(p) ==
    /\ worker \in tuns
    /\ port[upstream] # None
    /\ upstream = "xray" => jobs[port["xray"]].proxy = p
Down == worker = None /\ tuns = {} /\ port = Nobody

\* Nothing is left to do, for the worker neither.
Settled == Quiet /\ (worker = None \/ upstream # "none")

\* What the user is told: "with the tunnel on, the IP of the proxy server
\* should be shown here".  When everything has settled, the traffic goes
\* through the proxy selected if the screen says so, or through ByeDPI.
ActiveMeansTunneled == Settled /\ isVpnActive => Tunneled(selectedProxy)

\* It does if each intent finds the work of the one before finished and
\* nothing fails; and nothing is left then when the screen says off.
CalmlyTunneled ==
    Settled /\ ~overlapped /\ disturbances = 0 =>
        IF isVpnActive THEN Tunneled(selectedProxy) ELSE Down

\* Told as literally as that, without ByeDPI, it does not hold even then
\* (README, What was found); no run checks it.
ActiveMeansProxied ==
    Settled /\ ~overlapped /\ disturbances = 0 /\ isVpnActive => upstream = "xray"

\* As long as intents do not overlap the native worker never uses a descriptor
\* that has been closed, whatever fails.
WorkerHasInterface == ~overlapped => worker \in {None} \cup tuns

\* Whatever failed on the way, nothing is left of a service that is gone,
\* unless intents overlapped or the system destroyed it.
NothingLeft == Quiet /\ ~overlapped /\ instance = None => Down

\* A stop that finds everything at rest and is not overtaken by a revocation
\* ends the native worker, whatever overlapped, failed or was destroyed before.
StopStops == Quiet /\ stopped => worker = None
=============================================================================
