----------------------------- MODULE TunnelSync -----------------------------
(***************************************************************************)
(* The start/stop protocol of the tunnel (hev-socks5-tunnel.c, hev-main.c). *)
(*                                                                         *)
(* One worker thread at a time executes hev_socks5_tunnel_main: it reads   *)
(* the configuration, initialises the tunnel, runs the event loop and      *)
(* finalises.  Any number of other threads may call                        *)
(* hev_socks5_tunnel_stop at any moment, also before the first start and   *)
(* between two starts.  They meet in the atomic word tsync and in the      *)
(* socket pair event_fds, which lives only between init and fini.          *)
(*                                                                         *)
(* Each action is one atomic operation on shared state of the code; the    *)
(* usleep loops are the stuttering of a disabled action.                   *)
(***************************************************************************)
EXTENDS Naturals

CONSTANT Stoppers   \* the threads that may call hev_socks5_tunnel_stop

VARIABLES
    tsync,      \* the atomic flag word, as the set of the flags that are set
    run,        \* the tasks of the event loop go on while it is TRUE
    event_fds,  \* the socket pair the stop byte travels through
    pending,    \* bytes written to event_fds[1] and not yet read
    worker,     \* where the thread in hev_socks5_tunnel_main is
    stopper,    \* stopper[s]: where s is in hev_socks5_tunnel_stop
    res         \* res[s]: the local variable res of that call, a flag word

vars == <<tsync, run, event_fds, pending, worker, stopper, res>>

SyncFlags == {"SEND", "SENT", "WAIT", "STOP"}

WorkerPlaces == {"idle", "config", "init", "opened", "ready", "loop", "woken",
                 "clearing", "draining", "fini", "closing"}

StopperPlaces == {"idle", "lock", "locked", "write", "unlock", "aborted"}

TypeOK ==
    /\ tsync \in SUBSET SyncFlags
    /\ run \in BOOLEAN
    /\ event_fds \in {"open", "closed"}
    /\ pending \in Nat
    /\ worker \in WorkerPlaces
    /\ stopper \in [Stoppers -> StopperPlaces]
    /\ res \in [Stoppers -> SUBSET SyncFlags]

Init ==
    /\ tsync = {}
    /\ run = FALSE
    /\ event_fds = "closed"
    /\ pending = 0
    /\ worker = "idle"
    /\ stopper = [s \in Stoppers |-> "idle"]
    /\ res = [s \in Stoppers |-> {}]

-----------------------------------------------------------------------------
(* The worker thread                                                       *)

WorkerAt(from, to) == worker = from /\ worker' = to

Main ==
    /\ WorkerAt("idle", "config")
    /\ UNCHANGED <<tsync, run, event_fds, pending, stopper, res>>

\* The configuration, the loggers or the task system cannot be initialised:
\* main returns without hev_socks5_tunnel_run, which alone consumes STOP.
ConfigFails ==
    /\ WorkerAt("config", "idle")
    /\ UNCHANGED <<tsync, run, event_fds, pending, stopper, res>>

ConfigDone ==
    /\ WorkerAt("config", "init")
    /\ UNCHANGED <<tsync, run, event_fds, pending, stopper, res>>

\* tunnel_init, gateway_init and the socketpair of event_task_init succeed.
OpenEvents ==
    /\ WorkerAt("init", "opened")
    /\ event_fds' = "open"
    /\ pending' = 0
    /\ UNCHANGED <<tsync, run, stopper, res>>

\* Any step of hev_socks5_tunnel_init fails, before or after the socketpair.
InitFails ==
    /\ worker \in {"init", "opened"}
    /\ worker' = "fini"
    /\ UNCHANGED <<tsync, run, event_fds, pending, stopper, res>>

InitDone ==
    /\ WorkerAt("opened", "ready")
    /\ tsync' = tsync \cup {"SEND"}
    /\ UNCHANGED <<run, event_fds, pending, stopper, res>>

\* hev_socks5_tunnel_run consumes STOP and, if it was set, returns at once.
RunStopped ==
    /\ "STOP" \in tsync
    /\ WorkerAt("ready", "fini")
    /\ tsync' = tsync \ {"STOP"}
    /\ UNCHANGED <<run, event_fds, pending, stopper, res>>

RunLoop ==
    /\ "STOP" \notin tsync
    /\ WorkerAt("ready", "loop")
    /\ run' = TRUE
    /\ UNCHANGED <<tsync, event_fds, pending, stopper, res>>

\* The event task is the only reader of event_fds[0] and reads one byte.
EventRead ==
    /\ WorkerAt("loop", "woken")
    /\ pending > 0
    /\ pending' = pending - 1
    /\ UNCHANGED <<tsync, run, event_fds, stopper, res>>

EventClearRun ==
    /\ WorkerAt("woken", "clearing")
    /\ run' = FALSE
    /\ UNCHANGED <<tsync, event_fds, pending, stopper, res>>

EventClearSent ==
    /\ WorkerAt("clearing", "draining")
    /\ tsync' = tsync \ {"SENT"}
    /\ UNCHANGED <<run, event_fds, pending, stopper, res>>

\* Every task has ended and hev_task_system_run returns.
LoopEnds ==
    /\ WorkerAt("draining", "fini")
    /\ UNCHANGED <<tsync, run, event_fds, pending, stopper, res>>

\* Mutant: fini does not wait for a caller that holds WAIT.
FiniNoRetry ==
    /\ WorkerAt("fini", "closing")
    /\ tsync' = tsync \ {"SEND", "SENT"}
    /\ UNCHANGED <<run, event_fds, pending, stopper, res>>

\* Mutant: fini leaves SENT set for the next run.
FiniKeepsSent ==
    /\ worker = "fini"
    /\ tsync' = tsync \ {"SEND"}
    /\ worker' = IF "WAIT" \in tsync THEN "fini" ELSE "closing"
    /\ UNCHANGED <<run, event_fds, pending, stopper, res>>

\* The retry loop of hev_socks5_tunnel_fini: SEND and SENT are cleared and
\* WAIT is read in one atomic operation.
FiniRetry ==
    /\ worker = "fini"
    /\ tsync' = tsync \ {"SEND", "SENT"}
    /\ worker' = IF "WAIT" \in tsync THEN "fini" ELSE "closing"
    /\ UNCHANGED <<run, event_fds, pending, stopper, res>>

CloseEvents ==
    /\ WorkerAt("closing", "idle")
    /\ event_fds' = "closed"
    /\ pending' = 0
    /\ UNCHANGED <<tsync, run, stopper, res>>

Worker ==
    \/ Main \/ ConfigFails \/ ConfigDone
    \/ OpenEvents \/ InitFails \/ InitDone
    \/ RunStopped \/ RunLoop
    \/ EventRead \/ EventClearRun \/ EventClearSent \/ LoopEnds
    \/ FiniRetry \/ CloseEvents

-----------------------------------------------------------------------------
(* hev_socks5_tunnel_stop, called by thread s                              *)

StopperAt(s, from, to) ==
    stopper[s] = from /\ stopper' = [stopper EXCEPT ![s] = to]

StopCall(s) ==
    /\ StopperAt(s, "idle", "lock")
    /\ UNCHANGED <<tsync, run, event_fds, pending, worker, res>>

\* fetch_or WAIT: the word read here also decides the branch taken later.
StopLock(s) ==
    /\ "WAIT" \notin tsync
    /\ StopperAt(s, "lock", "locked")
    /\ res' = [res EXCEPT ![s] = tsync]
    /\ tsync' = tsync \cup {"WAIT"}
    /\ UNCHANGED <<run, event_fds, pending, worker>>

StopSent(s) ==
    /\ "SEND" \in res[s]
    /\ StopperAt(s, "locked", IF "SENT" \in tsync THEN "unlock" ELSE "write")
    /\ res' = [res EXCEPT ![s] = tsync]
    /\ tsync' = tsync \cup {"SENT"}
    /\ UNCHANGED <<run, event_fds, pending, worker>>

StopMark(s) ==
    /\ "SEND" \notin res[s]
    /\ StopperAt(s, "locked", "unlock")
    /\ tsync' = tsync \cup {"STOP"}
    /\ UNCHANGED <<run, event_fds, pending, worker, res>>

\* write to event_fds[1]; on a closed descriptor the assertion aborts.
StopWrite(s) ==
    /\ StopperAt(s, "write", IF event_fds = "open" THEN "unlock" ELSE "aborted")
    /\ pending' = IF event_fds = "open" THEN pending + 1 ELSE pending
    /\ UNCHANGED <<tsync, run, event_fds, worker, res>>

StopUnlock(s) ==
    /\ StopperAt(s, "unlock", "idle")
    /\ tsync' = tsync \ {"WAIT"}
    /\ UNCHANGED <<run, event_fds, pending, worker, res>>

\* The steps of a call that has begun.
StopSteps(s) ==
    \/ StopLock(s) \/ StopSent(s) \/ StopMark(s) \/ StopWrite(s) \/ StopUnlock(s)

Stop(s) == StopCall(s) \/ StopSteps(s)

-----------------------------------------------------------------------------
Next == Worker \/ \E s \in Stoppers : Stop(s)

Spec == Init /\ [][Next]_vars

-----------------------------------------------------------------------------
(* Properties                                                              *)

\* A call of hev_socks5_tunnel_stop that is past its spin lock.
Holding(s) == stopper[s] \in {"locked", "write", "unlock"}

\* The assertion in hev_socks5_tunnel_stop never fails, and the byte never
\* goes to a descriptor that fini has closed (and the process may have
\* reused): whoever is about to write finds the socket pair open, however
\* many calls race with init, fini and a restart.
StopWritesOpenSocket ==
    \A s \in Stoppers :
        /\ stopper[s] = "write" => event_fds = "open"
        /\ stopper[s] # "aborted"

\* However often stop is called, at most two bytes are ever in the socket (a
\* call after the event task has cleared SENT, and a call that fini's retry
\* loop meets holding WAIT): the write inside the spin lock never blocks.
AtMostTwoWakes == pending <= 2

\* A stop byte is never lost: while the loop runs, the SENT flag that makes
\* later calls skip their write is set only if a byte is in the socket or a
\* caller is about to write it.
SentMeansWake ==
    worker \in {"ready", "loop"} /\ "SENT" \in tsync =>
        pending = 1 \/ \E s \in Stoppers : stopper[s] = "write"
=============================================================================
