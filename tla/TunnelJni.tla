----------------------------- MODULE TunnelJni ------------------------------
(***************************************************************************)
(* The JNI service around the tunnel (hev-jni.c): TProxyStartService and   *)
(* TProxyStopService may be called by several Java threads; one mutex      *)
(* serialises them, and the tunnel runs in a thread of its own that        *)
(* native_start_service creates and either native function joins.          *)
(*                                                                         *)
(* The module composes with TunnelSync: its Stoppers are the Java threads, *)
(* and its Worker steps are taken by the created thread.                   *)
(***************************************************************************)
EXTENDS TunnelSync

VARIABLES
    mutex,            \* the thread that holds the mutex, or NoThread
    is_running,       \* the atomic is_running
    thread_joinable,  \* the flag thread_joinable
    thread,           \* where the thread work_thread names is
    native,           \* native[c]: where Java thread c is in a native call
    quitted           \* history: quit was called since the last start call

jniVars == <<mutex, is_running, thread_joinable, thread, native, quitted>>
allVars == <<vars, jniVars>>

CONSTANT NoThread
ASSUME NoThreadIsNoStopper == NoThread \notin Stoppers

ThreadPlaces == {"none", "entry", "main", "store", "exited"}

NativePlaces == {"idle", "startLock", "start", "alloc", "create",
                 "stopLock", "stop", "quit", "join"}

JniTypeOK ==
    /\ TypeOK
    /\ mutex \in Stoppers \cup {NoThread}
    /\ is_running \in BOOLEAN
    /\ thread_joinable \in BOOLEAN
    /\ thread \in ThreadPlaces
    /\ native \in [Stoppers -> NativePlaces]
    /\ quitted \in BOOLEAN

JniInit ==
    /\ Init
    /\ mutex = NoThread
    /\ is_running = FALSE
    /\ thread_joinable = FALSE
    /\ thread = "none"
    /\ native = [c \in Stoppers |-> "idle"]
    /\ quitted = FALSE

-----------------------------------------------------------------------------
(* thread_handler                                                          *)

ThreadMain ==
    /\ thread = "entry"
    /\ Main
    /\ thread' = "main"
    /\ UNCHANGED <<mutex, is_running, thread_joinable, native, quitted>>

ThreadStep ==
    /\ thread = "main"
    /\ Worker
    /\ thread' = IF worker' = "idle" THEN "store" ELSE "main"
    /\ UNCHANGED <<mutex, is_running, thread_joinable, native, quitted>>

ThreadStore ==
    /\ thread = "store"
    /\ is_running' = FALSE
    /\ thread' = "exited"
    /\ UNCHANGED <<vars, mutex, thread_joinable, native, quitted>>

Thread == ThreadMain \/ ThreadStep \/ ThreadStore

-----------------------------------------------------------------------------
(* native_start_service and native_stop_service                            *)

NativeAt(c, from, to) ==
    native[c] = from /\ native' = [native EXCEPT ![c] = to]

\* c leaves the native function and unlocks the mutex.
Return(c, from) == NativeAt(c, from, "idle") /\ mutex' = NoThread

StartCall(c) ==
    /\ NativeAt(c, "idle", "startLock")
    /\ UNCHANGED <<vars, mutex, is_running, thread_joinable, thread, quitted>>

StartLock(c) ==
    /\ mutex = NoThread
    /\ mutex' = c
    /\ NativeAt(c, "startLock", "start")
    /\ UNCHANGED <<vars, is_running, thread_joinable, thread, quitted>>

StartRefused(c) ==
    /\ is_running
    /\ Return(c, "start")
    /\ UNCHANGED <<vars, is_running, thread_joinable, thread, quitted>>

StartFresh(c) ==
    /\ ~is_running
    /\ ~thread_joinable
    /\ NativeAt(c, "start", "alloc")
    /\ UNCHANGED <<vars, mutex, is_running, thread_joinable, thread, quitted>>

\* Mutant: the thread that ended is not joined.
StartNoJoin(c) ==
    /\ ~is_running
    /\ thread_joinable
    /\ NativeAt(c, "start", "alloc")
    /\ UNCHANGED <<vars, mutex, is_running, thread_joinable, thread, quitted>>

\* pthread_join of a thread that stopped by itself.
StartJoin(c) ==
    /\ ~is_running
    /\ thread_joinable
    /\ thread = "exited"
    /\ NativeAt(c, "start", "alloc")
    /\ thread' = "none"
    /\ thread_joinable' = FALSE
    /\ UNCHANGED <<vars, mutex, is_running, quitted>>

\* malloc, GetStringUTFChars or strdup returns NULL.
StartAllocFails(c) ==
    /\ Return(c, "alloc")
    /\ UNCHANGED <<vars, is_running, thread_joinable, thread, quitted>>

\* Mutant: is_running is not set before the thread is created.
StartNoMark(c) ==
    /\ NativeAt(c, "alloc", "create")
    /\ UNCHANGED <<vars, mutex, is_running, thread_joinable, thread, quitted>>

StartMark(c) ==
    /\ NativeAt(c, "alloc", "create")
    /\ is_running' = TRUE
    /\ UNCHANGED <<vars, mutex, thread_joinable, thread, quitted>>

StartCreate(c) ==
    /\ Return(c, "create")
    /\ thread' = "entry"
    /\ thread_joinable' = TRUE
    /\ quitted' = FALSE
    /\ UNCHANGED <<vars, is_running>>

StartCreateFails(c) ==
    /\ Return(c, "create")
    /\ is_running' = FALSE
    /\ UNCHANGED <<vars, thread_joinable, thread, quitted>>

StopServiceCall(c) ==
    /\ NativeAt(c, "idle", "stopLock")
    /\ UNCHANGED <<vars, mutex, is_running, thread_joinable, thread, quitted>>

StopServiceLock(c) ==
    /\ mutex = NoThread
    /\ mutex' = c
    /\ NativeAt(c, "stopLock", "stop")
    /\ UNCHANGED <<vars, is_running, thread_joinable, thread, quitted>>

StopServiceIdle(c) ==
    /\ ~thread_joinable
    /\ Return(c, "stop")
    /\ UNCHANGED <<vars, is_running, thread_joinable, thread, quitted>>

\* is_running is read before hev_socks5_tunnel_quit acts on it.
StopServiceQuit(c) ==
    /\ thread_joinable
    /\ is_running
    /\ NativeAt(c, "stop", "quit")
    /\ StopCall(c)
    /\ quitted' = TRUE
    /\ UNCHANGED <<mutex, is_running, thread_joinable, thread>>

StopServiceEnded(c) ==
    /\ thread_joinable
    /\ ~is_running
    /\ NativeAt(c, "stop", "join")
    /\ UNCHANGED <<vars, mutex, is_running, thread_joinable, thread, quitted>>

StopServiceStep(c) ==
    /\ native[c] = "quit"
    /\ StopSteps(c)
    /\ native' = [native EXCEPT ![c] = IF stopper'[c] = "idle" THEN "join" ELSE @]
    /\ UNCHANGED <<mutex, is_running, thread_joinable, thread, quitted>>

\* Mutant: the native call returns without joining the worker.
StopServiceNoJoin(c) ==
    /\ Return(c, "join")
    /\ is_running' = FALSE
    /\ UNCHANGED <<vars, thread_joinable, thread, quitted>>

StopServiceJoin(c) ==
    /\ thread = "exited"
    /\ Return(c, "join")
    /\ thread' = "none"
    /\ thread_joinable' = FALSE
    /\ is_running' = FALSE
    /\ UNCHANGED <<vars, quitted>>

\* The steps of a native call that has begun.
NativeSteps(c) ==
    \/ StartLock(c) \/ StartRefused(c) \/ StartFresh(c) \/ StartJoin(c)
    \/ StartAllocFails(c) \/ StartMark(c) \/ StartCreate(c) \/ StartCreateFails(c)
    \/ StopServiceLock(c) \/ StopServiceIdle(c) \/ StopServiceQuit(c)
    \/ StopServiceEnded(c) \/ StopServiceStep(c) \/ StopServiceJoin(c)

Native(c) == StartCall(c) \/ StopServiceCall(c) \/ NativeSteps(c)

-----------------------------------------------------------------------------
JniNext == Thread \/ \E c \in Stoppers : Native(c)

JniSpec == JniInit /\ [][JniNext]_allVars

\* The operating system runs every thread that can run.  The application
\* never has to make a call.
JniFairness ==
    /\ WF_allVars(Thread)
    /\ \A c \in Stoppers : WF_allVars(NativeSteps(c))

JniFairSpec == JniSpec /\ JniFairness

-----------------------------------------------------------------------------
(* Properties                                                              *)

\* The tunnel's state is static, so two workers must never overlap:
\* native_start_service reaches pthread_create only when no thread exists.
OneWorker == \A c \in Stoppers : native[c] = "create" => thread = "none"

\* While hev_socks5_tunnel_main has not returned, is_running is set: the
\* store by a thread that ends never wipes out the mark of a newer start.
IsRunningWhileMain == thread \in {"entry", "main"} => is_running

\* When TProxyStopService returns, the worker is gone and has closed its
\* descriptors: TunnelVpnService closes the TUN descriptor right after it,
\* which the worker must not be using any more.
StopLeavesTunnelDown ==
    [][\A c \in Stoppers :
          native[c] \in {"stop", "join"} /\ native'[c] = "idle" =>
              thread' = "none" /\ worker = "idle" /\ event_fds = "closed"]_allVars

\* A quit that finds the tunnel initialised is delivered: the worker leaves
\* hev_socks5_tunnel_main.
DeliveredQuitEndsWorker ==
    \A c \in Stoppers :
        stopper[c] = "locked" /\ "SEND" \in res[c] ~> worker = "idle"

\* hev-main.h: hev_socks5_tunnel_main "blocks until the
\* hev_socks5_tunnel_quit is called or an error occurs".  A worker leaves
\* hev_socks5_tunnel_run only if quit was called since it was started.  This
\* does not hold (README, What was found); no run checks it.
RunsUntilQuit == [][RunStopped => quitted]_allVars

\* hev-main.h, the other half: once quit has been called main stops
\* blocking, so native_stop_service returns from pthread_join.
QuitEndsMain == \A c \in Stoppers : native[c] = "quit" ~> native[c] = "idle"
=============================================================================
