--------------------------- MODULE TunnelJniProofs ----------------------------
(***************************************************************************)
(* Proofs about TunnelSync, for any set of threads that call stop, and      *)
(* about TunnelJni above it, for any set of Java threads.                  *)
(***************************************************************************)
EXTENDS TunnelJni, TLAPS

-----------------------------------------------------------------------------
(* The worker and the callers of stop (TunnelSync)                         *)

\* s holds WAIT and has decided, or will decide, to write the stop byte.
Armed(s) ==
    stopper[s] = "write" \/ (stopper[s] = "locked" /\ "SEND" \in res[s])

\* WAIT is a lock: a thread past the spin loop is the only one there.
WaitExcludes ==
    /\ \A s \in Stoppers : Holding(s) => "WAIT" \in tsync
    /\ \A s, t \in Stoppers : Holding(s) /\ Holding(t) => s = t

\* From init's SEND to the end of fini's retry loop.
UpPlaces == {"ready", "loop", "woken", "clearing", "draining", "fini"}

\* The flags SEND and SENT and an armed caller exist only while the worker is
\* up and the socket pair is open.
UpWhileSend ==
    /\ "SEND" \in tsync \/ "SENT" \in tsync \/ (\E s \in Stoppers : Armed(s))
         => worker \in UpPlaces /\ event_fds = "open"
    /\ worker \in (UpPlaces \ {"fini"}) \cup {"opened"} => event_fds = "open"

NoAbort == \A s \in Stoppers : stopper[s] # "aborted"

Writing == \E s \in Stoppers : stopper[s] = "write"

\* How many bytes the socket holds, by the place of the worker.
WakeCount ==
    /\ worker = "opened" => pending = 0
    /\ worker \in {"ready", "loop", "draining"} =>
         /\ "SENT" \notin tsync => pending = 0 /\ ~Writing
         /\ "SENT" \in tsync => IF Writing THEN pending = 0 ELSE pending = 1
    /\ worker \in {"woken", "clearing"} =>
         pending = 0 /\ "SENT" \in tsync /\ ~Writing
    /\ pending <= 2
    /\ (\E s \in Stoppers : Armed(s)) => pending <= 1
    /\ worker = "fini" /\ "SEND" \in tsync =>
         /\ pending <= 1
         /\ "SENT" \in tsync \/ pending = 0
         /\ Writing => pending = 0 /\ "SENT" \in tsync

\* TypeOK and the facts above, together preserved by every step.
IInv == TypeOK /\ WaitExcludes /\ UpWhileSend /\ NoAbort /\ WakeCount

-----------------------------------------------------------------------------
LEMMA InitIInv == Init => IInv
<1> SUFFICES ASSUME Init PROVE IInv
  OBVIOUS
<1>1. TypeOK
  BY DEF Init, TypeOK, SyncFlags, WorkerPlaces, StopperPlaces
<1>2. \A s \in Stoppers : stopper[s] = "idle"
  BY DEF Init
<1>3. WaitExcludes /\ NoAbort
  BY <1>2 DEF WaitExcludes, NoAbort, Holding
<1>4. UpWhileSend
  BY <1>2 DEF Init, UpWhileSend, Armed, UpPlaces
<1>5. WakeCount
  BY <1>2 DEF Init, WakeCount, Armed, Writing
<1>6. QED BY <1>1, <1>3, <1>4, <1>5 DEF IInv

LEMMA WorkerIInv == IInv /\ Worker => IInv'
<1> SUFFICES ASSUME IInv, Worker PROVE IInv'
  OBVIOUS
<1> USE DEF IInv, TypeOK, SyncFlags, WorkerPlaces, StopperPlaces, WaitExcludes,
            Holding, UpWhileSend, Armed, UpPlaces, NoAbort, WakeCount, Writing,
            WorkerAt
<1>1. CASE Main           BY <1>1 DEF Main
<1>2. CASE ConfigFails    BY <1>2 DEF ConfigFails
<1>3. CASE ConfigDone     BY <1>3 DEF ConfigDone
<1>4. CASE OpenEvents     BY <1>4 DEF OpenEvents
<1>5. CASE InitFails      BY <1>5 DEF InitFails
<1>6. CASE InitDone       BY <1>6 DEF InitDone
<1>7. CASE RunStopped     BY <1>7 DEF RunStopped
<1>8. CASE RunLoop        BY <1>8 DEF RunLoop
<1>9. CASE EventRead      BY <1>9 DEF EventRead
<1>10. CASE EventClearRun  BY <1>10 DEF EventClearRun
<1>11. CASE EventClearSent BY <1>11 DEF EventClearSent
<1>12. CASE LoopEnds       BY <1>12 DEF LoopEnds
<1>13. CASE FiniRetry      BY <1>13 DEF FiniRetry
<1>14. CASE CloseEvents    BY <1>14 DEF CloseEvents
<1>15. QED BY <1>1, <1>2, <1>3, <1>4, <1>5, <1>6, <1>7, <1>8, <1>9, <1>10,
              <1>11, <1>12, <1>13, <1>14 DEF Worker

LEMMA StopIInv ==
    ASSUME NEW s \in Stoppers, IInv, Stop(s)
    PROVE  IInv'
<1> USE DEF IInv, TypeOK, SyncFlags, WorkerPlaces, StopperPlaces, WaitExcludes,
            Holding, UpWhileSend, Armed, UpPlaces, NoAbort, WakeCount, Writing,
            StopperAt
<1>1. CASE StopCall(s)   BY <1>1 DEF StopCall
<1>2. CASE StopLock(s)   BY <1>2 DEF StopLock
<1>3. CASE StopSent(s)   BY <1>3 DEF StopSent
<1>4. CASE StopMark(s)   BY <1>4 DEF StopMark
<1>5. CASE StopWrite(s)  BY <1>5 DEF StopWrite
<1>6. CASE StopUnlock(s) BY <1>6 DEF StopUnlock
<1>7. QED BY <1>1, <1>2, <1>3, <1>4, <1>5, <1>6 DEF Stop, StopSteps

THEOREM TunnelSyncInvariant == Spec => []IInv
<1>1. IInv /\ [Next]_vars => IInv'
  <2> SUFFICES ASSUME IInv, [Next]_vars PROVE IInv'
    OBVIOUS
  <2>1. CASE Worker  BY <2>1, WorkerIInv
  <2>2. CASE \E s \in Stoppers : Stop(s)  BY <2>2, StopIInv
  <2>3. CASE UNCHANGED vars
    BY <2>3 DEF IInv, TypeOK, WaitExcludes, Holding, UpWhileSend, Armed,
                NoAbort, WakeCount, Writing, vars
  <2>4. QED BY <2>1, <2>2, <2>3 DEF Next
<1>2. QED BY InitIInv, <1>1, PTL DEF Spec

-----------------------------------------------------------------------------
\* The state stays well typed.
THEOREM TypeCorrect == Spec => []TypeOK
<1>1. IInv => TypeOK  BY DEF IInv
<1>2. QED BY TunnelSyncInvariant, <1>1, PTL

\* However many threads call stop, and whenever, the assertion in
\* hev_socks5_tunnel_stop never fails and no byte goes to a closed descriptor.
THEOREM StopIsSafe == Spec => []StopWritesOpenSocket
<1>1. IInv => StopWritesOpenSocket
  BY DEF IInv, UpWhileSend, Armed, NoAbort, StopWritesOpenSocket
<1>2. QED BY TunnelSyncInvariant, <1>1, PTL

\* The event socket never holds more than two bytes, however many threads
\* call stop and however often.
THEOREM WakesAreBounded == Spec => []AtMostTwoWakes
<1>1. IInv => AtMostTwoWakes  BY DEF IInv, WakeCount, AtMostTwoWakes
<1>2. QED BY TunnelSyncInvariant, <1>1, PTL

\* A stop that relies on the byte of an earlier call never relies in vain.
THEOREM StopByteIsNotLost == Spec => []SentMeansWake
<1>1. IInv => SentMeansWake
  BY DEF IInv, WakeCount, Writing, SentMeansWake
<1>2. QED BY TunnelSyncInvariant, <1>1, PTL

-----------------------------------------------------------------------------
(* The JNI service around them (TunnelJni)                                 *)

Inside == {"start", "alloc", "create", "stop", "quit", "join"}

\* The mutex excludes: a caller past its lock is the holder.
MutexExcludes == \A c \in Stoppers : native[c] \in Inside => mutex = c

\* The caller that is about to create a thread has joined the old one, and
\* is_running stays set from its mark on.
CreateIsExclusive ==
    \A c \in Stoppers :
        /\ native[c] \in {"alloc", "create"} => thread = "none"
        /\ native[c] = "create" => is_running

ThreadFlags ==
    /\ thread_joinable <=> thread # "none"
    /\ thread \in {"entry", "main"} => is_running

\* Outside thread_handler's call of main the tunnel's static state is at rest.
TunnelDown ==
    /\ thread # "main" => worker = "idle"
    /\ worker \in {"idle", "config", "init"} => event_fds = "closed"

JInv == JniTypeOK /\ MutexExcludes /\ CreateIsExclusive /\ ThreadFlags /\ TunnelDown

-----------------------------------------------------------------------------
LEMMA JniInitInv == JniInit => JInv
<1> SUFFICES ASSUME JniInit PROVE JInv
  OBVIOUS
<1>1. TypeOK
  BY DEF JniInit, Init, TypeOK, SyncFlags, WorkerPlaces, StopperPlaces
<1>2. JniTypeOK
  BY <1>1 DEF JniInit, JniTypeOK, ThreadPlaces, NativePlaces
<1>3. \A c \in Stoppers : native[c] = "idle"
  BY DEF JniInit
<1>4. MutexExcludes /\ CreateIsExclusive
  BY <1>3 DEF MutexExcludes, Inside, CreateIsExclusive
<1>5. ThreadFlags /\ TunnelDown
  BY DEF JniInit, Init, ThreadFlags, TunnelDown
<1>6. QED BY <1>2, <1>4, <1>5 DEF JInv

\* Every step of the tunnel keeps the state well typed, and opens or closes
\* the socket pair only where TunnelDown allows it.
LEMMA WorkerStep ==
    ASSUME TypeOK, Worker,
           worker \in {"idle", "config", "init"} => event_fds = "closed"
    PROVE  /\ TypeOK'
           /\ worker' \in {"idle", "config", "init"} => event_fds' = "closed"
<1> USE DEF TypeOK, SyncFlags, WorkerPlaces, StopperPlaces, WorkerAt
<1>1. CASE Main           BY <1>1 DEF Main
<1>2. CASE ConfigFails    BY <1>2 DEF ConfigFails
<1>3. CASE ConfigDone     BY <1>3 DEF ConfigDone
<1>4. CASE OpenEvents     BY <1>4 DEF OpenEvents
<1>5. CASE InitFails      BY <1>5 DEF InitFails
<1>6. CASE InitDone       BY <1>6 DEF InitDone
<1>7. CASE RunStopped     BY <1>7 DEF RunStopped
<1>8. CASE RunLoop        BY <1>8 DEF RunLoop
<1>9. CASE EventRead      BY <1>9 DEF EventRead
<1>10. CASE EventClearRun  BY <1>10 DEF EventClearRun
<1>11. CASE EventClearSent BY <1>11 DEF EventClearSent
<1>12. CASE LoopEnds       BY <1>12 DEF LoopEnds
<1>13. CASE FiniRetry      BY <1>13 DEF FiniRetry
<1>14. CASE CloseEvents    BY <1>14 DEF CloseEvents
<1>15. QED BY <1>1, <1>2, <1>3, <1>4, <1>5, <1>6, <1>7, <1>8, <1>9, <1>10,
              <1>11, <1>12, <1>13, <1>14 DEF Worker

LEMMA StopStep ==
    ASSUME TypeOK, NEW s \in Stoppers, Stop(s)
    PROVE  TypeOK' /\ UNCHANGED <<worker, event_fds>>
<1> USE DEF TypeOK, SyncFlags, StopperPlaces, StopperAt
<1>1. CASE StopCall(s)   BY <1>1 DEF StopCall
<1>2. CASE StopLock(s)   BY <1>2 DEF StopLock
<1>3. CASE StopSent(s)   BY <1>3 DEF StopSent
<1>4. CASE StopMark(s)   BY <1>4 DEF StopMark
<1>5. CASE StopWrite(s)  BY <1>5 DEF StopWrite
<1>6. CASE StopUnlock(s) BY <1>6 DEF StopUnlock
<1>7. QED BY <1>1, <1>2, <1>3, <1>4, <1>5, <1>6 DEF Stop, StopSteps

LEMMA ThreadInv == JInv /\ Thread => JInv'
<1> SUFFICES ASSUME JInv, Thread PROVE JInv'
  OBVIOUS
<1> USE DEF JInv, JniTypeOK, MutexExcludes, CreateIsExclusive, ThreadFlags,
            TunnelDown, Inside, ThreadPlaces, NativePlaces
<1>1. CASE ThreadMain
  <2>1. Worker  BY <1>1 DEF ThreadMain, Worker
  <2>2. QED BY <1>1, <2>1, WorkerStep DEF ThreadMain
<1>2. CASE ThreadStep   BY <1>2, WorkerStep DEF ThreadStep
<1>3. CASE ThreadStore  BY <1>3 DEF ThreadStore, vars, TypeOK
<1>4. QED BY <1>1, <1>2, <1>3 DEF Thread

LEMMA NativeInv ==
    ASSUME JInv, NEW c \in Stoppers, Native(c)
    PROVE  JInv'
<1> USE NoThreadIsNoStopper
<1> USE DEF JInv, JniTypeOK, MutexExcludes, CreateIsExclusive, ThreadFlags,
            TunnelDown, Inside, ThreadPlaces, NativePlaces, NativeAt, Return
<1>1. UNCHANGED vars => TypeOK' /\ UNCHANGED <<worker, event_fds>>
  BY DEF vars, TypeOK
<1>2. CASE StartCall(c)         BY <1>1, <1>2 DEF StartCall
<1>3. CASE StartLock(c)         BY <1>1, <1>3 DEF StartLock
<1>4. CASE StartRefused(c)      BY <1>1, <1>4 DEF StartRefused
<1>5. CASE StartFresh(c)        BY <1>1, <1>5 DEF StartFresh
<1>6. CASE StartJoin(c)         BY <1>1, <1>6 DEF StartJoin
<1>7. CASE StartAllocFails(c)   BY <1>1, <1>7 DEF StartAllocFails
<1>8. CASE StartMark(c)         BY <1>1, <1>8 DEF StartMark
<1>9. CASE StartCreate(c)       BY <1>1, <1>9 DEF StartCreate
<1>10. CASE StartCreateFails(c) BY <1>1, <1>10 DEF StartCreateFails
<1>11. CASE StopServiceCall(c)  BY <1>1, <1>11 DEF StopServiceCall
<1>12. CASE StopServiceLock(c)  BY <1>1, <1>12 DEF StopServiceLock
<1>13. CASE StopServiceIdle(c)  BY <1>1, <1>13 DEF StopServiceIdle
<1>14. CASE StopServiceQuit(c)
  <2>1. Stop(c)  BY <1>14 DEF StopServiceQuit, Stop
  <2>2. QED BY <1>14, <2>1, StopStep DEF StopServiceQuit
<1>15. CASE StopServiceEnded(c) BY <1>1, <1>15 DEF StopServiceEnded
<1>16. CASE StopServiceStep(c)
  <2>1. Stop(c)  BY <1>16 DEF StopServiceStep, Stop
  <2>2. QED BY <1>16, <2>1, StopStep DEF StopServiceStep
<1>17. CASE StopServiceJoin(c)  BY <1>1, <1>17 DEF StopServiceJoin
<1>18. QED BY <1>2, <1>3, <1>4, <1>5, <1>6, <1>7, <1>8, <1>9, <1>10, <1>11, <1>12,
              <1>13, <1>14, <1>15, <1>16, <1>17 DEF Native, NativeSteps

THEOREM JniInvariant == JniSpec => []JInv
<1>1. JInv /\ [JniNext]_allVars => JInv'
  <2> SUFFICES ASSUME JInv, [JniNext]_allVars PROVE JInv'
    OBVIOUS
  <2>1. CASE Thread  BY <2>1, ThreadInv
  <2>2. CASE \E c \in Stoppers : Native(c)  BY <2>2, NativeInv
  <2>3. CASE UNCHANGED allVars
    BY <2>3 DEF JInv, JniTypeOK, TypeOK, MutexExcludes, CreateIsExclusive,
                ThreadFlags, TunnelDown, allVars, vars, jniVars
  <2>4. QED BY <2>1, <2>2, <2>3 DEF JniNext
<1>2. QED BY JniInitInv, <1>1, PTL DEF JniSpec

-----------------------------------------------------------------------------
\* The flags, the mutex and the places of all threads keep their types.
THEOREM JniTypeCorrect == JniSpec => []JniTypeOK
<1>1. JInv => JniTypeOK  BY DEF JInv
<1>2. QED BY JniInvariant, <1>1, PTL

\* Two workers never share the tunnel's static state, whatever Java threads
\* call start and stop.
THEOREM WorkersNeverOverlap == JniSpec => []OneWorker
<1>1. JInv => OneWorker  BY DEF JInv, CreateIsExclusive, OneWorker
<1>2. QED BY JniInvariant, <1>1, PTL

\* TProxyIsRunning never denies a worker that is still inside main.
THEOREM IsRunningIsTruthful == JniSpec => []IsRunningWhileMain
<1>1. JInv => IsRunningWhileMain  BY DEF JInv, ThreadFlags, IsRunningWhileMain
<1>2. QED BY JniInvariant, <1>1, PTL

\* When TProxyStopService returns, no worker is left that could use the TUN
\* descriptor the service is about to close.
THEOREM StopIsComplete == JniSpec => StopLeavesTunnelDown
<1> DEFINE Down == \A c \in Stoppers :
              native[c] \in {"stop", "join"} /\ native'[c] = "idle" =>
                  thread' = "none" /\ worker = "idle" /\ event_fds = "closed"
<1>1. JInv /\ [JniNext]_allVars => [Down]_allVars
  <2> SUFFICES ASSUME JInv, JniNext, NEW c \in Stoppers,
                      native[c] \in {"stop", "join"}, native'[c] = "idle"
               PROVE  thread' = "none" /\ worker = "idle" /\ event_fds = "closed"
    OBVIOUS
  <2> USE DEF JInv, JniTypeOK, NativePlaces
  <2>1. CASE Thread
    BY <2>1 DEF Thread, ThreadMain, ThreadStep, ThreadStore
  <2>2. ASSUME NEW d \in Stoppers, Native(d), d # c
        PROVE  native'[c] = native[c]
    BY <2>2 DEF Native, NativeSteps, StartCall, StartLock, StartRefused,
       StartFresh, StartJoin, StartAllocFails, StartMark, StartCreate,
       StartCreateFails, StopServiceCall, StopServiceLock, StopServiceIdle,
       StopServiceQuit, StopServiceEnded, StopServiceStep, StopServiceJoin,
       NativeAt, Return
  <2>3. CASE Native(c)
    <3>1. StopServiceIdle(c) \/ StopServiceJoin(c)
      BY <2>3 DEF Native, NativeSteps, StartCall, StartLock, StartRefused,
         StartFresh, StartJoin, StartAllocFails, StartMark, StartCreate,
         StartCreateFails, StopServiceCall, StopServiceLock,
         StopServiceQuit, StopServiceEnded, StopServiceStep, NativeAt, Return
    <3>2. QED BY <3>1 DEF StopServiceIdle, StopServiceJoin, ThreadFlags, TunnelDown
  <2>4. QED BY <2>1, <2>2, <2>3 DEF JniNext
<1>2. QED BY JniInvariant, <1>1, PTL DEF JniSpec, StopLeavesTunnelDown
=============================================================================
