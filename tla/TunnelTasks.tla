---------------------------- MODULE TunnelTasks ----------------------------
(***************************************************************************)
(* The event loop of the tunnel: its three service tasks and the session   *)
(* tasks (hev-socks5-tunnel.c, hev-socks5-session*.c) on the cooperative   *)
(* scheduler of hev-task-system.                                           *)
(*                                                                         *)
(* One thread executes everything.  A task keeps the processor from the    *)
(* moment it is resumed to its next yield, so that each action below is    *)
(* one such burst, with every call made in it.  The exception is the       *)
(* packet reader: while the TUN descriptor has data it handles packet      *)
(* after packet without a yield, and its burst is several actions during   *)
(* which io = "running" and no other task can step.                        *)
(*                                                                         *)
(* A session gets its work from lwIP through that reader.  credit[s] is    *)
(* what session s can still do without it: bytes in its queue and space in *)
(* its ring buffer.                                                        *)
(***************************************************************************)
EXTENDS Integers, Sequences, FiniteSets, SequencesExt

CONSTANTS
    Sessions,         \* the session objects, with the task each one runs in
    MaxSessionCount,  \* the setting max-session-count, 0 for no limit
    Credit,           \* bound: splice steps one delivery from lwIP pays for
    TaskNewMayFail,   \* hev_task_new may find no memory for a stack
    TunMayFail        \* reading the TUN descriptor may fail for good

ASSUME MaxSessionCountAssumption == MaxSessionCount \in Nat
ASSUME CreditAssumption == Credit \in Nat \ {0}

VARIABLES
    session_set,    \* the list of sessions, in order of their last activity
    session_count,
    run,            \* the tasks go on while it is TRUE
    stop_byte,      \* hev_socks5_tunnel_stop has written to the event socket
    task,           \* task[s]: "none" before it is run and after it ended
    phase,          \* phase[s]: where the session is, or "mutex" if it waits for it
    timeout,        \* timeout[s]: the field of HevSocks5, "zero" if terminated
    credit,
    io,             \* the task task_lwip_io
    timer,          \* the task task_lwip_timer
    event,          \* the task task_event
    aborted         \* the scheduler called abort()

session == <<session_set, session_count, task, phase, timeout, credit>>
vars == <<session, run, stop_byte, io, timer, event, aborted>>

TypeOK ==
    /\ session_set \in Seq(Sessions)
    /\ session_count \in Nat
    /\ run \in BOOLEAN
    /\ stop_byte \in BOOLEAN
    /\ task \in [Sessions -> {"none", "runnable", "waiting"}]
    /\ phase \in [Sessions -> {"new", "connect", "handshake", "splice", "mutex"}]
    /\ timeout \in [Sessions -> {"unset", "set", "zero"}]
    /\ credit \in [Sessions -> 0 .. Credit]
    /\ io \in {"runnable", "running", "waiting", "mutex", "spinning", "done"}
    /\ timer \in {"runnable", "waiting", "sleeping", "mutex", "done"}
    /\ event \in {"waiting", "joinIo", "joinTimer", "done"}
    /\ aborted \in BOOLEAN

Init ==
    /\ session_set = <<>>
    /\ session_count = 0
    /\ run = TRUE
    /\ stop_byte = FALSE
    /\ task = [s \in Sessions |-> "none"]
    /\ phase = [s \in Sessions |-> "new"]
    /\ timeout = [s \in Sessions |-> "unset"]
    /\ credit = [s \in Sessions |-> Credit]
    /\ io = "runnable"
    /\ timer = "runnable"
    /\ event = "waiting"
    /\ aborted = FALSE

Live == {s \in Sessions : task[s] # "none"}
Listed == ToSet(session_set)

\* The mutex around lwIP is free whenever a task yields, except after
\* RefuseForMemory, which leaves it to a task that waits for it.
Locked == io = "mutex"

\* The processor is free for a task other than the packet reader.
Free == io \notin {"running", "spinning"}

-----------------------------------------------------------------------------
(* What a handler does to sessions it does not run in                      *)

Woken(t) == IF t \in {"waiting", "sleeping"} THEN "runnable" ELSE t

WakeNobody(t, S) == t
WakeSessions(t, S) ==
    [s \in Sessions |-> IF s \in S /\ t[s] = "waiting" THEN "runnable" ELSE t[s]]

\* A timeout of zero is final.
SetTimeoutAlways(old, new) == new
SetTimeout(old, new) == IF old = "zero" THEN old ELSE new

TerminateTimeouts(t, S) ==
    [s \in Sessions |-> IF s \in S THEN SetTimeout(t[s], "zero") ELSE t[s]]

InsertSession(s) ==
    /\ session_set' = Append(session_set, s)
    /\ session_count' = session_count + 1

\* Whom the insertion of the last element of list terminates.
VictimsAtTail(list, count) ==
    IF MaxSessionCount = 0 \/ count < MaxSessionCount THEN {} ELSE {list[Len(list)]}
Victims(list, count) ==
    IF MaxSessionCount = 0 \/ count < MaxSessionCount THEN {} ELSE {Head(list)}

DeleteNoCount(s) ==
    /\ session_set' = RemoveFirst(session_set, s)
    /\ UNCHANGED session_count
DeleteSession(s) ==
    /\ session_set' = RemoveFirst(session_set, s)
    /\ session_count' = session_count - 1

\* The list after hev_socks5_tunnel_update_session: s was active last.
Updated(list, s) ==
    IF MaxSessionCount = 0 THEN list ELSE Append(RemoveFirst(list, s), s)

-----------------------------------------------------------------------------
(* The packet reader and the lwIP callbacks it runs                        *)

Services == <<run, stop_byte, io, timer, event>>

IoWake ==
    /\ io = "waiting"
    /\ io' = "runnable"
    /\ UNCHANGED <<session, run, stop_byte, timer, event, aborted>>

IoResume ==
    /\ io = "runnable"
    /\ io' = IF run THEN "running" ELSE "done"
    /\ UNCHANGED <<session, run, stop_byte, timer, event, aborted>>

IoYield ==
    /\ io = "running"
    /\ io' = "waiting"
    /\ UNCHANGED <<session, run, stop_byte, timer, event, aborted>>

IoReadFails ==
    /\ TunMayFail
    /\ io = "running"
    /\ io' = "spinning"
    /\ UNCHANGED <<session, run, stop_byte, timer, event, aborted>>

AcceptNoTimer == UNCHANGED timer
AcceptTimer == timer' = Woken(timer)

Accept(s) ==
    /\ io = "running" /\ run
    /\ task[s] = "none"
    /\ InsertSession(s)
    /\ LET victims == Victims(session_set', session_count') IN
        /\ timeout' = TerminateTimeouts([timeout EXCEPT ![s] = "unset"], victims)
        /\ aborted' = (s \in victims)
        /\ task' = [WakeSessions(task, victims) EXCEPT ![s] = "runnable"]
    /\ phase' = [phase EXCEPT ![s] = "new"]
    /\ credit' = [credit EXCEPT ![s] = Credit]
    /\ AcceptTimer
    /\ UNCHANGED <<run, stop_byte, io, event>>

RefuseForMemory ==
    /\ TaskNewMayFail
    /\ io = "running" /\ run
    /\ \E s \in Sessions : task[s] = "none"
    /\ io' = "mutex"
    /\ UNCHANGED <<session, run, stop_byte, timer, event, aborted>>

Deliver(s) ==
    /\ io = "running"
    /\ s \in Live
    /\ credit' = [credit EXCEPT ![s] = Credit]
    /\ task' = WakeSessions(task, {s})
    /\ UNCHANGED <<session_set, session_count, phase, timeout, Services, aborted>>

ConnectionError(s) ==
    /\ io = "running"
    /\ s \in Live
    /\ timeout' = TerminateTimeouts(timeout, {s})
    /\ task' = WakeSessions(task, {s})
    /\ UNCHANGED <<session_set, session_count, phase, credit, Services, aborted>>

-----------------------------------------------------------------------------
(* The timer task and the event task                                       *)

TimerRun ==
    /\ Free
    /\ timer = "runnable"
    /\ timer' = CASE ~run -> "done"
                  [] run /\ Locked -> "mutex"
                  [] run /\ ~Locked -> IF session_set = <<>> THEN "waiting" ELSE "sleeping"
    /\ UNCHANGED <<session, run, stop_byte, io, event, aborted>>

TimerExpire ==
    /\ Free
    /\ timer = "sleeping"
    /\ timer' = "runnable"
    /\ UNCHANGED <<session, run, stop_byte, io, event, aborted>>

StopWrite ==
    /\ ~stop_byte
    /\ stop_byte' = TRUE
    /\ UNCHANGED <<session, run, io, timer, event, aborted>>

TerminatedByFirst == IF session_set = <<>> THEN {} ELSE {Head(session_set)}
TerminatedByStop == Listed

JoinNoWake(t) == t
Joined(t) == Woken(t)

EventWake ==
    /\ Free
    /\ event = "waiting" /\ stop_byte
    /\ run' = FALSE
    /\ timeout' = TerminateTimeouts(timeout, TerminatedByStop)
    /\ task' = WakeSessions(task, TerminatedByStop)
    /\ io' = Joined(io)
    /\ event' = "joinIo"
    /\ UNCHANGED <<session_set, session_count, phase, credit, stop_byte, timer, aborted>>

EventJoinTimer ==
    /\ event = "joinIo" /\ io = "done"
    /\ timer' = Joined(timer)
    /\ event' = "joinTimer"
    /\ UNCHANGED <<session, run, stop_byte, io, aborted>>

EventExit ==
    /\ event = "joinTimer" /\ timer = "done"
    /\ event' = "done"
    /\ UNCHANGED <<session, run, stop_byte, io, timer, aborted>>

-----------------------------------------------------------------------------
(* A session task                                                          *)

\* The task function returns: delete, then unref, whose destructor locks.
Leave(s) ==
    /\ DeleteSession(s)
    /\ task' = [task EXCEPT ![s] = IF Locked THEN "waiting" ELSE "none"]
    /\ phase' = [phase EXCEPT ![s] = IF Locked THEN "mutex" ELSE "new"]
    /\ timeout' = [timeout EXCEPT ![s] = "unset"]
    /\ UNCHANGED credit

\* hev_socks5_task_io_yielder (WAITIO) with timeout t: an error if t is zero.
Wait(s, place, t, list) ==
    \/ t = "zero" /\ Leave(s)
    \/ /\ t # "zero"
       /\ task' = [task EXCEPT ![s] = "waiting"]
       /\ phase' = [phase EXCEPT ![s] = place]
       /\ timeout' = [timeout EXCEPT ![s] = t]
       /\ session_set' = list
       /\ UNCHANGED <<session_count, credit>>

Connect(s) ==
    /\ phase[s] = "new"
    /\ \/ Leave(s)
       \/ Wait(s, "connect", SetTimeout(timeout[s], "set"), session_set)

Connected(s) ==
    /\ phase[s] = "connect"
    /\ \/ Leave(s)
       \/ Wait(s, "connect", timeout[s], session_set)
       \/ Wait(s, "handshake", SetTimeout(timeout[s], "set"), session_set)

\* One turn of the loop in hev_socks5_session_tcp_splice, or its end.  Bytes
\* that move make it yield and stay runnable, whatever the timeout says.
Splice(s, list) ==
    \/ ~Locked /\ Leave(s)
    \/ ~Locked /\ Wait(s, "splice", timeout[s], list)
    \/ /\ ~Locked /\ credit[s] > 0
       /\ credit' = [credit EXCEPT ![s] = @ - 1]
       /\ phase' = [phase EXCEPT ![s] = "splice"]
       /\ session_set' = list
       /\ UNCHANGED <<session_count, task, timeout>>
    \/ /\ Locked
       /\ phase' = [phase EXCEPT ![s] = "mutex"]
       /\ task' = [task EXCEPT ![s] = "waiting"]
       /\ session_set' = list
       /\ UNCHANGED <<session_count, timeout, credit>>

Handshake(s) ==
    /\ phase[s] = "handshake"
    /\ \/ Leave(s)
       \/ Wait(s, "handshake", timeout[s], session_set)
       \/ Splice(s, session_set)

SpliceAgain(s) ==
    /\ phase[s] = "splice"
    /\ Splice(s, Updated(session_set, s))

\* Nobody unlocks: the task that left the mutex locked waits for it itself.
MutexAgain(s) ==
    /\ phase[s] = "mutex"
    /\ task' = [task EXCEPT ![s] = "waiting"]
    /\ UNCHANGED <<session_set, session_count, phase, timeout, credit>>

SessionStep(s) ==
    /\ Free
    /\ task[s] = "runnable"
    /\ \/ Connect(s) \/ Connected(s) \/ Handshake(s)
       \/ SpliceAgain(s) \/ MutexAgain(s)
    /\ UNCHANGED <<Services, aborted>>

\* The descriptor of the session becomes ready.
Ready(s) ==
    /\ Free
    /\ task[s] = "waiting"
    /\ task' = WakeSessions(task, {s})
    /\ UNCHANGED <<session_set, session_count, phase, timeout, credit, Services, aborted>>

\* The sleep of the yielder runs out.  A splice then waits once more for what
\* is left in the ring buffer to be acknowledged.
Timeout(s) ==
    /\ Free
    /\ task[s] = "waiting" /\ timeout[s] = "set"
    /\ \/ phase[s] # "mutex" /\ Leave(s)
       \/ phase[s] = "splice" /\ Wait(s, "splice", timeout[s], Updated(session_set, s))
    /\ UNCHANGED <<Services, aborted>>

-----------------------------------------------------------------------------
(* Specification                                                           *)

IoTask == IoResume \/ IoYield
TimerTask == TimerRun \/ TimerExpire
EventTask == EventWake \/ EventJoinTimer \/ EventExit

Next ==
    /\ ~aborted
    /\ \/ IoWake \/ IoResume \/ IoYield \/ IoReadFails \/ RefuseForMemory
       \/ TimerRun \/ TimerExpire
       \/ StopWrite \/ EventWake \/ EventJoinTimer \/ EventExit
       \/ \E s \in Sessions :
             \/ Accept(s) \/ Deliver(s) \/ ConnectionError(s)
             \/ SessionStep(s) \/ Ready(s) \/ Timeout(s)

Spec == Init /\ [][Next]_vars

\* The scheduler picks the runnable task with the smallest key, and the key of
\* a task grows while it runs: a task that is runnable again and again is
\* resumed.  It is not runnable during a burst of the reader, hence strong
\* fairness.  That the reader finds the TUN queue empty now and then is an
\* assumption about the device.
FairSpec ==
    /\ Spec
    /\ SF_vars(~aborted /\ IoTask) /\ SF_vars(~aborted /\ TimerTask)
    /\ SF_vars(~aborted /\ EventTask)
    /\ \A s \in Sessions : SF_vars(~aborted /\ SessionStep(s))

-----------------------------------------------------------------------------
(* Properties                                                              *)

\* session_count is the length of the list, and the list holds exactly the
\* sessions whose task exists, each once, save those caught in their
\* destructor.  Accept, the yielder's update and the end of a task change them
\* at different moments.
CountMatches ==
    /\ session_count = Len(session_set)
    /\ Cardinality(Listed) = Len(session_set)
    /\ Listed \subseteq Live
    /\ \A s \in Live \ Listed : phase[s] = "mutex"

\* No handler wakes a session task that has ended or was not yet run: the
\* scheduler would abort the process.
NoAbort == ~aborted

\* A terminated session is never left waiting: whoever sets its timeout to
\* zero also wakes it, and it does not wait again with a timeout of zero,
\* which would be forever.  Only the mutex can still hold it.
TerminatedNeverWaits ==
    \A s \in Sessions :
        task[s] = "waiting" /\ phase[s] # "mutex" => timeout[s] # "zero"

\* After the stop every session that is left has been terminated: the list
\* is complete when it is walked, no session is accepted later, and the
\* set_timeout calls of a session that is still connecting do not revive it.
StopReachesEverySession ==
    event # "waiting" => \A s \in Listed : timeout[s] = "zero"

\* While there are sessions the lwIP timers tick: the timer task waits
\* without a timeout only if the list is empty or the mutex is lost.
TimerTicksForSessions ==
    run /\ session_set # <<>> /\ ~Locked => timer \in {"runnable", "sleeping"}

\* After a stop byte every task ends, so that hev_socks5_tunnel_run returns,
\* unless the reader spins on a TUN that fails for good or the mutex is lost to
\* a session that was refused; both really keep it from returning.
AllDone == io = "done" /\ timer = "done" /\ event = "done" /\ Live = {}
StopEndsAll == stop_byte ~> AllDone \/ Locked \/ io = "spinning"

\* max-session-count is a maximum of the session count, at least when nothing
\* is left to be run.  This does not hold (README, What was found); no run
\* checks it.
AtRest == io = "waiting" /\ \A s \in Sessions : task[s] # "runnable"
LimitHoldsAtRest ==
    AtRest /\ MaxSessionCount # 0 => session_count <= MaxSessionCount
=============================================================================
