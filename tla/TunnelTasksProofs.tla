------------------------- MODULE TunnelTasksProofs -------------------------
(***************************************************************************)
(* Proofs about TunnelTasks, for any set of sessions and any limit.        *)
(***************************************************************************)
EXTENDS TunnelTasks, ListLemmas, TLAPS

(* The part of the type invariant the sessions' fields need: each field is *)
(* a function on Sessions, updated point by point.                         *)
FieldTypes ==
    /\ task \in [Sessions -> {"none", "runnable", "waiting"}]
    /\ phase \in [Sessions -> {"new", "connect", "handshake", "splice", "mutex"}]
    /\ timeout \in [Sessions -> {"unset", "set", "zero"}]

(* It is inductive as it stands, once the fields have their types.         *)
IInv ==
    /\ FieldTypes
    /\ TerminatedNeverWaits

LEMMA InitIInv == Init => IInv
BY DEF Init, IInv, FieldTypes, TerminatedNeverWaits

LEMMA LeaveIInv ==
    ASSUME IInv, NEW s \in Sessions, Leave(s)
    PROVE  IInv'
BY DEF IInv, FieldTypes, TerminatedNeverWaits, Leave

LEMMA WaitIInv ==
    ASSUME IInv, NEW s \in Sessions, NEW t \in {"unset", "set", "zero"}, NEW list,
           NEW place \in {"connect", "handshake", "splice"},
           Wait(s, place, t, list)
    PROVE  IInv'
<1>1. CASE Leave(s)
  BY <1>1, LeaveIInv
<1>2. CASE t # "zero"
  BY <1>2, LeaveIInv DEF IInv, FieldTypes, TerminatedNeverWaits, Wait
<1> QED
  BY <1>1, <1>2 DEF Wait

LEMMA SpliceIInv ==
    ASSUME IInv, NEW s \in Sessions, task[s] = "runnable", NEW list, Splice(s, list)
    PROVE  IInv'
<1>1. CASE Leave(s)
  BY <1>1, LeaveIInv
<1>2. CASE Wait(s, "splice", timeout[s], list)
  BY <1>2, WaitIInv DEF IInv, FieldTypes
<1>3. CASE /\ phase' = [phase EXCEPT ![s] = "splice"]
           /\ UNCHANGED <<session_count, task, timeout>>
  BY <1>3 DEF IInv, FieldTypes, TerminatedNeverWaits
<1>4. CASE /\ phase' = [phase EXCEPT ![s] = "mutex"]
           /\ task' = [task EXCEPT ![s] = "waiting"]
           /\ UNCHANGED <<session_count, timeout, credit>>
  BY <1>4 DEF IInv, FieldTypes, TerminatedNeverWaits
<1> QED
  BY <1>1, <1>2, <1>3, <1>4 DEF Splice

LEMMA SessionStepIInv ==
    ASSUME IInv, NEW s \in Sessions, SessionStep(s)
    PROVE  IInv'
<1> USE DEF SessionStep
<1>1. CASE Connect(s)
  <2>1. SetTimeout(timeout[s], "set") \in {"unset", "set", "zero"}
    BY DEF SetTimeout, IInv, FieldTypes
  <2> QED
    BY <1>1, <2>1, LeaveIInv, WaitIInv DEF Connect
<1>2. CASE Connected(s)
  <2>1. /\ SetTimeout(timeout[s], "set") \in {"unset", "set", "zero"}
        /\ timeout[s] \in {"unset", "set", "zero"}
    BY DEF SetTimeout, IInv, FieldTypes
  <2> QED
    BY <1>2, <2>1, LeaveIInv, WaitIInv DEF Connected
<1>3. CASE Handshake(s)
  BY <1>3, LeaveIInv, WaitIInv, SpliceIInv DEF Handshake, IInv, FieldTypes
<1>4. CASE SpliceAgain(s)
  BY <1>4, SpliceIInv DEF SpliceAgain
<1>5. CASE MutexAgain(s)
  BY <1>5 DEF MutexAgain, IInv, FieldTypes, TerminatedNeverWaits
<1> QED
  BY <1>1, <1>2, <1>3, <1>4, <1>5

LEMMA TimeoutIInv ==
    ASSUME IInv, NEW s \in Sessions, Timeout(s)
    PROVE  IInv'
<1>1. CASE Leave(s)
  BY <1>1, LeaveIInv
<1>2. CASE Wait(s, "splice", timeout[s], Updated(session_set, s))
  BY <1>2, WaitIInv DEF IInv, FieldTypes
<1> QED
  BY <1>1, <1>2 DEF Timeout

LEMMA AcceptIInv ==
    ASSUME IInv, NEW s \in Sessions, Accept(s)
    PROVE  IInv'
<1> DEFINE victims == Victims(session_set', session_count')
           fresh == [timeout EXCEPT ![s] = "unset"]
           woken == WakeSessions(task, victims)
<1>1. /\ timeout' = TerminateTimeouts(fresh, victims)
      /\ task' = [woken EXCEPT ![s] = "runnable"]
      /\ phase' = [phase EXCEPT ![s] = "new"]
  BY DEF Accept
<1>2. fresh \in [Sessions -> {"unset", "set", "zero"}]
  BY DEF IInv, FieldTypes
<1>3. /\ timeout' \in [Sessions -> {"unset", "set", "zero"}]
      /\ \A x \in Sessions : timeout'[x] = "zero" => x \in victims \/ fresh[x] = "zero"
  BY <1>1, <1>2 DEF TerminateTimeouts, SetTimeout
<1>4. /\ woken \in [Sessions -> {"none", "runnable", "waiting"}]
      /\ \A x \in Sessions : x \in victims => woken[x] # "waiting"
      /\ \A x \in Sessions : woken[x] = task[x] \/ woken[x] = "runnable"
  BY DEF IInv, FieldTypes, WakeSessions
<1> QED
  BY <1>1, <1>2, <1>3, <1>4 DEF IInv, FieldTypes, TerminatedNeverWaits

LEMMA NextIInv == IInv /\ [Next]_vars => IInv'
<1> SUFFICES ASSUME IInv, [Next]_vars PROVE IInv'
  OBVIOUS
<1> USE DEF IInv, FieldTypes, TerminatedNeverWaits
<1>1. CASE UNCHANGED session
  BY <1>1 DEF session
<1>2. CASE EventWake
  BY <1>2 DEF EventWake, TerminateTimeouts, WakeSessions, SetTimeout
<1>3. ASSUME NEW s \in Sessions, Accept(s) PROVE IInv'
  BY <1>3, AcceptIInv
<1>4. ASSUME NEW s \in Sessions, Deliver(s) PROVE IInv'
  BY <1>4 DEF Deliver, WakeSessions
<1>5. ASSUME NEW s \in Sessions, ConnectionError(s) PROVE IInv'
  BY <1>5 DEF ConnectionError, TerminateTimeouts, WakeSessions, SetTimeout
<1>6. ASSUME NEW s \in Sessions, SessionStep(s) PROVE IInv'
  BY <1>6, SessionStepIInv
<1>7. ASSUME NEW s \in Sessions, Ready(s) PROVE IInv'
  BY <1>7 DEF Ready, WakeSessions
<1>8. ASSUME NEW s \in Sessions, Timeout(s) PROVE IInv'
  BY <1>8, TimeoutIInv
<1>9. CASE \/ IoWake \/ IoResume \/ IoYield \/ IoReadFails \/ RefuseForMemory
           \/ TimerRun \/ TimerExpire \/ StopWrite \/ EventJoinTimer \/ EventExit
  BY <1>1, <1>9 DEF IoWake, IoResume, IoYield, IoReadFails, RefuseForMemory,
     TimerRun, TimerExpire, StopWrite, EventJoinTimer, EventExit
<1> QED
  BY <1>1, <1>2, <1>3, <1>4, <1>5, <1>6, <1>7, <1>8, <1>9 DEF Next, vars

(* A terminated session is never left waiting for anything but the mutex:  *)
(* terminate wakes it, and set_timeout never lifts a timeout of zero.      *)
THEOREM TerminationIsNotLost == Spec => []TerminatedNeverWaits
<1>1. IInv => TerminatedNeverWaits
  BY DEF IInv
<1> QED
  BY <1>1, InitIInv, NextIInv, PTL DEF Spec

-----------------------------------------------------------------------------
(* The list of sessions                                                    *)

(* What CountMatches needs to be inductive: the list has no repetitions,   *)
(* whoever is in it has a task, and whoever has a task is in it unless it  *)
(* is caught in its destructor.                                            *)
ListInv ==
    /\ session_set \in Seq(Sessions)
    /\ NoRepeat(session_set)
    /\ session_count = Len(session_set)
    /\ \A s \in Sessions : InList(session_set, s) => task[s] # "none"
    /\ \A s \in Sessions :
          task[s] # "none" /\ phase[s] # "mutex" => InList(session_set, s)

(* The same sessions as the list, perhaps in another order.                *)
SameSessions(list) ==
    /\ list \in Seq(Sessions)
    /\ NoRepeat(list)
    /\ Len(list) = Len(session_set)
    /\ \A s : InList(list, s) <=> InList(session_set, s)

LEMMA UpdatedSameSessions ==
    ASSUME ListInv, NEW s \in Sessions, InList(session_set, s)
    PROVE  SameSessions(Updated(session_set, s)) /\ SameSessions(session_set)
<1> DEFINE rest == RemoveFirst(session_set, s)
<1>1. SameSessions(session_set)
  BY DEF SameSessions, ListInv
<1>2. /\ rest \in Seq(Sessions)
      /\ Len(rest) = Len(session_set) - 1
      /\ NoRepeat(rest)
      /\ \A x : InList(rest, x) <=> InList(session_set, x) /\ x # s
  BY RemoveFirstProperties DEF ListInv
<1> HIDE DEF rest
<1>3. /\ Append(rest, s) \in Seq(Sessions)
      /\ Len(Append(rest, s)) = Len(rest) + 1
      /\ NoRepeat(Append(rest, s))
      /\ \A x : InList(Append(rest, s), x) <=> InList(rest, x) \/ x = s
  BY <1>2, AppendList
<1>4. Len(session_set) \in Nat
  BY LenProperties DEF ListInv
<1>5. SameSessions(Append(rest, s))
  BY <1>2, <1>3, <1>4 DEF SameSessions
<1> QED
  BY <1>1, <1>5 DEF Updated, rest

LEMMA LeaveListInv ==
    ASSUME FieldTypes, ListInv, NEW s \in Sessions, InList(session_set, s), Leave(s)
    PROVE  ListInv'
<1>1. /\ session_set' = RemoveFirst(session_set, s)
      /\ session_count' = session_count - 1
      /\ task' = [task EXCEPT ![s] = IF Locked THEN "waiting" ELSE "none"]
      /\ phase' = [phase EXCEPT ![s] = IF Locked THEN "mutex" ELSE "new"]
  BY DEF Leave, DeleteSession
<1>2. /\ session_set' \in Seq(Sessions)
      /\ Len(session_set') = Len(session_set) - 1
      /\ NoRepeat(session_set')
      /\ \A x : InList(session_set', x) <=> InList(session_set, x) /\ x # s
  BY <1>1, RemoveFirstProperties DEF ListInv
<1>3. /\ task'[s] = "none" \/ phase'[s] = "mutex"
      /\ \A x \in Sessions \ {s} : task'[x] = task[x] /\ phase'[x] = phase[x]
  BY <1>1 DEF FieldTypes
<1> QED
  BY <1>1, <1>2, <1>3 DEF ListInv

(* A step of a session that reorders the list and keeps its task.          *)
LEMMA KeepListInv ==
    ASSUME FieldTypes, ListInv, NEW s \in Sessions, InList(session_set, s),
           NEW list, SameSessions(list),
           session_set' = list, session_count' = session_count,
           NEW t \in {"runnable", "waiting"}, task' = [task EXCEPT ![s] = t],
           NEW p, phase' = [phase EXCEPT ![s] = p]
    PROVE  ListInv'
<1>1. /\ task'[s] # "none"
      /\ \A x \in Sessions \ {s} : task'[x] = task[x] /\ phase'[x] = phase[x]
  BY DEF FieldTypes
<1> QED
  BY <1>1 DEF ListInv, SameSessions

LEMMA WaitListInv ==
    ASSUME FieldTypes, ListInv, NEW s \in Sessions, InList(session_set, s),
           NEW list, SameSessions(list), NEW t, NEW place, Wait(s, place, t, list)
    PROVE  ListInv'
<1>1. CASE Leave(s)
  BY <1>1, LeaveListInv
<1>2. CASE ~Leave(s)
  <2>1. /\ session_set' = list
        /\ session_count' = session_count
        /\ task' = [task EXCEPT ![s] = "waiting"]
        /\ phase' = [phase EXCEPT ![s] = place]
    BY <1>2 DEF Wait
  <2> QED
    BY <2>1, KeepListInv
<1> QED
  BY <1>1, <1>2

LEMMA SpliceListInv ==
    ASSUME FieldTypes, ListInv, NEW s \in Sessions, InList(session_set, s),
           task[s] = "runnable",
           NEW list, SameSessions(list), Splice(s, list)
    PROVE  ListInv'
<1>1. CASE Leave(s)
  BY <1>1, LeaveListInv
<1>2. CASE Wait(s, "splice", timeout[s], list)
  BY <1>2, WaitListInv
<1>3. CASE /\ phase' = [phase EXCEPT ![s] = "splice"]
           /\ session_set' = list
           /\ UNCHANGED <<session_count, task, timeout>>
  <2>1. task' = [task EXCEPT ![s] = "runnable"]
    BY <1>3 DEF FieldTypes
  <2> QED
    BY <1>3, <2>1, KeepListInv
<1>4. CASE /\ phase' = [phase EXCEPT ![s] = "mutex"]
           /\ task' = [task EXCEPT ![s] = "waiting"]
           /\ session_set' = list
           /\ UNCHANGED <<session_count, timeout, credit>>
  BY <1>4, KeepListInv
<1> QED
  BY <1>1, <1>2, <1>3, <1>4 DEF Splice

LEMMA SessionStepListInv ==
    ASSUME FieldTypes, ListInv, NEW s \in Sessions, SessionStep(s)
    PROVE  ListInv'
<1>1. CASE MutexAgain(s)
  <2>1. /\ \A x \in Sessions : task[x] # "none" <=> task'[x] # "none"
        /\ UNCHANGED <<session_set, session_count, phase>>
    BY <1>1 DEF MutexAgain, SessionStep, FieldTypes
  <2> QED
    BY <2>1 DEF ListInv
<1>2. CASE ~MutexAgain(s)
  <2>1. task[s] = "runnable" /\ phase[s] # "mutex"
    BY <1>2 DEF SessionStep, Connect, Connected, Handshake, SpliceAgain
  <2>2. InList(session_set, s)
    BY <2>1 DEF ListInv
  <2>3. SameSessions(Updated(session_set, s)) /\ SameSessions(session_set)
    BY <2>2, UpdatedSameSessions
  <2>4. CASE Connect(s)
    BY <2>2, <2>3, <2>4, LeaveListInv, WaitListInv DEF Connect
  <2>5. CASE Connected(s)
    BY <2>2, <2>3, <2>5, LeaveListInv, WaitListInv DEF Connected
  <2>6. CASE Handshake(s)
    BY <2>1, <2>2, <2>3, <2>6, LeaveListInv, WaitListInv, SpliceListInv DEF Handshake
  <2>7. CASE SpliceAgain(s)
    BY <2>1, <2>2, <2>3, <2>7, SpliceListInv DEF SpliceAgain
  <2> QED
    BY <1>2, <2>4, <2>5, <2>6, <2>7 DEF SessionStep
<1> QED
  BY <1>1, <1>2

LEMMA TimeoutListInv ==
    ASSUME FieldTypes, ListInv, NEW s \in Sessions, Timeout(s)
    PROVE  ListInv'
<1>1. phase[s] # "mutex" /\ task[s] # "none"
  BY DEF Timeout
<1>2. InList(session_set, s)
  BY <1>1 DEF ListInv
<1>3. SameSessions(Updated(session_set, s))
  BY <1>2, UpdatedSameSessions
<1> QED
  BY <1>2, <1>3, LeaveListInv, WaitListInv DEF Timeout

LEMMA WokenSessions ==
    ASSUME FieldTypes, NEW S
    PROVE  /\ WakeSessions(task, S) \in [Sessions -> {"none", "runnable", "waiting"}]
           /\ \A s \in Sessions : WakeSessions(task, S)[s] = "none" <=> task[s] = "none"
BY DEF WakeSessions, FieldTypes

LEMMA AcceptListInv ==
    ASSUME FieldTypes, ListInv, NEW s \in Sessions, Accept(s)
    PROVE  ListInv'
<1> DEFINE woken == WakeSessions(task, Victims(session_set', session_count'))
<1>1. /\ session_set' = Append(session_set, s)
      /\ session_count' = session_count + 1
      /\ task' = [woken EXCEPT ![s] = "runnable"]
      /\ phase' = [phase EXCEPT ![s] = "new"]
      /\ task[s] = "none"
  BY DEF Accept, InsertSession
<1>2. /\ woken \in [Sessions -> {"none", "runnable", "waiting"}]
      /\ \A x \in Sessions : woken[x] = "none" <=> task[x] = "none"
  BY WokenSessions
<1> HIDE DEF woken
<1>3. ~InList(session_set, s)
  BY <1>1 DEF ListInv
<1>4. /\ session_set' \in Seq(Sessions)
      /\ Len(session_set') = Len(session_set) + 1
      /\ NoRepeat(session_set')
      /\ \A x : InList(session_set', x) <=> InList(session_set, x) \/ x = s
  BY <1>1, <1>3, AppendList DEF ListInv
<1>5. /\ task'[s] = "runnable"
      /\ \A x \in Sessions \ {s} :
            phase'[x] = phase[x] /\ (task'[x] = "none" <=> task[x] = "none")
  BY <1>1, <1>2 DEF FieldTypes
<1> QED
  BY <1>1, <1>4, <1>5 DEF ListInv

LEMMA NextListInv == IInv /\ ListInv /\ [Next]_vars => ListInv'
<1> SUFFICES ASSUME FieldTypes, ListInv, [Next]_vars PROVE ListInv'
  BY DEF IInv
<1>1. CASE UNCHANGED session
  BY <1>1 DEF session, ListInv
<1>2. ASSUME UNCHANGED <<session_set, session_count, phase>>,
             NEW S, task' = WakeSessions(task, S)
      PROVE  ListInv'
  BY <1>2, WokenSessions DEF ListInv
<1>3. CASE EventWake
  BY <1>2, <1>3 DEF EventWake
<1>4. ASSUME NEW s \in Sessions, Accept(s) PROVE ListInv'
  BY <1>4, AcceptListInv
<1>5. ASSUME NEW s \in Sessions, Deliver(s) PROVE ListInv'
  BY <1>2, <1>5 DEF Deliver
<1>6. ASSUME NEW s \in Sessions, ConnectionError(s) PROVE ListInv'
  BY <1>2, <1>6 DEF ConnectionError
<1>7. ASSUME NEW s \in Sessions, SessionStep(s) PROVE ListInv'
  BY <1>7, SessionStepListInv
<1>8. ASSUME NEW s \in Sessions, Ready(s) PROVE ListInv'
  BY <1>2, <1>8 DEF Ready
<1>9. ASSUME NEW s \in Sessions, Timeout(s) PROVE ListInv'
  BY <1>9, TimeoutListInv
<1>10. CASE \/ IoWake \/ IoResume \/ IoYield \/ IoReadFails \/ RefuseForMemory
            \/ TimerRun \/ TimerExpire \/ StopWrite \/ EventJoinTimer \/ EventExit
  BY <1>1, <1>10 DEF IoWake, IoResume, IoYield, IoReadFails, RefuseForMemory,
     TimerRun, TimerExpire, StopWrite, EventJoinTimer, EventExit
<1> QED
  BY <1>1, <1>3, <1>4, <1>5, <1>6, <1>7, <1>8, <1>9, <1>10 DEF Next, vars

LEMMA InitListInv == Init => ListInv
<1> SUFFICES ASSUME Init PROVE ListInv
  OBVIOUS
<1>1. session_set = <<>> /\ session_count = 0 /\ \A s \in Sessions : task[s] = "none"
  BY DEF Init
<1>2. <<>> \in Seq(Sessions) /\ Len(<<>>) = 0
  BY EmptySeq
<1> QED
  BY <1>1, <1>2 DEF ListInv, NoRepeat, InList

LEMMA ListInvCounts == FieldTypes /\ ListInv => CountMatches
<1> SUFFICES ASSUME FieldTypes, ListInv PROVE CountMatches
  OBVIOUS
<1>1. Cardinality(Listed) = Len(session_set)
  BY NoRepeatCardinality DEF ListInv, Listed
<1>2. DOMAIN session_set = 1 .. Len(session_set)
      /\ session_set \in [1 .. Len(session_set) -> Sessions]
  BY LenProperties DEF ListInv
<1>3. \A s : s \in Listed <=> InList(session_set, s)
  BY <1>2 DEF Listed, ToSet, InList
<1>4. Listed \subseteq Sessions
  BY <1>2 DEF Listed, ToSet
<1> QED
  BY <1>1, <1>3, <1>4 DEF CountMatches, ListInv, Live

(* The list and its count never disagree, in whatever order sessions come,  *)
(* move to the tail, are terminated and end.                               *)
THEOREM ListIsCounted == Spec => []CountMatches
<1>1. IInv /\ ListInv => CountMatches
  BY ListInvCounts DEF IInv
<1> QED
  BY <1>1, InitIInv, NextIInv, InitListInv, NextListInv, PTL DEF Spec

(* Unless the limit is one, the session an insertion terminates is another *)
(* one than the session inserted, so that its task is not a stopped task.  *)
THEOREM LimitAboveOneNeverAborts ==
    ASSUME MaxSessionCount # 1
    PROVE  Spec => []NoAbort
<1>1. Init => NoAbort
  BY DEF Init, NoAbort
<1>2. ASSUME IInv, ListInv, NoAbort, [Next]_vars PROVE NoAbort'
  <2>1. ASSUME NEW s \in Sessions, Accept(s) PROVE NoAbort'
    <3>1. CASE Victims(session_set', session_count') = {}
      BY <2>1, <3>1 DEF Accept, NoAbort
    <3>2. CASE Victims(session_set', session_count') # {}
      <4>1. /\ session_set' = Append(session_set, s)
            /\ session_count' = session_count + 1
            /\ task[s] = "none"
            /\ aborted' = (s \in Victims(session_set', session_count'))
        BY <2>1 DEF Accept, InsertSession
      <4>2. /\ MaxSessionCount # 0 /\ ~(session_count' < MaxSessionCount)
            /\ Victims(session_set', session_count') = {Head(session_set')}
        BY <3>2 DEF Victims
      <4>3. session_count = Len(session_set) /\ Len(session_set) \in Nat
            /\ session_set \in Seq(Sessions)
        BY <1>2, LenProperties DEF ListInv
      <4>4. Len(session_set) > 0
        BY <4>1, <4>2, <4>3, MaxSessionCountAssumption
      <4>5. session_set # <<>> /\ Head(session_set) = session_set[1]
        BY <4>3, <4>4
      <4>6. Head(session_set') = session_set[1]
        BY <4>1, <4>3, <4>5, HeadTailAppend
      <4>7. session_set[1] \in Sessions /\ InList(session_set, session_set[1])
        BY <4>3, <4>4, ElementOfSeq DEF InList
      <4>8. session_set[1] # s
        BY <1>2, <4>1, <4>7 DEF ListInv
      <4> QED
        BY <4>1, <4>2, <4>6, <4>8 DEF NoAbort
    <3> QED
      BY <3>1, <3>2
  <2>2. CASE UNCHANGED aborted
    BY <1>2, <2>2 DEF NoAbort
  <2> QED
    BY <1>2, <2>1, <2>2 DEF Next, vars, IoWake, IoResume, IoYield, IoReadFails,
       RefuseForMemory, TimerRun, TimerExpire, StopWrite, EventWake, EventJoinTimer,
       EventExit, Deliver, ConnectionError, SessionStep, Ready, Timeout
<1> QED
  BY <1>1, <1>2, InitIInv, NextIInv, InitListInv, NextListInv, PTL DEF Spec

-----------------------------------------------------------------------------
(* The timer task                                                          *)

(* The timer task ends only after the stop and waits for the mutex only    *)
(* when nobody will unlock it.                                             *)
TimerInv ==
    /\ timer \in {"runnable", "waiting", "sleeping", "mutex", "done"}
    /\ run \in BOOLEAN
    /\ run => timer # "done"
    /\ timer = "mutex" => Locked
    /\ TimerTicksForSessions

LEMMA EmptyListStays ==
    ASSUME FieldTypes, ListInv, NEW s \in Sessions, SessionStep(s) \/ Timeout(s),
           session_set = <<>>
    PROVE  session_set' = <<>>
<1>1. ~InList(session_set, s)
  BY EmptySeq DEF InList
<1>2. task[s] = "none" \/ phase[s] = "mutex"
  BY <1>1 DEF ListInv
<1> QED
  BY <1>2 DEF SessionStep, Connect, Connected, Handshake, SpliceAgain, MutexAgain, Timeout

LEMMA NextTimerInv == IInv /\ ListInv /\ TimerInv /\ [Next]_vars => TimerInv'
<1> SUFFICES ASSUME FieldTypes, ListInv, TimerInv, [Next]_vars PROVE TimerInv'
  BY DEF IInv
<1> USE DEF TimerInv, TimerTicksForSessions, Locked
<1>1. ASSUME NEW s \in Sessions, Accept(s) PROVE TimerInv'
  BY <1>1 DEF Accept, AcceptTimer, Woken
<1>2. ASSUME NEW s \in Sessions, SessionStep(s) PROVE TimerInv'
  BY <1>2, EmptyListStays DEF SessionStep, Services
<1>3. ASSUME NEW s \in Sessions, Timeout(s) PROVE TimerInv'
  BY <1>3, EmptyListStays DEF Timeout, Services
<1>4. CASE UNCHANGED <<session_set, run, io, timer>>
  BY <1>4
<1>5. ASSUME NEW s \in Sessions, Deliver(s) \/ ConnectionError(s) \/ Ready(s)
      PROVE  TimerInv'
  BY <1>4, <1>5 DEF Deliver, ConnectionError, Ready, Services
<1>6. CASE TimerRun
  BY <1>6 DEF TimerRun, session
<1>7. CASE TimerExpire
  BY <1>7 DEF TimerExpire, session
<1>8. CASE EventWake
  BY <1>8 DEF EventWake, Joined, Woken
<1>9. CASE EventJoinTimer
  BY <1>9 DEF EventJoinTimer, Joined, Woken, session
<1>10. CASE IoWake \/ IoResume \/ IoYield \/ IoReadFails \/ RefuseForMemory
  BY <1>10 DEF IoWake, IoResume, IoYield, IoReadFails, RefuseForMemory, session
<1>11. CASE StopWrite \/ EventExit
  BY <1>4, <1>11 DEF StopWrite, EventExit, session
<1> QED
  BY <1>1, <1>2, <1>3, <1>4, <1>5, <1>6, <1>7, <1>8, <1>9, <1>10, <1>11
  DEF Next, vars, session

(* While sessions exist lwIP's timers tick, unless the mutex is lost.      *)
THEOREM TimerKeepsTicking == Spec => []TimerTicksForSessions
<1>1. Init => TimerInv
  BY DEF Init, TimerInv, TimerTicksForSessions
<1>2. TimerInv => TimerTicksForSessions
  BY DEF TimerInv
<1> QED
  BY <1>1, <1>2, NextTimerInv, InitIInv, NextIInv, InitListInv, NextListInv, PTL DEF Spec

-----------------------------------------------------------------------------
(* The stop                                                                *)

(* From the moment the event task has read the stop byte the packet reader  *)
(* is out of its burst and will not start another, so the list only shrinks *)
(* and each session in it stays terminated.                                *)
StopInv ==
    event # "waiting" =>
        /\ ~run
        /\ io \notin {"running", "spinning"}
        /\ \A s \in Sessions : InList(session_set, s) => timeout[s] = "zero"

LEMMA LeaveTerminated ==
    ASSUME FieldTypes, ListInv, NEW s \in Sessions, InList(session_set, s), Leave(s),
           \A x \in Sessions : InList(session_set, x) => timeout[x] = "zero"
    PROVE  \A x \in Sessions : InList(session_set', x) => timeout'[x] = "zero"
<1>1. \A x : InList(session_set', x) <=> InList(session_set, x) /\ x # s
  BY RemoveFirstProperties DEF Leave, DeleteSession, ListInv
<1>2. \A x \in Sessions \ {s} : timeout'[x] = timeout[x]
  BY DEF Leave, FieldTypes
<1> QED
  BY <1>1, <1>2

LEMMA SessionStaysTerminated ==
    ASSUME FieldTypes, ListInv, NEW s \in Sessions, SessionStep(s) \/ Timeout(s),
           \A x \in Sessions : InList(session_set, x) => timeout[x] = "zero"
    PROVE  \A x \in Sessions : InList(session_set', x) => timeout'[x] = "zero"
<1>1. CASE ~InList(session_set, s)
  <2>1. task[s] = "none" \/ phase[s] = "mutex"
    BY <1>1 DEF ListInv
  <2>2. UNCHANGED <<session_set, timeout>>
    BY <2>1 DEF SessionStep, Connect, Connected, Handshake, SpliceAgain, MutexAgain, Timeout
  <2> QED
    BY <2>2
<1>2. CASE InList(session_set, s)
  <2>1. timeout[s] = "zero" /\ SetTimeout(timeout[s], "set") = "zero"
    BY <1>2 DEF SetTimeout
  <2>2. SameSessions(Updated(session_set, s)) /\ SameSessions(session_set)
    BY <1>2, UpdatedSameSessions
  <2>3. ASSUME NEW list, SameSessions(list), Splice(s, list), ~Leave(s)
        PROVE  SameSessions(session_set') /\ UNCHANGED timeout
    BY <2>1, <2>3 DEF Splice, Wait
  <2>4. CASE ~Leave(s)
    <3>1. SameSessions(session_set') /\ UNCHANGED timeout
      BY <2>1, <2>2, <2>3, <2>4 DEF SessionStep, Connect, Connected, Handshake,
         SpliceAgain, MutexAgain, Timeout, Wait
    <3> QED
      BY <3>1 DEF SameSessions
  <2> QED
    BY <1>2, <2>4, LeaveTerminated
<1> QED
  BY <1>1, <1>2

LEMMA NextStopInv == IInv /\ ListInv /\ StopInv /\ [Next]_vars => StopInv'
<1> SUFFICES ASSUME FieldTypes, ListInv, StopInv, [Next]_vars PROVE StopInv'
  BY DEF IInv
<1> USE DEF StopInv
<1>1. CASE EventWake
  <2>1. \A s \in Sessions : InList(session_set, s) => s \in Listed
    BY LenProperties DEF InList, Listed, ToSet, ListInv
  <2> QED
    BY <1>1, <2>1 DEF EventWake, Free, Joined, Woken, TerminateTimeouts,
       TerminatedByStop, SetTimeout
<1>2. ASSUME NEW s \in Sessions, SessionStep(s) \/ Timeout(s) PROVE StopInv'
  <2>1. UNCHANGED <<run, io, event>>
    BY <1>2 DEF SessionStep, Timeout, Services
  <2> QED
    BY <1>2, <2>1, SessionStaysTerminated
<1>3. ASSUME NEW s \in Sessions, Accept(s) \/ Deliver(s) \/ ConnectionError(s)
      PROVE  StopInv'
  BY <1>3 DEF Accept, Deliver, ConnectionError, Services
<1>4. ASSUME NEW s \in Sessions, Ready(s) PROVE StopInv'
  BY <1>4 DEF Ready, Services
<1>5. CASE \/ IoWake \/ IoResume \/ IoYield \/ IoReadFails \/ RefuseForMemory
           \/ TimerRun \/ TimerExpire \/ StopWrite \/ EventJoinTimer \/ EventExit
  BY <1>5 DEF IoWake, IoResume, IoYield, IoReadFails, RefuseForMemory, TimerRun,
     TimerExpire, StopWrite, EventJoinTimer, EventExit, session
<1>6. CASE UNCHANGED vars
  BY <1>6 DEF vars, session
<1> QED
  BY <1>1, <1>2, <1>3, <1>4, <1>5, <1>6 DEF Next

(* The walk over the list misses nobody, and nobody comes later.           *)
THEOREM StopIsComplete == Spec => []StopReachesEverySession
<1>1. Init => StopInv
  BY DEF Init, StopInv
<1>2. ListInv /\ StopInv => StopReachesEverySession
  <2> SUFFICES ASSUME ListInv, StopInv PROVE StopReachesEverySession
    OBVIOUS
  <2>1. \A s \in Listed : s \in Sessions /\ InList(session_set, s)
    BY LenProperties DEF InList, Listed, ToSet, ListInv
  <2> QED
    BY <2>1 DEF StopInv, StopReachesEverySession
<1> QED
  BY <1>1, <1>2, NextStopInv, InitIInv, NextIInv, InitListInv, NextListInv, PTL DEF Spec

-----------------------------------------------------------------------------
(* The types                                                               *)

ServiceTypes ==
    /\ run \in BOOLEAN
    /\ stop_byte \in BOOLEAN
    /\ credit \in [Sessions -> 0 .. Credit]
    /\ io \in {"runnable", "running", "waiting", "mutex", "spinning", "done"}
    /\ timer \in {"runnable", "waiting", "sleeping", "mutex", "done"}
    /\ event \in {"waiting", "joinIo", "joinTimer", "done"}
    /\ aborted \in BOOLEAN

LEMMA NextServiceTypes == ServiceTypes /\ [Next]_vars => ServiceTypes'
<1> SUFFICES ASSUME ServiceTypes, [Next]_vars PROVE ServiceTypes'
  OBVIOUS
<1> USE CreditAssumption DEF ServiceTypes
<1>1. ASSUME NEW s \in Sessions, Accept(s) PROVE ServiceTypes'
  BY <1>1 DEF Accept, AcceptTimer, Woken
<1>2. ASSUME NEW s \in Sessions, Deliver(s) \/ ConnectionError(s) PROVE ServiceTypes'
  BY <1>2 DEF Deliver, ConnectionError, Services
<1>3. ASSUME NEW s \in Sessions, SessionStep(s) \/ Timeout(s) \/ Ready(s)
      PROVE  ServiceTypes'
  <2>1. UNCHANGED <<run, stop_byte, io, timer, event, aborted>>
    BY <1>3 DEF SessionStep, Timeout, Ready, Services
  <2>2. credit' = credit \/ (credit[s] > 0 /\ credit' = [credit EXCEPT ![s] = @ - 1])
    BY <1>3 DEF SessionStep, Timeout, Ready, Connect, Connected, Handshake,
       SpliceAgain, MutexAgain, Splice, Wait, Leave
  <2>3. credit' \in [Sessions -> 0 .. Credit]
    BY <2>2
  <2> QED
    BY <2>1, <2>3
<1>4. CASE IoWake \/ IoResume \/ IoYield \/ IoReadFails \/ RefuseForMemory
  BY <1>4 DEF IoWake, IoResume, IoYield, IoReadFails, RefuseForMemory, session
<1>5. CASE TimerRun
  BY <1>5 DEF TimerRun, session
<1>6. CASE TimerExpire \/ StopWrite
  BY <1>6 DEF TimerExpire, StopWrite, session
<1>7. CASE EventWake
  BY <1>7 DEF EventWake, Joined, Woken
<1>8. CASE EventJoinTimer \/ EventExit
  BY <1>8 DEF EventJoinTimer, EventExit, Joined, Woken, session
<1>9. CASE UNCHANGED vars
  BY <1>9 DEF vars, session
<1> QED
  BY <1>1, <1>2, <1>3, <1>4, <1>5, <1>6, <1>7, <1>8, <1>9 DEF Next

(* Every variable keeps its type; the count never goes below zero because  *)
(* it is the length of the list.                                           *)
THEOREM TypeCorrect == Spec => []TypeOK
<1>1. Init => ServiceTypes
  <2> SUFFICES ASSUME Init PROVE ServiceTypes
    OBVIOUS
  <2>1. credit \in [Sessions -> 0 .. Credit]
    BY CreditAssumption DEF Init
  <2>2. run \in BOOLEAN /\ stop_byte \in BOOLEAN /\ aborted \in BOOLEAN
    BY Zenon DEF Init
  <2> QED
    BY <2>1, <2>2 DEF Init, ServiceTypes
<1>2. IInv /\ ListInv /\ ServiceTypes => TypeOK
  BY LenProperties DEF IInv, FieldTypes, ListInv, ServiceTypes, TypeOK
<1> QED
  BY <1>1, <1>2, NextServiceTypes, InitIInv, NextIInv, InitListInv, NextListInv, PTL DEF Spec
=============================================================================
