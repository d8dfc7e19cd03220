----------------------------- MODULE AppProofs -----------------------------
(***************************************************************************)
(* Proofs about the application's side of the tunnel: its service with the *)
(* encrypted DNS, and its list of proxies, which share no state.           *)
(*                                                                         *)
(* VpnService, for any proxies and any number of intents and disturbances: *)
(* a stop ends the worker, and as long as intents do not overlap the       *)
(* worker never uses a closed descriptor.                                  *)
(*                                                                         *)
(* Interceptor, on top of it: the service with the encrypted DNS is still  *)
(* the service, the worker never uses a closed pair, and no answer goes to *)
(* another interface than the one that asked.                              *)
(*                                                                         *)
(* ProxyList, for any proxies, any limit and any number of fetches and     *)
(* lives: no proxy is listed twice, favorites are shown, and what was      *)
(* listed when the preferences were last written comes back after a        *)
(* restart.                                                                *)
(***************************************************************************)
EXTENDS Interceptor, ProxyList, SequenceTheorems, FiniteSetTheorems, TLAPS

-----------------------------------------------------------------------------
(* VpnService                                                              *)

Done(j) == jobs[j].pc = "done"

\* From a stop that finds all at rest until the worker is gone: first only its
\* intent is there, then only its coroutine, which no destruction can cancel
\* before it has stopped the worker; and no start is under way.
StopPhase ==
    stopped =>
        /\ \A i \in DOMAIN main : main[i].action # "START"
        /\ \A j \in DOMAIN jobs : jobs[j].kind = "start" => Done(j)
        /\ \/ main = <<STOP>> /\ \A j \in DOMAIN jobs : Done(j)
           \/ /\ main = <<>>
              /\ \E j \in DOMAIN jobs :
                    /\ jobs[j].pc \in {"launched", "stopNative"}
                    /\ \A k \in DOMAIN jobs : k # j => Done(k)
           \/ worker = None

\* What the coroutine at work relies on: the worker is gone when it closes a
\* descriptor, and its own descriptor is open when it starts the worker.
Relies(j) ==
    /\ jobs[j].pc \in {"closeOld", "close"} => worker = None
    /\ jobs[j].pc \in {"process", "config", "native"} => j \in tuns

\* Without overlaps there is one message or one coroutine at a time.
CalmPhase ==
    ~overlapped =>
        /\ worker \in {None} \cup tuns
        /\ \/ Len(main) <= 1 /\ \A j \in DOMAIN jobs : Done(j)
           \/ /\ main = <<>>
              /\ \E j \in DOMAIN jobs : Relies(j) /\ \A k \in DOMAIN jobs : k # j => Done(k)

\* At most one destruction waits, and it is that of the current instance.
Destroys ==
    \A i \in DOMAIN main :
        main[i].action = "DESTROY" =>
            /\ instance \in stopping
            /\ \A k \in DOMAIN main : main[k].action = "DESTROY" => k = i

VInv == TypeOK /\ Destroys /\ StopPhase /\ CalmPhase
-----------------------------------------------------------------------------
LEMMA VpnInit == Init => VInv
<1> SUFFICES ASSUME Init PROVE VInv
  OBVIOUS
<1>1. /\ isVpnActive \in BOOLEAN /\ selectedProxy \in Proxies /\ sent \in 0 .. MaxIntents
      /\ main \in Seq(Intents) /\ jobs \in Seq(Coroutines)
  <2>1. isVpnActive \in BOOLEAN
    BY DEF Init
  <2>2. sent \in 0 .. MaxIntents /\ main \in Seq(Intents) /\ jobs \in Seq(Coroutines)
    BY VpnAssumption DEF Init
  <2>3. QED BY <2>1, <2>2 DEF Init
<1>2. /\ instance \in {None, instances} /\ instances \in Nat
      /\ cancelled \subseteq stopping /\ stopping \subseteq 1 .. instances
  BY DEF Init
<1>3. /\ vpnInterface \in [Instances -> {None} \cup DOMAIN jobs]
      /\ process \in [Instances -> [Cores -> {None} \cup DOMAIN jobs]]
  BY DEF Init, Nobody
<1>4. /\ tuns \subseteq DOMAIN jobs /\ worker \in {None} \cup DOMAIN jobs
      /\ config \in Cores \cup {"none"} /\ upstream \in Cores \cup {"none"}
      /\ port \in [Cores -> {None} \cup DOMAIN jobs]
  BY DEF Init, Nobody
<1>5. /\ overlapped \in BOOLEAN /\ stopped \in BOOLEAN /\ disturbances \in 0 .. MaxDisturbances
  <2>1. overlapped \in BOOLEAN /\ stopped \in BOOLEAN
    BY DEF Init
  <2>2. disturbances \in 0 .. MaxDisturbances
    BY VpnAssumption DEF Init
  <2>3. QED BY <2>1, <2>2
<1>6. Destroys /\ StopPhase /\ CalmPhase
  BY DEF Init, Destroys, StopPhase, CalmPhase
<1>7. QED BY <1>1, <1>2, <1>3, <1>4, <1>5, <1>6 DEF VInv, TypeOK

-----------------------------------------------------------------------------
(* The list of coroutines                                                  *)

LEMMA ListUpdated ==
    ASSUME NEW S, NEW s \in Seq(S), NEW i \in 1 .. Len(s), NEW x \in S
    PROVE  /\ [s EXCEPT ![i] = x] \in Seq(S)
           /\ Len([s EXCEPT ![i] = x]) = Len(s)
           /\ [s EXCEPT ![i] = x][i] = x
           /\ \A k \in 1 .. Len(s) : k # i => [s EXCEPT ![i] = x][k] = s[k]
  OBVIOUS

LEMMA ListAppended ==
    ASSUME NEW S, NEW s \in Seq(S), NEW x \in S
    PROVE  /\ Append(s, x) \in Seq(S) /\ Len(Append(s, x)) = Len(s) + 1
           /\ Append(s, x)[Len(s) + 1] = x
           /\ \A k \in 1 .. Len(s) : Append(s, x)[k] = s[k]
  OBVIOUS

LEMMA OneLonger ==
    ASSUME NEW S, NEW s \in Seq(S), NEW t \in Seq(S), Len(t) = Len(s) + 1
    PROVE  /\ Len(s) + 1 \in DOMAIN t
           /\ \A k \in DOMAIN t : k # Len(s) + 1 => k \in DOMAIN s /\ k \in 1 .. Len(s)
  OBVIOUS

LEMMA ListJoined ==
    ASSUME NEW S, NEW s \in Seq(S), NEW t \in Seq(S)
    PROVE  /\ s \o t \in Seq(S) /\ Len(s \o t) = Len(s) + Len(t)
           /\ \A k \in 1 .. Len(s) : (s \o t)[k] = s[k]
           /\ \A k \in 1 .. Len(t) : (s \o t)[Len(s) + k] = t[k]
  OBVIOUS

\* A coroutine goes to another place and the others stay.
Moved(j, pc) ==
    /\ jobs' \in Seq(Coroutines) /\ Len(jobs') = Len(jobs)
    /\ jobs'[j].pc = pc /\ jobs'[j].kind = jobs[j].kind
    /\ jobs'[j].inst = jobs[j].inst /\ jobs'[j].proxy = jobs[j].proxy
    /\ \A k \in 1 .. Len(jobs) : k # j => jobs'[k] = jobs[k]

LEMMA GotoMoves ==
    ASSUME jobs \in Seq(Coroutines), NEW j \in DOMAIN jobs, NEW pc \in Places, Goto(j, pc)
    PROVE  Moved(j, pc)
<1>1. jobs[j] \in Coroutines
  OBVIOUS
<1>2. [jobs[j] EXCEPT !.pc = pc] \in Coroutines
  BY <1>1 DEF Coroutines
<1>3. jobs' = [jobs EXCEPT ![j] = [jobs[j] EXCEPT !.pc = pc]]
  BY DEF Goto
<1>4. /\ [jobs[j] EXCEPT !.pc = pc].pc = pc /\ [jobs[j] EXCEPT !.pc = pc].kind = jobs[j].kind
      /\ [jobs[j] EXCEPT !.pc = pc].inst = jobs[j].inst /\ [jobs[j] EXCEPT !.pc = pc].proxy = jobs[j].proxy
  BY <1>1 DEF Coroutines
<1> DEFINE moved == [jobs[j] EXCEPT !.pc = pc]
<1> HIDE DEF moved
<1>5. /\ jobs' \in Seq(Coroutines) /\ Len(jobs') = Len(jobs) /\ jobs'[j] = moved
      /\ \A k \in 1 .. Len(jobs) : k # j => jobs'[k] = jobs[k]
  <2>1. moved \in Coroutines /\ jobs' = [jobs EXCEPT ![j] = moved]
    BY <1>2, <1>3 DEF moved
  <2>2. QED BY <2>1, ListUpdated
<1>6. /\ moved.pc = pc /\ moved.kind = jobs[j].kind
      /\ moved.inst = jobs[j].inst /\ moved.proxy = jobs[j].proxy
  BY <1>4 DEF moved
<1>7. QED BY <1>5, <1>6 DEF Moved

LEMMA GotoKeepsTarget ==
    ASSUME jobs \in Seq(Coroutines), NEW j \in DOMAIN jobs, NEW pc, Goto(j, pc)
    PROVE  jobs'[j].target = jobs[j].target
<1>1. jobs[j] \in Coroutines /\ jobs'[j] = [jobs[j] EXCEPT !.pc = pc]
  BY DEF Goto
<1> QED
  BY <1>1 DEF Coroutines

\* The start of a core sets the target too.
LEMMA ProcessMoves ==
    ASSUME jobs \in Seq(Coroutines), NEW j \in DOMAIN jobs, NEW core \in Cores, GotoConfig(j, core)
    PROVE  Moved(j, "config") /\ jobs'[j].target = core
<1> DEFINE moved == [jobs[j] EXCEPT !.pc = "config", !.target = core]
<1>1. jobs[j] \in Coroutines
  OBVIOUS
<1>2. /\ moved \in Coroutines /\ moved.pc = "config" /\ moved.kind = jobs[j].kind
      /\ moved.inst = jobs[j].inst /\ moved.proxy = jobs[j].proxy /\ moved.target = core
  BY <1>1 DEF Coroutines, Places
<1>3. jobs' = [jobs EXCEPT ![j] = moved]
  BY DEF GotoConfig
<1> HIDE DEF moved
<1>4. /\ jobs' \in Seq(Coroutines) /\ Len(jobs') = Len(jobs) /\ jobs'[j] = moved
      /\ \A k \in 1 .. Len(jobs) : k # j => jobs'[k] = jobs[k]
  BY <1>2, <1>3, ListUpdated
<1> QED
  BY <1>2, <1>4 DEF Moved

LEMMA NestedTyped ==
    ASSUME NEW A, NEW B, NEW S, NEW f \in [A -> [B -> S]], NEW a, NEW b, NEW x \in S
    PROVE  [f EXCEPT ![a][b] = x] \in [A -> [B -> S]]
<1> DEFINE g == [f[a] EXCEPT ![b] = x]
<1>1. a \in A => g \in [B -> S]
  OBVIOUS
<1>2. [f EXCEPT ![a][b] = x] = [f EXCEPT ![a] = g]
  OBVIOUS
<1> HIDE DEF g
<1> QED
  BY <1>1, <1>2

\* What becomes of the processes and their ports
LEMMA JobCores ==
    ASSUME NEW j, Job(j)
    PROVE  (\E core \in Cores : CoreStarts(j, core)) \/ CoresEnd(Inst(j)) \/ UNCHANGED <<process, port>>
<1>1. CASE StartsProcess(j)
  BY <1>1 DEF StartsProcess, Chosen, Cores
<1>2. CASE StopDestroys(j)
  BY <1>2 DEF StopDestroys
<1>3. CASE Start(j) /\ ~StartsProcess(j)
  BY <1>3 DEF Start, StartBegins, StartStopsOld, StartClosesOld, StartEnters, StartEstablishes,
              WritesConfig, StartsNative, fields, outside
<1>4. CASE Stop(j) /\ ~StopDestroys(j)
  BY <1>4 DEF Stop, StopBegins, StopsNative, StopCloses, StopsSelf, fields, outside
<1> QED
  BY <1>1, <1>2, <1>3, <1>4 DEF Job

LEMMA StartsProcessMoves ==
    ASSUME jobs \in Seq(Coroutines), NEW j \in DOMAIN jobs, StartsProcess(j)
    PROVE  Moved(j, "config") /\ jobs'[j].target \in Cores
<1>1. PICK core \in Cores : GotoConfig(j, core)
  BY DEF StartsProcess, Chosen, Cores
<1> QED
  BY <1>1, ProcessMoves

\* A coroutine ends, and one that stops may follow it.
Replaced(j) ==
    /\ jobs' \in Seq(Coroutines) /\ Len(jobs') \in {Len(jobs), Len(jobs) + 1}
    /\ jobs'[j].pc = "done" /\ jobs'[j].inst = jobs[j].inst
    /\ \A k \in 1 .. Len(jobs) : k # j => jobs'[k] = jobs[k]
    /\ jobs[j].inst \notin cancelled => Len(jobs') = Len(jobs) + 1
    /\ Len(jobs') = Len(jobs) + 1 =>
          /\ jobs'[Len(jobs')].kind = "stop" /\ jobs'[Len(jobs')].pc = "launched"
          /\ jobs'[Len(jobs')].inst = jobs[j].inst

LEMMA EndReplaces ==
    ASSUME jobs \in Seq(Coroutines), NEW j \in DOMAIN jobs, EndWithStop(j)
    PROVE  Replaced(j)
<1> DEFINE last == [jobs[j] EXCEPT !.pc = "done"]
           ended == [jobs EXCEPT ![j] = last]
           stop == Launched("stop", Inst(j), jobs[j].proxy)
<1>1. jobs[j] \in Coroutines
  OBVIOUS
<1>2. last \in Coroutines /\ last.pc = "done" /\ last.inst = jobs[j].inst
  BY <1>1 DEF Coroutines, Places
<1>3. stop \in Coroutines /\ stop.kind = "stop" /\ stop.pc = "launched" /\ stop.inst = jobs[j].inst
  BY <1>1 DEF Launched, Inst, Coroutines, JobKinds, Places, Cores
<1>5. \/ jobs' = ended /\ jobs[j].inst \in cancelled
      \/ jobs' = Append(ended, stop)
  BY DEF EndWithStop, Inst
<1> HIDE DEF last, stop
<1>4. /\ ended \in Seq(Coroutines) /\ Len(ended) = Len(jobs) /\ ended[j].pc = "done"
      /\ ended[j].inst = jobs[j].inst
      /\ \A k \in 1 .. Len(jobs) : k # j => ended[k] = jobs[k]
  BY <1>2, ListUpdated
<1> HIDE DEF ended
<1>6. CASE jobs' = ended /\ jobs[j].inst \in cancelled
  BY <1>4, <1>6 DEF Replaced
<1>7. CASE jobs' = Append(ended, stop)
  <2> DEFINE longer == Append(ended, stop)
  <2>0. /\ longer \in Seq(Coroutines) /\ Len(longer) = Len(ended) + 1 /\ longer[Len(ended) + 1] = stop
        /\ \A k \in 1 .. Len(ended) : longer[k] = ended[k]
    BY <1>3, <1>4, ListAppended
  <2>1. /\ jobs' \in Seq(Coroutines) /\ Len(jobs') = Len(ended) + 1 /\ jobs'[Len(ended) + 1] = stop
        /\ \A k \in 1 .. Len(ended) : jobs'[k] = ended[k]
    BY <1>7, <2>0
  <2>2. QED BY <1>3, <1>4, <2>1 DEF Replaced
<1>8. QED BY <1>5, <1>6, <1>7

-----------------------------------------------------------------------------
(* Types                                                                   *)

\* What a step may do to the references to coroutines
Fields ==
    /\ vpnInterface \in [Instances -> {None} \cup DOMAIN jobs]
    /\ process \in [Instances -> [Cores -> {None} \cup DOMAIN jobs]]
    /\ tuns \subseteq DOMAIN jobs
    /\ worker \in {None} \cup DOMAIN jobs
    /\ config \in Cores \cup {"none"} /\ upstream \in Cores \cup {"none"}
    /\ port \in [Cores -> {None} \cup DOMAIN jobs]

Screen ==
    /\ isVpnActive \in BOOLEAN /\ selectedProxy \in Proxies
    /\ sent \in 0 .. MaxIntents /\ main \in Seq(Intents)
    /\ overlapped \in BOOLEAN /\ stopped \in BOOLEAN /\ disturbances \in 0 .. MaxDisturbances

Life ==
    /\ instance \in {None, instances} /\ instances \in Nat
    /\ cancelled \subseteq stopping /\ stopping \subseteq 1 .. instances

\* References stay references when coroutines are added.
LEMMA FieldsKept ==
    ASSUME Fields, jobs \in Seq(Coroutines), jobs' \in Seq(Coroutines), Len(jobs') >= Len(jobs),
           UNCHANGED <<fields, outside>>
    PROVE  Fields'
<1>1. DOMAIN jobs \subseteq DOMAIN jobs'
  OBVIOUS
<1>2. UNCHANGED <<vpnInterface, process, tuns, worker, config, upstream, port>>
  BY DEF fields, outside
<1>3. QED BY <1>1, <1>2 DEF Fields

LEMMA IntentTypes ==
    /\ \A p \in Proxies : START(p) \in Intents /\ START(p).action = "START"
    /\ STOP \in Intents /\ STOP.action = "STOP"
    /\ DESTROY \in Intents /\ DESTROY.action = "DESTROY"
  BY DEF START, STOP, DESTROY, Intents

\* Intents sent by the screen or the notification
LEMMA SendTypes ==
    ASSUME TypeOK, NEW messages \in Seq(Intents), Send(messages)
    PROVE  /\ sent' \in 0 .. MaxIntents /\ main' \in Seq(Intents)
           /\ overlapped' \in BOOLEAN /\ stopped' \in BOOLEAN
           /\ Life' /\ Fields' /\ jobs' \in Seq(Coroutines)
<1>1. main' \in Seq(Intents)
  BY DEF Send, TypeOK
<1>2. sent' \in 0 .. MaxIntents
  BY VpnAssumption DEF Send, TypeOK
<1>3. overlapped' \in BOOLEAN
  BY DEF Send
<1>4. stopped' \in BOOLEAN
  BY DEF Send
<1>5. Life' /\ Fields' /\ jobs' \in Seq(Coroutines)
  BY DEF Send, TypeOK, Life, Fields, lifecycle, fields, outside
<1>6. QED BY <1>1, <1>2, <1>3, <1>4, <1>5

LEMMA UserTypes ==
    ASSUME TypeOK, ToggleOn \/ ToggleOff \/ (\E p \in Proxies : Select(p)) \/ NotificationStop
    PROVE  TypeOK'
<1>1. /\ sent' \in 0 .. MaxIntents /\ main' \in Seq(Intents)
      /\ overlapped' \in BOOLEAN /\ stopped' \in BOOLEAN
      /\ Life' /\ Fields' /\ jobs' \in Seq(Coroutines)
  <2>0. \A a, b \in Intents : <<a>> \in Seq(Intents) /\ <<a, b>> \in Seq(Intents)
    OBVIOUS
  <2>1. CASE \E messages \in Seq(Intents) : Send(messages)
    BY <2>1, SendTypes
  <2>2. CASE UNCHANGED <<sent, main, lifecycle, fields, jobs, outside, overlapped, stopped>>
    BY <2>2 DEF TypeOK, Life, Fields, lifecycle, fields, outside
  <2>3. CASE ToggleOn
    <3>1. Send(<<START(selectedProxy)>>) /\ START(selectedProxy) \in Intents
      BY <2>3, IntentTypes DEF ToggleOn, TypeOK
    <3>2. QED BY <2>0, <2>1, <3>1
  <2>4. CASE ToggleOff
    <3>1. Send(<<STOP>>)
      BY <2>4 DEF ToggleOff
    <3>2. QED BY <2>0, <2>1, <3>1, IntentTypes
  <2>5. ASSUME NEW p \in Proxies, Select(p) PROVE (\E messages \in Seq(Intents) : Send(messages))
                \/ UNCHANGED <<sent, main, lifecycle, fields, jobs, outside, overlapped, stopped>>
    <3>1. CASE isVpnActive
      <4>1. Send(<<STOP, START(p)>>)
        BY <2>5, <3>1 DEF Select
      <4>2. QED BY <2>0, <4>1, IntentTypes
    <3>2. CASE ~isVpnActive
      BY <2>5, <3>2 DEF Select
    <3>3. QED BY <3>1, <3>2
  <2>6. CASE NotificationStop
    <3>1. Send(<<STOP>>)
      BY <2>6 DEF NotificationStop
    <3>2. QED BY <2>0, <2>1, <3>1, IntentTypes
  <2>7. QED BY <2>1, <2>2, <2>3, <2>4, <2>5, <2>6
<1>2. isVpnActive' \in BOOLEAN
  BY DEF ToggleOn, ToggleOff, Select, NotificationStop, TypeOK
<1>3. selectedProxy' \in Proxies
  BY DEF ToggleOn, ToggleOff, Select, NotificationStop, TypeOK
<1>4. disturbances' \in 0 .. MaxDisturbances
  <2>1. disturbances' = disturbances \/ Disturbed
    BY DEF ToggleOn, ToggleOff, Select, NotificationStop
  <2>2. QED BY <2>1, VpnAssumption DEF Disturbed, TypeOK
<1>5. QED BY <1>1, <1>2, <1>3, <1>4 DEF TypeOK, Life, Fields
\* StopService tells the main thread at most once for each instance.
LEMMA StopServiceTypes ==
    ASSUME TypeOK, Destroys, NEW i \in Nat \ {None}, StopService(i),
           UNCHANGED <<instance, instances, cancelled>>
    PROVE  main' \in Seq(Intents) /\ Life' /\ Destroys'
<1>1. CASE i = instance /\ i \notin stopping
  <2>1. main' = Append(main, DESTROY) /\ stopping' = stopping \cup {i} /\ main \in Seq(Intents)
    BY <1>1 DEF StopService, TypeOK
  <2>2. /\ main' \in Seq(Intents) /\ Len(main') = Len(main) + 1
        /\ main'[Len(main) + 1] = DESTROY
        /\ \A k \in 1 .. Len(main) : main'[k] = main[k]
    BY <2>1, IntentTypes, ListAppended
  <2>3. \A k \in 1 .. Len(main) : main'[k].action # "DESTROY"
    BY <1>1, <2>1, <2>2 DEF Destroys
  <2>4. instance' \in stopping'
    BY <1>1, <2>1
  <2>5. Destroys'
    BY <2>2, <2>3, <2>4 DEF Destroys
  <2>6. Life'
    BY <1>1, <2>1 DEF TypeOK, Life, None
  <2>7. QED BY <2>2, <2>5, <2>6
<1>2. CASE ~(i = instance /\ i \notin stopping)
  BY <1>2 DEF StopService, TypeOK, Life, Destroys
<1>3. QED BY <1>1, <1>2

LEMMA RevokeTypes ==
    ASSUME TypeOK, Destroys, Revoke
    PROVE  TypeOK' /\ Destroys'
<1>1. instance \in Nat \ {None}
  BY DEF Revoke, TypeOK
<1>2. main' \in Seq(Intents) /\ Life' /\ Destroys'
  BY <1>1, StopServiceTypes DEF Revoke
<1>3. /\ UNCHANGED <<isVpnActive, selectedProxy, sent, jobs>>
      /\ UNCHANGED <<vpnInterface, process, tuns, worker, config, upstream, port>>
  BY DEF Revoke, screen, fields, outside
<1>4. overlapped' \in BOOLEAN /\ stopped' \in BOOLEAN
  BY DEF Revoke
<1>5. disturbances' \in 0 .. MaxDisturbances
  BY VpnAssumption DEF Revoke, Disturbed, TypeOK
<1>6. QED BY <1>2, <1>3, <1>4, <1>5 DEF TypeOK, Life

\* The message the main thread handles is gone.
LEMMA Handled ==
    ASSUME NEW S, NEW s \in Seq(S), s # <<>>
    PROVE  /\ Tail(s) \in Seq(S) /\ Len(Tail(s)) = Len(s) - 1
           /\ Head(s) = s[1] /\ Head(s) \in S
           /\ \A k \in 1 .. Len(Tail(s)) : Tail(s)[k] = s[k + 1]
  OBVIOUS

\* What onStartCommand launches
LEMMA StartLaunches ==
    ASSUME TypeOK, OnStartCommand
    PROVE  /\ jobs' \in Seq(Coroutines) /\ Len(jobs') = Len(jobs) + 1
           /\ jobs'[Len(jobs) + 1].pc = "launched"
           /\ jobs'[Len(jobs) + 1].inst = instance'
           /\ Head(main).action = "STOP" => jobs'[Len(jobs) + 1].kind = "stop"
           /\ Head(main).action = "START" =>
                 jobs'[Len(jobs) + 1].kind = "start" /\ jobs'[Len(jobs) + 1].proxy = Head(main).proxy
           /\ \A k \in 1 .. Len(jobs) : jobs'[k] = jobs[k]
<1> DEFINE i == IF instance = None THEN instances + 1 ELSE instance
           job == IF Head(main).action = "START" THEN Launched("start", i, Head(main).proxy)
                  ELSE Launched("stop", i, selectedProxy)
<1>1. main \in Seq(Intents) /\ main # <<>> /\ jobs \in Seq(Coroutines)
  BY DEF OnStartCommand, TypeOK
<1>2. Head(main) \in Intents
  BY <1>1, Handled
<1>3. i \in Nat \ {None}
  BY DEF TypeOK, None
<1>4. /\ job \in Coroutines /\ job.pc = "launched" /\ job.inst = i
      /\ Head(main).action = "STOP" => job.kind = "stop"
      /\ Head(main).action = "START" => job.kind = "start" /\ job.proxy = Head(main).proxy
  BY <1>2, <1>3 DEF Launched, Coroutines, JobKinds, Places, Cores, Intents, TypeOK
<1>5. jobs' = Append(jobs, job) /\ instance' = i
  BY DEF OnStartCommand
<1> HIDE DEF job
<1>6. QED BY <1>1, <1>4, <1>5, ListAppended

LEMMA OnStartCommandTypes ==
    ASSUME TypeOK, Destroys, OnStartCommand
    PROVE  TypeOK' /\ Destroys'
<1>1. /\ main' = Tail(main) /\ main \in Seq(Intents) /\ main # <<>>
      /\ UNCHANGED <<isVpnActive, selectedProxy, sent, cancelled, stopping, fields, outside>>
      /\ UNCHANGED <<overlapped, stopped, disturbances>>
  BY DEF OnStartCommand, TypeOK, screen, history
<1>2. jobs' \in Seq(Coroutines) /\ Len(jobs') = Len(jobs) + 1
  BY StartLaunches
<1>3. main' \in Seq(Intents) /\ \A k \in DOMAIN main' : main'[k] = main[k + 1] /\ k + 1 \in DOMAIN main
  BY <1>1, Handled
<1>4. Fields'
  BY <1>1, <1>2, FieldsKept DEF TypeOK, Fields
<1>5. /\ instance' \in {None, instances'} /\ instances' \in Nat /\ instances' >= instances
      /\ instance # None => instance' = instance
  BY DEF OnStartCommand, TypeOK, None
<1>6. Life'
  BY <1>1, <1>5 DEF TypeOK, Life
<1>7. Destroys'
  <2>1. None \notin stopping
    BY DEF TypeOK, None
  <2>2. QED BY <1>1, <1>3, <1>5, <2>1 DEF Destroys
<1>8. QED BY <1>1, <1>2, <1>3, <1>4, <1>6 , <1>7 DEF TypeOK, Life, Fields

\* What onDestroy makes of the coroutines
LEMMA DestroyCancels ==
    ASSUME TypeOK, Destroys, OnDestroy
    PROVE  /\ jobs' \in Seq(Coroutines) /\ Len(jobs') = Len(jobs) + 1
           /\ jobs'[Len(jobs) + 1].kind = "stop" /\ jobs'[Len(jobs) + 1].inst = instance
           /\ jobs'[Len(jobs) + 1].pc \in {"stopNative", "done"}
           /\ \A k \in 1 .. Len(jobs) :
                 /\ jobs'[k].kind = jobs[k].kind /\ jobs'[k].inst = jobs[k].inst
                 /\ jobs[k].pc # "launched" => jobs'[k] = jobs[k]
                 /\ jobs'[k].pc \in {jobs[k].pc, "done"}
<1> DEFINE last(k) == [jobs[k] EXCEPT !.pc = "done"]
           kept == [k \in DOMAIN jobs |->
                       IF jobs[k].inst = instance /\ jobs[k].pc = "launched" THEN last(k) ELSE jobs[k]]
           stop(pc) == [Launched("stop", instance, selectedProxy) EXCEPT !.pc = pc]
<1>1. PICK pc \in {"stopNative", "done"} : jobs' = Append(kept, stop(pc))
  BY DEF OnDestroy
<1>2. instance \in Nat \ {None} /\ jobs \in Seq(Coroutines) /\ selectedProxy \in Proxies
  <2>1. main \in Seq(Intents) /\ main # <<>> /\ Head(main).action = "DESTROY"
    BY DEF OnDestroy, TypeOK
  <2>2. 1 \in DOMAIN main /\ main[1].action = "DESTROY"
    BY <2>1
  <2>3. QED BY <2>2 DEF Destroys, TypeOK, None
<1>3. stop(pc) \in Coroutines /\ stop(pc).kind = "stop" /\ stop(pc).pc = pc /\ stop(pc).inst = instance
  BY <1>2 DEF Launched, Coroutines, JobKinds, Places, Cores
<1>4. \A k \in 1 .. Len(jobs) : jobs[k] \in Coroutines
  BY <1>2
<1>5. \A k \in 1 .. Len(jobs) : last(k) \in Coroutines /\ last(k).kind = jobs[k].kind /\ last(k).pc = "done"
                                 /\ last(k).inst = jobs[k].inst
  BY <1>4 DEF Coroutines, Places
<1> HIDE DEF last, stop
<1>6. /\ kept \in Seq(Coroutines) /\ Len(kept) = Len(jobs)
      /\ \A k \in 1 .. Len(jobs) :
            /\ kept[k].kind = jobs[k].kind /\ kept[k].inst = jobs[k].inst
            /\ jobs[k].pc # "launched" => kept[k] = jobs[k]
            /\ kept[k].pc \in {jobs[k].pc, "done"}
  BY <1>2, <1>4, <1>5
<1> HIDE DEF kept
<1>7. /\ jobs' \in Seq(Coroutines) /\ Len(jobs') = Len(kept) + 1 /\ jobs'[Len(kept) + 1] = stop(pc)
      /\ \A k \in 1 .. Len(kept) : jobs'[k] = kept[k]
  BY <1>1, <1>3, <1>6, ListAppended
<1>8. QED BY <1>3, <1>6, <1>7

LEMMA OnDestroyTypes ==
    ASSUME TypeOK, Destroys, OnDestroy
    PROVE  TypeOK' /\ Destroys'
<1>1. /\ main' = Tail(main) /\ main \in Seq(Intents) /\ main # <<>> /\ Head(main).action = "DESTROY"
      /\ instance' = None /\ cancelled' = cancelled \cup {instance}
      /\ UNCHANGED <<isVpnActive, selectedProxy, sent, instances, stopping, fields, outside>>
      /\ UNCHANGED <<overlapped, stopped, disturbances>>
  BY DEF OnDestroy, TypeOK, screen, history
<1>2. jobs' \in Seq(Coroutines) /\ Len(jobs') = Len(jobs) + 1
  BY DestroyCancels
<1>3. main' \in Seq(Intents) /\ \A k \in DOMAIN main' : main'[k] = main[k + 1] /\ k + 1 \in DOMAIN main
  BY <1>1, Handled
<1>4. Fields'
  BY <1>1, <1>2, FieldsKept DEF TypeOK, Fields
<1>5. 1 \in DOMAIN main /\ main[1].action = "DESTROY"
  BY <1>1
<1>6. instance \in stopping /\ \A k \in DOMAIN main : main[k].action = "DESTROY" => k = 1
  BY <1>5 DEF Destroys
<1>7. Life'
  BY <1>1, <1>6 DEF TypeOK, Life
<1>8. \A k \in DOMAIN main' : main'[k].action # "DESTROY"
  <2>1. \A k \in DOMAIN main' : k + 1 # 1
    BY <1>3
  <2>2. QED BY <1>3, <1>6, <2>1
<1>9. QED BY <1>1, <1>2, <1>3, <1>4, <1>7, <1>8 DEF TypeOK, Life, Fields, Destroys
\* What a step of a coroutine makes of the list of coroutines
LEMMA JobMoves ==
    ASSUME TypeOK, NEW j \in DOMAIN jobs, Job(j)
    PROVE  \/ \E pc \in Places : Moved(j, pc)
           \/ Replaced(j)
<1>1. jobs \in Seq(Coroutines)
  BY DEF TypeOK
<1>2. (\E pc \in Places : Goto(j, pc)) \/ EndWithStop(j) \/ StartsProcess(j)
  <2> USE DEF Places
  <2>1. CASE StartBegins(j)      BY <2>1 DEF StartBegins
  <2>2. CASE StartStopsOld(j)    BY <2>2 DEF StartStopsOld
  <2>3. CASE StartClosesOld(j)   BY <2>3 DEF StartClosesOld
  <2>4. CASE StartEstablishes(j) BY <2>4 DEF StartEstablishes
  <2>5. CASE StartEnters(j)      BY <2>5 DEF StartEnters
  <2>6. CASE StartsNative(j)     BY <2>6 DEF StartsNative
  <2>7. CASE StopBegins(j)       BY <2>7 DEF StopBegins
  <2>8. CASE StopsNative(j)      BY <2>8 DEF StopsNative
  <2>9. CASE StopCloses(j)       BY <2>9 DEF StopCloses
  <2>10. CASE StopDestroys(j)    BY <2>10 DEF StopDestroys
  <2>11. CASE StopsSelf(j)       BY <2>11 DEF StopsSelf
  <2>12. CASE WritesConfig(j)    BY <2>12 DEF WritesConfig
  <2>13. QED
    BY <2>1, <2>2, <2>3, <2>4, <2>5, <2>6, <2>7, <2>8, <2>9, <2>10, <2>11, <2>12 DEF Job, Start, Stop
<1>3. "config" \in Places
  BY DEF Places
<1>4. QED BY <1>1, <1>2, <1>3, GotoMoves, EndReplaces, StartsProcessMoves

LEMMA JobTypes ==
    ASSUME TypeOK, Destroys, NEW j \in DOMAIN jobs, Job(j)
    PROVE  TypeOK' /\ Destroys'
<1>0. /\ jobs' \in Seq(Coroutines) /\ DOMAIN jobs \subseteq DOMAIN jobs'
  <2>1. jobs \in Seq(Coroutines)
    BY DEF TypeOK
  <2>2. QED BY <2>1, JobMoves DEF Moved, Replaced
<1>1. UNCHANGED <<isVpnActive, selectedProxy, sent, instance, instances, cancelled, overlapped, stopped>>
  BY DEF Job, Start, Stop, StartBegins, StartStopsOld, StartClosesOld, StartEstablishes, StartsProcess,
         StartEnters, WritesConfig, WorkerEnds, StartsNative, StopBegins, StopsNative, StopCloses,
         StopDestroys, StopsSelf, screen, lifecycle, history
<1>2. disturbances' \in 0 .. MaxDisturbances
  <2>1. disturbances' = disturbances \/ Disturbed
    BY DEF Job, Start, Stop, StartBegins, StartStopsOld, StartClosesOld, StartEstablishes, StartsProcess,
           StartEnters, WritesConfig, WorkerEnds, StartsNative, StopBegins, StopsNative, StopCloses,
         StopDestroys, StopsSelf, history
  <2>2. QED BY <2>1, VpnAssumption DEF Disturbed, TypeOK
<1>3. main' \in Seq(Intents) /\ Life' /\ Destroys'
  <2>1. CASE StopsSelf(j)
    <3>1. jobs[j] \in Coroutines
      BY DEF TypeOK
    <3>2. Inst(j) \in Nat \ {None}
      BY <3>1 DEF Inst, Coroutines
    <3>3. StopService(Inst(j)) /\ UNCHANGED <<instance, instances, cancelled>>
      BY <2>1 DEF StopsSelf
    <3>4. QED BY <3>2, <3>3, StopServiceTypes
  <2>2. CASE ~StopsSelf(j)
    <3>1. UNCHANGED <<main, lifecycle>>
      BY <2>2 DEF Job, Start, Stop, StartBegins, StartStopsOld, StartClosesOld, StartEstablishes, StartsProcess,
             StartEnters, WritesConfig, WorkerEnds, StartsNative, StopBegins, StopsNative, StopCloses, StopDestroys
    <3>2. QED BY <3>1 DEF lifecycle, TypeOK, Life, Destroys
  <2>3. QED BY <2>1, <2>2
<1>4. vpnInterface' \in [Instances -> {None} \cup DOMAIN jobs']
  <2>1. /\ vpnInterface \in [Instances -> {None} \cup DOMAIN jobs']
        /\ j \in DOMAIN jobs'
    BY <1>0 DEF TypeOK
  <2>2. \/ vpnInterface' = vpnInterface
        \/ vpnInterface' = [vpnInterface EXCEPT ![Inst(j)] = None]
        \/ vpnInterface' = [vpnInterface EXCEPT ![Inst(j)] = j]
    BY DEF Job, Start, Stop, StartBegins, StartStopsOld, StartClosesOld, StartEstablishes, StartsProcess,
           StartEnters, WritesConfig, WorkerEnds, StartsNative, StopBegins, StopsNative, StopCloses,
         StopDestroys, StopsSelf, Closed, fields
  <2>3. QED BY <2>1, <2>2
<1>5. process' \in [Instances -> [Cores -> {None} \cup DOMAIN jobs']]
  <2>1. /\ process \in [Instances -> [Cores -> {None} \cup DOMAIN jobs']]
        /\ j \in DOMAIN jobs'
    BY <1>0 DEF TypeOK
  <2>2. CASE \E core \in Cores : CoreStarts(j, core)
    <3>1. PICK core \in Cores : process' = [process EXCEPT ![Inst(j)][core] = j]
      BY <2>2 DEF CoreStarts
    <3>2. j \in {None} \cup DOMAIN jobs'
      BY <2>1
    <3> HIDE DEF Inst
    <3>3. [process EXCEPT ![Inst(j)][core] = j] \in [Instances -> [Cores -> {None} \cup DOMAIN jobs']]
      BY <2>1, <3>2, NestedTyped, Zenon
    <3> QED
      BY <3>1, <3>3, Zenon
  <2>3. CASE CoresEnd(Inst(j))
    BY <2>1, <2>3, NestedTyped DEF CoresEnd
  <2>4. CASE UNCHANGED process
    BY <2>1, <2>4
  <2>5. QED
    BY <2>2, <2>3, <2>4, JobCores
<1>6. tuns' \subseteq DOMAIN jobs'
  <2>1. tuns' \subseteq tuns \cup {j}
    BY DEF Job, Start, Stop, StartBegins, StartStopsOld, StartClosesOld, StartEstablishes, StartsProcess,
           StartEnters, WritesConfig, WorkerEnds, StartsNative, StopBegins, StopsNative, StopCloses,
         StopDestroys, StopsSelf, Closed, outside
  <2>2. QED BY <1>0, <2>1 DEF TypeOK
<1>7. /\ worker' \in {None} \cup DOMAIN jobs'
      /\ config' \in Cores \cup {"none"} /\ upstream' \in Cores \cup {"none"}
  <2>1. worker' \in {worker, None, j} /\ config' \in {config, jobs[j].target} /\ upstream' \in {upstream, "none"}
    <3>1. CASE StartStopsOld(j) \/ StopsNative(j)
      BY <3>1 DEF StartStopsOld, StopsNative, WorkerEnds
    <3>2. CASE WritesConfig(j)
      BY <3>2 DEF WritesConfig
    <3>3. CASE StartsNative(j)
      BY <3>3 DEF StartsNative
    <3>4. CASE Start(j) /\ ~StartStopsOld(j) /\ ~WritesConfig(j) /\ ~StartsNative(j)
      BY <3>4 DEF Start, StartBegins, StartClosesOld, StartEnters, StartEstablishes, StartsProcess, outside
    <3>5. CASE Stop(j) /\ ~StopsNative(j)
      BY <3>5 DEF Stop, StopBegins, StopCloses, StopDestroys, StopsSelf, outside
    <3> QED
      BY <3>1, <3>2, <3>3, <3>4, <3>5 DEF Job
  <2>2. jobs[j].target \in Cores
    <3>1. jobs[j] \in Coroutines
      BY DEF TypeOK
    <3> QED
      BY <3>1 DEF Coroutines
  <2>3. QED BY <1>0, <2>1, <2>2 DEF TypeOK
<1>8. port' \in [Cores -> {None} \cup DOMAIN jobs']
  <2>1. port \in [Cores -> {None} \cup DOMAIN jobs'] /\ j \in DOMAIN jobs'
    BY <1>0 DEF TypeOK
  <2>2. CASE \E core \in Cores : CoreStarts(j, core)
    <3>1. PICK core \in Cores : port' = [port EXCEPT ![core] = IF port[core] = None THEN j ELSE port[core]]
      BY <2>2 DEF CoreStarts
    <3> QED
      BY <2>1, <3>1
  <2>3. CASE CoresEnd(Inst(j))
    <3>1. port' = [c \in Cores |-> IF port[c] = process[Inst(j)][c] THEN None ELSE port[c]]
      BY <2>3 DEF CoresEnd
    <3> QED
      BY <2>1, <3>1
  <2>4. CASE UNCHANGED port
    BY <2>1, <2>4
  <2>5. QED
    BY <2>2, <2>3, <2>4, JobCores
<1>9. QED BY <1>0, <1>1, <1>2, <1>3, <1>4, <1>5, <1>6, <1>7, <1>8 DEF TypeOK, Life

-----------------------------------------------------------------------------
(* The phases                                                              *)

\* A stop the user sends when all is at rest begins the phase, and any other
\* intent ends it.
LEMMA UserPhases ==
    ASSUME VInv, ToggleOn \/ ToggleOff \/ (\E p \in Proxies : Select(p)) \/ NotificationStop
    PROVE  StopPhase' /\ CalmPhase'
<1>0. TypeOK /\ StopPhase /\ CalmPhase /\ main \in Seq(Intents) /\ jobs \in Seq(Coroutines)
  BY DEF VInv, TypeOK
<1>1. ASSUME NEW messages, messages = <<STOP>> \/ (\E p \in Proxies : messages \in {<<START(p)>>, <<STOP, START(p)>>}),
             Send(messages)
      PROVE  StopPhase' /\ CalmPhase'
  <2>1. /\ main' = main \o messages /\ jobs' = jobs /\ worker' = worker /\ tuns' = tuns
        /\ overlapped' = (overlapped \/ ~Quiet \/ Len(messages) > 1)
        /\ stopped' = (Quiet /\ messages = <<STOP>>)
    BY <1>1 DEF Send, outside
  <2>2. Quiet => main = <<>> /\ \A j \in DOMAIN jobs : Done(j)
    BY DEF Quiet, AtWork, Done
  <2>3. StopPhase'
    <3>1. CASE Quiet /\ messages = <<STOP>>
      <4>1. main' = <<STOP>>
        BY <2>1, <2>2, <3>1
      <4>2. QED BY <2>1, <2>2, <3>1, <4>1, IntentTypes DEF StopPhase, Done
    <3>2. CASE ~(Quiet /\ messages = <<STOP>>)
      BY <2>1, <3>2 DEF StopPhase
    <3>3. QED BY <3>1, <3>2
  <2>4. CalmPhase'
    <3>1. CASE ~overlapped /\ Quiet /\ ~(Len(messages) > 1)
      <4>1. main' = messages
        BY <1>1, <2>1, <2>2, <3>1
      <4>2. Len(main') <= 1
        BY <1>1, <3>1, <4>1
      <4>3. QED BY <1>0, <2>1, <2>2, <3>1, <4>2 DEF CalmPhase, Done
    <3>2. CASE ~(~overlapped /\ Quiet /\ ~(Len(messages) > 1))
      BY <2>1, <3>2 DEF CalmPhase
    <3>3. QED BY <3>1, <3>2
  <2>5. QED BY <2>3, <2>4
<1>2. CASE UNCHANGED <<main, jobs, outside, overlapped, stopped>>
  BY <1>0, <1>2 DEF StopPhase, CalmPhase, Done, Relies, outside
<1>3. CASE ToggleOn
  BY <1>0, <1>1, <1>3 DEF ToggleOn, TypeOK
<1>4. CASE ToggleOff
  BY <1>1, <1>4 DEF ToggleOff
<1>5. ASSUME NEW p \in Proxies, Select(p) PROVE StopPhase' /\ CalmPhase'
  BY <1>1, <1>2, <1>5 DEF Select
<1>6. CASE NotificationStop
  BY <1>1, <1>6 DEF NotificationStop
<1>7. QED BY <1>3, <1>4, <1>5, <1>6

\* One coroutine is at work after a step, and what it relies on holds.
LEMMA OneAtWork ==
    ASSUME NEW n \in DOMAIN jobs',
           worker' \in {None} \cup tuns', main' = <<>>,
           \A k \in DOMAIN jobs' : k # n => jobs'[k].pc = "done",
           jobs'[n].pc \in {"closeOld", "close"} => worker' = None,
           jobs'[n].pc \in {"process", "config", "native"} => n \in tuns'
    PROVE  CalmPhase'
  BY DEF CalmPhase, Relies, Done

LEMMA OnStartCommandPhases ==
    ASSUME VInv, OnStartCommand
    PROVE  StopPhase' /\ CalmPhase'
<1>1. /\ main' = Tail(main) /\ main # <<>> /\ main \in Seq(Intents)
      /\ UNCHANGED <<worker, tuns, overlapped, stopped>>
  BY DEF OnStartCommand, VInv, TypeOK, outside, history
<1>2. /\ TypeOK /\ StopPhase /\ CalmPhase
      /\ jobs \in Seq(Coroutines) /\ Len(jobs) + 1 \in DOMAIN jobs'
  BY StartLaunches DEF VInv, TypeOK
<1>3. /\ Len(jobs') = Len(jobs) + 1 /\ jobs'[Len(jobs) + 1].pc = "launched"
      /\ Head(main).action = "STOP" => jobs'[Len(jobs) + 1].kind = "stop"
      /\ \A k \in 1 .. Len(jobs) : jobs'[k] = jobs[k]
      /\ jobs' \in Seq(Coroutines)
  BY <1>2, StartLaunches
<1>4. /\ main' \in Seq(Intents) /\ Len(main') = Len(main) - 1 /\ Head(main) = main[1]
      /\ 1 \in DOMAIN main
      /\ \A k \in DOMAIN main' : main'[k] = main[k + 1] /\ k + 1 \in DOMAIN main
  BY <1>1, Handled
<1>5. StopPhase'
  <2>1. SUFFICES ASSUME stopped PROVE StopPhase'
    BY <1>1 DEF StopPhase
  <2>2. /\ \A i \in DOMAIN main : main[i].action # "START"
        /\ \A j \in DOMAIN jobs : jobs[j].kind = "start" => Done(j)
    BY <1>2, <2>1 DEF StopPhase
  <2>3. \A i \in DOMAIN main' : main'[i].action # "START"
    BY <1>4, <2>2
  <2>4. Head(main).action = "STOP"
    BY <1>1, <1>4, <2>2 DEF OnStartCommand, Intents
  <2>5. \A j \in DOMAIN jobs' : jobs'[j].kind = "start" => Done(j)'
    BY <1>2, <1>3, <2>2, <2>4 DEF Done
  <2>6. CASE worker = None
    BY <1>1, <2>3, <2>5, <2>6 DEF StopPhase
  <2>7. CASE main = <<STOP>> /\ \A j \in DOMAIN jobs : Done(j)
    <3>1. main' = <<>>
      BY <1>1, <2>7
    <3>2. \A k \in DOMAIN jobs' : k # Len(jobs) + 1 => Done(k)'
      BY <1>2, <1>3, <2>7 DEF Done
    <3>3. QED BY <1>2, <1>3, <2>3, <2>5, <3>1, <3>2 DEF StopPhase
  <2>8. QED BY <1>1, <1>2, <2>1, <2>6, <2>7 DEF StopPhase
<1>6. CalmPhase'
  <2>1. SUFFICES ASSUME ~overlapped PROVE CalmPhase'
    BY <1>1 DEF CalmPhase
  <2>2. worker \in {None} \cup tuns /\ Len(main) <= 1 /\ \A j \in DOMAIN jobs : Done(j)
    BY <1>1, <1>2, <2>1 DEF CalmPhase
  <2>3. main' = <<>>
    BY <1>4, <2>2
  <2>4. \A k \in DOMAIN jobs' : k # Len(jobs) + 1 => jobs'[k].pc = "done"
    BY <1>2, <1>3, <2>2 DEF Done
  <2>5. PICK n \in DOMAIN jobs' : n = Len(jobs) + 1
    BY <1>2, <1>3
  <2>6. QED BY <1>1, <1>3, <2>2, <2>3, <2>4, <2>5, OneAtWork
<1>7. QED BY <1>5, <1>6

LEMMA OnDestroyPhases ==
    ASSUME VInv, OnDestroy
    PROVE  StopPhase' /\ CalmPhase'
<1>1. /\ main' = Tail(main) /\ main # <<>> /\ main \in Seq(Intents) /\ Head(main).action = "DESTROY"
      /\ UNCHANGED <<worker, tuns, overlapped, stopped>>
  BY DEF OnDestroy, VInv, TypeOK, outside, history
<1>2. /\ TypeOK /\ StopPhase /\ CalmPhase /\ Destroys /\ jobs \in Seq(Coroutines)
  BY DEF VInv, TypeOK
<1>3. /\ jobs' \in Seq(Coroutines) /\ Len(jobs') = Len(jobs) + 1
      /\ jobs'[Len(jobs) + 1].kind = "stop"
      /\ jobs'[Len(jobs) + 1].pc \in {"stopNative", "done"}
      /\ \A k \in 1 .. Len(jobs) :
            jobs'[k].kind = jobs[k].kind /\ jobs'[k].pc \in {jobs[k].pc, "done"}
  BY <1>2, DestroyCancels
<1>4. /\ main' \in Seq(Intents) /\ Len(main') = Len(main) - 1 /\ Head(main) = main[1]
      /\ 1 \in DOMAIN main
      /\ \A k \in DOMAIN main' : main'[k] = main[k + 1] /\ k + 1 \in DOMAIN main
  BY <1>1, Handled
<1>5. StopPhase'
  <2>1. SUFFICES ASSUME stopped PROVE StopPhase'
    BY <1>1 DEF StopPhase
  <2>2. \A i \in DOMAIN main' : main'[i].action # "START"
    BY <1>2, <1>4, <2>1 DEF StopPhase
  <2>3. \A j \in DOMAIN jobs' : jobs'[j].kind = "start" => Done(j)'
    BY <1>2, <1>3, <2>1 DEF StopPhase, Done
  <2>4. main # <<STOP>>
    BY <1>1, IntentTypes
  <2>5. worker = None
    BY <1>1, <1>2, <2>1, <2>4 DEF StopPhase
  <2>6. QED BY <1>1, <2>2, <2>3, <2>5 DEF StopPhase
<1>6. CalmPhase'
  <2>1. SUFFICES ASSUME ~overlapped PROVE CalmPhase'
    BY <1>1 DEF CalmPhase
  <2>2. worker \in {None} \cup tuns /\ Len(main) <= 1 /\ \A j \in DOMAIN jobs : Done(j)
    BY <1>1, <1>2, <2>1 DEF CalmPhase
  <2>3. main' = <<>>
    BY <1>4, <2>2
  <2>4. \A k \in DOMAIN jobs' : k # Len(jobs) + 1 => jobs'[k].pc = "done"
    BY <1>2, <1>3, <2>2 DEF Done
  <2>5. PICK n \in DOMAIN jobs' : n = Len(jobs) + 1
    BY <1>2, <1>3
  <2>6. QED BY <1>1, <1>3, <2>2, <2>3, <2>4, <2>5, OneAtWork
<1>7. QED BY <1>5, <1>6

LEMMA JobPhases ==
    ASSUME VInv, NEW j \in DOMAIN jobs, Job(j)
    PROVE  StopPhase' /\ CalmPhase'
<1>1. /\ TypeOK /\ StopPhase /\ CalmPhase /\ jobs \in Seq(Coroutines) /\ main \in Seq(Intents)
  BY DEF VInv, TypeOK
<1>2. UNCHANGED <<overlapped, stopped>>
  BY DEF Job, Start, Stop, StartBegins, StartStopsOld, StartClosesOld, StartEstablishes, StartsProcess,
         StartEnters, WritesConfig, WorkerEnds, StartsNative, StopBegins, StopsNative, StopCloses,
         StopDestroys, StopsSelf, history
<1>3. ~Done(j)
  BY DEF Job, Start, Stop, StartBegins, StartStopsOld, StartClosesOld, StartEstablishes, StartsProcess,
         StartEnters, WritesConfig, WorkerEnds, StartsNative, StopBegins, StopsNative, StopCloses,
         StopDestroys, StopsSelf, At, Done
<1>4. (\E pc \in Places : Moved(j, pc)) \/ Replaced(j)
  BY <1>1, JobMoves
<1>5. /\ jobs' \in Seq(Coroutines) /\ Len(jobs') \in {Len(jobs), Len(jobs) + 1}
      /\ \A k \in 1 .. Len(jobs) : k # j => jobs'[k] = jobs[k]
      /\ Len(jobs') = Len(jobs) + 1 =>
            /\ jobs'[j].pc = "done"
            /\ jobs'[Len(jobs')].kind = "stop" /\ jobs'[Len(jobs')].pc = "launched"
  BY <1>1, <1>4 DEF Moved, Replaced
<1>6. StopPhase'
  <2>1. SUFFICES ASSUME stopped PROVE StopPhase'
    BY <1>2 DEF StopPhase
  <2>2. jobs[j].kind # "start"
    BY <1>1, <1>3, <2>1 DEF StopPhase
  <2>3. Stop(j)
    BY <2>2 DEF Job, Start, StartBegins, StartStopsOld, StartClosesOld, StartEstablishes, StartsProcess,
           StartEnters, WritesConfig, WorkerEnds, StartsNative, At
  <2>4. PICK pc \in Places : Goto(j, pc) /\ (jobs[j].pc = "launched" => pc = "stopNative")
    <3> USE DEF Places
    <3>1. CASE StopBegins(j)   BY <3>1 DEF StopBegins
    <3>2. CASE StopsNative(j)  BY <3>2 DEF StopsNative, At
    <3>3. CASE StopCloses(j)   BY <3>3 DEF StopCloses, At
    <3>4. CASE StopDestroys(j) BY <3>4 DEF StopDestroys, At
    <3>5. CASE StopsSelf(j)    BY <3>5 DEF StopsSelf, At
    <3>6. QED BY <2>3, <3>1, <3>2, <3>3, <3>4, <3>5 DEF Stop
  <2>5. Moved(j, pc)
    BY <1>1, <2>4, GotoMoves
  <2>6. \A k \in DOMAIN jobs' : jobs'[k].kind = "start" => Done(k)'
    BY <1>1, <2>1, <2>2, <2>5 DEF StopPhase, Moved, Done
  <2>7. \A i \in DOMAIN main' : main'[i].action # "START"
    <3>1. CASE main' = Append(main, DESTROY)
      <4>1. /\ Len(main') = Len(main) + 1 /\ main' \in Seq(Intents) /\ main'[Len(main) + 1] = DESTROY
            /\ \A k \in 1 .. Len(main) : main'[k] = main[k]
        BY <1>1, <3>1, IntentTypes, ListAppended
      <4>2. QED BY <1>1, <2>1, <4>1, IntentTypes DEF StopPhase
    <3>2. CASE main' = main
      BY <1>1, <2>1, <3>2 DEF StopPhase
    <3>3. QED
      BY <2>3, <3>1, <3>2 DEF Stop, StopBegins, WorkerEnds, StopsNative, StopCloses, StopDestroys, StopsSelf, StopService
  <2>8. worker' \in {worker, None}
    BY <2>3 DEF Stop, StopBegins, WorkerEnds, StopsNative, StopCloses, StopDestroys, StopsSelf, outside
  <2>9. CASE worker = None
    BY <2>6, <2>7, <2>8, <2>9 DEF StopPhase
  <2>10. CASE worker # None
    <3>1. /\ main = <<>> /\ jobs[j].pc \in {"launched", "stopNative"}
          /\ \A k \in DOMAIN jobs : k # j => Done(k)
      BY <1>1, <1>3, <2>1, <2>10 DEF StopPhase
    <3>2. CASE StopsNative(j)
      BY <2>6, <2>7, <3>2 DEF StopPhase, StopsNative, WorkerEnds
    <3>3. CASE StopBegins(j)
      <4>1. main' = main /\ pc = "stopNative"
        BY <2>4, <3>3 DEF StopBegins, At
      <4>2. \A k \in DOMAIN jobs' : k # j => Done(k)'
        BY <1>1, <2>5, <3>1 DEF Moved, Done
      <4>3. j \in DOMAIN jobs' /\ jobs'[j].pc = "stopNative"
        BY <1>1, <2>5, <4>1 DEF Moved
      <4>4. QED BY <2>6, <2>7, <3>1, <4>1, <4>2, <4>3 DEF StopPhase
    <3>4. QED BY <2>3, <3>1, <3>2, <3>3 DEF Stop, StopCloses, StopDestroys, StopsSelf, At
  <2>11. QED BY <2>9, <2>10
<1>7. CalmPhase'
  <2>1. SUFFICES ASSUME ~overlapped PROVE CalmPhase'
    BY <1>2 DEF CalmPhase
  <2>2. /\ worker \in {None} \cup tuns /\ main = <<>> /\ Relies(j)
        /\ \A k \in DOMAIN jobs : k # j => Done(k)
    BY <1>1, <1>3, <2>1 DEF CalmPhase
  <2>3. worker' \in {None} \cup tuns'
    <3>1. CASE StartClosesOld(j) \/ StopCloses(j)
      BY <2>2, <3>1 DEF StartClosesOld, StopCloses, At, Relies
    <3>2. CASE StartsNative(j)
      BY <2>2, <3>2 DEF StartsNative, At, Relies
    <3>3. CASE StartEstablishes(j)
      BY <2>2, <3>3 DEF StartEstablishes
    <3>4. CASE StartStopsOld(j) \/ StopsNative(j)
      BY <3>4 DEF StartStopsOld, StopsNative, WorkerEnds
    <3>5. CASE \/ StartBegins(j) \/ StartEnters(j) \/ StartsProcess(j) \/ WritesConfig(j)
               \/ StopBegins(j) \/ StopDestroys(j) \/ StopsSelf(j)
      BY <2>2, <3>5 DEF StartBegins, StartEnters, StartsProcess, WritesConfig, StopBegins, StopDestroys,
                        StopsSelf, outside
    <3>6. QED BY <3>1, <3>2, <3>3, <3>4, <3>5 DEF Job, Start, Stop
  <2>4. CASE StopsSelf(j)
    <3>1. Moved(j, "done") /\ Len(main') <= 1
      <4>1. Goto(j, "done") /\ (main' = Append(main, DESTROY) \/ main' = main)
        BY <2>4 DEF StopsSelf, StopService
      <4>2. Moved(j, "done")
        BY <1>1, <4>1, GotoMoves DEF Places
      <4>3. Len(Append(main, DESTROY)) <= 1 /\ Len(main) <= 1
        BY <1>1, <2>2, IntentTypes
      <4>4. QED BY <4>1, <4>2, <4>3
    <3>2. \A k \in DOMAIN jobs' : Done(k)'
      BY <1>1, <2>2, <3>1 DEF Moved, Done
    <3>3. QED BY <2>3, <3>1, <3>2 DEF CalmPhase
  <2>5. CASE ~StopsSelf(j)
    <3>1. main' = <<>>
      BY <2>2, <2>5 DEF Job, Start, Stop, StartBegins, StartStopsOld, StartClosesOld, StartEnters, StartEstablishes,
             StartsProcess, WritesConfig, WorkerEnds, StartsNative, StopBegins, StopsNative, StopCloses, StopDestroys
    <3>2. CASE Len(jobs') = Len(jobs) + 1
      <4>1. PICK n \in DOMAIN jobs' : n = Len(jobs) + 1
        BY <1>1, <1>5, <3>2
      <4>2. jobs'[n].pc = "launched" /\ \A k \in DOMAIN jobs' : k # n => jobs'[k].pc = "done"
        BY <1>1, <1>5, <2>2, <3>2, <4>1 DEF Done
      <4>3. QED BY <2>3, <3>1, <4>1, <4>2, OneAtWork
    <3>3. CASE Len(jobs') = Len(jobs)
      <4>1. \A k \in DOMAIN jobs' : k # j => Done(k)'
        BY <1>1, <1>5, <2>2, <3>3 DEF Done
      <4>2. /\ jobs'[j].pc \in {"closeOld", "close"} => worker' = None
            /\ jobs'[j].pc \in {"process", "config", "native"} => j \in tuns'
        <5> USE DEF At, Places
        <5>1. CASE StartBegins(j)
          BY <1>1, <5>1, GotoMoves DEF StartBegins, Moved
        <5>2. CASE StartStopsOld(j)
          BY <1>1, <5>2, GotoMoves DEF StartStopsOld, WorkerEnds, Moved
        <5>3. CASE StartClosesOld(j)
          BY <1>1, <5>3, GotoMoves DEF StartClosesOld, Moved
        <5>4. CASE StartEstablishes(j)
          BY <1>1, <5>4, GotoMoves, EndReplaces DEF StartEstablishes, Moved, Replaced
        <5>5. CASE StartsProcess(j)
          BY <1>1, <2>2, <5>5, StartsProcessMoves DEF StartsProcess, Moved, Relies
        <5>6. CASE StartsNative(j)
          BY <1>1, <5>6, GotoMoves, EndReplaces DEF StartsNative, Moved, Replaced
        <5>7. CASE StopBegins(j)
          BY <1>1, <5>7, GotoMoves DEF StopBegins, Moved
        <5>8. CASE StopsNative(j)
          BY <1>1, <5>8, GotoMoves DEF StopsNative, WorkerEnds, Moved
        <5>9. CASE StopCloses(j)
          BY <1>1, <5>9, GotoMoves DEF StopCloses, Moved
        <5>10. CASE StopDestroys(j)
          BY <1>1, <5>10, GotoMoves DEF StopDestroys, Moved
        <5>11. CASE StartEnters(j)
          BY <1>1, <5>11, GotoMoves DEF StartEnters, Moved
        <5>12. CASE WritesConfig(j)
          BY <1>1, <2>2, <5>12, GotoMoves DEF WritesConfig, Moved, Relies
        <5>13. QED
          BY <2>5, <5>1, <5>2, <5>3, <5>4, <5>5, <5>6, <5>7, <5>8, <5>9, <5>10, <5>11, <5>12
             DEF Job, Start, Stop
      <4>3. j \in DOMAIN jobs'
        BY <1>1, <1>5, <3>3
      <4>4. QED BY <2>3, <3>1, <4>1, <4>2, <4>3 DEF CalmPhase, Relies
    <3>4. QED BY <1>5, <3>2, <3>3
  <2>6. QED BY <2>4, <2>5
<1>8. QED BY <1>6, <1>7

-----------------------------------------------------------------------------
(* What is left when intents do not overlap                                *)

\* The descriptors that are open and the processes on the ports are those of
\* instance i.
Children(i) == \A c \in Cores : port[c] \in {None, process[i][c]}
Owned(i) == i \in Instances /\ tuns \subseteq {vpnInterface[i]} /\ Children(i)

\* A start comes from the switch of a screen that said off, finds nothing left
\* of earlier ones, and its instance lives until it ends.
StartAt(j) ==
    /\ Inst(j) = instance /\ instance \in Instances /\ isVpnActive
    /\ jobs[j].pc \in {"launched", "stopOld", "closeOld", "enter", "establish"} => Down
    /\ jobs[j].pc \in {"process", "config", "native"} =>
          worker = None /\ tuns = {j} /\ vpnInterface[instance] = j
    /\ jobs[j].pc = "process" => port = Nobody
    /\ jobs[j].pc \in {"config", "native"} => Children(instance)
    /\ disturbances = 0 =>
          /\ jobs[j].proxy = selectedProxy
          /\ jobs[j].pc = "config" => port[jobs[j].target] = j
          /\ jobs[j].pc = "native" => config \in Cores /\ port[config] = j

\* A stop owns what is there and takes it away piece by piece.
StopAt(j) ==
    /\ Owned(Inst(j))
    /\ jobs[j].pc \in {"close", "destroy", "stopSelf"} => worker = None
    /\ jobs[j].pc \in {"destroy", "stopSelf"} => tuns = {}
    /\ jobs[j].pc = "stopSelf" => port = Nobody
    /\ disturbances = 0 => ~isVpnActive

\* The worker reads, or has read, the configuration of a core that runs.
Serves(p) ==
    /\ worker \in tuns /\ config \in Cores /\ upstream \in {"none", config}
    /\ port[config] # None /\ jobs[port[config]].proxy = p

AtRest ==
    /\ instance # None => Owned(instance)
    /\ instance = None \/ (main = <<>> /\ ~isVpnActive) => Down
    /\ main = <<>> /\ disturbances = 0 /\ isVpnActive => Serves(selectedProxy)

Waits(m) ==
    /\ m.action # "DESTROY" => instances < sent
    /\ m.action # "STOP" => Down
    /\ m.action = "START" => isVpnActive /\ (disturbances = 0 => m.proxy = selectedProxy)
    /\ m.action # "START" => (disturbances = 0 => ~isVpnActive)

AtPlace(j) == IF jobs[j].kind = "start" THEN StartAt(j) ELSE StopAt(j)

WorkPhase ==
    ~overlapped =>
        /\ instances <= sent
        /\ \A j \in DOMAIN jobs : ~Done(j) => AtPlace(j)
        /\ (\A j \in DOMAIN jobs : Done(j)) => AtRest
        /\ \A k \in DOMAIN main : Waits(main[k])

NotCancelled == instance \notin cancelled
Unread == worker = None => upstream = "none"

WInv == VInv /\ NotCancelled /\ Unread /\ WorkPhase

LEMMA WorkInit == Init => WorkPhase /\ NotCancelled /\ Unread
  BY DEF Init, WorkPhase, NotCancelled, Unread, AtRest, Down

LEMMA UnreadStep ==
    ASSUME Unread, [Next]_vars
    PROVE  Unread'
<1>1. CASE \E j \in DOMAIN jobs : StartStopsOld(j) \/ StopsNative(j)
  BY <1>1 DEF StartStopsOld, StopsNative, WorkerEnds, Unread
<1>2. CASE \E j \in DOMAIN jobs : StartsNative(j)
  <2>1. PICK j \in DOMAIN jobs : StartsNative(j)
    BY <1>2
  <2>2. UNCHANGED upstream /\ (worker' = worker \/ worker = None)
    BY <2>1 DEF StartsNative
  <2> QED
    BY <2>2 DEF Unread
<1>3. CASE WorkerReads
  BY <1>3 DEF WorkerReads, Unread
<1>4. CASE UNCHANGED <<worker, upstream>>
  BY <1>4 DEF Unread
<1>5. ASSUME NEW j \in DOMAIN jobs, Job(j), ~StartStopsOld(j), ~StopsNative(j), ~StartsNative(j)
      PROVE  UNCHANGED <<worker, upstream>>
  <2>1. CASE Start(j)
    BY <1>5, <2>1 DEF Start, StartBegins, StartClosesOld, StartEnters, StartEstablishes, StartsProcess,
                      WritesConfig, outside
  <2>2. CASE Stop(j)
    BY <1>5, <2>2 DEF Stop, StopBegins, StopCloses, StopDestroys, StopsSelf, outside
  <2> QED
    BY <1>5, <2>1, <2>2 DEF Job
<1>6. CASE ToggleOn \/ ToggleOff \/ (\E p \in Proxies : Select(p)) \/ NotificationStop
  BY <1>4, <1>6 DEF ToggleOn, ToggleOff, Select, NotificationStop, Send, outside
<1>7. CASE Revoke \/ OnStartCommand \/ OnDestroy \/ UNCHANGED vars
  BY <1>4, <1>7 DEF Revoke, OnStartCommand, OnDestroy, vars, outside
<1> QED
  BY <1>1, <1>2, <1>3, <1>4, <1>5, <1>6, <1>7 DEF Next, Service

\* One coroutine is at work after a step, or none is.
LEMMA OneWorks ==
    ASSUME NEW n \in DOMAIN jobs', \A k \in DOMAIN jobs' : k # n => jobs'[k].pc = "done",
           jobs'[n].pc # "done", AtPlace(n)', main' = <<>>, instances' <= sent'
    PROVE  WorkPhase'
  BY DEF WorkPhase, Done

LEMMA NoneWorks ==
    ASSUME \A k \in DOMAIN jobs' : jobs'[k].pc = "done",
           AtRest', \A k \in DOMAIN main' : Waits(main[k])', instances' <= sent'
    PROVE  WorkPhase'
  BY DEF WorkPhase, Done

\* The screen and the notification send one intent when all is at rest, or
\* their intents overlap with other work.
LEMMA SendWork ==
    ASSUME WInv, NEW m \in Intents, m.action # "DESTROY", Send(<<m>>),
           main = <<>> /\ AtRest => Waits(m)' /\ (AtRest')
    PROVE  WorkPhase'
<1>1. CASE overlapped \/ ~Quiet
  BY <1>1 DEF Send, WorkPhase
<1>2. CASE ~overlapped /\ Quiet
  <2>1. /\ main = <<>> /\ instances <= sent /\ sent \in Nat /\ instances \in Nat
        /\ \A j \in DOMAIN jobs : Done(j)
    BY <1>2 DEF WInv, VInv, TypeOK, WorkPhase, Quiet, AtWork, Done
  <2>2. AtRest
    BY <1>2, <2>1 DEF WInv, WorkPhase
  <2>3. main' = <<m>> /\ sent' = sent + 1 /\ UNCHANGED <<instances, jobs>>
    BY <2>1 DEF Send, lifecycle
  <2>4. \A k \in DOMAIN main' : main'[k] = m
    BY <2>3
  <2>5. Waits(m)' /\ AtRest'
    BY <2>1, <2>2
  <2>6. \A k \in DOMAIN main' : Waits(main[k])'
    BY <2>4, <2>5 DEF Waits
  <2>7. QED BY <2>1, <2>3, <2>5, <2>6, NoneWorks DEF Done
<1>3. QED BY <1>1, <1>2

LEMMA UserWork ==
    ASSUME WInv, ToggleOn \/ ToggleOff \/ (\E p \in Proxies : Select(p)) \/ NotificationStop
    PROVE  WorkPhase' /\ NotCancelled'
<1>1. NotCancelled'
  <2>1. UNCHANGED lifecycle
    BY DEF ToggleOn, ToggleOff, Select, NotificationStop, Send
  <2>2. QED BY <2>1 DEF lifecycle, WInv, NotCancelled
<1>2. TypeOK /\ sent \in Nat /\ instances \in Nat
  BY DEF WInv, VInv, TypeOK
<1>3. ASSUME NEW m \in Intents, m.action # "DESTROY", Send(<<m>>), main = <<>>, AtRest,
             WorkPhase => instances <= sent
      PROVE  /\ main' = <<m>> /\ main' # <<>> /\ sent' = sent + 1 /\ UNCHANGED <<instances, instance, outside, fields>>
  BY <1>3 DEF Send, lifecycle
<1>4. CASE ToggleOn
  <2>1. PICK m \in Intents : m.action = "START" /\ m.proxy = selectedProxy /\ Send(<<m>>)
    BY <1>2, <1>4, IntentTypes DEF ToggleOn, TypeOK, START
  <2>2. CASE overlapped \/ ~Quiet
    BY <1>1, <2>1, <2>2 DEF Send, WorkPhase
  <2>3. CASE ~overlapped /\ Quiet
    <3>1. instances <= sent
      BY <2>3 DEF WInv, WorkPhase
    <3>2. ASSUME main = <<>>, AtRest PROVE Waits(m)' /\ AtRest'
      <4>1. /\ main' = <<m>> /\ main' # <<>> /\ sent' = sent + 1
            /\ UNCHANGED <<instances, instance, outside, fields>>
        BY <1>3, <2>1, <3>1, <3>2
      <4>2. ~isVpnActive /\ isVpnActive' /\ selectedProxy' = selectedProxy
        BY <1>4 DEF ToggleOn
      <4>3. Down /\ Down'
        BY <3>2, <4>1, <4>2 DEF AtRest, Down, outside
      <4>4. instance # None => Owned(instance)'
        BY <3>2, <4>1 DEF AtRest, Owned, Children, outside, fields
      <4>5. Waits(m)'
        BY <1>2, <2>1, <3>1, <4>1, <4>2, <4>3 DEF Waits
      <4>6. AtRest'
        BY <4>1, <4>3, <4>4 DEF AtRest
      <4>7. QED BY <4>5, <4>6
    <3>3. QED BY <1>1, <2>1, <3>2, SendWork
  <2>4. QED BY <1>1, <2>2, <2>3
<1>5. CASE ToggleOff \/ NotificationStop
  <2>1. STOP \in Intents /\ STOP.action = "STOP" /\ Send(<<STOP>>)
    BY <1>5, IntentTypes DEF ToggleOff, NotificationStop
  <2>2. CASE overlapped \/ ~Quiet
    BY <1>1, <2>1, <2>2 DEF Send, WorkPhase
  <2>3. CASE ~overlapped /\ Quiet
    <3>1. instances <= sent
      BY <2>3 DEF WInv, WorkPhase
    <3>2. ASSUME main = <<>>, AtRest PROVE Waits(STOP)' /\ AtRest'
      <4>1. /\ main' = <<STOP>> /\ main' # <<>> /\ sent' = sent + 1
            /\ UNCHANGED <<instances, instance, outside, fields>>
        BY <1>3, <2>1, <3>1, <3>2
      <4>2. disturbances' = 0 => ~isVpnActive'
        BY <1>2, <1>5 DEF ToggleOff, NotificationStop, Disturbed, TypeOK
      <4>3. instance # None => Owned(instance)'
        BY <3>2, <4>1 DEF AtRest, Owned, Children, outside, fields
      <4>4. instance = None => Down'
        BY <3>2, <4>1 DEF AtRest, Down, outside
      <4>5. Waits(STOP)'
        BY <1>2, <2>1, <3>1, <4>1, <4>2 DEF Waits
      <4>6. AtRest'
        BY <4>1, <4>3, <4>4 DEF AtRest
      <4>7. QED BY <4>5, <4>6
    <3>3. QED BY <1>1, <2>1, <3>2, SendWork
  <2>4. QED BY <1>1, <2>2, <2>3
<1>6. ASSUME NEW p \in Proxies, Select(p) PROVE WorkPhase'
  <2>1. CASE isVpnActive
    <3>1. overlapped'
      <4>1. Send(<<STOP, START(p)>>) /\ Len(<<STOP, START(p)>>) > 1
        BY <1>6, <2>1 DEF Select
      <4>2. QED BY <4>1 DEF Send
    <3>2. QED BY <3>1 DEF WorkPhase
  <2>2. CASE ~isVpnActive
    <3>1. UNCHANGED <<isVpnActive, sent, main, lifecycle, fields, jobs, outside, overlapped, disturbances>>
      BY <1>6, <2>2 DEF Select
    <3>2. SUFFICES ASSUME ~overlapped PROVE WorkPhase'
      BY <3>1 DEF WorkPhase
    <3>3. /\ instances <= sent /\ \A j \in DOMAIN jobs : ~Done(j) => AtPlace(j)
          /\ (\A j \in DOMAIN jobs : Done(j)) => AtRest
          /\ \A k \in DOMAIN main : Waits(main[k])
      BY <3>2 DEF WInv, WorkPhase
    <3>4. \A j \in DOMAIN jobs : AtPlace(j) => AtPlace(j)'
      BY <2>2, <3>1 DEF AtPlace, StartAt, StopAt, Owned, Children, Inst, lifecycle, fields, outside
    <3>5. AtRest => AtRest'
      BY <2>2, <3>1 DEF AtRest, Owned, Children, Down, lifecycle, fields, outside
    <3>6. \A k \in DOMAIN main : Waits(main[k]) => Waits(main[k])'
      BY <2>2, <3>1 DEF Waits, Down, lifecycle, outside
    <3>7. QED BY <3>1, <3>3, <3>4, <3>5, <3>6 DEF WorkPhase, Done, lifecycle
  <2>3. QED BY <2>1, <2>2
<1>7. QED BY <1>1, <1>4, <1>5, <1>6

LEMMA OnStartCommandWork ==
    ASSUME WInv, VInv', OnStartCommand
    PROVE  WorkPhase' /\ NotCancelled'
<1>1. /\ TypeOK /\ CalmPhase /\ WorkPhase /\ main # <<>> /\ main \in Seq(Intents) /\ main' = Tail(main)
      /\ jobs \in Seq(Coroutines)
      /\ UNCHANGED <<isVpnActive, selectedProxy, sent, worker, tuns, config, upstream, port, vpnInterface, process>>
      /\ UNCHANGED <<overlapped, disturbances, cancelled>>
      /\ Head(main).action # "DESTROY"
  BY DEF WInv, VInv, TypeOK, OnStartCommand, screen, fields, outside, history
<1>2. /\ instance' = IF instance = None THEN instances + 1 ELSE instance
      /\ instances' = IF instance = None THEN instances + 1 ELSE instances
      /\ instances \in Nat /\ instance \in {None, instances} /\ cancelled \subseteq 1 .. instances
      /\ sent \in 0 .. MaxIntents
  BY <1>1 DEF OnStartCommand, TypeOK
<1>3. NotCancelled'
  BY <1>1, <1>2 DEF WInv, NotCancelled
<1>4. SUFFICES ASSUME ~overlapped PROVE WorkPhase'
  BY <1>1, <1>3 DEF WorkPhase
<1>5. Len(main) <= 1 /\ \A j \in DOMAIN jobs : Done(j)
  BY <1>1, <1>4 DEF CalmPhase
<1> DEFINE m == Head(main)
<1>6. m \in Intents /\ Waits(m) /\ main' = <<>> /\ m.action \in {"START", "STOP"}
  <2>1. main[1] = m /\ 1 \in DOMAIN main /\ m \in Intents /\ main' = <<>>
    BY <1>1, <1>5, Handled
  <2>2. Waits(m)
    BY <1>1, <1>4, <2>1 DEF WorkPhase
  <2>3. QED BY <1>1, <2>1, <2>2 DEF Intents
<1>7. AtRest /\ instances < sent
  BY <1>1, <1>4, <1>5, <1>6 DEF WorkPhase, Waits
<1>8. PICK n \in DOMAIN jobs' :
      /\ jobs' \in Seq(Coroutines)
      /\ jobs'[n].pc = "launched" /\ jobs'[n].inst = instance'
      /\ m.action = "STOP" => jobs'[n].kind = "stop"
      /\ m.action = "START" => jobs'[n].kind = "start" /\ jobs'[n].proxy = m.proxy
      /\ \A k \in DOMAIN jobs' : k # n => jobs'[k].pc = "done"
  <2> DEFINE n == Len(jobs) + 1
  <2>1. /\ jobs' \in Seq(Coroutines) /\ Len(jobs') = n
        /\ \A k \in 1 .. Len(jobs) : jobs'[k] = jobs[k]
        /\ jobs'[n].pc = "launched" /\ jobs'[n].inst = instance'
        /\ m.action = "STOP" => jobs'[n].kind = "stop"
        /\ m.action = "START" => jobs'[n].kind = "start" /\ jobs'[n].proxy = m.proxy
    BY <1>1, StartLaunches
  <2>2. n \in DOMAIN jobs' /\ \A k \in DOMAIN jobs' : k # n => k \in DOMAIN jobs /\ jobs'[k] = jobs[k]
    <3>1. jobs \in Seq(Coroutines)
      BY <1>1
    <3> QED
      BY <2>1, <3>1, OneLonger
  <2>3. QED BY <1>1, <1>5, <2>1, <2>2 DEF Done
<1>9. instance' \in Instances /\ instances' <= sent'
  BY <1>1, <1>2, <1>7, VpnAssumption DEF Instances, None
<1> HIDE DEF m
<1>10. AtPlace(n)'
  <2>1. CASE m.action = "START"
    <3>1. Down /\ isVpnActive /\ (disturbances = 0 => m.proxy = selectedProxy)
      BY <1>6, <2>1 DEF Waits
    <3>2. StartAt(n)'
      BY <1>1, <1>8, <1>9, <2>1, <3>1 DEF StartAt, Inst, Down
    <3>3. QED BY <1>8, <2>1, <3>2 DEF AtPlace
  <2>2. CASE m.action = "STOP"
    <3>1. tuns' \subseteq {vpnInterface'[instance']} /\ Children(instance)'
      BY <1>1, <1>2, <1>7, <1>9 DEF AtRest, Owned, Children, Down, Nobody
    <3>2. disturbances = 0 => ~isVpnActive
      BY <1>6, <2>2 DEF Waits
    <3>3. StopAt(n)'
      BY <1>1, <1>8, <1>9, <3>1, <3>2 DEF StopAt, Inst, Owned
    <3>4. QED BY <1>8, <2>2, <3>3 DEF AtPlace
  <2>3. QED BY <1>6, <2>1, <2>2
<1>11. QED BY <1>6, <1>8, <1>9, <1>10, OneWorks

LEMMA OnDestroyWork ==
    ASSUME WInv, VInv', OnDestroy
    PROVE  WorkPhase' /\ NotCancelled'
<1>1. /\ TypeOK /\ CalmPhase /\ Destroys /\ WorkPhase
      /\ main # <<>> /\ main \in Seq(Intents) /\ main' = Tail(main)
      /\ jobs \in Seq(Coroutines) /\ Head(main).action = "DESTROY" /\ instance' = None
      /\ UNCHANGED <<isVpnActive, selectedProxy, sent, worker, tuns, config, upstream, port, vpnInterface, process>>
      /\ UNCHANGED <<overlapped, disturbances, instances>>
  BY DEF WInv, VInv, TypeOK, OnDestroy, screen, fields, outside, history
<1>2. NotCancelled'
  <2>1. TypeOK'
    BY DEF VInv
  <2>2. QED BY <1>1, <2>1 DEF TypeOK, NotCancelled, None
<1>3. SUFFICES ASSUME ~overlapped PROVE WorkPhase'
  BY <1>1, <1>2 DEF WorkPhase
<1>4. Len(main) <= 1 /\ \A j \in DOMAIN jobs : Done(j)
  BY <1>1, <1>3 DEF CalmPhase
<1>5. main[1] = Head(main) /\ 1 \in DOMAIN main /\ main' = <<>>
  BY <1>1, <1>4, Handled
<1>6. Waits(main[1]) /\ instance \in stopping /\ instances <= sent
  BY <1>1, <1>3, <1>5 DEF WorkPhase, Destroys
<1>7. Down /\ (disturbances = 0 => ~isVpnActive)
  BY <1>1, <1>5, <1>6 DEF Waits
<1>8. instance \in Instances /\ instances' <= sent'
  <2>1. /\ sent \in 0 .. MaxIntents /\ instances \in Nat /\ instance \in 1 .. instances
    BY <1>1, <1>6 DEF TypeOK
  <2>2. QED BY <1>1, <1>6, <2>1, VpnAssumption DEF Instances
<1>9. PICK n \in DOMAIN jobs' :
      /\ jobs'[n].kind = "stop" /\ jobs'[n].inst = instance
      /\ jobs'[n].pc \in {"stopNative", "done"}
      /\ \A k \in DOMAIN jobs' : k # n => jobs'[k].pc = "done"
  <2> DEFINE n == Len(jobs) + 1
  <2>1. /\ jobs' \in Seq(Coroutines) /\ Len(jobs') = n
        /\ jobs'[n].kind = "stop" /\ jobs'[n].inst = instance
        /\ jobs'[n].pc \in {"stopNative", "done"}
        /\ \A k \in 1 .. Len(jobs) : jobs'[k].pc \in {jobs[k].pc, "done"}
    BY <1>1, DestroyCancels
  <2>2. n \in DOMAIN jobs' /\ \A k \in DOMAIN jobs' : k # n => k \in DOMAIN jobs
    <3>1. jobs \in Seq(Coroutines)
      BY <1>1
    <3> QED
      BY <2>1, <3>1, OneLonger
  <2>3. \A k \in DOMAIN jobs' : k # n => jobs'[k].pc = "done"
    BY <1>1, <1>4, <2>1, <2>2 DEF Done
  <2> HIDE DEF n
  <2>4. QED BY <2>1, <2>2, <2>3
<1>10. CASE jobs'[n].pc = "stopNative"
  <2>1. StopAt(n)'
    BY <1>1, <1>7, <1>8, <1>9, <1>10 DEF StopAt, Owned, Children, Down, Nobody, Inst
  <2>2. AtPlace(n)'
    BY <1>9, <2>1 DEF AtPlace
  <2>3. QED BY <1>5, <1>8, <1>9, <1>10, <2>2, OneWorks
<1>11. CASE jobs'[n].pc = "done"
  <2>1. AtRest'
    BY <1>1, <1>7 DEF AtRest, Down
  <2>2. QED BY <1>5, <1>8, <1>9, <1>11, <2>1, NoneWorks
<1>12. QED BY <1>9, <1>10, <1>11

\* The step of a start that works alone
LEMMA StartWork ==
    ASSUME WInv, NEW j \in DOMAIN jobs, Start(j), ~overlapped,
           main = <<>>, \A k \in DOMAIN jobs : k # j => Done(k)
    PROVE  WorkPhase'
<1>1. /\ TypeOK /\ jobs \in Seq(Coroutines) /\ jobs[j].kind = "start" /\ ~Done(j)
  BY DEF WInv, VInv, TypeOK, Start, StartBegins, StartStopsOld, StartClosesOld, StartEnters, StartEstablishes,
         StartsProcess, WritesConfig, WorkerEnds, StartsNative, At, Done
<1>2. StartAt(j) /\ instances <= sent /\ j # None
  BY <1>1 DEF WInv, WorkPhase, AtPlace, None
<1>3. /\ main' = <<>> /\ instances' <= sent'
      /\ UNCHANGED <<isVpnActive, selectedProxy, instance, instances, cancelled>>
  BY <1>2 DEF Start, StartBegins, StartStopsOld, StartClosesOld, StartEnters, StartEstablishes, StartsProcess, WritesConfig, WorkerEnds, StartsNative,
              screen, lifecycle
<1>4. /\ instance \in Instances /\ instance # None /\ jobs[j].inst = instance /\ instance \notin cancelled
      /\ vpnInterface \in [Instances -> {None} \cup DOMAIN jobs]
      /\ process \in [Instances -> [Cores -> {None} \cup DOMAIN jobs]]
      /\ tuns \subseteq DOMAIN jobs /\ disturbances \in Nat
  BY <1>1, <1>2 DEF StartAt, Inst, Instances, None, WInv, NotCancelled, TypeOK
\* Another place of the start
<1>5. ASSUME NEW pc \in Places \ {"done"}, Goto(j, pc), Moved(j, pc) => StartAt(j)' PROVE WorkPhase'
  <2>1. Moved(j, pc)
    BY <1>1, <1>5, GotoMoves
  <2>2. j \in DOMAIN jobs' /\ jobs'[j].pc # "done" /\ AtPlace(j)'
    BY <1>1, <1>5, <2>1 DEF Moved, AtPlace
  <2>3. \A k \in DOMAIN jobs' : k # j => jobs'[k].pc = "done"
    BY <1>1, <2>1 DEF Moved, Done
  <2>4. QED BY <1>3, <2>2, <2>3, OneWorks
\* The stop that follows a start
<1>6. ASSUME EndWithStop(j), tuns' \subseteq {vpnInterface'[instance]}, Children(instance)',
             disturbances' # 0
      PROVE  WorkPhase'
  <2>1. Replaced(j) /\ Len(jobs') = Len(jobs) + 1
    BY <1>1, <1>4, <1>6, EndReplaces DEF Replaced
  <2>2. PICK n \in DOMAIN jobs' : n = Len(jobs')
    BY <1>1, <2>1 DEF Replaced
  <2>3. jobs'[n].kind = "stop" /\ jobs'[n].pc = "launched" /\ jobs'[n].inst = instance
    BY <1>4, <2>1, <2>2 DEF Replaced
  <2>4. \A k \in DOMAIN jobs' : k # n => jobs'[k].pc = "done"
    BY <1>1, <2>1, <2>2 DEF Replaced, Done
  <2>5. StopAt(n)'
    BY <1>3, <1>4, <1>6, <2>3 DEF StopAt, Owned, Inst
  <2>6. AtPlace(n)'
    BY <2>3, <2>5 DEF AtPlace
  <2>7. QED BY <1>3, <2>3, <2>4, <2>6, OneWorks
<1>7. Disturbed => disturbances' # 0
  BY <1>4 DEF Disturbed
<1>8. CASE StartBegins(j)
  <2>1. PICK pc \in {"stopOld", "enter"} : Goto(j, pc)
    BY <1>8 DEF StartBegins
  <2>2. Down /\ UNCHANGED <<vpnInterface, worker, tuns, port, disturbances>>
    BY <1>2, <1>8 DEF StartBegins, At, StartAt, fields, outside, history
  <2>3. Moved(j, pc) => StartAt(j)'
    BY <1>2, <1>3, <2>1, <2>2 DEF Moved, StartAt, Inst, Down
  <2>4. QED BY <1>5, <2>1, <2>3 DEF Places
<1>9. CASE StartStopsOld(j)
  <2>1. Goto(j, "closeOld") /\ Down /\ worker' = None /\ UNCHANGED <<vpnInterface, tuns, port, disturbances>>
    BY <1>2, <1>9 DEF StartStopsOld, WorkerEnds, At, StartAt, fields, history
  <2>2. Moved(j, "closeOld") => StartAt(j)'
    BY <1>2, <1>3, <2>1 DEF Moved, StartAt, Inst, Down
  <2>3. QED BY <1>5, <2>1, <2>2 DEF Places
<1>10. CASE StartClosesOld(j)
  <2>1. Goto(j, "enter") /\ Down /\ tuns' = {} /\ UNCHANGED <<worker, port, disturbances>>
    BY <1>2, <1>10 DEF StartClosesOld, Closed, At, StartAt, Down, history
  <2>2. Moved(j, "enter") => StartAt(j)'
    BY <1>2, <1>3, <2>1 DEF Moved, StartAt, Inst, Down
  <2>3. QED BY <1>5, <2>1, <2>2 DEF Places
<1>11. CASE StartEnters(j)
  <2>1. Goto(j, "establish") /\ Down /\ UNCHANGED <<tuns, worker, port, disturbances>>
    BY <1>2, <1>4, <1>11 DEF StartEnters, At, StartAt, Inst, outside, history
  <2>2. Moved(j, "establish") => StartAt(j)'
    BY <1>2, <1>3, <2>1 DEF Moved, StartAt, Inst, Down
  <2>3. QED BY <1>5, <2>1, <2>2 DEF Places
<1>12. CASE StartEstablishes(j)
  <2>1. Down /\ UNCHANGED <<process, worker, port>>
    BY <1>2, <1>12 DEF StartEstablishes, At, StartAt
  <2>2. CASE tuns' = tuns \cup {j} /\ vpnInterface' = [vpnInterface EXCEPT ![Inst(j)] = j] /\ Goto(j, "process")
             /\ UNCHANGED disturbances
    <3>1. vpnInterface'[instance] = j /\ tuns' = {j} /\ worker' = None /\ port' = Nobody
      BY <1>4, <2>1, <2>2 DEF Inst, Down
    <3>2. Moved(j, "process") => StartAt(j)'
      BY <1>2, <1>3, <2>2, <3>1 DEF Moved, StartAt, Inst
    <3>3. QED BY <1>5, <2>2, <3>2 DEF Places
  <2>3. CASE EndWithStop(j) /\ Disturbed /\ UNCHANGED tuns
    <3>1. tuns' = {} /\ Children(instance)'
      BY <2>1, <2>3 DEF Down, Children, Nobody
    <3>2. QED BY <1>6, <1>7, <2>3, <3>1
  <2>4. QED BY <1>12, <2>2, <2>3 DEF StartEstablishes
<1>13. CASE StartsProcess(j)
  <2>1. /\ worker = None /\ tuns = {j} /\ vpnInterface[instance] = j /\ port = Nobody
        /\ UNCHANGED <<vpnInterface, tuns, worker>>
    BY <1>2, <1>13 DEF StartsProcess, At, StartAt
  <2>2. PICK core \in Cores :
           /\ GotoConfig(j, core)
           /\ \/ CoreStarts(j, core) /\ UNCHANGED disturbances
              \/ UNCHANGED <<process, port>> /\ Disturbed
    BY <1>13 DEF StartsProcess, Chosen, Cores
  <2>3. Moved(j, "config") /\ jobs'[j].target = core
    BY <1>1, <2>2, ProcessMoves
  <2>4. Children(instance)' /\ (disturbances' = 0 => port'[core] = j /\ disturbances = 0)
    <3>1. CASE CoreStarts(j, core) /\ UNCHANGED disturbances
      <4>1. process' = [process EXCEPT ![instance][core] = j] /\ port' = [Nobody EXCEPT ![core] = j]
        BY <1>4, <2>1, <3>1 DEF CoreStarts, Inst, Nobody
      <4>2. /\ port'[core] = j
            /\ \A c \in Cores : port'[c] \in {None, process'[instance][c]}
        BY <1>4, <4>1 DEF Nobody
      <4> QED
        BY <1>3, <3>1, <4>2 DEF Children
    <3>2. CASE UNCHANGED <<process, port>> /\ Disturbed
      BY <1>7, <2>1, <3>2 DEF Children, Nobody
    <3>3. QED BY <2>2, <3>1, <3>2
  <2>5. StartAt(j)'
    BY <1>2, <1>3, <2>1, <2>3, <2>4 DEF Moved, StartAt, Inst
  <2>6. j \in DOMAIN jobs' /\ jobs'[j].pc # "done" /\ AtPlace(j)'
    BY <1>1, <2>3, <2>5 DEF Moved, AtPlace
  <2>7. \A k \in DOMAIN jobs' : k # j => jobs'[k].pc = "done"
    BY <1>1, <2>3 DEF Moved, Done
  <2>8. QED BY <1>3, <2>6, <2>7, OneWorks
<1>14. CASE WritesConfig(j)
  <2>1. /\ worker = None /\ tuns = {j} /\ vpnInterface[instance] = j /\ Children(instance)
        /\ config' = jobs[j].target /\ Goto(j, "native")
        /\ disturbances = 0 => port[jobs[j].target] = j
        /\ UNCHANGED <<vpnInterface, process, tuns, worker, port, disturbances>>
    BY <1>2, <1>14 DEF WritesConfig, At, StartAt, fields, history
  <2>2. jobs[j].target \in Cores
    <3>1. jobs[j] \in Coroutines
      BY <1>1
    <3> QED
      BY <3>1 DEF Coroutines
  <2>3. Children(instance)'
    BY <1>3, <2>1 DEF Children
  <2>4. Moved(j, "native") => StartAt(j)'
    BY <1>2, <1>3, <2>1, <2>2, <2>3 DEF Moved, StartAt, Inst
  <2>5. QED BY <1>5, <2>1, <2>4 DEF Places
<1>15. CASE StartsNative(j)
  <2>1. /\ worker = None /\ tuns = {j} /\ vpnInterface[instance] = j /\ Children(instance)
        /\ disturbances = 0 => config \in Cores /\ port[config] = j /\ jobs[j].proxy = selectedProxy
        /\ UNCHANGED <<vpnInterface, process, tuns, port, config, upstream>>
    BY <1>2, <1>15 DEF StartsNative, At, StartAt, fields
  <2>2. Children(instance)' /\ upstream = "none"
    BY <1>3, <2>1 DEF Children, WInv, Unread
  <2>3. CASE worker' = j /\ Goto(j, "done") /\ UNCHANGED disturbances
    <3>1. Moved(j, "done")
      BY <1>1, <2>3, GotoMoves DEF Places
    <3>2. \A k \in DOMAIN jobs' : jobs'[k].pc = "done"
      BY <1>1, <3>1 DEF Moved, Done
    <3>3. Owned(instance)'
      BY <1>3, <1>4, <2>1, <2>2 DEF Owned
    <3>4. disturbances' = 0 => Serves(selectedProxy)'
      BY <1>2, <1>3, <2>1, <2>2, <2>3, <3>1 DEF Serves, Moved
    <3>5. AtRest'
      BY <1>2, <1>3, <1>4, <3>3, <3>4 DEF AtRest, StartAt
    <3>6. QED BY <1>3, <3>2, <3>5, NoneWorks
  <2>4. CASE EndWithStop(j) /\ Disturbed
    BY <1>4, <1>6, <1>7, <2>1, <2>2, <2>4
  <2>5. QED BY <1>15, <2>1, <2>3, <2>4 DEF StartsNative
<1>16. QED BY <1>8, <1>9, <1>10, <1>11, <1>12, <1>13, <1>14, <1>15 DEF Start

\* The step of a stop that works alone
LEMMA StopWork ==
    ASSUME WInv, NEW j \in DOMAIN jobs, Stop(j), ~overlapped,
           main = <<>>, \A k \in DOMAIN jobs : k # j => Done(k)
    PROVE  WorkPhase'
<1>1. /\ TypeOK /\ jobs \in Seq(Coroutines) /\ jobs[j].kind = "stop" /\ ~Done(j)
  BY DEF WInv, VInv, TypeOK, Stop, StopBegins, StopsNative, StopCloses, StopDestroys, StopsSelf, At, Done
<1>2. StopAt(j) /\ instances <= sent
  BY <1>1 DEF WInv, WorkPhase, AtPlace
<1>3. /\ instances' <= sent' /\ UNCHANGED <<isVpnActive, instance, disturbances>>
  BY <1>2 DEF Stop, StopBegins, WorkerEnds, StopsNative, StopCloses, StopDestroys, StopsSelf, screen, lifecycle, history
<1>4. /\ jobs[j].inst \in Instances
      /\ vpnInterface \in [Instances -> {None} \cup DOMAIN jobs]
      /\ tuns \subseteq DOMAIN jobs
      /\ tuns \subseteq {vpnInterface[jobs[j].inst]} /\ Children(jobs[j].inst)
  BY <1>1, <1>2 DEF StopAt, Owned, Inst, TypeOK
<1>5. ASSUME NEW pc \in Places \ {"done"}, Goto(j, pc), Moved(j, pc) => StopAt(j)', main' = main
      PROVE  WorkPhase'
  <2>1. Moved(j, pc)
    BY <1>1, <1>5, GotoMoves
  <2>2. j \in DOMAIN jobs' /\ jobs'[j].pc # "done" /\ AtPlace(j)'
    BY <1>1, <1>5, <2>1 DEF Moved, AtPlace
  <2>3. \A k \in DOMAIN jobs' : k # j => jobs'[k].pc = "done"
    BY <1>1, <2>1 DEF Moved, Done
  <2>4. QED BY <1>3, <1>5, <2>2, <2>3, OneWorks
<1>6. CASE StopBegins(j)
  <2>1. Goto(j, "stopNative") /\ main' = main /\ UNCHANGED <<vpnInterface, process, tuns, port>>
    BY <1>6 DEF StopBegins, fields, outside
  <2>2. Moved(j, "stopNative") => StopAt(j)'
    BY <1>2, <1>3, <2>1 DEF Moved, StopAt, Owned, Children, Inst
  <2>3. QED BY <1>5, <2>1, <2>2 DEF Places
<1>7. CASE StopsNative(j)
  <2>1. Goto(j, "close") /\ main' = main /\ worker' = None /\ UNCHANGED <<vpnInterface, process, tuns, port>>
    BY <1>7 DEF StopsNative, WorkerEnds, fields
  <2>2. Moved(j, "close") => StopAt(j)'
    BY <1>2, <1>3, <2>1 DEF Moved, StopAt, Owned, Children, Inst
  <2>3. QED BY <1>5, <2>1, <2>2 DEF Places
<1>8. CASE StopCloses(j)
  <2>1. Goto(j, "destroy") /\ main' = main /\ worker = None /\ tuns' = {} /\ UNCHANGED <<worker, process, port>>
    BY <1>2, <1>4, <1>8 DEF StopCloses, Closed, At, StopAt, Inst
  <2>2. Moved(j, "destroy") => StopAt(j)'
    BY <1>2, <1>3, <2>1 DEF Moved, StopAt, Owned, Children, Inst
  <2>3. QED BY <1>5, <2>1, <2>2 DEF Places
<1>9. CASE StopDestroys(j)
  <2>1. /\ Goto(j, "stopSelf") /\ main' = main /\ worker = None /\ tuns = {}
        /\ CoresEnd(jobs[j].inst) /\ UNCHANGED <<vpnInterface, worker, tuns>>
    BY <1>2, <1>9 DEF StopDestroys, At, StopAt, Inst
  <2>2. port' = Nobody
    BY <1>4, <2>1 DEF CoresEnd, Children, Nobody
  <2>3. Moved(j, "stopSelf") => StopAt(j)'
    BY <1>2, <1>3, <2>1, <2>2 DEF Moved, StopAt, Owned, Children, Nobody, Inst
  <2>4. QED BY <1>5, <2>1, <2>3 DEF Places
<1>10. CASE StopsSelf(j)
  <2>1. /\ Goto(j, "done") /\ Down /\ UNCHANGED <<vpnInterface, process, worker, tuns, port>>
        /\ disturbances = 0 => ~isVpnActive
    BY <1>2, <1>10 DEF StopsSelf, At, StopAt, Down, fields, outside
  <2>2. Moved(j, "done")
    BY <1>1, <2>1, GotoMoves DEF Places
  <2>3. \A k \in DOMAIN jobs' : jobs'[k].pc = "done"
    BY <1>1, <2>2 DEF Moved, Done
  <2>4. instance # None => instance \in Instances
    BY <1>1, <1>2, VpnAssumption DEF TypeOK, Instances, None
  <2>5. AtRest'
    BY <1>3, <2>1, <2>4 DEF AtRest, Owned, Children, Nobody, Down
  <2>6. Waits(DESTROY)'
    BY <1>3, <2>1, IntentTypes DEF Waits, Down
  <2>7. main' = main \/ main' = <<DESTROY>>
    <3>1. main' = main \/ main' = Append(main, DESTROY)
      BY <1>10 DEF StopsSelf, StopService
    <3>2. QED BY <3>1
  <2>8. \A k \in DOMAIN main' : Waits(main[k])'
    <3>1. \A k \in DOMAIN main' : main'[k] = DESTROY
      BY <2>7
    <3>2. QED BY <2>6, <3>1 DEF Waits
  <2>9. QED BY <1>3, <2>3, <2>5, <2>8, NoneWorks
<1>11. QED BY <1>6, <1>7, <1>8, <1>9, <1>10 DEF Stop

LEMMA JobWork ==
    ASSUME WInv, NEW j \in DOMAIN jobs, Job(j)
    PROVE  WorkPhase' /\ NotCancelled'
<1>1. UNCHANGED <<instance, cancelled, overlapped>> /\ ~Done(j)
  BY DEF Job, Start, Stop, StartBegins, StartStopsOld, StartClosesOld, StartEstablishes, StartsProcess,
         StartEnters, WritesConfig, WorkerEnds, StartsNative, StopBegins, StopsNative, StopCloses,
         StopDestroys, StopsSelf, lifecycle, history, At, Done
<1>2. NotCancelled'
  BY <1>1 DEF WInv, NotCancelled
<1>3. CASE ~overlapped
  <2>1. main = <<>> /\ \A k \in DOMAIN jobs : k # j => Done(k)
    BY <1>1, <1>3 DEF WInv, VInv, CalmPhase
  <2>2. QED BY <1>2, <1>3, <2>1, StartWork, StopWork DEF Job
<1>4. CASE overlapped
  BY <1>1, <1>2, <1>4 DEF WorkPhase
<1>5. QED BY <1>3, <1>4

-----------------------------------------------------------------------------
LEMMA VpnStep == VInv /\ [Next]_vars => VInv'
<1> SUFFICES ASSUME VInv, [Next]_vars PROVE VInv'
  OBVIOUS
<1>0. TypeOK /\ Destroys
  BY DEF VInv
<1>1. CASE ToggleOn \/ ToggleOff \/ (\E p \in Proxies : Select(p)) \/ NotificationStop
  <2>1. Destroys'
    <3>1. \A p \in Proxies : START(p) \in Intents /\ START(p).action # "DESTROY"
      BY IntentTypes
    <3>2. STOP \in Intents /\ STOP.action # "DESTROY"
      BY IntentTypes
    <3>3. UNCHANGED <<instance, stopping>>
      BY <1>1 DEF ToggleOn, ToggleOff, Select, NotificationStop, Send, lifecycle
    <3>4. ASSUME NEW messages \in Seq(Intents), \A i \in DOMAIN messages : messages[i].action # "DESTROY",
                 main' = main \o messages
          PROVE  Destroys'
      <4>1. /\ main \in Seq(Intents) /\ Len(main') = Len(main) + Len(messages) /\ main' \in Seq(Intents)
            /\ \A k \in 1 .. Len(main) : main'[k] = main[k]
            /\ \A k \in 1 .. Len(messages) : main'[Len(main) + k] = messages[k]
        BY <1>0, <3>4, ListJoined DEF TypeOK
      <4>2. ASSUME NEW k \in DOMAIN main', main'[k].action = "DESTROY" PROVE k \in DOMAIN main
        <5>1. CASE k > Len(main)
          <6>1. k - Len(main) \in 1 .. Len(messages) /\ k = Len(main) + (k - Len(main))
            BY <4>1, <5>1
          <6>2. QED BY <3>4, <4>1, <4>2, <6>1
        <5>2. QED BY <4>1, <5>1
      <4>3. \A k \in DOMAIN main' : main'[k].action = "DESTROY" => main[k].action = "DESTROY"
        BY <4>1, <4>2
      <4>4. instance' = instance /\ stopping' = stopping
        BY <3>3
      <4>5. QED BY <1>0, <4>2, <4>3, <4>4 DEF Destroys
    <3>5. CASE main' = main
      BY <1>0, <3>3, <3>5 DEF Destroys
    <3>6. \A a, b \in Intents :
              a.action # "DESTROY" /\ b.action # "DESTROY" =>
                  /\ <<a>> \in Seq(Intents) /\ <<a, b>> \in Seq(Intents)
                  /\ \A i \in DOMAIN <<a>> : <<a>>[i].action # "DESTROY"
                  /\ \A i \in DOMAIN <<a, b>> : <<a, b>>[i].action # "DESTROY"
      OBVIOUS
    <3>7. CASE ToggleOn
      <4>1. main' = main \o <<START(selectedProxy)>> /\ selectedProxy \in Proxies
        BY <1>0, <3>7 DEF ToggleOn, Send, TypeOK
      <4>2. QED BY <3>1, <3>4, <3>6, <4>1
    <3>8. CASE ToggleOff \/ NotificationStop
      <4>1. main' = main \o <<STOP>>
        BY <3>8 DEF ToggleOff, NotificationStop, Send
      <4>2. QED BY <3>2, <3>4, <3>6, <4>1
    <3>9. ASSUME NEW p \in Proxies, Select(p) PROVE Destroys'
      <4>1. main' = main \o <<STOP, START(p)>> \/ main' = main
        BY <3>9 DEF Select, Send
      <4>2. QED BY <3>1, <3>2, <3>4, <3>5, <3>6, <4>1
    <3>10. QED BY <1>1, <3>7, <3>8, <3>9
  <2>2. QED BY <1>0, <1>1, <2>1, UserTypes, UserPhases DEF VInv
<1>2. CASE Revoke
  BY <1>0, <1>2, RevokeTypes DEF VInv, Revoke, StopPhase, CalmPhase
<1>3. CASE OnStartCommand
  BY <1>0, <1>3, OnStartCommandTypes, OnStartCommandPhases DEF VInv
<1>4. CASE OnDestroy
  BY <1>0, <1>4, OnDestroyTypes, OnDestroyPhases DEF VInv
<1>5. CASE \E j \in DOMAIN jobs : Job(j)
  BY <1>0, <1>5, JobTypes, JobPhases DEF VInv
<1>8. CASE WorkerReads
  BY <1>0, <1>8 DEF WorkerReads, VInv, TypeOK, Destroys, StopPhase, CalmPhase, Done, Relies,
                    screen, lifecycle, fields, history
<1>6. CASE UNCHANGED vars
  <2>1. UNCHANGED <<screen, main, lifecycle, fields, jobs, outside, history>>
    BY <1>6 DEF vars
  <2>2. TypeOK' /\ Destroys'
    BY <1>0, <2>1 DEF TypeOK, Destroys, screen, lifecycle, fields, outside, history
  <2>3. StopPhase' /\ CalmPhase'
    BY <2>1 DEF VInv, StopPhase, CalmPhase, Done, Relies, outside, history
  <2>4. QED BY <2>2, <2>3 DEF VInv
<1>7. QED BY <1>1, <1>2, <1>3, <1>4, <1>5, <1>6, <1>8 DEF Next, Service

\* The invariant of the service holds: its types, and what its phases imply of the
\* coroutines (TunnelVpnService.kt:36-205).
THEOREM VpnInvariant == Spec => []VInv
  BY VpnInit, VpnStep, PTL DEF Spec

LEMMA WorkStep == WInv /\ [Next]_vars => WInv'
<1> SUFFICES ASSUME WInv, [Next]_vars PROVE WInv'
  OBVIOUS
<1>1. VInv /\ VInv' /\ Unread'
  BY VpnStep, UnreadStep DEF WInv
<1>2. CASE ToggleOn \/ ToggleOff \/ (\E p \in Proxies : Select(p)) \/ NotificationStop
  BY <1>1, <1>2, UserWork DEF WInv
<1>3. CASE Revoke
  BY <1>1, <1>3 DEF WInv, Revoke, WorkPhase, NotCancelled
<1>4. CASE OnStartCommand
  BY <1>1, <1>4, OnStartCommandWork DEF WInv
<1>5. CASE OnDestroy
  BY <1>1, <1>5, OnDestroyWork DEF WInv
<1>6. CASE \E j \in DOMAIN jobs : Job(j)
  BY <1>1, <1>6, JobWork DEF WInv
<1>7. CASE UNCHANGED vars
  <2>1. UNCHANGED <<screen, main, lifecycle, fields, jobs, outside, history>>
    BY <1>7 DEF vars
  <2>2. NotCancelled'
    BY <2>1 DEF WInv, NotCancelled, lifecycle
  <2>3. WorkPhase'
    BY <2>1 DEF WInv, WorkPhase, Done, AtPlace, StartAt, StopAt, Owned, Children, AtRest, Waits, Down, Serves,
                Inst, screen, lifecycle, fields, outside, history
  <2>4. QED BY <1>1, <2>2, <2>3 DEF WInv
<1>8. CASE WorkerReads
  <2>1. /\ upstream' = config
        /\ UNCHANGED <<isVpnActive, selectedProxy, sent, main, instance, instances, cancelled, stopping>>
        /\ UNCHANGED <<fields, jobs, tuns, worker, config, port, overlapped, disturbances>>
    BY <1>8 DEF WorkerReads, screen, lifecycle, history
  <2>2. NotCancelled'
    BY <2>1 DEF WInv, NotCancelled
  <2>3. SUFFICES ASSUME ~overlapped PROVE WorkPhase'
    BY <1>1, <2>1, <2>2 DEF WInv, WorkPhase
  <2>4. \A j \in DOMAIN jobs : AtPlace(j) => AtPlace(j)'
    BY <2>1 DEF AtPlace, StartAt, StopAt, Owned, Children, Down, Inst, fields
  <2>5. AtRest => AtRest'
    BY <2>1 DEF AtRest, Owned, Children, Down, Serves, fields
  <2>6. \A k \in DOMAIN main : Waits(main[k]) => Waits(main[k])'
    BY <2>1 DEF Waits, Down
  <2>7. QED BY <2>1, <2>3, <2>4, <2>5, <2>6 DEF WInv, WorkPhase, Done
<1>9. QED BY <1>2, <1>3, <1>4, <1>5, <1>6, <1>7, <1>8 DEF Next, Service

\* The invariant with the owner of the descriptor, the process and the worker at
\* each place of the one coroutine at work holds (TunnelVpnService.kt:55-205).
THEOREM WorkInvariant == Spec => []WInv
<1>1. Init => WInv
  BY VpnInit, WorkInit DEF WInv
<1>2. QED BY <1>1, WorkStep, PTL DEF Spec

-----------------------------------------------------------------------------
\* VpnService keeps its types: fields, descriptors, worker and port are named
\* after coroutines that exist, and only instances that stop are cancelled.
THEOREM TypeCorrect == Spec => []TypeOK
<1>1. VInv => TypeOK
  BY DEF VInv
<1>2. QED BY <1>1, VpnInvariant, PTL

\* A stop that finds everything at rest ends the native worker, whatever was
\* destroyed, failed or overlapped before (TunnelVpnService.kt:185-201).
THEOREM StopIsFinal == Spec => []StopStops
<1>1. VInv => StopStops
  BY DEF VInv, StopPhase, StopStops, Quiet, AtWork, Done
<1>2. QED BY <1>1, VpnInvariant, PTL

\* As long as intents do not overlap no coroutine closes the descriptor that
\* the native worker uses (TunnelVpnService.kt:43-45, 187-191).
THEOREM WorkerKeepsInterface == Spec => []WorkerHasInterface
<1>1. VInv => WorkerHasInterface
  BY DEF VInv, CalmPhase, WorkerHasInterface
<1>2. QED BY <1>1, VpnInvariant, PTL

\* When intents do not overlap and nothing fails, the traffic goes through the
\* proxy selected if the screen says on, or through ByeDPI if the start chose
\* it, and nothing is left if it says off (TunnelVpnService.kt:43-205).
THEOREM CalmServiceTunnels == Spec => []CalmlyTunneled
<1>1. WInv => CalmlyTunneled
  <2>1. SUFFICES ASSUME WInv, Settled, ~overlapped, disturbances = 0
                 PROVE  IF isVpnActive THEN Tunneled(selectedProxy) ELSE Down
    BY DEF CalmlyTunneled
  <2>2. AtRest /\ main = <<>> /\ (worker = None \/ upstream # "none")
    BY <2>1 DEF WInv, WorkPhase, Settled, Quiet, AtWork, Done
  <2>3. isVpnActive \in BOOLEAN /\ None \notin tuns
    BY <2>1 DEF WInv, VInv, TypeOK, None
  <2>4. Serves(selectedProxy) => Tunneled(selectedProxy)
    BY <2>2, <2>3 DEF Serves, Tunneled
  <2>5. QED BY <2>1, <2>2, <2>3, <2>4 DEF AtRest
<1>2. QED BY <1>1, WorkInvariant, PTL

\* Whatever fails in a start or a stop, no worker, descriptor or process is
\* left of a service that has gone without overlaps
\* (TunnelVpnService.kt:185-205).
THEOREM GoneLeavesNothing == Spec => []NothingLeft
<1>1. WInv => NothingLeft
  BY DEF WInv, WorkPhase, NothingLeft, Quiet, AtWork, Done, AtRest
<1>2. QED BY <1>1, WorkInvariant, PTL

-----------------------------------------------------------------------------
(* Interceptor                                                             *)

\* The steps of the interceptor are steps of the service or leave it alone.
LEMMA ServiceRefined == InterceptorNext => [Next]_vars
<1> SUFFICES ASSUME InterceptorNext PROVE [Next]_vars
  OBVIOUS
<1>1. CASE IntentStep
  BY <1>1 DEF IntentStep, Next, Service
<1>2. CASE ServiceStep
  BY <1>2 DEF ServiceStep, StartsWorker, StopClosesAll, OtherSteps, Next, Service, Job, Start, Stop
<1>3. CASE PumpStep
  BY <1>3 DEF PumpStep
<1> QED
  BY <1>1, <1>2, <1>3 DEF InterceptorNext

\* The service with the encrypted DNS is still the service: whatever was shown
\* of TunnelVpnService.kt:36-205 holds with the interceptor too.
THEOREM InterceptorKeepsService == InterceptorSpec => Spec
<1>1. InterceptorInit => Init
  BY DEF InterceptorInit
<1>2. [InterceptorNext]_allVars => [Next]_vars
  BY ServiceRefined DEF allVars
<1> QED
  BY <1>1, <1>2, PTL DEF InterceptorSpec, Spec

\* No coroutine is forgotten, goes to another instance or works again.
CoroutinesStay ==
    \A k \in DOMAIN jobs :
        /\ k \in DOMAIN jobs' /\ jobs'[k].inst = jobs[k].inst
        /\ jobs[k].pc = "done" => jobs'[k].pc = "done"

\* A coroutine that makes a step has not ended.
LEMMA AtWorkMoves ==
    ASSUME NEW j \in DOMAIN jobs, Job(j)
    PROVE  jobs[j].pc # "done"
<1>1. CASE Start(j)
  BY <1>1 DEF Start, StartBegins, StartStopsOld, StartClosesOld, StartEnters, StartEstablishes,
              StartsProcess, WritesConfig, StartsNative, At
<1>2. CASE Stop(j)
  BY <1>2 DEF Stop, StopBegins, StopsNative, StopCloses, StopDestroys, StopsSelf, At
<1> QED
  BY <1>1, <1>2 DEF Job

\* No step of the service does.
LEMMA CoroutinesKept ==
    ASSUME VInv, [Next]_vars
    PROVE  CoroutinesStay
<1>1. TypeOK /\ Destroys /\ jobs \in Seq(Coroutines)
  BY DEF VInv, TypeOK
<1>2. CASE UNCHANGED jobs
  BY <1>2 DEF CoroutinesStay
<1>3. CASE OnStartCommand
  BY <1>1, <1>3, StartLaunches DEF CoroutinesStay
<1>4. CASE OnDestroy
  BY <1>1, <1>4, DestroyCancels DEF CoroutinesStay
<1>5. ASSUME NEW j \in DOMAIN jobs, Job(j) PROVE CoroutinesStay
  <2>1. jobs[j].pc # "done" /\ ((\E pc \in Places : Moved(j, pc)) \/ Replaced(j))
    BY <1>1, <1>5, JobMoves, AtWorkMoves
  <2>2. ASSUME NEW pc \in Places, Moved(j, pc) PROVE CoroutinesStay
    BY <1>1, <2>1, <2>2 DEF CoroutinesStay, Moved
  <2>3. ASSUME Replaced(j) PROVE CoroutinesStay
    <3>1. /\ jobs' \in Seq(Coroutines) /\ Len(jobs') \in {Len(jobs), Len(jobs) + 1}
          /\ jobs'[j].inst = jobs[j].inst
          /\ \A k \in 1 .. Len(jobs) : k # j => jobs'[k] = jobs[k]
      BY <2>3 DEF Replaced
    <3> QED
      BY <1>1, <2>1, <3>1 DEF CoroutinesStay
  <2> QED
    BY <2>1, <2>2, <2>3
<1>6. CASE ToggleOn \/ ToggleOff \/ (\E p \in Proxies : Select(p)) \/ NotificationStop
  <2>1. UNCHANGED jobs
    BY <1>6 DEF ToggleOn, ToggleOff, Select, NotificationStop, Send
  <2> QED
    BY <1>2, <2>1
<1> QED
  BY <1>2, <1>3, <1>4, <1>5, <1>6 DEF Next, Service, Revoke, WorkerReads, vars

-----------------------------------------------------------------------------
\* An instance has an interface that a start of its own has made.
Owners == \A i \in Instances : vpnInterface[i] # None => Inst(vpnInterface[i]) = i

\* A pair is made in the last step of a start.
MadeDone == \A k \in made : Done(k)

\* Without overlaps a pair is open only with the interface of its start, the
\* instance knows it, the worker that was given it has it, and with all work
\* done nobody else has one.
PairPhase ==
    ~overlapped =>
        /\ pairs \subseteq tuns
        /\ \A k \in pairs : socketPair[Inst(k)] = k
        /\ worker \in made => worker \in pairs
        /\ (\A j \in DOMAIN jobs : Done(j)) => pairs \subseteq {worker}

\* A pump ends only because something it uses was closed, its scope was
\* cancelled or its reader broke.
PumpPhase == \A k \in pairs \cap tuns : ~InCancelled(k) /\ k \notin broken => Pumping(k)

EInv == InterceptorTypeOK /\ Owners /\ MadeDone /\ PairPhase /\ PumpPhase

\* A function changed at one place
LEMMA ChangedAt ==
    ASSUME NEW S, NEW T, NEW f \in [S -> T], NEW n, NEW v
    PROVE  \A i \in S : [f EXCEPT ![n] = v][i] = f[i] \/ ([f EXCEPT ![n] = v][i] = v /\ i = n)
<1>1. DOMAIN f = S
  OBVIOUS
<1>2. ASSUME NEW i \in S, i # n PROVE [f EXCEPT ![n] = v][i] = f[i]
  BY <1>1, <1>2
<1>3. ASSUME n \in S PROVE [f EXCEPT ![n] = v][n] = v
  BY <1>1, <1>3
<1> QED
  BY <1>2, <1>3

\* An interface is assigned by a start of the instance only.
LEMMA OwnersStep ==
    ASSUME VInv, Owners, [Next]_vars
    PROVE  Owners'
<1>1. CoroutinesStay
  BY CoroutinesKept
<1>2. /\ vpnInterface \in [Instances -> {None} \cup DOMAIN jobs]
  BY DEF VInv, TypeOK
<1>3. CASE UNCHANGED vpnInterface
  BY <1>1, <1>2, <1>3 DEF Owners, CoroutinesStay, Inst
<1>4. ASSUME NEW j \in DOMAIN jobs, Job(j) PROVE Owners'
  <2>1. \/ vpnInterface' = vpnInterface
        \/ vpnInterface' = [vpnInterface EXCEPT ![Inst(j)] = None]
        \/ vpnInterface' = [vpnInterface EXCEPT ![Inst(j)] = j]
    <3>1. CASE Start(j)
      BY <3>1 DEF Start, StartBegins, StartStopsOld, StartClosesOld, StartEnters, StartEstablishes,
                  StartsProcess, WritesConfig, StartsNative, Closed, fields
    <3>2. CASE Stop(j)
      BY <3>2 DEF Stop, StopBegins, StopsNative, StopCloses, StopDestroys, StopsSelf, Closed, fields
    <3> QED
      BY <1>4, <3>1, <3>2 DEF Job
  <2>2. \A i \in Instances : vpnInterface'[i] = vpnInterface[i] \/ vpnInterface'[i] = None
                             \/ (vpnInterface'[i] = j /\ i = Inst(j))
    BY <1>2, <2>1, ChangedAt
  <2> QED
    BY <1>1, <1>2, <2>2 DEF Owners, CoroutinesStay, Inst
<1>5. CASE ~\E j \in DOMAIN jobs : Job(j)
  <2>1. UNCHANGED vpnInterface
    BY <1>5 DEF Next, Service, ToggleOn, ToggleOff, Select, NotificationStop, Send, Revoke,
               OnStartCommand, OnDestroy, WorkerReads, fields, vars
  <2> QED
    BY <1>3, <2>1
<1> QED
  BY <1>4, <1>5

\* Before the first intent there is no pair.
LEMMA InterceptorStart == InterceptorInit => EInv
BY DEF InterceptorInit, Init, EInv, InterceptorTypeOK, Owners, MadeDone, PairPhase, PumpPhase,
       Instances, None

\* A step that leaves the pairs as they are
LEMMA SamePairs ==
    ASSUME TypeOK, InterceptorTypeOK, PairPhase, CoroutinesStay, ~overlapped,
           UNCHANGED <<socketPair, made, pairs, tuns>>, worker' \in {worker, None},
           (\A j \in DOMAIN jobs' : jobs'[j].pc = "done") => pairs \subseteq {worker'}
    PROVE  PairPhase'
<1>1. made \subseteq DOMAIN jobs /\ pairs \subseteq DOMAIN jobs /\ None \notin made
  <2>1. None \notin DOMAIN jobs
    BY DEF None, TypeOK
  <2> QED
    BY <2>1 DEF InterceptorTypeOK
<1> QED
  BY <1>1 DEF PairPhase, CoroutinesStay, Inst, Done

\* Without a pair there is nothing to show.
LEMMA NoPairs ==
    ASSUME pairs' = {}, worker' \notin made'
    PROVE  PairPhase'
BY DEF PairPhase

\* Pumps are left alone and no pair is opened: a pump has what it had.
LEMMA SamePumps ==
    ASSUME InterceptorTypeOK, PumpPhase, CoroutinesStay,
           pairs' \subseteq pairs, pairs \cap tuns' \subseteq tuns,
           cancelled \subseteq cancelled', UNCHANGED <<pumps, broken>>
    PROVE  PumpPhase'
<1>1. pairs \subseteq DOMAIN jobs
  BY DEF InterceptorTypeOK
<1> QED
  BY <1>1 DEF PumpPhase, CoroutinesStay, InCancelled, Inst, Pumping

\* What changes neither pairs nor pumps keeps the rest of the invariant.
LEMMA SameRest ==
    ASSUME InterceptorTypeOK, MadeDone, CoroutinesStay, UNCHANGED interceptorVars
    PROVE  InterceptorTypeOK' /\ MadeDone'
<1>1. DOMAIN jobs \subseteq DOMAIN jobs' /\ made \subseteq DOMAIN jobs
  BY DEF CoroutinesStay, InterceptorTypeOK
<1>2. InterceptorTypeOK'
  BY <1>1 DEF InterceptorTypeOK, interceptorVars, pumpVars, Instances
<1> QED
  BY <1>1, <1>2 DEF MadeDone, CoroutinesStay, Done, interceptorVars, pumpVars

-----------------------------------------------------------------------------
\* An interface is opened by a coroutine at work, named after it; no scope is
\* cancelled and works again.
LEMMA OutsideSteps ==
    ASSUME VInv, [Next]_vars
    PROVE  /\ cancelled \subseteq cancelled'
           /\ \A k \in DOMAIN jobs : Done(k) /\ k \in tuns' => k \in tuns
<1>1. ASSUME NEW j \in DOMAIN jobs, Job(j)
      PROVE  /\ cancelled \subseteq cancelled'
             /\ \A k \in DOMAIN jobs : Done(k) /\ k \in tuns' => k \in tuns
  <2>1. UNCHANGED cancelled /\ tuns' \subseteq tuns \cup {j}
    <3>1. CASE Start(j)
      BY <3>1 DEF Start, StartBegins, StartStopsOld, StartClosesOld, StartEnters, StartEstablishes,
                  StartsProcess, WritesConfig, StartsNative, Closed, lifecycle, outside
    <3>2. CASE Stop(j)
      BY <3>2 DEF Stop, StopBegins, StopsNative, StopCloses, StopDestroys, StopsSelf, Closed,
                  lifecycle, outside
    <3> QED
      BY <1>1, <3>1, <3>2 DEF Job
  <2>2. ~Done(j)
    BY <1>1, AtWorkMoves DEF Done
  <2> QED
    BY <2>1, <2>2
<1>2. CASE ~\E j \in DOMAIN jobs : Job(j)
  BY <1>2 DEF Next, Service, ToggleOn, ToggleOff, Select, NotificationStop, Send, Revoke,
              OnStartCommand, OnDestroy, WorkerReads, lifecycle, outside, vars
<1> QED
  BY <1>1, <1>2

\* A step that leaves the interceptor alone leaves the pumps what they had.
LEMMA ServicePumps ==
    ASSUME VInv, EInv, [Next]_vars, UNCHANGED interceptorVars
    PROVE  PumpPhase'
<1>1. CoroutinesStay /\ cancelled \subseteq cancelled' /\ pairs \cap tuns' \subseteq tuns
  BY CoroutinesKept, OutsideSteps DEF EInv, InterceptorTypeOK, MadeDone
<1>2. UNCHANGED <<pairs, pumps, broken>>
  BY DEF interceptorVars, pumpVars
<1> QED
  BY <1>1, <1>2, SamePumps DEF EInv

\* What the service does by itself keeps the invariant but for the pairs.
LEMMA ServiceRest ==
    ASSUME VInv, EInv, [Next]_vars, UNCHANGED interceptorVars, PairPhase'
    PROVE  EInv'
BY ServicePumps, CoroutinesKept, OwnersStep, SameRest DEF EInv

\* The mark for no coroutine is none of those that made a pair.
LEMMA NoneMadeNone ==
    ASSUME TypeOK, InterceptorTypeOK
    PROVE  None \notin made /\ None \notin pairs
<1>1. None \notin DOMAIN jobs
  BY DEF None, TypeOK
<1> QED
  BY <1>1 DEF InterceptorTypeOK

-----------------------------------------------------------------------------
(* The steps                                                               *)

\* Intents leave the pairs alone, and a destruction finds none.
LEMMA IntentKeeps ==
    ASSUME WInv, EInv, IntentStep
    PROVE  EInv'
<1>1. /\ VInv /\ TypeOK /\ CalmPhase /\ WorkPhase /\ InterceptorTypeOK /\ PairPhase
      /\ jobs \in Seq(Coroutines)
  BY DEF WInv, VInv, TypeOK, EInv
<1>2. [Next]_vars /\ CoroutinesStay
  BY <1>1, ServiceRefined, CoroutinesKept DEF InterceptorNext
<1>3. /\ UNCHANGED interceptorVars /\ UNCHANGED <<socketPair, made, pairs>>
  BY DEF IntentStep, interceptorVars
<1>4. SUFFICES ASSUME ~overlapped' PROVE PairPhase'
  BY <1>1, <1>2, <1>3, ServiceRest DEF PairPhase
<1>5. CASE ToggleOn \/ ToggleOff \/ (\E p \in Proxies : Select(p)) \/ NotificationStop \/ WorkerReads
  <2>1. UNCHANGED <<jobs, tuns, worker>> /\ ~overlapped
    <3>1. CASE WorkerReads
      BY <1>4, <3>1 DEF WorkerReads, history
    <3>2. CASE ~WorkerReads
      BY <1>4, <1>5, <3>2 DEF ToggleOn, ToggleOff, Select, NotificationStop, Send, outside
    <3> QED
      BY <3>1, <3>2
  <2>2. (\A j \in DOMAIN jobs' : jobs'[j].pc = "done") => pairs \subseteq {worker'}
    BY <1>1, <2>1 DEF PairPhase, Done
  <2> QED
    BY <1>1, <1>2, <1>3, <2>1, <2>2, SamePairs
<1>6. CASE Revoke
  BY <1>4, <1>6 DEF Revoke
<1>7. CASE OnStartCommand
  <2>1. UNCHANGED <<tuns, worker, overlapped>>
    BY <1>7 DEF OnStartCommand, outside, history
  <2>2. ~\A j \in DOMAIN jobs' : jobs'[j].pc = "done"
    <3>1. /\ Len(jobs) + 1 \in DOMAIN jobs' /\ jobs'[Len(jobs) + 1].pc = "launched"
      BY <1>1, <1>7, StartLaunches
    <3> QED
      BY <3>1
  <2> QED
    BY <1>1, <1>2, <1>3, <1>4, <2>1, <2>2, SamePairs
<1>8. CASE OnDestroy
  <2>1. /\ main # <<>> /\ main \in Seq(Intents) /\ Head(main).action = "DESTROY"
        /\ UNCHANGED <<tuns, worker, overlapped>>
    BY <1>1, <1>8 DEF OnDestroy, TypeOK, outside, history
  <2>2. 1 \in DOMAIN main /\ main[1] = Head(main)
    BY <2>1
  <2>3. Down
    BY <1>1, <1>4, <2>1, <2>2 DEF WorkPhase, Waits
  <2>4. pairs' = {} /\ worker' \notin made'
    BY <1>1, <1>3, <1>4, <2>1, <2>3, NoneMadeNone DEF Down, PairPhase
  <2> QED
    BY <2>4, NoPairs
<1> QED
  BY <1>5, <1>6, <1>7, <1>8 DEF IntentStep

\* What a start or a stop at work alone finds at its place
LEMMA WorksAlone ==
    ASSUME WInv, NEW j \in DOMAIN jobs, Job(j), ~overlapped
    PROVE  /\ jobs[j].kind = "start" => StartAt(j)
           /\ jobs[j].kind = "stop" => StopAt(j)
           /\ \A k \in DOMAIN jobs : k # j => Done(k)
           /\ instance \notin cancelled
<1>1. ~Done(j)
  BY AtWorkMoves DEF Done
<1>2. AtPlace(j) /\ \A k \in DOMAIN jobs : k # j => Done(k)
  BY <1>1 DEF WInv, VInv, CalmPhase, WorkPhase
<1> QED
  BY <1>2 DEF WInv, NotCancelled, AtPlace

\* Between its beginning and its pair a start has none, and a stop keeps its
\* pair until it closes it with the interface.
LEMMA OtherKeeps ==
    ASSUME WInv, EInv, NEW j \in DOMAIN jobs, OtherSteps(j)
    PROVE  EInv'
<1>1. /\ VInv /\ TypeOK /\ InterceptorTypeOK /\ PairPhase
      /\ jobs \in Seq(Coroutines)
  BY DEF WInv, VInv, TypeOK, EInv
<1>2. Job(j) /\ [Next]_vars /\ CoroutinesStay
  <2>1. Job(j)
    BY DEF OtherSteps, Job, Start, Stop
  <2> QED
    BY <1>1, <2>1, CoroutinesKept DEF Next, Service
<1>3. /\ UNCHANGED interceptorVars /\ UNCHANGED <<socketPair, made, pairs>> /\ UNCHANGED overlapped
  BY DEF OtherSteps, interceptorVars, StartBegins, StartStopsOld, StartClosesOld, StartEnters,
         StartEstablishes, StartsProcess, WritesConfig, StopBegins, StopsNative, StopDestroys,
         StopsSelf, history
<1>4. SUFFICES ASSUME ~overlapped PROVE PairPhase'
  BY <1>1, <1>2, <1>3, ServiceRest DEF PairPhase
<1>5. /\ jobs[j].kind = "start" => StartAt(j)
      /\ jobs[j].kind = "stop" => StopAt(j)
  BY <1>2, <1>4, WorksAlone
\* The worker is gone and nothing is open.
<1>6. ASSUME tuns = {}, worker' = None PROVE PairPhase'
  BY <1>1, <1>3, <1>4, <1>6, NoneMadeNone, NoPairs DEF PairPhase
\* The interfaces are as they were, and the coroutine is still at work.
<1>7. ASSUME NEW pc \in Places \ {"done"}, Moved(j, pc), tuns' = tuns, worker' \in {worker, None}
      PROVE  PairPhase'
  <2>1. j \in DOMAIN jobs' /\ jobs'[j].pc # "done"
    BY <1>1, <1>7 DEF Moved
  <2> QED
    BY <1>1, <1>2, <1>3, <1>4, <1>7, <2>1, SamePairs
<1>8. CASE StartBegins(j) \/ StartStopsOld(j) \/ StartClosesOld(j) \/ StartEnters(j) \/ StartEstablishes(j)
  <2>1. Down
    BY <1>5, <1>8 DEF StartBegins, StartStopsOld, StartClosesOld, StartEnters, StartEstablishes, At, StartAt
  <2>2. worker' = None
    BY <1>8, <2>1 DEF StartBegins, StartStopsOld, StartClosesOld, StartEnters, StartEstablishes,
                      WorkerEnds, Down, outside
  <2> QED
    BY <1>6, <2>1, <2>2 DEF Down
<1>9. CASE StartsProcess(j)
  <2>1. Moved(j, "config") /\ UNCHANGED <<tuns, worker>>
    BY <1>1, <1>9, StartsProcessMoves DEF StartsProcess
  <2> QED
    BY <1>7, <2>1 DEF Places
<1>10. CASE WritesConfig(j) \/ StopBegins(j) \/ StopsNative(j) \/ StopDestroys(j)
  <2>1. /\ Goto(j, "native") \/ Goto(j, "stopNative") \/ Goto(j, "close") \/ Goto(j, "stopSelf")
        /\ tuns' = tuns /\ worker' \in {worker, None}
    BY <1>10 DEF WritesConfig, StopBegins, StopsNative, StopDestroys, WorkerEnds, outside
  <2>2. \E pc \in Places \ {"done"} : Moved(j, pc)
    BY <1>1, <2>1, GotoMoves DEF Places
  <2> QED
    BY <1>7, <2>1, <2>2
<1>11. CASE StopsSelf(j)
  <2>1. tuns = {} /\ worker = None /\ worker' = worker
    BY <1>5, <1>11 DEF StopsSelf, At, StopAt, outside
  <2> QED
    BY <1>6, <2>1
<1> QED
  BY <1>8, <1>9, <1>10, <1>11 DEF OtherSteps

\* The last step of a start: it has ended after it, or a stop follows it.
LEMMA StartEndsAlone ==
    ASSUME VInv, NEW j \in DOMAIN jobs, StartsNative(j)
    PROVE  /\ Job(j) /\ ~Done(j) /\ [Next]_vars /\ CoroutinesStay
           /\ UNCHANGED <<tuns, cancelled, overlapped>>
           /\ j \in DOMAIN jobs' /\ jobs'[j].pc = "done"
           /\ \/ worker' = j
              \/ /\ worker' = worker
                 /\ Inst(j) \notin cancelled => ~\A k \in DOMAIN jobs' : jobs'[k].pc = "done"
<1>1. jobs \in Seq(Coroutines) /\ Job(j)
  BY DEF VInv, TypeOK, Job, Start
<1>2. ~Done(j) /\ [Next]_vars /\ CoroutinesStay
  BY <1>1, AtWorkMoves, CoroutinesKept DEF Done, Next, Service
<1>3. UNCHANGED <<tuns, cancelled, overlapped>>
  BY DEF StartsNative, lifecycle
<1>4. CASE worker' = j /\ Goto(j, "done")
  BY <1>1, <1>2, <1>3, <1>4, GotoMoves DEF Moved, Places
<1>5. CASE worker' = worker /\ EndWithStop(j)
  <2>1. Replaced(j)
    BY <1>1, <1>5, EndReplaces
  <2>2. /\ j \in DOMAIN jobs' /\ jobs'[j].pc = "done"
        /\ jobs[j].inst \notin cancelled => jobs'[Len(jobs')].pc = "launched" /\ Len(jobs') \in DOMAIN jobs'
    BY <1>1, <2>1 DEF Replaced
  <2>3. Inst(j) \notin cancelled => ~\A k \in DOMAIN jobs' : jobs'[k].pc = "done"
    BY <2>2 DEF Inst
  <2> QED
    BY <1>1, <1>2, <1>3, <1>5, <2>2, <2>3
<1> QED
  BY <1>4, <1>5 DEF StartsNative

\* Both pumps of a start are pumps of it.
LEMMA PumpsOfStart ==
    ASSUME NEW j \in Nat \ {None}
    PROVE  /\ BothPumps(j) \subseteq Pump /\ \A x \in BothPumps(j) : x.of = j
           /\ \A e \in Ends : \E x \in BothPumps(j) : x.of = j /\ x.end = e
<1> DEFINE pump(e) == [of |-> j, end |-> e, at |-> "launched"]
<1>1. \A e \in Ends : pump(e) \in Pump /\ pump(e).of = j /\ pump(e).end = e
  BY DEF Pump
<1>2. BothPumps(j) = {pump(e) : e \in Ends}
  BY DEF BothPumps
<1> HIDE DEF pump
<1> QED
  BY <1>1, <1>2

\* A start that gives the worker an end of a pair has the pair and its pumps.
LEMMA StartsWorkerKeeps ==
    ASSUME WInv, EInv, NEW j \in DOMAIN jobs, StartsWorker(j)
    PROVE  EInv'
<1>1. /\ VInv /\ TypeOK /\ InterceptorTypeOK /\ MadeDone /\ PairPhase /\ PumpPhase
      /\ jobs \in Seq(Coroutines) /\ j \in Nat \ {None}
  BY DEF WInv, VInv, TypeOK, EInv, None
<1>2. /\ Job(j) /\ ~Done(j) /\ [Next]_vars /\ CoroutinesStay
      /\ UNCHANGED <<tuns, cancelled, overlapped>>
      /\ j \in DOMAIN jobs' /\ jobs'[j].pc = "done"
      /\ \/ worker' = j
         \/ /\ worker' = worker
            /\ Inst(j) \notin cancelled => ~\A k \in DOMAIN jobs' : jobs'[k].pc = "done"
  BY <1>1, StartEndsAlone DEF StartsWorker
<1>3. j \notin made /\ j \notin pairs
  BY <1>1, <1>2 DEF MadeDone, InterceptorTypeOK
<1>4. Owners'
  BY <1>1, <1>2, OwnersStep DEF EInv
\* Alone it finds no worker, and only its own interface.
<1>5. ASSUME ~overlapped
      PROVE  /\ worker = None /\ tuns = {j} /\ pairs = {} /\ None \notin made
             /\ Inst(j) \in Instances /\ Inst(j) \notin cancelled
  <2>1. StartAt(j) /\ jobs[j].pc = "native" /\ instance \notin cancelled
    BY <1>2, <1>5, WorksAlone DEF StartsWorker, StartsNative, At
  <2>2. worker = None /\ tuns = {j} /\ Inst(j) = instance /\ instance \in Instances
    BY <2>1 DEF StartAt
  <2>3. pairs = {}
    BY <1>1, <1>3, <1>5, <2>2 DEF PairPhase
  <2> QED
    BY <1>1, <2>1, <2>2, <2>3, NoneMadeNone
<1>6. CASE MakesPair(j)
  <2>1. /\ made' = made \cup {j} /\ pairs' = pairs \cup {j}
        /\ socketPair' = [socketPair EXCEPT ![Inst(j)] = j]
        /\ UNCHANGED <<asking, broken>>
    BY <1>6 DEF MakesPair
  <2>2. /\ pumps \subseteq pumps' /\ pumps' \subseteq pumps \cup BothPumps(j)
        /\ ~InCancelled(j) => pumps' = pumps \cup BothPumps(j)
    BY <1>6 DEF MakesPair
  <2>3. InterceptorTypeOK'
    <3>1. /\ DOMAIN jobs \subseteq DOMAIN jobs'
      BY <1>2 DEF CoroutinesStay
    <3>2. socketPair' \in [Instances -> {None} \cup made']
      BY <1>1, <2>1 DEF InterceptorTypeOK
    <3>3. pumps' \subseteq Pump /\ \A x \in pumps' : x.of \in made'
      BY <1>1, <2>1, <2>2, PumpsOfStart DEF InterceptorTypeOK
    <3> QED
      BY <1>1, <1>2, <2>1, <3>1, <3>2, <3>3 DEF InterceptorTypeOK, Instances
  <2>4. MadeDone'
    BY <1>1, <1>2, <2>1 DEF MadeDone, CoroutinesStay, Done, InterceptorTypeOK
  <2>5. PairPhase'
    <3>1. SUFFICES ASSUME ~overlapped PROVE PairPhase'
      BY <1>2 DEF PairPhase
    <3>2. pairs' = {j} /\ tuns' = {j} /\ made' = made \cup {j} /\ worker' \in {None, j}
      BY <1>2, <1>5, <2>1, <3>1
    <3>3. socketPair'[Inst(j)] = j /\ Inst(j)' = Inst(j)
      BY <1>1, <1>2, <1>5, <2>1, <3>1 DEF InterceptorTypeOK, CoroutinesStay, Inst
    <3>4. (\A k \in DOMAIN jobs' : jobs'[k].pc = "done") => worker' = j
      BY <1>2, <1>5, <3>1
    <3> QED
      BY <1>1, <1>5, <3>1, <3>2, <3>3, <3>4 DEF PairPhase, Inst, Done, None
  <2>6. PumpPhase'
    <3>1. SUFFICES ASSUME NEW k \in pairs', k \in tuns', ~InCancelled(k)', k \notin broken'
                   PROVE  Pumping(k)'
      BY DEF PumpPhase
    <3>2. k \in DOMAIN jobs /\ ~InCancelled(k)
      BY <1>1, <1>2, <2>1, <3>1 DEF InterceptorTypeOK, CoroutinesStay, InCancelled, Inst
    <3>3. CASE k = j
      BY <1>1, <2>2, <3>2, <3>3, PumpsOfStart DEF Pumping
    <3>4. CASE k # j
      <4>1. Pumping(k)
        BY <1>1, <1>2, <2>1, <3>1, <3>2, <3>4 DEF PumpPhase
      <4> QED
        BY <2>2, <4>1 DEF Pumping
    <3> QED
      BY <3>3, <3>4
  <2> QED
    BY <1>1, <1>4, <2>1, <2>3, <2>4, <2>5, <2>6 DEF EInv
<1>7. CASE UNCHANGED interceptorVars
  <2>1. PairPhase'
    <3>1. SUFFICES ASSUME ~overlapped PROVE PairPhase'
      BY <1>2 DEF PairPhase
    <3>2. pairs' = {} /\ made' = made /\ worker' \in {None, j}
      BY <1>2, <1>5, <1>7, <3>1 DEF interceptorVars
    <3> QED
      BY <1>3, <1>5, <3>1, <3>2, NoPairs
  <2> QED
    BY <1>1, <1>2, <1>7, <2>1, ServiceRest
<1> QED
  BY <1>6, <1>7 DEF StartsWorker

\* A stop closes the pair together with the interface it belongs to.
LEMMA StopClosesKeeps ==
    ASSUME WInv, EInv, NEW j \in DOMAIN jobs, StopClosesAll(j)
    PROVE  EInv'
<1>1. /\ VInv /\ TypeOK /\ InterceptorTypeOK /\ Owners /\ MadeDone /\ PairPhase /\ PumpPhase
      /\ jobs \in Seq(Coroutines)
  BY DEF WInv, VInv, TypeOK, EInv
<1> DEFINE i == Inst(j)
<1>2. /\ Job(j) /\ StopCloses(j) /\ UNCHANGED <<worker, made, pumps, asking, broken, cancelled, overlapped>>
      /\ tuns' = tuns \ {vpnInterface[i]}
      /\ pairs' = pairs \ {socketPair[i]} /\ socketPair' = [socketPair EXCEPT ![i] = None]
  BY DEF StopClosesAll, ClosesPair, StopCloses, Closed, Job, Stop, pumpVars, lifecycle, history
<1>3. [Next]_vars /\ CoroutinesStay
  BY <1>1, <1>2, CoroutinesKept DEF Next, Service
<1>4. Owners'
  BY <1>1, <1>3, OwnersStep
<1>5. PumpPhase'
  BY <1>1, <1>2, <1>3, SamePumps
<1>6. InterceptorTypeOK' /\ MadeDone'
  <2>1. DOMAIN jobs \subseteq DOMAIN jobs'
    BY <1>3 DEF CoroutinesStay
  <2>2. socketPair' \in [Instances -> {None} \cup made']
    BY <1>1, <1>2 DEF InterceptorTypeOK
  <2>3. InterceptorTypeOK'
    BY <1>1, <1>2, <2>1, <2>2 DEF InterceptorTypeOK, Instances
  <2> QED
    BY <1>1, <1>2, <1>3, <2>3 DEF InterceptorTypeOK, MadeDone, CoroutinesStay, Done
<1>7. PairPhase'
  <2>1. SUFFICES ASSUME ~overlapped PROVE PairPhase'
    BY <1>2 DEF PairPhase
  <2>2. StopAt(j) /\ jobs[j].pc = "close"
    BY <1>2, <2>1, WorksAlone DEF StopCloses, At
  <2>3. worker = None /\ tuns \subseteq {vpnInterface[i]} /\ i \in Instances
    BY <2>2 DEF StopAt, Owned
  <2>4. ASSUME NEW k \in pairs PROVE k = socketPair[i]
    <3>1. k = vpnInterface[i] /\ k # None
      BY <1>1, <2>1, <2>3, <2>4, NoneMadeNone DEF PairPhase
    <3>2. Inst(k) = i
      BY <1>1, <2>3, <3>1 DEF Owners
    <3> QED
      BY <1>1, <2>1, <2>4, <3>2 DEF PairPhase
  <2>5. pairs' = {} /\ worker' \notin made'
    BY <1>1, <1>2, <2>3, <2>4, NoneMadeNone
  <2> QED
    BY <2>5, NoPairs
<1> QED
  BY <1>4, <1>5, <1>6, <1>7 DEF EInv

\* A pump ends for a reason the invariant names, and an answer is written to
\* the interface that asked.
LEMMA PumpKeeps ==
    ASSUME VInv, EInv, PumpStep
    PROVE  EInv'
<1>1. /\ TypeOK /\ InterceptorTypeOK /\ Owners /\ MadeDone /\ PairPhase /\ PumpPhase
      /\ jobs \in Seq(Coroutines)
  BY DEF VInv, TypeOK, EInv
<1>2. UNCHANGED <<vars, socketPair, made, pairs>>
  BY DEF PumpStep
<1>3. UNCHANGED <<jobs, vpnInterface, tuns, worker, cancelled, overlapped, socketPair, made, pairs>>
  BY <1>2 DEF vars, lifecycle, fields, outside, history
<1>4. Owners' /\ MadeDone' /\ PairPhase'
  BY <1>1, <1>3 DEF Owners, MadeDone, PairPhase, Inst, Done
\* A pump has ended.
<1>5. ASSUME NEW k \in Nat, NEW e \in Ends, Gone(k, e), broken \subseteq broken',
             k \in pairs \cap tuns => InCancelled(k) \/ k \in broken'
      PROVE  PumpPhase' /\ pumps' \subseteq pumps
  <2>1. pumps' = {x \in pumps : ~(x.of = k /\ x.end = e)}
    BY <1>5 DEF Gone
  <2>2. SUFFICES ASSUME NEW n \in pairs, n \in tuns, ~InCancelled(n), n \notin broken'
                 PROVE  Pumping(n)'
    BY <1>3, <2>1 DEF PumpPhase, InCancelled, Inst
  <2>3. n # k /\ Pumping(n)
    BY <1>1, <1>5, <2>2 DEF PumpPhase
  <2> QED
    BY <2>1, <2>3 DEF Pumping
<1>6. ASSUME pumps' \subseteq Pump, \A x \in pumps' : x.of \in made, PumpPhase',
             asking' \subseteq made, broken' \subseteq made
      PROVE  EInv'
  <2>1. InterceptorTypeOK'
    BY <1>1, <1>3, <1>6 DEF InterceptorTypeOK, Instances
  <2> QED
    BY <1>4, <1>6, <2>1 DEF EInv
<1>7. made \subseteq Nat
  BY <1>1 DEF InterceptorTypeOK
<1>8. ASSUME NEW x \in pumps, PumpBegins(x) PROVE EInv'
  <2>1. x \in Pump /\ x.of \in made /\ UNCHANGED <<asking, broken>>
    BY <1>1, <1>8 DEF InterceptorTypeOK, PumpBegins
  <2>2. CASE InCancelled(x.of)
    <3>1. Gone(x.of, x.end) /\ x.end \in Ends
      BY <1>8, <2>1, <2>2 DEF PumpBegins, Pump
    <3>2. PumpPhase' /\ pumps' \subseteq pumps
      BY <1>5, <1>7, <2>1, <2>2, <3>1
    <3> QED
      BY <1>1, <1>6, <2>1, <3>2 DEF InterceptorTypeOK
  <2>3. CASE ~InCancelled(x.of)
    <3> DEFINE y == [x EXCEPT !.at = "running"]
    <3>1. y \in Pump /\ y.of = x.of /\ y.end = x.end
      BY <2>1 DEF Pump
    <3>2. pumps' = (pumps \ {x}) \cup {y}
      BY <1>8, <2>3 DEF PumpBegins
    <3> HIDE DEF y
    <3>3. PumpPhase'
      BY <1>1, <1>3, <2>1, <3>1, <3>2 DEF PumpPhase, Pumping, InCancelled, Inst
    <3> QED
      BY <1>1, <1>6, <2>1, <3>1, <3>2, <3>3 DEF InterceptorTypeOK
  <2> QED
    BY <2>2, <2>3
<1>9. ASSUME NEW k \in made, ReaderStops(k) \/ ReaderFails(k) \/ WriterStops(k) \/ WriterFails(k) PROVE EInv'
  <2>1. PICK e \in Ends : Gone(k, e) /\ UNCHANGED <<asking, broken>>
                          /\ (k \notin pairs \cap tuns \/ InCancelled(k))
    BY <1>9 DEF ReaderStops, ReaderFails, WriterStops, WriterFails, Ends
  <2>2. PumpPhase' /\ pumps' \subseteq pumps
    BY <1>5, <1>7, <2>1
  <2> QED
    BY <1>1, <1>6, <2>1, <2>2 DEF InterceptorTypeOK
<1>10. ASSUME NEW k \in made, ReaderBreaks(k) PROVE EInv'
  <2>1. Gone(k, "reader") /\ broken' = broken \cup {k} /\ UNCHANGED asking /\ "reader" \in Ends
    BY <1>10 DEF ReaderBreaks, Ends
  <2>2. PumpPhase' /\ pumps' \subseteq pumps
    BY <1>5, <1>7, <2>1
  <2> QED
    BY <1>1, <1>6, <2>1, <2>2 DEF InterceptorTypeOK
<1>11. ASSUME UNCHANGED <<pumps, broken>> PROVE PumpPhase'
  BY <1>1, <1>3, <1>11 DEF PumpPhase, Pumping, InCancelled, Inst
<1>12. ASSUME NEW k \in made, Asks(k) PROVE EInv'
  <2>1. asking' = asking \cup {k} /\ UNCHANGED <<pumps, broken>>
    BY <1>12 DEF Asks
  <2> QED
    BY <1>1, <1>6, <1>11, <2>1 DEF InterceptorTypeOK
<1>13. ASSUME NEW k \in made, Answer(k) PROVE EInv'
  <2>1. asking' = asking \ {k} /\ UNCHANGED <<pumps, broken>>
    BY <1>13 DEF Answer
  <2> QED
    BY <1>1, <1>6, <1>11, <2>1 DEF InterceptorTypeOK
<1> QED
  BY <1>8, <1>9, <1>10, <1>12, <1>13 DEF PumpStep

\* Every step of the screen, the service and the pumps keeps the invariant.
LEMMA InterceptorStep == WInv /\ EInv /\ [InterceptorNext]_allVars => EInv'
<1> SUFFICES ASSUME WInv, EInv, [InterceptorNext]_allVars PROVE EInv'
  OBVIOUS
<1>1. CASE InterceptorNext
  BY <1>1, IntentKeeps, OtherKeeps, StartsWorkerKeeps, StopClosesKeeps, PumpKeeps
     DEF InterceptorNext, ServiceStep, WInv
<1>2. CASE UNCHANGED allVars
  <2>1. UNCHANGED <<jobs, vpnInterface, tuns, worker, cancelled, overlapped, socketPair, made, pairs, pumps,
                    asking, broken>>
    BY <1>2 DEF allVars, vars, lifecycle, fields, outside, history, interceptorVars, pumpVars
  <2> QED
    BY <2>1 DEF EInv, InterceptorTypeOK, Owners, MadeDone, PairPhase, PumpPhase,
                Inst, Done, InCancelled, Pumping, Instances
<1> QED
  BY <1>1, <1>2

\* The invariant of the service and that of its pairs and pumps hold together
\* (TunnelVpnService.kt:133-149, 186-192, TunPacketInterceptor.kt:28-106).
THEOREM InterceptorInvariant == InterceptorSpec => [](WInv /\ EInv)
<1>1. InterceptorSpec => []WInv
  BY InterceptorKeepsService, WorkInvariant
<1>2. InterceptorInit => EInv
  BY InterceptorStart
<1> QED
  BY <1>1, <1>2, InterceptorStep, PTL DEF InterceptorSpec

\* Pairs, pumps and requests are those of starts that have made a pair, and the
\* field of an instance holds one of them or none (TunnelVpnService.kt:20, 137, 190).
THEOREM InterceptorTypes == InterceptorSpec => []InterceptorTypeOK
<1>1. EInv => InterceptorTypeOK
  BY DEF EInv
<1> QED
  BY <1>1, InterceptorInvariant, PTL

\* As long as intents do not overlap no coroutine closes the end of the pair that
\* the native worker uses (TunnelVpnService.kt:149, 187-189).
THEOREM WorkerKeepsPair == InterceptorSpec => []WorkerHasPair
<1>1. EInv => WorkerHasPair
  BY DEF EInv, PairPhase, WorkerHasPair
<1> QED
  BY <1>1, InterceptorInvariant, PTL

\* As long as intents do not overlap no pair is open at rest but that of a worker
\* at work, whatever failed (TunnelVpnService.kt:137-149, 188-189).
THEOREM NoPairIsLeft == InterceptorSpec => []PairsAreClosed
<1>1. EInv => PairsAreClosed
  BY DEF EInv, PairPhase, PairsAreClosed, Quiet, AtWork, Done
<1> QED
  BY <1>1, InterceptorInvariant, PTL

\* When intents do not overlap and nothing fails, both pumps of the worker carry
\* its packets while the screen says on, unless its reader met a packet it cannot
\* read (TunPacketInterceptor.kt:28-71, TunnelVpnService.kt:133-149).
THEOREM CalmInterceptorCarries == InterceptorSpec => []CalmlyCarried
<1>1. WInv /\ EInv => CalmlyCarried
  <2> SUFFICES ASSUME WInv, EInv, Quiet, ~overlapped, disturbances = 0, isVpnActive, worker \in made
               PROVE  worker \in pairs /\ (worker \notin broken => Pumping(worker))
    BY DEF CalmlyCarried
  <2>1. TypeOK /\ InterceptorTypeOK /\ None \notin made
    BY NoneMadeNone DEF WInv, VInv, EInv
  <2>2. AtRest /\ main = <<>> /\ NotCancelled
    BY DEF WInv, WorkPhase, Quiet, AtWork, Done
  <2>3. worker \in pairs /\ worker \in tuns
    BY <2>2 DEF EInv, PairPhase, AtRest, Tunneled
  <2>4. instance # None /\ Owned(instance)
    BY <2>1, <2>2 DEF AtRest, Down
  <2>5. worker = vpnInterface[instance] /\ instance \in Instances /\ worker # None
    BY <2>1, <2>3, <2>4 DEF Owned
  <2>6. ~InCancelled(worker)
    BY <2>2, <2>5 DEF EInv, Owners, InCancelled, NotCancelled
  <2> QED
    BY <2>3, <2>6 DEF EInv, PumpPhase
<1> QED
  BY <1>1, InterceptorInvariant, PTL

-----------------------------------------------------------------------------
(* ProxyList: lists without repetition                                     *)

\* No proxy is in items twice.
NoTwice(items) == \A i, j \in DOMAIN items : items[i].id = items[j].id => i = j

\* The places I are numbered by how many of them are not behind a place.
Rank(I) == [i \in I |-> Cardinality({j \in I : j <= i})]

\* This numbers them from 1 without a gap.
LEMMA RankNumbers ==
    ASSUME NEW n \in Nat, NEW I \in SUBSET (1 .. n)
    PROVE  /\ IsFiniteSet(I) /\ Cardinality(I) \in 0 .. n
           /\ Rank(I) \in Injection(I, 1 .. Cardinality(I))
           /\ Rank(I) \in Surjection(I, 1 .. Cardinality(I))
<1> DEFINE upTo(i) == {j \in I : j <= i}
<1>0. \A i \in I : i \in Int
  OBVIOUS
<1>1. IsFiniteSet(I) /\ Cardinality(I) \in Nat /\ Cardinality(I) <= n
  <2>1. IsFiniteSet(1 .. n) /\ Cardinality(1 .. n) = n
    BY FS_Interval
  <2>2. IsFiniteSet(I) /\ Cardinality(I) <= n
    BY <2>1, FS_Subset, Zenon
  <2> QED
    BY <2>2, FS_CardinalityType
<1>2. ASSUME NEW i \in I
      PROVE  /\ IsFiniteSet(upTo(i)) /\ Cardinality(upTo(i)) \in Nat
             /\ Cardinality(upTo(i)) <= Cardinality(I)
             /\ Cardinality(upTo(i)) > 0
  <2>1. upTo(i) \subseteq I /\ i \in upTo(i)
    OBVIOUS
  <2>2. /\ IsFiniteSet(upTo(i)) /\ Cardinality(upTo(i)) <= Cardinality(I)
        /\ Cardinality(upTo(i)) \in Nat
    <3> HIDE DEF upTo
    <3> QED
      BY <1>1, <2>1, FS_Subset, FS_CardinalityType
  <2>3. Cardinality(upTo(i)) # 0
    <3> HIDE DEF upTo
    <3> QED
      BY <2>1, <2>2, FS_EmptySet
  <2> HIDE DEF upTo
  <2> QED
    BY <2>2, <2>3
<1>3. Rank(I) \in [I -> 1 .. Cardinality(I)]
  <2>1. ASSUME NEW i \in I PROVE Cardinality({j \in I : j <= i}) \in 1 .. Cardinality(I)
    BY <1>1, <1>2
  <2> QED
    BY <2>1 DEF Rank
<1>4. ASSUME NEW i \in I, NEW j \in I, i < j
      PROVE  Cardinality(upTo(i)) < Cardinality(upTo(j))
  <2>1. upTo(i) \subseteq upTo(j) /\ j \in upTo(j) /\ j \notin upTo(i)
    <3>1. i \in Int /\ j \in Int /\ i < j
      BY <1>0, <1>4
    <3>2. \A l \in I : l \in Int
      BY <1>0
    <3>3. \A l \in I : l <= i => l <= j
      BY <3>1, <3>2
    <3>4. ~(j <= i) /\ j <= j
      BY <3>1
    <3> QED
      BY <3>3, <3>4
  <2>2. IsFiniteSet(upTo(j)) /\ Cardinality(upTo(i)) \in Nat /\ Cardinality(upTo(j)) \in Nat
    BY <1>2
  <2> HIDE DEF upTo
  <2>3. /\ Cardinality(upTo(i)) <= Cardinality(upTo(j))
        /\ Cardinality(upTo(i)) # Cardinality(upTo(j))
    BY <2>1, <2>2, FS_Subset
  <2> QED
    BY <2>2, <2>3
<1>5. Rank(I) \in Injection(I, 1 .. Cardinality(I))
  <2>1. ASSUME NEW i \in I, NEW j \in I, Rank(I)[i] = Rank(I)[j] PROVE i = j
    <3>1. Rank(I)[i] = Cardinality(upTo(i)) /\ Rank(I)[j] = Cardinality(upTo(j))
      BY DEF Rank
    <3>2. Cardinality(upTo(i)) \in Nat /\ Cardinality(upTo(j)) \in Nat
      BY <1>2
    <3> HIDE DEF upTo
    <3>3. Cardinality(upTo(i)) = Cardinality(upTo(j))
      BY <2>1, <3>1, Zenon
    <3>4. ASSUME i < j PROVE FALSE
      <4>1. Cardinality(upTo(i)) < Cardinality(upTo(j))
        BY <1>4, <3>4
      <4> QED
        BY <3>2, <3>3, <4>1
    <3>5. ASSUME j < i PROVE FALSE
      <4>1. Cardinality(upTo(j)) < Cardinality(upTo(i))
        BY <1>4, <3>5
      <4> QED
        BY <3>2, <3>3, <4>1
    <3>6. i \in Int /\ j \in Int
      BY <1>0
    <3> QED
      BY <3>4, <3>5, <3>6
  <2> QED
    BY <1>3, <2>1 DEF Injection, IsInjective
<1>6. IsFiniteSet(1 .. Cardinality(I)) /\ Cardinality(1 .. Cardinality(I)) = Cardinality(I)
  BY <1>1, FS_Interval
<1> QED
  BY <1>1, <1>5, <1>6, FS_Injection

\* kept has what stands in items at the places I, each of them once.
PickedFrom(kept, items, I) ==
    \E at \in [DOMAIN kept -> I] :
        /\ \A k, l \in DOMAIN at : at[k] = at[l] => k = l
        /\ \A i \in I : \E k \in DOMAIN at : at[k] = i
        /\ \A k \in DOMAIN at : kept[k] = items[at[k]]

\* The numbering gives every place of I once, so Kept picks each item at I once.
LEMMA KeptProperties ==
    ASSUME NEW S, NEW items \in Seq(S), NEW I \in SUBSET DOMAIN items
    PROVE  Kept(items, I) \in Seq(S) /\ PickedFrom(Kept(items, I), items, I)
<1> DEFINE c == Cardinality(I)
           at == [k \in 1 .. c |-> CHOOSE i \in I : Cardinality({j \in I : j <= i}) = k]
<1>1. Len(items) \in Nat /\ DOMAIN items = 1 .. Len(items) /\ items \in [1 .. Len(items) -> S]
  BY LenProperties
<1>2. /\ c \in Nat
      /\ Rank(I) \in Injection(I, 1 .. c)
      /\ Rank(I) \in Surjection(I, 1 .. c)
  BY <1>1, RankNumbers
<1>3. ASSUME NEW k \in 1 .. c
      PROVE  at[k] \in I /\ Rank(I)[at[k]] = k
  <2>1. \E i \in I : Rank(I)[i] = k
    BY <1>2 DEF Surjection
  <2>2. \E i \in I : Cardinality({j \in I : j <= i}) = k
    BY <2>1 DEF Rank
  <2>3. at[k] \in I /\ Cardinality({j \in I : j <= at[k]}) = k
    BY <2>2
  <2> HIDE DEF at
  <2> QED
    BY <2>3 DEF Rank
<1>4. Kept(items, I) = [k \in 1 .. c |-> items[at[k]]]
  BY DEF Kept
<1>5. at \in [1 .. c -> I]
  BY <1>3
<1> HIDE DEF at, c
<1>6. Kept(items, I) \in [1 .. c -> S]
  BY <1>1, <1>4, <1>5
<1>7. Kept(items, I) \in Seq(S) /\ DOMAIN Kept(items, I) = 1 .. c
  BY <1>2, <1>6
<1>8. \A k, l \in 1 .. c : at[k] = at[l] => k = l
  BY <1>3
<1>9. ASSUME NEW i \in I PROVE \E k \in 1 .. c : at[k] = i
  <2>1. Rank(I)[i] \in 1 .. c
    BY <1>2 DEF Injection
  <2>2. at[Rank(I)[i]] \in I /\ Rank(I)[at[Rank(I)[i]]] = Rank(I)[i]
    BY <1>3, <2>1
  <2>3. at[Rank(I)[i]] = i
    BY <1>2, <2>2 DEF Injection, IsInjective
  <2> QED
    BY <2>1, <2>3
<1>10. /\ at \in [DOMAIN Kept(items, I) -> I] /\ DOMAIN at = 1 .. c
       /\ \A k \in 1 .. c : Kept(items, I)[k] = items[at[k]]
  BY <1>4, <1>5, <1>7
<1>11. /\ \A k, l \in DOMAIN at : at[k] = at[l] => k = l
       /\ \A i \in I : \E k \in DOMAIN at : at[k] = i
       /\ \A k \in DOMAIN at : Kept(items, I)[k] = items[at[k]]
  BY <1>8, <1>9, <1>10
<1> QED
  BY <1>7, <1>10, <1>11 DEF PickedFrom

\* What is known of any list of items and of each item of it.
LEMMA ItemFields ==
    ASSUME NEW items \in Seq(Item)
    PROVE  /\ Len(items) \in Nat /\ DOMAIN items = 1 .. Len(items)
           /\ \A i \in DOMAIN items : items[i] \in Item /\ items[i].id \in Ids /\ items[i].fav \in BOOLEAN
           /\ IdsOf(items) \subseteq Ids
<1>1. Len(items) \in Nat /\ DOMAIN items = 1 .. Len(items) /\ items \in [1 .. Len(items) -> Item]
  BY LenProperties
<1>2. \A i \in DOMAIN items : items[i] \in Item
  BY <1>1
<1>3. \A i \in DOMAIN items : items[i].id \in Ids /\ items[i].fav \in BOOLEAN
  BY <1>2 DEF Item
<1> QED
  BY <1>1, <1>2, <1>3 DEF IdsOf

\* The items kept of a list without repetition are one, and they are the items
\* at the places.
LEMMA KeptItems ==
    ASSUME NEW items \in Seq(Item), NEW I \in SUBSET DOMAIN items
    PROVE  /\ Kept(items, I) \in Seq(Item)
           /\ \A k \in DOMAIN Kept(items, I) : \E i \in I : Kept(items, I)[k] = items[i]
           /\ \A i \in I : \E k \in DOMAIN Kept(items, I) : Kept(items, I)[k] = items[i]
           /\ NoTwice(items) => NoTwice(Kept(items, I))
<1> DEFINE kept == Kept(items, I)
<1>1. kept \in Seq(Item) /\ PickedFrom(kept, items, I)
  BY KeptProperties
<1>2. PICK at \in [DOMAIN kept -> I] :
         /\ \A k, l \in DOMAIN at : at[k] = at[l] => k = l
         /\ \A i \in I : \E k \in DOMAIN at : at[k] = i
         /\ \A k \in DOMAIN at : kept[k] = items[at[k]]
  BY <1>1 DEF PickedFrom
<1> HIDE DEF kept
<1>3. DOMAIN at = DOMAIN kept /\ \A k \in DOMAIN kept : at[k] \in I /\ at[k] \in DOMAIN items
  BY <1>2
<1>4. \A k \in DOMAIN kept : \E i \in I : kept[k] = items[i]
  BY <1>2, <1>3
<1>5. ASSUME NEW i \in I PROVE \E k \in DOMAIN kept : kept[k] = items[i]
  <2>1. PICK k \in DOMAIN at : at[k] = i
    BY <1>2
  <2> QED
    BY <2>1, <1>2, <1>3
<1>6. ASSUME NoTwice(items), NEW k \in DOMAIN kept, NEW l \in DOMAIN kept, kept[k].id = kept[l].id
      PROVE  k = l
  <2>1. items[at[k]].id = items[at[l]].id
    BY <1>2, <1>3, <1>6
  <2>2. at[k] = at[l]
    BY <2>1, <1>3, <1>6 DEF NoTwice
  <2> QED
    BY <2>2, <1>2, <1>3
<1>7. NoTwice(items) => NoTwice(kept)
  BY <1>6 DEF NoTwice
<1> QED
  BY <1>1, <1>4, <1>5, <1>7 DEF kept

\* A finite set in some order: each element stands at one place.
LEMMA OrderProperties ==
    ASSUME NEW S, IsFiniteSet(S)
    PROVE  /\ SetToSeq(S) \in [1 .. Cardinality(S) -> S] /\ Cardinality(S) \in Nat
           /\ \A i, j \in 1 .. Cardinality(S) : SetToSeq(S)[i] = SetToSeq(S)[j] => i = j
           /\ \A e \in S : \E i \in 1 .. Cardinality(S) : SetToSeq(S)[i] = e
<1> DEFINE n == Cardinality(S)
<1>1. n \in Nat /\ ExistsBijection(1 .. n, S)
  BY FS_CardinalityType
<1>2. IsFiniteSet(1 .. n) /\ Cardinality(1 .. n) = n
  BY <1>1, FS_Interval
<1>3. \E f \in [1 .. n -> S] : IsInjective(f)
  BY <1>1 DEF ExistsBijection, Bijection, Injection
<1>4. SetToSeq(S) \in [1 .. n -> S] /\ IsInjective(SetToSeq(S))
  BY <1>3 DEF SetToSeq
<1>5. SetToSeq(S) \in Injection(1 .. n, S)
  BY <1>4 DEF Injection
<1> HIDE DEF n
<1>6. SetToSeq(S) \in Surjection(1 .. n, S)
  BY <1>2, <1>5, FS_Injection DEF n
<1>7. \A i, j \in 1 .. n : SetToSeq(S)[i] = SetToSeq(S)[j] => i = j
  BY <1>4 DEF IsInjective
<1>8. \A e \in S : \E i \in 1 .. n : SetToSeq(S)[i] = e
  BY <1>6 DEF Surjection
<1> QED
  BY <1>1, <1>4, <1>7, <1>8 DEF n

\* A record made of a proxy and a star is an item.
LEMMA MakeItem ==
    ASSUME NEW id \in Ids, NEW fav \in BOOLEAN
    PROVE  LET item == [id |-> id, fav |-> fav] IN
           item \in Item /\ item.id = id /\ item.fav = fav
<1>1. [id |-> id, fav |-> fav].id = id /\ [id |-> id, fav |-> fav].fav = fav
  BY Zenon
<1>2. [id |-> id, fav |-> fav] \in Item
  BY DEF Item
<1> QED
  BY <1>1, <1>2

\* Items lists each proxy of a set once, with the star it should have.
LEMMA ItemsProperties ==
    ASSUME NEW ids \in SUBSET Ids, NEW starred
    PROVE  /\ Items(ids, starred) \in Seq(Item)
           /\ IdsOf(Items(ids, starred)) = ids
           /\ NoTwice(Items(ids, starred))
           /\ \A i \in DOMAIN Items(ids, starred) :
                 Items(ids, starred)[i].fav = (Items(ids, starred)[i].id \in starred)
<1> DEFINE items == Items(ids, starred)
           order == SetToSeq(ids)
           n == Cardinality(ids)
<1>1. IsFiniteSet(ids)
  BY ProxyListAssumption, FS_Subset
<1>2. /\ order \in [1 .. n -> ids] /\ n \in Nat
      /\ \A i, j \in 1 .. n : order[i] = order[j] => i = j
      /\ \A e \in ids : \E i \in 1 .. n : order[i] = e
  BY <1>1, OrderProperties
<1> HIDE DEF order, n
<1>3. items = [i \in 1 .. n |-> [id |-> order[i], fav |-> order[i] \in starred]]
  BY <1>2 DEF Items, order
<1> HIDE DEF items
<1>4. \A i \in 1 .. n : order[i] \in ids /\ order[i] \in Ids
  BY <1>2
<1>5. DOMAIN items = 1 .. n /\ \A i \in 1 .. n : items[i] = [id |-> order[i], fav |-> order[i] \in starred]
  BY <1>3
<1>6. ASSUME NEW i \in 1 .. n
      PROVE  items[i].id = order[i] /\ items[i].fav = (order[i] \in starred) /\ items[i] \in Item
  <2>1. PICK fav \in BOOLEAN : fav = (order[i] \in starred)
    <3>1. CASE order[i] \in starred
      <4>1. (order[i] \in starred) = TRUE
        BY <3>1
      <4> QED
        BY <4>1
    <3>2. CASE order[i] \notin starred
      <4>1. (order[i] \in starred) = FALSE
        BY <3>2
      <4> QED
        BY <4>1
    <3> QED
      BY <3>1, <3>2
  <2>2. items[i] = [id |-> order[i], fav |-> fav]
    BY <1>5, <2>1, Zenon
  <2>3. order[i] \in Ids
    BY <1>4
  <2>4. items[i] \in Item /\ items[i].id = order[i] /\ items[i].fav = fav
    BY <2>2, <2>3, MakeItem
  <2> QED
    BY <2>1, <2>4, Zenon
<1>7. items \in Seq(Item)
  <2>1. items \in [1 .. n -> Item]
    BY <1>3, <1>5, <1>6
  <2> QED
    BY <2>1, <1>2
<1>8. IdsOf(items) = ids
  <2>1. IdsOf(items) = {order[i] : i \in 1 .. n}
    BY <1>5, <1>6 DEF IdsOf
  <2> QED
    BY <2>1, <1>2, <1>4
<1>9. NoTwice(items)
  BY <1>2, <1>5, <1>6 DEF NoTwice
<1> QED
  BY <1>5, <1>6, <1>7, <1>8, <1>9 DEF items

\* Two lists without a proxy in common, one behind the other
LEMMA BehindEachOther ==
    ASSUME NEW s \in Seq(Item), NEW t \in Seq(Item)
    PROVE  /\ s \o t \in Seq(Item) /\ Len(s \o t) = Len(s) + Len(t)
           /\ DOMAIN s \subseteq DOMAIN (s \o t)
           /\ \A i \in DOMAIN s : (s \o t)[i] = s[i]
           /\ \A i \in DOMAIN t : \E j \in DOMAIN (s \o t) : (s \o t)[j] = t[i]
           /\ IdsOf(s \o t) = IdsOf(s) \cup IdsOf(t)
           /\ NoTwice(s) /\ NoTwice(t) /\ IdsOf(s) \cap IdsOf(t) = {} => NoTwice(s \o t)
<1> DEFINE st == s \o t
<1>1. /\ Len(s) \in Nat /\ DOMAIN s = 1 .. Len(s)
      /\ Len(t) \in Nat /\ DOMAIN t = 1 .. Len(t)
  BY LenProperties
<1>2. /\ st \in Seq(Item) /\ Len(st) = Len(s) + Len(t)
      /\ \A i \in 1 .. Len(s) + Len(t) :
            st[i] = IF i <= Len(s) THEN s[i] ELSE t[i - Len(s)]
  BY ConcatProperties
<1>3. DOMAIN st = 1 .. Len(s) + Len(t)
  BY <1>2, LenProperties
<1> HIDE DEF st
<1>4. \A i \in DOMAIN s : i \in DOMAIN st /\ st[i] = s[i]
  BY <1>1, <1>2, <1>3
<1>5. ASSUME NEW i \in DOMAIN t PROVE i + Len(s) \in DOMAIN st /\ st[i + Len(s)] = t[i]
  <2>1. /\ i \in Nat /\ i + Len(s) \in 1 .. Len(s) + Len(t)
        /\ ~(i + Len(s) <= Len(s)) /\ i + Len(s) - Len(s) = i
    BY <1>1
  <2> QED
    BY <2>1, <1>2, <1>3
<1>6. ASSUME NEW i \in DOMAIN st
      PROVE  \/ i \in DOMAIN s /\ st[i] = s[i]
             \/ i - Len(s) \in DOMAIN t /\ st[i] = t[i - Len(s)] /\ i \in Nat
  <2>1. i \in 1 .. Len(s) + Len(t)
    BY <1>3
  <2>2. CASE i <= Len(s)
    BY <2>1, <2>2, <1>1, <1>2
  <2>3. CASE ~(i <= Len(s))
    <3>1. i - Len(s) \in 1 .. Len(t) /\ i \in Nat
      BY <2>1, <2>3, <1>1
    <3> QED
      BY <3>1, <2>1, <2>3, <1>1, <1>2
  <2> QED
    BY <2>2, <2>3
<1>7. IdsOf(st) = IdsOf(s) \cup IdsOf(t)
  <2>1. ASSUME NEW i \in DOMAIN st PROVE st[i].id \in IdsOf(s) \cup IdsOf(t)
    BY <1>6 DEF IdsOf
  <2>2. ASSUME NEW i \in DOMAIN s PROVE s[i].id \in IdsOf(st)
    BY <1>4 DEF IdsOf
  <2>3. ASSUME NEW i \in DOMAIN t PROVE t[i].id \in IdsOf(st)
    BY <1>5 DEF IdsOf
  <2> QED
    BY <2>1, <2>2, <2>3 DEF IdsOf
<1>8. ASSUME NoTwice(s), NoTwice(t), IdsOf(s) \cap IdsOf(t) = {},
             NEW i \in DOMAIN st, NEW j \in DOMAIN st, st[i].id = st[j].id
      PROVE  i = j
  <2>1. CASE i \in DOMAIN s /\ st[i] = s[i] /\ j \in DOMAIN s /\ st[j] = s[j]
    BY <2>1, <1>8 DEF NoTwice
  <2>2. CASE /\ i - Len(s) \in DOMAIN t /\ st[i] = t[i - Len(s)] /\ i \in Nat
             /\ j - Len(s) \in DOMAIN t /\ st[j] = t[j - Len(s)] /\ j \in Nat
    <3>1. i - Len(s) = j - Len(s)
      BY <2>2, <1>8 DEF NoTwice
    <3> QED
      BY <3>1, <2>2, <1>1
  <2>3. CASE i \in DOMAIN s /\ st[i] = s[i] /\ j - Len(s) \in DOMAIN t /\ st[j] = t[j - Len(s)]
    <3>1. st[i].id \in IdsOf(s) /\ st[j].id \in IdsOf(t)
      BY <2>3 DEF IdsOf
    <3> QED
      BY <3>1, <1>8
  <2>4. CASE j \in DOMAIN s /\ st[j] = s[j] /\ i - Len(s) \in DOMAIN t /\ st[i] = t[i - Len(s)]
    <3>1. st[j].id \in IdsOf(s) /\ st[i].id \in IdsOf(t)
      BY <2>4 DEF IdsOf
    <3> QED
      BY <3>1, <1>8
  <2> QED
    BY <1>6, <2>1, <2>2, <2>3, <2>4
<1>9. NoTwice(s) /\ NoTwice(t) /\ IdsOf(s) \cap IdsOf(t) = {} => NoTwice(st)
  BY <1>8 DEF NoTwice
<1>10. DOMAIN s \subseteq DOMAIN st /\ \A i \in DOMAIN s : st[i] = s[i]
  BY <1>4
<1>11. \A i \in DOMAIN t : \E j \in DOMAIN st : st[j] = t[i]
  BY <1>5
<1> QED
  BY <1>2, <1>7, <1>9, <1>10, <1>11 DEF st

\* Every favorite is in items, with its star: in the first, the worker's too.
AllStarred(items) ==
    \A id \in Favorites : \E i \in DOMAIN items : items[i].id = id /\ items[i].fav
AllShown(items) ==
    \A id \in Favorites : \E i \in DOMAIN items :
        items[i].id = id /\ (items[i].fav \/ id = Worker)

\* A merge keeps the old list as it is and adds what is new to it, once.
LEMMA MergeProperties ==
    ASSUME NEW old \in Seq(Item), NEW new \in Seq(Item), NoTwice(old), NoTwice(new)
    PROVE  /\ Merge(old, new) \in Seq(Item) /\ NoTwice(Merge(old, new))
           /\ IdsOf(Merge(old, new)) = IdsOf(old) \cup IdsOf(new)
           /\ \A i \in DOMAIN old : i \in DOMAIN Merge(old, new) /\ Merge(old, new)[i] = old[i]
           /\ \A j \in DOMAIN new : new[j].id \notin IdsOf(old) =>
                 \E i \in DOMAIN Merge(old, new) : Merge(old, new)[i] = new[j]
<1> DEFINE I == {i \in DOMAIN new : new[i].id \notin IdsOf(old)}
           more == Kept(new, I)
<1>1. I \in SUBSET DOMAIN new
  OBVIOUS
<1>2. \A i \in DOMAIN new : i \in I <=> new[i].id \notin IdsOf(old)
  OBVIOUS
<1>3. Merge(old, new) = old \o more
  BY DEF Merge
<1> HIDE DEF I
<1>4. /\ more \in Seq(Item) /\ NoTwice(more)
      /\ \A k \in DOMAIN more : \E i \in I : more[k] = new[i]
      /\ \A i \in I : \E k \in DOMAIN more : more[k] = new[i]
  BY <1>1, KeptItems
<1> HIDE DEF more
<1>5. IdsOf(more) = IdsOf(new) \ IdsOf(old)
  <2>1. ASSUME NEW k \in DOMAIN more PROVE more[k].id \in IdsOf(new) \ IdsOf(old)
    <3>1. PICK i \in I : more[k] = new[i]
      BY <1>4
    <3> QED
      BY <3>1, <1>1, <1>2 DEF IdsOf
  <2>2. ASSUME NEW i \in DOMAIN new, new[i].id \notin IdsOf(old) PROVE new[i].id \in IdsOf(more)
    <3>1. i \in I
      BY <1>2, <2>2
    <3>2. PICK k \in DOMAIN more : more[k] = new[i]
      BY <3>1, <1>4
    <3> QED
      BY <3>2 DEF IdsOf
  <2> QED
    BY <2>1, <2>2 DEF IdsOf
<1>6. IdsOf(old) \cap IdsOf(more) = {} /\ IdsOf(old) \cup IdsOf(more) = IdsOf(old) \cup IdsOf(new)
  BY <1>5
<1>7. /\ old \o more \in Seq(Item) /\ NoTwice(old \o more)
      /\ IdsOf(old \o more) = IdsOf(old) \cup IdsOf(new)
      /\ DOMAIN old \subseteq DOMAIN (old \o more)
      /\ \A i \in DOMAIN old : (old \o more)[i] = old[i]
      /\ \A i \in DOMAIN more : \E j \in DOMAIN (old \o more) : (old \o more)[j] = more[i]
  BY <1>4, <1>6, BehindEachOther
<1>8. ASSUME NEW j \in DOMAIN new, new[j].id \notin IdsOf(old)
      PROVE  \E i \in DOMAIN (old \o more) : (old \o more)[i] = new[j]
  <2>1. j \in I
    BY <1>2, <1>8
  <2>2. PICK k \in DOMAIN more : more[k] = new[j]
    BY <2>1, <1>4
  <2> QED
    BY <2>2, <1>7
<1> QED
  BY <1>3, <1>7, <1>8

\* As many items as identities
LEMMA NoTwiceCounts ==
    ASSUME NEW items \in Seq(Item), NoTwice(items)
    PROVE  Cardinality(IdsOf(items)) = Len(items)
<1> DEFINE idAt == [i \in 1 .. Len(items) |-> items[i].id]
<1>1. Len(items) \in Nat /\ DOMAIN items = 1 .. Len(items)
  BY LenProperties
<1>2. IdsOf(items) = {items[i].id : i \in 1 .. Len(items)}
  BY <1>1 DEF IdsOf
<1>3. idAt \in [1 .. Len(items) -> IdsOf(items)]
  BY <1>2
<1>4. \A i, j \in 1 .. Len(items) : idAt[i] = idAt[j] => i = j
  BY <1>1 DEF NoTwice
<1>5. \A id \in IdsOf(items) : \E i \in 1 .. Len(items) : idAt[i] = id
  BY <1>2
<1>6. DOMAIN idAt = 1 .. Len(items)
  OBVIOUS
<1> HIDE DEF idAt
<1>7. idAt \in Bijection(1 .. Len(items), IdsOf(items))
  BY <1>3, <1>4, <1>5, <1>6 DEF Bijection, Injection, Surjection, IsInjective
<1>8. ExistsBijection(1 .. Len(items), IdsOf(items))
  BY <1>7 DEF ExistsBijection
<1>9. IsFiniteSet(1 .. Len(items)) /\ Cardinality(1 .. Len(items)) = Len(items)
  BY <1>1, FS_Interval
<1> QED
  BY <1>8, <1>9, FS_Bijection

\* A list whose items change but for who they are
LEMMA SameProxies ==
    ASSUME NEW items \in Seq(Item), NEW fav,
           \A i \in DOMAIN items : fav[i] \in BOOLEAN
    PROVE  LET new == [i \in DOMAIN items |-> [items[i] EXCEPT !.fav = fav[i]]] IN
           /\ new \in Seq(Item) /\ DOMAIN new = DOMAIN items
           /\ IdsOf(new) = IdsOf(items)
           /\ NoTwice(items) => NoTwice(new)
           /\ \A i \in DOMAIN items : new[i].id = items[i].id /\ new[i].fav = fav[i]
<1> DEFINE new == [i \in DOMAIN items |-> [items[i] EXCEPT !.fav = fav[i]]]
<1>1. /\ Len(items) \in Nat /\ DOMAIN items = 1 .. Len(items)
      /\ \A i \in DOMAIN items : items[i] \in Item
  BY ItemFields
<1>2. ASSUME NEW i \in DOMAIN items
      PROVE  new[i] \in Item /\ new[i].id = items[i].id /\ new[i].fav = fav[i]
  <2>1. new[i] = [items[i] EXCEPT !.fav = fav[i]]
    OBVIOUS
  <2>2. items[i] \in Item /\ fav[i] \in BOOLEAN
    BY <1>1
  <2> HIDE DEF new
  <2> QED
    BY <2>1, <2>2 DEF Item
<1>3. DOMAIN new = DOMAIN items
  OBVIOUS
<1>4. new \in [1 .. Len(items) -> Item]
  BY <1>1, <1>2
<1> HIDE DEF new
<1>5. new \in Seq(Item)
  BY <1>4, <1>1
<1>6. IdsOf(new) = IdsOf(items)
  BY <1>2, <1>3 DEF IdsOf
<1>7. NoTwice(items) => NoTwice(new)
  BY <1>2, <1>3 DEF NoTwice
<1> QED
  BY <1>2, <1>3, <1>5, <1>6, <1>7 DEF new

-----------------------------------------------------------------------------
(* The invariant                                                           *)

\* What is known of the fetches: none has found a proxy twice.
FetchesInv ==
    /\ fetches \in Seq(Fetch) /\ Len(fetches) <= MaxFetches
    /\ \A f \in DOMAIN fetches : NoTwice(fetches[f].found)

\* Nobody is in a list twice, nor in the list a check began with, which is the
\* one it ends with.
OnceInv == NoTwice(proxies) /\ NoTwice(pool) /\ NoTwice(check) /\ FetchesInv

\* What is shown is in the preferences, but for what was taken from them; and what
\* was shown when they were last written is in their file.
Remembered == IdsOf(proxies) \subseteq IdsOf(pool) \cup Favorites \cup unfaved
DiskInv == /\ disk.pool \in Seq(Item) /\ disk.favs \subseteq Ids /\ NoTwice(disk.pool)
           /\ durable \subseteq IdsOf(disk.pool) \cup disk.favs \cup {Worker}

\* A check began with every favorite, starred, and with the favorites of now
\* unless it is excused.
ShownInv ==
    /\ Running /\ ~excused => AllShown(proxies)
    /\ check # <<>> /\ ~excused => AllStarred(check)

PInv == ListTypeOK /\ OnceInv /\ ShownInv /\ Remembered /\ DiskInv

\* getFavorites returns proxies, the worker's among them.
LEMMA FavoritesTypes ==
    ASSUME favs \subseteq Ids
    PROVE  Favorites \in SUBSET Ids /\ Worker \in Favorites
BY ProxyListAssumption DEF Favorites

\* The empty list is one of every kind.
LEMMA EmptyList ==
    /\ <<>> \in Seq(Item) /\ NoTwice(<<>>) /\ DOMAIN <<>> = {} /\ IdsOf(<<>>) = {}
    /\ <<>> \in Seq(Fetch)
<1>1. <<>> \in Seq(Item) /\ Len(<<>>) = 0 /\ <<>> \in Seq(Fetch)
  BY EmptySeq
<1>2. DOMAIN <<>> = 1 .. 0
  BY <1>1, LenProperties
<1> QED
  BY <1>1, <1>2 DEF NoTwice, IdsOf

\* The list a life begins with has every favorite once, starred.
LEMMA WithFavoritesProperties ==
    ASSUME NEW items \in Seq(Item), NoTwice(items), NEW starred \in SUBSET Ids
    PROVE  /\ WithFavorites(items, starred) \in Seq(Item) /\ NoTwice(WithFavorites(items, starred))
           /\ IdsOf(WithFavorites(items, starred)) = IdsOf(items) \cup starred
           /\ \A id \in starred : \E i \in DOMAIN WithFavorites(items, starred) :
                 /\ WithFavorites(items, starred)[i].id = id
                 /\ WithFavorites(items, starred)[i].fav
<1> DEFINE star == [i \in DOMAIN items |-> items[i].fav \/ items[i].id \in starred]
           marked == [i \in DOMAIN items |-> [items[i] EXCEPT !.fav = star[i]]]
           added == Items(starred, starred)
           all == Merge(marked, added)
<1>1. \A i \in DOMAIN items : star[i] \in BOOLEAN
  <2>1. \A i \in DOMAIN items : items[i].fav \in BOOLEAN
    BY ItemFields
  <2> QED
    BY <2>1
<1>2. \A i \in DOMAIN items : items[i].id \in starred => star[i] = TRUE
  OBVIOUS
<1>3. WithFavorites(items, starred) = all
  BY DEF WithFavorites
<1> HIDE DEF star
<1>4. /\ marked \in Seq(Item) /\ DOMAIN marked = DOMAIN items
      /\ IdsOf(marked) = IdsOf(items) /\ NoTwice(marked)
      /\ \A i \in DOMAIN items : marked[i].id = items[i].id /\ marked[i].fav = star[i]
  BY <1>1, SameProxies
<1> HIDE DEF marked
<1>5. /\ added \in Seq(Item) /\ IdsOf(added) = starred /\ NoTwice(added)
      /\ \A i \in DOMAIN added : added[i].fav = (added[i].id \in starred)
  BY ItemsProperties
<1> HIDE DEF added
<1>6. /\ all \in Seq(Item) /\ NoTwice(all) /\ IdsOf(all) = IdsOf(items) \cup starred
      /\ \A i \in DOMAIN marked : i \in DOMAIN all /\ all[i] = marked[i]
      /\ \A j \in DOMAIN added : added[j].id \notin IdsOf(marked) =>
            \E i \in DOMAIN all : all[i] = added[j]
  BY <1>4, <1>5, MergeProperties
<1> HIDE DEF all
<1>7. ASSUME NEW id \in starred
      PROVE  \E i \in DOMAIN all : all[i].id = id /\ all[i].fav
  <2>1. CASE id \in IdsOf(items)
    <3>1. PICK i \in DOMAIN items : items[i].id = id
      BY <2>1 DEF IdsOf
    <3>2. marked[i].id = id /\ marked[i].fav = TRUE
      BY <3>1, <1>2, <1>4
    <3>3. i \in DOMAIN all /\ all[i].id = id /\ all[i].fav
      BY <3>2, <1>4, <1>6
    <3> QED
      BY <3>3
  <2>2. CASE id \notin IdsOf(items)
    <3>1. PICK j \in DOMAIN added : added[j].id = id
      BY <1>5 DEF IdsOf
    <3>2. PICK i \in DOMAIN all : all[i] = added[j]
      BY <3>1, <2>2, <1>4, <1>6
    <3>3. added[j].fav
      BY <3>1, <1>5
    <3> QED
      BY <3>1, <3>2, <3>3
  <2> QED
    BY <2>1, <2>2
<1> QED
  BY <1>3, <1>6, <1>7

\* Before the first start the lists are empty.
LEMMA ListStart == ListInit => PInv
<1> SUFFICES ASSUME ListInit PROVE PInv
  OBVIOUS
<1>1. ListTypeOK
  <2>1. Len(fetches) = 0 /\ fetches \in Seq(Fetch)
    BY EmptySeq, EmptyList DEF ListInit
  <2>2. Len(fetches) <= MaxFetches /\ lives \in 0 .. MaxLives
    BY <2>1, ProxyListAssumption DEF ListInit
  <2>3. proxies \in Seq(Item) /\ pool \in Seq(Item) /\ check \in Seq(Item)
    BY EmptyList DEF ListInit
  <2>4. disk \in [favs : SUBSET Ids, pool : Seq(Item)]
    BY EmptyList DEF ListInit
  <2> QED
    BY <2>1, <2>2, <2>3, <2>4 DEF ListInit, ListTypeOK
<1>2. OnceInv
  BY <1>1, EmptyList DEF ListInit, ListTypeOK, OnceInv, FetchesInv
<1>3. Remembered /\ DiskInv
  BY EmptyList DEF ListInit, Remembered, DiskInv
<1> QED
  BY <1>1, <1>2, <1>3 DEF ListInit, PInv, ShownInv, Running

\* A fetch that is launched has found nothing yet.
LEMMA LaunchInv ==
    ASSUME NEW before \in Seq(Fetch), Len(before) <= MaxFetches, loading \in BOOLEAN,
           \A f \in DOMAIN before : NoTwice(before[f].found), LaunchFetch(before)
    PROVE  FetchesInv' /\ loading' \in BOOLEAN
<1> DEFINE new == [at |-> "network", found |-> <<>>]
<1>1. CASE Len(before) < MaxFetches
  <2>1. fetches' = Append(before, new) /\ loading' = TRUE
    BY <1>1 DEF LaunchFetch
  <2>2. new \in Fetch /\ new.found = <<>>
    BY DEF Fetch
  <2> HIDE DEF new
  <2>3. /\ fetches' \in Seq(Fetch) /\ Len(fetches') = Len(before) + 1
        /\ \A i \in 1 .. Len(before) : fetches'[i] = before[i]
        /\ fetches'[Len(before) + 1] = new
    BY <2>1, <2>2, AppendProperties
  <2>4. Len(before) \in Nat /\ DOMAIN before = 1 .. Len(before) /\ DOMAIN fetches' = 1 .. Len(before) + 1
    BY <2>3, LenProperties
  <2>5. Len(fetches') <= MaxFetches
    BY <1>1, <2>3, <2>4, ProxyListAssumption
  <2>6. ASSUME NEW f \in DOMAIN fetches' PROVE NoTwice(fetches'[f].found)
    <3>1. CASE f = Len(before) + 1
      BY <3>1, <2>2, <2>3, EmptyList
    <3>2. CASE f # Len(before) + 1
      <4>1. f \in 1 .. Len(before)
        BY <3>2, <2>4
      <4> QED
        BY <4>1, <2>3, <2>4
    <3> QED
      BY <3>1, <3>2
  <2> QED
    BY <2>1, <2>3, <2>5, <2>6 DEF FetchesInv
<1>2. CASE ~(Len(before) < MaxFetches)
  BY <1>2 DEF LaunchFetch, FetchesInv
<1> QED
  BY <1>1, <1>2

-----------------------------------------------------------------------------
(* The steps                                                               *)

\* A start makes the list of the pool and the favorites, and takes it for a check.
LEMMA StartStep ==
    ASSUME PInv, StartProcess
    PROVE  PInv'
<1> DEFINE new == [at |-> "network", found |-> <<>>]
<1>1. /\ disk.pool \in Seq(Item) /\ NoTwice(disk.pool) /\ disk.favs \cup {Worker} \in SUBSET Ids
      /\ favs' = disk.favs /\ pool' = disk.pool /\ Favorites' = disk.favs \cup {Worker}
      /\ proxies' = WithFavorites(disk.pool, disk.favs \cup {Worker})
      /\ excused' = FALSE /\ unfaved' = {} /\ disk' = disk /\ durable' = IdsOf(proxies')
  <2>1. disk.pool \in Seq(Item) /\ NoTwice(disk.pool) /\ disk.favs \cup {Worker} \in SUBSET Ids
    BY ProxyListAssumption DEF PInv, DiskInv
  <2>2. /\ favs' = disk.favs /\ pool' = disk.pool
        /\ proxies' = WithFavorites(disk.pool, disk.favs \cup {Worker})
        /\ excused' = FALSE /\ unfaved' = {} /\ disk' = disk /\ durable' = IdsOf(proxies')
    BY DEF StartProcess
  <2>3. Favorites' = disk.favs \cup {Worker}
    BY <2>2 DEF Favorites
  <2> QED
    BY <2>1, <2>2, <2>3
<1>2. /\ proxies' \in Seq(Item) /\ NoTwice(proxies')
      /\ IdsOf(proxies') = IdsOf(disk.pool) \cup disk.favs \cup {Worker}
      /\ \A id \in Favorites' : \E i \in DOMAIN proxies' : proxies'[i].id = id /\ proxies'[i].fav
  <2> DEFINE starred == disk.favs \cup {Worker}
  <2>1. proxies' = WithFavorites(disk.pool, starred) /\ Favorites' = starred /\ starred \in SUBSET Ids
    BY <1>1
  <2> HIDE DEF starred
  <2>2. /\ proxies' \in Seq(Item) /\ NoTwice(proxies')
        /\ IdsOf(proxies') = IdsOf(disk.pool) \cup starred
        /\ \A id \in starred : \E i \in DOMAIN proxies' : proxies'[i].id = id /\ proxies'[i].fav
    BY <1>1, <2>1, WithFavoritesProperties
  <2> QED
    BY <2>1, <2>2 DEF starred
<1>3. check' = proxies' \/ check' = <<>>
  BY DEF StartProcess
<1>4. check' \in Seq(Item) /\ NoTwice(check')
  BY <1>2, <1>3, EmptyList
<1>5. FetchesInv' /\ loading' \in BOOLEAN
  <2>1. CASE fetches' = <<>> /\ loading' = FALSE
    <3>1. fetches' \in Seq(Fetch) /\ Len(fetches') = 0 /\ DOMAIN fetches' = {}
      BY <2>1, EmptyList, EmptySeq
    <3>2. Len(fetches') <= MaxFetches
      BY <3>1, ProxyListAssumption
    <3>3. \A f \in DOMAIN fetches' : NoTwice(fetches'[f].found)
      BY <3>1
    <3> QED
      BY <2>1, <3>1, <3>2, <3>3 DEF FetchesInv
  <2>2. CASE fetches' = <<new>> /\ loading' = TRUE
    <3>1. new \in Fetch /\ new.found = <<>>
      BY DEF Fetch
    <3> HIDE DEF new
    <3>2. fetches' \in Seq(Fetch) /\ Len(fetches') = 1 /\ DOMAIN fetches' = {1} /\ fetches'[1] = new
      BY <2>2, <3>1
    <3> QED
      BY <2>2, <3>1, <3>2, EmptyList, ProxyListAssumption DEF FetchesInv
  <2> QED
    BY <2>1, <2>2 DEF StartProcess
<1>6. ListTypeOK'
  <2>1. lives' \in 0 .. MaxLives
    BY ProxyListAssumption DEF PInv, ListTypeOK, StartProcess
  <2>2. durable' \subseteq Ids
    BY <1>1, <1>2, ItemFields
  <2> QED
    BY <1>1, <1>2, <1>4, <1>5, <2>1, <2>2 DEF PInv, ListTypeOK, FetchesInv
<1>7. OnceInv'
  BY <1>1, <1>2, <1>4, <1>5 DEF OnceInv
<1>8. ShownInv'
  BY <1>2, <1>3 DEF ShownInv, AllShown, AllStarred
<1>9. Remembered' /\ DiskInv'
  BY <1>1, <1>2 DEF PInv, Remembered, DiskInv
<1> QED
  BY <1>6, <1>7, <1>8, <1>9 DEF PInv

\* A write puts on disk what the preferences are, and with them all that is shown.
LEMMA PersistStep ==
    ASSUME PInv, Persist
    PROVE  PInv'
<1>1. /\ disk' = [favs |-> favs, pool |-> pool] /\ durable' = IdsOf(proxies) \ unfaved
      /\ UNCHANGED <<proxies, favs, pool, check, fetches, lives, loading, excused, unfaved>>
  BY DEF Persist, preferences
<1>2. disk'.favs = favs /\ disk'.pool = pool
  BY <1>1
<1>3. ListTypeOK'
  <2>1. /\ proxies \in Seq(Item) /\ pool \in Seq(Item) /\ favs \subseteq Ids
    BY DEF PInv, ListTypeOK
  <2>2. durable' \subseteq Ids /\ disk' \in [favs : SUBSET Ids, pool : Seq(Item)]
    BY <1>1, <2>1, ItemFields
  <2> QED
    BY <1>1, <2>2 DEF PInv, ListTypeOK
<1>4. OnceInv' /\ ShownInv' /\ Remembered'
  BY <1>1 DEF PInv, OnceInv, FetchesInv, ShownInv, AllShown, AllStarred, Remembered, Favorites, Running
<1>5. DiskInv'
  BY <1>1, <1>2 DEF PInv, ListTypeOK, OnceInv, Remembered, DiskInv, Favorites
<1> QED
  BY <1>3, <1>4, <1>5 DEF PInv

\* The file stays as it is.
LEMMA FileKept ==
    ASSUME PInv, UNCHANGED file
    PROVE  /\ durable' \subseteq Ids /\ disk' \in [favs : SUBSET Ids, pool : Seq(Item)]
           /\ DiskInv'
<1>1. disk' = disk /\ durable' = durable
  BY DEF file
<1> QED
  BY <1>1 DEF PInv, ListTypeOK, DiskInv

\* A toggled star changes no identity, in the list and in the preferences alike.
LEMMA ToggleStep ==
    ASSUME PInv, NEW p \in Ids, ToggleFavorite(p)
    PROVE  PInv'
<1> DEFINE off == p \in Favorites
           star == [i \in DOMAIN proxies |-> IF proxies[i].id = p THEN ~off ELSE proxies[i].fav]
           marked == [i \in DOMAIN proxies |-> [proxies[i] EXCEPT !.fav = star[i]]]
<1>1. /\ proxies \in Seq(Item) /\ NoTwice(proxies) /\ favs \subseteq Ids /\ unfaved \subseteq Ids
      /\ Running /\ p \in IdsOf(proxies)
      /\ favs' = IF off THEN Favorites \ {p} ELSE Favorites \cup {p}
      /\ unfaved' = IF off THEN unfaved \cup ({p} \ IdsOf(pool)) ELSE unfaved \ {p}
      /\ excused' = (excused \/ check # <<>>)
      /\ UNCHANGED <<pool, check, fetches, lives, loading>> /\ UNCHANGED file
  BY DEF PInv, ListTypeOK, OnceInv, ToggleFavorite
<1>2. \A i \in DOMAIN proxies : proxies[i] \in Item /\ proxies[i].fav \in BOOLEAN
  BY <1>1, ItemFields
<1>3. proxies' = marked
  <2>1. proxies' = [i \in DOMAIN proxies |->
                       IF proxies[i].id = p THEN [proxies[i] EXCEPT !.fav = ~off] ELSE proxies[i]]
    BY DEF ToggleFavorite
  <2>2. ASSUME NEW i \in DOMAIN proxies
        PROVE  [proxies[i] EXCEPT !.fav = star[i]]
                  = IF proxies[i].id = p THEN [proxies[i] EXCEPT !.fav = ~off] ELSE proxies[i]
    <3>1. CASE proxies[i].id = p
      BY <3>1
    <3>2. CASE proxies[i].id # p
      <4>1. star[i] = proxies[i].fav
        BY <3>2
      <4>2. [proxies[i] EXCEPT !.fav = proxies[i].fav] = proxies[i]
        BY <1>2 DEF Item
      <4> QED
        BY <3>2, <4>1, <4>2
    <3> QED
      BY <3>1, <3>2
  <2> QED
    BY <2>1, <2>2
<1>4. \A i \in DOMAIN proxies : star[i] \in BOOLEAN
  BY <1>2
<1>5. \A i \in DOMAIN proxies : star[i] = IF proxies[i].id = p THEN ~off ELSE proxies[i].fav
  OBVIOUS
<1> HIDE DEF star
<1>6. /\ proxies' \in Seq(Item) /\ DOMAIN proxies' = DOMAIN proxies
      /\ IdsOf(proxies') = IdsOf(proxies) /\ NoTwice(proxies')
      /\ \A i \in DOMAIN proxies : proxies'[i].id = proxies[i].id /\ proxies'[i].fav = star[i]
  BY <1>1, <1>3, <1>4, SameProxies
<1>7. Favorites' = IF off THEN (Favorites \ {p}) \cup {Worker} ELSE Favorites \cup {p}
  BY <1>1 DEF Favorites
<1>8. ListTypeOK'
  <2>1. favs' \subseteq Ids /\ unfaved' \subseteq Ids
    BY <1>1, FavoritesTypes
  <2> QED
    BY <1>1, <1>6, <2>1, FileKept DEF PInv, ListTypeOK
<1>9. OnceInv'
  BY <1>1, <1>6 DEF PInv, OnceInv, FetchesInv
<1>10. ShownInv'
  <2>1. ASSUME ~excused', NEW id \in Favorites'
        PROVE  \E i \in DOMAIN proxies' : proxies'[i].id = id /\ (proxies'[i].fav \/ id = Worker)
    <3>1. AllShown(proxies)
      BY <1>1, <2>1 DEF PInv, ShownInv
    <3>2. CASE id = p
      <4>1. PICK i \in DOMAIN proxies : proxies[i].id = p
        BY <1>1 DEF IdsOf
      <4>2. CASE off
        BY <4>1, <4>2, <3>2, <2>1, <1>6, <1>7
      <4>3. CASE ~off
        <5>1. star[i] = TRUE
          BY <4>1, <4>3, <1>5
        <5> QED
          BY <4>1, <5>1, <3>2, <1>6
      <4> QED
        BY <4>2, <4>3
    <3>3. CASE id # p
      <4>1. id \in Favorites
        BY <3>3, <2>1, <1>7, FavoritesTypes, <1>1
      <4>2. PICK i \in DOMAIN proxies : proxies[i].id = id /\ (proxies[i].fav \/ id = Worker)
        BY <4>1, <3>1 DEF AllShown
      <4>3. star[i] = proxies[i].fav
        BY <4>2, <3>3, <1>5
      <4>4. proxies'[i].id = id /\ proxies'[i].fav = proxies[i].fav /\ i \in DOMAIN proxies'
        BY <4>2, <4>3, <1>6
      <4> QED
        BY <4>2, <4>4
    <3> QED
      BY <3>2, <3>3
  <2>2. check' # <<>> => excused'
    BY <1>1
  <2> QED
    BY <2>1, <2>2 DEF ShownInv, AllShown
<1>11. Remembered'
  <2>1. IdsOf(pool) \cup Favorites \cup unfaved \subseteq IdsOf(pool) \cup Favorites' \cup unfaved'
    BY <1>1, <1>7
  <2>2. IdsOf(pool') = IdsOf(pool)
    BY <1>1
  <2> QED
    BY <1>6, <2>1, <2>2 DEF PInv, Remembered
<1> QED
  BY <1>1, <1>8, <1>9, <1>10, <1>11, FileKept DEF PInv

\* A proxy added by hand is one that is not in the list, or changes no list.
LEMMA AddStep ==
    ASSUME PInv, NEW p \in Ids, AddCustomProxy(p)
    PROVE  PInv'
<1> DEFINE item == [id |-> p, fav |-> TRUE]
           first == <<item>>
<1>1. /\ proxies \in Seq(Item) /\ NoTwice(proxies) /\ favs \subseteq Ids /\ Running
      /\ favs' = IF p \in Favorites THEN favs ELSE Favorites \cup {p}
      /\ proxies' = IF p \in IdsOf(proxies) THEN proxies ELSE first \o proxies
      /\ excused' = (excused \/ check # <<>> \/ p \in IdsOf(proxies))
      /\ unfaved' = unfaved \ {p}
      /\ UNCHANGED <<pool, check, fetches, lives, loading>> /\ UNCHANGED file
  BY DEF PInv, ListTypeOK, OnceInv, AddCustomProxy
<1>2. item \in Item /\ item.id = p /\ item.fav
  BY MakeItem
<1> HIDE DEF item
<1>3. /\ first \in Seq(Item) /\ NoTwice(first) /\ IdsOf(first) = {p}
      /\ 1 \in DOMAIN first /\ first[1] = item
  <2>1. first \in Seq(Item) /\ DOMAIN first = {1} /\ first[1] = item
    BY <1>2
  <2> HIDE DEF first
  <2> QED
    BY <2>1, <1>2 DEF NoTwice, IdsOf
<1> HIDE DEF first
<1>4. p \notin IdsOf(proxies) =>
         /\ proxies' \in Seq(Item) /\ NoTwice(proxies') /\ IdsOf(proxies') = {p} \cup IdsOf(proxies)
         /\ \A i \in DOMAIN first : i \in DOMAIN proxies' /\ proxies'[i] = first[i]
         /\ \A i \in DOMAIN proxies : \E j \in DOMAIN proxies' : proxies'[j] = proxies[i]
  <2>1. p \notin IdsOf(proxies) => proxies' = first \o proxies /\ IdsOf(first) \cap IdsOf(proxies) = {}
    BY <1>1, <1>3
  <2> QED
    BY <2>1, <1>1, <1>3, BehindEachOther
<1>5. Favorites' = Favorites \cup {p}
  BY <1>1 DEF Favorites
<1>6. proxies' \in Seq(Item) /\ NoTwice(proxies') /\ IdsOf(proxies') = {p} \cup IdsOf(proxies)
  BY <1>1, <1>4
<1>7. ListTypeOK'
  <2>1. favs' \subseteq Ids
    BY <1>1, FavoritesTypes
  <2> QED
    BY <1>1, <1>6, <2>1, FileKept DEF PInv, ListTypeOK
<1>8. OnceInv'
  BY <1>1, <1>6 DEF PInv, OnceInv, FetchesInv
<1>9. ShownInv'
  <2>1. ASSUME ~excused', NEW id \in Favorites'
        PROVE  \E i \in DOMAIN proxies' : proxies'[i].id = id /\ (proxies'[i].fav \/ id = Worker)
    <3>1. AllShown(proxies) /\ p \notin IdsOf(proxies)
      BY <1>1, <2>1 DEF PInv, ShownInv
    <3>2. CASE id = p
      BY <3>1, <3>2, <1>2, <1>3, <1>4
    <3>3. CASE id # p
      <4>1. id \in Favorites
        BY <3>3, <1>5
      <4>2. PICK i \in DOMAIN proxies : proxies[i].id = id /\ (proxies[i].fav \/ id = Worker)
        BY <4>1, <3>1 DEF AllShown
      <4>3. PICK j \in DOMAIN proxies' : proxies'[j] = proxies[i]
        BY <3>1, <1>4
      <4> QED
        BY <4>2, <4>3
    <3> QED
      BY <3>2, <3>3
  <2>2. check' # <<>> => excused'
    BY <1>1
  <2> QED
    BY <2>1, <2>2 DEF ShownInv, AllShown
<1>10. Remembered'
  BY <1>1, <1>5, <1>6 DEF PInv, Remembered
<1> QED
  BY <1>1, <1>7, <1>8, <1>9, <1>10, FileKept DEF PInv

\* The steps that leave the lists and the favorites as they are, but may end a check
LEMMA FetchesStep ==
    ASSUME PInv, FetchesInv', loading' \in BOOLEAN,
           UNCHANGED <<proxies, preferences, lives, excused, unfaved, file>>, check' \in {check, <<>>}
    PROVE  PInv'
<1>0. check' \in Seq(Item) /\ NoTwice(check')
  BY EmptyList DEF PInv, ListTypeOK, OnceInv
<1>1. ListTypeOK'
  BY <1>0, FileKept DEF PInv, ListTypeOK, FetchesInv, preferences
<1>2. OnceInv'
  BY <1>0 DEF PInv, OnceInv, preferences
<1>3. ShownInv'
  BY DEF PInv, ShownInv, AllShown, AllStarred, Favorites, Running, preferences
<1>4. Remembered'
  BY DEF PInv, Remembered, Favorites, preferences
<1> QED
  BY <1>1, <1>2, <1>3, <1>4, FileKept DEF PInv

\* A check that throws ends, and that is all.
LEMMA CheckFailsStep ==
    ASSUME PInv, CheckFails
    PROVE  PInv'
<1>1. FetchesInv' /\ loading' \in BOOLEAN
  BY DEF PInv, ListTypeOK, OnceInv, FetchesInv, CheckFails
<1> QED
  BY <1>1, FetchesStep DEF CheckFails

\* A refresh changes the fetches only.
LEMMA RefreshStep ==
    ASSUME PInv, Refresh
    PROVE  PInv'
<1>1. FetchesInv' /\ loading' \in BOOLEAN
  BY LaunchInv DEF PInv, ListTypeOK, OnceInv, FetchesInv, Refresh
<1> QED
  BY <1>1, FetchesStep DEF Refresh

\* A check keeps the favorites of the list it began with, and nobody twice.
LEMMA CheckEndsStep ==
    ASSUME PInv, NEW answered \in SUBSET Ids, CheckEnds(answered)
    PROVE  PInv'
<1> DEFINE I == {i \in DOMAIN check : check[i].fav \/ check[i].id \in answered}
<1>1. /\ check \in Seq(Item) /\ NoTwice(check) /\ check # <<>> /\ check' = <<>>
      /\ proxies' = Kept(check, I) /\ pool' = proxies'
      /\ favs' = favs /\ lives' = lives /\ excused' = excused /\ unfaved' = {}
      /\ Favorites' = Favorites /\ UNCHANGED file
  BY DEF PInv, ListTypeOK, OnceInv, CheckEnds, Favorites
<1>2. I \in SUBSET DOMAIN check /\ \A i \in DOMAIN check : check[i].fav => i \in I
  OBVIOUS
<1> HIDE DEF I
<1>3. /\ proxies' \in Seq(Item) /\ NoTwice(proxies')
      /\ \A i \in I : \E k \in DOMAIN proxies' : proxies'[k] = check[i]
  BY <1>1, <1>2, KeptItems
<1>4. FetchesInv' /\ loading' \in BOOLEAN
  <2>1. CASE LaunchFetch(fetches)
    BY <2>1, LaunchInv DEF PInv, ListTypeOK, OnceInv, FetchesInv
  <2>2. CASE UNCHANGED <<fetches, loading>>
    BY <2>2 DEF PInv, ListTypeOK, OnceInv, FetchesInv
  <2> QED
    BY <2>1, <2>2 DEF CheckEnds
<1>5. ListTypeOK'
  BY <1>1, <1>3, <1>4, EmptyList, FileKept DEF PInv, ListTypeOK, FetchesInv
<1>6. OnceInv'
  BY <1>1, <1>3, <1>4, EmptyList DEF OnceInv
<1>7. ShownInv'
  <2>1. ASSUME ~excused', NEW id \in Favorites'
        PROVE  \E k \in DOMAIN proxies' : proxies'[k].id = id /\ (proxies'[k].fav \/ id = Worker)
    <3>1. AllStarred(check)
      BY <1>1, <2>1 DEF PInv, ShownInv
    <3>2. PICK i \in DOMAIN check : check[i].id = id /\ check[i].fav
      BY <3>1, <1>1 DEF AllStarred
    <3>3. PICK k \in DOMAIN proxies' : proxies'[k] = check[i]
      BY <3>2, <1>2, <1>3
    <3> QED
      BY <3>2, <3>3
  <2> QED
    BY <2>1, <1>1 DEF ShownInv, AllShown
<1>8. Remembered'
  BY <1>1 DEF Remembered
<1> QED
  BY <1>1, <1>5, <1>6, <1>7, <1>8, FileKept DEF PInv

\* A fetch f becomes new, and the others are as before.
LEMMA ReplaceFetch ==
    ASSUME PInv, NEW f \in DOMAIN fetches, NEW new \in Fetch, NoTwice(new.found),
           fetches' = [fetches EXCEPT ![f] = new]
    PROVE  FetchesInv'
<1>1. /\ fetches \in Seq(Fetch) /\ Len(fetches) <= MaxFetches
      /\ \A g \in DOMAIN fetches : NoTwice(fetches[g].found)
  BY DEF PInv, OnceInv, FetchesInv
<1>2. f \in 1 .. Len(fetches) /\ DOMAIN fetches = 1 .. Len(fetches)
  BY <1>1, LenProperties
<1>3. /\ fetches' \in Seq(Fetch) /\ Len(fetches') = Len(fetches)
      /\ \A g \in 1 .. Len(fetches) : fetches'[g] = IF g = f THEN new ELSE fetches[g]
  BY <1>1, <1>2, ExceptSeq
<1>4. DOMAIN fetches' = DOMAIN fetches
  BY <1>2, <1>3, LenProperties
<1>5. ASSUME NEW g \in DOMAIN fetches' PROVE NoTwice(fetches'[g].found)
  BY <1>1, <1>2, <1>3, <1>4
<1> QED
  BY <1>1, <1>3, <1>5 DEF FetchesInv

\* What a fetch finds has no proxy twice: the favorites are those not scraped.
LEMMA FetchFindsStep ==
    ASSUME PInv, NEW f \in DOMAIN fetches, NEW scraped \in SUBSET Ids, FetchFinds(f, scraped)
    PROVE  PInv'
<1> DEFINE s == Items(Favorites \ scraped, Favorites)
           t == Items(scraped, Favorites)
           new == [at |-> "found", found |-> s \o t]
<1>1. Favorites \ scraped \in SUBSET Ids
  BY FavoritesTypes DEF PInv, ListTypeOK
<1>2. s \in Seq(Item) /\ NoTwice(s) /\ IdsOf(s) = Favorites \ scraped
  BY <1>1, ItemsProperties
<1>3. t \in Seq(Item) /\ NoTwice(t) /\ IdsOf(t) = scraped
  BY ItemsProperties
<1>4. fetches' = [fetches EXCEPT ![f] = new]
  BY DEF FetchFinds
<1> HIDE DEF s, t
<1>5. s \o t \in Seq(Item) /\ NoTwice(s \o t)
  <2>1. IdsOf(s) \cap IdsOf(t) = {}
    BY <1>2, <1>3
  <2> QED
    BY <2>1, <1>2, <1>3, BehindEachOther
<1>6. new \in Fetch /\ new.found = s \o t
  BY <1>5 DEF Fetch
<1> HIDE DEF new
<1>7. FetchesInv'
  BY <1>4, <1>5, <1>6, ReplaceFetch
<1> QED
  BY <1>7, FetchesStep DEF FetchFinds, PInv, ListTypeOK

\* A fetch that ends holds nothing any more.
LEMMA EndedInv ==
    ASSUME PInv, NEW f \in DOMAIN fetches, Ended(f)
    PROVE  FetchesInv' /\ loading' \in BOOLEAN
<1> DEFINE new == [at |-> "ended", found |-> <<>>]
<1>1. new \in Fetch /\ new.found = <<>>
  BY DEF Fetch
<1>2. fetches' = [fetches EXCEPT ![f] = new] /\ loading' = FALSE
  BY DEF Ended
<1> HIDE DEF new
<1> QED
  BY <1>1, <1>2, EmptyList, ReplaceFetch

\* A fetch that fails changes itself only.
LEMMA FetchFailsStep ==
    ASSUME PInv, NEW f \in DOMAIN fetches, FetchFails(f)
    PROVE  PInv'
BY EndedInv, FetchesStep DEF FetchFails

\* A merge adds behind the list, and a limit that cuts it is an excuse.
LEMMA FetchEndsStep ==
    ASSUME PInv, NEW f \in DOMAIN fetches, FetchEnds(f)
    PROVE  PInv'
<1> DEFINE found == fetches[f].found
           all == Merge(proxies, found)
           n == IF Len(all) < Limit THEN Len(all) ELSE Limit
<1>1. /\ proxies \in Seq(Item) /\ NoTwice(proxies)
      /\ proxies' = SubSeq(all, 1, n) /\ pool' = proxies'
      /\ excused' = (excused \/ check # <<>> \/ Len(all) > Limit)
      /\ favs' = favs /\ check' = check /\ lives' = lives /\ unfaved' = {}
      /\ Favorites' = Favorites /\ fetches[f].at = "found" /\ UNCHANGED file
  BY DEF PInv, ListTypeOK, OnceInv, FetchEnds, Merged, Saved, Favorites
<1>2. found \in Seq(Item) /\ NoTwice(found)
  <2>1. fetches \in Seq(Fetch) /\ NoTwice(found)
    BY DEF PInv, OnceInv, FetchesInv
  <2>2. fetches[f] \in Fetch
    BY <2>1, LenProperties
  <2>3. fetches[f] \in [at : {"found"}, found : Seq(Item)]
    BY <2>2, <1>1 DEF Fetch
  <2> QED
    BY <2>1, <2>3
<1> HIDE DEF found
<1>3. /\ all \in Seq(Item) /\ NoTwice(all)
      /\ \A i \in DOMAIN proxies : i \in DOMAIN all /\ all[i] = proxies[i]
  BY <1>1, <1>2, MergeProperties
<1> HIDE DEF all
<1>4. Len(all) \in Nat /\ DOMAIN all = 1 .. Len(all) /\ n \in Nat /\ n <= Len(all) /\ Limit \in Nat
  BY <1>3, LenProperties, ProxyListAssumption
<1>5. ASSUME ~(Len(all) > Limit) PROVE n = Len(all)
  <2>1. \A a, b \in Nat : ~(a > b) => a < b \/ a = b
    OBVIOUS
  <2>2. Len(all) < Limit \/ Len(all) = Limit
    BY <2>1, <1>4, <1>5, Zenon
  <2> QED
    BY <2>2
<1> HIDE DEF n
<1>6. /\ proxies' \in Seq(Item) /\ DOMAIN proxies' = 1 .. n
      /\ \A i \in 1 .. n : i \in DOMAIN all /\ proxies'[i] = all[i]
  <2>1. \A i \in 1 .. n : i \in DOMAIN all /\ all[i] \in Item
    BY <1>3, <1>4, LenProperties
  <2>2. /\ proxies' \in Seq(Item) /\ Len(proxies') = IF 1 <= n THEN n - 1 + 1 ELSE 0
        /\ \A i \in 1 .. n - 1 + 1 : proxies'[i] = all[1 + i - 1]
    BY <2>1, <1>1, <1>4, SubSeqProperties
  <2>3. Len(proxies') = n /\ DOMAIN proxies' = 1 .. Len(proxies')
    BY <2>2, <1>4, LenProperties
  <2>4. \A i \in 1 .. n : i \in 1 .. n - 1 + 1 /\ 1 + i - 1 = i
    BY <1>4
  <2> QED
    BY <2>1, <2>2, <2>3, <2>4
<1>7. NoTwice(proxies')
  BY <1>3, <1>6 DEF NoTwice
<1>8. FetchesInv' /\ loading' \in BOOLEAN
  BY EndedInv DEF FetchEnds
<1>9. ListTypeOK'
  BY <1>1, <1>6, <1>8, FileKept DEF PInv, ListTypeOK, FetchesInv
<1>10. OnceInv'
  BY <1>1, <1>7, <1>8 DEF PInv, OnceInv
<1>11. ShownInv'
  <2>1. ASSUME Running', ~excused', NEW id \in Favorites'
        PROVE  \E i \in DOMAIN proxies' : proxies'[i].id = id /\ (proxies'[i].fav \/ id = Worker)
    <3>1. AllShown(proxies) /\ n = Len(all)
      BY <1>1, <1>5, <2>1 DEF PInv, ShownInv, Running
    <3>2. PICK i \in DOMAIN proxies : proxies[i].id = id /\ (proxies[i].fav \/ id = Worker)
      BY <3>1, <1>1 DEF AllShown
    <3>3. i \in DOMAIN proxies' /\ proxies'[i] = proxies[i]
      BY <3>1, <1>3, <1>4, <1>6
    <3> QED
      BY <3>2, <3>3
  <2>2. check' # <<>> => excused'
    BY <1>1
  <2> QED
    BY <2>1, <2>2 DEF ShownInv, AllShown
<1>12. Remembered'
  BY <1>1 DEF Remembered
<1> QED
  BY <1>1, <1>9, <1>10, <1>11, <1>12, FileKept DEF PInv

\* Every step of the process, the user and the coroutines keeps the invariant.
LEMMA ListStep == PInv /\ [ListNext]_listVars => PInv'
<1> SUFFICES ASSUME PInv, [ListNext]_listVars PROVE PInv'
  OBVIOUS
<1>1. CASE StartProcess
  BY <1>1, StartStep
<1>2. CASE Refresh
  BY <1>2, RefreshStep
<1>3. ASSUME NEW p \in Ids, ToggleFavorite(p) PROVE PInv'
  BY <1>3, ToggleStep
<1>4. ASSUME NEW p \in Ids, AddCustomProxy(p) PROVE PInv'
  BY <1>4, AddStep
<1>5. ASSUME NEW answered \in SUBSET Ids, CheckEnds(answered) PROVE PInv'
  BY <1>5, CheckEndsStep
<1>6. ASSUME NEW f \in DOMAIN fetches, FetchEnds(f) PROVE PInv'
  BY <1>6, FetchEndsStep
<1>7. ASSUME NEW f \in DOMAIN fetches, FetchFails(f) PROVE PInv'
  BY <1>7, FetchFailsStep
<1>8. ASSUME NEW f \in DOMAIN fetches, NEW scraped \in SUBSET Scraped, FetchFinds(f, scraped)
      PROVE  PInv'
  BY <1>8, FetchFindsStep, ProxyListAssumption
<1>9. CASE Persist
  BY <1>9, PersistStep
<1>10. CASE CheckFails
  BY <1>10, CheckFailsStep
<1>11. CASE UNCHANGED listVars
  <2>1. /\ FetchesInv' /\ loading' \in BOOLEAN /\ check' = check
        /\ UNCHANGED <<proxies, preferences, lives, excused, unfaved, file>>
    BY <1>11 DEF listVars, preferences, PInv, OnceInv, FetchesInv, ListTypeOK
  <2> QED
    BY <2>1, FetchesStep
<1> QED
  BY <1>1, <1>2, <1>3, <1>4, <1>5, <1>6, <1>7, <1>8, <1>9, <1>10, <1>11 DEF ListNext, User, ListCoroutines

\* The invariant of the list holds over every overlap of the checks, the fetches and
\* the user, and over restarts (MainViewModel.kt:69-250).
THEOREM ListInvariant == ListSpec => []PInv
BY ListStart, ListStep, PTL DEF ListSpec

\* The lists of items, the favorites and the fetches keep their types, and no life
\* launches more fetches than its bound (MainViewModel.kt:38-250).
THEOREM ListTypes == ListSpec => []ListTypeOK
<1>1. PInv => ListTypeOK
  BY DEF PInv
<1> QED
  BY <1>1, ListInvariant, PTL

\* No proxy is shown or saved twice, for any set of proxies, any limit and any
\* number of overlapping fetches and restarts (MainViewModel.kt:182-184, 231-240).
THEOREM ListedOnce == ListSpec => []OneEach
<1>1. PInv => OneEach
  BY NoTwiceCounts DEF PInv, ListTypeOK, OnceInv, OneEach
<1> QED
  BY <1>1, ListInvariant, PTL

\* A favorite is in the list with its star, unless the list was changed under a check,
\* the limit cut it or a listed proxy was added by hand; and a restart repairs these
\* (MainViewModel.kt:97-157, 182-184, 231-240).
THEOREM FavoritesStayShown == ListSpec => []FavoritesShown
<1>1. PInv => FavoritesShown
  BY DEF PInv, ShownInv, AllShown, FavoritesShown
<1> QED
  BY <1>1, ListInvariant, PTL

\* A life of the process begins with all that was shown when the preferences were
\* last written, but for what the user had taken from the favorites and nothing else
\* kept, whenever the life before it was killed (MainViewModel.kt:63-157, 182-184, 239).
THEOREM ListIsRestored == ListSpec => ListComesBack
<1>1. PInv /\ [ListNext]_listVars => [lives' # lives => durable \subseteq IdsOf(proxies')]_listVars
  <2> SUFFICES ASSUME PInv, ListNext, lives' # lives
               PROVE  durable \subseteq IdsOf(proxies')
    OBVIOUS
  <2>1. StartProcess
    BY DEF ListNext, User, ListCoroutines, Persist, Refresh, ToggleFavorite, AddCustomProxy, CheckEnds,
           CheckFails, FetchFinds, FetchEnds, FetchFails
  <2>2. proxies' = WithFavorites(disk.pool, disk.favs \cup {Worker})
    BY <2>1 DEF StartProcess
  <2>3. disk.pool \in Seq(Item) /\ NoTwice(disk.pool) /\ disk.favs \cup {Worker} \in SUBSET Ids
    BY ProxyListAssumption DEF PInv, DiskInv
  <2>4. IdsOf(proxies') = IdsOf(disk.pool) \cup disk.favs \cup {Worker}
    BY <2>2, <2>3, WithFavoritesProperties
  <2> QED
    BY <2>4 DEF PInv, DiskInv
<1> QED
  BY <1>1, ListInvariant, PTL DEF ListSpec, ListComesBack
=============================================================================
