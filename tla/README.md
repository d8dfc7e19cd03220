# ProxyVPN in TLA+

ProxyVPN is an Android application that sends the traffic of a phone through a
proxy. A Kotlin layer finds proxies and owns the VPN service; a C library, the
tunnel (`app/src/main/jni/src`), reads IP packets from the TUN device, ends
their TCP and UDP flows in lwIP, and carries each flow over a SOCKS5
connection. This directory models the tunnel, its start and stop protocol
first, as the code that every other part relies on and that no test of the
repository reaches; then the sessions and the handshake; then the Android
service that owns the tunnel and the list of proxies the user chooses from.
Paths below are relative to the root of the repository; `jni/` stands for
`app/src/main/jni/`, Kotlin files are under `app/src/main/java/com/proxyvpn/`.

## Inventory

| Part | State it keeps | Operations | Hard behaviour | What makes it correct |
|---|---|---|---|---|
| Tunnel lifecycle: `jni/src/hev-socks5-tunnel.c`, `hev-main.c` | the atomic flag word `tsync`, `run`, the socket pair `event_fds` | init, run, stop, fini, any number of times | stop from any thread at any moment, before init, during fini, between two runs | no write to a closed socket, no stop byte lost, every quit ends the run it was meant for and no other |
| JNI service: `jni/src/hev-jni.c` | `is_running`, `thread_joinable`, the worker thread, a mutex | `TProxyStartService`, `TProxyStopService` from any Java thread | the worker may end by itself while a call is under way | one worker at a time; stop returns only when it is gone |
| Event loop and sessions: `hev-socks5-tunnel.c`, `hev-socks5-session*.c` | `session_set`, `session_count`, one task for each session, three service tasks | accept, deliver, error, splice, timeout, leave, terminate, stop | cooperative scheduling, a reader that bursts, wake-ups of tasks in any state | list and count agree, a terminated session ends, the stop reaches all and ends everything |
| TCP splice and ring buffer: `hev-socks5-session-tcp.c`, `misc/hev-ring-buffer.c` | the ring, the queue of pbufs, what lwIP references | `tcp_splice_f`, `tcp_splice_b`, the lwIP callbacks | lwIP sends from the ring without a copy and calls back between two turns; a write to the TUN device that fails | streams arrive whole and in order, cells in flight stay as they are, no sleep without a waker |
| Mapped DNS: `hev-mapped-dns.c`, `misc/hev-utils.c` | tree, list, records and index of the cached names | handle a packet, look up an address | eviction by last use, packets with many, cut or failing questions | the four structures are one cache; a name keeps its address while it is used |
| UDP session and framing: `jni/src/hev-socks5-session-udp.c`, `core/src/hev-socks5-udp.c` | frame list and counter, the address of the last named target, the latched results of the two directions | forward both ways in batches, frame and unframe, end with the association | partial sends and reads, errors that look like EAGAIN, a full list, edge-triggered events shared by both directions | what is sent comes from datagrams in order and at most once, whole unless lwIP holds them in pieces; a broken stream ends the session; no sleep with work to do |
| SOCKS5 client: `core/src/hev-socks5-client*.c` | the connection, its credentials and its timeout | connect, handshake (also pipelined), authenticate | both sides wait for each other; a pipelined side writes before it knows what is read | the sides keep each other's place and agree on the outcome |
| SOCKS5 server, authenticator: `core/src/hev-socks5-server.c`, `hev-socks5-authenticator.c` | users in a red-black tree, a union of authenticator and user, reference counts | serve a client, add and delete users | users are deleted while a session holds them | only known users pass; nothing is freed in use or left over |
| Task system (third-party): `jni/third-part/hev-task-system` | run queue, timers, mutex waiters | yield, wake-up, join, sleep, lock | wake-ups of tasks that do not run | no wake-up lost |
| Configuration, logger, exec, TUN back ends, lwIP, YAML, Wintun | settings, descriptors | parse, open, read, write | a TUN read that fails | settings within what lwIP can take |
| VPN service: `tunnel/TunnelVpnService.kt`, the switch in `MainActivity.kt` | the TUN descriptor, the two cores that run as child processes, `config.yaml`, the flag of the screen | start, stop, revoke, destroy, as coroutines | start and stop interleave at every suspension | what the screen says is so; descriptors outlive the worker that uses them; nothing left running |
| DNS interceptor: `tunnel/TunPacketInterceptor.kt`, `DohResolver.kt` | a socket pair, two pumps, one coroutine for each request | forward, answer DNS | nobody tells pumps and requests to stop; packets that end the reader | the pair is open while the worker uses it; pair, pumps and requests go with the worker |
| Proxy finder and worker: `ProxyFinder.kt`, `ProxyWorker.kt` | caches, a cancellation flag, a scheduler | load, refresh, cancel, test | a pool of testers, refreshes that fail | at most `MAX_PROXIES`, refreshes go on, a cancellation holds |
| Proxy list and user interface: `MainViewModel.kt` and others | the list of proxies; the favourites and the pool in the preferences, in memory and on disk | fetch, check, add, toggle, restart | coroutines that write back old snapshots; preferences that reach the disk later | no entry of the user is lost but by a kill before it was written, nothing is listed twice |

How they interact. The screen sends intents; the service handles each in a
coroutine, makes the interface, starts one of two cores as a child process,
writes the port of that core to `config.yaml` and calls `TProxyStartService`,
which creates the worker thread; it reads the file and calls
`hev_socks5_tunnel_main`, which initialises, runs and finalises the tunnel.
`TProxyStopService` calls `hev_socks5_tunnel_quit`, which reaches the event
loop through `tsync` and a byte in `event_fds`. The event loop is one thread of
cooperative tasks: the packet reader feeds lwIP, lwIP calls the session
handlers back inside the reader's turn, the handlers wake the session tasks,
and these make the handshake and then move bytes to and from the SOCKS5 socket.
Both the handler of DNS packets and the constructor of a session use the mapped
DNS.

## Modules

| Module | What it is |
|---|---|
| `TunnelSync` | the start and stop protocol: `hev-socks5-tunnel.c` init, run, stop, fini and `hev-main.c` |
| `TunnelJni` | the JNI service; it EXTENDS `TunnelSync`, whose worker is its thread and whose stoppers are its Java threads |
| `TunnelTasks` | the event loop, its service tasks and the session tasks |
| `RingBuffer`, `TcpSplice` | the ring buffer as a record and pure operators; one TCP session with both ends around it |
| `UdpSession` | one UDP session over a stream or an association, with its client and server |
| `Socks5Handshake` | client against server, with an authenticator and its owner |
| `AddressBook` | the abstract promise of the mapped DNS |
| `MappedDns` | the mapped DNS, and `KeepsPromise`, that it implements `AddressBook` |
| `VpnService` | the Android service and the screen's switch, above the native calls |
| `Interceptor` | the encrypted DNS; it EXTENDS `VpnService`, whose starts make and whose stops close its socket pair |
| `ProxyList` | the list of proxies, its coroutines and the preferences |
| `ListLemmas` | lemmas on lists without repetition, for the session list and the list of names |
| `TunnelJniProofs`, `TunnelTasksProofs`, `MappedDnsProofs`, `TcpSpliceProofs`, `UdpSessionProofs`, `Socks5HandshakeProofs`, `AppProofs` | theorems; `TunnelJniProofs` has those of `TunnelSync` too, `AppProofs` those of `VpnService`, `Interceptor` and `ProxyList` |
| `MC*` | instances for TLC |

### TunnelSync and TunnelJni

One action is one atomic operation on shared state, in the order of the code:
`StopLock` is the `fetch_or` that takes `SYNC_WAIT` and also reads the word the
call decides on later, `StopSent` and `StopMark` the two branches, `StopWrite`
the write, `StopUnlock` the `fetch_and`. The worker's `InitDone`, `RunStopped`,
`RunLoop`, `EventRead`, `EventClearRun`, `EventClearSent`, `FiniRetry` and
`CloseEvents` are the statements they are named for. The loops around `usleep`
are actions that are not enabled. The sub-steps of init and fini that touch
nothing shared are folded into one. `TunnelJni` adds the mutex, `is_running`,
`thread_joinable` and the thread itself; allocations and `pthread_create` may
fail in it, and so may every step of the worker.

### TunnelTasks

A task keeps the processor from a resume to its next yield, and one action is
that burst. The packet reader is the exception: while the TUN device has data
it does not yield, so its burst is a series of actions (`Accept`, `Deliver`,
`ConnectionError`) during which `io = "running"` excludes all other tasks.
A session goes through the places it can wait in (connect, handshake, splice),
its timeout is unset, set or zero, and `credit` stands for the bytes it can move
before lwIP brings more. Two switches let a stack allocation and a TUN read
fail. Left out: the payload (see `TcpSplice` and `UdpSession`), the messages of
the handshake (see `Socks5Handshake`), and the resolving of a server name, whose
wait no termination ends; the Android service always configures the literal
127.0.0.1.

### TcpSplice and RingBuffer

The server's bytes carry numbers, so that a lost, repeated or overwritten byte
shows. `segs` are the cells lwIP holds pointers to; `Transmit` reads a cell
when it sends, first or again; only `Acknowledge` releases. `Turn` is one round
of the loop in `hev_socks5_session_tcp_splice`: `Forward` is `tcp_splice_f`,
`Back` is `tcp_splice_b` with `readv`, one `tcp_write` for each piece of the
ring and the shutdown at the end; the result decides between a yield, a sleep
and the end. `Drain` is the second loop and, when it is over, the destructor,
which aborts the connection in the same burst. The mutex does not appear:
nobody yields while holding it (writes to the TUN device do not wait), so that
it is never found locked in a session whose accept succeeded. Because they do
not wait, such a write may fail (`OutputFails`), and `tcp_splice_b` ors what
`tcp_output` returns into the result of the direction: the bytes stay queued
and lwIP sends them later, but the direction is over (`stalled`).
`FinAcknowledged` is the error callback lwIP makes for a connection both ends
have closed, the client first. When the client closes last lwIP keeps the pcb
in TIME_WAIT, which the model, having no clock, does not end.

### MappedDns and AddressBook

A node is the name it holds; the tree is a set, the list a sequence by last
use, `records` an array and `idx` the field of a node. A packet is handled
question by question; a question may be of another type, may find no memory
for its node, or may be cut, in which case no answer is sent although the
names asked so far stay. `AddressBook` says what an application relies on,
without tree or list: a name keeps its address until `CacheSize` names,
counting the one used now, have been used since, and a connection to the
address counts as a use. The refinement maps a name's set of later names to
the part of the list behind it.

### UdpSession

The datagrams of the client are numbered, and a message in the stream is a few
parts, so that a send can be cut and a read can block inside one. `Task` is the
session's turn, direction by direction, with the results `res_f` and `res_b`
that the code keeps between turns: a direction that has failed is not tried
again, but the session goes on while the other works. The lwIP callback runs
only between turns (`Visible` says when a step of the outside can be seen),
`event` is the edge-triggered event that wakes the task. Where the code takes a
partial result for a count of messages, or reads a stream from a wrong
position, what follows depends on memory; that is the phase `lost`, and
`LostOnlyWhenBroken` says what it takes to get there. The properties say where
their reach ends: `SentInOrder` exempts a stream after a send that was cut,
because `hev_socks5_udp_sendmmsg_tcp` then counts the batch as sent and the
next frame begins inside another; `SleepsIdle` and `Drains` exempt a session
with a latched result or a broken message, because such a session is deaf in
that direction and a datagram that arrives while it waits inside the message is
left until the next event. A datagram that lwIP put together from fragments is
a chain of pbufs; `FwdF` gives `sendmmsg` the first of them only, and the part
of such a message (`Chained`) is marked as the first piece. The list holds one
frame more than the limit, as the test is `>` (`TypeOK`). Empty answers are
skipped, and the relay side of the library is not modelled.

### Socks5Handshake

A stream is a log of messages and a read position. The client is the standard or
the pipelined one, with or without credentials; the server has an authenticator
or not. Every write and read may fail, either side may give up, and a side that
closes with messages unread resets the connection. The owner adds and deletes
users and drops the authenticator between any two steps; `obj` is the union of
authenticator and user in the server and `authRefs`, `userRefs` are the counts.
Left out: lengths above 255, which are truncated in the byte that carries them;
the address returned by `get_upstream_addr`, which leaks when the request cannot
be written (`core/src/hev-socks5-client.c:151`) and may be null for UDP; and an
authenticator that is used from another thread, for which the library has no
lock.

### VpnService

An intent is handled in order by the main thread, which launches a coroutine
for it; a coroutine runs on a pool of threads, so that the steps of two of them
interleave at every statement that touches shared state. `instance` is the
service the system has now and `jobs` the coroutines, each with the service it
belongs to. `onDestroy` launches a stop and cancels the scope in the next line:
a coroutine that has not begun never begins, one that has begun goes on, as
only `withContext` and the delays look at the cancellation; a start looks at it
last when it enters `withContext` (`StartEnters`), and a cancellation after
that does not keep it from `establish`. A start runs Xray, which speaks to its
proxy, or, for a proxy without a method (`WithoutMethod`) and as the user's
setting says, ByeDPI, which is told of no proxy. A core is known by the port it
listens on; one that finds its port taken ends at once. `WritesConfig` writes
that port to the one configuration file, and the worker reads it as the thread
begins (`WorkerReads`), which may be after another start has written it again;
`Settled` is when nothing is left to do, for the worker neither. `establish`, a
core and the worker may fail, the notification may stop the service, and the
system or another VPN may take the interface (`MaxDisturbances` counts all of
these). `TunnelJni` is why the native calls are single steps here. Left out:
the dialog that asks for permission, and that Android deactivates an older
interface of the application when a new one is established.

### Interceptor

With the encrypted DNS on, the native worker gets one end of a pair of sockets
in place of the interface, and two coroutines carry packets between the
interface and the other end. A step of this module is a step of `VpnService`
with what it does to the pair (`ServiceStep`, `IntentStep`), or a step of a
pump or a request that leaves the service alone (`PumpStep`). The setting is
read by every start, so that `StartsWorker` makes a pair or not; making it,
launching the pumps and the native start are one step, as nobody else looks at
the field in between but a stop that ends the worker before. Pair, pumps and
requests have the name of the coroutine that made them, like the interface.
`pumps` holds the pumps that were launched and have not ended: a coroutine
launched in a scope that is cancelled before it begins never does. The
interface does not block, so that a reader looks at `isActive` again and again;
the socket blocks, so that a writer ends by a packet that fails or by the
closing of the pair. Reader and answers write through a stream that shares the
descriptor object of its `ParcelFileDescriptor`, which says that it is closed
once somebody has closed it; a late answer therefore fails and cannot meet
another file of the same number, and `Answer` changes nothing else. Requests of
one interceptor share nothing, and one of them is kept. `ShortPackets` lets
packets come that end the reader. Left out: what is in packets and answers, the
checksum, and the HTTP of `DohResolver.kt`, which answers, fails or gives up
after its timeout, and in all cases a packet is written. The descriptors that
`Os.socketpair` returned are duplicated and never closed; nobody uses them.

### ProxyList

The list as a sequence of identities with a star, and the favourites and the
pool in the preferences. These change in memory at once; `apply` leaves it to a
thread to write them, so that `disk` is what they were at some `Persist`, which
may come at any time, or never, and a process that is killed loses what changed
since. `durable` is what was shown at the last write, without what the user had
taken from the favourites when the pool did not hold it. A coroutine is its
state between two suspensions: `fetchProxies` and `quickCheckProxies` take the
list, wait for the network and write back what they made of it, or fail;
`ProxyFinder` answers any set of the proxies that the network may list
(`Scraped`). The process may end and be started again at any point, with what
is on disk. Overlapping fetches share `isLoading`, which the first that ends
clears. The cache of `ProxyFinder` is written and never read by the
application: `ProxyWorker.kt` says that it loads from it, but every call forces
a refresh; the background refresh is never started.

## Runs

| Run | Instance | What it shows |
|---|---|---|
| `sync` | 3 threads that call stop, symmetric | `StopWritesOpenSocket`, `SentMeansWake` over any number of restarts |
| `jni` | 2 Java threads, fair | `OneWorker`, `IsRunningWhileMain`, `StopLeavesTunnelDown`, `DeliveredQuitEndsWorker` |
| `jni_lost_stop` | 2 Java threads, fair | violation of `QuitEndsMain`: a quit lost between init and run |
| `tasks` | 2 sessions, limit 2, failing allocation and TUN, fair | `CountMatches`, `NoAbort`, `TerminatedNeverWaits`, `StopReachesEverySession`, `TimerTicksForSessions`, `StopEndsAll` |
| `splice` | setting 3, send buffer and window 2, socket buffer 1, 3 server bytes, 2 client bytes, failing TUN writes, fair | `InOrder`, `InFlightIntact`, `EndsClean`, `Delivers` |
| `dns` | 4 names, 3 slots, packets of 3 questions, symmetric | `OneCache`, `AnswersLeadBack`, `KeepsPromise` |
| `udp` | pool 1, batches of 2, socket buffer 2, head of 2 parts and body of 1, clients of 3 plain or 1 named datagram, the second a chain, 2 answers, fair | `SentInOrder`, `ToldInOrder`, `SourceAsked`, `LostOnlyWhenBroken`, `SleepsIdle`, `Drains` |
| `handshake` | 2 users, 2 passwords, fair | `Aligned`, `Agreement`, `Authorized`, `RefsExact`, `Meets` |
| `vpn` | 2 proxies, one without a method, 3 intents, 1 disturbance | `CalmlyTunneled`, `WorkerHasInterface`, `NothingLeft`, `StopStops` |
| `vpn_switch` | 2 proxies, one without a method, 3 intents, no disturbance | violation of `ActiveMeansTunneled`: the screen says connected and no tunnel runs |
| `interceptor` | 1 proxy without a method, 2 intents, 1 disturbance, packets the reader cannot read, fair | `PairsAreClosed`, `CalmlyCarried`, `PumpsEnd` |
| `proxies` | the worker's and 2 other proxies, one of which the network lists, limit 2, 2 fetches, 2 lives of the process | `OneEach`, `FavoritesShown`, `ListComesBack` |

Type invariants are theorems (below), and so are three safety invariants that
no run checks: `AtMostTwoWakes`, `NeverRefused` and `WorkerHasPair`.

Bounds. Three stoppers: one inside the spin lock, one waiting for it and one
that begins later are all the roles of a call; the theorems hold for any
number. Two Java threads: the mutex admits one, the other waits. Two sessions
under a limit of two are the smallest instance in which an insertion terminates
another session than the newest, small enough to check `StopEndsAll` with both
failures on; the safety properties are theorems for any number of sessions and
any limit (`NoAbort` for any but 1). A session object is used again after it
has ended, so the number of sessions over time is not bounded. `Credit` 1 means
that one delivery lets a session move once without waiting; a larger value only
lengthens the same loop. The ring of two cells, with three bytes to carry,
wraps and fills up, and the setting above it makes the clamp matter. A socket
buffer of one byte makes every short write happen. Four names in three slots
give evictions with a choice of victim; packets of three questions fill the
cache within a packet. In `udp` a pool of one holds two frames, so that a third
datagram meets a full list; a message of three parts and a socket buffer of two
cut a send inside the head and inside the body, and a batch of two is one with
a whole and a partial message. In `handshake` two users with two passwords are
the right one, the wrong password and the user deleted meanwhile; one handshake
is made, since sessions share nothing but the authenticator, whose owner acts
all the time. Three intents are a change of proxy (a stop and a start) after a
start, or a start, a stop and a start again; one disturbance puts a failure or
a revocation anywhere between. With a proxy of either kind every change from
one core to the other occurs; they are not interchangeable, so that there is no
symmetry. In `interceptor` the two intents are a start and a stop, by the
switch or the notification, with a failure or a revocation between; which proxy
is selected does not matter to it, and its safety properties are theorems for
any number of intents. Two fetches that overlap and a restart are what the list
can lose an entry by; two proxies besides the worker's exceed `Few` and reach
`Limit`; one of them can only be added by hand, so that nothing but the
preferences brings it back. The restart finds any write of the first life;
nobody reads what the last life writes, and it is left out.

Deadlock is not checked where the system ends or a bound ends it: `splice`,
`udp` and `handshake` (the session is over), `tasks` (stopped), the
`vpn`, `interceptor` and `proxies` runs (the counters are used up) and the `jni`
runs (a lost quit leaves all threads blocked, which `jni_lost_stop` reports).

Fairness. `JniFairSpec` lets each thread that can take a step take it; no call
has to be made. `TunnelTasks!FairSpec` is strong fairness for each task: the
scheduler picks the runnable task with the smallest key, keys grow while tasks
run, so a task that is runnable again and again is resumed, while a burst of
the reader disables the others in between. `IoYield` is part of the reader's
fairness: that the TUN queue is empty now and then is an assumption about the
device. `TcpSplice!FairSpec` is weak fairness for the session's task, for
lwIP's (re)transmission, for the client's acknowledgement and for the server's
reading, that is, for a network that loses packets but not for ever.
`UdpSession!FairSpec` is weak fairness for the task, for the server's taking
and for its going on with an answer it has begun. `Socks5Handshake!FairSpec` is
weak fairness for both sides, and `Meets` speaks of a run in which nobody's
timeout strikes. `InterceptorFairSpec` is weak fairness for what a pump does by
itself (`PumpEnds`): beginning, and ending when what it reads is closed or its
scope cancelled; and a request ends by its answer or the timeouts of its
client. The pool of `Dispatchers.IO` has 64 threads, more than the pumps of the
few starts need. Packets, intents and the coroutines of the service are not
forced to come. Timeouts, terminations, aborts and datagrams are never forced
to happen.

## What was found

Two disagreements with what the repository says have runs of their own.

- A quit that reads `tsync` before init sets `SYNC_SEND` and writes
  `SYNC_STOP` after run has tested it is lost; `native_stop_service` then waits
  for ever with the mutex held (`jni/src/hev-socks5-tunnel.c:758`;
  `jni_lost_stop`).
- The screen sets its flag when the switch is touched and is never told what
  became of the tunnel: a stop and a start in quick succession run at the same
  time, and what is left can be no tunnel under a screen that says connected
  (`MainActivity.kt:341`; `vpn_switch`).

These show when a constant is changed or a definition of the module is added
to the cfg.

- A quit that arrives while no run is under way, as when init has failed, is
  kept in `SYNC_STOP` and ends the next run at once
  (`hev-socks5-tunnel.c:765`), where `hev-main.h:24` says that main blocks
  until quit is called: `RunsUntilQuit` in `MCTunnelJni.cfg`.
- A TUN read that fails for good spins without a yield, and no stop is seen any
  more (`hev-socks5-tunnel.c:323`): `stop_byte ~> AllDone` in
  `MCTunnelTasks.cfg`; `StopEndsAll` exempts it.
- A session that is refused for want of a stack locks the lwIP mutex a second
  time in its destructor, and a stop never ends: the same, also exempted.
- With `MaxSessionCount = 1` the session to terminate is the one being
  inserted, its task is woken before it is run, and the scheduler calls
  `abort`: `NoAbort`.
- With four sessions under a limit of two, a burst of connections terminates
  the same first session again and again, and the count stays above the limit
  when everything is at rest (`hev-socks5-tunnel.c:137`): `LimitHoldsAtRest`.
- `tcp_splice_b` moves over all pieces of the ring even when lwIP has refused
  the first and taken the second (`hev-socks5-session-tcp.c:116`): `MemoryFails
  = TRUE` with `SndBuf = 3` and `ServerBytes = 4` violates `InOrder`.
- The write to the TUN device does not wait and fails when its queue is full, as
  it may for a moment. `tcp_output` then returns an error, which ends the
  download of the session although everything was queued: the bytes go out
  later, but the rest of the server's stream is not read and the client gets no
  FIN (`hev-socks5-session-tcp.c:120`). `EndsClean` and `Delivers` say what is
  delivered then.
- A fragmented UDP datagram is a chain of pbufs after reassembly, and what is
  sent is its first pbuf (`hev-socks5-session-udp.c:84`): `SentWhole` in
  `MCUdpSession.cfg`.
- When the client closes first and then acknowledges the session's FIN, lwIP
  calls `tcp_err_handler`, which terminates the session: bytes of the client
  that the server's socket has not taken yet are dropped
  (`hev-socks5-session-tcp.c:168`): `UploadComplete`.
- `hev_mapped_dns_lookup` ignores the network part of the address
  (`hev-mapped-dns.c:267`): `OnlyMappedReplaced`.
- The reader of the encrypted DNS logs the port of every UDP packet without a
  look at its length; the last fragment of a packet with one to three bytes
  ends it, and no traffic passes until the next start
  (`tunnel/TunPacketInterceptor.kt:39`): `RestGoesToProxy` in
  `MCInterceptor.cfg`.
- With ByeDPI on and a SOCKS5 or HTTP proxy selected, the service starts ByeDPI
  without the proxy (`tunnel/TunnelVpnService.kt:99`): the screen says
  connected to it and, by `MainActivity.kt:582`, that the address seen from
  outside is the proxy's, while the traffic leaves directly:
  `ActiveMeansProxied` in `MCVpnService.cfg`.
- A check of the list keeps what was a favourite when it began; a proxy that
  becomes one meanwhile and does not answer is dropped
  (`MainViewModel.kt:183`, against the comment in line 179): `FavoritesKept`.

Others are part of the model and bound what its properties say.

- UDP: the list holds one frame more than the limit
  (`hev-socks5-session-udp.c:185`); a batch of which a part was sent counts as
  sent (`core/src/hev-socks5-udp.c:99`), and a partial read as a count of
  messages (line 219); a broken frame with an old EAGAIN in `errno` makes the
  session wait where it should end (`hev-socks5-session-udp.c:125`).
- VPN service: the stop that a revocation or `onDestroy` launches may never
  begin, and the worker then lives on without a service until the next stop; a
  start that is past `establish` goes on after `onDestroy`; an intent that comes
  to a service about to be destroyed is lost with it.
- Encrypted DNS: a start over an interface that is up, or two starts at once,
  overwrite the field `socketPair` without closing what it holds
  (`TunnelVpnService.kt:156`); that pair stays open, and its writer waits for a
  packet for ever with a thread of the pool. `PairsAreClosed` and `PumpsEnd`
  exempt intents that overlap.
- Proxy list: the limit of a fetch cuts favourites at the end of the list; an
  address added by hand that is listed already gets no star until a restart; a
  star of the worker's proxy that was taken away is given again by the next
  fetch, one of another proxy comes back after a restart if the pool was saved
  with it. The preferences are written with `apply` (`MainViewModel.kt:70`,
  `94`); what changed since the last write is lost with the process, which is
  why `ListComesBack` speaks of that write.

## Proofs

All theorems hold for every value of the constants. They rest on the named
assumptions only: `NoThreadIsNoStopper`, `MaxSessionCountAssumption`,
`CreditAssumption`, `CacheSizeAssumption`, `NoneAssumption`,
`QuestionsAssumption`, `SizesAssumption`, `PasswordAssumption`,
`EmptyAssumption`, `NoOneAssumption`, `VpnAssumption`, `InterceptorAssumption`,
`UdpAssumption`, `ClientsAssumption`, `ProxyListAssumption`. `NoneAssumption`
says that the mark for no name is no set of names either, `ClientsAssumption`
that what a client sends is a finite sequence and that the mark for no address
is not a name, `ProxyListAssumption` that there are finitely many proxies, the
worker's and those the network lists among them, `VpnAssumption` that the
proxies without a method are some of the proxies.

- `TunnelJniProofs`, on `TunnelSync`. None of the three safety properties is
  inductive. `IInv` adds what each place of the worker and of a stopper
  implies: who holds `WAIT` (exactly one caller between `StopLock` and
  `StopUnlock`), where the socket is open, where `SEND` and `SENT` can be set,
  and how many bytes are in the socket or about to be written. A caller that is
  about to write saw `SEND` while holding `WAIT`; fini cannot leave its retry
  loop while `WAIT` is held; hence the socket is open. Theorems: `TypeCorrect`,
  `StopIsSafe`, `WakesAreBounded`, `StopByteIsNotLost`.
- `TunnelJniProofs`, on `TunnelJni`. `JInv` relates the mutex, the places of
  the native calls, `thread_joinable`, `is_running` and the place of the
  thread. Theorems: `JniTypeCorrect`, `WorkersNeverOverlap`,
  `IsRunningIsTruthful`, and the action property `StopIsComplete` for
  `StopLeavesTunnelDown`.
- `TunnelTasksProofs`. `ListInv` says that the list repeats nobody, holds live
  sessions only and has the counted length; it rests on `ListLemmas`, since the
  list is changed by appending and by removing the first occurrence. `TimerInv`
  and `StopInv` are the strengthenings for the timer and the stop, and
  `ServiceTypes` the types of what the service tasks keep. Theorems:
  `TypeCorrect`, `ListIsCounted`, `TerminationIsNotLost`, `TimerKeepsTicking`,
  `StopIsComplete`, and `LimitAboveOneNeverAborts` under `MaxSessionCount # 1`,
  which is the exact condition.
- `MappedDnsProofs`. `CacheInv` is `OneCache` with the list as one without
  repetitions and with the converse for the slots, that a record in use stands
  in the tree under its own index; without it a lookup by address could move a
  node that is not there. `AnswerInv` is for the packet in progress: the names
  answered so far are the ones used last (`Closed` in `ListLemmas`), so that
  the node to evict is one of them only if the whole cache is, which with the
  name that causes the eviction would be more names than were asked for. The
  refinement maps a name to the names that stand behind it in the list (`Since`
  in `MappedDns`, `Behind` in `ListLemmas`): moving a node to the end puts the
  name used now behind every other and nothing behind itself, and the front of
  the list, which is evicted, has `CacheSize - 1` names behind it, so that the
  name used now is the one after which the promise no longer binds. Every step
  of a packet or a connection is then a `Use` of `AddressBook`, a `Tell` of it
  or a stutter. Theorems: `CacheIsOne`, `AnswersAreTrue`, `TypeCorrect`,
  `CacheKeepsPromise`.
- `TcpSpliceProofs`. `SpliceInv` has three parts, and a fourth holds with it.
  `BufferInv`: the ring holds the last `use_size` of the bytes read, and lwIP
  refers to no more cells than are held. `FlowInv`: the types, the queue and
  the window of the other direction. `ExactInv`: unless something was refused,
  the cells lwIP refers to are exactly the held ones, in order, and the client
  has the bytes before them. `EndInv`: what is known at each stage of the end
  of a session that nobody has cut: a direction to the client ends with a FIN
  behind all the server has sent, or by a `tcp_output` that failed (`stalled`),
  and then without a FIN. They rest on lemmas about the ring's arithmetic:
  `readv` touches no cell in use, the pieces follow each other, a release gives
  up the oldest cells. Theorems: `SpliceInvariant`, `TypeCorrect`,
  `NothingRefused` and `EndedClean` in all cases; `ReceivedInOrder` and
  `MemoryIntact` as long as `tcp_write` finds memory, without which `InOrder`
  is false.
- `Socks5HandshakeProofs`. `HInv` says what either side knows of the messages
  in both streams at each of its places, and which references `obj` holds there.
  Theorems: `TypeCorrect`, `CountsAreExact`, `NobodyPassesUnknown`,
  `SidesKeepTheirPlace`, `SidesAgree`.
- `UdpSessionProofs`. None of the five safety properties is inductive, and two
  independent halves are: `UpInv` for what goes to the server (`ListInv`: the
  list is the end of the accepted datagrams; `BatchInv`; `WireInv`: part `k` on
  the wire is part `k` of the accepted datagrams, or its first piece if that
  datagram is a chain), and `DownInv` for what comes from it (`ReadInv`: where
  in an answer the session stands at each of its places, and that `msgv` holds
  the last answers read; `ToldInv`: those told come before them; `SourceInv`:
  the address kept is a name the client has asked; `BrokenInv`: only a cause
  leaves the session within an answer). A batch that is cut counts as sent,
  which is why `WireInv` speaks of a stream only up to the cut, and the answers
  told are those read only as long as none was broken. `SleepInv` is about the
  turn: a turn that forwards nothing has found the list empty (`FwdF`) and
  nothing to read (`NothingRead`), and what arrives before the task sleeps is
  an event, which it sees when it wants to sleep. The arithmetic of parts and
  messages is in lemmas of its own, for any size of head and body. Theorems:
  `UdpTypes`, `UdpSentInOrder`, `UdpToldInOrder`, `UdpSourceAsked`,
  `UdpLostOnlyWhenBroken`, `UdpSleepsIdle`.
- `AppProofs`, on `VpnService`. `VInv` is `TypeOK` with three more parts:
  `Destroys` (a message to destroy is for the instance that lives), `StopPhase`
  (a stop that found all at rest is alone until the worker is gone) and
  `CalmPhase` (which descriptors are open at each place of the one coroutine at
  work). `WInv` adds `NotCancelled` (the scope of the instance that lives has
  not been cancelled), `Unread` (without a worker there is nothing it has read)
  and `WorkPhase`: at each place of the one coroutine at work, who owns the
  descriptor, the processes, their ports and the worker, and, at rest, that the
  configuration, whether the worker has read it or will, names a core that runs
  and was started for the selected proxy (`Serves`). Theorems: `TypeCorrect`,
  `StopIsFinal` for `StopStops`, `WorkerKeepsInterface`, `CalmServiceTunnels`,
  `GoneLeavesNothing`.
- `AppProofs`, on `Interceptor`. Every step is a step of `VpnService` or leaves
  its variables alone (`InterceptorKeepsService`), so that the invariants above
  hold here and are cited. `EInv` adds, next to the types, `Owners` (the
  interface of an instance was made by one of its own starts), `MadeDone` (only
  a start that has come to its end has made a pair), `PairPhase` (if intents
  did not overlap, a pair is open only with the interface of its start, the
  field of the instance holds it, the worker that was given it has it, and
  nobody else when all work is done) and `PumpPhase` (the pumps of an open pair
  with an open interface are there unless the scope was cancelled or the reader
  broke). Theorems: `InterceptorKeepsService`, `InterceptorTypes`,
  `WorkerKeepsPair`, `NoPairIsLeft`, `CalmInterceptorCarries`.
- `AppProofs`, on `ProxyList`. `PInv` is inductive where the three properties
  are not: no proxy is twice in the list, in the pool, in the list a check
  began with or in what a fetch has found (`OnceInv`), and, unless something
  the code is known to lose favorites by has happened, every favorite is shown
  with its star and was starred in the list of the check in flight
  (`ShownInv`), since that list is what the check will write back; what is
  shown is in the preferences or was taken from them by the user
  (`Remembered`), and what was shown at their last write is in their file
  (`DiskInv`), from which the action property `ListComesBack` follows for every
  start. The list is filtered (`Kept`), made of a set (`Items`) and merged
  (`Merge`); the lemmas on these number the places that are kept by how many
  are not behind them, and a numbering of `n` places by `1 .. n` without a
  repetition leaves no gap. Theorems: `ListTypes`, `ListedOnce`,
  `FavoritesStayShown`, `ListIsRestored`.

Model-checked only: the liveness properties (`DeliveredQuitEndsWorker`,
`StopEndsAll`, `Delivers`, `Drains`, `Meets`, `PumpsEnd`), since the prover has
no fairness.

## Not modelled

Most lines of the repository are third-party code that the tunnel is linked
with: lwIP alone is several times as long as everything the project wrote. What
the tunnel relies on in it, and in the task system, is part of the modules
above (callbacks, the send buffer, what a pcb refers to, resumption and
wake-ups); TCP itself, IPv6, PPP, libyaml and Wintun are not modelled.

- What the encrypted DNS reads and writes: packets, their checksum, and the HTTP
  of `DohResolver.kt`.
- The inside of `ProxyFinder.kt` and `ProxyWorker.kt`: their cache is written
  and not read, the background refresh is never started, and `ProxyList` has
  them as any answer at any time.
- The splicer of the relay side in `core/src/hev-socks5-udp.c`, which the
  application does not run.
- The configuration parser, the logger, `hev-exec.c`, the system calls that
  open a device, the worker script, the build scripts and the other screens:
  they keep no state that interacts with the rest.

## Plan

Done, in this order: `TunnelSync`, `TunnelJni` composed with it, `TunnelTasks`,
`MappedDns` against `AddressBook`, `TcpSplice` on `RingBuffer`, each with its
proofs; `UdpSession`, `Socks5Handshake` and `VpnService` with proofs;
`ProxyList` and `Interceptor` with proofs.

Next: `TunnelSync` and `TunnelTasks` composed; the draining of the loop that
`LoopEnds` folds is `AllDone` of `TunnelTasks`.
