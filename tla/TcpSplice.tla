----------------------------- MODULE TcpSplice -----------------------------
(***************************************************************************)
(* The data path of one TCP session (hev-socks5-session-tcp.c): the task   *)
(* moves bytes between the socket of the SOCKS5 server and the lwIP        *)
(* connection of the client, the reader and the timer task call it back    *)
(* from lwIP between its turns.                                            *)
(*                                                                         *)
(* tcp_write keeps references to the cells of the ring buffer, not copies, *)
(* and transmits from them until the client has acknowledged them.         *)
(*                                                                         *)
(* The bytes of the server are numbered 1, 2, ...; of the client's bytes   *)
(* only the number matters.  The mutex is never found locked here: nobody  *)
(* yields while holding it.                                                *)
(***************************************************************************)
EXTENDS Integers, Sequences, RingBuffer

CONSTANTS
    Setting,      \* the setting tcp-buffer-size
    SndBuf,       \* TCP_SND_BUF
    Wnd,          \* TCP_WND
    SockBuf,      \* the send buffer of the socket
    ServerBytes,  \* how many bytes the server sends at most
    ClientBytes,  \* how many bytes the client sends at most
    MemoryFails,  \* whether lwIP may run out of segments
    OutputFails   \* whether a write to the TUN may fail

ASSUME SizesAssumption ==
    /\ Setting \in Nat \ {0} /\ SndBuf \in Nat \ {0}
    /\ Wnd \in Nat \ {0} /\ SockBuf \in Nat \ {0}
    /\ ServerBytes \in Nat /\ ClientBytes \in Nat
    /\ MemoryFails \in BOOLEAN /\ OutputFails \in BOOLEAN

VARIABLES
    sent, sent_eof,       \* what the server has sent, whether it has closed
    taken,                \* the bytes of it read from the socket
    buffer,               \* the ring buffer
    segs,                 \* the cells referenced by the pcb, unacknowledged
    got,                  \* how many of segs the client has
    fin,                  \* whether tcp_shutdown was called, and who closed first
    client,               \* the bytes the client has received
    given, pcb_eof,       \* what the client has sent, whether it has closed
    wnd,                  \* what the client may send now
    queue,                \* the bytes in self->queue
    sockq,                \* the bytes in the socket's send buffer
    shut,                 \* shutdown (fd, SHUT_WR) was called
    reset,                \* the server's connection is broken
    pcb,                  \* self->pcb is not NULL
    zero,                 \* self->timeout is 0
    res_f, res_b,         \* the results of the two directions
    phase,                \* "loop", "drain" or "done"
    awake,                \* the task is runnable
    refused,              \* a tcp_write failed
    stalled,              \* a tcp_output failed
    cut                   \* the session is ended from outside

server == <<sent, sent_eof, reset>>
back == <<taken, buffer, segs, fin, res_b, refused, stalled>>
forward == <<queue, wnd, sockq, shut, res_f>>
peer == <<given, pcb_eof>>
task == <<phase, awake, cut>>
vars == <<server, back, got, client, forward, peer, pcb, zero, task>>

\* hev_config_init_from_str
tcp_buffer_size == IF Setting > SndBuf THEN SndBuf ELSE Setting

TypeOK ==
    /\ sent \in 0 .. ServerBytes /\ taken \in 0 .. sent
    /\ buffer.rp \in DOMAIN buffer.data /\ buffer.wp \in DOMAIN buffer.data
    /\ buffer.use_size \in 0 .. buffer.max_size
    /\ buffer.rda_size \in 0 .. buffer.use_size
    /\ segs \in Seq(DOMAIN buffer.data) /\ got \in 0 .. Len(segs)
    /\ client \in Seq(1 .. ServerBytes)
    /\ given \in 0 .. ClientBytes /\ queue \in 0 .. given
    /\ wnd \in 0 .. Wnd /\ sockq \in 0 .. SockBuf
    /\ res_f \in -1 .. 1 /\ res_b \in -1 .. 1
    /\ phase \in {"loop", "drain", "done"}
    /\ fin \in {"open", "first", "last"}
    /\ {sent_eof, pcb_eof, shut, reset, pcb, zero, awake, refused, stalled, cut}
          \subseteq BOOLEAN

Init ==
    /\ sent = 0 /\ sent_eof = FALSE /\ reset = FALSE
    /\ taken = 0 /\ buffer = Alloca(tcp_buffer_size) /\ segs = <<>>
    /\ fin = "open" /\ res_b = 1 /\ refused = FALSE /\ stalled = FALSE
    /\ got = 0 /\ client = <<>>
    /\ queue = 0 /\ wnd = Wnd /\ sockq = 0 /\ shut = FALSE /\ res_f = 1
    /\ given = 0 /\ pcb_eof = FALSE
    /\ pcb = TRUE /\ zero = FALSE
    /\ phase = "loop" /\ awake = TRUE /\ cut = FALSE

-----------------------------------------------------------------------------
(* tcp_splice_f: the client's bytes                                        *)

Forward ==
    \/ /\ res_f < 0
       /\ UNCHANGED forward
    \/ /\ res_f >= 0 /\ queue > 0 /\ ~reset
       /\ \E s \in 1 .. queue :
             /\ sockq + s <= SockBuf
             /\ queue' = queue - s
             /\ sockq' = sockq + s
             /\ wnd' = IF pcb THEN wnd + s ELSE wnd
       /\ res_f' = 1
       /\ UNCHANGED shut
    \/ /\ res_f >= 0 /\ queue > 0 /\ (sockq = SockBuf \/ reset)
       /\ res_f' = IF reset THEN -1 ELSE 0
       /\ UNCHANGED <<queue, wnd, sockq, shut>>
    \/ /\ res_f >= 0 /\ queue = 0
       /\ res_f' = IF pcb_eof THEN -1 ELSE 0
       /\ shut' = (shut \/ pcb_eof)
       /\ UNCHANGED <<queue, wnd, sockq>>

-----------------------------------------------------------------------------
(* tcp_splice_b: the server's bytes                                        *)

\* The n bytes that readv gives, 0 when the buffer is full, the socket empty,
\* at its end or broken.
Readable(n) ==
    LET room == Len(AllCells(Writing(buffer))) IN
    IF n = 0
    THEN room = 0 \/ taken = sent \/ reset
    ELSE n <= room /\ taken + n <= sent /\ ~reset

ReadResult(n) ==
    CASE n > 0                                 -> 1
      [] Writing(buffer) = <<>>                -> 0
      [] OTHER -> IF reset \/ sent_eof THEN -1 ELSE 0

AfterRead(n) == WriteFinish(Filled(buffer, [i \in 1 .. n |-> taken + i]), n)

\* lwIP takes all of an iovec or nothing; Failures are the calls of tcp_write
\* that may find no memory.
Failures == IF MemoryFails THEN SUBSET {1, 2} ELSE {{}}
TcpWrite(queued, iov, fails) ==
    IF fails \/ Len(queued) + iov.len > SndBuf THEN queued ELSE queued \o Cells(iov)

TcpWrites(iovs, failing) ==
    LET first == IF iovs = <<>> THEN segs ELSE TcpWrite(segs, iovs[1], 1 \in failing) IN
    IF Len(iovs) = 2 THEN TcpWrite(first, iovs[2], 2 \in failing) ELSE first

\* tcp_output gives the error of netif_output_handler.  What it could not send
\* stays queued and is sent later, but the direction is over for the session.
OutputResults == IF OutputFails THEN {"ERR_OK", "ERR_IF"} ELSE {"ERR_OK"}

Write(b, read_result, failing, output) ==
    LET iovs == Reading(b)
        queued == TcpWrites(iovs, failing)
        failed == Len(queued) < Len(segs) + b.rda_size
        unsent == iovs # <<>> /\ output # "ERR_OK" IN
    IF ~pcb
    THEN /\ buffer' = b
         /\ res_b' = -1
         /\ UNCHANGED <<segs, fin, refused, stalled>>
    ELSE /\ segs' = queued
         /\ buffer' = ReadFinish(b, b.rda_size)
         /\ res_b' = IF failed \/ unsent THEN -1
                      ELSE IF iovs # <<>> THEN 1 ELSE read_result
         /\ fin' = IF iovs = <<>> /\ read_result < 0
                   THEN IF pcb_eof THEN "last" ELSE "first" ELSE fin
         /\ refused' = (refused \/ failed)
         /\ stalled' = (stalled \/ unsent)

Back ==
    \/ /\ res_b < 0
       /\ UNCHANGED back
    \/ /\ res_b >= 0
       /\ \E n \in 0 .. buffer.max_size :
             /\ Readable(n)
             /\ taken' = taken + n
             /\ \E failing \in Failures, output \in OutputResults :
                   Write(AfterRead(n), ReadResult(n), failing, output)

-----------------------------------------------------------------------------
(* hev_socks5_session_tcp_splice                                           *)

\* The loop at the end waits for the acknowledgements; the session is then
\* destructed, its pcb aborted, before another task runs.
DoneAtOnce(b) == phase' = "done" /\ awake' = FALSE /\ pcb' = FALSE
Drain(b) ==
    IF pcb /\ b.use_size # 0 /\ ~zero
    THEN phase' = "drain" /\ awake' = FALSE /\ UNCHANGED pcb
    ELSE phase' = "done" /\ awake' = FALSE /\ pcb' = FALSE

Turn ==
    /\ phase = "loop" /\ awake
    /\ Forward /\ Back
    /\ cut' = (cut \/ refused')
    /\ \/ /\ res_f' > 0 \/ res_b' > 0
          /\ UNCHANGED <<phase, awake, pcb>>
       \/ /\ res_f' <= 0 /\ res_b' <= 0 /\ (res_f' = 0 \/ res_b' = 0) /\ ~zero
          /\ awake' = FALSE
          /\ UNCHANGED <<phase, pcb>>
       \/ /\ res_f' <= 0 /\ res_b' <= 0 /\ (zero \/ (res_f' < 0 /\ res_b' < 0))
          /\ Drain(buffer')
    /\ UNCHANGED <<server, got, client, peer, zero>>

DrainTurn ==
    /\ phase = "drain" /\ awake
    /\ Drain(buffer)
    /\ UNCHANGED <<server, back, got, client, forward, peer, zero, cut>>

\* hev_task_sleep returns 0.
Timeout ==
    /\ phase # "done" /\ ~awake
    /\ \/ phase = "loop" /\ Drain(buffer)
       \/ phase = "drain" /\ phase' = "done" /\ awake' = FALSE /\ pcb' = FALSE
    /\ cut' = TRUE
    /\ UNCHANGED <<server, back, got, client, forward, peer, zero>>

Woken == awake' = (phase # "done")

\* hev_socks5_session_terminate, for the limit or a stop.
Terminate ==
    /\ phase # "done"
    /\ zero' = TRUE /\ cut' = TRUE /\ Woken
    /\ UNCHANGED <<server, back, got, client, forward, peer, pcb, phase>>

-----------------------------------------------------------------------------
(* The handlers lwIP calls                                                 *)

\* tcp_recv_handler, for a segment within the window and for a FIN.
ClientSends(n) ==
    /\ pcb /\ ~pcb_eof
    /\ given + n <= ClientBytes /\ n <= wnd
    /\ given' = given + n /\ wnd' = wnd - n /\ queue' = queue + n
    /\ Woken
    /\ UNCHANGED <<server, back, got, client, sockq, shut, res_f, pcb_eof, pcb, zero, phase, cut>>

ClientCloses ==
    /\ pcb /\ ~pcb_eof
    /\ pcb_eof' = TRUE /\ Woken
    /\ UNCHANGED <<server, back, got, client, forward, given, pcb, zero, phase, cut>>

\* A byte reaches the client, sent now for the first time or again.
Transmit ==
    /\ pcb /\ got < Len(segs)
    /\ client' = Append(client, buffer.data[segs[got + 1]])
    /\ got' = got + 1
    /\ UNCHANGED <<server, back, forward, peer, pcb, zero, task>>

\* tcp_sent_handler
SentNoWake == UNCHANGED awake
SentWake == Woken
Acknowledge(n) ==
    /\ pcb /\ n <= got
    /\ segs' = SubSeq(segs, n + 1, Len(segs)) /\ got' = got - n
    /\ buffer' = ReadRelease(buffer, n)
    /\ SentWake
    /\ UNCHANGED <<server, taken, fin, res_b, refused, stalled, client, forward, peer, pcb, zero, phase, cut>>

\* tcp_err_handler
ClientAborts ==
    /\ pcb
    /\ pcb' = FALSE /\ zero' = TRUE /\ cut' = TRUE /\ Woken
    /\ UNCHANGED <<server, back, got, client, forward, peer, phase>>

\* lwIP calls the same handler when the client, having closed first, has
\* acknowledged everything.  If the client closes last, the pcb stays for a
\* while and nobody is called.
ClosedByBoth == fin = "last" /\ segs = <<>>
FinAcknowledged ==
    /\ pcb /\ ClosedByBoth
    /\ pcb' = FALSE /\ zero' = TRUE /\ Woken
    /\ UNCHANGED <<server, back, got, client, forward, peer, phase, cut>>

-----------------------------------------------------------------------------
(* The socket                                                              *)

ServerSends ==
    /\ ~sent_eof /\ ~reset /\ sent < ServerBytes
    /\ sent' = sent + 1 /\ Woken
    /\ UNCHANGED <<sent_eof, reset, back, got, client, forward, peer, pcb, zero, phase, cut>>

ServerCloses ==
    /\ ~sent_eof /\ ~reset
    /\ sent_eof' = TRUE /\ Woken
    /\ UNCHANGED <<sent, reset, back, got, client, forward, peer, pcb, zero, phase, cut>>

ServerTakes ==
    /\ sockq > 0 /\ ~reset
    /\ sockq' = sockq - 1
    /\ IF sockq = SockBuf THEN Woken ELSE UNCHANGED awake
    /\ UNCHANGED <<server, back, got, client, queue, wnd, shut, res_f, peer, pcb, zero, phase, cut>>

ServerResets ==
    /\ ~reset
    /\ reset' = TRUE /\ cut' = TRUE /\ Woken
    /\ UNCHANGED <<sent, sent_eof, back, got, client, forward, peer, pcb, zero, phase>>

Next ==
    \/ Turn \/ DrainTurn \/ Timeout \/ Terminate
    \/ \E n \in 1 .. Wnd : ClientSends(n)
    \/ \E n \in 1 .. SndBuf : Acknowledge(n)
    \/ ClientCloses \/ ClientAborts \/ FinAcknowledged \/ Transmit
    \/ ServerSends \/ ServerCloses \/ ServerTakes \/ ServerResets

Spec == Init /\ [][Next]_vars

\* The scheduler runs a runnable task, lwIP retransmits, the client
\* acknowledges what it has and the server reads what it was sent.
FairSpec ==
    /\ Spec
    /\ WF_vars(Turn) /\ WF_vars(DrainTurn)
    /\ WF_vars(Transmit) /\ WF_vars(Acknowledge(1))
    /\ WF_vars(ServerTakes)

-----------------------------------------------------------------------------
(* Properties                                                              *)

\* The client receives the server's bytes in their order, none missing.
InOrder == \A i \in DOMAIN client : client[i] = i

\* What tcp_write was given stays where it is until it is acknowledged: the
\* memory behind the pointer must not change, as it may be sent again.
InFlightIntact ==
    pcb => \A j \in DOMAIN segs : buffer.data[segs[j]] = Len(client) - got + j

\* lwIP never refuses what the ring buffer holds.
NeverRefused == ~MemoryFails => ~refused

\* A session that nobody cuts ends when the client has closed and has all that
\* was read for it.  Unless a tcp_output failed, that is all the server sent,
\* the server has closed too, and the client was told.  After a failed
\* tcp_output the rest is never read and no FIN is sent: the pcb is aborted.
EndsClean ==
    phase = "done" /\ ~cut =>
        /\ pcb_eof /\ Len(client) = taken
        /\ IF stalled THEN fin = "open" ELSE sent_eof /\ taken = sent /\ fin # "open"
        /\ fin # "last" => shut /\ queue = 0

\* A session that nobody cuts has given all of the client's bytes to the
\* server's socket when it ends.  This does not hold (README, What was found);
\* no run checks it.
UploadComplete == phase = "done" /\ ~cut => queue = 0

\* Whatever one end has sent reaches the other, and the session ends when
\* both have closed: again and again nothing is on its way, until either end
\* sends more.  The client's bytes may be lost if it closes first, the server's
\* that were not yet read if a tcp_output fails.
Arrived ==
    /\ Len(client) = IF stalled THEN taken ELSE sent
    /\ queue + sockq = 0 \/ fin = "last"
    /\ (sent_eof \/ stalled) /\ pcb_eof => phase = "done"
Delivers == []<>(Arrived \/ cut)
=============================================================================
