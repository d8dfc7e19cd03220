----------------------------- MODULE UdpSession -----------------------------
(***************************************************************************)
(* The data path of one UDP session: hev-socks5-session-udp.c over the     *)
(* framing of hev-socks5-udp.c.  lwIP's callback queues the datagrams of   *)
(* the client; the session task sends them to the SOCKS5 server, either as *)
(* frames in the TCP stream (mode "tcp") or as datagrams while the TCP     *)
(* connection only controls the association (mode "udp"), and tells the    *)
(* client what the server answers.                                         *)
(*                                                                         *)
(* Tasks are cooperative: the callback runs only when the session task has *)
(* yielded, the server at any time.  A frame is a few parts, so that a     *)
(* stream can end or block inside one.  Partial results which the code     *)
(* takes for a number of messages, and a stream which is read from a wrong *)
(* position, lead to the phase "lost": what follows depends on memory and  *)
(* on bytes which have no meaning.                                         *)
(***************************************************************************)
EXTENDS Integers, SequencesExt

CONSTANTS
    Pool,         \* UDP_POOL_SIZE
    Num,          \* the setting udp-copy-buffer-nums
    SockBuf,      \* the parts which the send buffer of the socket holds
    HeadParts, BodyParts,  \* the parts of an answer in a stream
    Named,        \* the targets which are names of the mapped DNS
    Clients,      \* the targets of the client's datagrams, in their order
    Chained,      \* those which lwIP has reassembled: chains of pbufs
    Answers       \* how many answers the server starts at most

Unset == "unset"

ASSUME UdpAssumption ==
    /\ Pool \in Nat /\ Num \in Nat \ {0} /\ SockBuf \in Nat \ {0}
    /\ HeadParts \in Nat \ {0} /\ BodyParts \in Nat \ {0} /\ Answers \in Nat
ASSUME ClientsAssumption == Unset \notin Named /\ \A c \in Clients : c \in Seq(Range(c))

Targets == UNION {Range(c) : c \in Clients}
\* The address which a server reports for a name it has resolved.
Resolved == "resolved"

VARIABLES
    mode,          \* HEV_SOCKS5_TYPE_UDP_IN_TCP or HEV_SOCKS5_TYPE_UDP_IN_UDP
    asks, asked,   \* the client's targets, and how many datagrams it has sent
    kept,          \* the datagrams which udp_recv_handler has queued so far
    frame_list,    \* those still in the list
    frames,        \* the counter of the list
    addr,          \* self->addr and self->port
    num, parts,    \* the messages of this sendmmsg, the parts of them written
    wire, sockq,   \* all parts written, and how many the server has not taken
    answers, put,  \* what the server answers, and the parts it has sent
    eof, err,      \* its stream has ended; the socket has an error
    ctrl_eof,      \* the controlling connection has ended
    read,          \* the parts read
    msgv,          \* the complete messages of this recvmmsg
    told,          \* what the client was told, and from which address
    res_f, res_b,  \* the results of the two directions
    phase,         \* where the session task is
    task,          \* whether it is "running", "ready" or "asleep"
    event,         \* the kernel has an event which the scheduler has not polled
    zero,          \* self->timeout is 0
    cut            \* an error, an expired timeout or the end of the control

client == <<asks, asked, kept, addr>>
list == <<frame_list, frames>>
upstream == <<num, parts, wire>>
server == <<answers, put, eof, ctrl_eof>>
answer == <<read, msgv, told>>
ctl == <<phase, task, event, zero, cut>>
vars == <<mode, client, list, upstream, sockq, server, err, answer, res_f, res_b, ctl>>

\* A frame is a header with the address, and the data, of which only the first
\* pbuf is given to sendmmsg: buf->payload and buf->len.
Contents == {"header", "all", "first"}
Pbufs(i) == IF i \in Chained THEN <<"first", "rest">> ELSE <<"all">>
Payload(i) == Head(Pbufs(i))
FrameParts == IF mode = "tcp" THEN 2 ELSE 1
AnswerParts == IF mode = "tcp" THEN HeadParts + BodyParts ELSE 1

Kinds == {"good", "bad"}
Over == phase \in {"ended", "lost"}

TypeOK ==
    /\ mode \in {"tcp", "udp"}
    /\ asks \in Clients /\ asked \in 0 .. Len(asks)
    /\ kept \in Seq(1 .. asked) /\ frame_list \in Seq(1 .. asked)
    /\ frames = Len(frame_list) /\ frames <= Pool + 1
    /\ addr \in Named \cup {Unset}
    /\ num \in 0 .. Num /\ parts \in 0 .. num * FrameParts
    /\ wire \in Seq((1 .. asked) \X Contents)
    /\ sockq \in 0 .. SockBuf
    /\ answers \in Seq([kind : Kinds, from : Targets])
    /\ put \in 0 .. Len(answers) * AnswerParts /\ read \in 0 .. put
    /\ msgv \in Seq(DOMAIN answers) /\ Len(msgv) <= Num
    /\ told \in Seq([answer : DOMAIN answers, src : Targets \cup {Resolved}])
    /\ res_f \in -1 .. 1 /\ res_b \in -1 .. 1
    /\ phase \in {"fwd_f", "send", "fwd_b", "head", "rest", "loop", "ended", "lost"}
    /\ task \in {"running", "ready", "asleep"}
    /\ {eof, err, ctrl_eof, event, zero, cut} \subseteq BOOLEAN

Init ==
    /\ mode \in {"tcp", "udp"}
    /\ asks \in Clients /\ asked = 0 /\ kept = <<>> /\ addr = Unset
    /\ frame_list = <<>> /\ frames = 0
    /\ num = 0 /\ parts = 0 /\ wire = <<>> /\ sockq = 0
    /\ answers = <<>> /\ put = 0 /\ eof = FALSE /\ err = FALSE /\ ctrl_eof = FALSE
    /\ read = 0 /\ msgv = <<>> /\ told = <<>>
    /\ res_f = 1 /\ res_b = 1
    /\ phase = "fwd_f" /\ task = "ready" /\ event = FALSE /\ zero = FALSE /\ cut = FALSE

Woken == task' = IF task = "asleep" THEN "ready" ELSE task

-----------------------------------------------------------------------------
(* udp_recv_handler: a datagram of the client                              *)

Full == frames > Pool
TargetAddr(t) == IF t \in Named THEN t ELSE addr

ClientSends ==
    /\ ~Over /\ task # "running" /\ asked < Len(asks)
    /\ asked' = asked + 1
    /\ IF Full
       THEN UNCHANGED <<kept, addr, list, task>>
       ELSE /\ kept' = Append(kept, asked')
            /\ frame_list' = Append(frame_list, asked')
            /\ frames' = frames + 1
            /\ addr' = TargetAddr(asks[asked'])
            /\ Woken
    /\ UNCHANGED <<mode, asks, upstream, sockq, server, err, answer, res_f, res_b, phase, event, zero, cut>>

\* hev_socks5_session_terminate, by lwIP, by the limit of sessions or by a stop.
TerminateNoWake == UNCHANGED task
TerminateWake == Woken
Terminate ==
    /\ ~Over /\ task # "running" /\ ~zero
    /\ zero' = TRUE /\ TerminateWake
    /\ UNCHANGED <<mode, client, list, upstream, sockq, server, err, answer, res_f, res_b, phase, event, cut>>

-----------------------------------------------------------------------------
(* hev_socks5_session_udp_fwd_f: to the server                             *)

Batch == IF frames > Num THEN Num ELSE frames

FwdF ==
    /\ phase = "fwd_f" /\ task = "running"
    /\ \/ /\ res_f < 0 \/ frames <= 0
          /\ phase' = "fwd_b"
          /\ res_f' = IF res_f < 0 THEN -1 ELSE 0
          /\ UNCHANGED upstream
       \/ /\ res_f >= 0 /\ frames > 0
          /\ phase' = "send" /\ num' = Batch /\ parts' = 0
          /\ UNCHANGED <<res_f, wire>>
    /\ UNCHANGED <<mode, client, list, sockq, server, err, answer, res_b, task, event, zero, cut>>

\* sendmmsg returns the number of messages sent; the one for streams, whose
\* result is a number of bytes, returns num if any byte was written.
SentAll(p) == IF p = 0 THEN 0 ELSE num
Sent(p) == IF mode = "udp" THEN p ELSE SentAll(p)

EndSend(p) ==
    LET n == Sent(p) IN
    /\ frame_list' = SubSeq(frame_list, n + 1, Len(frame_list))
    /\ frames' = frames - n
    /\ res_f' = IF n = 0 THEN -1 ELSE 1
    /\ num' = 0 /\ parts' = 0
    /\ phase' = "fwd_b"

Room == SockBuf - sockq
PartsOf(n) == n * FrameParts
Content(i, j) == IF j < FrameParts THEN "header" ELSE Payload(i)
Part(ids, k) ==
    LET i == ids[((k - 1) \div FrameParts) + 1] IN <<i, Content(i, ((k - 1) % FrameParts) + 1)>>

Send ==
    /\ phase = "send" /\ task = "running" /\ ~err /\ Room > 0
    /\ \E s \in 1 .. Min({Room, PartsOf(num) - parts}) :
          /\ wire' = wire \o [k \in 1 .. s |-> Part(frame_list, parts + k)]
          /\ sockq' = sockq + s
          /\ IF parts + s = PartsOf(num)
             THEN EndSend(parts + s)
             ELSE parts' = parts + s /\ UNCHANGED <<num, list, res_f, phase>>
    /\ UNCHANGED <<mode, client, server, err, answer, res_b, task, event, zero, cut>>

\* The socket reports an error: a stream is broken for good, an error of a
\* datagram socket is reported once.
Reported == cut' = TRUE /\ err' = (mode = "tcp")

SendError ==
    /\ phase = "send" /\ task = "running" /\ err
    /\ EndSend(parts) /\ Reported
    /\ UNCHANGED <<mode, client, wire, sockq, server, answer, res_b, task, event, zero>>

-----------------------------------------------------------------------------
(* hev_socks5_session_udp_fwd_b: to the client                             *)

UpstreamSame == UNCHANGED <<mode, client, list, upstream, sockq, server, res_f, event, zero>>

SkipB ==
    /\ phase = "fwd_b" /\ task = "running" /\ res_b < 0
    /\ phase' = "loop"
    /\ UNCHANGED <<err, answer, res_b, task, cut>> /\ UpstreamSame

EndBack(r) == res_b' = r /\ phase' = "loop" /\ msgv' = <<>>
Lost == phase' = "lost" /\ msgv' = <<>> /\ UNCHANGED res_b

\* A broken message returns -1 and leaves the errno of an earlier call: if
\* that was EAGAIN, the session waits for more.
EndBroken == UNCHANGED told /\ (EndBack(-1) \/ EndBack(0))

\* The messages are told to the client one by one; one that lwIP or its
\* conversion refuses ends this direction.
Seen(t) == IF t \in Named THEN Resolved ELSE t
SourceSeen(i) == Seen(answers[i].from)
Source(i) == IF addr # Unset THEN addr ELSE SourceSeen(i)

TellOn(ms) ==
    \E k \in 0 .. Len(ms) :
        /\ told' = told \o [j \in 1 .. k |-> [answer |-> ms[j], src |-> Source(ms[j])]]
        /\ EndBack(1)
Tell(ms) ==
    \E k \in 0 .. Len(ms) :
        /\ told' = told \o [j \in 1 .. k |-> [answer |-> ms[j], src |-> Source(ms[j])]]
        /\ EndBack(IF k = Len(ms) THEN 1 ELSE -1)

Reading == phase = "fwd_b" /\ task = "running" /\ res_b >= 0
Available == put - read

\* hev_socks5_udp_recvmmsg_tcp: the head of a message, then its body.
Offset == read % AnswerParts
Current == (read \div AnswerParts) + 1
CheckHead ==
    IF answers[Current].kind = "bad"
    THEN EndBroken
    ELSE phase' = "rest" /\ UNCHANGED <<told, msgv, res_b>>

HeadCounted == Lost /\ UNCHANGED told
HeadGoesOn == phase' = "head" /\ UNCHANGED <<told, msgv, res_b>>
ReadHead ==
    /\ mode = "tcp" /\ Reading /\ Offset = 0
    /\ ~err /\ Len(msgv) < Num /\ Available > 0
    /\ IF Available >= HeadParts
       THEN read' = read + HeadParts /\ CheckHead
       ELSE read' = read + Available /\ HeadGoesOn
    /\ UNCHANGED <<err, task, cut>> /\ UpstreamSame

ReadHeadOn ==
    /\ phase = "head" /\ task = "running" /\ ~err /\ Available > 0
    /\ IF Available >= HeadParts - Offset
       THEN read' = read + HeadParts - Offset /\ CheckHead
       ELSE read' = read + Available /\ UNCHANGED <<phase, told, msgv, res_b>>
    /\ UNCHANGED <<err, task, cut>> /\ UpstreamSame

ReadRest ==
    /\ phase = "rest" /\ task = "running" /\ ~err /\ Available > 0
    /\ \E s \in 1 .. Min({Available, AnswerParts - Offset}) :
          /\ read' = read + s
          /\ IF Offset + s = AnswerParts
             THEN msgv' = Append(msgv, Current) /\ phase' = "fwd_b"
             ELSE UNCHANGED <<msgv, phase>>
    /\ UNCHANGED <<told, res_b, err, task, cut>> /\ UpstreamSame

\* What is read from within a message is taken for a head.
Misread ==
    /\ mode = "tcp" /\ Reading /\ Offset # 0 /\ Available > 0
    /\ Lost
    /\ UNCHANGED <<read, told, err, task, cut>> /\ UpstreamSame

EndRead ==
    /\ mode = "tcp" /\ Reading /\ msgv # <<>>
    /\ Len(msgv) = Num \/ Available = 0 \/ err
    /\ Tell(msgv)
    /\ IF Len(msgv) < Num /\ err THEN Reported ELSE UNCHANGED <<err, cut>>
    /\ UNCHANGED <<read, task>> /\ UpstreamSame

\* hev_socks5_udp_recvmmsg_udp
Broken(ms) == \E i \in Range(ms) : answers[i].kind = "bad"
ReadDatagrams ==
    /\ mode = "udp" /\ Reading /\ ~err /\ Available > 0
    /\ LET n == Min({Num, Available})
           ms == [j \in 1 .. n |-> read + j] IN
       /\ read' = read + n
       /\ IF Broken(ms) THEN EndBroken ELSE Tell(ms)
    /\ UNCHANGED <<err, task, cut>> /\ UpstreamSame

NothingRead ==
    /\ Reading /\ msgv = <<>> /\ (Available = 0 \/ err)
    /\ EndBack(IF eof \/ err THEN -1 ELSE 0)
    /\ IF err THEN Reported ELSE UNCHANGED <<err, cut>>
    /\ UNCHANGED <<read, told, task>> /\ UpstreamSame

\* A stream that stops inside a head or a body.  The result of the second
\* recv is added to the bytes which the first one gave; whatever is positive
\* in the end counts as a number of messages.
EndHead(why) ==
    IF msgv # <<>>
    THEN Tell(msgv)
    ELSE /\ UNCHANGED told
         /\ \/ Lost
            \/ why # "eof" /\ EndBack(-1)
            \/ why = "yield" /\ EndBack(0)
EndRest ==
    /\ UNCHANGED told
    /\ IF Offset > HeadParts THEN Lost ELSE EndBack(-1)

StreamStops ==
    /\ phase \in {"head", "rest"} /\ task = "running"
    /\ err \/ (Available = 0 /\ eof)
    /\ IF phase = "head" THEN EndHead(IF err THEN "err" ELSE "eof") ELSE EndRest
    /\ IF err THEN Reported ELSE UNCHANGED <<err, cut>>
    /\ UNCHANGED <<read, task>> /\ UpstreamSame

-----------------------------------------------------------------------------
(* hev_socks5_session_udp_splice and task_io_yielder                       *)

Moved == res_f > 0 \/ res_b > 0
Idle == ~Moved /\ (res_f = 0 \/ res_b = 0)
ControlEnded == mode = "udp" /\ ctrl_eof

\* The destructor frees the frames.
End ==
    /\ phase' = "ended" /\ task' = "running"
    /\ frame_list' = <<>> /\ frames' = 0

\* The end of a turn without waiting.
Turn ==
    /\ phase = "loop" /\ task = "running" /\ ~Idle
    /\ IF Moved /\ ~ControlEnded
       THEN task' = "ready" /\ UNCHANGED <<list, phase, cut>>
       ELSE End /\ cut' = (cut \/ ControlEnded)
    /\ zero' = (zero \/ (Moved /\ ControlEnded))
    /\ UNCHANGED <<mode, client, upstream, sockq, server, err, answer, res_f, res_b, event>>

Resume ==
    /\ ~Over /\ task = "ready"
    /\ task' = "running"
    /\ phase' = IF phase = "loop" THEN "fwd_f" ELSE phase
    /\ UNCHANGED <<mode, client, list, upstream, sockq, server, err, answer, res_f, res_b, event, zero, cut>>

MustWait ==
    \/ phase = "send" /\ Room = 0 /\ ~err
    \/ phase \in {"head", "rest"} /\ Available = 0 /\ ~eof /\ ~err
    \/ phase = "loop" /\ Idle

Sleep ==
    /\ task = "running" /\ MustWait /\ ~zero /\ ~ControlEnded
    /\ task' = (IF event THEN "ready" ELSE "asleep") /\ event' = FALSE
    /\ UNCHANGED <<mode, client, list, upstream, sockq, server, err, answer, res_f, res_b, phase, zero, cut>>

\* The yielder returns -1: the session was terminated, its control has ended,
\* or the time is over.
YielderFails ==
    /\ cut' = TRUE
    /\ zero' = (zero \/ ControlEnded)
    /\ \/ /\ phase = "send"
          /\ EndSend(parts) /\ task' = "running"
          /\ UNCHANGED <<answer, res_b>>
       \/ /\ phase \in {"head", "rest"}
          /\ IF phase = "head" THEN EndHead("yield") ELSE EndRest
          /\ task' = "running"
          /\ UNCHANGED <<list, num, parts, read, res_f>>
       \/ /\ phase = "loop"
          /\ End
          /\ UNCHANGED <<num, parts, answer, res_f, res_b>>
    /\ UNCHANGED <<mode, client, wire, sockq, server, err, event>>

Refused == task = "running" /\ MustWait /\ (zero \/ ControlEnded) /\ YielderFails
Timeout == ~Over /\ task = "asleep" /\ YielderFails

-----------------------------------------------------------------------------
(* The SOCKS5 server                                                       *)

\* The scheduler sees an event at the latest when the task wants to sleep.
Event == Woken /\ event' = (task # "asleep")
\* What it does in the middle of a turn is seen as if done before or after.
Visible == ~Over /\ (task # "running" \/ phase = "loop")
OtherSame == UNCHANGED <<mode, client, list, upstream, answer, res_f, res_b, phase, zero, cut>>

\* The task waits for POLLIN and POLLOUT of the socket.
SpaceUnseen == UNCHANGED <<task, event>>
SpaceEvent == Event
ServerTakes ==
    /\ Visible /\ sockq > 0 /\ ~err
    /\ sockq' = sockq - 1
    /\ IF sockq = SockBuf THEN SpaceEvent ELSE UNCHANGED <<task, event>>
    /\ UNCHANGED <<server, err>> /\ OtherSame

\* It answers what it was sent.
Asked == {asks[wire[j][1]] : j \in 1 .. Len(wire) - sockq}
ServerSends ==
    /\ Visible /\ ~eof /\ ~err
    /\ put' = put + 1 /\ Event
    /\ UNCHANGED <<eof, ctrl_eof, sockq, err>> /\ OtherSame

ServerAnswers ==
    /\ put = Len(answers) * AnswerParts /\ Len(answers) < Answers
    /\ \E k \in Kinds, t \in Asked : answers' = Append(answers, [kind |-> k, from |-> t])
    /\ ServerSends
ServerGoesOn ==
    /\ put < Len(answers) * AnswerParts
    /\ UNCHANGED answers
    /\ ServerSends

ServerCloses ==
    /\ Visible /\ ~eof /\ ~ctrl_eof
    /\ eof' = (mode = "tcp") /\ ctrl_eof' = (mode = "udp") /\ Event
    /\ UNCHANGED <<answers, put, sockq, err>> /\ OtherSame

SocketBreaks ==
    /\ Visible /\ ~err /\ ~cut
    /\ err' = TRUE /\ Event
    /\ UNCHANGED <<server, sockq>> /\ OtherSame

Task ==
    \/ FwdF \/ Send \/ SendError
    \/ SkipB \/ ReadHead \/ ReadHeadOn \/ ReadRest \/ Misread \/ EndRead
    \/ ReadDatagrams \/ NothingRead \/ StreamStops
    \/ Turn \/ Resume \/ Sleep \/ Refused
Server == ServerTakes \/ ServerAnswers \/ ServerGoesOn \/ ServerCloses \/ SocketBreaks
Next ==
    \/ ClientSends \/ Terminate \/ Timeout \/ Task \/ Server

Spec == Init /\ [][Next]_vars

\* The scheduler runs the task; the server reads what it was sent and finishes
\* the answers it has begun.
FairSpec == Spec /\ WF_vars(Task) /\ WF_vars(ServerTakes) /\ WF_vars(ServerGoesOn)

-----------------------------------------------------------------------------
(* Properties                                                              *)

\* What the server receives are the datagrams which the session accepted, in
\* their order, none twice and none missing, and the list holds the ones not
\* yet sent; in a stream up to a send that is cut.  A datagram in one pbuf is
\* whole; of a chain the server receives what the first pbuf holds.
Bytes(ids) == [k \in 1 .. PartsOf(Len(ids)) |-> Part(ids, k)]
SentInOrder ==
    /\ mode = "udp" \/ ~cut =>
         /\ wire = SubSeq(Bytes(kept), 1, Len(wire))
         /\ phase # "ended" => Len(wire) = PartsOf(Len(kept) - Len(frame_list)) + parts
    /\ \A k \in DOMAIN wire : wire[k][2] = "first" => wire[k][1] \in Chained

\* Every datagram that is sent is whole.  This does not hold (README, What was
\* found); no run checks it.
SentWhole == \A k \in DOMAIN wire : wire[k][2] # "first"

\* The client is told the answers in their order, each once, and all of
\* those read while no message was broken and no answer refused.
ToldInOrder ==
    LET ids == [j \in DOMAIN told |-> told[j].answer]
        complete == [i \in 1 .. read \div AnswerParts |-> i] IN
    /\ \A i, j \in DOMAIN ids : i < j => ids[i] < ids[j]
    /\ res_b >= 0 /\ ~Over /\ ~Broken([i \in DOMAIN answers |-> i])
        => ids \o msgv = complete

\* The address of an answer is the one the client has asked, as long as it
\* asks no name or a single target.
SourceAsked ==
    LET targets == {asks[i] : i \in Range(kept)} IN
    targets \cap Named = {} \/ Cardinality(targets) = 1 =>
        \A j \in DOMAIN told : told[j].src = answers[told[j].answer].from

\* Undefined results need a broken message or a stream stopped inside one.
LostOnlyWhenBroken ==
    phase = "lost" =>
        cut \/ eof \/ err \/ \E i \in DOMAIN answers : answers[i].kind = "bad"

\* While both directions work, the task sleeps only if nothing can be done:
\* whatever arrives in its turn wakes it.  Only what comes while it waits for
\* the rest of an answer that then breaks may be left.  A session that is
\* terminated or has lost its control never sleeps.
Working ==
    /\ res_f >= 0 /\ res_b >= 0
    /\ ~cut /\ ~Broken([i \in DOMAIN answers |-> i])
SleepsIdle ==
    task = "asleep" =>
        /\ MustWait /\ ~zero /\ ~ControlEnded
        /\ phase = "loop" /\ Working =>
              frames = 0 /\ Available = 0 /\ ~eof /\ ~err

\* Again and again every accepted datagram has left the list of a session in
\* which both directions work; a session that is terminated or has lost its
\* control ends.
Drains ==
    []<>(/\ Working => frames = 0 \/ Over
         /\ zero \/ ControlEnded => Over)
=============================================================================
