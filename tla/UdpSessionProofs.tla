-------------------------- MODULE UdpSessionProofs ---------------------------
(***************************************************************************)
(* Proofs about UdpSession, for any sizes and any datagrams of the client. *)
(***************************************************************************)
EXTENDS UdpSession, SequenceTheorems, FiniteSetTheorems, TLAPS

\* How many answers have been read.
Complete == read \div AnswerParts

\* No answer so far is a broken one.
AllGood == \A i \in 1 .. Len(answers) : answers[i].kind # "bad"

\* The targets of the datagrams accepted so far.
KeptTargets == {asks[i] : i \in Range(kept)}

\* The list holds the last of the accepted datagrams.
ListInv ==
    /\ mode \in {"tcp", "udp"} /\ asks \in Clients /\ asked \in 0 .. Len(asks)
    /\ kept \in Seq(1 .. asked) /\ frame_list \in Seq(1 .. asked)
    /\ frames = Len(frame_list) /\ frames <= Pool + 1
    /\ phase # "ended" =>
         /\ Len(frame_list) <= Len(kept)
         /\ \A i \in 1 .. Len(frame_list) :
               frame_list[i] = kept[Len(kept) - Len(frame_list) + i]

\* A batch is open in the phase "send" only, and not written to its end.
BatchInv ==
    /\ num \in 0 .. Num /\ num <= frames /\ parts \in Nat
    /\ phase # "send" => num = 0 /\ parts = 0
    /\ phase = "send" => parts < PartsOf(num)

\* The parts of the first n datagrams; only a chain is cut.
Written(n) == {w \in (1 .. n) \X Contents : w[2] = "first" => w[1] \in Chained}

\* What is written are parts of accepted datagrams; in a stream up to a send
\* that is cut, and as datagrams always, all of those before the list.
WireInv ==
    /\ wire \in Seq(Written(asked)) /\ sockq \in 0 .. SockBuf
    /\ \A k \in 1 .. Len(wire) : wire[k][1] \in Range(kept)
    /\ mode = "udp" \/ ~cut =>
         /\ Len(wire) <= PartsOf(Len(kept))
         /\ \A k \in 1 .. Len(wire) : wire[k] = Part(kept, k)
         /\ phase # "ended" => Len(wire) = PartsOf(Len(kept) - Len(frame_list)) + parts

\* Where the session stands within an answer, and the messages of this
\* recvmmsg, which are the last ones read.
ReadInv ==
    /\ answers \in Seq([kind : Kinds, from : Targets])
    /\ put \in 0 .. Len(answers) * AnswerParts /\ read \in 0 .. put
    /\ phase \in {"head", "rest"} => mode = "tcp" /\ Len(msgv) < Num
    /\ phase = "head" => Offset \in 1 .. HeadParts - 1
    /\ phase = "rest" => Offset >= HeadParts
    /\ phase \in {"head", "rest"} \/ msgv # <<>> => res_b >= 0
    /\ mode = "udp" \/ phase \notin {"fwd_b", "head", "rest"} => msgv = <<>>
    /\ msgv \in Seq(Nat) /\ Len(msgv) <= Num /\ Len(msgv) <= Complete
    /\ \A j \in 1 .. Len(msgv) : msgv[j] = Complete - Len(msgv) + j

\* The answers told so far come before those in msgv.
ToldInv ==
    /\ told \in Seq([answer : 1 .. Len(answers), src : Targets \cup {Resolved}])
    /\ \A j \in 1 .. Len(told) : told[j].answer <= Complete - Len(msgv)
    /\ \A i, j \in 1 .. Len(told) : i < j => told[i].answer < told[j].answer
    /\ res_b >= 0 /\ ~Over /\ AllGood =>
         /\ Len(told) = Complete - Len(msgv)
         /\ \A j \in 1 .. Len(told) : told[j].answer = j

\* The client's own address for a name is kept as soon as it asks one.
OneTarget == KeptTargets \cap Named = {} \/ \E t \in KeptTargets : KeptTargets = {t}
SourceInv ==
    /\ addr = Unset => KeptTargets \cap Named = {}
    /\ addr # Unset => addr \in KeptTargets \cap Named
    /\ \A i \in 1 .. Len(answers) : answers[i].from \in KeptTargets
    /\ OneTarget => \A j \in 1 .. Len(told) : told[j].src = answers[told[j].answer].from

\* The session leaves the middle of an answer for a reason only.
BrokenInv ==
    phase = "lost" \/ (phase \notin {"head", "rest"} /\ Offset # 0) =>
        cut \/ eof \/ err \/ ~AllGood

PlaceInv ==
    /\ res_f \in -1 .. 1 /\ res_b \in -1 .. 1
    /\ phase \in {"fwd_f", "send", "fwd_b", "head", "rest", "loop", "ended", "lost"}
    /\ task \in {"running", "ready", "asleep"}
    /\ eof \in BOOLEAN /\ err \in BOOLEAN /\ ctrl_eof \in BOOLEAN
    /\ event \in BOOLEAN /\ zero \in BOOLEAN /\ cut \in BOOLEAN
    /\ phase \in {"fwd_b", "lost", "ended"} => task = "running"

\* A turn that has found nothing in both directions: the list was empty when
\* the other direction began, and whatever the server did since is an event.
Quiet == res_f = 0 /\ res_b = 0 /\ ~cut /\ AllGood
SleepInv ==
    /\ task = "asleep" => MustWait /\ ~zero /\ ~ControlEnded /\ ~event
    /\ phase = "fwd_b" /\ msgv = <<>> /\ res_f = 0 => frames = 0
    /\ phase = "loop" /\ Quiet /\ task # "ready" =>
         /\ frames = 0
         /\ event \/ (Available = 0 /\ ~eof /\ ~err)

IInv ==
    /\ ListInv /\ BatchInv /\ WireInv
    /\ ReadInv /\ ToldInv /\ SourceInv
    /\ BrokenInv /\ PlaceInv /\ SleepInv

-----------------------------------------------------------------------------
(* Counting parts                                                          *)

LEMMA MinOfTwo ==
    ASSUME NEW a \in Int, NEW b \in Int
    PROVE  Min({a, b}) \in {a, b} /\ Min({a, b}) <= a /\ Min({a, b}) <= b
<1>1. \E x \in {a, b} : \A y \in {a, b} : x <= y
  OBVIOUS
<1>2. Min({a, b}) \in {a, b} /\ \A y \in {a, b} : Min({a, b}) <= y
  BY <1>1 DEF Min
<1> QED
  BY <1>2

LEMMA PartsPerFrame == FrameParts \in {1, 2} /\ \A n \in Nat : PartsOf(n) \in Nat
BY DEF FrameParts, PartsOf

LEMMA AnswerSize ==
    /\ AnswerParts \in Nat \ {0}
    /\ mode = "tcp" => AnswerParts = HeadParts + BodyParts
    /\ mode # "tcp" => AnswerParts = 1
BY UdpAssumption DEF AnswerParts

\* Part k of n frames lies in one of them.
LEMMA PartWithin ==
    ASSUME NEW n \in Nat, NEW k \in 1 .. PartsOf(n)
    PROVE  /\ ((k - 1) \div FrameParts) + 1 \in 1 .. n
           /\ ((k - 1) % FrameParts) + 1 \in 1 .. FrameParts
<1>1. CASE FrameParts = 1
  BY <1>1 DEF PartsOf
<1>2. CASE FrameParts = 2
  BY <1>2 DEF PartsOf
<1> QED
  BY <1>1, <1>2, PartsPerFrame

\* Part k of frames that follow m others.
LEMMA PartBehind ==
    ASSUME NEW m \in Nat, NEW k \in Nat \ {0}
    PROVE  /\ ((PartsOf(m) + k - 1) \div FrameParts) + 1 = m + ((k - 1) \div FrameParts) + 1
           /\ (PartsOf(m) + k - 1) % FrameParts = (k - 1) % FrameParts
<1>1. CASE FrameParts = 1
  BY <1>1 DEF PartsOf
<1>2. CASE FrameParts = 2
  BY <1>2 DEF PartsOf
<1> QED
  BY <1>1, <1>2, PartsPerFrame

LEMMA PartsAdd ==
    ASSUME NEW m \in Nat, NEW n \in Nat
    PROVE  /\ PartsOf(m + n) = PartsOf(m) + PartsOf(n)
           /\ m <= n => PartsOf(m) <= PartsOf(n)
<1>1. CASE FrameParts = 1
  BY <1>1 DEF PartsOf
<1>2. CASE FrameParts = 2
  BY <1>2 DEF PartsOf
<1> QED
  BY <1>1, <1>2, PartsPerFrame

\* The place within an answer moves on, or the answer is complete.
LEMMA AnswerGoesOn ==
    ASSUME NEW P \in Nat \ {0}, NEW r \in Nat, NEW s \in Nat, (r % P) + s < P
    PROVE  (r + s) \div P = r \div P /\ (r + s) % P = (r % P) + s
  OBVIOUS

LEMMA AnswerEnds ==
    ASSUME NEW P \in Nat \ {0}, NEW r \in Nat, NEW s \in Nat, (r % P) + s = P
    PROVE  (r + s) \div P = (r \div P) + 1 /\ (r + s) % P = 0
  OBVIOUS

LEMMA AnswersWithin ==
    ASSUME NEW P \in Nat \ {0}, NEW r \in Nat, NEW n \in Nat
    PROVE  /\ r \div P \in Nat /\ r % P \in 0 .. P - 1
           /\ r <= n * P => r \div P <= n
           /\ r < n * P => r \div P < n
  OBVIOUS

-----------------------------------------------------------------------------
(* To the server                                                           *)

UpInv == ListInv /\ BatchInv /\ WireInv

LEMMA UpTypes ==
    ASSUME UpInv
    PROVE  /\ Len(kept) \in Nat /\ Len(frame_list) \in Nat /\ Len(wire) \in Nat
           /\ num \in Nat /\ parts \in Nat /\ asked \in Nat /\ Len(asks) \in Nat
           /\ asks \in Seq(Range(asks))
           /\ FrameParts \in {1, 2} /\ (mode = "tcp" => FrameParts = 2)
           /\ (mode = "udp" => FrameParts = 1)
<1>1. asks \in Seq(Range(asks))
  BY ClientsAssumption DEF UpInv, ListInv
<1> QED
  BY <1>1, LenProperties, UdpAssumption, PartsPerFrame
     DEF UpInv, ListInv, BatchInv, WireInv, FrameParts

\* The steps that write nothing and take nothing from the list.
LEMMA UpSame ==
    ASSUME UpInv, UNCHANGED <<mode, client, list, upstream>>,
           phase' = "send" <=> phase = "send", phase # "ended",
           sockq' \in 0 .. SockBuf, cut => cut'
    PROVE  UpInv'
<1> USE DEF client, list, upstream
<1>1. FrameParts' = FrameParts
  BY DEF FrameParts
<1>2. ListInv'
  BY DEF UpInv, ListInv
<1>3. BatchInv'
  BY <1>1 DEF UpInv, BatchInv, PartsOf
<1>4. WireInv'
  <2>1. (mode = "udp" \/ ~cut)' => mode = "udp" \/ ~cut
    OBVIOUS
  <2>2. \A k \in 1 .. Len(wire) : wire[k][1] \in Range(kept)
    BY DEF UpInv, WireInv
  <2> QED
    BY <1>1, <2>1, <2>2 DEF UpInv, WireInv, PartsOf, Part, Content
<1> QED
  BY <1>2, <1>3, <1>4 DEF UpInv

\* The list is dropped with the session.
LEMMA UpEnd ==
    ASSUME UpInv, UNCHANGED <<mode, client, upstream, sockq>>, End,
           phase # "send", cut => cut'
    PROVE  UpInv'
<1> USE DEF client, upstream, End
<1>1. FrameParts' = FrameParts
  BY DEF FrameParts
<1>2. ListInv'
  BY UdpAssumption, EmptySeq DEF UpInv, ListInv
<1>3. BatchInv'
  BY <1>1, UdpAssumption DEF UpInv, BatchInv, PartsOf
<1>4. WireInv'
  BY <1>1 DEF UpInv, WireInv, PartsOf, Part, Content
<1> QED
  BY <1>2, <1>3, <1>4 DEF UpInv

LEMMA UpClientSends == UpInv /\ ClientSends => UpInv'
<1> SUFFICES ASSUME UpInv, ClientSends PROVE UpInv'
  OBVIOUS
<1>1. /\ phase # "ended" /\ asked < Len(asks) /\ asked' = asked + 1
      /\ UNCHANGED <<mode, asks, upstream, sockq, phase, cut>>
  BY DEF ClientSends, Over
<1>2. FrameParts' = FrameParts /\ \A n : PartsOf(n)' = PartsOf(n)
  BY <1>1 DEF FrameParts, PartsOf
<1>3. asked' \in 0 .. Len(asks) /\ asked' \in 1 .. asked' /\ 1 .. asked \subseteq 1 .. asked'
  BY <1>1, UpTypes DEF UpInv, ListInv
<1>4. kept \in Seq(1 .. asked') /\ frame_list \in Seq(1 .. asked')
  BY <1>3, SeqMonotonic DEF UpInv, ListInv
<1>5. wire \in Seq(Written(asked'))
  <2>1. Written(asked) \subseteq Written(asked')
    BY <1>3 DEF Written
  <2> QED
    BY <2>1, SeqMonotonic DEF UpInv, WireInv
<1>6. CASE Full
  <2>1. UNCHANGED <<kept, list>>
    BY <1>6 DEF ClientSends
  <2>2. ListInv'
    BY <1>1, <1>3, <1>4, <2>1 DEF UpInv, ListInv, list
  <2>3. BatchInv'
    BY <1>1, <1>2, <2>1 DEF UpInv, BatchInv, list, upstream, PartsOf
  <2>4. WireInv'
    BY <1>1, <1>2, <1>5, <2>1 DEF UpInv, WireInv, list, upstream, PartsOf, Part, Content
  <2> QED
    BY <2>2, <2>3, <2>4 DEF UpInv
<1>7. CASE ~Full
  <2>1. /\ kept' = Append(kept, asked') /\ frame_list' = Append(frame_list, asked')
        /\ frames' = frames + 1
    BY <1>7 DEF ClientSends
  <2>2. /\ kept' \in Seq(1 .. asked') /\ Len(kept') = Len(kept) + 1
        /\ \A i \in 1 .. Len(kept) : kept'[i] = kept[i]
        /\ kept'[Len(kept) + 1] = asked'
    BY <1>3, <1>4, <2>1, AppendProperties
  <2>3. /\ frame_list' \in Seq(1 .. asked') /\ Len(frame_list') = Len(frame_list) + 1
        /\ \A i \in 1 .. Len(frame_list) : frame_list'[i] = frame_list[i]
        /\ frame_list'[Len(frame_list) + 1] = asked'
    BY <1>3, <1>4, <2>1, AppendProperties
  <2>4. frames' = Len(frame_list') /\ frames' <= Pool + 1
    BY <1>7, <2>1, <2>3, UpTypes, UdpAssumption DEF UpInv, ListInv, Full
  <2>5. /\ Len(frame_list) <= Len(kept)
        /\ \A i \in 1 .. Len(frame_list) : frame_list[i] = kept[Len(kept) - Len(frame_list) + i]
    BY <1>1 DEF UpInv, ListInv
  <2>6. /\ Len(frame_list') <= Len(kept')
        /\ \A i \in 1 .. Len(frame_list') :
              frame_list'[i] = kept'[Len(kept') - Len(frame_list') + i]
    <3>1. Len(kept') - Len(frame_list') = Len(kept) - Len(frame_list)
          /\ Len(frame_list') <= Len(kept')
      BY <2>2, <2>3, <2>5, UpTypes
    <3>2. ASSUME NEW i \in 1 .. Len(frame_list) + 1
          PROVE  frame_list'[i] = kept'[Len(kept) - Len(frame_list) + i]
      <4>1. CASE i \in 1 .. Len(frame_list)
        <5>1. Len(kept) - Len(frame_list) + i \in 1 .. Len(kept)
          BY <2>5, <4>1, UpTypes
        <5> QED
          BY <2>2, <2>3, <2>5, <4>1, <5>1
      <4>2. CASE i = Len(frame_list) + 1
        <5>1. Len(kept) - Len(frame_list) + i = Len(kept) + 1
          BY <4>2, UpTypes
        <5> QED
          BY <2>2, <2>3, <4>2, <5>1
      <4> QED
        BY <4>1, <4>2, UpTypes
    <3> QED
      BY <2>3, <3>1, <3>2
  <2>7. ListInv'
    BY <1>1, <1>3, <2>2, <2>3, <2>4, <2>6 DEF UpInv, ListInv
  <2>8. BatchInv'
    BY <1>1, <1>2, <2>1, UpTypes DEF UpInv, BatchInv, ListInv, upstream, PartsOf
  <2>9. /\ \A k \in 1 .. Len(wire) : wire[k][1] \in Range(kept')
        /\ mode = "udp" \/ ~cut =>
             /\ Len(wire) <= PartsOf(Len(kept'))
             /\ \A k \in 1 .. Len(wire) : wire[k] = Part(kept', k)
             /\ Len(wire) = PartsOf(Len(kept') - Len(frame_list')) + parts
    <3>1. ASSUME NEW k \in 1 .. Len(wire) PROVE wire[k][1] \in Range(kept')
      <4>1. wire[k][1] \in Range(kept)
        BY DEF UpInv, WireInv
      <4>2. DOMAIN kept = 1 .. Len(kept) /\ DOMAIN kept' = 1 .. Len(kept')
        BY <1>4, <2>2, LenProperties
      <4>3. PICK i \in 1 .. Len(kept) : wire[k][1] = kept[i]
        BY <4>1, <4>2 DEF Range
      <4>4. i \in 1 .. Len(kept') /\ wire[k][1] = kept'[i]
        BY <2>2, <4>3, UpTypes
      <4> QED
        BY <4>2, <4>4 DEF Range
    <3>2. ASSUME mode = "udp" \/ ~cut
          PROVE  /\ Len(wire) <= PartsOf(Len(kept'))
                 /\ \A k \in 1 .. Len(wire) : wire[k] = Part(kept', k)
                 /\ Len(wire) = PartsOf(Len(kept') - Len(frame_list')) + parts
      <4>1. /\ Len(wire) <= PartsOf(Len(kept))
            /\ \A k \in 1 .. Len(wire) : wire[k] = Part(kept, k)
            /\ Len(wire) = PartsOf(Len(kept) - Len(frame_list)) + parts
        BY <1>1, <3>2 DEF UpInv, WireInv
      <4>2. PartsOf(Len(kept')) = PartsOf(Len(kept)) + PartsOf(1) /\ PartsOf(1) \in Nat
            /\ PartsOf(Len(kept)) \in Nat
        BY <2>2, UpTypes, PartsAdd, PartsPerFrame
      <4>3. Len(kept') - Len(frame_list') = Len(kept) - Len(frame_list)
        BY <2>2, <2>3, UpTypes
      <4>4. ASSUME NEW k \in 1 .. Len(wire) PROVE wire[k] = Part(kept', k)
        <5>1. k \in 1 .. PartsOf(Len(kept))
          BY <4>1, <4>2, UpTypes
        <5>2. ((k - 1) \div FrameParts) + 1 \in 1 .. Len(kept)
          BY <5>1, UpTypes, PartWithin
        <5> QED
          BY <2>2, <4>1, <5>2 DEF Part
      <4> QED
        BY <4>1, <4>2, <4>3, <4>4, UpTypes
    <3> QED
      BY <3>1, <3>2
  <2>10. WireInv'
    BY <1>1, <1>2, <1>5, <2>9 DEF UpInv, WireInv, upstream, PartsOf, Part, Content
  <2> QED
    BY <2>7, <2>8, <2>10 DEF UpInv
<1> QED
  BY <1>6, <1>7

LEMMA UpFwdF == UpInv /\ FwdF => UpInv'
<1> SUFFICES ASSUME UpInv, FwdF PROVE UpInv'
  OBVIOUS
<1>1. /\ phase = "fwd_f"
      /\ UNCHANGED <<mode, client, list, sockq, cut>>
  BY DEF FwdF
<1>2. CASE phase' = "send"
  <2>1. /\ num' = Batch /\ parts' = 0 /\ wire' = wire /\ frames > 0
    BY <1>2 DEF FwdF
  <2>2. num = 0 /\ parts = 0
    BY <1>1 DEF UpInv, BatchInv
  <2>3. Batch \in 1 .. Num /\ Batch <= frames
    BY <2>1, UdpAssumption, UpTypes DEF Batch, UpInv, ListInv
  <2>4. FrameParts' = FrameParts
    BY <1>1 DEF FrameParts
  <2>5. ListInv'
    BY <1>1, <1>2 DEF client, list, UpInv, ListInv
  <2>6. num' * FrameParts > 0
    <3>1. num' \in Nat /\ num' > 0
      BY <2>1, <2>3, UdpAssumption
    <3> QED
      BY <3>1, UpTypes
  <2>7. BatchInv'
    <3>1. num' \in 0 .. Num /\ num' <= frames'
      BY <1>1, <2>1, <2>3, UdpAssumption DEF list
    <3> QED
      BY <1>2, <2>1, <2>4, <2>6, <3>1 DEF BatchInv, PartsOf
  <2>8. WireInv'
    BY <1>1, <1>2, <2>1, <2>2, <2>4 DEF client, list, UpInv, WireInv, PartsOf, Part, Content
  <2> QED
    BY <2>5, <2>7, <2>8 DEF UpInv
<1>3. CASE phase' # "send"
  <2>1. UNCHANGED upstream
    BY <1>3 DEF FwdF
  <2>2. sockq' \in 0 .. SockBuf
    BY <1>1 DEF UpInv, WireInv
  <2> QED
    BY <1>1, <1>3, <2>1, <2>2, UpSame
<1> QED
  BY <1>2, <1>3

\* The first n of the list are taken out when a send ends.
LEMMA ListDrop ==
    ASSUME UpInv, phase = "send", NEW n \in 0 .. frames,
           frame_list' = SubSeq(frame_list, n + 1, Len(frame_list)),
           frames' = frames - n, phase' = "fwd_b", UNCHANGED <<mode, client>>
    PROVE  ListInv' /\ Len(frame_list') = Len(frame_list) - n
<1>1. /\ frame_list \in Seq(1 .. asked) /\ frames = Len(frame_list)
      /\ Len(frame_list) <= Len(kept)
      /\ \A i \in 1 .. Len(frame_list) : frame_list[i] = kept[Len(kept) - Len(frame_list) + i]
      /\ Len(frame_list) \in Nat /\ Len(kept) \in Nat
  BY UpTypes DEF UpInv, ListInv
<1>0. frames \in Nat /\ n \in Nat /\ n <= Len(frame_list)
  BY <1>1
<1>2. ASSUME NEW i \in n + 1 .. Len(frame_list)
      PROVE  frame_list[i] \in 1 .. asked
  <2>1. i \in 1 .. Len(frame_list)
    BY <1>0, <1>1
  <2> QED
    BY <1>1, <2>1, ElementOfSeq
<1>3. /\ frame_list' \in Seq(1 .. asked)
      /\ Len(frame_list') = IF n + 1 <= Len(frame_list) THEN Len(frame_list) - (n + 1) + 1 ELSE 0
      /\ \A i \in 1 .. Len(frame_list) - (n + 1) + 1 : frame_list'[i] = frame_list[n + 1 + i - 1]
  BY <1>0, <1>1, <1>2, SubSeqProperties
<1>4. Len(frame_list') = Len(frame_list) - n
  BY <1>0, <1>1, <1>3
<1>5. ASSUME NEW i \in 1 .. Len(frame_list')
      PROVE  frame_list'[i] = kept[Len(kept) - Len(frame_list') + i]
  <2>0. i \in Nat /\ 1 <= i /\ i <= Len(frame_list) - n
    BY <1>0, <1>1, <1>4
  <2>1. i \in 1 .. Len(frame_list) - (n + 1) + 1 /\ n + 1 + i - 1 = n + i
        /\ n + i \in 1 .. Len(frame_list)
    BY <2>0, <1>0, <1>1
  <2>2. Len(kept) - Len(frame_list) + (n + i) = Len(kept) - Len(frame_list') + i
    <3> DEFINE a == Len(kept)
               b == Len(frame_list)
               c == Len(frame_list')
    <3>1. a \in Int /\ b \in Int /\ c = b - n /\ n \in Int /\ i \in Int
      BY <2>0, <1>0, <1>1, <1>4
    <3> HIDE DEF a, b, c
    <3>2. a - b + (n + i) = a - c + i
      BY <3>1
    <3> QED
      BY <3>2 DEF a, b, c
  <2>3. frame_list'[i] = frame_list[n + i]
    BY <1>3, <2>1
  <2> QED
    BY <1>1, <2>1, <2>2, <2>3
<1>6. frames' = Len(frame_list') /\ frames' <= Pool + 1
  BY <1>0, <1>1, <1>4, UdpAssumption DEF UpInv, ListInv
<1>7. Len(frame_list') <= Len(kept)
  BY <1>0, <1>1, <1>4
<1> QED
  BY <1>3, <1>4, <1>5, <1>6, <1>7 DEF UpInv, ListInv, client

\* How many frames leave the list.
LEMMA SentRange ==
    ASSUME UpInv, phase = "send", NEW p \in 0 .. PartsOf(num)
    PROVE  /\ Sent(p) \in 0 .. frames
           /\ p = PartsOf(num) => Sent(p) = num
           /\ mode = "udp" => Sent(p) = p
<1>0. /\ frames \in Nat /\ PartsOf(num) \in Nat
      /\ p \in Nat /\ p <= PartsOf(num)
  <2>1. frames \in Nat /\ PartsOf(num) \in Nat
    BY UpTypes, PartsPerFrame DEF UpInv, ListInv
  <2> QED
    BY <2>1
<1>1. num \in Nat /\ num > 0 /\ num <= frames
  <2>1. num \in Nat /\ num <= frames /\ parts < PartsOf(num) /\ parts \in Nat
    BY UpTypes DEF UpInv, BatchInv
  <2>2. num # 0
    BY <2>1, UpTypes DEF PartsOf
  <2> QED
    BY <2>1, <2>2
<1>2. mode \in {"tcp", "udp"}
  BY DEF UpInv, ListInv
<1>3. CASE mode = "udp"
  <2>1. Sent(p) = p /\ PartsOf(num) = num
    BY <1>1, <1>3, UpTypes DEF Sent, PartsOf
  <2> QED
    BY <1>0, <1>1, <2>1
<1>4. CASE mode = "tcp"
  <2>1. Sent(p) = IF p = 0 THEN 0 ELSE num
    BY <1>4 DEF Sent, SentAll
  <2>2. PartsOf(num) > 0
    BY <1>1, <1>4, UpTypes DEF PartsOf
  <2> QED
    BY <1>0, <1>1, <1>4, <2>1, <2>2
<1> QED
  BY <1>2, <1>3, <1>4

\* A send that is cut: an error, or the yielder fails.
LEMMA UpSendCut ==
    ASSUME UpInv, phase = "send", EndSend(parts), cut',
           UNCHANGED <<mode, client, wire, sockq>>
    PROVE  UpInv'
<1> DEFINE n == Sent(parts)
<1>1. parts \in 0 .. PartsOf(num) /\ PartsOf(num) \in Nat
  BY UpTypes, PartsPerFrame DEF UpInv, BatchInv
<1>2. n \in 0 .. frames /\ (mode = "udp" => n = parts)
  BY <1>1, SentRange
<1> HIDE DEF n
<1>3. /\ frame_list' = SubSeq(frame_list, n + 1, Len(frame_list)) /\ frames' = frames - n
      /\ num' = 0 /\ parts' = 0 /\ phase' = "fwd_b"
  BY DEF EndSend, n
<1>4. ListInv' /\ Len(frame_list') = Len(frame_list) - n
  BY <1>2, <1>3, ListDrop
<1>5. FrameParts' = FrameParts
  BY DEF FrameParts
<1>6. BatchInv'
  BY <1>3, <1>4, UdpAssumption, LenProperties DEF BatchInv, ListInv
<1>7. mode = "udp" => Len(wire) = PartsOf(Len(kept) - Len(frame_list')) + parts'
  <2> SUFFICES ASSUME mode = "udp" PROVE Len(wire) = PartsOf(Len(kept) - Len(frame_list')) + parts'
    OBVIOUS
  <2>1. Len(wire) = PartsOf(Len(kept) - Len(frame_list)) + parts
    BY DEF UpInv, WireInv
  <2>2. FrameParts = 1
    BY UpTypes
  <2> QED
    BY <1>2, <1>3, <1>4, <2>1, <2>2, UpTypes DEF PartsOf
<1>8. WireInv'
  <2>1. ASSUME NEW k \in 1 .. Len(wire) PROVE wire[k][1] \in Range(kept)
    BY DEF UpInv, WireInv
  <2>2. mode = "udp" =>
          /\ Len(wire) <= PartsOf(Len(kept))
          /\ \A k \in 1 .. Len(wire) : wire[k] = Part(kept, k)
    BY DEF UpInv, WireInv
  <2>3. wire \in Seq(Written(asked)) /\ sockq \in 0 .. SockBuf
    BY DEF UpInv, WireInv
  <2> QED
    BY <1>5, <1>7, <2>1, <2>2, <2>3 DEF WireInv, client, PartsOf, Part, Content
<1> QED
  BY <1>4, <1>6, <1>8 DEF UpInv

LEMMA UpSend == UpInv /\ Send => UpInv'
<1> SUFFICES ASSUME UpInv, Send PROVE UpInv'
  OBVIOUS
<1>1. PICK s \in 1 .. Min({Room, PartsOf(num) - parts}) :
        /\ wire' = wire \o [k \in 1 .. s |-> Part(frame_list, parts + k)]
        /\ sockq' = sockq + s
        /\ IF parts + s = PartsOf(num)
           THEN EndSend(parts + s)
           ELSE parts' = parts + s /\ UNCHANGED <<num, list, res_f, phase>>
  BY DEF Send
<1>2. phase = "send" /\ UNCHANGED <<mode, client, cut>> /\ Room > 0
  BY DEF Send
<1>3. parts < PartsOf(num) /\ PartsOf(num) \in Nat /\ sockq \in 0 .. SockBuf /\ SockBuf \in Nat
  BY <1>2, UdpAssumption, UpTypes, PartsPerFrame DEF UpInv, BatchInv, WireInv
<1>4. s \in Nat /\ s >= 1 /\ s <= Room /\ s <= PartsOf(num) - parts
  <2> DEFINE a == Room
             b == PartsOf(num) - parts
  <2>1. a \in Int /\ b \in Int
    BY <1>3, UpTypes DEF Room
  <2>2. s \in 1 .. Min({a, b})
    OBVIOUS
  <2> HIDE DEF a, b
  <2>3. Min({a, b}) \in Int /\ Min({a, b}) <= a /\ Min({a, b}) <= b
    BY <2>1, MinOfTwo
  <2>4. s \in Nat /\ s >= 1 /\ s <= a /\ s <= b
    BY <2>1, <2>2, <2>3
  <2> QED
    BY <2>4 DEF a, b
<1>5. sockq' \in 0 .. SockBuf
  BY <1>1, <1>3, <1>4 DEF Room
<1>6. FrameParts' = FrameParts
  BY <1>2 DEF FrameParts
<1> DEFINE m == Len(kept) - Len(frame_list)
           new == [k \in 1 .. s |-> Part(frame_list, parts + k)]
<1>7. m \in Nat /\ m + Len(frame_list) = Len(kept)
      /\ \A i \in 1 .. Len(frame_list) : frame_list[i] = kept[m + i]
  BY <1>2, UpTypes DEF UpInv, ListInv
<1>8. num <= Len(frame_list) /\ PartsOf(num) <= PartsOf(Len(frame_list))
      /\ PartsOf(Len(frame_list)) \in Nat
  BY UpTypes, PartsAdd, PartsPerFrame DEF UpInv, BatchInv, ListInv
<1>9. ASSUME NEW k \in 1 .. s
      PROVE  /\ new[k] = Part(kept, PartsOf(m) + (parts + k))
             /\ new[k] \in Written(asked)
             /\ new[k][1] \in Range(kept)
  <2>0. k \in Nat /\ k >= 1 /\ k <= s
    BY <1>4
  <2>1. PICK at \in Nat \ {0} : at = parts + k /\ at \in 1 .. PartsOf(Len(frame_list))
    BY <2>0, <1>3, <1>4, <1>8, UpTypes
  <2>2. PICK i, j : /\ i = ((at - 1) \div FrameParts) + 1 /\ j = ((at - 1) % FrameParts) + 1
                    /\ i \in 1 .. Len(frame_list) /\ j \in 1 .. FrameParts
    BY <2>1, UpTypes, PartWithin
  <2>3. new[k] = <<frame_list[i], Content(frame_list[i], j)>>
    <3>1. new[k] = Part(frame_list, at)
      BY <2>1, Zenon
    <3> QED
      BY <2>2, <3>1, Zenon DEF Part
  <2>4. Part(kept, PartsOf(m) + (parts + k)) = <<kept[m + i], Content(kept[m + i], j)>>
    <3> DEFINE n == m
    <3>0. n \in Nat
      BY <1>7
    <3> HIDE DEF n
    <3>1. /\ ((PartsOf(n) + at - 1) \div FrameParts) + 1 = n + i
          /\ ((PartsOf(n) + at - 1) % FrameParts) + 1 = j
      <4>2. /\ ((PartsOf(n) + at - 1) \div FrameParts) + 1 = n + ((at - 1) \div FrameParts) + 1
            /\ (PartsOf(n) + at - 1) % FrameParts = (at - 1) % FrameParts
        BY <3>0, PartBehind
      <4>3. n + ((at - 1) \div FrameParts) + 1 = n + (((at - 1) \div FrameParts) + 1)
        <5>1. FrameParts \in {1, 2} /\ at - 1 \in Int
          BY <2>1, PartsPerFrame
        <5>2. PICK q \in Int : q = (at - 1) \div FrameParts
          BY <5>1
        <5>3. n + q + 1 = n + (q + 1)
          BY <3>0
        <5> QED
          BY <5>2, <5>3
      <4> QED
        BY <2>2, <4>2, <4>3
    <3>2. Part(kept, PartsOf(n) + at) = <<kept[n + i], Content(kept[n + i], j)>>
      <4>1. Part(kept, PartsOf(n) + at) =
              <<kept[(((PartsOf(n) + at) - 1) \div FrameParts) + 1],
                Content(kept[(((PartsOf(n) + at) - 1) \div FrameParts) + 1],
                        (((PartsOf(n) + at) - 1) % FrameParts) + 1)>>
        BY Zenon DEF Part
      <4>2. (PartsOf(n) + at) - 1 = PartsOf(n) + at - 1
        BY <2>1, <3>0, PartsPerFrame
      <4> QED
        BY <3>1, <4>1, <4>2
    <3> QED
      BY <2>1, <3>2 DEF n
  <2> HIDE DEF new
  <2>5. frame_list[i] = kept[m + i] /\ frame_list[i] \in 1 .. asked
    BY <1>7, <2>2, ElementOfSeq DEF UpInv, ListInv
  <2>6. m + i \in 1 .. Len(kept)
    <3>1. Len(frame_list) \in Nat /\ i \in 1 .. Len(frame_list)
      BY <2>2, UpTypes
    <3>2. i \in Nat /\ 1 <= i /\ i <= Len(frame_list)
      BY <3>1
    <3> DEFINE n == m
    <3>3. n \in Nat /\ n + Len(frame_list) = Len(kept)
      BY <1>7
    <3> HIDE DEF n
    <3>4. n + i \in 1 .. Len(kept)
      BY <3>1, <3>2, <3>3
    <3> QED
      BY <3>4 DEF n
  <2>7. kept[m + i] \in Range(kept)
    BY <2>6, LenProperties DEF Range, UpInv, ListInv
  <2>8. \A a \in 1 .. asked : <<a, Content(a, j)>> \in Written(asked)
    BY DEF Content, Payload, Pbufs, Contents, Written
  <2> QED
    BY <2>2, <2>3, <2>4, <2>5, <2>7, <2>8
<1>10. new \in Seq(Written(asked)) /\ Len(new) = s
  BY <1>4, <1>9
<1>11. wire' = wire \o new
  BY <1>1
<1> HIDE DEF new
<1>12. wire \in Seq(Written(asked))
  BY DEF UpInv, WireInv
<1>13. /\ wire' \in Seq(Written(asked))
       /\ Len(wire') = Len(wire) + s
       /\ \A k \in 1 .. Len(wire) + s :
             wire'[k] = IF k <= Len(wire) THEN wire[k] ELSE new[k - Len(wire)]
  BY <1>10, <1>11, <1>12, ConcatProperties
<1>14. ASSUME NEW k \in 1 .. Len(wire') PROVE wire'[k][1] \in Range(kept)
  <2>0. k \in Nat /\ 1 <= k /\ k <= Len(wire) + s /\ Len(wire) \in Nat
    BY <1>4, <1>13, UpTypes
  <2>1. CASE k <= Len(wire)
    <3>1. wire'[k] = wire[k] /\ k \in 1 .. Len(wire)
      BY <1>4, <1>13, <2>0, <2>1
    <3> QED
      BY <3>1 DEF UpInv, WireInv
  <2>2. CASE k > Len(wire)
    <3>1. k - Len(wire) \in 1 .. s /\ wire'[k] = new[k - Len(wire)]
      BY <1>4, <1>13, <2>0, <2>2
    <3> QED
      BY <1>9, <3>1
  <2> QED
    BY <2>0, <2>1, <2>2
<1>15. ASSUME mode = "udp" \/ ~cut
       PROVE  /\ Len(wire') = PartsOf(m) + parts + s
              /\ Len(wire') <= PartsOf(Len(kept))
              /\ \A k \in 1 .. Len(wire') : wire'[k] = Part(kept, k)
  <2>1. /\ Len(wire) = PartsOf(m) + parts
        /\ \A k \in 1 .. Len(wire) : wire[k] = Part(kept, k)
    BY <1>2, <1>15 DEF UpInv, WireInv
  <2>2. PartsOf(Len(kept)) = PartsOf(m) + PartsOf(Len(frame_list)) /\ PartsOf(m) \in Nat
    BY <1>7, UpTypes, PartsAdd, PartsPerFrame
  <2>3. Len(wire') = PartsOf(m) + parts + s /\ Len(wire') <= PartsOf(Len(kept))
    <3>1. PICK w \in Nat, a \in Nat, b \in Nat, c \in Nat :
             w = Len(wire) /\ a = PartsOf(m) /\ b = PartsOf(Len(frame_list)) /\ c = parts
      BY <1>8, <2>2, UpTypes
    <3>2. PICK e \in Nat : e = PartsOf(num) /\ e <= b
      BY <1>3, <1>8, <3>1
    <3>3. Len(wire') = w + s /\ w = a + c /\ PartsOf(Len(kept)) = a + b
      BY <1>13, <2>1, <2>2, <3>1
    <3>4. s \in Nat /\ s <= e - c
      BY <1>4, <3>1, <3>2
    <3>5. w + s = a + c + s /\ w + s <= a + b
      BY <3>2, <3>3, <3>4
    <3> QED
      BY <3>1, <3>3, <3>5
  <2>4. ASSUME NEW k \in 1 .. Len(wire') PROVE wire'[k] = Part(kept, k)
    <3>0. k \in Nat /\ 1 <= k /\ k <= Len(wire) + s /\ Len(wire) \in Nat
      BY <1>4, <1>13, UpTypes
    <3>1. CASE k <= Len(wire)
      BY <1>4, <1>13, <2>1, <3>0, <3>1
    <3>2. CASE k > Len(wire)
      <4>1. k - Len(wire) \in 1 .. s /\ wire'[k] = new[k - Len(wire)]
        BY <1>4, <1>13, <3>0, <3>2
      <4>2. PartsOf(m) + (parts + (k - Len(wire))) = k
        BY <2>1, <2>2, <3>0, UpTypes
      <4> QED
        BY <1>9, <4>1, <4>2
    <3> QED
      BY <3>0, <3>1, <3>2
  <2> QED
    BY <2>3, <2>4
<1>16. \A n : PartsOf(n)' = PartsOf(n)
  BY <1>6 DEF PartsOf
<1>17. CASE parts + s = PartsOf(num)
  <2>1. EndSend(parts + s)
    BY <1>1, <1>17
  <2>2. Sent(parts + s) = num /\ num \in 0 .. frames
    BY <1>2, <1>3, <1>17, SentRange, UpTypes
  <2>3. /\ frame_list' = SubSeq(frame_list, num + 1, Len(frame_list)) /\ frames' = frames - num
        /\ num' = 0 /\ parts' = 0 /\ phase' = "fwd_b"
    BY <2>1, <2>2 DEF EndSend
  <2>4. ListInv' /\ Len(frame_list') = Len(frame_list) - num
    BY <1>2, <2>2, <2>3, ListDrop
  <2>5. BatchInv'
    BY <2>3, <2>4, UdpAssumption, LenProperties DEF BatchInv, ListInv
  <2>6. ASSUME mode = "udp" \/ ~cut
        PROVE  Len(wire') = PartsOf(Len(kept) - Len(frame_list')) + parts'
    <3>1. Len(kept) - Len(frame_list') = m + num
      BY <1>7, <2>4, UpTypes
    <3>2. PartsOf(m + num) = PartsOf(m) + PartsOf(num) /\ PartsOf(m) \in Nat
      BY <1>7, UpTypes, PartsAdd, PartsPerFrame
    <3>3. Len(wire') = PartsOf(m) + (parts + s)
      BY <1>4, <1>15, <2>6, <3>2, UpTypes
    <3>4. Len(wire') = PartsOf(m) + PartsOf(num)
      BY <1>17, <3>3
    <3>5. PartsOf(Len(kept) - Len(frame_list')) = PartsOf(m) + PartsOf(num)
      BY <3>1, <3>2
    <3>6. PartsOf(m) + PartsOf(num) + parts' = PartsOf(m) + PartsOf(num)
      BY <1>3, <2>3, <3>2
    <3> QED
      BY <3>4, <3>5, <3>6, Zenon
  <2>7. WireInv'
    BY <1>2, <1>5, <1>6, <1>13, <1>14, <1>15, <1>16, <2>6 DEF WireInv, client, Part, Content, PartsOf
  <2> QED
    BY <2>4, <2>5, <2>7 DEF UpInv
<1>18. CASE parts + s # PartsOf(num)
  <2>1. parts' = parts + s /\ UNCHANGED <<num, frame_list, frames, phase>>
    BY <1>1, <1>18 DEF list
  <2>2. ListInv'
    BY <1>2, <2>1 DEF UpInv, ListInv, client
  <2>3. BatchInv'
    <3>1. parts' < PartsOf(num) /\ parts' \in Nat
      BY <1>3, <1>4, <1>18, <2>1, UpTypes
    <3> QED
      BY <1>2, <1>16, <2>1, <3>1 DEF UpInv, BatchInv
  <2>4. WireInv'
    <3>1. mode = "udp" \/ ~cut => Len(wire') = PartsOf(m) + parts'
      <4>1. PartsOf(m) \in Nat
        BY <1>7, PartsPerFrame
      <4> QED
        BY <1>4, <1>15, <2>1, <4>1, UpTypes
    <3> QED
      BY <1>2, <1>5, <1>6, <1>13, <1>14, <1>15, <1>16, <2>1, <3>1
         DEF WireInv, client, Part, Content, PartsOf
  <2> QED
    BY <2>2, <2>3, <2>4 DEF UpInv
<1> QED
  BY <1>17, <1>18

\* The yielder fails while the session sends, reads or waits.
LEMMA UpYielderFails == UpInv /\ ~Over /\ YielderFails => UpInv'
<1> SUFFICES ASSUME UpInv, ~Over, YielderFails PROVE UpInv'
  OBVIOUS
<1>1. cut' /\ UNCHANGED <<mode, client, wire, sockq>>
  BY DEF YielderFails
<1>2. CASE phase = "send"
  <2>1. EndSend(parts)
    BY <1>2 DEF YielderFails
  <2> QED
    BY <1>1, <1>2, <2>1, UpSendCut
<1>3. CASE phase \in {"head", "rest"}
  <2>1. UNCHANGED <<list, num, parts>> /\ phase' \in {"loop", "lost"}
    BY <1>3 DEF YielderFails, EndHead, EndRest, Tell, EndBack, Lost
  <2>2. sockq' \in 0 .. SockBuf
    BY <1>1 DEF UpInv, WireInv
  <2> QED
    BY <1>1, <1>3, <2>1, <2>2, UpSame DEF upstream
<1>4. CASE phase = "loop"
  <2>1. End /\ UNCHANGED <<num, parts>>
    BY <1>4 DEF YielderFails
  <2> QED
    BY <1>1, <1>4, <2>1, UpEnd DEF upstream
<1> QED
  BY <1>2, <1>3, <1>4 DEF YielderFails

LEMMA NextUpInv == UpInv /\ [Next]_vars => UpInv'
<1> SUFFICES ASSUME UpInv, [Next]_vars PROVE UpInv'
  OBVIOUS
<1>1. sockq \in 0 .. SockBuf
  BY DEF UpInv, WireInv
<1>2. CASE ClientSends
  BY <1>2, UpClientSends
<1>3. CASE Terminate
  BY <1>1, <1>3, UpSame DEF Terminate, Over
<1>4. CASE Timeout \/ Refused
  <2>1. ~Over /\ YielderFails
    BY <1>4 DEF Timeout, Refused, MustWait, Over
  <2> QED
    BY <2>1, UpYielderFails
<1>5. CASE FwdF
  BY <1>5, UpFwdF
<1>6. CASE Send
  BY <1>6, UpSend
<1>7. CASE SendError
  BY <1>7, UpSendCut DEF SendError, Reported
<1>8. CASE SkipB \/ ReadHead \/ ReadHeadOn \/ ReadRest \/ Misread \/ EndRead
             \/ ReadDatagrams \/ NothingRead \/ StreamStops
  <2>1. UpstreamSame /\ phase \in {"fwd_b", "head", "rest"} /\ (cut => cut')
    BY <1>8 DEF SkipB, ReadHead, ReadHeadOn, ReadRest, Misread, EndRead,
                ReadDatagrams, NothingRead, StreamStops, Reading, Reported
  <2>2. phase' \in {"fwd_b", "head", "rest", "loop", "lost"}
    BY <1>8 DEF SkipB, ReadHead, ReadHeadOn, ReadRest, Misread, EndRead,
                ReadDatagrams, NothingRead, StreamStops, Reading, EndHead, EndRest,
                CheckHead, HeadGoesOn, EndBroken, EndBack, Lost, Tell
  <2> QED
    BY <1>1, <2>1, <2>2, UpSame DEF UpstreamSame
<1>9. CASE Turn
  <2>1. CASE Moved /\ ~ControlEnded
    BY <1>1, <1>9, <2>1, UpSame DEF Turn
  <2>2. CASE ~(Moved /\ ~ControlEnded)
    BY <1>9, <2>2, UpEnd DEF Turn
  <2> QED
    BY <2>1, <2>2
<1>10. CASE Resume \/ Sleep
  <2>1. /\ UNCHANGED <<mode, client, list, upstream, sockq, cut>> /\ phase # "ended"
        /\ phase' = "send" <=> phase = "send"
    BY <1>10 DEF Resume, Sleep, Over, MustWait
  <2> QED
    BY <1>1, <2>1, UpSame
<1>11. CASE Server
  <2>1. UNCHANGED <<mode, client, list, upstream, phase, cut>> /\ phase # "ended"
    BY <1>11 DEF Server, ServerTakes, ServerAnswers, ServerGoesOn, ServerSends,
                 ServerCloses, SocketBreaks, OtherSame, Visible, Over
  <2>2. sockq' \in 0 .. SockBuf
    BY <1>1, <1>11, UdpAssumption
       DEF Server, ServerTakes, ServerAnswers, ServerGoesOn, ServerSends,
           ServerCloses, SocketBreaks
  <2> QED
    BY <2>1, <2>2, UpSame
<1>12. CASE UNCHANGED vars
  <2>1. FrameParts' = FrameParts
    BY <1>12 DEF vars, FrameParts
  <2> QED
    BY <1>12, <2>1 DEF vars, client, list, upstream, ctl, UpInv, ListInv, BatchInv,
                       WireInv, PartsOf, Part, Content
<1> QED
  BY <1>2, <1>3, <1>4, <1>5, <1>6, <1>7, <1>8, <1>9, <1>10, <1>11, <1>12 DEF Next, Task

-----------------------------------------------------------------------------
(* To the client                                                           *)

DownInv == ReadInv /\ ToldInv /\ SourceInv /\ BrokenInv

LEMMA DownTypes ==
    ASSUME ReadInv
    PROVE  /\ AnswerParts \in Nat \ {0} /\ Len(answers) \in Nat /\ Len(msgv) \in Nat
           /\ put \in Nat /\ read \in Nat /\ read <= put
           /\ Complete \in Nat /\ Complete <= Len(answers)
           /\ read < put => Complete < Len(answers) /\ Current \in 1 .. Len(answers)
           /\ Offset \in 0 .. AnswerParts - 1
<1>1. AnswerParts \in Nat \ {0}
  BY AnswerSize
<1>2. Len(answers) \in Nat /\ Len(msgv) \in Nat
  BY LenProperties DEF ReadInv
<1> DEFINE P == AnswerParts
           all == Len(answers) * P
<1>3. all \in Nat /\ put \in 0 .. all /\ read \in 0 .. put
  BY <1>1, <1>2 DEF ReadInv
<1>4. put \in Nat /\ read \in Nat /\ read <= put /\ put <= all
  BY <1>3
<1>5. /\ read \div P \in Nat /\ read % P \in 0 .. P - 1
      /\ read <= Len(answers) * P => read \div P <= Len(answers)
      /\ read < Len(answers) * P => read \div P < Len(answers)
  BY <1>1, <1>2, <1>4, AnswersWithin
<1>6. Complete = read \div P /\ Offset = read % P /\ Current = (read \div P) + 1
  BY DEF Complete, Offset, Current
<1> HIDE DEF P
<1>7. /\ Complete \in Nat /\ Complete <= Len(answers)
      /\ read < put => Complete < Len(answers) /\ Current \in 1 .. Len(answers)
  BY <1>2, <1>3, <1>4, <1>5, <1>6
<1> QED
  BY <1>1, <1>2, <1>4, <1>5, <1>6, <1>7 DEF P

\* What the client has asked for is a target.
LEMMA KeptAreTargets == UpInv => KeptTargets \subseteq Targets
<1> SUFFICES ASSUME UpInv, NEW i \in Range(kept) PROVE asks[i] \in Targets
  BY DEF KeptTargets
<1>1. kept \in Seq(1 .. asked) /\ asked \in 0 .. Len(asks) /\ asks \in Clients
  BY DEF UpInv, ListInv
<1>2. i \in 1 .. asked
  BY <1>1, LenProperties DEF Range
<1>3. Len(asks) \in Nat /\ DOMAIN asks = 1 .. Len(asks)
  BY UpTypes, LenProperties
<1>4. asks[i] \in Range(asks)
  BY <1>1, <1>2, <1>3 DEF Range
<1> QED
  BY <1>1, <1>4 DEF Targets

LEMMA ToldTypes ==
    ASSUME ToldInv, NEW j \in 1 .. Len(told)
    PROVE  told[j].answer \in 1 .. Len(answers)
<1> DEFINE Told == [answer : 1 .. Len(answers), src : Targets \cup {Resolved}]
<1>1. told \in Seq(Told)
  BY DEF ToldInv
<1>2. \A t \in Told : t.answer \in 1 .. Len(answers)
  OBVIOUS
<1> HIDE DEF Told
<1>3. told[j] \in Told
  BY <1>1, ElementOfSeq
<1> QED
  BY <1>2, <1>3

LEMMA SourceRight ==
    ASSUME UpInv, SourceInv, NEW i \in 1 .. Len(answers),
           answers \in Seq([kind : Kinds, from : Targets])
    PROVE  /\ Source(i) \in Targets \cup {Resolved}
           /\ OneTarget => Source(i) = answers[i].from
<1>1. answers[i].from \in KeptTargets /\ answers[i].from \in Targets
  BY KeptAreTargets DEF SourceInv
<1>2. Source(i) \in Targets \cup {Resolved}
  BY <1>1, KeptAreTargets DEF Source, SourceSeen, Seen, SourceInv
<1>3. ASSUME OneTarget PROVE Source(i) = answers[i].from
  <2>1. CASE KeptTargets \cap Named = {}
    BY <1>1, <2>1 DEF Source, SourceSeen, Seen, SourceInv
  <2>2. CASE KeptTargets \cap Named # {}
    <3>1. PICK t \in KeptTargets : KeptTargets = {t}
      BY <1>3, <2>2 DEF OneTarget
    <3>2. addr # Unset /\ addr \in KeptTargets
      BY <2>2 DEF SourceInv
    <3> QED
      BY <1>1, <3>1, <3>2 DEF Source
  <2> QED
    BY <2>1, <2>2
<1> QED
  BY <1>2, <1>3

\* The steps of the session that read nothing, and what others do to it.
LEMMA DownSame ==
    ASSUME DownInv, UNCHANGED <<mode, asks, kept, addr, answers, put, answer, res_b>>,
           phase' # phase =>
             /\ phase \notin {"head", "rest", "ended", "lost"} /\ msgv = <<>>
             /\ phase' \notin {"head", "rest", "lost"},
           cut \/ eof \/ err => cut' \/ eof' \/ err'
    PROVE  DownInv'
<1> USE DEF answer
<1>1. /\ AnswerParts' = AnswerParts /\ Complete' = Complete /\ Offset' = Offset
      /\ KeptTargets' = KeptTargets /\ (AllGood' <=> AllGood) /\ (OneTarget' <=> OneTarget)
  BY DEF AnswerParts, Complete, Offset, KeptTargets, AllGood, OneTarget
<1>2. ReadInv'
  BY <1>1 DEF DownInv, ReadInv
<1>3. ToldInv'
  BY <1>1 DEF DownInv, ToldInv, Over
<1>4. SourceInv'
  BY <1>1 DEF DownInv, SourceInv
<1>5. BrokenInv'
  BY <1>1 DEF DownInv, BrokenInv
<1> QED
  BY <1>2, <1>3, <1>4, <1>5 DEF DownInv

LEMMA DownClientSends == UpInv /\ DownInv /\ ClientSends => DownInv'
<1> SUFFICES ASSUME UpInv, DownInv, ClientSends PROVE DownInv'
  OBVIOUS
<1>1. /\ UNCHANGED <<mode, asks, answers, put, eof, err, answer, res_b, phase, cut>>
      /\ asked' = asked + 1 /\ asked < Len(asks)
  BY DEF ClientSends, server
<1>2. CASE Full
  BY <1>1, <1>2, DownSame DEF ClientSends
<1>3. CASE ~Full
  <2> DEFINE t == asks[asked']
  <2>1. kept' = Append(kept, asked') /\ addr' = TargetAddr(t)
    BY <1>3 DEF ClientSends
  <2>2. KeptTargets' = KeptTargets \cup {t}
    <3>1. kept \in Seq(Nat) /\ asked' \in Nat
      <4>1. kept \in Seq(1 .. asked) /\ asked \in Nat /\ 1 .. asked \subseteq Nat
        BY UpTypes DEF UpInv, ListInv
      <4> QED
        BY <1>1, <4>1, SeqMonotonic
    <3>2. /\ kept' \in Seq(Nat) /\ Len(kept') = Len(kept) + 1 /\ Len(kept) \in Nat
          /\ \A i \in 1 .. Len(kept) : kept'[i] = kept[i]
          /\ kept'[Len(kept) + 1] = asked'
      BY <2>1, <3>1, AppendProperties, LenProperties
    <3>3. DOMAIN kept = 1 .. Len(kept) /\ DOMAIN kept' = 1 .. Len(kept) + 1
      BY <3>1, <3>2, LenProperties
    <3>4. Range(kept') = Range(kept) \cup {asked'}
      BY <3>2, <3>3 DEF Range
    <3>5. KeptTargets' = {asks[i] : i \in Range(kept')}
      BY <1>1 DEF KeptTargets
    <3> QED
      BY <3>4, <3>5 DEF KeptTargets
  <2> HIDE DEF t
  <2>3. AnswerParts' = AnswerParts /\ Complete' = Complete /\ Offset' = Offset
        /\ (AllGood' <=> AllGood)
    BY <1>1 DEF AnswerParts, Complete, Offset, AllGood, answer
  <2>4. ReadInv' /\ BrokenInv'
    BY <1>1, <2>3 DEF DownInv, ReadInv, BrokenInv, answer
  <2>5. ToldInv'
    BY <1>1, <2>3 DEF DownInv, ToldInv, Over, answer
  <2>6. OneTarget' => OneTarget
    BY <2>2 DEF OneTarget
  <2>7. SourceInv'
    <3>1. addr' = IF t \in Named THEN t ELSE addr
      BY <2>1 DEF TargetAddr
    <3>2. addr' = Unset => KeptTargets' \cap Named = {}
      BY <2>2, <3>1, ClientsAssumption DEF DownInv, SourceInv
    <3>3. addr' # Unset => addr' \in KeptTargets' \cap Named
      BY <2>2, <3>1 DEF DownInv, SourceInv
    <3>4. UNCHANGED <<answers, told>>
      BY <1>1 DEF answer
    <3> QED
      BY <2>2, <2>6, <3>2, <3>3, <3>4 DEF DownInv, SourceInv
  <2> QED
    BY <2>4, <2>5, <2>7 DEF DownInv
<1> QED
  BY <1>2, <1>3

\* The server answers what it was sent, or goes on with an answer.
LEMMA DownServerSends ==
    ASSUME UpInv, DownInv, ServerAnswers \/ ServerGoesOn
    PROVE  DownInv'
<1>1. /\ UNCHANGED <<mode, client, eof, err, answer, res_b, phase, cut>> /\ put' = put + 1
  BY DEF ServerAnswers, ServerGoesOn, ServerSends, OtherSame
<1>2. Len(answers) \in Nat /\ AnswerParts \in Nat \ {0} /\ put \in Nat
      /\ put <= Len(answers) * AnswerParts
  BY DownTypes DEF DownInv, ReadInv
<1>3. \/ answers' = answers /\ put < Len(answers) * AnswerParts
      \/ \E a \in [kind : Kinds, from : Targets] :
            a.from \in KeptTargets /\ answers' = Append(answers, a)
  <2>1. CASE ServerGoesOn
    BY <2>1 DEF ServerGoesOn
  <2>2. CASE ServerAnswers
    <3>1. PICK k \in Kinds, t \in Asked : answers' = Append(answers, [kind |-> k, from |-> t])
      BY <2>2 DEF ServerAnswers
    <3>2. PICK j \in 1 .. Len(wire) - sockq : t = asks[wire[j][1]]
      BY <3>1 DEF Asked
    <3>3. j \in 1 .. Len(wire)
      BY UpTypes, UdpAssumption DEF UpInv, WireInv
    <3>4. t \in KeptTargets
      BY <3>2, <3>3 DEF KeptTargets, UpInv, WireInv
    <3>5. t \in Targets
      BY <3>4, KeptAreTargets
    <3> QED
      BY <3>1, <3>4, <3>5
  <2> QED
    BY <2>1, <2>2
<1>4. /\ answers' \in Seq([kind : Kinds, from : Targets])
      /\ Len(answers') \in Nat /\ Len(answers) <= Len(answers')
      /\ \A i \in 1 .. Len(answers) : answers'[i] = answers[i]
      /\ \A i \in 1 .. Len(answers') : i \notin 1 .. Len(answers) => answers'[i].from \in KeptTargets
      /\ put' <= Len(answers') * AnswerParts
  <2>0. answers \in Seq([kind : Kinds, from : Targets])
    BY DEF DownInv, ReadInv
  <2>1. CASE answers' = answers /\ put < Len(answers) * AnswerParts
    <3>1. Len(answers) * AnswerParts \in Nat
      BY <1>2
    <3> QED
      BY <1>1, <1>2, <2>0, <2>1, <3>1
  <2>2. CASE \E a \in [kind : Kinds, from : Targets] :
               a.from \in KeptTargets /\ answers' = Append(answers, a)
    <3>1. PICK a \in [kind : Kinds, from : Targets] :
            a.from \in KeptTargets /\ answers' = Append(answers, a)
      BY <2>2
    <3>2. /\ answers' \in Seq([kind : Kinds, from : Targets])
          /\ Len(answers') = Len(answers) + 1
          /\ \A i \in 1 .. Len(answers) : answers'[i] = answers[i]
          /\ answers'[Len(answers) + 1] = a
      BY <2>0, <3>1, AppendProperties
    <3>3. (Len(answers) + 1) * AnswerParts = Len(answers) * AnswerParts + AnswerParts
          /\ Len(answers) * AnswerParts \in Nat
      BY <1>2
    <3>4. put' <= Len(answers') * AnswerParts
      BY <1>1, <1>2, <3>2, <3>3
    <3>5. ASSUME NEW i \in 1 .. Len(answers'), i \notin 1 .. Len(answers)
          PROVE  answers'[i].from \in KeptTargets
      <4>1. i = Len(answers) + 1
        BY <1>2, <3>2, <3>5
      <4> QED
        BY <3>1, <3>2, <4>1
    <3> QED
      BY <1>2, <3>2, <3>4, <3>5
  <2> QED
    BY <1>3, <2>1, <2>2
<1>5. /\ AnswerParts' = AnswerParts /\ Complete' = Complete /\ Offset' = Offset
      /\ KeptTargets' = KeptTargets /\ (OneTarget' <=> OneTarget)
  BY <1>1 DEF AnswerParts, Complete, Offset, KeptTargets, OneTarget, client, answer
<1>6. AllGood' => AllGood
  <2> SUFFICES ASSUME AllGood', NEW i \in 1 .. Len(answers) PROVE answers[i].kind # "bad"
    BY DEF AllGood
  <2>1. i \in 1 .. Len(answers')
    BY <1>2, <1>4
  <2> QED
    BY <1>4, <2>1 DEF AllGood
<1>7. ReadInv'
  <2>1. Len(answers') * AnswerParts \in Nat
    BY <1>2, <1>4
  <2>2. put' \in 0 .. Len(answers') * AnswerParts
    BY <1>1, <1>2, <1>4, <2>1
  <2>3. read \in 0 .. put'
    BY <1>1, <1>2, DownTypes DEF DownInv
  <2> QED
    BY <1>1, <1>4, <1>5, <2>2, <2>3 DEF DownInv, ReadInv, answer
<1>8. ToldInv'
  <2>1. 1 .. Len(answers) \subseteq 1 .. Len(answers')
    BY <1>2, <1>4
  <2>2. [answer : 1 .. Len(answers), src : Targets \cup {Resolved}]
          \subseteq [answer : 1 .. Len(answers'), src : Targets \cup {Resolved}]
    BY <2>1
  <2>3. told \in Seq([answer : 1 .. Len(answers'), src : Targets \cup {Resolved}])
    BY <2>2, SeqMonotonic DEF DownInv, ToldInv
  <2> QED
    BY <1>1, <1>5, <1>6, <2>3 DEF DownInv, ToldInv, Over, answer
<1>9. SourceInv'
  <2>1. \A i \in 1 .. Len(answers') : answers'[i].from \in KeptTargets
    BY <1>4 DEF DownInv, SourceInv
  <2>2. \A j \in 1 .. Len(told) : told[j].answer \in 1 .. Len(answers)
    BY ToldTypes DEF DownInv
  <2> QED
    BY <1>1, <1>4, <1>5, <2>1, <2>2 DEF DownInv, SourceInv, client, answer
<1>10. BrokenInv'
  BY <1>1, <1>5, <1>6 DEF DownInv, BrokenInv
<1> QED
  BY <1>7, <1>8, <1>9, <1>10 DEF DownInv

\* The steps that tell nothing: what is read may move on with msgv, or this
\* direction or the session ends.
LEMMA ToldSame ==
    ASSUME DownInv, UNCHANGED <<mode, asks, kept, addr, answers, told>>,
           Complete' \in Nat, Len(msgv') \in Nat,
           Complete - Len(msgv) <= Complete' - Len(msgv'),
           res_b' >= 0 /\ ~Over' /\ AllGood =>
             /\ res_b >= 0 /\ ~Over
             /\ Complete' - Len(msgv') = Complete - Len(msgv)
    PROVE  ToldInv' /\ SourceInv'
<1>1. (AllGood' <=> AllGood) /\ KeptTargets' = KeptTargets /\ (OneTarget' <=> OneTarget)
  BY DEF AllGood, KeptTargets, OneTarget
<1>2. \A j \in 1 .. Len(told) : told[j].answer \in Int
  BY ToldTypes, DownTypes DEF DownInv
<1>3. Complete \in Nat /\ Len(msgv) \in Nat
  BY DownTypes DEF DownInv
<1>4. \A j \in 1 .. Len(told) : told[j].answer <= Complete' - Len(msgv')
  BY <1>2, <1>3 DEF DownInv, ToldInv
<1>5. ToldInv'
  BY <1>1, <1>4 DEF DownInv, ToldInv
<1>6. SourceInv'
  BY <1>1 DEF DownInv, SourceInv
<1> QED
  BY <1>5, <1>6

\* This direction is through with its turn.
LEMMA ReadEnds ==
    ASSUME DownInv, UNCHANGED <<mode, answers, put>>, read' \in 0 .. put,
           msgv' = <<>>, phase' \in {"loop", "lost"}
    PROVE  ReadInv' /\ Complete' \in Nat /\ Len(msgv') = 0
<1>1. AnswerParts' = AnswerParts /\ AnswerParts \in Nat \ {0} /\ read' \in Nat
  BY DownTypes DEF AnswerParts, DownInv
<1>2. Complete' = read' \div AnswerParts
  BY <1>1 DEF Complete
<1>3. Complete' \in Nat
  BY <1>1, <1>2, AnswersWithin
<1>4. Len(msgv') = 0 /\ msgv' \in Seq(Nat)
  BY EmptySeq
<1> QED
  BY <1>1, <1>3, <1>4, UdpAssumption DEF DownInv, ReadInv

LEMMA Joined ==
    ASSUME NEW S, NEW s \in Seq(S), NEW t \in Seq(S)
    PROVE  /\ s \o t \in Seq(S) /\ Len(s) \in Nat /\ Len(t) \in Nat
           /\ Len(s \o t) = Len(s) + Len(t)
           /\ \A i \in 1 .. Len(s) + Len(t) :
                 \/ i \in 1 .. Len(s) /\ (s \o t)[i] = s[i]
                 \/ i - Len(s) \in 1 .. Len(t) /\ (s \o t)[i] = t[i - Len(s)]
<1>1. /\ s \o t \in Seq(S) /\ Len(s) \in Nat /\ Len(t) \in Nat
      /\ Len(s \o t) = Len(s) + Len(t)
  BY ConcatProperties, LenProperties
<1> SUFFICES ASSUME NEW i \in 1 .. Len(s) + Len(t)
             PROVE  \/ i \in 1 .. Len(s) /\ (s \o t)[i] = s[i]
                    \/ i - Len(s) \in 1 .. Len(t) /\ (s \o t)[i] = t[i - Len(s)]
  BY <1>1
<1>2. (s \o t)[i] = IF i <= Len(s) THEN s[i] ELSE t[i - Len(s)]
  BY ConcatProperties
<1>3. i <= Len(s) \/ i - Len(s) \in 1 .. Len(t)
  BY <1>1
<1>4. i <= Len(s) => i \in 1 .. Len(s)
  BY <1>1
<1>5. i - Len(s) \in 1 .. Len(t) => ~(i <= Len(s))
  BY <1>1
<1> QED
  BY <1>2, <1>3, <1>4, <1>5

\* The answers ms, which follow the first m, are told in their order: all of
\* them, or up to one that is refused.
LEMMA TellKeeps ==
    ASSUME UpInv, DownInv, UNCHANGED <<mode, asks, kept, addr, answers>>,
           NEW ms, NEW m \in Nat, Len(ms) \in Nat, m + Len(ms) <= Len(answers),
           \A j \in 1 .. Len(ms) : ms[j] = m + j,
           m = Complete - Len(msgv), res_b >= 0, ~Over,
           Complete' = m + Len(ms), Tell(ms)
    PROVE  ToldInv' /\ SourceInv'
<1>1. PICK k \in 0 .. Len(ms) :
        /\ told' = told \o [j \in 1 .. k |-> [answer |-> ms[j], src |-> Source(ms[j])]]
        /\ EndBack(IF k = Len(ms) THEN 1 ELSE -1)
  BY DEF Tell
<1> DEFINE Told == [answer : 1 .. Len(answers), src : Targets \cup {Resolved}]
           new == [j \in 1 .. k |-> [answer |-> ms[j], src |-> Source(ms[j])]]
<1>2. k \in Nat /\ k <= Len(ms) /\ Len(answers) \in Nat
  BY DownTypes DEF DownInv
<1>3. res_b' = (IF k = Len(ms) THEN 1 ELSE -1) /\ msgv' = <<>> /\ phase' = "loop"
  BY <1>1 DEF EndBack
<1>4. ASSUME NEW j \in 1 .. k
      PROVE  /\ m + j \in 1 .. Len(answers) /\ new[j].answer = m + j
             /\ new[j] \in Told
             /\ OneTarget => new[j].src = answers[m + j].from
  <2>1. j \in Nat /\ 1 <= j /\ j <= k /\ j \in 1 .. Len(ms)
    BY <1>2
  <2>2. ms[j] = m + j /\ m + j \in 1 .. Len(answers)
    BY <1>2, <2>1
  <2>3. new[j] = [answer |-> m + j, src |-> Source(m + j)]
    BY <2>2
  <2> HIDE DEF new
  <2>4. /\ Source(m + j) \in Targets \cup {Resolved}
        /\ OneTarget => Source(m + j) = answers[m + j].from
    BY <2>2, SourceRight DEF DownInv, ReadInv
  <2> QED
    BY <2>2, <2>3, <2>4
<1> HIDE DEF Told
<1>5. new \in Seq(Told) /\ Len(new) = k
  BY <1>2, <1>4
<1>6. told' = told \o new
  BY <1>1
<1> HIDE DEF new
<1>7. told \in Seq(Told)
  BY DEF DownInv, ToldInv, Told
<1> DEFINE n == Len(told)
<1>8. n \in Nat /\ told' \in Seq(Told) /\ Len(told') = n + k
  BY <1>5, <1>6, <1>7, Joined
<1>9. ASSUME NEW i \in 1 .. n + k
      PROVE  \/ i \in 1 .. n /\ told'[i] = told[i]
             \/ i - n \in 1 .. k /\ told'[i] = new[i - n]
  <2>1. i \in 1 .. Len(told) + Len(new)
    BY <1>5
  <2>2. \/ i \in 1 .. Len(told) /\ (told \o new)[i] = told[i]
        \/ i - Len(told) \in 1 .. Len(new) /\ (told \o new)[i] = new[i - Len(told)]
    BY <1>5, <1>7, <2>1, Joined
  <2> QED
    BY <1>5, <1>6, <2>2
<1> HIDE DEF n
<1>10. ASSUME NEW i \in 1 .. Len(told')
       PROVE  /\ i \in Nat
              /\ \/ i \in 1 .. n /\ told'[i] = told[i]
                 \/ /\ i - n \in 1 .. k /\ told'[i] = new[i - n]
                    /\ told'[i].answer = m + (i - n)
  <2>1. i \in Nat /\ i \in 1 .. n + k
    BY <1>2, <1>8
  <2> QED
    BY <1>4, <1>9, <2>1
<1>11. \A i \in 1 .. n : told[i].answer \in Nat /\ told[i].answer <= m
  BY <1>2, ToldTypes DEF DownInv, ToldInv, n
<1>12. (AllGood' <=> AllGood) /\ KeptTargets' = KeptTargets /\ (OneTarget' <=> OneTarget)
  BY DEF AllGood, KeptTargets, OneTarget
<1>13. ToldInv'
  <2>1. told' \in Seq([answer : 1 .. Len(answers), src : Targets \cup {Resolved}])
    BY <1>8 DEF Told
  <2>2. ASSUME NEW i \in 1 .. Len(told') PROVE told'[i].answer <= m + Len(ms)
    <3>1. CASE i \in 1 .. n /\ told'[i] = told[i]
      BY <1>2, <1>11, <3>1
    <3>2. CASE i - n \in 1 .. k /\ told'[i].answer = m + (i - n)
      <4>1. PICK d \in Nat : d = i - n /\ d <= k
        BY <1>2, <3>2
      <4>2. Len(ms) \in Nat /\ m + d <= m + Len(ms)
        BY <1>2, <4>1
      <4> QED
        BY <3>2, <4>1, <4>2
    <3> QED
      BY <1>10, <3>1, <3>2
  <2>3. ASSUME NEW i \in 1 .. Len(told'), NEW j \in 1 .. Len(told'), i < j
        PROVE  told'[i].answer < told'[j].answer
    <3>1. i \in Nat /\ j \in Nat
      BY <1>10
    <3>2. CASE j \in 1 .. n /\ told'[j] = told[j]
      <4>1. i \in 1 .. n /\ i - n \notin 1 .. k
        BY <1>2, <1>8, <2>3, <3>1, <3>2
      <4>2. told'[i] = told[i]
        BY <1>10, <4>1
      <4> QED
        BY <2>3, <3>2, <4>1, <4>2 DEF DownInv, ToldInv, n
    <3>3. CASE j - n \in 1 .. k /\ told'[j].answer = m + (j - n)
      <4>1. told'[j].answer > m /\ told'[j].answer \in Nat
        BY <1>2, <1>8, <3>1, <3>3
      <4>2. CASE i \in 1 .. n /\ told'[i] = told[i]
        <5>1. told'[i].answer \in Nat /\ told'[i].answer <= m
          BY <1>11, <4>2
        <5> QED
          BY <4>1, <5>1
      <4>3. CASE told'[i].answer = m + (i - n)
        BY <1>8, <2>3, <3>1, <3>3, <4>3
      <4> QED
        BY <1>10, <4>2, <4>3
    <3> QED
      BY <1>10, <3>2, <3>3
  <2>4. ASSUME res_b' >= 0, AllGood
        PROVE  /\ Len(told') = m + Len(ms)
               /\ \A i \in 1 .. Len(told') : told'[i].answer = i
    <3>1. k = Len(ms)
      BY <1>3, <2>4
    <3>2. n = m /\ \A i \in 1 .. n : told[i].answer = i
      BY <2>4 DEF DownInv, ToldInv, n
    <3>3. ASSUME NEW i \in 1 .. Len(told') PROVE told'[i].answer = i
      <4>1. CASE i \in 1 .. n /\ told'[i] = told[i]
        BY <3>2, <4>1
      <4>2. CASE told'[i].answer = m + (i - n)
        BY <1>8, <1>10, <3>2, <4>2
      <4> QED
        BY <1>10, <4>1, <4>2
    <3> QED
      BY <1>8, <3>1, <3>2, <3>3
  <2>5. Complete' - Len(msgv') = m + Len(ms)
    BY <1>3, EmptySeq
  <2> QED
    BY <1>12, <2>1, <2>2, <2>3, <2>4, <2>5 DEF ToldInv
<1>14. SourceInv'
  <2> SUFFICES ASSUME OneTarget, NEW i \in 1 .. Len(told')
               PROVE  told'[i].src = answers[told'[i].answer].from
    BY <1>12 DEF DownInv, SourceInv
  <2>1. CASE i \in 1 .. n /\ told'[i] = told[i]
    BY <2>1 DEF DownInv, SourceInv, n
  <2>2. CASE i - n \in 1 .. k /\ told'[i] = new[i - n] /\ told'[i].answer = m + (i - n)
    BY <1>4, <2>2
  <2> QED
    BY <1>10, <2>1, <2>2
<1> QED
  BY <1>13, <1>14

\* The head of an answer has been read to its end.
LEMMA DownCheckHead ==
    ASSUME UpInv, DownInv, CheckHead, UNCHANGED <<mode, client, server, err, cut>>,
           res_b >= 0, Len(msgv) < Num, mode = "tcp", ~Over, read < put,
           read' = read + (HeadParts - Offset), Offset < HeadParts, read' <= put
    PROVE  DownInv'
<1> USE DEF client, server
<1>1. AnswerParts' = AnswerParts /\ AnswerParts = HeadParts + BodyParts
      /\ HeadParts \in Nat \ {0} /\ BodyParts \in Nat \ {0}
  BY AnswerSize, UdpAssumption DEF AnswerParts
<1>2. /\ read \in Nat /\ Offset \in Nat /\ Complete \in Nat /\ put \in Nat
      /\ Current \in 1 .. Len(answers) /\ Len(msgv) \in Nat
  BY DownTypes DEF DownInv
<1>3. Complete' = Complete /\ Offset' = HeadParts /\ read' \in 0 .. put
  <2> DEFINE s == HeadParts - Offset
  <2>1. s \in Nat /\ (read % AnswerParts) + s = HeadParts /\ HeadParts < AnswerParts
    BY <1>1, <1>2 DEF Offset
  <2>2. read' = read + s
    OBVIOUS
  <2> HIDE DEF s
  <2>3. /\ (read + s) \div AnswerParts = read \div AnswerParts
        /\ (read + s) % AnswerParts = HeadParts
    BY <1>2, <2>1, AnswerGoesOn, AnswerSize
  <2> QED
    BY <1>1, <1>2, <2>1, <2>2, <2>3 DEF Complete, Offset
<1>4. AllGood' <=> AllGood
  BY DEF AllGood
<1>5. CASE answers[Current].kind = "bad"
  <2>1. ~AllGood
    BY <1>2, <1>5 DEF AllGood
  <2>2. told' = told /\ msgv' = <<>> /\ phase' = "loop"
    BY <1>5 DEF CheckHead, EndBroken, EndBack
  <2>3. ReadInv' /\ Complete' \in Nat /\ Len(msgv') = 0
    BY <1>3, <2>2, ReadEnds
  <2>4. ToldInv' /\ SourceInv'
    BY <1>2, <1>3, <2>1, <2>2, <2>3, ToldSame
  <2>5. BrokenInv'
    BY <1>4, <2>1 DEF BrokenInv
  <2> QED
    BY <2>3, <2>4, <2>5 DEF DownInv
<1>6. CASE answers[Current].kind # "bad"
  <2>1. phase' = "rest" /\ UNCHANGED <<told, msgv, res_b>>
    BY <1>6 DEF CheckHead
  <2>2. ReadInv'
    BY <1>1, <1>3, <2>1 DEF DownInv, ReadInv
  <2>3. ToldInv' /\ SourceInv'
    BY <1>2, <1>3, <2>1, ToldSame DEF Over
  <2>4. BrokenInv'
    BY <2>1 DEF BrokenInv
  <2> QED
    BY <2>2, <2>3, <2>4 DEF DownInv
<1> QED
  BY <1>5, <1>6

\* Less than the head has arrived.
LEMMA DownHeadGoesOn ==
    ASSUME UpInv, DownInv, UNCHANGED <<mode, client, server, told, msgv, res_b>>,
           phase' = "head", res_b >= 0, Len(msgv) < Num, mode = "tcp", ~Over,
           Available \in Nat \ {0}, Available < HeadParts - Offset, read' = read + Available
    PROVE  DownInv'
<1> USE DEF client, server
<1>1. AnswerParts' = AnswerParts /\ AnswerParts = HeadParts + BodyParts
      /\ HeadParts \in Nat \ {0} /\ BodyParts \in Nat \ {0}
  BY AnswerSize, UdpAssumption DEF AnswerParts
<1>2. /\ read \in Nat /\ Offset \in Nat /\ Complete \in Nat /\ put \in Nat
      /\ Len(msgv) \in Nat
  BY DownTypes DEF DownInv
<1>3. Complete' = Complete /\ Offset' = Offset + Available /\ read' \in 0 .. put
  <2>1. (read % AnswerParts) + Available < AnswerParts
    BY <1>1, <1>2 DEF Offset
  <2>2. /\ (read + Available) \div AnswerParts = read \div AnswerParts
        /\ (read + Available) % AnswerParts = (read % AnswerParts) + Available
    BY <1>2, <2>1, AnswerGoesOn, AnswerSize
  <2>3. read' \in 0 .. put
    BY <1>2 DEF Available
  <2> QED
    BY <1>1, <2>2, <2>3 DEF Complete, Offset
<1>4. Offset' \in 1 .. HeadParts - 1
  BY <1>1, <1>2, <1>3
<1>5. ReadInv'
  BY <1>1, <1>3, <1>4 DEF DownInv, ReadInv
<1>6. ToldInv' /\ SourceInv'
  BY <1>2, <1>3, ToldSame DEF Over
<1>7. BrokenInv'
  BY DEF BrokenInv
<1> QED
  BY <1>5, <1>6, <1>7 DEF DownInv

LEMMA ReadingTypes ==
    ASSUME DownInv
    PROVE  Available \in Nat /\ Available = put - read
           /\ (Available > 0 => read < put)
BY DownTypes DEF DownInv, Available

LEMMA DownReadHead == UpInv /\ DownInv /\ (ReadHead \/ ReadHeadOn) => DownInv'
<1> SUFFICES ASSUME UpInv, DownInv, ReadHead \/ ReadHeadOn PROVE DownInv'
  OBVIOUS
<1>1. /\ UNCHANGED <<mode, client, server, err, cut>> /\ mode = "tcp" /\ ~Over
      /\ res_b >= 0 /\ Len(msgv) < Num /\ Available > 0
      /\ Offset < HeadParts
  BY AnswerSize, UdpAssumption, DownTypes
     DEF ReadHead, ReadHeadOn, Reading, UpstreamSame, Over, DownInv, ReadInv
<1>2. /\ read \in Nat /\ put \in Nat /\ Offset \in Nat /\ read < put
      /\ Available \in Nat \ {0} /\ Available = put - read /\ HeadParts \in Nat
  BY <1>1, ReadingTypes, DownTypes, UdpAssumption DEF DownInv
<1>3. \/ /\ Available >= HeadParts - Offset
         /\ read' = read + (HeadParts - Offset) /\ CheckHead
      \/ /\ Available < HeadParts - Offset
         /\ read' = read + Available /\ phase' = "head" /\ UNCHANGED <<told, msgv, res_b>>
  <2>1. CASE ReadHead
    <3>1. Offset = 0 /\ HeadParts - Offset = HeadParts
      BY <1>2, <2>1 DEF ReadHead
    <3> QED
      BY <1>2, <2>1, <3>1 DEF ReadHead, HeadGoesOn
  <2>2. CASE ReadHeadOn
    <3>1. read + HeadParts - Offset = read + (HeadParts - Offset)
      BY <1>2
    <3> QED
      BY <1>2, <2>2, <3>1 DEF ReadHeadOn
  <2> QED
    BY <2>1, <2>2
<1>4. CASE Available >= HeadParts - Offset /\ read' = read + (HeadParts - Offset) /\ CheckHead
  <2>1. read' <= put
    BY <1>2, <1>4
  <2> QED
    BY <1>1, <1>2, <1>4, <2>1, DownCheckHead
<1>5. CASE Available < HeadParts - Offset /\ read' = read + Available /\ phase' = "head"
           /\ UNCHANGED <<told, msgv, res_b>>
  BY <1>1, <1>2, <1>5, DownHeadGoesOn
<1> QED
  BY <1>3, <1>4, <1>5

LEMMA DownReadRest == UpInv /\ DownInv /\ ReadRest => DownInv'
<1> SUFFICES ASSUME UpInv, DownInv, ReadRest PROVE DownInv'
  OBVIOUS
<1>1. /\ phase = "rest" /\ Available > 0
      /\ UNCHANGED <<told, res_b, err, cut, mode, client, server>>
  BY DEF ReadRest, UpstreamSame
<1> USE DEF client, server
<1>2. /\ AnswerParts' = AnswerParts /\ AnswerParts \in Nat \ {0}
      /\ read \in Nat /\ Offset \in 0 .. AnswerParts - 1 /\ Complete \in Nat /\ put \in Nat
      /\ Len(msgv) \in Nat /\ Available \in Nat /\ Available = put - read
      /\ res_b >= 0 /\ Len(msgv) < Num /\ mode = "tcp" /\ ~Over /\ Offset >= HeadParts
      /\ read < put /\ Complete < Len(answers) /\ HeadParts \in Nat /\ Current = Complete + 1
  BY <1>1, DownTypes, ReadingTypes, AnswerSize, UdpAssumption
     DEF DownInv, ReadInv, Over, AnswerParts, Current, Complete
<1>3. PICK s \in 1 .. Min({Available, AnswerParts - Offset}) :
        /\ read' = read + s
        /\ IF Offset + s = AnswerParts
           THEN msgv' = Append(msgv, Current) /\ phase' = "fwd_b"
           ELSE UNCHANGED <<msgv, phase>>
  BY DEF ReadRest
<1>4. s \in Nat /\ s >= 1 /\ s <= Available /\ s <= AnswerParts - Offset
  <2> DEFINE a == Available
             b == AnswerParts - Offset
  <2>1. a \in Int /\ b \in Int
    BY <1>2
  <2>2. s \in 1 .. Min({a, b})
    OBVIOUS
  <2> HIDE DEF a, b
  <2>3. Min({a, b}) \in Int /\ Min({a, b}) <= a /\ Min({a, b}) <= b
    BY <2>1, MinOfTwo
  <2>4. s \in Nat /\ s >= 1 /\ s <= a /\ s <= b
    BY <2>1, <2>2, <2>3
  <2> QED
    BY <2>4 DEF a, b
<1>5. read' \in 0 .. put
  BY <1>2, <1>3, <1>4
<1>6. CASE Offset + s = AnswerParts
  <2>1. msgv' = Append(msgv, Current) /\ phase' = "fwd_b"
    BY <1>3, <1>6
  <2>2. Complete' = Complete + 1 /\ Offset' = 0
    <3>1. /\ (read + s) \div AnswerParts = (read \div AnswerParts) + 1
          /\ (read + s) % AnswerParts = 0
      BY <1>2, <1>4, <1>6, AnswerEnds DEF Offset
    <3> QED
      BY <1>2, <1>3, <3>1 DEF Complete, Offset
  <2>3. msgv \in Seq(Nat) /\ Current \in Nat
    BY <1>2 DEF DownInv, ReadInv
  <2>4. /\ msgv' \in Seq(Nat) /\ Len(msgv') = Len(msgv) + 1
        /\ \A j \in 1 .. Len(msgv) : msgv'[j] = msgv[j]
        /\ msgv'[Len(msgv) + 1] = Complete + 1
    BY <1>2, <2>1, <2>3, AppendProperties
  <2>5. Len(msgv) <= Complete
        /\ \A j \in 1 .. Len(msgv) : msgv[j] = Complete - Len(msgv) + j
    BY DEF DownInv, ReadInv
  <2>6. ASSUME NEW j \in 1 .. Len(msgv') PROVE msgv'[j] = Complete' - Len(msgv') + j
    <3>1. j \in Nat /\ 1 <= j /\ j <= Len(msgv) + 1
          /\ Complete' - Len(msgv') = Complete - Len(msgv)
      BY <1>2, <2>2, <2>4
    <3>2. CASE j <= Len(msgv)
      BY <1>2, <2>4, <2>5, <3>1, <3>2
    <3>3. CASE j = Len(msgv) + 1
      BY <1>2, <2>4, <3>1, <3>3
    <3> QED
      BY <1>2, <3>1, <3>2, <3>3
  <2>7. Len(msgv') <= Num /\ Len(msgv') <= Complete'
    BY <1>2, <2>2, <2>4, <2>5, UdpAssumption
  <2>8. ReadInv'
    BY <1>1, <1>2, <1>5, <2>1, <2>4, <2>6, <2>7 DEF DownInv, ReadInv
  <2>9. ToldInv' /\ SourceInv'
    BY <1>1, <1>2, <2>2, <2>4, ToldSame
  <2>10. BrokenInv'
    BY <2>1, <2>2 DEF BrokenInv
  <2> QED
    BY <2>8, <2>9, <2>10 DEF DownInv
<1>7. CASE Offset + s # AnswerParts
  <2>1. UNCHANGED <<msgv, phase>>
    BY <1>3, <1>7
  <2>2. Complete' = Complete /\ Offset' = Offset + s
    <3>1. (read % AnswerParts) + s < AnswerParts
      BY <1>2, <1>4, <1>7 DEF Offset
    <3>2. /\ (read + s) \div AnswerParts = read \div AnswerParts
          /\ (read + s) % AnswerParts = (read % AnswerParts) + s
      BY <1>2, <1>4, <3>1, AnswerGoesOn
    <3> QED
      BY <1>2, <1>3, <3>2 DEF Complete, Offset
  <2>3. Offset' >= HeadParts
    BY <1>2, <1>4, <2>2
  <2>4. ReadInv'
    BY <1>1, <1>2, <1>5, <2>1, <2>2, <2>3 DEF DownInv, ReadInv
  <2>5. ToldInv' /\ SourceInv'
    BY <1>1, <1>2, <2>1, <2>2, ToldSame
  <2>6. BrokenInv'
    BY <1>1, <2>1 DEF BrokenInv
  <2> QED
    BY <2>4, <2>5, <2>6 DEF DownInv
<1> QED
  BY <1>6, <1>7

\* This direction ends its turn, and nothing is told.
LEMMA DownLeaves ==
    ASSUME DownInv, UNCHANGED <<mode, asks, kept, addr, answers, put, read, told>>,
           msgv' = <<>>, phase' \in {"loop", "lost"},
           res_b' >= 0 /\ phase' = "loop" /\ AllGood => res_b >= 0 /\ ~Over /\ msgv = <<>>,
           phase' = "lost" \/ Offset # 0 => cut' \/ eof' \/ err' \/ ~AllGood
    PROVE  DownInv'
<1>1. /\ Complete' = Complete /\ Offset' = Offset /\ (AllGood' <=> AllGood)
      /\ Complete \in Nat /\ Len(msgv) \in Nat /\ read \in 0 .. put
  BY DownTypes DEF AnswerParts, Complete, Offset, AllGood, DownInv, ReadInv
<1>2. ReadInv' /\ Complete' \in Nat /\ Len(msgv') = 0
  BY <1>1, ReadEnds
<1>3. msgv = <<>> => Len(msgv) = 0
  BY EmptySeq
<1>4. ToldInv' /\ SourceInv'
  BY <1>1, <1>2, <1>3, ToldSame DEF Over
<1>5. BrokenInv'
  BY <1>1 DEF BrokenInv
<1> QED
  BY <1>2, <1>4, <1>5 DEF DownInv

\* The messages of this recvmmsg are told.
LEMMA DownTells ==
    ASSUME UpInv, DownInv, UNCHANGED <<mode, asks, kept, addr, answers, put, read>>,
           res_b >= 0, ~Over, Tell(msgv),
           Offset # 0 => cut' \/ eof' \/ err' \/ ~AllGood
    PROVE  DownInv'
<1>1. /\ Complete' = Complete /\ Offset' = Offset /\ (AllGood' <=> AllGood)
      /\ Complete \in Nat /\ Complete <= Len(answers) /\ Len(answers) \in Nat
      /\ Len(msgv) \in Nat /\ read \in 0 .. put
  BY DownTypes DEF AnswerParts, Complete, Offset, AllGood, DownInv, ReadInv
<1>2. msgv' = <<>> /\ phase' = "loop"
  BY DEF Tell, EndBack
<1>3. ReadInv' /\ Complete' \in Nat
  BY <1>1, <1>2, ReadEnds
<1> DEFINE m == Complete - Len(msgv)
<1>4. /\ m \in Nat /\ m + Len(msgv) = Complete
      /\ \A j \in 1 .. Len(msgv) : msgv[j] = m + j
  BY <1>1 DEF DownInv, ReadInv
<1>5. m = Complete - Len(msgv)
  OBVIOUS
<1> HIDE DEF m
<1>6. ToldInv' /\ SourceInv'
  BY <1>1, <1>4, <1>5, TellKeeps
<1>7. BrokenInv'
  BY <1>1, <1>2 DEF BrokenInv
<1> QED
  BY <1>3, <1>6, <1>7 DEF DownInv

\* A stream stops within an answer, or the wait for its rest fails.
LEMMA DownStops ==
    ASSUME UpInv, DownInv, UNCHANGED <<mode, asks, kept, addr, answers, put, read>>,
           phase \in {"head", "rest"}, cut' \/ eof' \/ err',
           NEW why, phase = "head" => EndHead(why), phase # "head" => EndRest
    PROVE  DownInv'
<1>1. res_b >= 0 /\ ~Over
  BY DEF DownInv, ReadInv, Over
<1>2. CASE phase = "head" /\ msgv # <<>>
  BY <1>1, <1>2, DownTells DEF EndHead
<1>3. CASE phase = "head" /\ msgv = <<>>
  <2>1. told' = told /\ msgv' = <<>> /\ phase' \in {"loop", "lost"}
    BY <1>3 DEF EndHead, Lost, EndBack
  <2> QED
    BY <1>1, <1>3, <2>1, DownLeaves
<1>4. CASE phase # "head"
  <2>1. /\ told' = told /\ msgv' = <<>> /\ phase' \in {"loop", "lost"}
        /\ phase' = "loop" => res_b' = -1
    BY <1>4 DEF EndRest, Lost, EndBack
  <2>2. ~(res_b' >= 0 /\ phase' = "loop" /\ AllGood)
    BY <2>1
  <2> QED
    BY <2>1, <2>2, DownLeaves
<1> QED
  BY <1>2, <1>3, <1>4

LEMMA DownYielderFails == UpInv /\ DownInv /\ ~Over /\ YielderFails => DownInv'
<1> SUFFICES ASSUME UpInv, DownInv, ~Over, YielderFails PROVE DownInv'
  OBVIOUS
<1>1. cut' = TRUE /\ UNCHANGED <<mode, asks, kept, addr, answers, put>>
  BY DEF YielderFails, client, server
<1>2. CASE phase = "send" /\ EndSend(parts) /\ UNCHANGED <<answer, res_b>>
  <2>1. phase' = "fwd_b" /\ msgv = <<>>
    BY <1>2 DEF EndSend, DownInv, ReadInv
  <2> QED
    BY <1>1, <1>2, <2>1, DownSame
<1>3. CASE phase = "loop" /\ End /\ UNCHANGED <<answer, res_b>>
  <2>1. phase' = "ended" /\ msgv = <<>>
    BY <1>3 DEF End, DownInv, ReadInv
  <2> QED
    BY <1>1, <1>3, <2>1, DownSame
<1>4. CASE /\ phase \in {"head", "rest"} /\ read' = read
           /\ IF phase = "head" THEN EndHead("yield") ELSE EndRest
  BY <1>1, <1>4, DownStops
<1> QED
  BY <1>2, <1>3, <1>4 DEF YielderFails

LEMMA DownReadDatagrams == UpInv /\ DownInv /\ ReadDatagrams => DownInv'
<1> SUFFICES ASSUME UpInv, DownInv, ReadDatagrams PROVE DownInv'
  OBVIOUS
<1> DEFINE n == Min({Num, Available})
           ms == [j \in 1 .. n |-> read + j]
<1>1. /\ mode = "udp" /\ Available > 0 /\ read' = read + n /\ res_b >= 0 /\ ~Over
      /\ IF Broken(ms) THEN EndBroken ELSE Tell(ms)
  BY DEF ReadDatagrams, Reading, Over
<1>2. UNCHANGED <<mode, asks, kept, addr, answers, put>>
  BY DEF ReadDatagrams, UpstreamSame, client, server
<1>3. /\ Available \in Nat /\ Available = put - read /\ read \in Nat /\ put \in Nat
      /\ Len(answers) \in Nat
  BY DownTypes, ReadingTypes DEF DownInv
<1>4. n \in Nat /\ n >= 1 /\ n <= Available
  <2>1. Num \in Int /\ Available \in Int /\ Num >= 1
    BY <1>3, UdpAssumption
  <2>2. n \in {Num, Available} /\ n <= Available
    BY <2>1, MinOfTwo
  <2> QED
    BY <1>1, <1>3, <2>1, <2>2
<1> HIDE DEF n
<1>5. AnswerParts = 1 /\ AnswerParts' = 1
  BY <1>1, <1>2 DEF AnswerParts
<1>6. put <= Len(answers)
  BY <1>3, <1>5 DEF DownInv, ReadInv
<1>7. /\ Complete = read /\ Complete' = read + n /\ Offset' = 0
      /\ read' \in 0 .. put /\ read + n \in Nat
  BY <1>1, <1>3, <1>4, <1>5 DEF Complete, Offset
<1>8. msgv = <<>> /\ Len(msgv) = 0
  BY <1>1, EmptySeq DEF DownInv, ReadInv
<1>9. AllGood' <=> AllGood
  BY <1>2 DEF AllGood
<1>10. /\ Len(ms) = n /\ \A j \in 1 .. Len(ms) : ms[j] = read + j
       /\ Range(ms) \subseteq 1 .. Len(answers)
  <2>1. ms \in Seq(Nat) /\ Len(ms) = n /\ DOMAIN ms = 1 .. n
    BY <1>3, <1>4
  <2>2. \A j \in 1 .. n : ms[j] = read + j /\ read + j \in 1 .. Len(answers)
    BY <1>3, <1>4, <1>6
  <2> QED
    BY <2>1, <2>2 DEF Range
<1> HIDE DEF ms
<1>11. CASE Broken(ms)
  <2>1. ~AllGood
    BY <1>10, <1>11 DEF AllGood, Broken
  <2>2. told' = told /\ msgv' = <<>> /\ phase' = "loop"
    BY <1>1, <1>11 DEF EndBroken, EndBack
  <2>3. ReadInv' /\ Len(msgv') = 0
    BY <1>2, <1>7, <2>2, ReadEnds
  <2>4. ToldInv' /\ SourceInv'
    BY <1>2, <1>3, <1>4, <1>7, <1>8, <2>1, <2>2, <2>3, ToldSame
  <2>5. BrokenInv'
    BY <1>7, <2>2 DEF BrokenInv
  <2> QED
    BY <2>3, <2>4, <2>5 DEF DownInv
<1>12. CASE ~Broken(ms)
  <2>1. Tell(ms)
    BY <1>1, <1>12
  <2>2. msgv' = <<>> /\ phase' = "loop"
    BY <2>1 DEF Tell, EndBack
  <2>3. ReadInv'
    BY <1>2, <1>7, <2>2, ReadEnds
  <2>4. Len(ms) \in Nat /\ read + Len(ms) <= Len(answers)
        /\ read = Complete - Len(msgv) /\ Complete' = read + Len(ms)
    BY <1>3, <1>4, <1>6, <1>7, <1>8, <1>10
  <2>5. ToldInv' /\ SourceInv'
    BY <1>1, <1>2, <1>3, <1>10, <2>1, <2>4, TellKeeps
  <2>6. BrokenInv'
    BY <1>7, <2>2 DEF BrokenInv
  <2> QED
    BY <2>3, <2>5, <2>6 DEF DownInv
<1> QED
  BY <1>11, <1>12

LEMMA NextDownInv == UpInv /\ PlaceInv /\ DownInv /\ [Next]_vars => DownInv'
<1> SUFFICES ASSUME UpInv, PlaceInv, DownInv, [Next]_vars PROVE DownInv'
  OBVIOUS
<1> USE DEF client, server
<1>1. phase \notin {"fwd_b", "head", "rest"} => msgv = <<>>
  BY DEF DownInv, ReadInv
<1>2. CASE ClientSends
  BY <1>2, DownClientSends
<1>3. CASE Terminate
  BY <1>3, DownSame DEF Terminate
<1>4. CASE Timeout \/ Refused
  <2>1. ~Over /\ YielderFails
    BY <1>4 DEF Timeout, Refused, MustWait, Over
  <2> QED
    BY <2>1, DownYielderFails
<1>5. CASE FwdF
  <2>1. phase = "fwd_f" /\ phase' \in {"fwd_b", "send"}
    BY <1>5 DEF FwdF
  <2> QED
    BY <1>1, <1>5, <2>1, DownSame DEF FwdF
<1>6. CASE Send
  <2>1. phase = "send" /\ phase' \in {"fwd_b", "send"}
    BY <1>6 DEF Send, EndSend
  <2> QED
    BY <1>1, <1>6, <2>1, DownSame DEF Send
<1>7. CASE SendError
  <2>1. phase = "send" /\ phase' = "fwd_b" /\ cut'
    BY <1>7 DEF SendError, EndSend, Reported
  <2> QED
    BY <1>1, <1>7, <2>1, DownSame DEF SendError
<1>8. CASE SkipB
  <2>1. msgv = <<>>
    BY <1>8 DEF DownInv, ReadInv, PlaceInv, SkipB
  <2> QED
    BY <1>8, <2>1, DownSame DEF SkipB, UpstreamSame
<1>9. CASE ReadHead \/ ReadHeadOn
  BY <1>9, DownReadHead
<1>10. CASE ReadRest
  BY <1>10, DownReadRest
<1>11. CASE Misread
  <2>1. phase = "fwd_b" /\ Offset # 0 /\ Lost
        /\ UNCHANGED <<mode, asks, kept, addr, answers, put, read, told, cut, eof, err>>
    BY <1>11 DEF Misread, Reading, UpstreamSame
  <2> QED
    BY <2>1, DownLeaves DEF Lost, DownInv, BrokenInv
<1>12. CASE EndRead
  <2>1. /\ phase = "fwd_b" /\ res_b >= 0 /\ Tell(msgv) /\ (cut \/ eof \/ err => cut' \/ eof' \/ err')
        /\ UNCHANGED <<mode, asks, kept, addr, answers, put, read>>
    BY <1>12 DEF EndRead, Reading, UpstreamSame, Reported
  <2> QED
    BY <2>1, DownTells DEF DownInv, BrokenInv, Over
<1>13. CASE ReadDatagrams
  BY <1>13, DownReadDatagrams
<1>14. CASE NothingRead
  <2>1. /\ phase = "fwd_b" /\ res_b >= 0 /\ msgv = <<>> /\ msgv' = <<>> /\ phase' = "loop"
        /\ (cut \/ eof \/ err => cut' \/ eof' \/ err')
        /\ UNCHANGED <<mode, asks, kept, addr, answers, put, read, told>>
    BY <1>14 DEF NothingRead, Reading, UpstreamSame, Reported, EndBack
  <2> QED
    BY <2>1, DownLeaves DEF DownInv, BrokenInv, Over
<1>15. CASE StreamStops
  <2>1. /\ phase \in {"head", "rest"} /\ (cut' \/ eof' \/ err')
        /\ UNCHANGED <<mode, asks, kept, addr, answers, put, read>>
    BY <1>15 DEF StreamStops, UpstreamSame, Reported
  <2> DEFINE why == IF err THEN "err" ELSE "eof"
  <2>2. (phase = "head" => EndHead(why)) /\ (phase # "head" => EndRest)
    BY <1>15 DEF StreamStops
  <2> HIDE DEF why
  <2> QED
    BY <2>1, <2>2, DownStops
<1>16. CASE Turn
  <2>1. phase = "loop" /\ phase' \in {"loop", "ended"} /\ (cut => cut')
    BY <1>16 DEF Turn, End
  <2> QED
    BY <1>1, <1>16, <2>1, DownSame DEF Turn
<1>17. CASE Resume \/ Sleep
  <2>1. UNCHANGED <<mode, asks, kept, addr, answers, put, answer, res_b, cut, eof, err>>
        /\ (phase' # phase => phase = "loop" /\ phase' = "fwd_f")
    BY <1>17 DEF Resume, Sleep
  <2> QED
    BY <1>1, <2>1, DownSame
<1>18. CASE ServerAnswers \/ ServerGoesOn
  BY <1>18, DownServerSends
<1>19. CASE ServerTakes \/ ServerCloses \/ SocketBreaks
  <2>1. UNCHANGED <<mode, asks, kept, addr, answers, put, answer, res_b, phase, cut>>
        /\ (cut \/ eof \/ err => cut' \/ eof' \/ err')
    BY <1>19 DEF ServerTakes, ServerCloses, SocketBreaks, OtherSame
  <2> QED
    BY <2>1, DownSame
<1>20. CASE UNCHANGED vars
  BY <1>20, DownSame DEF vars, ctl
<1> QED
  BY <1>2, <1>3, <1>4, <1>5, <1>6, <1>7, <1>8, <1>9, <1>10, <1>11, <1>12, <1>13, <1>14,
     <1>15, <1>16, <1>17, <1>18, <1>19, <1>20 DEF Next, Task, Server

-----------------------------------------------------------------------------
(* Waiting                                                                 *)

\* The ways in which the reading of a recvmmsg ends.
LEMMA ReadResults ==
    /\ \A ms : Tell(ms) => phase' = "loop" /\ res_b' \in {-1, 1}
    /\ EndBroken => phase' = "loop" /\ res_b' \in {-1, 0}
    /\ Lost => phase' = "lost" /\ res_b' = res_b
    /\ EndRest => (phase' = "lost" /\ res_b' = res_b) \/ (phase' = "loop" /\ res_b' = -1)
    /\ \A why : EndHead(why) =>
         \/ phase' = "lost" /\ res_b' = res_b
         \/ phase' = "loop" /\ res_b' \in {-1, 1}
         \/ phase' = "loop" /\ res_b' = 0 /\ why = "yield"
BY DEF Tell, EndBroken, Lost, EndRest, EndHead, EndBack

LEMMA NextPlaceInv == PlaceInv /\ [Next]_vars => PlaceInv'
<1> SUFFICES ASSUME PlaceInv, [Next]_vars PROVE PlaceInv'
  OBVIOUS
<1> USE DEF PlaceInv
<1>1. CASE ClientSends \/ Terminate
  BY <1>1 DEF ClientSends, Terminate, TerminateWake, Woken, server
<1>2. CASE Timeout \/ Refused
  <2>1. YielderFails
    BY <1>2 DEF Timeout, Refused
  <2>2. cut' \in BOOLEAN /\ zero' \in BOOLEAN /\ UNCHANGED <<server, err, event>>
    BY <2>1 DEF YielderFails
  <2>3. CASE phase = "send" /\ EndSend(parts) /\ task' = "running" /\ UNCHANGED res_b
    BY <2>2, <2>3 DEF EndSend, server
  <2>4. CASE /\ phase \in {"head", "rest"} /\ task' = "running" /\ UNCHANGED res_f
             /\ IF phase = "head" THEN EndHead("yield") ELSE EndRest
    BY <2>2, <2>4, ReadResults DEF server
  <2>5. CASE phase = "loop" /\ End /\ UNCHANGED <<res_f, res_b>>
    BY <2>2, <2>5 DEF End, server
  <2> QED
    BY <2>1, <2>3, <2>4, <2>5 DEF YielderFails, answer
<1>3. CASE FwdF
  BY <1>3 DEF FwdF, server
<1>4. CASE Send \/ SendError
  <2>1. phase' \in {"send", "fwd_b"} /\ task' = "running" /\ res_f' \in -1 .. 1
    BY <1>4 DEF Send, SendError, EndSend
  <2>2. cut' \in BOOLEAN /\ err' \in BOOLEAN
    BY <1>4 DEF Send, SendError, Reported
  <2>3. UNCHANGED <<server, res_b, event, zero>>
    BY <1>4 DEF Send, SendError
  <2> QED
    BY <2>1, <2>2, <2>3 DEF server
<1>5. CASE SkipB
  BY <1>5 DEF SkipB, UpstreamSame, server
<1>6. CASE ReadHead \/ ReadHeadOn
  BY <1>6, ReadResults
     DEF ReadHead, ReadHeadOn, Reading, CheckHead, HeadGoesOn, UpstreamSame, server
<1>7. CASE ReadRest
  BY <1>7 DEF ReadRest, UpstreamSame, server
<1>8. CASE Misread
  BY <1>8, ReadResults DEF Misread, Reading, UpstreamSame, server
<1>9. CASE EndRead \/ ReadDatagrams
  <2>1. phase' = "loop" /\ res_b' \in -1 .. 1 /\ task' = "running"
    BY <1>9, ReadResults DEF EndRead, ReadDatagrams, Reading
  <2> QED
    BY <1>9, <2>1 DEF EndRead, ReadDatagrams, Reported, UpstreamSame, server
<1>10. CASE NothingRead
  <2>1. phase' = "loop" /\ task' = "running" /\ res_b' \in -1 .. 1
    BY <1>10 DEF NothingRead, Reading, EndBack
  <2>2. cut' \in BOOLEAN /\ err' \in BOOLEAN
    BY <1>10 DEF NothingRead, Reported
  <2> QED
    BY <1>10, <2>1, <2>2 DEF NothingRead, UpstreamSame, server
<1>11. CASE StreamStops
  <2>1. phase' \in {"loop", "lost"} /\ res_b' \in -1 .. 1 /\ task' = "running"
    BY <1>11, ReadResults DEF StreamStops
  <2> QED
    BY <1>11, <2>1 DEF StreamStops, Reported, UpstreamSame, server
<1>12. CASE Turn
  BY <1>12 DEF Turn, End, server
<1>13. CASE Resume
  BY <1>13 DEF Resume, Over, server
<1>14. CASE Sleep
  BY <1>14 DEF Sleep, MustWait, server
<1>15. CASE Server
  <2>1. ~Over /\ (task # "running" \/ phase = "loop") /\ OtherSame
    BY <1>15 DEF Server, ServerTakes, ServerAnswers, ServerGoesOn, ServerSends,
                 ServerCloses, SocketBreaks, Visible
  <2>2. eof' \in BOOLEAN /\ err' \in BOOLEAN /\ ctrl_eof' \in BOOLEAN
    BY <1>15 DEF Server, ServerTakes, ServerAnswers, ServerGoesOn, ServerSends,
                 ServerCloses, SocketBreaks, server
  <2>3. event' \in BOOLEAN /\ task' \in {task, "ready"}
    BY <1>15 DEF Server, ServerTakes, ServerAnswers, ServerGoesOn, ServerSends,
                 ServerCloses, SocketBreaks, SpaceEvent, Event, Woken
  <2> QED
    BY <2>1, <2>2, <2>3 DEF OtherSame, Over
<1>16. CASE UNCHANGED vars
  BY <1>16 DEF vars, server, ctl
<1> QED
  BY <1>1, <1>2, <1>3, <1>4, <1>5, <1>6, <1>7, <1>8, <1>9, <1>10, <1>11, <1>12, <1>13,
     <1>14, <1>15, <1>16 DEF Next, Task

\* An answer of the server is not a broken one before it has begun.
LEMMA GoodBefore ==
    ASSUME DownInv, ServerAnswers \/ ServerGoesOn, AllGood'
    PROVE  AllGood
<1> SUFFICES ASSUME NEW i \in 1 .. Len(answers) PROVE answers[i].kind # "bad"
  BY DEF AllGood
<1>1. CASE answers' = answers
  BY <1>1 DEF AllGood
<1>2. CASE \E a : answers' = Append(answers, a)
  <2>1. PICK a : answers' = Append(answers, a)
    BY <1>2
  <2>2. DOMAIN answers = 1 .. Len(answers) /\ Len(answers) \in Nat
    BY LenProperties DEF DownInv, ReadInv
  <2>3. Len(answers') = Len(answers) + 1 /\ answers'[i] = answers[i]
    BY <2>1, <2>2 DEF DownInv, ReadInv
  <2> QED
    BY <2>2, <2>3 DEF AllGood
<1> QED
  BY <1>1, <1>2 DEF ServerAnswers, ServerGoesOn

\* The task goes on, and this step makes no quiet turn.
LEMMA SleepNot ==
    ASSUME task' # "asleep", phase' = "fwd_b" => msgv' # <<>> \/ res_f' # 0,
           phase' = "loop" => task' = "ready" \/ ~Quiet'
    PROVE  SleepInv'
BY DEF SleepInv

LEMMA NextSleepInv == UpInv /\ DownInv /\ PlaceInv /\ SleepInv /\ [Next]_vars => SleepInv'
<1> SUFFICES ASSUME UpInv, DownInv, PlaceInv, SleepInv, [Next]_vars PROVE SleepInv'
  OBVIOUS
<1>0. phase = "fwd_b" => task = "running"
  BY DEF PlaceInv
<1>1. CASE ClientSends
  <2>1. phase' = phase /\ phase # "fwd_b" /\ task # "running"
    BY <1>0, <1>1 DEF ClientSends
  <2>2. CASE Full
    <3>1. UNCHANGED <<mode, list, sockq, server, err, answer, res_f, res_b, ctl>>
      BY <1>1, <2>2 DEF ClientSends, ctl
    <3> QED
      BY <3>1 DEF SleepInv, MustWait, Room, Available, Idle, Moved, ControlEnded, Quiet,
                  AllGood, list, server, answer, ctl
  <2>3. CASE ~Full
    <3>1. task' = "ready"
      BY <1>1, <2>1, <2>3 DEF ClientSends, Woken, PlaceInv
    <3> QED
      BY <2>1, <3>1, SleepNot
  <2> QED
    BY <2>2, <2>3
<1>2. CASE Terminate
  BY <1>0, <1>2, SleepNot DEF Terminate, TerminateWake, Woken, PlaceInv
<1>3. CASE Timeout \/ Refused
  <2>1. YielderFails
    BY <1>3 DEF Timeout, Refused
  <2>2. cut' /\ task' = "running"
    BY <2>1 DEF YielderFails, End
  <2>3. phase' = "fwd_b" => res_f' # 0
    BY <2>1, ReadResults DEF YielderFails, End, EndSend
  <2> QED
    BY <2>2, <2>3, SleepNot DEF Quiet
<1>4. CASE FwdF
  <2>1. phase' \in {"fwd_b", "send"} /\ task' = "running"
        /\ (phase' = "fwd_b" /\ res_f' = 0 => frames <= 0 /\ frames' = frames)
    BY <1>4 DEF FwdF, list
  <2>2. frames \in Nat
    BY UpTypes DEF UpInv, ListInv
  <2> QED
    BY <2>1, <2>2 DEF SleepInv
<1>5. CASE Send \/ SendError
  <2>1. phase' \in {"fwd_b", "send"} /\ task' = "running"
        /\ (phase' = "fwd_b" => res_f' # 0)
    BY <1>5 DEF Send, SendError, EndSend
  <2> QED
    BY <2>1, SleepNot
<1>6. CASE SkipB
  <2>1. phase' = "loop" /\ task' = "running" /\ res_b' < 0 /\ res_b' \in Int
    BY <1>6 DEF SkipB, PlaceInv
  <2> QED
    BY <2>1, SleepNot DEF Quiet
<1>7. CASE ReadHead \/ ReadHeadOn
  <2>1. /\ task' = "running" /\ answers' = answers /\ Available > 0
        /\ CheckHead \/ phase' \in {"head", "rest"}
    BY <1>7 DEF ReadHead, ReadHeadOn, Reading, HeadGoesOn, UpstreamSame, server
  <2>2. ASSUME CheckHead PROVE phase' = "rest" \/ (phase' = "loop" /\ ~AllGood')
    <3>1. Current \in 1 .. Len(answers)
      BY <2>1, DownTypes, ReadingTypes DEF DownInv
    <3> QED
      BY <2>1, <2>2, <3>1, ReadResults DEF CheckHead, AllGood
  <2> QED
    BY <2>1, <2>2, SleepNot DEF Quiet
<1>8. CASE ReadRest
  <2>1. task' = "running" /\ phase' \in {"fwd_b", "rest"}
        /\ (phase' = "fwd_b" => msgv' = Append(msgv, Current))
    BY <1>8 DEF ReadRest
  <2>2. Append(msgv, Current) # <<>>
    <3>1. msgv \in Seq(Nat) /\ Complete \in Nat /\ Current = Complete + 1
      BY DownTypes DEF DownInv, ReadInv, Current, Complete
    <3>2. Current \in Nat
      BY <3>1
    <3> QED
      BY <3>1, <3>2, AppendProperties
  <2> QED
    BY <2>1, <2>2, SleepNot
<1>9. CASE Misread
  BY <1>9, ReadResults, SleepNot DEF Misread, Reading
<1>10. CASE EndRead
  <2>1. phase' = "loop" /\ res_b' # 0 /\ task' = "running"
    BY <1>10, ReadResults DEF EndRead, Reading
  <2> QED
    BY <2>1, SleepNot DEF Quiet
<1>11. CASE ReadDatagrams
  <2> DEFINE n == Min({Num, Available})
             ms == [j \in 1 .. n |-> read + j]
  <2>1. /\ phase' = "loop" /\ task' = "running" /\ answers' = answers
        /\ res_b' # 0 \/ Broken(ms)
        /\ Available > 0 /\ mode = "udp"
    BY <1>11, ReadResults DEF ReadDatagrams, Reading, UpstreamSame, server
  <2>2. ASSUME Broken(ms) PROVE ~AllGood
    <3>1. /\ Available \in Nat /\ Available = put - read /\ read \in Nat /\ put \in Nat
          /\ Len(answers) \in Nat
      BY DownTypes, ReadingTypes DEF DownInv
    <3>2. put <= Len(answers)
      BY <2>1, <3>1 DEF DownInv, ReadInv, AnswerParts
    <3>3. n \in Nat /\ n <= Available
      <4>1. Num \in Nat /\ Num \in Int /\ Available \in Int
        BY <3>1, UdpAssumption
      <4> QED
        BY <3>1, <4>1, MinOfTwo
    <3> HIDE DEF n
    <3>4. \A j \in 1 .. n : ms[j] \in 1 .. Len(answers)
      BY <3>1, <3>2, <3>3
    <3>5. DOMAIN ms = 1 .. n
      OBVIOUS
    <3> HIDE DEF ms
    <3> QED
      BY <2>2, <3>4, <3>5 DEF Broken, AllGood, Range
  <2>3. AllGood' <=> AllGood
    BY <2>1 DEF AllGood
  <2> QED
    BY <2>1, <2>2, <2>3, SleepNot DEF Quiet
<1>12. CASE NothingRead
  <2>1. /\ phase = "fwd_b" /\ msgv = <<>> /\ phase' = "loop" /\ task' = "running"
        /\ UNCHANGED <<frames, put, read, eof, event, res_f>>
        /\ res_b' = 0 => ~eof /\ ~err /\ Available = 0 /\ err' = err
    BY <1>12 DEF NothingRead, Reading, EndBack, UpstreamSame, list, server
  <2>2. Available' = Available
    BY <2>1 DEF Available
  <2> QED
    BY <2>1, <2>2 DEF SleepInv, Quiet
<1>13. CASE StreamStops
  <2>1. task' = "running" /\ (phase' = "lost" \/ (phase' = "loop" /\ res_b' # 0))
    BY <1>13, ReadResults DEF StreamStops
  <2> QED
    BY <2>1, SleepNot DEF Quiet
<1>14. CASE Turn
  <2>1. (task' = "ready" /\ phase' = "loop") \/ (task' = "running" /\ phase' = "ended")
    BY <1>14 DEF Turn, End
  <2> QED
    BY <2>1, SleepNot
<1>15. CASE Resume
  <2>1. task' = "running" /\ phase' # "loop" /\ phase' # "fwd_b"
    BY <1>0, <1>15 DEF Resume
  <2> QED
    BY <2>1, SleepNot
<1>16. CASE Sleep
  <2>1. /\ task = "running" /\ MustWait /\ ~zero /\ ~ControlEnded /\ event' = FALSE
        /\ task' = IF event THEN "ready" ELSE "asleep"
        /\ UNCHANGED <<mode, list, sockq, server, err, answer, res_f, res_b, phase, zero, cut>>
    BY <1>16 DEF Sleep
  <2>2. /\ MustWait' <=> MustWait
        /\ ControlEnded' <=> ControlEnded
        /\ Quiet' <=> Quiet
        /\ Available' = Available /\ phase # "fwd_b"
    BY <2>1 DEF MustWait, Room, Available, Idle, Moved, ControlEnded, Quiet, AllGood,
                server, answer
  <2> QED
    BY <2>1, <2>2 DEF SleepInv, list, server
<1>17. CASE Server
  <2>1. /\ task # "running" \/ phase = "loop"
        /\ UNCHANGED <<mode, list, answer, res_f, res_b, phase, zero, cut>>
    BY <1>17 DEF Server, ServerTakes, ServerAnswers, ServerGoesOn, ServerSends,
                 ServerCloses, SocketBreaks, Visible, OtherSame
  <2>2. phase # "fwd_b" /\ phase' = phase
    BY <1>0, <2>1
  <2>3. Quiet' => Quiet
    <3>1. AllGood' => AllGood
      BY <1>17, GoodBefore
         DEF Server, ServerTakes, ServerCloses, SocketBreaks, AllGood, server
    <3> QED
      BY <2>1, <3>1 DEF Quiet
  <2>4. CASE Event
    <3>1. task' # "asleep" /\ (task' # "ready" => task # "ready" /\ task # "asleep")
          /\ (task # "asleep" => event')
      BY <2>4 DEF Event, Woken
    <3> QED
      BY <2>1, <2>2, <2>3, <3>1 DEF SleepInv, list
  <2>5. CASE ServerTakes /\ sockq # SockBuf
    <3>1. UNCHANGED <<mode, list, server, err, answer, res_f, res_b, ctl>>
      BY <2>5 DEF ServerTakes, OtherSame, ctl
    <3>2. sockq \in Int /\ SockBuf \in Int
      BY UdpAssumption DEF UpInv, WireInv
    <3>3. Room # 0
      BY <2>5, <3>2 DEF Room
    <3>4. MustWait => MustWait'
      BY <3>1, <3>3 DEF MustWait, Available, Idle, Moved, server, answer, ctl
    <3> QED
      BY <2>2, <3>1, <3>4
         DEF SleepInv, Quiet, AllGood, ControlEnded, Available, list, server, answer, ctl
  <2> QED
    BY <1>17, <2>4, <2>5 DEF Server, ServerTakes, ServerAnswers, ServerGoesOn,
                             ServerSends, ServerCloses, SocketBreaks, SpaceEvent
<1>18. CASE UNCHANGED vars
  BY <1>18 DEF vars, list, server, answer, ctl, SleepInv, MustWait, Room, Available, Idle,
               Moved, ControlEnded, Quiet, AllGood
<1> QED
  BY <1>1, <1>2, <1>3, <1>4, <1>5, <1>6, <1>7, <1>8, <1>9, <1>10, <1>11, <1>12, <1>13,
     <1>14, <1>15, <1>16, <1>17, <1>18 DEF Next, Task

-----------------------------------------------------------------------------
(* The session                                                             *)

LEMMA InitIInv == Init => IInv
<1> SUFFICES ASSUME Init PROVE IInv
  OBVIOUS
<1> USE DEF Init
<1>1. Len(asks) \in Nat /\ asked \in 0 .. Len(asks)
  BY ClientsAssumption, LenProperties
<1>2. ListInv
  BY <1>1, UdpAssumption DEF ListInv
<1>3. BatchInv
  BY UdpAssumption DEF BatchInv
<1>4. WireInv
  <2>1. PartsOf(0) = 0 /\ Len(kept) - Len(frame_list) = 0 /\ Len(kept) = 0 /\ Len(wire) = 0
    BY PartsPerFrame DEF PartsOf
  <2>2. wire \in Seq(Written(asked)) /\ sockq \in 0 .. SockBuf
    BY UdpAssumption
  <2> QED
    BY <2>1, <2>2 DEF WireInv
<1>5. /\ Complete = 0 /\ Len(msgv) = 0 /\ Len(told) = 0 /\ Len(answers) = 0
      /\ Offset = 0
  BY AnswerSize DEF Complete, Offset
<1>6. ReadInv
  <2>1. Len(answers) * AnswerParts = 0
    BY <1>5, AnswerSize
  <2> QED
    BY <1>5, <2>1, UdpAssumption DEF ReadInv
<1>7. ToldInv
  <2> DEFINE Told == [answer : 1 .. Len(answers), src : Targets \cup {Resolved}]
  <2> HIDE DEF Told
  <2>1. told \in Seq(Told)
    OBVIOUS
  <2> HIDE DEF Init
  <2>2. told \in Seq([answer : 1 .. Len(answers), src : Targets \cup {Resolved}])
    BY <2>1 DEF Told
  <2>3. Complete - Len(msgv) = 0
    BY <1>5
  <2> QED
    BY <1>5, <2>2, <2>3 DEF ToldInv
<1>8. SourceInv
  <2>1. KeptTargets = {}
    BY DEF KeptTargets, Range
  <2> QED
    BY <1>5, <2>1 DEF SourceInv
<1>9. BrokenInv
  BY <1>5 DEF BrokenInv
<1>10. PlaceInv
  <2>1. res_f \in -1 .. 1 /\ res_b \in -1 .. 1
    OBVIOUS
  <2>2. phase = "fwd_f" /\ task = "ready"
    OBVIOUS
  <2>3. /\ eof \in BOOLEAN /\ err \in BOOLEAN /\ ctrl_eof \in BOOLEAN
        /\ event \in BOOLEAN /\ zero \in BOOLEAN /\ cut \in BOOLEAN
    OBVIOUS
  <2> HIDE DEF Init
  <2> QED
    BY <2>1, <2>2, <2>3 DEF PlaceInv
<1>11. SleepInv
  BY DEF SleepInv
<1> QED
  BY <1>2, <1>3, <1>4, <1>6, <1>7, <1>8, <1>9, <1>10, <1>11 DEF IInv

THEOREM SessionInvariant == Spec => []IInv
<1>1. Init => IInv
  BY InitIInv
<1>2. IInv /\ [Next]_vars => IInv'
  BY NextUpInv, NextDownInv, NextPlaceInv, NextSleepInv DEF IInv, UpInv, DownInv
<1> QED
  BY <1>1, <1>2, PTL DEF Spec

\* Every variable of a session has its type; in particular, the list never
\* holds more than UDP_POOL_SIZE + 1 frames, a batch never more than
\* udp-copy-buffer-nums, and no more is read than the server has sent.
THEOREM UdpTypes == Spec => []TypeOK
<1>1. IInv => TypeOK
  <2> SUFFICES ASSUME IInv PROVE TypeOK
    OBVIOUS
  <2>1. addr \in Named \cup {Unset}
    BY DEF IInv, SourceInv
  <2>2. parts \in 0 .. num * FrameParts
    <3>1. num * FrameParts \in Nat /\ num * FrameParts = PartsOf(num) /\ num \in Nat
      BY PartsPerFrame, UdpAssumption DEF IInv, BatchInv, PartsOf
    <3> QED
      BY <3>1 DEF IInv, BatchInv
  <2>3. msgv \in Seq(DOMAIN answers)
    <3>1. /\ Len(answers) \in Nat /\ Len(msgv) \in Nat /\ DOMAIN answers = 1 .. Len(answers)
          /\ DOMAIN msgv = 1 .. Len(msgv) /\ Complete \in Nat /\ Complete <= Len(answers)
      BY DownTypes, LenProperties DEF IInv, ReadInv
    <3>2. /\ Len(msgv) <= Complete /\ msgv \in Seq(Nat)
          /\ \A j \in 1 .. Len(msgv) : msgv[j] = Complete - Len(msgv) + j
      BY DEF IInv, ReadInv
    <3>3. \A j \in 1 .. Len(msgv) : msgv[j] \in 1 .. Len(answers)
      BY <3>1, <3>2
    <3> QED
      BY <3>1, <3>2, <3>3, IsASeq
  <2>4. told \in Seq([answer : DOMAIN answers, src : Targets \cup {Resolved}])
    <3>1. DOMAIN answers = 1 .. Len(answers)
      BY LenProperties DEF IInv, ReadInv
    <3> QED
      BY <3>1 DEF IInv, ToldInv
  <2>5. {eof, err, ctrl_eof, event, zero, cut} \subseteq BOOLEAN
    BY DEF IInv, PlaceInv
  <2>6. wire \in Seq((1 .. asked) \X Contents)
    <3>1. Written(asked) \subseteq (1 .. asked) \X Contents
      BY DEF Written
    <3> QED
      BY <3>1, SeqMonotonic DEF IInv, WireInv
  <2> QED
    BY <2>1, <2>2, <2>3, <2>4, <2>5, <2>6
       DEF IInv, ListInv, BatchInv, WireInv, ReadInv, PlaceInv, TypeOK
<1> QED
  BY <1>1, SessionInvariant, PTL

\* Two sequences are the same when they have the same length and elements.
LEMMA SameSeq ==
    ASSUME NEW S, NEW T, NEW s \in Seq(S), NEW t \in Seq(T), Len(s) = Len(t),
           \A i \in 1 .. Len(s) : s[i] = t[i]
    PROVE  s = t
BY LenProperties

\* The server is sent every datagram that the session accepted, in order and
\* once; in a stream, up to a send that is cut.  Only a chain of pbufs is not
\* whole.
THEOREM UdpSentInOrder == Spec => []SentInOrder
<1>1. IInv => SentInOrder
  <2>0. IInv => \A k \in DOMAIN wire : wire[k][2] = "first" => wire[k][1] \in Chained
    <3> SUFFICES ASSUME IInv, NEW k \in DOMAIN wire
                 PROVE  wire[k][2] = "first" => wire[k][1] \in Chained
      OBVIOUS
    <3>1. wire \in Seq(Written(asked))
      BY DEF IInv, WireInv
    <3>2. wire[k] \in Written(asked)
      BY <3>1, LenProperties, ElementOfSeq
    <3> QED
      BY <3>2 DEF Written
  <2> SUFFICES ASSUME IInv, mode = "udp" \/ ~cut
               PROVE  wire = SubSeq(Bytes(kept), 1, Len(wire))
    BY <2>0 DEF IInv, WireInv, SentInOrder
  <2> DEFINE W == Written(asked)
             all == Bytes(kept)
  <2>1. /\ wire \in Seq(W) /\ Len(wire) <= PartsOf(Len(kept))
        /\ \A k \in 1 .. Len(wire) : wire[k] = Part(kept, k)
    BY DEF IInv, WireInv
  <2>2. Len(wire) \in Nat /\ Len(kept) \in Nat /\ PartsOf(Len(kept)) \in Nat
    <3>1. kept \in Seq(1 .. asked)
      BY DEF IInv, ListInv
    <3>2. Len(kept) \in Nat
      BY <3>1, LenProperties
    <3> QED
      BY <2>1, <3>2, LenProperties, PartsPerFrame
  <2> DEFINE S == {all[k] : k \in 1 .. PartsOf(Len(kept))}
  <2>3. /\ all \in Seq(S) /\ Len(all) = PartsOf(Len(kept))
        /\ \A k \in 1 .. PartsOf(Len(kept)) : all[k] = Part(kept, k)
    <3> DEFINE n == PartsOf(Len(kept))
    <3>1. all = [k \in 1 .. n |-> Part(kept, k)]
      BY DEF Bytes
    <3>2. n \in Nat
      BY <2>2
    <3> HIDE DEF n, all
    <3>3. DOMAIN all = 1 .. n /\ \A k \in 1 .. n : all[k] = Part(kept, k)
      BY <3>1
    <3>4. all = [k \in 1 .. n |-> all[k]]
      BY <3>1
    <3>5. S = {all[k] : k \in 1 .. n}
      BY DEF n
    <3> HIDE DEF S
    <3>6. all \in Seq(S) /\ Len(all) = n
      BY <3>2, <3>4, <3>5
    <3> QED
      BY <3>3, <3>6 DEF n
  <2> HIDE DEF all, S
  <2>4. /\ SubSeq(all, 1, Len(wire)) \in Seq(S)
        /\ Len(SubSeq(all, 1, Len(wire))) = Len(wire)
        /\ \A k \in 1 .. Len(wire) : SubSeq(all, 1, Len(wire))[k] = all[k]
    BY <2>1, <2>2, <2>3, SubSeqProperties
  <2>5. \A k \in 1 .. Len(wire) : wire[k] = SubSeq(all, 1, Len(wire))[k]
    BY <2>1, <2>2, <2>3, <2>4
  <2>6. wire = SubSeq(all, 1, Len(wire))
    BY <2>1, <2>4, <2>5, SameSeq
  <2> QED
    BY <2>6 DEF all
<1> QED
  BY <1>1, SessionInvariant, PTL

LEMMA BrokenMeans ==
    ASSUME answers \in Seq([kind : Kinds, from : Targets])
    PROVE  /\ Broken([i \in DOMAIN answers |-> i]) <=> ~AllGood
           /\ AllGood <=> ~\E i \in DOMAIN answers : answers[i].kind = "bad"
<1>1. DOMAIN answers = 1 .. Len(answers)
  BY LenProperties
<1>2. Range([i \in DOMAIN answers |-> i]) = DOMAIN answers
  BY DEF Range
<1> QED
  BY <1>1, <1>2 DEF Broken, AllGood

\* The client is told the answers in their order, each once; and all that
\* were read, as long as no answer is broken and none was refused.
THEOREM UdpToldInOrder == Spec => []ToldInOrder
<1>1. IInv => ToldInOrder
  <2> SUFFICES ASSUME IInv PROVE ToldInOrder
    OBVIOUS
  <2> DEFINE ids == [j \in DOMAIN told |-> told[j].answer]
             complete == [i \in 1 .. read \div AnswerParts |-> i]
  <2>1. /\ Len(told) \in Nat /\ DOMAIN told = 1 .. Len(told)
        /\ Complete \in Nat /\ Len(msgv) \in Nat /\ msgv \in Seq(Nat)
    BY DownTypes, LenProperties DEF IInv, ReadInv, ToldInv
  <2>2. \A j \in 1 .. Len(told) : told[j].answer \in Nat
    BY ToldTypes, DownTypes DEF IInv
  <2>3. ids \in Seq(Nat) /\ Len(ids) = Len(told) /\ DOMAIN ids = 1 .. Len(told)
        /\ \A j \in 1 .. Len(told) : ids[j] = told[j].answer
    BY <2>1, <2>2
  <2>4. complete \in Seq(Nat) /\ Len(complete) = Complete
        /\ \A i \in 1 .. Complete : complete[i] = i
    BY <2>1 DEF Complete
  <2> HIDE DEF ids, complete
  <2>5. \A i, j \in DOMAIN ids : i < j => ids[i] < ids[j]
    BY <2>3 DEF IInv, ToldInv
  <2>6. ASSUME res_b >= 0, ~Over, AllGood
        PROVE  ids \o msgv = complete
    <3>1. /\ Len(told) = Complete - Len(msgv)
          /\ \A j \in 1 .. Len(told) : told[j].answer = j
          /\ \A j \in 1 .. Len(msgv) : msgv[j] = Len(told) + j
      BY <2>6 DEF IInv, ToldInv, ReadInv
    <3>2. /\ ids \o msgv \in Seq(Nat) /\ Len(ids \o msgv) = Len(ids) + Len(msgv)
          /\ \A i \in 1 .. Len(ids) + Len(msgv) :
                \/ i \in 1 .. Len(ids) /\ (ids \o msgv)[i] = ids[i]
                \/ i - Len(ids) \in 1 .. Len(msgv) /\ (ids \o msgv)[i] = msgv[i - Len(ids)]
      BY <2>1, <2>3, Joined
    <3>3. Len(ids) + Len(msgv) = Complete
      BY <2>1, <2>3, <3>1
    <3>4. ASSUME NEW i \in 1 .. Complete PROVE (ids \o msgv)[i] = complete[i]
      <4>1. i \in Nat /\ complete[i] = i /\ Len(ids) \in Nat
        BY <2>1, <2>3, <2>4
      <4>2. CASE i \in 1 .. Len(ids) /\ (ids \o msgv)[i] = ids[i]
        BY <2>3, <3>1, <4>1, <4>2
      <4>3. CASE i - Len(ids) \in 1 .. Len(msgv) /\ (ids \o msgv)[i] = msgv[i - Len(ids)]
        BY <2>3, <3>1, <4>1, <4>3
      <4> QED
        BY <3>2, <3>3, <4>2, <4>3
    <3> QED
      BY <2>4, <3>2, <3>4, <3>3, SameSeq
  <2>7. Broken([i \in DOMAIN answers |-> i]) <=> ~AllGood
    BY BrokenMeans DEF IInv, ReadInv
  <2> QED
    BY <2>5, <2>6, <2>7 DEF ToldInOrder, ids, complete
<1> QED
  BY <1>1, SessionInvariant, PTL

\* The address of every answer is the one the client has asked, if it asks
\* no name or one target only.
THEOREM UdpSourceAsked == Spec => []SourceAsked
<1>1. IInv => SourceAsked
  <2> SUFFICES ASSUME IInv, KeptTargets \cap Named = {} \/ Cardinality(KeptTargets) = 1
               PROVE  \A j \in DOMAIN told : told[j].src = answers[told[j].answer].from
    BY DEF SourceAsked, KeptTargets
  <2>1. IsFiniteSet(KeptTargets)
    <3>1. Len(kept) \in Nat /\ DOMAIN kept = 1 .. Len(kept)
      BY LenProperties DEF IInv, ListInv
    <3>2. IsFiniteSet(1 .. Len(kept))
      BY <3>1, FS_Interval
    <3> DEFINE f == [j \in 1 .. Len(kept) |-> asks[kept[j]]]
    <3>3. f \in Surjection(1 .. Len(kept), KeptTargets)
      BY <3>1 DEF KeptTargets, Range, Surjection
    <3> QED
      BY <3>2, <3>3, FS_Surjection
  <2>2. OneTarget
    <3>1. CASE Cardinality(KeptTargets) = 1
      BY <2>1, <3>1, FS_Singleton DEF OneTarget
    <3> QED
      BY <3>1 DEF OneTarget
  <2>3. DOMAIN told = 1 .. Len(told)
    BY LenProperties DEF IInv, ToldInv
  <2> QED
    BY <2>2, <2>3 DEF IInv, SourceInv
<1> QED
  BY <1>1, SessionInvariant, PTL

\* Nothing undefined happens to a session before a send is cut, the stream
\* has ended or failed or the server has sent a broken message.
THEOREM UdpLostOnlyWhenBroken == Spec => []LostOnlyWhenBroken
<1>1. IInv => LostOnlyWhenBroken
  BY BrokenMeans DEF IInv, ReadInv, BrokenInv, LostOnlyWhenBroken
<1> QED
  BY <1>1, SessionInvariant, PTL

\* No wakeup is lost: a session task that sleeps between two turns while both
\* directions work has an empty list and nothing to read; and it never sleeps
\* once it is terminated or without its control.
THEOREM UdpSleepsIdle == Spec => []SleepsIdle
<1>1. IInv => SleepsIdle
  <2> SUFFICES ASSUME IInv, task = "asleep" PROVE
        /\ MustWait /\ ~zero /\ ~ControlEnded
        /\ phase = "loop" /\ Working => frames = 0 /\ Available = 0 /\ ~eof /\ ~err
    BY DEF SleepsIdle
  <2>1. MustWait /\ ~zero /\ ~ControlEnded /\ ~event
    BY DEF IInv, SleepInv
  <2>2. ASSUME phase = "loop", Working PROVE Quiet
    <3>1. AllGood /\ ~cut /\ res_f >= 0 /\ res_b >= 0
      BY <2>2, BrokenMeans DEF Working, IInv, ReadInv
    <3>2. res_f = 0 /\ res_b = 0
      BY <2>1, <2>2, <3>1 DEF MustWait, Idle, Moved, IInv, PlaceInv
    <3> QED
      BY <3>1, <3>2 DEF Quiet
  <2> QED
    BY <2>1, <2>2 DEF IInv, SleepInv
<1> QED
  BY <1>1, SessionInvariant, PTL
=============================================================================
