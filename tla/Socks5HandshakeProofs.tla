----------------------- MODULE Socks5HandshakeProofs -----------------------
(***************************************************************************)
(* Proofs about Socks5Handshake, for any set of users and passwords: the   *)
(* counts are exact, nobody is let in without a password, the two sides    *)
(* keep each other's place, and they agree on the outcome.                 *)
(*                                                                         *)
(* Alignment is not inductive by itself.  The order of the messages in a   *)
(* stream depends only on whether the client has credentials, as it offers *)
(* one method and the server takes that or none; and where a side stands   *)
(* tells how many messages it has written and how many it has read.        *)
(***************************************************************************)
EXTENDS Socks5Handshake, TLAPS

\* How many messages the credentials add to each stream
G == IF creds.given THEN 1 ELSE 0

\* The order of the messages to the server, and what they say
ToServer ==
    /\ Len(toServer) <= 3 + G
    /\ Len(toServer) >= 1 =>
          /\ toServer[1].kind = "methods"
          /\ toServer[1].v = IF creds.given THEN "user" ELSE "none"
    /\ Len(toServer) >= 2 /\ creds.given => toServer[2].kind = "creds"
    /\ Len(toServer) >= 2 + G => toServer[2 + G].kind = "request" /\ toServer[2 + G].v = type
    /\ Len(toServer) >= 3 + G => toServer[3 + G].kind = "data"

\* The order of the messages to the client, and what they say.  A response of
\* success is the last word of a server that serves.
ToClient ==
    /\ Len(toClient) <= 3 + G
    /\ Len(toClient) >= 1 =>
          /\ toClient[1].kind = "method"
          /\ toClient[1].v = "user" => creds.given
          /\ toClient[1].v = "none" => ~creds.given
    /\ Len(toClient) >= 2 /\ creds.given => toClient[2].kind = "auth"
    /\ Len(toClient) >= 2 + G =>
          /\ toClient[2 + G].kind = "response"
          /\ toClient[2 + G].v = "success" =>
                rep = "success" /\ serverType = type /\ server \in {"service", "closed"}
    /\ Len(toClient) >= 3 + G => toClient[3 + G].kind = "data"

\* Where the client stands, what it has written and what it has read
ClientAt ==
    /\ client = "methods" => Len(toServer) = 0 /\ clientRead = 0
    /\ client = "creds" => /\ Len(toServer) = 1 /\ creds.given
                           /\ clientRead = IF pipeline THEN 0 ELSE 1
    /\ client = "request" => /\ Len(toServer) = 1 + G
                             /\ clientRead = IF pipeline THEN 0 ELSE 1 + G
    /\ client = "method" => /\ Len(toServer) = IF pipeline THEN 2 + G ELSE 1
                            /\ clientRead = 0
    /\ client = "auth" => /\ Len(toServer) = IF pipeline THEN 3 ELSE 2
                          /\ clientRead = 1 /\ creds.given
    /\ client = "response" => Len(toServer) = 2 + G /\ clientRead = 1 + G
    /\ client \in {"associate", "service"} =>
          /\ Len(toServer) \in {2 + G, 3 + G} /\ clientRead = 2 + G
          /\ rep = "success" /\ serverType = type /\ server \in {"service", "closed"}

\* Where the server stands, what it has written and what it has read
ServerAt ==
    /\ server = "methods" => Len(toClient) = 0 /\ serverRead = 0
    /\ server = "method" =>
          /\ Len(toClient) = 0
          /\ method # "refused" => serverRead = 1
          /\ method = "user" => creds.given
          /\ method = "none" => ~creds.given
    /\ server = "creds" => Len(toClient) = 1 /\ serverRead = 1 /\ creds.given
    /\ server = "auth" =>
          /\ Len(toClient) = 1 /\ creds.given
          /\ authRes = "success" => serverRead = 2
    /\ server = "request" => Len(toClient) = 1 + G /\ serverRead = 1 + G
    /\ server = "open" =>
          Len(toClient) = 1 + G /\ serverRead = 2 + G /\ serverType = type
    /\ server = "response" =>
          /\ Len(toClient) = 1 + G /\ serverRead = 2 + G
          /\ rep = "success" => serverType = type
    /\ server = "service" =>
          /\ Len(toClient) \in {2 + G, 3 + G} /\ serverRead = 2 + G
          /\ rep = "success" /\ serverType = type

\* The owner's part of the union at each stage of the authentication
HoldsUser == obj \in Names /\ creds.name = obj /\ creds.pass = Password[obj]
Stage ==
    /\ ~withAuth => obj = NoOne
    /\ withAuth =>
          /\ server \in {"methods", "method", "creds"} => obj = "auth"
          /\ server = "auth" => IF authRes = "success" THEN HoldsUser ELSE obj = "auth"
          /\ server \in {"request", "open", "response", "service"} => HoldsUser
    /\ server = "method" => /\ method = "user" => withAuth
                            /\ method = "none" => ~withAuth
    /\ server \in {"creds", "auth"} => withAuth
    /\ fds # {} => server \in {"response", "service", "failed"} /\ (withAuth => HoldsUser)
HInv ==
    /\ TypeOK /\ RefsExact
    /\ ToServer /\ ToClient /\ ClientAt /\ ServerAt /\ Stage

-----------------------------------------------------------------------------
LEMMA HandshakeInit == Init => HInv
<1> SUFFICES ASSUME Init PROVE HInv
  OBVIOUS
<1> USE PasswordAssumption, EmptyAssumption, NoOneAssumption
<1>1. TypeOK
  <2>1. /\ pipeline \in BOOLEAN /\ creds \in Credentials \cup {NoCreds} /\ type \in Types
        /\ withAuth \in BOOLEAN /\ patient \in BOOLEAN
    BY DEF Init
  <2>2. client \in ClientPlaces /\ server \in ServerPlaces
    BY DEF Init, ClientPlaces, ClientWrites, ServerPlaces, ServerReads
  <2>3. /\ toServer \in Seq(Message) /\ toClient \in Seq(Message)
        /\ serverRead \in 0 .. Len(toServer) /\ clientRead \in 0 .. Len(toClient)
    BY DEF Init
  <2>4. /\ method \in Methods /\ authRes \in Replies /\ rep \in Replies
        /\ serverType \in Types \cup {"none"} /\ fds \subseteq {0, 1} /\ udp \in BOOLEAN
    BY DEF Init, Methods, Replies
  <2>5. obj \in Names \cup {NoOne, "auth"} /\ tree \subseteq Names /\ authRefs \in 0 .. 2
    BY DEF Init
  <2>6. owned \in BOOLEAN
    BY DEF Init
  <2>7. userRefs \in [Names -> 0 .. 2]
    BY DEF Init
  <2>8. QED BY <2>1, <2>2, <2>3, <2>4, <2>5, <2>6, <2>7 DEF TypeOK
<1>2. RefsExact
  BY DEF Init, RefsExact
<1>3. ToServer /\ ToClient
  BY DEF Init, ToServer, ToClient, G
<1>4. ClientAt /\ ServerAt /\ Stage
  BY DEF Init, ClientAt, ServerAt, Stage
<1>5. QED BY <1>1, <1>2, <1>3, <1>4 DEF HInv

-----------------------------------------------------------------------------
(* The streams                                                             *)

\* What a write does to a stream
LEMMA Written ==
    ASSUME NEW S, NEW s \in Seq(S), NEW x \in S
    PROVE  /\ Append(s, x) \in Seq(S)
           /\ Len(Append(s, x)) = Len(s) + 1
           /\ \A i \in 1 .. Len(s) : Append(s, x)[i] = s[i]
           /\ Append(s, x)[Len(s) + 1] = x
  OBVIOUS

\* What a reset leaves of a stream
LEMMA Cut ==
    ASSUME NEW S, NEW s \in Seq(S), NEW read \in 0 .. Len(s), NEW unread \in BOOLEAN,
           NEW t \in Loses(s, read, unread)
    PROVE  /\ t \in Seq(S)
           /\ Len(t) \in read .. Len(s)
           /\ \A i \in 1 .. Len(t) : t[i] = s[i]
<1>1. CASE ~unread
  BY <1>1 DEF Loses
<1>2. CASE unread
  <2>1. PICK n \in read .. Len(s) : t = SubSeq(s, 1, n)
    BY <1>2 DEF Loses
  <2>2. QED BY <2>1
<1>3. QED BY <1>1, <1>2
Streams ==
    /\ toServer \in Seq(Message) /\ toClient \in Seq(Message)
    /\ serverRead \in 0 .. Len(toServer) /\ clientRead \in 0 .. Len(toClient)

\* What a step of the client leaves alone
ClientFrame ==
    /\ UNCHANGED <<pipeline, creds, type, server, toClient, serverRead>>
    /\ UNCHANGED <<method, authRes, rep, serverType>>

\* The server's place and its own stream do not depend on what the client does.
LEMMA ClientFrameKeeps ==
    ASSUME ToClient, ServerAt, ClientFrame
    PROVE  ToClient' /\ ServerAt'
<1>1. ToClient'
  BY DEF ToClient, ClientFrame, G
<1>2. ServerAt'
  BY DEF ServerAt, ClientFrame, G
<1>3. QED BY <1>1, <1>2

LEMMA ClientStreams ==
    ASSUME HInv, Client
    PROVE  Streams' /\ ToServer' /\ ToClient' /\ ClientAt' /\ ServerAt'
<1>0. /\ Streams /\ ToServer /\ ToClient /\ ClientAt /\ ServerAt
      /\ G \in 0 .. 1
  BY DEF HInv, TypeOK, Streams, G
<1>1. CASE WriteAuthMethods
  <2>1. ClientFrame
    BY <1>1 DEF WriteAuthMethods, ClientOnly, ClientFrame, settings, replies
  <2>2. type \in Types
    BY DEF HInv, TypeOK
  <2>3. QED
    BY <1>0, <1>1, <2>1, <2>2, ClientFrameKeeps
       DEF WriteAuthMethods, Write, Msg, Message, Replies, Methods, Streams, ToServer, ClientAt, G, ClientFrame
<1>2. CASE WriteAuthCreds
  <2>1. ClientFrame
    BY <1>2 DEF WriteAuthCreds, ClientOnly, ClientFrame, settings, replies
  <2>2. /\ creds.given /\ Len(toServer) = 1
        /\ clientRead = IF pipeline THEN 0 ELSE 1
    BY <1>0, <1>2 DEF WriteAuthCreds, ClientAt
  <2>3. /\ toServer' = Append(toServer, Msg("creds", "?"))
        /\ client' = IF pipeline THEN "request" ELSE "auth"
        /\ clientRead' = clientRead
    BY <1>2, <2>2 DEF WriteAuthCreds, Write
  <2>4. Msg("creds", "?") \in Message
    BY DEF Msg, Message, Replies
  <2>5. /\ toServer' \in Seq(Message) /\ Len(toServer') = 2
        /\ toServer'[1] = toServer[1] /\ toServer'[2].kind = "creds"
    <3> DEFINE creds_message == Msg("creds", "?")
    <3>1. creds_message.kind = "creds"
      BY DEF Msg
    <3>2. toServer \in Seq(Message) /\ creds_message \in Message /\ toServer' = Append(toServer, creds_message)
      BY <1>0, <2>3, <2>4 DEF Streams
    <3> HIDE DEF creds_message
    <3>3. QED BY <2>2, <3>1, <3>2
  <2>6. G = 1 /\ G' = 1
    BY <2>1, <2>2 DEF G, ClientFrame
  <2>7. Streams' /\ ToServer'
    BY <1>0, <2>1, <2>2, <2>3, <2>5, <2>6 DEF Streams, ToServer, ClientFrame
  <2>8. ClientAt'
    BY <2>1, <2>2, <2>3, <2>5, <2>6 DEF ClientAt, ClientFrame
  <2>9. QED BY <1>0, <2>1, <2>7, <2>8, ClientFrameKeeps
<1>3. CASE WriteRequest
  <2>1. ClientFrame
    BY <1>3 DEF WriteRequest, ClientOnly, ClientFrame, settings, replies
  <2>2. type \in Types
    BY DEF HInv, TypeOK
  <2>3. QED
    BY <1>0, <1>3, <2>1, <2>2, ClientFrameKeeps
       DEF WriteRequest, Write, Msg, Message, Replies, Methods, Streams, ToServer, ClientAt, G, ClientFrame
<1>4. CASE ClientSends
  <2>1. ClientFrame
    BY <1>4 DEF ClientSends, ClientOnly, ClientFrame, settings, replies
  <2>2. type \in Types
    BY DEF HInv, TypeOK
  <2>3. QED
    BY <1>0, <1>4, <2>1, <2>2, ClientFrameKeeps
       DEF ClientSends, Write, Msg, Message, Replies, Methods, Streams, ToServer, ClientAt, G, ClientFrame
<1>5. CASE ReadAuthMethod
  <2>1. ClientFrame
    BY <1>5 DEF ReadAuthMethod, ClientReceives, ClientOnly, ClientFrame, settings, replies
  <2>2. QED
    BY <1>0, <1>5, <2>1, ClientFrameKeeps
       DEF ReadAuthMethod, ClientReceives, ClientUnread, NextToClient, ToClient, Streams, ToServer, ClientAt, G,
           ClientFrame
<1>6. CASE ReadAuthCreds
  <2>1. ClientFrame
    BY <1>6 DEF ReadAuthCreds, ClientReceives, ClientOnly, ClientFrame, settings, replies
  <2>2. QED
    BY <1>0, <1>6, <2>1, ClientFrameKeeps
       DEF ReadAuthCreds, ClientReceives, ClientUnread, NextToClient, ToClient, Streams, ToServer, ClientAt, G,
           ClientFrame
<1>7. CASE ReadResponse
  <2>1. ClientFrame
    BY <1>7 DEF ReadResponse, ClientReceives, ClientOnly, ClientFrame, settings, replies
  <2>2. QED
    BY <1>0, <1>7, <2>1, ClientFrameKeeps
       DEF ReadResponse, ClientReceives, ClientUnread, NextToClient, ToClient, Streams, ToServer, ClientAt, G,
           ClientFrame
<1>8. CASE SetUpstreamAddr
  <2>1. ClientFrame
    BY <1>8 DEF SetUpstreamAddr, ClientOnly, ClientFrame, settings, replies
  <2>2. QED
    BY <1>0, <1>8, <2>1, ClientFrameKeeps
       DEF SetUpstreamAddr, Streams, ToServer, ClientAt, G, ClientFrame
<1>9. CASE ClientFails
  <2>1. ClientFrame
    BY <1>9 DEF ClientFails, ClientOnly, ClientFrame, settings, replies
  <2>2. QED
    BY <1>0, <1>9, <2>1, ClientFrameKeeps
       DEF ClientFails, Streams, ToServer, ClientAt, G, ClientFrame
<1>10. CASE ClientCloses
  <2>1. ClientFrame
    BY <1>10 DEF ClientCloses, ClientOnly, ClientFrame, settings, replies
  <2>2. client' = "closed" /\ clientRead' = clientRead
    BY <1>10 DEF ClientCloses
  <2>3. /\ toServer' \in Seq(Message)
        /\ Len(toServer') \in serverRead .. Len(toServer)
        /\ \A i \in 1 .. Len(toServer') : toServer'[i] = toServer[i]
    <3>1. ClientUnread \in BOOLEAN
      BY DEF ClientUnread
    <3>2. toServer' \in Loses(toServer, serverRead, ClientUnread)
      BY <1>10 DEF ClientCloses
    <3>3. QED BY <1>0, <3>1, <3>2, Cut DEF Streams
  <2>4. QED
    BY <1>0, <2>1, <2>2, <2>3, ClientFrameKeeps DEF Streams, ToServer, ClientAt, G, ClientFrame
<1>11. QED
  BY <1>1, <1>2, <1>3, <1>4, <1>5, <1>6, <1>7, <1>8, <1>9, <1>10 DEF Client
\* What a step of the server leaves alone
ServerFrame == UNCHANGED <<pipeline, creds, type, withAuth, client, toServer, clientRead>>

\* The client's stream does not depend on what the server does, nor its place
\* while the server has not answered.
LEMMA ServerFrameKeeps ==
    ASSUME ToServer, ClientAt, ServerFrame
    PROVE  /\ ToServer'
           /\ server \notin {"service", "closed"} => ClientAt'
<1>1. ToServer'
  BY DEF ToServer, ServerFrame, G
<1>2. server \notin {"service", "closed"} => ClientAt'
  BY DEF ClientAt, ServerFrame, G
<1>3. QED BY <1>1, <1>2

LEMMA ServerStreams ==
    ASSUME HInv, Server
    PROVE  Streams' /\ ToServer' /\ ToClient' /\ ClientAt' /\ ServerAt'
<1>0. /\ Streams /\ ToServer /\ ToClient /\ ClientAt /\ ServerAt /\ Stage
      /\ G \in 0 .. 1
  BY DEF HInv, TypeOK, Streams, G
<1>1. CASE ReadAuthMethods
  <2>1. ServerFrame /\ server \notin {"service", "closed"}
    BY <1>1 DEF ReadAuthMethods, ServerReceives, ServerOnly, ServerFrame, settings
  <2>2. QED
    BY <1>0, <1>1, <2>1, ServerFrameKeeps, NoOneAssumption
       DEF ReadAuthMethods, ServerReceives, ServerUnread, NextToServer, Streams, ToServer, ToClient, ServerAt, Stage,
           G, ServerFrame
<1>2. CASE ReadAuthUser
  <2>1. ServerFrame /\ server \notin {"service", "closed"}
    BY <1>2 DEF ReadAuthUser, ServerReceives, ServerOnly, ServerFrame, settings
  <2>2. QED
    BY <1>0, <1>2, <2>1, ServerFrameKeeps, NoOneAssumption
       DEF ReadAuthUser, ServerReceives, ServerUnread, NextToServer, Streams, ToServer, ToClient, ServerAt, Stage,
           G, ServerFrame
<1>3. CASE ReadRequest
  <2>1. ServerFrame /\ server \notin {"service", "closed"}
    BY <1>3 DEF ReadRequest, ServerReceives, ServerOnly, ServerFrame, settings
  <2>2. QED
    BY <1>0, <1>3, <2>1, ServerFrameKeeps, NoOneAssumption
       DEF ReadRequest, ServerReceives, ServerUnread, NextToServer, Streams, ToServer, ToClient, ServerAt, Stage,
           G, ServerFrame
<1>4. CASE WriteAuthMethod
  <2>1. ServerFrame /\ server \notin {"service", "closed"}
    BY <1>4 DEF WriteAuthMethod, ServerOnly, ServerFrame, settings
  <2>2. method \in Methods
    BY DEF HInv, TypeOK
  <2>3. QED
    BY <1>0, <1>4, <2>1, <2>2, ServerFrameKeeps
       DEF WriteAuthMethod, Answer, Msg, Message, Methods, Replies, Streams, ToClient, ServerAt, G, ServerFrame, replies
<1>5. CASE WriteAuthUser
  <2>1. ServerFrame /\ server \notin {"service", "closed"}
    BY <1>5 DEF WriteAuthUser, ServerOnly, ServerFrame, settings
  <2>2. authRes \in Replies
    BY DEF HInv, TypeOK
  <2>3. /\ creds.given /\ Len(toClient) = 1
        /\ authRes = "success" => serverRead = 2
    BY <1>0, <1>5 DEF WriteAuthUser, ServerAt
  <2>4. /\ toClient' \in Seq(Message) /\ Len(toClient') = 2
        /\ toClient'[1] = toClient[1] /\ toClient'[2].kind = "auth"
    <3> DEFINE answer == Msg("auth", authRes)
    <3>1. answer.kind = "auth"
      BY DEF Msg
    <3>2. toClient \in Seq(Message) /\ answer \in Message /\ toClient' = Append(toClient, answer)
      BY <1>0, <1>5, <2>2 DEF WriteAuthUser, Answer, Streams, Msg, Message
    <3> HIDE DEF answer
    <3>3. QED BY <2>3, <3>1, <3>2
  <2>5. G = 1 /\ G' = 1
    BY <2>1, <2>3 DEF G, ServerFrame
  <2>6. /\ server' = IF authRes = "success" THEN "request" ELSE "failed"
        /\ UNCHANGED <<serverRead, rep, serverType>>
    BY <1>5 DEF WriteAuthUser, replies
  <2>7. Streams' /\ ToClient'
    BY <1>0, <2>1, <2>3, <2>4, <2>5, <2>6 DEF Streams, ToClient, ServerFrame
  <2>8. ServerAt'
    BY <2>1, <2>3, <2>4, <2>5, <2>6 DEF ServerAt, ServerFrame
  <2>9. QED BY <1>0, <2>1, <2>7, <2>8, ServerFrameKeeps
<1>6. CASE WriteResponse
  <2>1. ServerFrame /\ server \notin {"service", "closed"}
    BY <1>6 DEF WriteResponse, ServerOnly, ServerFrame, settings
  <2>2. rep \in Replies
    BY DEF HInv, TypeOK
  <2>3. QED
    BY <1>0, <1>6, <2>1, <2>2, ServerFrameKeeps
       DEF WriteResponse, Answer, Msg, Message, Methods, Replies, Streams, ToClient, ServerAt, G, ServerFrame, replies
<1>7. CASE OpenSockets
  <2>1. ServerFrame /\ server \notin {"service", "closed"}
    BY <1>7 DEF OpenSockets, ServerOnly, ServerFrame, settings, ServerReads, ServerWrites
  <2>2. QED
    BY <1>0, <1>7, <2>1, ServerFrameKeeps
       DEF OpenSockets, ServerReads, ServerWrites, Streams, ToClient, ServerAt, G, ServerFrame, replies
<1>8. CASE ServerReadFails
  <2>1. ServerFrame /\ server \notin {"service", "closed"}
    BY <1>8 DEF ServerReadFails, ServerOnly, ServerFrame, settings, ServerReads, ServerWrites
  <2>2. QED
    BY <1>0, <1>8, <2>1, ServerFrameKeeps
       DEF ServerReadFails, ServerReads, ServerWrites, Streams, ToClient, ServerAt, G, ServerFrame, replies
<1>9. CASE ServerWriteFails
  <2>1. ServerFrame /\ server \notin {"service", "closed"}
    BY <1>9 DEF ServerWriteFails, ServerOnly, ServerFrame, settings, ServerReads, ServerWrites
  <2>2. QED
    BY <1>0, <1>9, <2>1, ServerFrameKeeps
       DEF ServerWriteFails, ServerReads, ServerWrites, Streams, ToClient, ServerAt, G, ServerFrame, replies
<1>10. CASE ServerSends
  <2>1. ServerFrame
    BY <1>10 DEF ServerSends, ServerOnly, ServerFrame, settings
  <2>2. server = "service" /\ UNCHANGED <<server, serverRead, rep, serverType>>
    BY <1>10 DEF ServerSends, replies
  <2>3. Len(toClient) = 2 + G
    BY <1>0, <1>10 DEF ServerSends, ServerAt, ToClient, Streams
  <2>4. QED
    BY <1>0, <1>10, <2>1, <2>2, <2>3, ServerFrameKeeps
       DEF ServerSends, Answer, Msg, Message, Replies, Streams, ToClient, ClientAt, ServerAt, G, ServerFrame
<1>11. CASE ServerCloses
  <2>1. ServerFrame
    BY <1>11 DEF ServerCloses, ServerOnly, ServerFrame, settings
  <2>2. server' = "closed" /\ UNCHANGED <<serverRead, rep, serverType>>
    BY <1>11 DEF ServerCloses, replies
  <2>3. /\ toClient' \in Seq(Message)
        /\ Len(toClient') \in clientRead .. Len(toClient)
        /\ \A i \in 1 .. Len(toClient') : toClient'[i] = toClient[i]
    <3>1. ServerUnread \in BOOLEAN
      BY DEF ServerUnread
    <3>2. toClient' \in Loses(toClient, clientRead, ServerUnread)
      BY <1>11 DEF ServerCloses
    <3>3. QED BY <1>0, <3>1, <3>2, Cut DEF Streams
  <2>4. QED
    BY <1>0, <2>1, <2>2, <2>3, ServerFrameKeeps
       DEF Streams, ToClient, ClientAt, ServerAt, G, ServerFrame
<1>12. QED
  BY <1>1, <1>2, <1>3, <1>4, <1>5, <1>6, <1>7, <1>8, <1>9, <1>10, <1>11 DEF Server
-----------------------------------------------------------------------------
(* The authenticator and its users                                         *)

InTree(u) == IF u \in tree THEN 1 ELSE 0
IsObj(u) == IF obj = u THEN 1 ELSE 0

\* The types of what is counted, without the bounds of the counts
Objects ==
    /\ obj \in Names \cup {NoOne, "auth"} /\ tree \subseteq Names
    /\ authRefs \in Int /\ userRefs \in [Names -> Int]

\* Dropping a reference to the authenticator does not change how many holders
\* a user has besides the tree.
LEMMA Unref ==
    ASSUME Objects, authRefs = 0 => tree = {}, authRefs > 0,
           NEW refs \in [Names -> Int], UnrefAuth(refs)
    PROVE  /\ authRefs' = authRefs - 1 /\ tree' \subseteq Names
           /\ authRefs' = 0 => tree' = {}
           /\ userRefs' \in [Names -> Int]
           /\ \A u \in Names : userRefs'[u] - InTree(u)' = refs[u] - InTree(u)
<1>1. CASE authRefs = 1
  BY <1>1 DEF UnrefAuth, Objects, InTree
<1>2. CASE authRefs # 1
  BY <1>2 DEF UnrefAuth, Objects, InTree
<1>3. QED BY <1>1, <1>2

LEMMA CountsKept ==
    ASSUME HInv, UNCHANGED <<obj, owned, tree, authRefs, userRefs>>
    PROVE  RefsExact' /\ Objects'
  BY DEF HInv, TypeOK, RefsExact, Objects

LEMMA Counts ==
    ASSUME HInv, Next
    PROVE  RefsExact' /\ Objects'
<1> USE NoOneAssumption
<1>0. /\ Objects /\ RefsExact /\ Stage /\ authRefs \in Nat
      /\ owned \in BOOLEAN /\ server \in ServerPlaces
  BY DEF HInv, TypeOK, Objects
<1>1. CASE Client
  <2>1. UNCHANGED objects
    BY <1>1 DEF Client, WriteAuthMethods, WriteAuthCreds, WriteRequest, ReadAuthMethod, ReadAuthCreds,
                ReadResponse, ClientReceives, SetUpstreamAddr, ClientFails, ClientSends, ClientCloses, ClientOnly
  <2>2. QED BY <2>1, CountsKept DEF objects
<1>2. CASE ReadAuthUser
  <2>1. obj = "auth" /\ owned' = owned /\ authRefs > 0
    BY <1>0, <1>2 DEF ReadAuthUser, ServerReceives, ServerOnly, Stage, RefsExact
  <2>2. CASE Known /\ obj' = creds.name /\ UnrefAuth([userRefs EXCEPT ![creds.name] = @ + 1])
    <3> DEFINE refs == [userRefs EXCEPT ![creds.name] = @ + 1]
    <3>1. creds.name \in Names /\ creds.name \in tree
      BY <1>0, <2>2 DEF Known, Objects
    <3>2. /\ refs \in [Names -> Int]
          /\ \A u \in Names : refs[u] = userRefs[u] + (IF u = creds.name THEN 1 ELSE 0)
      BY <1>0, <3>1 DEF Objects
    <3>3. UnrefAuth(refs)
      BY <2>2
    <3> HIDE DEF refs
    <3>4. /\ authRefs' = authRefs - 1 /\ tree' \subseteq Names
          /\ authRefs' = 0 => tree' = {}
          /\ userRefs' \in [Names -> Int]
          /\ \A u \in Names : userRefs'[u] - InTree(u)' = refs[u] - InTree(u)
      BY <1>0, <2>1, <3>2, <3>3, Unref DEF RefsExact
    <3>5. Objects'
      BY <1>0, <2>2, <3>1, <3>4 DEF Objects
    <3>6. ASSUME NEW u \in Names
          PROVE  userRefs'[u] = (IF u \in tree' THEN 1 ELSE 0) + (IF obj' = u THEN 1 ELSE 0)
      BY <1>0, <2>1, <2>2, <3>2, <3>4 DEF InTree, RefsExact, Objects
    <3>7. authRefs' = (IF owned' THEN 1 ELSE 0) + (IF obj' = "auth" THEN 1 ELSE 0)
      BY <1>0, <2>1, <2>2, <3>1, <3>4 DEF RefsExact
    <3>8. QED BY <3>4, <3>5, <3>6, <3>7 DEF RefsExact
  <2>3. CASE AuthKept
    BY <2>1, <2>3, CountsKept DEF AuthKept
  <2>4. QED BY <1>2, <2>2, <2>3 DEF ReadAuthUser
<1>3. CASE ServerCloses
  <2>1. obj' = NoOne /\ owned' = owned
    BY <1>3 DEF ServerCloses, ServerOnly
  <2>2. CASE obj = NoOne
    <3>1. UNCHANGED <<obj, owned, tree, authRefs, userRefs>>
      BY <1>3, <2>1, <2>2 DEF ServerCloses
    <3>2. QED BY <3>1, CountsKept
  <2>3. CASE obj = "auth"
    <3>1. UnrefAuth(userRefs) /\ authRefs > 0
      BY <1>0, <1>3, <2>3 DEF ServerCloses, RefsExact
    <3>2. /\ authRefs' = authRefs - 1 /\ tree' \subseteq Names
          /\ authRefs' = 0 => tree' = {}
          /\ userRefs' \in [Names -> Int]
          /\ \A u \in Names : userRefs'[u] - InTree(u)' = userRefs[u] - InTree(u)
      BY <1>0, <3>1, Unref DEF RefsExact, Objects
    <3>3. Objects'
      BY <1>0, <2>1, <3>2 DEF Objects
    <3>4. ASSUME NEW u \in Names
          PROVE  userRefs'[u] = (IF u \in tree' THEN 1 ELSE 0) + (IF obj' = u THEN 1 ELSE 0)
      BY <1>0, <2>1, <2>3, <3>2 DEF InTree, RefsExact, Objects
    <3>5. authRefs' = (IF owned' THEN 1 ELSE 0) + (IF obj' = "auth" THEN 1 ELSE 0)
      BY <1>0, <2>1, <2>3, <3>2 DEF RefsExact
    <3>6. QED BY <3>2, <3>3, <3>4, <3>5 DEF RefsExact
  <2>4. CASE obj \in Names
    <3>1. userRefs' = [userRefs EXCEPT ![obj] = @ - 1] /\ UNCHANGED <<tree, authRefs>>
      BY <1>3, <2>4 DEF ServerCloses
    <3>2. QED BY <1>0, <2>1, <2>4, <3>1 DEF RefsExact, Objects
  <2>5. QED BY <1>0, <2>2, <2>3, <2>4 DEF Objects
<1>4. CASE Server /\ ~ReadAuthUser /\ ~ServerCloses
  <2>1. UNCHANGED <<obj, owned, tree, authRefs, userRefs>>
    BY <1>4 DEF Server, ReadAuthMethods, WriteAuthMethod, WriteAuthUser, ReadRequest, OpenSockets, WriteResponse,
                ServerReadFails, ServerWriteFails, ServerSends, ServerReceives, ServerOnly, AuthKept
  <2>2. QED BY <2>1, CountsKept
<1>5. ASSUME NEW u \in Names, Add(u) \/ Del(u)
      PROVE  RefsExact' /\ Objects'
  <2>1. CASE Add(u)
    <3>1. authRefs > 0 /\ obj # u
      BY <1>0, <2>1 DEF Add, RefsExact, Objects
    <3>2. QED BY <1>0, <2>1, <3>1 DEF Add, OwnerOnly, RefsExact, Objects
  <2>2. CASE Del(u)
    BY <1>0, <2>2 DEF Del, OwnerOnly, RefsExact, Objects
  <2>3. QED BY <1>5, <2>1, <2>2
<1>6. CASE Drop
  <2>1. UnrefAuth(userRefs) /\ owned /\ owned' = FALSE /\ obj' = obj /\ authRefs > 0
    BY <1>0, <1>6 DEF Drop, OwnerOnly, RefsExact
  <2>2. /\ authRefs' = authRefs - 1 /\ tree' \subseteq Names
        /\ authRefs' = 0 => tree' = {}
        /\ userRefs' \in [Names -> Int]
        /\ \A u \in Names : userRefs'[u] - InTree(u)' = userRefs[u] - InTree(u)
    BY <1>0, <2>1, Unref DEF RefsExact, Objects
  <2>3. ASSUME NEW u \in Names
        PROVE  userRefs'[u] = (IF u \in tree' THEN 1 ELSE 0) + (IF obj' = u THEN 1 ELSE 0)
    BY <1>0, <2>1, <2>2 DEF InTree, RefsExact, Objects
  <2>4. QED BY <1>0, <2>1, <2>2, <2>3 DEF RefsExact, Objects
<1>7. QED
  BY <1>1, <1>2, <1>3, <1>4, <1>5, <1>6 DEF Next, Owner
LEMMA Stages ==
    ASSUME HInv, Next
    PROVE  Stage'
<1> USE NoOneAssumption
<1>0. Stage
  BY DEF HInv
<1>1. CASE Client
  <2>1. UNCHANGED <<withAuth, creds, server, method, authRes, obj, fds>>
    BY <1>1 DEF Client, WriteAuthMethods, WriteAuthCreds, WriteRequest, ReadAuthMethod, ReadAuthCreds,
                ReadResponse, ClientReceives, SetUpstreamAddr, ClientFails, ClientSends, ClientCloses,
                ClientOnly, settings, replies, objects
  <2>2. QED BY <1>0, <2>1 DEF Stage, HoldsUser
<1>2. CASE Owner
  <2>1. UNCHANGED <<withAuth, creds, server, method, authRes, obj, fds>>
    BY <1>2 DEF Owner, Drop, Add, Del, OwnerOnly, settings, replies
  <2>2. QED BY <1>0, <2>1 DEF Stage, HoldsUser
<1>3. CASE ReadAuthUser
  <2>1. /\ server = "creds" /\ server' = "auth" /\ withAuth /\ obj = "auth" /\ fds = {}
        /\ UNCHANGED <<withAuth, creds, fds>>
    BY <1>0, <1>3 DEF ReadAuthUser, ServerReceives, ServerOnly, settings, Stage
  <2>2. CASE Known /\ authRes' = "success" /\ obj' = creds.name
    <3>1. HoldsUser'
      BY <2>1, <2>2 DEF HoldsUser, Known, HInv, TypeOK
    <3>2. QED BY <2>1, <2>2, <3>1 DEF Stage
  <2>3. CASE authRes' = "failure" /\ AuthKept
    BY <2>1, <2>3 DEF Stage, AuthKept
  <2>4. QED BY <1>3, <2>2, <2>3 DEF ReadAuthUser
<1>4. CASE ServerCloses
  BY <1>0, <1>4 DEF ServerCloses, ServerOnly, settings, Stage
<1>5. CASE Server /\ ~ReadAuthUser /\ ~ServerCloses
  <2>1. UNCHANGED <<withAuth, creds, obj>>
    BY <1>5 DEF Server, ReadAuthMethods, WriteAuthMethod, WriteAuthUser, ReadRequest, OpenSockets, WriteResponse,
                ServerReadFails, ServerWriteFails, ServerSends, ServerReceives, ServerOnly, AuthKept, settings
  <2>2. HoldsUser' = HoldsUser
    BY <2>1 DEF HoldsUser
  <2>3. CASE ReadAuthMethods
    BY <1>0, <2>1, <2>2, <2>3 DEF ReadAuthMethods, ServerReceives, Stage
  <2>4. CASE WriteAuthMethod
    BY <1>0, <2>1, <2>2, <2>4 DEF WriteAuthMethod, Stage, replies
  <2>5. CASE WriteAuthUser
    BY <1>0, <2>1, <2>2, <2>5 DEF WriteAuthUser, Stage, replies
  <2>6. CASE ReadRequest
    BY <1>0, <2>1, <2>2, <2>6 DEF ReadRequest, ServerReceives, Stage
  <2>7. CASE OpenSockets
    BY <1>0, <2>1, <2>2, <2>7 DEF OpenSockets, Stage
  <2>8. CASE WriteResponse
    BY <1>0, <2>1, <2>2, <2>8 DEF WriteResponse, Stage, replies
  <2>9. CASE ServerReadFails
    BY <1>0, <2>1, <2>2, <2>9 DEF ServerReadFails, ServerReads, Stage
  <2>10. CASE ServerWriteFails
    BY <1>0, <2>1, <2>2, <2>10 DEF ServerWriteFails, ServerWrites, Stage, replies
  <2>11. CASE ServerSends
    BY <1>0, <2>1, <2>2, <2>11 DEF ServerSends, Stage, replies
  <2>12. QED
    BY <1>5, <2>3, <2>4, <2>5, <2>6, <2>7, <2>8, <2>9, <2>10, <2>11 DEF Server
<1>6. QED BY <1>1, <1>2, <1>3, <1>4, <1>5 DEF Next

-----------------------------------------------------------------------------
(* Types, and the invariant as a whole                                     *)

\* The state that no step takes out of its range
Ranges ==
    /\ pipeline \in BOOLEAN /\ creds \in Credentials \cup {NoCreds} /\ type \in Types
    /\ withAuth \in BOOLEAN /\ patient \in BOOLEAN
    /\ client \in ClientPlaces /\ server \in ServerPlaces
    /\ method \in Methods /\ authRes \in Replies /\ rep \in Replies
    /\ serverType \in Types \cup {"none"}
    /\ fds \subseteq {0, 1} /\ udp \in BOOLEAN
    /\ owned \in BOOLEAN

LEMMA RangesKept ==
    ASSUME HInv, Next
    PROVE  Ranges'
<1>0. Ranges
  BY DEF HInv, TypeOK, Ranges
<1>1. UNCHANGED settings
  BY DEF Next, Client, WriteAuthMethods, WriteAuthCreds, WriteRequest, ReadAuthMethod, ReadAuthCreds,
         ReadResponse, ClientReceives, SetUpstreamAddr, ClientFails, ClientSends, ClientCloses, ClientOnly,
         Server, ReadAuthMethods, WriteAuthMethod, ReadAuthUser, WriteAuthUser, ReadRequest, OpenSockets,
         WriteResponse, ServerReadFails, ServerWriteFails, ServerSends, ServerCloses, ServerReceives,
         ServerOnly, Owner, Add, Del, Drop, OwnerOnly
<1>2. /\ pipeline' \in BOOLEAN /\ creds' \in Credentials \cup {NoCreds} /\ type' \in Types
      /\ withAuth' \in BOOLEAN /\ patient' \in BOOLEAN
  BY <1>0, <1>1 DEF Ranges, settings
<1>3. CASE Client
  <2>1. UNCHANGED <<server, method, authRes, rep, serverType, fds, owned>>
    BY <1>3 DEF Client, WriteAuthMethods, WriteAuthCreds, WriteRequest, ReadAuthMethod, ReadAuthCreds,
                ReadResponse, ClientReceives, SetUpstreamAddr, ClientFails, ClientSends, ClientCloses,
                ClientOnly, replies, objects
  <2>2. client' \in ClientPlaces
    BY <1>0, <1>3 DEF Client, WriteAuthMethods, WriteAuthCreds, WriteRequest, ReadAuthMethod, ReadAuthCreds,
                ReadResponse, ClientReceives, SetUpstreamAddr, ClientFails, ClientSends, ClientCloses,
                Ranges, ClientPlaces, ClientWrites, ClientReads
  <2>3. udp' \in BOOLEAN
    BY <1>0, <1>3 DEF Client, WriteAuthMethods, WriteAuthCreds, WriteRequest, ReadAuthMethod, ReadAuthCreds,
                ReadResponse, ClientReceives, SetUpstreamAddr, ClientFails, ClientSends, ClientCloses,
                Ranges
  <2>4. QED BY <1>0, <1>2, <2>1, <2>2, <2>3 DEF Ranges
<1>4. CASE Server
  <2>1. UNCHANGED <<client, udp, owned>>
    BY <1>4 DEF Server, ReadAuthMethods, WriteAuthMethod, ReadAuthUser, WriteAuthUser, ReadRequest,
                OpenSockets, WriteResponse, ServerReadFails, ServerWriteFails, ServerSends, ServerCloses,
                ServerReceives, ServerOnly
  <2>2. server' \in ServerPlaces
    BY <1>0, <1>4 DEF Server, ReadAuthMethods, WriteAuthMethod, ReadAuthUser, WriteAuthUser, ReadRequest,
                OpenSockets, WriteResponse, ServerReadFails, ServerWriteFails, ServerSends, ServerCloses,
                Ranges, ServerPlaces, ServerReads, ServerWrites
  <2>3. method' \in Methods /\ authRes' \in Replies /\ rep' \in Replies
    BY <1>0, <1>4 DEF Server, ReadAuthMethods, WriteAuthMethod, ReadAuthUser, WriteAuthUser, ReadRequest,
                OpenSockets, WriteResponse, ServerReadFails, ServerWriteFails, ServerSends, ServerCloses,
                Ranges, Methods, Replies, replies
  <2>4. serverType' \in Types \cup {"none"}
    <3>1. CASE ReadRequest
      <4>1. NextToServer.v = type
        BY <3>1 DEF HInv, ReadRequest, ServerReceives, ServerUnread, NextToServer, ServerAt, ToServer, G, TypeOK
      <4>2. QED BY <1>0, <3>1, <4>1 DEF ReadRequest, Ranges
    <3>2. CASE ~ReadRequest
      BY <1>0, <1>4, <3>2 DEF Server, ReadAuthMethods, WriteAuthMethod, ReadAuthUser, WriteAuthUser,
                OpenSockets, WriteResponse, ServerReadFails, ServerWriteFails, ServerSends, ServerCloses,
                Ranges, replies
    <3>3. QED BY <3>1, <3>2
  <2>5. fds' \subseteq {0, 1}
    BY <1>0, <1>4 DEF Server, ReadAuthMethods, WriteAuthMethod, ReadAuthUser, WriteAuthUser, ReadRequest,
                OpenSockets, WriteResponse, ServerReadFails, ServerWriteFails, ServerSends, ServerCloses,
                ServerReceives, Ranges, Sockets
  <2>6. QED BY <1>0, <1>2, <2>1, <2>2, <2>3, <2>4, <2>5 DEF Ranges
<1>5. CASE Owner
  <2>1. UNCHANGED <<client, server, method, authRes, rep, serverType, fds, udp>>
    BY <1>5 DEF Owner, Add, Del, Drop, OwnerOnly, replies
  <2>2. owned' \in BOOLEAN
    BY <1>0, <1>5 DEF Owner, Add, Del, Drop, Ranges
  <2>3. QED BY <1>0, <1>2, <2>1, <2>2 DEF Ranges
<1>6. QED BY <1>3, <1>4, <1>5 DEF Next

LEMMA OwnerStreams ==
    ASSUME HInv, Owner
    PROVE  Streams' /\ ToServer' /\ ToClient' /\ ClientAt' /\ ServerAt'
<1>1. UNCHANGED <<settings, client, server, streams, replies>>
  BY DEF Owner, Add, Del, Drop, OwnerOnly
<1>2. Streams' /\ ToServer' /\ ToClient'
  BY <1>1 DEF HInv, TypeOK, Streams, ToServer, ToClient, G, settings, streams, replies
<1>3. ClientAt' /\ ServerAt'
  BY <1>1 DEF HInv, ClientAt, ServerAt, G, settings, streams, replies
<1>4. QED BY <1>2, <1>3

LEMMA HandshakeStep == HInv /\ [Next]_vars => HInv'
<1> SUFFICES ASSUME HInv, [Next]_vars PROVE HInv'
  OBVIOUS
<1>1. CASE Next
  <2>1. Streams' /\ ToServer' /\ ToClient' /\ ClientAt' /\ ServerAt'
    BY <1>1, ClientStreams, ServerStreams, OwnerStreams DEF Next
  <2>2. RefsExact' /\ Objects' /\ Stage' /\ Ranges'
    BY <1>1, Counts, Stages, RangesKept
  <2>3. authRefs' \in 0 .. 2 /\ userRefs' \in [Names -> 0 .. 2]
    <3>1. authRefs' \in 0 .. 2
      BY <2>2 DEF RefsExact, Objects
    <3>2. \A u \in Names : userRefs'[u] \in 0 .. 2
      BY <2>2 DEF RefsExact, Objects
    <3>3. QED BY <2>2, <3>1, <3>2 DEF Objects
  <2>4. TypeOK'
    BY <2>1, <2>2, <2>3 DEF TypeOK, Streams, Objects, Ranges
  <2>5. QED BY <2>1, <2>2, <2>4 DEF HInv
<1>2. CASE UNCHANGED vars
  <2>1. UNCHANGED <<settings, client, server, streams, replies, fds, udp, objects>>
    BY <1>2 DEF vars
  <2>2. TypeOK' /\ RefsExact'
    BY <2>1 DEF HInv, TypeOK, RefsExact, settings, streams, replies, objects
  <2>3. ToServer' /\ ToClient'
    BY <2>1 DEF HInv, ToServer, ToClient, G, settings, streams, replies
  <2>4. ClientAt' /\ ServerAt' /\ Stage'
    BY <2>1 DEF HInv, ClientAt, ServerAt, Stage, HoldsUser, G, settings, streams, replies, objects
  <2>5. QED BY <2>2, <2>3, <2>4 DEF HInv
<1>3. QED BY <1>1, <1>2

THEOREM HandshakeInvariant == Spec => []HInv
  BY HandshakeInit, HandshakeStep, PTL DEF Spec

-----------------------------------------------------------------------------
\* Socks5Handshake keeps its types: every place, message and count of client,
\* server and authenticator stays in its range.
THEOREM TypeCorrect == Spec => []TypeOK
<1>1. HInv => TypeOK
  BY DEF HInv
<1>2. QED BY <1>1, HandshakeInvariant, PTL

\* The references to the authenticator and to its users are counted exactly,
\* whatever the owner does and wherever a handshake ends (server.c:189).
THEOREM CountsAreExact == Spec => []RefsExact
<1>1. HInv => RefsExact
  BY DEF HInv
<1>2. QED BY <1>1, HandshakeInvariant, PTL

\* A server with an authenticator opens sockets only for a client that gave
\* the password of the user its session holds (server.c:125-194).
THEOREM NobodyPassesUnknown == Spec => []Authorized
<1>1. HInv => Authorized
  BY DEF HInv, Stage, HoldsUser, Authorized
<1>2. QED BY <1>1, HandshakeInvariant, PTL

\* What a side is about to parse is what the other has written there, in the
\* standard and in the pipelined handshake (client.c:326-401).
THEOREM SidesKeepTheirPlace == Spec => []Aligned
<1>1. HInv => Aligned
  <2> SUFFICES ASSUME HInv PROVE Aligned
    OBVIOUS
  <2>1. /\ Streams /\ ToServer /\ ToClient /\ ClientAt /\ ServerAt
        /\ G \in 0 .. 1
    BY DEF HInv, TypeOK, Streams, G
  <2>2. ClientUnread /\ client \in ClientReads => NextToClient.kind = client
    BY <2>1 DEF ClientUnread, NextToClient, ClientReads, Streams, ToClient, ClientAt, G
  <2>3. ServerUnread /\ server \in ServerReads => NextToServer.kind = server
    BY <2>1 DEF ServerUnread, NextToServer, ServerReads, Streams, ToServer, ServerAt, G
  <2>4. ClientUnread /\ client = "service" => NextToClient.kind = "data"
    BY <2>1 DEF ClientUnread, NextToClient, Streams, ToClient, ClientAt, G
  <2>5. ServerUnread /\ server = "service" => NextToServer.kind = "data"
    BY <2>1 DEF ServerUnread, NextToServer, Streams, ToServer, ServerAt, G
  <2>6. QED BY <2>2, <2>3, <2>4, <2>5 DEF Aligned
<1>2. QED BY <1>1, HandshakeInvariant, PTL

\* A client whose handshake succeeded is served with the type it asked for
\* (client.c:357, server.c:501-529).
THEOREM SidesAgree == Spec => []Agreement
<1>1. HInv => Agreement
  BY DEF HInv, ClientAt, Agreement
<1>2. QED BY <1>1, HandshakeInvariant, PTL
=============================================================================
