-------------------------- MODULE Socks5Handshake --------------------------
(***************************************************************************)
(* The SOCKS5 handshake: the client (hev-socks5-client.c) in its standard  *)
(* and its pipelined form, the server of the same library                  *)
(* (hev-socks5-server.c), and the authenticator whose users the server     *)
(* looks up while its owner changes it.                                    *)
(*                                                                         *)
(* A stream is the log of the messages one side wrote and the number the   *)
(* other has read; recv with MSG_WAITALL waits for a message as a whole.   *)
(* What a message of credentials says is in creds.                         *)
(* A side that closes with messages unread resets the connection, and      *)
(* messages of its own may be lost.  A write to a side that has closed may *)
(* still succeed.                                                          *)
(***************************************************************************)
EXTENDS Integers, Sequences, FiniteSets

CONSTANTS
    Names,         \* the users that may exist
    Passwords,
    Password,      \* the password of each user
    NoOne,         \* the owner's part of the union obj / auth / user is null
    Empty          \* an empty name or password

ASSUME PasswordAssumption == Password \in [Names -> Passwords]
ASSUME EmptyAssumption == Empty \notin Names \cup Passwords
ASSUME NoOneAssumption == NoOne \notin Names /\ "auth" \notin Names /\ NoOne # "auth"

VARIABLES
    pipeline, creds, type,  \* the client's settings and the type of its session
    withAuth,      \* whether the server was given an authenticator
    patient,       \* whether no timeout fires and nobody terminates
    client, server, \* where the two handshakes stand
    toServer, toClient,         \* the logs of the two streams
    serverRead, clientRead,     \* how many of their messages were read
    method,        \* the method the server chose
    authRes, rep,  \* its answers to the credentials and to the request
    serverType,    \* the type of the server's session
    fds,           \* the sockets the server opened for the client
    udp,           \* the socket of the client's association is open
    obj,           \* the union: the authenticator or the user
    owned,         \* the owner holds the authenticator
    tree,          \* the users in the authenticator
    authRefs, userRefs  \* the reference counts

settings == <<pipeline, creds, type, withAuth, patient>>
streams == <<toServer, toClient, serverRead, clientRead>>
replies == <<method, authRes, rep, serverType>>
objects == <<obj, owned, tree, authRefs, userRefs>>
vars == <<settings, client, server, streams, replies, fds, udp, objects>>

Types == {"tcp", "udpInTcp", "udpInUdp"}
NoCreds == [name |-> Empty, pass |-> Empty, given |-> FALSE]
Credentials == [name : Names \cup {Empty}, pass : Passwords \cup {Empty}, given : {TRUE}]
Methods == {"none", "user", "refused"}
Replies == {"?", "success", "failure"}
Message ==
    [kind : {"methods", "method", "creds", "auth", "request", "response", "data"},
     v : Methods \cup Replies \cup Types]

ClientWrites == {"methods", "creds", "request"}
ClientReads == {"method", "auth", "response"}
ClientPlaces == ClientWrites \cup ClientReads \cup {"associate", "service", "failed", "closed"}
ServerReads == {"methods", "creds", "request"}
ServerWrites == {"method", "auth", "response"}
ServerPlaces == ServerReads \cup ServerWrites \cup {"open", "service", "failed", "closed"}

TypeOK ==
    /\ pipeline \in BOOLEAN /\ creds \in Credentials \cup {NoCreds} /\ type \in Types
    /\ withAuth \in BOOLEAN /\ patient \in BOOLEAN
    /\ client \in ClientPlaces /\ server \in ServerPlaces
    /\ toServer \in Seq(Message) /\ toClient \in Seq(Message)
    /\ serverRead \in 0 .. Len(toServer) /\ clientRead \in 0 .. Len(toClient)
    /\ method \in Methods /\ authRes \in Replies /\ rep \in Replies
    /\ serverType \in Types \cup {"none"}
    /\ fds \subseteq {0, 1} /\ udp \in BOOLEAN
    /\ obj \in Names \cup {NoOne, "auth"} /\ owned \in BOOLEAN /\ tree \subseteq Names
    /\ authRefs \in 0 .. 2 /\ userRefs \in [Names -> 0 .. 2]

\* The owner has filled the authenticator, and hev_socks5_server_set_auth took
\* a reference, before the server runs.
Init ==
    /\ pipeline \in BOOLEAN /\ creds \in Credentials \cup {NoCreds} /\ type \in Types
    /\ withAuth \in BOOLEAN /\ patient \in BOOLEAN
    /\ client = "methods" /\ server = "methods"
    /\ toServer = <<>> /\ toClient = <<>> /\ serverRead = 0 /\ clientRead = 0
    /\ method = "refused" /\ authRes = "?" /\ rep = "?" /\ serverType = "none"
    /\ fds = {} /\ udp = FALSE
    /\ owned = withAuth
    /\ obj = IF withAuth THEN "auth" ELSE NoOne
    /\ authRefs = IF withAuth THEN 2 ELSE 0
    /\ tree = IF withAuth THEN Names ELSE {}
    /\ userRefs = [u \in Names |-> IF withAuth THEN 1 ELSE 0]

-----------------------------------------------------------------------------
(* The client                                                              *)

Msg(kind, v) == [kind |-> kind, v |-> v]
Write(kind, v) == toServer' = Append(toServer, Msg(kind, v))

ClientUnread == clientRead < Len(toClient)
NextToClient == toClient[clientRead + 1]

ClientOnly == UNCHANGED <<settings, server, serverRead, replies, fds, objects>>

\* Mutants: the pipelined client sends no credentials; it reads first.
SkipCreds ==
    /\ client = "methods"
    /\ Write("methods", IF creds.given THEN "user" ELSE "none")
    /\ client' = IF ~pipeline THEN "method" ELSE "request"
    /\ ClientOnly /\ UNCHANGED <<toClient, clientRead, udp>>
ReadFirst ==
    /\ client = "methods"
    /\ Write("methods", IF creds.given THEN "user" ELSE "none")
    /\ client' = "method"
    /\ ClientOnly /\ UNCHANGED <<toClient, clientRead, udp>>

WriteAuthMethods ==
    /\ client = "methods"
    /\ Write("methods", IF creds.given THEN "user" ELSE "none")
    /\ client' = IF ~pipeline THEN "method" ELSE IF creds.given THEN "creds" ELSE "request"
    /\ ClientOnly /\ UNCHANGED <<toClient, clientRead, udp>>

\* A server that asks for credentials without being offered any gets none.
WriteAuthCreds ==
    /\ client = "creds"
    /\ IF creds.given THEN Write("creds", "?") ELSE UNCHANGED toServer
    /\ client' = IF pipeline THEN "request" ELSE "auth"
    /\ ClientOnly /\ UNCHANGED <<toClient, clientRead, udp>>

WriteRequest ==
    /\ client = "request"
    /\ Write("request", type)
    /\ client' = IF pipeline THEN "method" ELSE "response"
    /\ ClientOnly /\ UNCHANGED <<toClient, clientRead, udp>>

ClientReceives(kind) ==
    /\ client = kind /\ ClientUnread
    /\ clientRead' = clientRead + 1
    /\ ClientOnly /\ UNCHANGED <<toServer, toClient, udp>>

ReadAuthMethod ==
    /\ ClientReceives("method")
    /\ client' = CASE NextToClient.v = "user" -> IF pipeline THEN "auth" ELSE "creds"
                   [] NextToClient.v = "none" -> IF pipeline THEN "response" ELSE "request"
                   [] OTHER -> "failed"

ReadAuthCreds ==
    /\ ClientReceives("auth")
    /\ client' = IF NextToClient.v # "success" THEN "failed"
                 ELSE IF pipeline THEN "response" ELSE "request"

ReadResponse ==
    /\ ClientReceives("response")
    /\ client' = IF NextToClient.v # "success" THEN "failed"
                 ELSE IF type = "udpInUdp" THEN "associate" ELSE "service"

\* set_upstream_addr of a UDP session
SetUpstreamAddr ==
    /\ client = "associate"
    /\ \/ client' = "service" /\ udp' = TRUE
       \/ client' = "failed" /\ UNCHANGED udp
    /\ ClientOnly /\ UNCHANGED <<toServer, toClient, clientRead>>

\* A write or a read fails: the server has closed, a timeout fires, or the
\* session is terminated.
ClientFails ==
    /\ client \in ClientWrites \cup ClientReads
    /\ ~patient \/ (server = "closed" /\ (client \in ClientWrites \/ ~ClientUnread))
    /\ client' = "failed"
    /\ ClientOnly /\ UNCHANGED <<toServer, toClient, clientRead, udp>>

\* The session moves its first bytes.
ClientSends ==
    /\ client = "service"
    /\ \A i \in DOMAIN toServer : toServer[i].kind # "data"
    /\ Write("data", "?")
    /\ ClientOnly /\ UNCHANGED <<client, toClient, clientRead, udp>>

\* Closing with messages unread loses a tail of the own stream.
Loses(log, read, unread) ==
    IF unread THEN {SubSeq(log, 1, n) : n \in read .. Len(log)} ELSE {log}

ClientCloses ==
    /\ client = "failed" \/ (client = "service" /\ ~patient)
    /\ client' = "closed" /\ udp' = FALSE
    /\ toServer' \in Loses(toServer, serverRead, ClientUnread)
    /\ ClientOnly /\ UNCHANGED <<toClient, clientRead>>

Client ==
    \/ WriteAuthMethods \/ WriteAuthCreds \/ WriteRequest
    \/ ReadAuthMethod \/ ReadAuthCreds \/ ReadResponse \/ SetUpstreamAddr
    \/ ClientFails \/ ClientSends \/ ClientCloses

-----------------------------------------------------------------------------
(* The server                                                              *)

ServerUnread == serverRead < Len(toServer)
NextToServer == toServer[serverRead + 1]
Answer(kind, v) == toClient' = Append(toClient, Msg(kind, v))

ServerOnly == UNCHANGED <<settings, client, clientRead, udp, owned>>
AuthKept == UNCHANGED <<obj, tree, authRefs, userRefs>>

ServerReceives(kind) ==
    /\ server = kind /\ ServerUnread
    /\ serverRead' = serverRead + 1
    /\ ServerOnly /\ UNCHANGED <<toServer, toClient, fds>>

\* hev_socks5_server_read_auth_method: one method is accepted.
ReadAuthMethods ==
    /\ ServerReceives("methods")
    /\ LET wanted == IF obj = NoOne THEN "none" ELSE "user" IN
       method' = IF NextToServer.v = wanted THEN wanted ELSE "refused"
    /\ server' = "method"
    /\ AuthKept /\ UNCHANGED <<authRes, rep, serverType>>

WriteAuthMethod ==
    /\ server = "method"
    /\ Answer("method", method)
    /\ server' = CASE method = "none" -> "request"
                   [] method = "user" -> "creds"
                   [] OTHER -> "failed"
    /\ ServerOnly /\ AuthKept /\ UNCHANGED <<toServer, serverRead, replies, fds>>

\* Mutant: a password is not compared.
KnownByName == creds.name \in tree /\ creds.pass # Empty

\* hev_socks5_authenticator_get and hev_socks5_user_check
Known == creds.name \in tree /\ creds.pass = Password[creds.name]

\* Mutant: the reference to the authenticator is kept.
UnrefAuthForgotten(refs) == userRefs' = refs /\ UNCHANGED <<tree, authRefs>>

\* The last reference to an authenticator clears it.
UnrefAuth(refs) ==
    /\ authRefs' = authRefs - 1
    /\ tree' = IF authRefs = 1 THEN {} ELSE tree
    /\ userRefs' = [u \in Names |-> IF authRefs = 1 /\ u \in tree THEN refs[u] - 1 ELSE refs[u]]

\* hev_socks5_server_read_auth_user: the user takes the place of the
\* authenticator in the union.
ReadAuthUser ==
    /\ ServerReceives("creds")
    /\ server' = "auth"
    /\ \/ /\ Known
          /\ authRes' = "success" /\ obj' = creds.name
          /\ UnrefAuth([userRefs EXCEPT ![creds.name] = @ + 1])
       \/ /\ ~Known
          /\ authRes' = "failure" /\ AuthKept
    /\ UNCHANGED <<method, rep, serverType>>

WriteAuthUser ==
    /\ server = "auth"
    /\ Answer("auth", authRes)
    /\ server' = IF authRes = "success" THEN "request" ELSE "failed"
    /\ ServerOnly /\ AuthKept /\ UNCHANGED <<toServer, serverRead, replies, fds>>

\* An address that cannot be resolved, or is cut, is answered with a failure.
ReadRequest ==
    /\ ServerReceives("request")
    /\ \/ server' = "open" /\ serverType' = NextToServer.v /\ UNCHANGED rep
       \/ server' = "response" /\ rep' = "failure" /\ UNCHANGED serverType
    /\ AuthKept /\ UNCHANGED <<method, authRes>>

\* hev_socks5_server_connect and hev_socks5_server_bind: an association needs
\* a second socket, towards the client.
Sockets == IF serverType = "udpInUdp" THEN {0, 1} ELSE {0}

OpenSockets ==
    /\ server = "open"
    /\ \/ fds' = Sockets /\ rep' = "success"
       \/ fds' \in {{}, {0}} \ {Sockets} /\ rep' = "failure"
    /\ server' = "response"
    /\ ServerOnly /\ AuthKept
    /\ UNCHANGED <<toServer, toClient, serverRead, method, authRes, serverType>>

\* Mutant: the result of the connect is not looked at.
RespondSuccess ==
    /\ server = "response"
    /\ Answer("response", "success")
    /\ server' = IF rep = "success" THEN "service" ELSE "failed"
    /\ ServerOnly /\ AuthKept /\ UNCHANGED <<toServer, serverRead, replies, fds>>

WriteResponse ==
    /\ server = "response"
    /\ Answer("response", rep)
    /\ server' = IF rep = "success" THEN "service" ELSE "failed"
    /\ ServerOnly /\ AuthKept /\ UNCHANGED <<toServer, serverRead, replies, fds>>

\* A read fails.  The server writes an answer even so, but for the request.
ServerReadFails ==
    /\ server \in ServerReads
    /\ ~patient \/ (client = "closed" /\ ~ServerUnread)
    /\ \/ server = "methods" /\ server' = "method" /\ method' = "refused" /\ UNCHANGED authRes
       \/ server = "creds" /\ server' = "auth" /\ authRes' = "failure" /\ UNCHANGED method
       \/ server = "request" /\ server' = "failed" /\ UNCHANGED <<method, authRes>>
    /\ ServerOnly /\ AuthKept
    /\ UNCHANGED <<toServer, toClient, serverRead, rep, serverType, fds>>

ServerWriteFails ==
    /\ server \in ServerWrites
    /\ ~patient \/ client = "closed"
    /\ server' = "failed"
    /\ ServerOnly /\ AuthKept /\ UNCHANGED <<toServer, toClient, serverRead, replies, fds>>

ServerSends ==
    /\ server = "service"
    /\ \A i \in DOMAIN toClient : toClient[i].kind # "data"
    /\ Answer("data", "?")
    /\ ServerOnly /\ AuthKept /\ UNCHANGED <<server, toServer, serverRead, replies, fds>>

\* The splice ends and the session is destructed.
ServerCloses ==
    /\ server = "failed" \/ (server = "service" /\ (~patient \/ client = "closed"))
    /\ server' = "closed" /\ fds' = {}
    /\ toClient' \in Loses(toClient, clientRead, ServerUnread)
    /\ obj' = NoOne
    /\ CASE obj = NoOne -> UNCHANGED <<tree, authRefs, userRefs>>
         [] obj = "auth" -> UnrefAuth(userRefs)
         [] OTHER -> userRefs' = [userRefs EXCEPT ![obj] = @ - 1] /\ UNCHANGED <<tree, authRefs>>
    /\ ServerOnly /\ UNCHANGED <<toServer, serverRead, replies>>

Server ==
    \/ ReadAuthMethods \/ WriteAuthMethod \/ ReadAuthUser \/ WriteAuthUser
    \/ ReadRequest \/ OpenSockets \/ WriteResponse
    \/ ServerReadFails \/ ServerWriteFails \/ ServerSends \/ ServerCloses

-----------------------------------------------------------------------------
(* The owner of the authenticator                                          *)

OwnerOnly == UNCHANGED <<settings, client, server, streams, replies, fds, udp, obj>>

\* hev_socks5_authenticator_add, of a new user whose name no object has
Add(u) ==
    /\ owned /\ u \notin tree /\ userRefs[u] = 0
    /\ tree' = tree \cup {u} /\ userRefs' = [userRefs EXCEPT ![u] = 1]
    /\ OwnerOnly /\ UNCHANGED <<owned, authRefs>>

\* hev_socks5_authenticator_del
Del(u) ==
    /\ owned /\ u \in tree
    /\ tree' = tree \ {u} /\ userRefs' = [userRefs EXCEPT ![u] = @ - 1]
    /\ OwnerOnly /\ UNCHANGED <<owned, authRefs>>

Drop ==
    /\ owned
    /\ owned' = FALSE
    /\ UnrefAuth(userRefs)
    /\ OwnerOnly

Owner == Drop \/ \E u \in Names : Add(u) \/ Del(u)

Next == Client \/ Server \/ Owner

Spec == Init /\ [][Next]_vars

\* Both tasks run when they can.
FairSpec == Spec /\ WF_vars(Client) /\ WF_vars(Server)

-----------------------------------------------------------------------------
(* Properties                                                              *)

\* The two sides never lose each other's place: what one is about to parse is
\* what the other has written there, in the standard and in the pipelined
\* form, and what follows the handshake is the payload.
Aligned ==
    /\ ClientUnread /\ client \in ClientReads => NextToClient.kind = client
    /\ ServerUnread /\ server \in ServerReads => NextToServer.kind = server
    /\ ClientUnread /\ client = "service" => NextToClient.kind = "data"
    /\ ServerUnread /\ server = "service" => NextToServer.kind = "data"

\* A client whose handshake has succeeded is served, with the type it asked
\* for, unless the server has gone since.
Agreement ==
    client \in {"associate", "service"} =>
        /\ rep = "success" /\ serverType = type
        /\ server \in {"service", "closed"}

\* With an authenticator the server opens sockets only for a client that gave
\* the password of a user, and the session is that user's.
Authorized ==
    withAuth /\ fds # {} =>
        obj \in Names /\ creds.name = obj /\ creds.pass = Password[obj]

\* Whatever the owner does and wherever a handshake ends, a count is the
\* number of its holders: nothing is freed in use and nothing is left over.
RefsExact ==
    /\ authRefs = (IF owned THEN 1 ELSE 0) + (IF obj = "auth" THEN 1 ELSE 0)
    /\ authRefs = 0 => tree = {}
    /\ \A u \in Names :
          userRefs[u] = (IF u \in tree THEN 1 ELSE 0) + (IF obj = u THEN 1 ELSE 0)

\* Without timeouts no handshake stalls: the two sides never wait for each
\* other, whatever credentials are given and asked for.
Meets ==
    patient => <>(/\ client \in {"service", "failed", "closed"}
                  /\ server \in {"service", "failed", "closed"})
=============================================================================
