------------------------------- MODULE Exchange -------------------------------
(***************************************************************************)
(* Clients querying a server over UNIX stream sockets.                     *)
(*                                                                         *)
(* The client is srvd_service_request_query (service.c) with the unsock    *)
(* adapter (client.c, client/unsock.c): a fresh socket per query, connect, *)
(* one write, one read of the 8-byte header, one read of the body,         *)
(* disconnect.  The server is srvd_server_unsock_execute (server/unsock.c):*)
(* one thread that accepts a connection, reads a request the same way,     *)
(* calls the handler of its first field's type, writes the response and    *)
(* closes.                                                                 *)
(*                                                                         *)
(* A message is a header followed by a number of parts: what a socket      *)
(* transfers at once.  Small packets have one; a packet larger than a      *)
(* socket buffer segment has more, and a read returns the parts that have  *)
(* arrived.  Per connection and direction the model counts the parts       *)
(* written and the parts read.                                             *)
(***************************************************************************)
EXTENDS Integers, Sequences, FiniteSets

CONSTANTS
    Clients,       \* processes that query the server
    MaxQueries,    \* bound: queries per client
    RequestTypes,  \* types a request's first field can have
    NoType,        \* the "type" of a request without fields
    Services,      \* types the server has a handler for
    HandlerCodes,  \* codes a handler can leave in response.status
    Garbage,       \* codes that bytes not written as a status can be read as
    RequestParts,  \* body sizes of requests with fields, in parts
    ResponseParts, \* body sizes of responses with fields, in parts
    EmptyEntries,  \* whether a message has an entry of size 0: the cases considered
    Capacity,      \* parts a socket buffers in each direction
    QueueSize,     \* connections that wait for accept
    Faults,        \* what may go wrong, a subset of FaultKinds
    SigPipe,       \* "default" kills the writer to a closed socket, "ignored" does not
    None

\* srvd_service_response_code_t
SUCCESS  == 0
FAIL     == 1
NOTFOUND == 2
UNAVAIL  == 3
UNKNOWN  == 65535
Codes == {SUCCESS, FAIL, NOTFOUND, UNAVAIL, UNKNOWN}

\* No usable configuration; a client process dies; a signal ends a system call;
\* malloc fails; malloc fails when the status is inserted into a response.
FaultKinds == {"conf", "crash", "signal", "malloc", "insert"}

ASSUME BoundsAssumption ==
    /\ MaxQueries \in Nat /\ Capacity \in Nat \ {0} /\ QueueSize \in Nat \ {0}
    /\ RequestParts \cup ResponseParts \subseteq Nat \ {0}
    /\ EmptyEntries \subseteq BOOLEAN
ASSUME CodesAssumption == HandlerCodes \subseteq Codes /\ Garbage \subseteq Codes
ASSUME TypesAssumption == NoType \notin RequestTypes
ASSUME FaultsAssumption ==
    /\ Faults \subseteq FaultKinds
    /\ SigPipe \in {"default", "ignored"}

Conns == Clients \X (1 .. MaxQueries)

\* empty: an entry has no data, which serialize writes and unserialize refuses.
Request == [of : Conns, type : RequestTypes \cup {NoType}, parts : Nat, empty : BOOLEAN]
\* tagged: the status is the first field; status: what the first field reads as.
Response == [of : Conns, status : Codes, parts : Nat, empty : BOOLEAN, tagged : BOOLEAN]

ASSUME NoneAssumption == None \notin Codes \cup Conns \cup Response

VARIABLES
    \* clients
    pc,          \* pc[c]: where client c is in query
    started,     \* started[c]: how many queries c has started
    request,     \* request[x]: the packet of query x
    result,      \* result[x]: what query returned and response->status, or None
    cfd,         \* cfd[x]: the client's descriptor: "none", "open", "closed"
    \* sockets
    upSent, upTaken,      \* parts of the request written and read
    downSent, downTaken,  \* parts of the response written and read
    queue,       \* connections waiting for accept
    sfd,         \* sfd[x]: the server's end: "none", "queued", "open", "closed"
    \* server
    spc,         \* where execute is in its loop
    cur,         \* the local `client': the connection accepted, or None
    srequest,    \* the local `request', or None for an empty packet
    response,    \* response[x]: the packet written for x, or None
    \* history, read by properties only
    cut          \* connections whose turn a signal or want of memory ended

clientVars == <<pc, started, request, result, cfd>>
upVars     == <<upSent, upTaken>>
downVars   == <<downSent, downTaken>>
serverVars == <<spc, cur, srequest, response>>
vars == <<clientVars, upVars, downVars, queue, sfd, serverVars, cut>>

Init ==
    /\ pc = [c \in Clients |-> "idle"]
    /\ started = [c \in Clients |-> 0]
    /\ request = [x \in Conns |-> None]
    /\ result = [x \in Conns |-> None]
    /\ cfd = [x \in Conns |-> "none"]
    /\ upSent = [x \in Conns |-> 0] /\ upTaken = [x \in Conns |-> 0]
    /\ downSent = [x \in Conns |-> 0] /\ downTaken = [x \in Conns |-> 0]
    /\ queue = <<>>
    /\ sfd = [x \in Conns |-> "none"]
    /\ spc = "accept"
    /\ cur = None
    /\ srequest = None
    /\ response = [x \in Conns |-> None]
    /\ cut = {}

-----------------------------------------------------------------------------
(* Clients *)

Conn(c) == <<c, started[c]>>

\* query returns; response->status holds what could be read of the packet.
Returns(c, ok, status) ==
    /\ result' = [result EXCEPT ![Conn(c)] = [ok |-> ok, status |-> status]]
    /\ pc' = [pc EXCEPT ![c] = "idle"]

\* Mutant of GiveUp: the error label reports what a success would.
MutGiveUp(c) ==
    /\ Returns(c, TRUE, SUCCESS)
    /\ UNCHANGED <<started, request, cfd>>
\* The error label of query: an empty packet gives FAIL, and srvd_client_free
\* releases the memory of the client but leaves its socket open.
GiveUp(c) ==
    /\ Returns(c, FALSE, FAIL)
    /\ UNCHANGED <<started, request, cfd>>

\* The requests a caller can build: one with fields, or an empty packet.
Requests(x) ==
    [of : {x}, type : RequestTypes, parts : RequestParts, empty : EmptyEntries]
        \cup [of : {x}, type : {NoType}, parts : {0}, empty : {FALSE}]

\* A caller builds its request and calls query.
Begin(c) ==
    /\ pc[c] = "idle"
    /\ started[c] < MaxQueries
    /\ LET x == <<c, started[c] + 1>> IN
         \E r \in Requests(x) : request' = [request EXCEPT ![x] = r]
    /\ started' = [started EXCEPT ![c] = @ + 1]
    /\ pc' = [pc EXCEPT ![c] = "begin"]
    /\ UNCHANGED <<result, cfd, upVars, downVars, queue, sfd, serverVars, cut>>

\* The configuration names an adapter and a path: a client with a new socket.
GetClient(c) ==
    /\ pc[c] = "begin"
    /\ cfd' = [cfd EXCEPT ![Conn(c)] = "open"]
    /\ pc' = [pc EXCEPT ![c] = "connect"]
    /\ UNCHANGED <<started, request, result, upVars, downVars, queue, sfd, serverVars, cut>>

\* No configuration, adapter, path or socket: query has no client to use.
NoClient(c) ==
    /\ "conf" \in Faults
    /\ pc[c] = "begin"
    /\ GiveUp(c)
    /\ UNCHANGED <<upVars, downVars, queue, sfd, serverVars, cut>>

Listening == spc # "dead"

\* connect waits while the backlog is full.
Connect(c) ==
    /\ pc[c] = "connect"
    /\ Listening
    /\ Len(queue) < QueueSize
    /\ queue' = Append(queue, Conn(c))
    /\ sfd' = [sfd EXCEPT ![Conn(c)] = "queued"]
    /\ pc' = [pc EXCEPT ![c] = "write"]
    /\ UNCHANGED <<started, request, result, cfd, upVars, downVars, serverVars, cut>>

ConnectRefused(c) ==
    /\ pc[c] = "connect"
    /\ ~Listening
    /\ GiveUp(c)
    /\ UNCHANGED <<upVars, downVars, queue, sfd, serverVars, cut>>

MessageParts(body) == body + 1

\* write blocks until the kernel has taken every part of the message.
WritePart(c) ==
    LET x == Conn(c) IN
    /\ pc[c] = "write"
    /\ sfd[x] \in {"queued", "open"}
    /\ upSent[x] - upTaken[x] < Capacity
    /\ upSent' = [upSent EXCEPT ![x] = @ + 1]
    /\ pc' = IF upSent[x] + 1 = MessageParts(request[x].parts)
               THEN [pc EXCEPT ![c] = "read_header"] ELSE pc
    /\ UNCHANGED <<started, request, result, cfd, upTaken, downVars, queue, sfd, serverVars, cut>>

CloseAll(c) == cfd' = [x \in Conns |-> IF x[1] = c /\ cfd[x] = "open" THEN "closed" ELSE cfd[x]]

Dies(c) ==
    /\ pc' = [pc EXCEPT ![c] = "dead"]
    /\ CloseAll(c)
    /\ UNCHANGED <<started, request, result>>

\* The server has closed the connection, or died, before all was written.
WriteToClosed(c) ==
    /\ pc[c] = "write"
    /\ sfd[Conn(c)] = "closed"
    /\ IF SigPipe = "default" THEN Dies(c) ELSE GiveUp(c)
    /\ UNCHANGED <<upVars, downVars, queue, sfd, serverVars, cut>>

\* A signal ends connect, write or read early, or there is no memory for the
\* serialized request or for the body of the response.
Interrupted(c) ==
    /\ \/ "signal" \in Faults /\ pc[c] \in {"connect", "write", "read_header", "read_body"}
       \/ "malloc" \in Faults /\ pc[c] = "write" /\ upSent[Conn(c)] = 0
       \/ "malloc" \in Faults /\ pc[c] = "read_body"
    /\ GiveUp(c)
    /\ UNCHANGED <<upVars, downVars, queue, sfd, serverVars, cut>>

Crash(c) ==
    /\ "crash" \in Faults
    /\ pc[c] # "dead"
    /\ Dies(c)
    /\ UNCHANGED <<upVars, downVars, queue, sfd, serverVars, cut>>

Arrived(x) == downSent[x] - downTaken[x]

ReadHeader(c) ==
    LET x == Conn(c) IN
    /\ pc[c] = "read_header"
    /\ IF Arrived(x) > 0
         THEN /\ downTaken' = [downTaken EXCEPT ![x] = @ + 1]
              /\ pc' = [pc EXCEPT ![c] = "read_body"]
              /\ UNCHANGED <<started, request, result, cfd>>
         ELSE /\ sfd[x] = "closed"
              /\ GiveUp(c)
              /\ UNCHANGED downTaken
    /\ UNCHANGED <<upVars, downSent, queue, sfd, serverVars, cut>>

\* read returns what has arrived, or 0 at the end of the stream.
BodyReadable(c) ==
    /\ pc[c] = "read_body"
    /\ \/ response[Conn(c)].parts = 0
       \/ Arrived(Conn(c)) > 0
       \/ sfd[Conn(c)] = "closed"

\* Mutant of BodyComplete: a short read is taken for the body.
MutBodyComplete(c) == TRUE
BodyComplete(c) == Arrived(Conn(c)) = response[Conn(c)].parts

TakeBody(c) == downTaken' = [downTaken EXCEPT ![Conn(c)] = @ + Arrived(Conn(c))]

\* The whole response: the first field is the status, and query disconnects.
ReadBody(c) ==
    LET x == Conn(c) IN
    /\ BodyReadable(c)
    /\ BodyComplete(c)
    /\ ~response[x].empty
    /\ TakeBody(c)
    /\ Returns(c, TRUE, response[x].status)
    /\ cfd' = [cfd EXCEPT ![x] = "closed"]
    /\ UNCHANGED <<started, request, upVars, downSent, queue, sfd, serverVars, cut>>

ReadBodyShort(c) ==
    /\ BodyReadable(c)
    /\ ~BodyComplete(c)
    /\ TakeBody(c)
    /\ GiveUp(c)
    /\ UNCHANGED <<upVars, downSent, queue, sfd, serverVars, cut>>

\* A decoder that fails at an entry frees its field and leaves it linked; the
\* first field can be that one unless it is the status, whose entry has data.
HeadFreed(x) == "malloc" \in Faults \/ ~response[x].tagged

\* unserialize_body fails, at an empty entry or for want of memory.  query reads
\* the status in what was decoded: the server's, if the first field is whole, FAIL
\* from no field, and anything from a freed one, if the process survives the read.
DecodeFails(c) ==
    LET x == Conn(c) IN
    /\ BodyReadable(c)
    /\ BodyComplete(c)
    /\ response[x].empty \/ ("malloc" \in Faults /\ response[x].parts > 0)
    /\ TakeBody(c)
    /\ \/ /\ \E code \in {response[x].status}
                   \cup (IF HeadFreed(x) THEN Garbage \cup {FAIL} ELSE {}) :
              Returns(c, FALSE, code)
          /\ UNCHANGED <<started, request, cfd>>
       \/ HeadFreed(x) /\ Dies(c)
    /\ UNCHANGED <<upVars, downSent, queue, sfd, serverVars, cut>>

ClientStep(c) ==
    \/ GetClient(c)
    \/ Connect(c) \/ ConnectRefused(c)
    \/ WritePart(c) \/ WriteToClosed(c)
    \/ ReadHeader(c) \/ ReadBody(c) \/ ReadBodyShort(c) \/ DecodeFails(c)

ClientFault(c) == NoClient(c) \/ Interrupted(c) \/ Crash(c)

-----------------------------------------------------------------------------
(* The server *)

\* Mutant of ClearRequest: the old fields stay linked.
MutKeepsFields == UNCHANGED srequest
\* packet_initialize and packet_finalize leave the packet without fields.
ClearRequest == srequest' = None

\* accept; request and response are initialized.
Accept ==
    /\ spc = "accept"
    /\ queue # <<>>
    /\ cur' = Head(queue)
    /\ ClearRequest
    /\ queue' = Tail(queue)
    /\ sfd' = [sfd EXCEPT ![Head(queue)] = "open"]
    /\ spc' = "read_header"
    /\ UNCHANGED <<clientVars, upVars, downVars, response, cut>>

ServerArrived == upSent[cur] - upTaken[cur]

\* Mutant of PeerClosed: a read of 0 bytes is not taken for an error.
MutNoEndOfFile == FALSE
PeerClosed == cfd[cur] = "closed"

ServerReadHeader ==
    /\ spc = "read_header"
    /\ IF ServerArrived > 0
         THEN upTaken' = [upTaken EXCEPT ![cur] = @ + 1] /\ spc' = "read_body"
         ELSE PeerClosed /\ spc' = "close" /\ UNCHANGED upTaken
    /\ UNCHANGED <<clientVars, upSent, downVars, queue, sfd, cur, srequest, response, cut>>

\* Mutant of ServerComplete: the header is counted in.
MutCountsHeader == ServerArrived = MessageParts(request[cur].parts)
ServerComplete == ServerArrived = request[cur].parts

\* Decoding appends to the packet: its first field is the first that was added.
Decoded == IF srequest = None THEN request[cur] ELSE srequest

\* A body of no bytes needs no data; otherwise read waits for some.
ServerTakesBody ==
    /\ spc = "read_body"
    /\ request[cur].parts = 0 \/ ServerArrived > 0 \/ PeerClosed
    /\ upTaken' = [upTaken EXCEPT ![cur] = @ + ServerArrived]

ServerReadBody ==
    /\ ServerTakesBody
    /\ ServerComplete => ~request[cur].empty
    /\ IF ServerComplete
         THEN srequest' = Decoded /\ spc' = "dispatch"
         ELSE spc' = "close" /\ UNCHANGED srequest
    /\ UNCHANGED <<clientVars, upSent, downVars, queue, sfd, cur, response, cut>>

\* The process ends and the kernel closes its sockets.
ServerDies ==
    /\ spc' = "dead"
    /\ sfd' = [x \in Conns |-> IF sfd[x] \in {"open", "queued"} THEN "closed" ELSE sfd[x]]
    /\ queue' = <<>>
    /\ cur' = None

\* unserialize_body fails, at an empty entry or for want of memory, with the
\* fields before that one in the packet.  request_finalize then walks and frees a
\* packet that can link a field freed already: it survives this or it does not.
RequestRefused ==
    /\ ServerTakesBody
    /\ ServerComplete
    /\ request[cur].empty \/ ("malloc" \in Faults /\ request[cur].parts > 0)
    /\ srequest' = Decoded
    /\ cut' = IF request[cur].empty THEN cut ELSE cut \cup {cur}
    /\ \/ spc' = "close" /\ UNCHANGED <<queue, sfd, cur>>
       \/ ServerDies
    /\ UNCHANGED <<clientVars, upSent, downVars, response>>

\* A packet without a first field is dropped without an answer.
InvalidPacket ==
    /\ spc = "dispatch"
    /\ srequest.type = NoType
    /\ spc' = "close"
    /\ UNCHANGED <<clientVars, upVars, downVars, queue, sfd, cur, srequest, response, cut>>

\* Mutant of Answers: a code that service.h does not define.
MutAnswers(type) == IF type \in Services THEN HandlerCodes ELSE {UNAVAIL + 1}
\* The code of the handler for this type, or UNAVAIL without one.
Answers(type) == IF type \in Services THEN HandlerCodes ELSE {UNAVAIL}

\* Only a handler adds entries that can be empty.
Empties(type) == IF type \in Services THEN EmptyEntries ELSE {FALSE}

Dispatch ==
    /\ spc = "dispatch"
    /\ srequest.type # NoType
    /\ \E code \in Answers(srequest.type), parts \in ResponseParts, empty \in Empties(srequest.type) :
         response' = [response EXCEPT ![cur] =
             [of |-> srequest.of, status |-> code, parts |-> parts, empty |-> empty,
              tagged |-> TRUE]]
    /\ spc' = "write"
    /\ UNCHANGED <<clientVars, upVars, downVars, queue, sfd, cur, srequest, cut>>

\* The insertion of the status fails and nobody looks: the response is sent with
\* the handler's fields only.  The client reads the first of them as a status,
\* or FAIL from a packet without fields.
DispatchUntagged ==
    /\ "insert" \in Faults
    /\ spc = "dispatch"
    /\ srequest.type # NoType
    /\ \E parts \in {0} \cup (IF srequest.type \in Services THEN ResponseParts ELSE {}) :
       \E code \in IF parts = 0 THEN {FAIL} ELSE Garbage,
          empty \in IF parts = 0 THEN {FALSE} ELSE EmptyEntries :
         response' = [response EXCEPT ![cur] =
             [of |-> srequest.of, status |-> code, parts |-> parts, empty |-> empty,
              tagged |-> FALSE]]
    /\ spc' = "write"
    /\ UNCHANGED <<clientVars, upVars, downVars, queue, sfd, cur, srequest, cut>>

ServerWritePart ==
    /\ spc = "write"
    /\ ~PeerClosed
    /\ downSent[cur] - downTaken[cur] < Capacity
    /\ downSent' = [downSent EXCEPT ![cur] = @ + 1]
    /\ spc' = IF downSent[cur] + 1 = MessageParts(response[cur].parts) THEN "close" ELSE spc
    /\ UNCHANGED <<clientVars, upVars, downTaken, queue, sfd, cur, srequest, response, cut>>

ServerWriteToClosed ==
    /\ spc = "write"
    /\ PeerClosed
    /\ IF SigPipe = "default"
         THEN ServerDies
         ELSE spc' = "close" /\ UNCHANGED <<sfd, queue, cur>>
    /\ UNCHANGED <<clientVars, upVars, downVars, srequest, response, cut>>

\* A signal ends a read or the write early, or there is no memory for the body or
\* for the serialized response.
ServerInterrupted ==
    /\ \/ "signal" \in Faults /\ spc \in {"read_header", "read_body", "write"}
       \/ "malloc" \in Faults /\ spc = "read_body"
       \/ "malloc" \in Faults /\ spc = "write" /\ downSent[cur] = 0
    /\ cut' = cut \cup {cur}
    /\ spc' = "close"
    /\ UNCHANGED <<clientVars, upVars, downVars, queue, sfd, cur, srequest, response>>

\* Mutant of CloseCurrent: the loop goes back to accept without close.
MutNotClosed == UNCHANGED sfd
CloseCurrent == sfd' = [sfd EXCEPT ![cur] = "closed"]

\* request and response are finalized and the connection is closed.
CloseClient ==
    /\ spc = "close"
    /\ CloseCurrent
    /\ cur' = None
    /\ ClearRequest
    /\ spc' = "accept"
    /\ UNCHANGED <<clientVars, upVars, downVars, queue, response, cut>>

ServerStep ==
    \/ Accept
    \/ ServerReadHeader \/ ServerReadBody \/ RequestRefused
    \/ InvalidPacket \/ Dispatch
    \/ ServerWritePart \/ ServerWriteToClosed
    \/ CloseClient

ServerFault == DispatchUntagged \/ ServerInterrupted

-----------------------------------------------------------------------------

Next ==
    \/ \E c \in Clients : Begin(c) \/ ClientStep(c) \/ ClientFault(c)
    \/ ServerStep \/ ServerFault

Spec == Init /\ [][Next]_vars

\* The kernel runs the server's thread and every client's, and delivers what
\* was written; nothing makes a caller start a query, or a fault happen.
Fairness == WF_vars(ServerStep) /\ \A c \in Clients : WF_vars(ClientStep(c))

FairSpec == Spec /\ Fairness

-----------------------------------------------------------------------------
(* Properties *)

TypeOK ==
    /\ pc \in [Clients -> {"idle", "begin", "connect", "write", "read_header", "read_body", "dead"}]
    /\ started \in [Clients -> 0 .. MaxQueries]
    /\ request \in [Conns -> Request \cup {None}]
    /\ result \in [Conns -> [ok : BOOLEAN, status : Codes] \cup {None}]
    /\ cfd \in [Conns -> {"none", "open", "closed"}]
    /\ upSent \in [Conns -> Nat] /\ upTaken \in [Conns -> Nat]
    /\ downSent \in [Conns -> Nat] /\ downTaken \in [Conns -> Nat]
    /\ queue \in Seq(Conns)
    /\ sfd \in [Conns -> {"none", "queued", "open", "closed"}]
    /\ spc \in {"accept", "read_header", "read_body", "dispatch", "write", "close", "dead"}
    /\ cur \in Conns \cup {None}
    /\ srequest \in Request \cup {None}
    /\ response \in [Conns -> Response \cup {None}]
    /\ cut \subseteq Conns

\* The turns of the loop do not touch: the server holds the descriptor of the
\* connection it serves and no other, whichever way its body is left
\* (server/unsock.c:232), and a response answers the request of the connection
\* it is written to, with a code for that request's type if it carries a status
\* at all: nothing of an earlier client survives in the loop's locals.
ClientsKeptApart ==
    /\ {x \in Conns : sfd[x] = "open"} = IF cur = None THEN {} ELSE {cur}
    /\ \A x \in Conns : response[x] # None =>
        /\ response[x].of = x
        /\ response[x].tagged => response[x].status \in Answers(request[x].type)

\* query returns TRUE only with the complete response to the complete request in
\* the packet, and never keeps its socket then: the sockets that stay open are
\* those of failed queries.
SuccessIsComplete ==
    \A x \in Conns : result[x] # None /\ result[x].ok =>
        /\ response[x] # None
        /\ upTaken[x] = MessageParts(request[x].parts)
        /\ downTaken[x] = MessageParts(response[x].parts)
        /\ cfd[x] = "closed"

\* An empty packet, one that does not decode, or a turn that something ended.
Excused(x) == request[x].type = NoType \/ request[x].empty \/ x \in cut

\* A request that was sent whole, by a client that is still waiting for its
\* answer, is not dropped by a running server, unless it is an empty packet or
\* one that does not decode, or a signal or want of memory ends its turn.
GoodRequestsAnswered ==
    \A c \in Clients :
        pc[c] \in {"write", "read_header"} /\ sfd[Conn(c)] = "closed" /\ spc # "dead" =>
            response[Conn(c)] # None \/ Excused(Conn(c))

\* The status of a query is SUCCESS only if the query succeeded.
SuccessStatusMeansSuccess ==
    \A x \in Conns :
        result[x] # None /\ result[x].status = SUCCESS => result[x].ok

Abstract == INSTANCE Query WITH
    Queries <- Conns,
    asked   <- {x \in Conns : x[2] <= started[x[1]]},
    served  <- [x \in Conns |-> IF response[x] = None THEN None ELSE response[x].status]

\* Clients and server together keep the promise of query: at most one answer,
\* and a TRUE only with that answer's status.
KeepsPromise == Abstract!Spec

\* The server serves a connection that a query has given up and left open.
Abandoned == cur # None /\ cfd[cur] = "open" /\ result[cur] # None /\ ~result[cur].ok

\* A request read whole was refused, or a client died while the server wrote to it.
Ended ==
    /\ spc = "dead"
    /\ \/ \E c \in Clients : pc[c] = "dead"
       \/ \E x \in Conns : /\ request[x] # None /\ (request[x].empty \/ x \in cut)
                          /\ upTaken[x] = MessageParts(request[x].parts)

\* Every query returns unless its process dies, or the server waits for ever on
\* a connection that another query left open when it failed (service.c:108).
QueriesReturn ==
    \A c \in Clients : <>[](pc[c] \notin {"idle", "dead"}) => <>[]Abandoned

\* The server comes back to accept, whatever fails on either side, except for two
\* ends of its service: a query that failed leaves its socket open, and the one
\* server thread waits on it (server/unsock.c:89); or the process has ended, of a
\* write to a client that died or of a request that did not decode.
ServerComesBack == <>[](spc # "accept") => <>[](Abandoned \/ Ended)

=============================================================================
