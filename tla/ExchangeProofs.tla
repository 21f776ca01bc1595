---------------------------- MODULE ExchangeProofs ----------------------------
(***************************************************************************)
(* Proofs about Exchange, for any clients, queries, packets and faults: no *)
(* connection disturbs another, a query returns TRUE only with the whole   *)
(* answer to its whole request, and clients and server implement Query.    *)
(*                                                                         *)
(* A connection goes through its life once: it is asked for, queued,       *)
(* accepted, answered and closed.  The parts of IInv say what is true of   *)
(* it in each phase, on the client's side (Unasked, Asking), in the        *)
(* sockets (Counted, Waiting, Queued) and in the server's loop (Serving).  *)
(***************************************************************************)
EXTENDS Exchange, TLAPS

Busy(c) == pc[c] \notin {"idle", "dead"}

\* A query that was not started has left no trace.
Unasked ==
    \A x \in Conns : started[x[1]] < x[2] =>
        /\ sfd[x] = "none" /\ result[x] = None /\ downTaken[x] = 0

\* The packets of the others are what their callers built.
Asked == \A x \in Conns : x[2] <= started[x[1]] => request[x] \in Request /\ request[x].of = x

\* A client in query: its query is a started one without a result, that is not
\* connected before connect and has read nothing before it reads.
Asking ==
    \A c \in Clients : Busy(c) =>
        /\ started[c] # 0
        /\ result[Conn(c)] = None
        /\ pc[c] \in {"begin", "connect"} => sfd[Conn(c)] = "none"
        /\ pc[c] # "read_body" => downTaken[Conn(c)] = 0
        /\ pc[c] = "read_body" => downTaken[Conn(c)] = 1

Counted == \A x \in Conns : upTaken[x] <= upSent[x] /\ downTaken[x] <= downSent[x]

\* The server has not touched a connection that it has not accepted.
Waiting ==
    \A x \in Conns : sfd[x] \in {"none", "queued"} =>
        response[x] = None /\ upTaken[x] = 0 /\ downSent[x] = 0

\* Connections wait once each.
Queued ==
    /\ \A i \in DOMAIN queue : sfd[queue[i]] = "queued"
    /\ \A i, j \in DOMAIN queue : queue[i] = queue[j] => i = j

\* Where the loop is tells what it has read and what its locals hold.
Serving ==
    /\ cur = None <=> spc \in {"accept", "dead"}
    /\ spc \in {"accept", "read_header", "read_body"} => srequest = None
    /\ spc \in {"dispatch", "write"} => srequest = request[cur]
    /\ spc = "read_header" => upTaken[cur] = 0
    /\ spc = "read_body" => upTaken[cur] = 1
    /\ spc = "dispatch" => upTaken[cur] = MessageParts(request[cur].parts)
    /\ spc \in {"read_header", "read_body", "dispatch"} => response[cur] = None /\ downSent[cur] = 0
    /\ spc = "write" => response[cur] # None

\* What a response was written from, and that nothing is sent without one.
Answered ==
    \A x \in Conns :
        /\ response[x] = None => downSent[x] = 0
        /\ response[x] # None => upTaken[x] = MessageParts(request[x].parts)

IInv ==
    /\ TypeOK
    /\ Unasked /\ Asked /\ Asking
    /\ Counted /\ Waiting /\ Queued
    /\ Serving /\ Answered
    /\ ClientsKeptApart /\ SuccessIsComplete

-----------------------------------------------------------------------------
(* Connections *)

\* What a connection is made of.
LEMMA ConnParts ==
  ASSUME NEW x \in Conns
  PROVE  x[1] \in Clients /\ x[2] \in 1 .. MaxQueries /\ x = <<x[1], x[2]>>
  BY DEF Conns

\* The connection of a client in query is one, and nobody else's.
LEMMA OwnConn ==
  ASSUME IInv, NEW c \in Clients, Busy(c)
  PROVE  /\ Conn(c) \in Conns /\ Conn(c)[1] = c /\ Conn(c)[2] = started[c]
         /\ \A d \in Clients : Conn(d) = Conn(c) => d = c
<1>1. started[c] \in 1 .. MaxQueries
  BY BoundsAssumption DEF IInv, TypeOK, Asking
<1> QED
  BY <1>1 DEF Conn, Conns

\* Nothing stands for an absent connection or response by accident.
LEMMA NoneApart == None \notin Conns /\ None \notin Response
  BY NoneAssumption

\* At first no query was asked.
LEMMA InitInv == Init => IInv
<1> SUFFICES ASSUME Init PROVE IInv
  OBVIOUS
<1>1. TypeOK
  BY BoundsAssumption DEF Init, TypeOK
<1>2. Unasked /\ Asking /\ Counted /\ Waiting /\ Queued
  BY DEF Init, Unasked, Asking, Busy, Counted, Waiting, Queued
<1>3. Asked
  BY ConnParts DEF Init, Asked
<1>4. Serving /\ Answered /\ ClientsKeptApart /\ SuccessIsComplete
  BY DEF Init, Serving, Answered, ClientsKeptApart, SuccessIsComplete
<1> QED
  BY <1>1, <1>2, <1>3, <1>4 DEF IInv

-----------------------------------------------------------------------------
(* Clients *)

\* A query that returns keeps everything, if a TRUE is for a whole answer.
LEMMA ReturnsKeepsInv ==
  ASSUME IInv, NEW c \in Clients, Busy(c), cut' \subseteq Conns,
         NEW ok \in BOOLEAN, NEW status \in Codes, Returns(c, ok, status),
         downTaken' \in [Conns -> Nat], downTaken'[Conn(c)] <= downSent[Conn(c)],
         cfd' \in [Conns -> {"none", "open", "closed"}],
         \A y \in Conns : y # Conn(c) => downTaken'[y] = downTaken[y] /\ cfd'[y] = cfd[y],
         ok => /\ response[Conn(c)] # None
               /\ downTaken'[Conn(c)] = MessageParts(response[Conn(c)].parts)
               /\ cfd'[Conn(c)] = "closed",
         UNCHANGED <<started, request, upVars, downSent, queue, sfd, serverVars>>
  PROVE  IInv'
<1> DEFINE x == Conn(c)
<1>1. /\ x \in Conns /\ x[1] = c /\ x[2] = started[c]
      /\ \A d \in Clients : Conn(d) = x => d = c
  BY OwnConn
<1>2. /\ result' = [result EXCEPT ![x] = [ok |-> ok, status |-> status]]
      /\ pc' = [pc EXCEPT ![c] = "idle"]
  BY DEF Returns
<1>3. UNCHANGED <<upSent, upTaken, spc, cur, srequest, response>>
  BY DEF upVars, serverVars
<1>4. \A d \in Clients : Conn(d)' = Conn(d)
  BY DEF Conn
<1> HIDE DEF x
<1> USE DEF IInv, TypeOK
<1>5. TypeOK'
  BY <1>1, <1>2, <1>3
<1>6. Unasked'
  <2> SUFFICES ASSUME NEW y \in Conns, started[y[1]] < y[2]
               PROVE  sfd[y] = "none" /\ result'[y] = None /\ downTaken'[y] = 0
    BY DEF Unasked
  <2>1. y # x
    BY <1>1, ConnParts
  <2> QED
    BY <1>2, <2>1 DEF Unasked, x
<1>7. Asked'
  BY DEF Asked
<1>8. Asking'
  <2> SUFFICES ASSUME NEW d \in Clients, Busy(d)' PROVE (Asking!(d))'
    BY DEF Asking
  <2>1. d # c /\ pc'[d] = pc[d] /\ Busy(d)
    BY <1>2 DEF Busy
  <2>2. Conn(d) # x /\ Conn(d) \in Conns
    BY <1>1, <2>1, OwnConn
  <2> QED
    BY <1>2, <1>4, <2>1, <2>2 DEF Asking, Busy, x
<1>9. Counted'
  BY <1>3 DEF Counted, x
<1>10. Waiting' /\ Queued' /\ Serving' /\ Answered'
  BY <1>3 DEF Waiting, Queued, Serving, Answered
<1>11. ClientsKeptApart'
  BY <1>3 DEF ClientsKeptApart
<1>12. SuccessIsComplete'
  BY <1>1, <1>2, <1>3 DEF SuccessIsComplete, Answered, x
<1> QED
  BY <1>5, <1>6, <1>7, <1>8, <1>9, <1>10, <1>11, <1>12

\* The turns that were cut short are turns of connections.
LEMMA CutTyped == ASSUME IInv, [Next]_vars PROVE cut' \subseteq Conns
<1>1. cut \subseteq Conns /\ (spc \notin {"accept", "dead"} => cur \in Conns)
  BY DEF IInv, TypeOK, Serving
<1>2. CASE RequestRefused
  BY <1>1, <1>2 DEF RequestRefused, ServerTakesBody
<1>3. CASE ServerInterrupted
  BY <1>1, <1>3 DEF ServerInterrupted
<1>4. CASE ~RequestRefused /\ ~ServerInterrupted
  <2>1. ASSUME NEW c \in Clients, Begin(c) \/ ClientStep(c) \/ ClientFault(c) PROVE cut' = cut
    BY <2>1 DEF Begin, ClientStep, ClientFault, GetClient, Connect, ConnectRefused, WritePart,
       WriteToClosed, ReadHeader, ReadBody, ReadBodyShort, DecodeFails, NoClient, Interrupted, Crash
  <2>2. CASE ServerStep \/ ServerFault
    BY <1>1, <1>4, <2>2 DEF ServerStep, ServerFault, Accept, ServerReadHeader, ServerReadBody,
       InvalidPacket, Dispatch, DispatchUntagged, ServerWritePart, ServerWriteToClosed, CloseClient
  <2> QED
    BY <1>1, <2>1, <2>2 DEF Next, vars
<1> QED
  BY <1>2, <1>3, <1>4

\* What a client does leaves the server's side alone, if it changes neither the
\* sockets' ends there nor the packet of a connection that was accepted.
LEMMA ServerSideKept ==
  ASSUME IInv,
         \A y \in Conns : sfd[y] # "none" => request'[y] = request[y],
         UNCHANGED <<upTaken, downSent, queue, sfd, serverVars>>
  PROVE  Waiting' /\ Queued' /\ Serving' /\ Answered' /\ ClientsKeptApart'
<1>1. UNCHANGED <<upTaken, downSent, queue, sfd, spc, cur, srequest, response>>
  BY DEF serverVars
<1> USE DEF IInv, TypeOK
<1>2. Waiting' /\ Queued'
  BY <1>1 DEF Waiting, Queued
<1>3. cur # None => request'[cur] = request[cur]
  BY <1>1 DEF ClientsKeptApart
<1>4. \A y \in Conns : response[y] # None => request'[y] = request[y]
  BY <1>1 DEF Waiting
<1>5. Serving'
  BY <1>1, <1>3 DEF Serving, MessageParts
<1>6. Answered'
  BY <1>1, <1>4 DEF Answered, MessageParts
<1>7. ClientsKeptApart'
  BY <1>1, <1>4 DEF ClientsKeptApart
<1> QED
  BY <1>2, <1>5, <1>6, <1>7

\* A caller's packet is built for a connection nobody has touched.
LEMMA BeginKeepsInv ==
  ASSUME IInv, NEW c \in Clients, Begin(c), cut' \subseteq Conns
  PROVE  IInv'
<1> DEFINE x == <<c, started[c] + 1>>
<1>1. PICK r \in Requests(x) : request' = [request EXCEPT ![x] = r]
  BY DEF Begin
<1>2. /\ pc[c] = "idle" /\ started[c] < MaxQueries
      /\ started' = [started EXCEPT ![c] = @ + 1]
      /\ pc' = [pc EXCEPT ![c] = "begin"]
      /\ UNCHANGED <<result, cfd, upSent, upTaken, downSent, downTaken, queue, sfd, serverVars>>
  BY DEF Begin, upVars, downVars
<1> USE DEF IInv, TypeOK
<1>3. started[c] \in Nat /\ started[c] + 1 \in 1 .. MaxQueries
  BY <1>2, BoundsAssumption
<1>4. x \in Conns /\ x[1] = c /\ x[2] = started[c] + 1 /\ x = Conn(c)'
  BY <1>2, <1>3 DEF Conns, Conn
<1> HIDE DEF x
<1>5. r \in Request /\ r.of = x
  <2>1. RequestParts \subseteq Nat /\ 0 \in Nat /\ EmptyEntries \subseteq BOOLEAN
    BY BoundsAssumption
  <2>2. r \in [of : {x}, type : RequestTypes \cup {NoType}, parts : Nat, empty : BOOLEAN]
    BY <2>1 DEF Requests
  <2> QED
    BY <1>4, <2>2 DEF Request
<1>6. sfd[x] = "none" /\ result[x] = None /\ downTaken[x] = 0
  BY <1>3, <1>4 DEF Unasked
<1>7. TypeOK'
  BY <1>1, <1>2, <1>3, <1>4, <1>5, SMTT(30) DEF serverVars
<1>8. Unasked'
  <2> SUFFICES ASSUME NEW y \in Conns, started'[y[1]] < y[2]
               PROVE  sfd[y] = "none" /\ result[y] = None /\ downTaken[y] = 0
    BY <1>2 DEF Unasked
  <2>1. y[1] \in Clients /\ y[2] \in Nat /\ started[y[1]] \in Nat
    BY ConnParts
  <2> QED
    BY <1>2, <1>3, <2>1 DEF Unasked
<1>9. Asked'
  <2> SUFFICES ASSUME NEW y \in Conns, y[2] <= started'[y[1]]
               PROVE  request'[y] \in Request /\ request'[y].of = y
    BY DEF Asked
  <2>1. y[1] \in Clients /\ y[2] \in Nat /\ started[y[1]] \in Nat /\ y = <<y[1], y[2]>>
    BY ConnParts
  <2>2. CASE y = x
    BY <1>1, <1>4, <1>5, <2>2
  <2>3. CASE y # x
    <3>1. y[2] <= started[y[1]]
      BY <1>2, <1>3, <1>4, <2>1, <2>3 DEF x
    <3> QED
      BY <1>1, <2>3, <3>1 DEF Asked
  <2> QED
    BY <2>2, <2>3
<1>10. Asking'
  <2> SUFFICES ASSUME NEW d \in Clients, Busy(d)'
               PROVE  /\ started'[d] # 0
                      /\ result[Conn(d)'] = None
                      /\ pc'[d] \in {"begin", "connect"} => sfd[Conn(d)'] = "none"
                      /\ pc'[d] # "read_body" => downTaken[Conn(d)'] = 0
                      /\ pc'[d] = "read_body" => downTaken[Conn(d)'] = 1
    BY <1>2 DEF Asking, Conn
  <2>1. CASE d = c
    BY <1>2, <1>3, <1>4, <1>6, <2>1
  <2>2. CASE d # c
    <3>1. Busy(d) /\ pc'[d] = pc[d] /\ started'[d] = started[d] /\ Conn(d)' = Conn(d)
      BY <1>2, <2>2 DEF Busy, Conn
    <3> QED
      BY <3>1 DEF Asking
  <2> QED
    BY <2>1, <2>2
<1>11. \A y \in Conns : y # x => request'[y] = request[y]
  BY <1>1
<1>12. Counted'
  BY <1>2 DEF Counted
<1>13. Waiting' /\ Queued' /\ Serving' /\ Answered' /\ ClientsKeptApart'
  BY <1>2, <1>6, <1>11, ServerSideKept
<1>14. SuccessIsComplete'
  BY <1>2, <1>6, <1>11, ZenonT(60) DEF SuccessIsComplete, MessageParts, serverVars
<1> QED
  BY <1>7, <1>8, <1>9, <1>10, <1>12, <1>13, <1>14

\* A client that dies, perhaps while it reads, leaves the rest to the server.
LEMMA DyingKeepsInv ==
  ASSUME IInv, NEW c \in Clients, Dies(c), cut' \subseteq Conns,
         downTaken' \in [Conns -> Nat], \A y \in Conns : downTaken'[y] <= downSent[y],
         \A y \in Conns : downTaken'[y] = downTaken[y] \/ (Busy(c) /\ y = Conn(c)),
         UNCHANGED <<upVars, downSent, queue, sfd, serverVars>>
  PROVE  IInv'
<1>1. /\ pc' = [pc EXCEPT ![c] = "dead"]
      /\ cfd' = [x \in Conns |-> IF x[1] = c /\ cfd[x] = "open" THEN "closed" ELSE cfd[x]]
      /\ UNCHANGED <<started, request, result, upSent, upTaken, downSent, queue, sfd>>
      /\ UNCHANGED <<spc, cur, srequest, response>>
  BY DEF Dies, CloseAll, upVars, serverVars
<1>2. Busy(c) => /\ Conn(c) \in Conns /\ Conn(c)[1] = c /\ Conn(c)[2] = started[c]
                 /\ started[c] \in Nat /\ result[Conn(c)] = None
                 /\ \A d \in Clients : Conn(d) = Conn(c) => d = c
  BY OwnConn DEF IInv, TypeOK, Asking
<1> USE DEF IInv, TypeOK
<1>3. TypeOK'
  BY <1>1
<1>4. Unasked'
  <2> SUFFICES ASSUME NEW y \in Conns, started[y[1]] < y[2]
               PROVE  sfd[y] = "none" /\ result[y] = None /\ downTaken'[y] = 0
    BY <1>1 DEF Unasked
  <2>1. ~(Busy(c) /\ y = Conn(c))
    BY <1>2
  <2> QED
    BY <2>1 DEF Unasked
<1>5. Asked' /\ Counted'
  BY <1>1 DEF Asked, Counted
<1>6. Asking'
  <2> SUFFICES ASSUME NEW d \in Clients, Busy(d)'
               PROVE  /\ started[d] # 0
                      /\ result[Conn(d)] = None
                      /\ pc'[d] \in {"begin", "connect"} => sfd[Conn(d)] = "none"
                      /\ pc'[d] # "read_body" => downTaken'[Conn(d)] = 0
                      /\ pc'[d] = "read_body" => downTaken'[Conn(d)] = 1
    BY <1>1 DEF Asking, Conn
  <2>1. d # c /\ Busy(d) /\ pc'[d] = pc[d]
    BY <1>1 DEF Busy
  <2>2. Conn(d) \in Conns /\ ~(Busy(c) /\ Conn(d) = Conn(c))
    BY <1>2, <2>1, OwnConn
  <2> QED
    BY <2>1, <2>2 DEF Asking
<1>7. Waiting' /\ Queued' /\ Serving' /\ Answered' /\ ClientsKeptApart'
  BY <1>1, ServerSideKept DEF serverVars
<1>8. SuccessIsComplete'
  <2> SUFFICES ASSUME NEW y \in Conns, result[y] # None, result[y].ok
               PROVE  /\ response[y] # None
                      /\ upTaken[y] = MessageParts(request[y].parts)
                      /\ downTaken'[y] = MessageParts(response[y].parts)
                      /\ cfd'[y] = "closed"
    BY <1>1 DEF SuccessIsComplete, MessageParts
  <2>1. downTaken'[y] = downTaken[y]
    BY <1>2
  <2> QED
    BY <1>1, <2>1 DEF SuccessIsComplete
<1> QED
  BY <1>3, <1>4, <1>5, <1>6, <1>7, <1>8

\* A client that moves on in query keeps the rest of the system in order, if it
\* keeps its promise to connect before it writes and to read the header once.
LEMMA MovingKeepsInv ==
  ASSUME IInv, NEW c \in Clients, Busy(c), cut' \subseteq Conns,
         NEW place \in {"connect", "write", "read_header", "read_body"},
         pc' = [pc EXCEPT ![c] = place],
         cfd' \in [Conns -> {"none", "open", "closed"}],
         \A y \in Conns : y # Conn(c) => cfd'[y] = cfd[y],
         downTaken' \in [Conns -> Nat],
         \A y \in Conns : downTaken'[y] <= downSent[y] /\ (y # Conn(c) => downTaken'[y] = downTaken[y]),
         place = "connect" => sfd[Conn(c)] = "none",
         place # "read_body" => downTaken'[Conn(c)] = 0,
         place = "read_body" => downTaken'[Conn(c)] = 1,
         upSent' \in [Conns -> Nat], \A y \in Conns : upTaken[y] <= upSent'[y],
         UNCHANGED <<started, request, result, upTaken, downSent, queue, sfd, serverVars>>
  PROVE  IInv'
<1> DEFINE x == Conn(c)
<1>1. /\ x \in Conns /\ x[1] = c /\ x[2] = started[c]
      /\ \A d \in Clients : Conn(d) = x => d = c
  BY OwnConn
<1>2. UNCHANGED <<spc, cur, srequest, response>>
  BY DEF serverVars
<1>3. \A d \in Clients : Conn(d)' = Conn(d)
  BY DEF Conn
<1> HIDE DEF x
<1> USE DEF IInv, TypeOK
<1>4. result[x] = None
  BY DEF Asking, x
<1>5. TypeOK'
  BY <1>2
<1>6. Unasked'
  <2> SUFFICES ASSUME NEW y \in Conns, started[y[1]] < y[2]
               PROVE  sfd[y] = "none" /\ result[y] = None /\ downTaken'[y] = 0
    BY DEF Unasked
  <2>1. y # x
    BY <1>1, ConnParts
  <2> QED
    BY <2>1 DEF Unasked, x
<1>7. Asked' /\ Counted'
  BY DEF Asked, Counted
<1>8. Asking'
  <2> SUFFICES ASSUME NEW d \in Clients, Busy(d)'
               PROVE  /\ started[d] # 0
                      /\ result[Conn(d)] = None
                      /\ pc'[d] \in {"begin", "connect"} => sfd[Conn(d)] = "none"
                      /\ pc'[d] # "read_body" => downTaken'[Conn(d)] = 0
                      /\ pc'[d] = "read_body" => downTaken'[Conn(d)] = 1
    BY <1>3 DEF Asking
  <2>1. CASE d = c
    BY <1>1, <2>1 DEF Asking, Busy, x
  <2>2. CASE d # c
    <3>1. Busy(d) /\ pc'[d] = pc[d]
      BY <2>2 DEF Busy
    <3>2. Conn(d) # x /\ Conn(d) \in Conns
      BY <1>1, <2>2, <3>1, OwnConn
    <3> QED
      BY <3>1, <3>2, SMTT(30) DEF Asking, x
  <2> QED
    BY <2>1, <2>2
<1>9. Waiting' /\ Queued' /\ Serving' /\ Answered' /\ ClientsKeptApart'
  BY ServerSideKept
<1>10. SuccessIsComplete'
  BY <1>2, <1>4, SMTT(30) DEF SuccessIsComplete, MessageParts, x
<1> QED
  BY <1>5, <1>6, <1>7, <1>8, <1>9, <1>10

\* What Append adds, and what Tail leaves.
LEMMA AppendParts ==
  ASSUME NEW S, NEW s \in Seq(S), NEW e \in S
  PROVE  /\ Append(s, e)[Len(s) + 1] = e
         /\ \A i \in DOMAIN s : Append(s, e)[i] = s[i]
         /\ \A i \in DOMAIN Append(s, e) : i \in DOMAIN s \/ i = Len(s) + 1
  OBVIOUS

LEMMA TailParts ==
  ASSUME NEW S, NEW s \in Seq(S), s # <<>>
  PROVE  /\ 1 \in DOMAIN s /\ Head(s) = s[1]
         /\ \A i \in DOMAIN Tail(s) : i \in Nat /\ i # 0 /\ i + 1 \in DOMAIN s /\ Tail(s)[i] = s[i + 1]
  OBVIOUS

\* connect puts a connection at the end of the queue that was in no queue.
LEMMA ConnectKeepsInv ==
  ASSUME IInv, NEW c \in Clients, Connect(c), cut' \subseteq Conns
  PROVE  IInv'
<1> DEFINE x == Conn(c)
<1>1. /\ pc[c] = "connect"
      /\ queue' = Append(queue, x)
      /\ sfd' = [sfd EXCEPT ![x] = "queued"]
      /\ pc' = [pc EXCEPT ![c] = "write"]
      /\ UNCHANGED <<started, request, result, cfd, upSent, upTaken, downSent, downTaken>>
      /\ UNCHANGED <<spc, cur, srequest, response>>
  BY DEF Connect, upVars, downVars, serverVars
<1>2. Busy(c)
  BY <1>1 DEF Busy
<1>3. /\ x \in Conns /\ x[1] = c /\ x[2] = started[c]
      /\ \A d \in Clients : Conn(d) = x => d = c
  BY <1>2, OwnConn
<1>4. \A d \in Clients : Conn(d)' = Conn(d)
  BY <1>1 DEF Conn
<1> USE DEF IInv, TypeOK
<1>5. sfd[x] = "none" /\ downTaken[x] = 0
  BY <1>1, <1>2 DEF Asking
<1> HIDE DEF x
<1>6. TypeOK'
  <2>1. queue' \in Seq(Conns)
    BY <1>1, <1>3
  <2>2. /\ sfd' \in [Conns -> {"none", "queued", "open", "closed"}]
        /\ pc' \in [Clients -> {"idle", "begin", "connect", "write", "read_header", "read_body",
                                "dead"}]
    BY <1>1, <1>3
  <2> QED
    BY <1>1, <2>1, <2>2
<1>7. Unasked'
  <2> SUFFICES ASSUME NEW y \in Conns, started[y[1]] < y[2] PROVE sfd'[y] = "none"
    BY <1>1 DEF Unasked
  <2>1. y # x
    BY <1>1, <1>3, ConnParts
  <2> QED
    BY <1>1, <2>1 DEF Unasked
<1>8. Asked' /\ Counted'
  BY <1>1 DEF Asked, Counted
<1>9. Asking'
  <2> SUFFICES ASSUME NEW d \in Clients, Busy(d)'
               PROVE  /\ started[d] # 0
                      /\ result[Conn(d)] = None
                      /\ pc'[d] \in {"begin", "connect"} => sfd'[Conn(d)] = "none"
                      /\ pc'[d] # "read_body" => downTaken[Conn(d)] = 0
                      /\ pc'[d] = "read_body" => downTaken[Conn(d)] = 1
    BY <1>1, <1>4 DEF Asking
  <2>1. CASE d = c
    BY <1>1, <1>2, <1>3, <1>5, <2>1 DEF Asking, x
  <2>2. CASE d # c
    <3>1. Busy(d) /\ pc'[d] = pc[d]
      BY <1>1, <2>2 DEF Busy
    <3>2. Conn(d) # x /\ Conn(d) \in Conns
      BY <1>3, <2>2, <3>1, OwnConn
    <3> QED
      BY <1>1, <3>1, <3>2 DEF Asking
  <2> QED
    BY <2>1, <2>2
<1>10. Waiting'
  BY <1>1, <1>5 DEF Waiting
<1>11. Queued'
  <2>1. \A i \in DOMAIN queue : queue[i] # x /\ queue[i] \in Conns /\ sfd[queue[i]] = "queued"
    BY <1>5 DEF Queued
  <2>2. /\ queue'[Len(queue) + 1] = x
        /\ \A i \in DOMAIN queue : queue'[i] = queue[i]
        /\ \A i \in DOMAIN queue' : i \in DOMAIN queue \/ i = Len(queue) + 1
    <3>1. queue \in Seq(Conns) /\ queue' = Append(queue, x)
      BY <1>1
    <3>2. x \in Conns
      BY <1>3
    <3>3. /\ Append(queue, x)[Len(queue) + 1] = x
          /\ \A i \in DOMAIN queue : Append(queue, x)[i] = queue[i]
          /\ \A i \in DOMAIN Append(queue, x) : i \in DOMAIN queue \/ i = Len(queue) + 1
      BY ONLY <3>1, <3>2, AppendParts
    <3> QED
      BY ONLY <3>1, <3>3
  <2>4. \A y \in Conns : y # x => sfd'[y] = sfd[y]
    BY <1>1
  <2>5. sfd'[x] = "queued"
    BY <1>1, <1>3
  <2>6. ASSUME NEW i \in DOMAIN queue' PROVE sfd'[queue'[i]] = "queued"
    <3>1. CASE i \in DOMAIN queue
      BY ONLY <2>1, <2>2, <2>4, <3>1
    <3>2. CASE i = Len(queue) + 1
      BY ONLY <2>2, <2>5, <3>2
    <3> QED
      BY <2>2, <3>1, <3>2
  <2>7. ASSUME NEW i \in DOMAIN queue', NEW j \in DOMAIN queue', queue'[i] = queue'[j]
        PROVE  i = j
    <3>1. CASE i \in DOMAIN queue /\ j \in DOMAIN queue
      <4>1. queue[i] = queue[j]
        BY ONLY <2>2, <2>7, <3>1
      <4> QED
        BY <3>1, <4>1 DEF Queued
    <3>2. CASE i = Len(queue) + 1 \/ j = Len(queue) + 1
      BY ONLY <2>1, <2>2, <2>7, <3>2
    <3> QED
      BY <2>2, <3>1, <3>2
  <2> QED
    BY <2>6, <2>7 DEF Queued
<1>12. Serving' /\ Answered'
  BY <1>1 DEF Serving, Answered
<1>13. ClientsKeptApart'
  <2>1. {y \in Conns : sfd'[y] = "open"} = {y \in Conns : sfd[y] = "open"}
    BY <1>1, <1>3, <1>5
  <2> QED
    BY <1>1, <2>1 DEF ClientsKeptApart
<1>14. SuccessIsComplete'
  BY <1>1 DEF SuccessIsComplete
<1> QED
  BY <1>6, <1>7, <1>8, <1>9, <1>10, <1>11, <1>12, <1>13, <1>14

\* Taking what has arrived takes no more than was sent.
LEMMA TakeBodyParts ==
  ASSUME IInv, NEW c \in Clients, pc[c] = "read_body", TakeBody(c)
  PROVE  /\ downTaken' \in [Conns -> Nat]
         /\ downTaken'[Conn(c)] = downSent[Conn(c)]
         /\ \A y \in Conns : y # Conn(c) => downTaken'[y] = downTaken[y]
<1> DEFINE x == Conn(c)
<1>1. x \in Conns
  BY OwnConn DEF Busy
<1>2. downTaken' = [downTaken EXCEPT ![x] = @ + (downSent[x] - downTaken[x])]
  BY DEF TakeBody, Arrived
<1> HIDE DEF x
<1>3. downTaken[x] \in Nat /\ downSent[x] \in Nat /\ downTaken \in [Conns -> Nat]
  BY <1>1 DEF IInv, TypeOK
<1>4. downTaken[x] + (downSent[x] - downTaken[x]) = downSent[x]
  BY <1>3
<1>5. downTaken' = [downTaken EXCEPT ![x] = downSent[x]]
  BY <1>2, <1>4
<1> QED
  BY <1>1, <1>3, <1>5 DEF x

\* Every step of a client.
LEMMA ClientKeepsInv ==
  ASSUME IInv, NEW c \in Clients, ClientStep(c) \/ ClientFault(c), cut' \subseteq Conns
  PROVE  IInv'
<1> DEFINE x == Conn(c)
<1>1. /\ cfd \in [Conns -> {"none", "open", "closed"}]
      /\ downTaken \in [Conns -> Nat] /\ downSent \in [Conns -> Nat]
      /\ upTaken \in [Conns -> Nat] /\ upSent \in [Conns -> Nat]
      /\ \A y \in Conns : upTaken[y] <= upSent[y] /\ downTaken[y] <= downSent[y]
  BY DEF IInv, TypeOK, Counted
<1>2. Busy(c) => /\ x \in Conns
                 /\ pc[c] \in {"begin", "connect"} => sfd[x] = "none"
                 /\ pc[c] # "read_body" => downTaken[x] = 0
                 /\ pc[c] = "read_body" => downTaken[x] = 1
  BY OwnConn DEF IInv, Asking
<1> HIDE DEF x
<1>3. ASSUME Busy(c), GiveUp(c), UNCHANGED <<upVars, downVars, queue, sfd, serverVars>>
      PROVE  IInv'
  <2>1. Returns(c, FALSE, FAIL) /\ FAIL \in Codes /\ UNCHANGED <<started, request, cfd>>
    BY <1>3 DEF GiveUp, Codes
  <2>2. UNCHANGED <<upSent, upTaken, downSent, downTaken>>
    BY <1>3 DEF upVars, downVars
  <2> QED
    BY <1>1, <1>2, <1>3, <2>1, <2>2, ReturnsKeepsInv DEF x, upVars
<1>4. CASE GetClient(c)
  <2>1. /\ Busy(c) /\ pc[c] = "begin"
        /\ cfd' = [cfd EXCEPT ![x] = "open"]
        /\ pc' = [pc EXCEPT ![c] = "connect"]
        /\ UNCHANGED <<started, request, result, upSent, upTaken, downSent, downTaken, queue, sfd, serverVars>>
    BY <1>4 DEF GetClient, Busy, upVars, downVars, x
  <2>2. cfd' \in [Conns -> {"none", "open", "closed"}] /\ \A y \in Conns : y # x => cfd'[y] = cfd[y]
    BY <1>1, <1>2, <2>1
  <2> QED
    BY <1>1, <1>2, <2>1, <2>2, MovingKeepsInv DEF x
<1>5. CASE NoClient(c)
  BY <1>3, <1>5 DEF NoClient, Busy
<1>6. CASE Connect(c)
  BY <1>6, ConnectKeepsInv
<1>7. CASE ConnectRefused(c)
  BY <1>3, <1>7 DEF ConnectRefused, Busy
<1>8. CASE WritePart(c)
  <2>1. /\ Busy(c) /\ pc[c] = "write"
        /\ upSent' = [upSent EXCEPT ![x] = @ + 1]
        /\ UNCHANGED <<started, request, result, cfd, upTaken, downSent, downTaken, queue, sfd, serverVars>>
    BY <1>8 DEF WritePart, Busy, downVars, x
  <2>2. PICK place \in {"write", "read_header"} : pc' = [pc EXCEPT ![c] = place]
    <3>1. pc' = [pc EXCEPT ![c] = "read_header"] \/ pc' = pc
      BY <1>8 DEF WritePart
    <3>2. pc = [pc EXCEPT ![c] = "write"]
      BY <2>1 DEF IInv, TypeOK
    <3> QED
      BY <3>1, <3>2
  <2>3. upSent' \in [Conns -> Nat] /\ \A y \in Conns : upTaken[y] <= upSent'[y]
    BY <1>1, <1>2, <2>1
  <2> QED
    BY <1>1, <1>2, <2>1, <2>2, <2>3, MovingKeepsInv DEF x
<1>9. CASE WriteToClosed(c)
  <2>1. Busy(c) /\ UNCHANGED <<upVars, downVars, queue, sfd, serverVars>> /\ (Dies(c) \/ GiveUp(c))
    BY <1>9 DEF WriteToClosed, Busy
  <2>2. UNCHANGED downTaken /\ UNCHANGED downSent
    BY <2>1 DEF downVars
  <2> QED
    BY <1>1, <1>3, <2>1, <2>2, DyingKeepsInv
<1>10. CASE ReadHeader(c)
  <2>1. Busy(c) /\ pc[c] = "read_header" /\ UNCHANGED <<upVars, downSent, queue, sfd, serverVars>>
    BY <1>10 DEF ReadHeader, Busy
  <2>2. CASE Arrived(x) > 0
    <3>1. /\ downTaken' = [downTaken EXCEPT ![x] = @ + 1]
          /\ pc' = [pc EXCEPT ![c] = "read_body"]
          /\ UNCHANGED <<started, request, result, cfd, upSent, upTaken>>
      BY <1>10, <2>2 DEF ReadHeader, upVars, x
    <3>2. downTaken[x] = 0 /\ x \in Conns /\ downSent[x] > 0
      BY <1>1, <1>2, <2>1, <2>2 DEF Arrived
    <3>3. /\ downTaken' \in [Conns -> Nat] /\ downTaken'[x] = 1
          /\ \A y \in Conns : downTaken'[y] <= downSent[y] /\ (y # x => downTaken'[y] = downTaken[y])
      BY <1>1, <3>1, <3>2
    <3> QED
      BY <1>1, <2>1, <3>1, <3>3, MovingKeepsInv DEF x
  <2>3. CASE ~(Arrived(x) > 0)
    BY <1>3, <1>10, <2>1, <2>3 DEF ReadHeader, upVars, downVars, x
  <2> QED
    BY <2>2, <2>3
<1>11. ASSUME pc[c] = "read_body", TakeBody(c), cfd' \in [Conns -> {"none", "open", "closed"}],
              NEW ok \in BOOLEAN, NEW status \in Codes, Returns(c, ok, status),
              ok => BodyComplete(c) /\ BodyReadable(c) /\ cfd'[x] = "closed",
              \A y \in Conns : y # x => cfd'[y] = cfd[y],
              UNCHANGED <<started, request, upVars, downSent, queue, sfd, serverVars>>
       PROVE  IInv'
  <2>1. /\ Busy(c) /\ x \in Conns /\ downTaken[x] = 1 /\ downTaken' \in [Conns -> Nat]
        /\ downTaken'[x] = downSent[x]
        /\ \A y \in Conns : y # x => downTaken'[y] = downTaken[y]
    BY <1>2, <1>11, TakeBodyParts DEF Busy, x
  <2>2. downTaken'[x] <= downSent[x] /\ downSent[x] >= 1
    BY <1>1, <2>1
  <2>3. response[x] # None
    BY <2>1, <2>2 DEF IInv, Answered
  <2>4. ok => downTaken'[x] = MessageParts(response[x].parts)
    BY <1>1, <1>11, <2>1 DEF BodyComplete, Arrived, MessageParts, x
  <2> QED
    BY <1>11, <2>1, <2>2, <2>3, <2>4, ReturnsKeepsInv DEF x
<1>12. CASE ReadBody(c)
  <2>1. /\ pc[c] = "read_body" /\ TakeBody(c) /\ BodyReadable(c) /\ BodyComplete(c)
        /\ Returns(c, TRUE, response[x].status)
        /\ cfd' = [cfd EXCEPT ![x] = "closed"]
        /\ UNCHANGED <<started, request, upVars, downSent, queue, sfd, serverVars>>
    BY <1>12 DEF ReadBody, BodyReadable, x
  <2>2. Busy(c) /\ x \in Conns /\ downTaken[x] = 1
    BY <1>2, <2>1 DEF Busy
  <2>3. downSent[x] # 0
    BY <1>1, <2>2
  <2>4. response[x].status \in Codes
    <3>1. response[x] \in Response
      BY <2>2, <2>3 DEF IInv, TypeOK, Answered
    <3> QED
      BY <3>1 DEF Response
  <2>5. /\ cfd' \in [Conns -> {"none", "open", "closed"}] /\ cfd'[x] = "closed"
        /\ \A y \in Conns : y # x => cfd'[y] = cfd[y]
    BY <1>1, <2>1, <2>2
  <2> QED
    BY <1>11, <2>1, <2>4, <2>5
<1>13. CASE ReadBodyShort(c)
  <2>1. /\ pc[c] = "read_body" /\ TakeBody(c) /\ Returns(c, FALSE, FAIL) /\ FAIL \in Codes
        /\ UNCHANGED <<started, request, cfd, upVars, downSent, queue, sfd, serverVars>>
    BY <1>13 DEF ReadBodyShort, BodyReadable, GiveUp, Codes
  <2> QED
    BY <1>1, <1>11, <2>1
<1>14. CASE Interrupted(c)
  BY <1>3, <1>14 DEF Interrupted, Busy
<1>15. CASE Crash(c)
  BY <1>1, <1>15, DyingKeepsInv DEF Crash, downVars
<1>16. CASE DecodeFails(c)
  <2>1. /\ pc[c] = "read_body" /\ TakeBody(c)
        /\ UNCHANGED <<upVars, downSent, queue, sfd, serverVars>>
    BY <1>16 DEF DecodeFails, BodyReadable
  <2>2. /\ Busy(c) /\ x \in Conns /\ downTaken[x] = 1
        /\ downTaken' \in [Conns -> Nat] /\ downTaken'[x] = downSent[x]
        /\ \A y \in Conns : y # x => downTaken'[y] = downTaken[y]
    BY <1>2, <2>1, TakeBodyParts DEF Busy, x
  <2>3. CASE Dies(c)
    <3>1. \A y \in Conns : downTaken'[y] <= downSent[y]
      BY <1>1, <2>2
    <3>2. \A y \in Conns : downTaken'[y] = downTaken[y] \/ (Busy(c) /\ y = x)
      BY <2>2
    <3> QED
      BY <2>1, <2>2, <2>3, <3>1, <3>2, DyingKeepsInv DEF x
  <2>4. CASE ~Dies(c)
    <3>1. PICK code \in {response[x].status} \cup Garbage \cup {FAIL} : Returns(c, FALSE, code)
      BY <1>16, <2>4 DEF DecodeFails, x
    <3>2. UNCHANGED <<started, request, cfd>>
      BY <1>16, <2>4 DEF DecodeFails
    <3>3. response[x].status \in Codes
      <4>1. downSent[x] # 0
        BY <1>1, <2>2
      <4>2. response[x] \in Response
        BY <2>2, <4>1 DEF IInv, TypeOK, Answered
      <4> QED
        BY <4>2 DEF Response
    <3>4. code \in Codes
      BY <3>3, CodesAssumption DEF Codes
    <3> QED
      BY <1>1, <1>11, <2>1, <3>1, <3>2, <3>4
  <2> QED
    BY <2>3, <2>4
<1> QED
  BY <1>4, <1>5, <1>6, <1>7, <1>8, <1>9, <1>10, <1>12, <1>13, <1>14, <1>15, <1>16 DEF ClientStep, ClientFault

-----------------------------------------------------------------------------
(* The server *)

\* What the server does leaves the clients' side alone, if it forgets neither
\* an answer nor what it took of the request that was answered.
LEMMA ClientSideKept ==
  ASSUME IInv,
         \A y \in Conns : sfd[y] = "none" => sfd'[y] = "none",
         \A y \in Conns : response[y] # None => response'[y] = response[y] /\ upTaken'[y] = upTaken[y],
         UNCHANGED <<clientVars, downTaken>>
  PROVE  Unasked' /\ Asked' /\ Asking' /\ SuccessIsComplete'
<1>1. UNCHANGED <<pc, started, request, result, cfd>>
  BY DEF clientVars
<1> USE DEF IInv, TypeOK
<1>2. Unasked' /\ Asked'
  BY <1>1 DEF Unasked, Asked
<1>3. Asking'
  <2>1. \A d \in Clients : Conn(d)' = Conn(d) /\ Busy(d)' = Busy(d)
    BY <1>1 DEF Conn, Busy
  <2>2. \A d \in Clients : Busy(d) => Conn(d) \in Conns
    BY OwnConn
  <2> QED
    BY <1>1, <2>1, <2>2 DEF Asking
<1>4. SuccessIsComplete'
  BY <1>1 DEF SuccessIsComplete, MessageParts
<1> QED
  BY <1>2, <1>3, <1>4

\* The connection in service was asked for, accepted and not answered twice.
LEMMA InService ==
  ASSUME IInv, cur # None
  PROVE  /\ cur \in Conns /\ sfd[cur] = "open"
         /\ request[cur] \in Request /\ request[cur].of = cur
         /\ \A y \in Conns : sfd[y] = "open" => y = cur
<1>1. cur \in Conns /\ sfd[cur] = "open" /\ \A y \in Conns : sfd[y] = "open" => y = cur
  BY DEF IInv, TypeOK, ClientsKeptApart
<1>2. cur[1] \in Clients /\ cur[2] \in Nat /\ started[cur[1]] \in Nat
  BY <1>1, ConnParts DEF IInv, TypeOK
<1>3. ~(started[cur[1]] < cur[2])
  BY <1>1 DEF IInv, Unasked
<1> QED
  BY <1>1, <1>2, <1>3 DEF IInv, Asked

\* accept takes the head of the queue into empty locals.
LEMMA AcceptKeepsInv == ASSUME IInv, Accept, cut' \subseteq Conns PROVE IInv'
<1> DEFINE x == Head(queue)
<1>1. /\ spc = "accept" /\ queue # <<>>
      /\ cur' = x /\ srequest' = None /\ queue' = Tail(queue)
      /\ sfd' = [sfd EXCEPT ![x] = "open"] /\ spc' = "read_header"
      /\ UNCHANGED <<clientVars, upSent, upTaken, downSent, downTaken, response>>
  BY DEF Accept, ClearRequest, upVars, downVars
<1> USE DEF IInv, TypeOK
<1>2. /\ 1 \in DOMAIN queue /\ x = queue[1]
      /\ \A i \in DOMAIN queue' : i \in Nat /\ i # 0 /\ i + 1 \in DOMAIN queue /\ queue'[i] = queue[i + 1]
  <2>1. queue \in Seq(Conns) /\ queue # <<>>
    BY <1>1
  <2>2. /\ 1 \in DOMAIN queue /\ Head(queue) = queue[1]
        /\ \A i \in DOMAIN Tail(queue) :
             i \in Nat /\ i # 0 /\ i + 1 \in DOMAIN queue /\ Tail(queue)[i] = queue[i + 1]
    BY ONLY <2>1, TailParts
  <2> QED
    BY ONLY <1>1, <2>2
<1>3. x \in Conns /\ sfd[x] = "queued"
  <2>1. queue[1] \in Conns /\ sfd[queue[1]] = "queued"
    BY <1>2 DEF Queued
  <2> QED
    BY <1>2, <2>1
<1>4. queue' \in Seq(Conns)
  BY <1>1
<1> HIDE DEF x
<1>5. response[x] = None /\ upTaken[x] = 0 /\ downSent[x] = 0
  BY <1>3 DEF Waiting
<1>6. cur = None /\ \A y \in Conns : sfd[y] # "open"
  BY <1>1 DEF Serving, ClientsKeptApart
<1>7. TypeOK'
  BY <1>1, <1>3, <1>4 DEF clientVars
<1>8. Unasked' /\ Asked' /\ Asking' /\ SuccessIsComplete'
  <2>1. \A y \in Conns : sfd[y] = "none" => sfd'[y] = "none"
    BY <1>1, <1>3
  <2> QED
    BY <1>1, <2>1, ClientSideKept
<1>9. Counted' /\ Answered'
  BY <1>1 DEF Counted, Answered, clientVars
<1>10. Waiting'
  BY <1>1 DEF Waiting
<1>11. Queued'
  <2>1. \A y \in Conns : y # x => sfd'[y] = sfd[y]
    BY <1>1
  <2>2. \A i \in DOMAIN queue : queue[i] \in Conns /\ sfd[queue[i]] = "queued"
    BY DEF Queued
  <2>3. \A i, j \in DOMAIN queue : queue[i] = queue[j] => i = j
    BY DEF Queued
  <2>4. ASSUME NEW i \in DOMAIN queue' PROVE sfd'[queue'[i]] = "queued"
    <3>1. i + 1 \in DOMAIN queue /\ queue'[i] = queue[i + 1] /\ i + 1 # 1
      BY ONLY <1>2, <2>4
    <3>2. queue[i + 1] # x
      BY ONLY <1>2, <2>3, <3>1
    <3> QED
      BY ONLY <2>1, <2>2, <3>1, <3>2
  <2>5. ASSUME NEW i \in DOMAIN queue', NEW j \in DOMAIN queue', queue'[i] = queue'[j]
        PROVE  i = j
    <3>1. i \in Nat /\ j \in Nat /\ i + 1 \in DOMAIN queue /\ j + 1 \in DOMAIN queue
          /\ queue[i + 1] = queue[j + 1]
      BY ONLY <1>2, <2>5
    <3> QED
      BY ONLY <2>3, <3>1
  <2> QED
    BY <2>4, <2>5 DEF Queued
<1>12. Serving'
  BY <1>1, <1>3, <1>5, NoneApart DEF Serving
<1>13. ClientsKeptApart'
  <2>1. {y \in Conns : sfd'[y] = "open"} = {x}
    BY <1>1, <1>3, <1>6
  <2> QED
    BY <1>1, <1>3, <2>1, NoneApart DEF ClientsKeptApart, clientVars
<1> QED
  BY <1>7, <1>8, <1>9, <1>10, <1>11, <1>12, <1>13

\* Reading the request of the connection in service.
LEMMA ReadingKeepsInv ==
  ASSUME IInv, cut' \subseteq Conns,
         \/ ServerReadHeader \/ ServerReadBody
         \/ RequestRefused /\ spc' = "close"
  PROVE  IInv'
<1> DEFINE x == cur
<1>1. /\ spc \in {"read_header", "read_body"}
      /\ spc' \in {"read_body", "dispatch", "close"}
      /\ UNCHANGED <<clientVars, upSent, downSent, downTaken, queue, sfd, cur, response>>
  BY DEF ServerReadHeader, ServerReadBody, RequestRefused, ServerTakesBody, ServerDies, downVars
<1>2. cur # None /\ response[x] = None /\ srequest = None /\ downSent[x] = 0
  BY <1>1 DEF IInv, Serving
<1>3. /\ x \in Conns /\ sfd[x] = "open" /\ request[x] \in Request /\ request[x].of = x
      /\ request[x].parts \in Nat
  BY <1>2, InService DEF Request
<1>4. upTaken[x] \in Nat /\ upSent[x] \in Nat /\ upTaken[x] <= upSent[x]
  BY <1>3 DEF IInv, TypeOK, Counted
<1>5. /\ \A y \in Conns : y # x => upTaken'[y] = upTaken[y]
      /\ upTaken' \in [Conns -> Nat] /\ upTaken'[x] <= upSent[x]
      /\ srequest' \in {None, request[x]}
      /\ spc' = "read_body" => upTaken'[x] = 1 /\ srequest' = None
      /\ spc' = "dispatch" => upTaken'[x] = MessageParts(request[x].parts) /\ srequest' = request[x]
  <2>1. CASE ServerReadHeader
    <3>1. CASE ServerArrived > 0
      <4>1. /\ upTaken' = [upTaken EXCEPT ![x] = @ + 1] /\ spc' = "read_body"
            /\ srequest' = srequest /\ spc = "read_header"
        BY <2>1, <3>1 DEF ServerReadHeader
      <4>2. upTaken[x] = 0 /\ upSent[x] > 0
        BY <1>4, <3>1, <4>1 DEF IInv, Serving, ServerArrived
      <4> QED
        BY <1>2, <1>3, <1>4, <4>1, <4>2 DEF IInv, TypeOK
    <3>2. CASE ~(ServerArrived > 0)
      <4>1. upTaken' = upTaken /\ srequest' = srequest /\ spc' = "close"
        BY <2>1, <3>2 DEF ServerReadHeader
      <4> QED
        BY <1>2, <1>4, <4>1 DEF IInv, TypeOK
    <3> QED
      BY <3>1, <3>2
  <2>2. CASE ServerReadBody \/ (RequestRefused /\ spc' = "close")
    <3>1. /\ spc = "read_body"
          /\ upTaken' = [upTaken EXCEPT ![x] = @ + (upSent[x] - upTaken[x])]
          /\ \/ ServerComplete /\ srequest' = request[x] /\ spc' = "dispatch"
             \/ srequest' \in {srequest, request[x]} /\ spc' = "close"
      BY <1>2, <2>2 DEF ServerReadBody, RequestRefused, ServerTakesBody, ServerArrived, Decoded
    <3>2. upTaken[x] + (upSent[x] - upTaken[x]) = upSent[x]
      BY <1>4
    <3>3. upTaken' = [upTaken EXCEPT ![x] = upSent[x]]
      BY <3>1, <3>2
    <3>4. /\ \A y \in Conns : y # x => upTaken'[y] = upTaken[y]
          /\ upTaken' \in [Conns -> Nat] /\ upTaken'[x] = upSent[x]
      BY <1>3, <1>4, <3>3 DEF IInv, TypeOK
    <3>5. upTaken[x] = 1
      BY <3>1 DEF IInv, Serving
    <3>6. ServerComplete => upSent[x] = MessageParts(request[x].parts)
      BY <1>3, <1>4, <3>5 DEF ServerComplete, ServerArrived, MessageParts
    <3> QED
      BY <1>2, <1>4, <3>1, <3>4, <3>6
  <2> QED
    BY <2>1, <2>2
<1>6. UNCHANGED <<pc, started, request, result, cfd>>
  BY <1>1 DEF clientVars
<1> HIDE DEF x
<1> USE DEF IInv, TypeOK
<1>7. TypeOK'
  BY <1>1, <1>3, <1>5, <1>6
<1>8. Unasked' /\ Asked' /\ Asking' /\ SuccessIsComplete'
  <2>1. \A y \in Conns : response[y] # None => response'[y] = response[y] /\ upTaken'[y] = upTaken[y]
    BY <1>1, <1>2, <1>5
  <2> QED
    BY <1>1, <2>1, ClientSideKept
<1>9. Counted'
  BY <1>1, <1>5 DEF Counted
<1>10. Waiting' /\ Queued'
  BY <1>1, <1>3, <1>5 DEF Waiting, Queued
<1>11. Serving'
  BY <1>1, <1>2, <1>5, <1>6 DEF Serving, MessageParts, x
<1>12. Answered' /\ ClientsKeptApart'
  BY <1>1, <1>2, <1>5, <1>6 DEF Answered, ClientsKeptApart, MessageParts
<1> QED
  BY <1>7, <1>8, <1>9, <1>10, <1>11, <1>12

\* A response is made for the connection in service, from its own request.
LEMMA Responds ==
  ASSUME IInv, Dispatch \/ DispatchUntagged
  PROVE  /\ cur # None /\ response[cur] = None
         /\ \E r \in Response :
              /\ response' = [response EXCEPT ![cur] = r]
              /\ r.of = cur
              /\ r.tagged => r.status \in Answers(request[cur].type)
<1>1. cur # None /\ response[cur] = None /\ srequest = request[cur]
  BY DEF Dispatch, DispatchUntagged, IInv, Serving
<1>2. cur \in Conns /\ request[cur] \in Request /\ request[cur].of = cur
  BY <1>1, InService
<1>3. CASE Dispatch
  <2>1. PICK code \in Answers(srequest.type), parts \in ResponseParts,
             empty \in Empties(srequest.type) :
          response' = [response EXCEPT ![cur] =
              [of |-> srequest.of, status |-> code, parts |-> parts, empty |-> empty,
               tagged |-> TRUE]]
    BY <1>3 DEF Dispatch
  <2>2. code \in Codes /\ parts \in Nat /\ empty \in BOOLEAN
    BY BoundsAssumption, CodesAssumption DEF Answers, Codes, Empties
  <2> DEFINE r == [of |-> srequest.of, status |-> code, parts |-> parts, empty |-> empty,
                   tagged |-> TRUE]
  <2>3. r \in Response /\ r.of = cur /\ r.status \in Answers(request[cur].type)
    BY <1>1, <1>2, <2>2 DEF Response
  <2> QED
    BY <1>1, <2>1, <2>3
<1>4. CASE DispatchUntagged
  <2>1. PICK parts \in {0} \cup (IF srequest.type \in Services THEN ResponseParts ELSE {}) :
          \E code \in IF parts = 0 THEN {FAIL} ELSE Garbage,
             empty \in IF parts = 0 THEN {FALSE} ELSE EmptyEntries :
            response' = [response EXCEPT ![cur] =
                [of |-> srequest.of, status |-> code, parts |-> parts, empty |-> empty,
                 tagged |-> FALSE]]
    BY <1>4 DEF DispatchUntagged
  <2>2. PICK code \in IF parts = 0 THEN {FAIL} ELSE Garbage,
             empty \in IF parts = 0 THEN {FALSE} ELSE EmptyEntries :
          response' = [response EXCEPT ![cur] =
              [of |-> srequest.of, status |-> code, parts |-> parts, empty |-> empty,
               tagged |-> FALSE]]
    BY <2>1
  <2>3. code \in Codes /\ parts \in Nat /\ empty \in BOOLEAN
    <3>1. code \in Codes
      BY CodesAssumption DEF Codes
    <3>2. parts \in Nat
      <4>1. \A n \in ResponseParts : n \in Nat
        BY BoundsAssumption
      <4> QED
        BY <4>1
    <3>3. empty \in BOOLEAN
      BY BoundsAssumption
    <3> QED
      BY <3>1, <3>2, <3>3
  <2> DEFINE r == [of |-> srequest.of, status |-> code, parts |-> parts, empty |-> empty,
                   tagged |-> FALSE]
  <2>4. r \in Response /\ r.of = cur /\ ~r.tagged
    BY <1>1, <1>2, <2>3 DEF Response
  <2> QED
    BY <1>1, <2>2, <2>4
<1> QED
  BY <1>3, <1>4

\* The answer to a connection is its first and keeps to its own request.
LEMMA RespondingKeepsInv ==
  ASSUME IInv, Dispatch \/ DispatchUntagged, cut' \subseteq Conns
  PROVE  IInv'
<1> DEFINE x == cur
<1>1. /\ spc = "dispatch" /\ spc' = "write"
      /\ UNCHANGED <<clientVars, upSent, upTaken, downSent, downTaken, queue, sfd, cur, srequest>>
  BY DEF Dispatch, DispatchUntagged, upVars, downVars
<1>2. cur # None /\ response[x] = None /\ srequest = request[x]
  BY <1>1 DEF IInv, Serving
<1>3. x \in Conns /\ sfd[x] = "open" /\ request[x] \in Request /\ request[x].of = x
  BY <1>2, InService
<1>4. PICK r \in Response :
        /\ response' = [response EXCEPT ![x] = r]
        /\ r.of = x
        /\ r.tagged => r.status \in Answers(request[x].type)
  BY Responds
<1>5. UNCHANGED <<pc, started, request, result, cfd>>
  BY <1>1 DEF clientVars
<1>6. response \in [Conns -> Response \cup {None}] /\ upTaken \in [Conns -> Nat]
  BY DEF IInv, TypeOK
<1>7. /\ \A y \in Conns : y # x => response'[y] = response[y]
      /\ response'[x] = r /\ response'[x] # None
      /\ response' \in [Conns -> Response \cup {None}]
  BY <1>3, <1>4, <1>6, NoneApart
<1> HIDE DEF x
<1>8. upTaken[x] = MessageParts(request[x].parts)
  BY <1>1 DEF IInv, Serving, x
<1> USE DEF IInv
<1>9. TypeOK'
  BY <1>1, <1>5, <1>7 DEF TypeOK
<1>10. Unasked' /\ Asked' /\ Asking' /\ SuccessIsComplete'
  <2>1. \A y \in Conns : response[y] # None => response'[y] = response[y] /\ upTaken'[y] = upTaken[y]
    BY <1>1, <1>2, <1>7 DEF x
  <2> QED
    BY <1>1, <2>1, ClientSideKept
<1>11. Counted' /\ Queued'
  BY <1>1 DEF Counted, Queued
<1>12. Waiting'
  BY <1>1, <1>3, <1>7 DEF Waiting
<1>13. Serving'
  BY <1>1, <1>2, <1>5, <1>7 DEF Serving, x
<1>14. Answered'
  BY <1>1, <1>5, <1>7, <1>8 DEF Answered, MessageParts
<1>15. ClientsKeptApart'
  BY <1>1, <1>4, <1>5, <1>7 DEF ClientsKeptApart
<1> QED
  BY <1>9, <1>10, <1>11, <1>12, <1>13, <1>14, <1>15

\* Sending more of a response, or leaving the body of the loop, disturbs nobody.
LEMMA SendingKeepsInv ==
  ASSUME IInv, cur # None, cut' \subseteq Conns,
         spc' = "close" \/ (spc' = "write" /\ spc = "write"),
         downSent' \in [Conns -> Nat],
         \A y \in Conns : downTaken[y] <= downSent'[y],
         \A y \in Conns : response[y] = None \/ sfd[y] \in {"none", "queued"} => downSent'[y] = downSent[y],
         UNCHANGED <<clientVars, upVars, downTaken, queue, sfd, cur, srequest, response>>
  PROVE  IInv'
<1>1. UNCHANGED <<pc, started, request, result, cfd, upSent, upTaken>>
  BY DEF clientVars, upVars
<1> USE DEF IInv
<1>2. TypeOK'
  BY <1>1 DEF TypeOK
<1>3. Unasked' /\ Asked' /\ Asking' /\ SuccessIsComplete'
  BY <1>1, ClientSideKept
<1>4. Counted' /\ Waiting' /\ Queued'
  BY <1>1 DEF Counted, Waiting, Queued
<1>5. Serving'
  BY <1>1 DEF Serving
<1>6. Answered' /\ ClientsKeptApart'
  BY <1>1 DEF Answered, ClientsKeptApart, MessageParts
<1> QED
  BY <1>2, <1>3, <1>4, <1>5, <1>6

\* The end of a connection, or of the process with all of its connections.
LEMMA ClosingKeepsInv ==
  ASSUME IInv, cur' = None, cut' \subseteq Conns,
         \/ spc' = "accept" /\ srequest' = None /\ queue' = queue
         \/ spc' = "dead" /\ srequest' \in Request \cup {None} /\ queue' = <<>>,
         upTaken' \in [Conns -> Nat], \A y \in Conns : upTaken'[y] <= upSent[y],
         \A y \in Conns : upTaken'[y] = upTaken[y] \/ (response[y] = None /\ sfd[y] = "open"),
         sfd' \in [Conns -> {"none", "queued", "open", "closed"}],
         \A y \in Conns : sfd'[y] \in {sfd[y], "closed"} /\ sfd'[y] # "open",
         \A y \in Conns : sfd[y] = "none" \/ (sfd[y] = "queued" /\ spc' # "dead") => sfd'[y] = sfd[y],
         UNCHANGED <<clientVars, upSent, downVars, response>>
  PROVE  IInv'
<1>1. UNCHANGED <<pc, started, request, result, cfd, upSent, downSent, downTaken>>
  BY DEF clientVars, downVars
<1> USE DEF IInv
<1>2. TypeOK'
  <2>1. queue' \in Seq(Conns)
    <3>1. queue' = queue \/ queue' = <<>>
      OBVIOUS
    <3>2. queue \in Seq(Conns)
      BY DEF TypeOK
    <3>3. <<>> \in Seq(Conns)
      OBVIOUS
    <3> QED
      BY ONLY <3>1, <3>2, <3>3
  <2>2. spc' \in {"accept", "dead"} /\ srequest' \in Request \cup {None}
    OBVIOUS
  <2> QED
    BY <1>1, <2>1, <2>2 DEF TypeOK
<1>3. Unasked' /\ Asked' /\ Asking' /\ SuccessIsComplete'
  <2>1. \A y \in Conns : sfd[y] = "none" => sfd'[y] = "none"
    OBVIOUS
  <2>2. UNCHANGED <<clientVars, downTaken>>
    BY <1>1
  <2>3. \A y \in Conns : response[y] # None => response'[y] = response[y] /\ upTaken'[y] = upTaken[y]
    BY <1>1
  <2> QED
    BY <2>1, <2>2, <2>3, ClientSideKept
<1>4. Counted' /\ Waiting'
  BY <1>1 DEF Counted, Waiting
<1>5. Queued'
  <2>1. CASE queue' = queue /\ spc' = "accept"
    <3>1. \A i \in DOMAIN queue : queue[i] \in Conns
      BY DEF TypeOK
    <3> QED
      BY <2>1, <3>1 DEF Queued
  <2>2. CASE queue' = <<>>
    BY <2>2 DEF Queued
  <2> QED
    BY <2>1, <2>2
<1>6. Serving'
  BY <1>1 DEF Serving
<1>7. Answered'
  BY <1>1 DEF Answered, MessageParts
<1>8. ClientsKeptApart'
  BY <1>1 DEF ClientsKeptApart
<1> QED
  BY <1>2, <1>3, <1>4, <1>5, <1>6, <1>7, <1>8

\* Every step of the server.
LEMMA ServerKeepsInv ==
  ASSUME IInv, ServerStep \/ ServerFault, cut' \subseteq Conns
  PROVE  IInv'
<1>1. /\ downSent \in [Conns -> Nat] /\ downTaken \in [Conns -> Nat]
      /\ \A y \in Conns : downTaken[y] <= downSent[y]
      /\ sfd \in [Conns -> {"none", "queued", "open", "closed"}]
  BY DEF IInv, TypeOK, Counted
<1>2. spc \notin {"accept", "dead"} => cur # None
  BY DEF IInv, Serving
<1>3. ASSUME spc \notin {"accept", "dead"}, spc' = "close",
             UNCHANGED <<clientVars, upVars, downVars, queue, sfd, cur, srequest, response>>
      PROVE  IInv'
  <2>1. downSent' = downSent /\ downTaken' = downTaken
    BY <1>3 DEF downVars
  <2> QED
    BY <1>1, <1>2, <1>3, <2>1, SendingKeepsInv
<1>4. CASE Accept
  BY <1>4, AcceptKeepsInv
<1>5. CASE ServerReadHeader \/ ServerReadBody \/ (RequestRefused /\ spc' = "close")
  BY <1>5, ReadingKeepsInv
<1>6. CASE InvalidPacket \/ ServerInterrupted
  BY <1>3, <1>6 DEF InvalidPacket, ServerInterrupted
<1>7. CASE Dispatch \/ DispatchUntagged
  BY <1>7, RespondingKeepsInv
<1>8. CASE ServerWritePart
  <2>1. /\ spc = "write" /\ downSent' = [downSent EXCEPT ![cur] = @ + 1]
        /\ spc' = "close" \/ spc' = "write"
        /\ UNCHANGED <<clientVars, upVars, downTaken, queue, sfd, cur, srequest, response>>
    BY <1>8 DEF ServerWritePart
  <2>2. cur \in Conns /\ sfd[cur] = "open" /\ response[cur] # None
    BY <1>2, <2>1, InService DEF IInv, Serving
  <2>3. /\ downSent' \in [Conns -> Nat]
        /\ \A y \in Conns : downTaken[y] <= downSent'[y]
        /\ \A y \in Conns : y # cur => downSent'[y] = downSent[y]
    BY <1>1, <2>1, <2>2
  <2> QED
    BY <1>2, <2>1, <2>2, <2>3, SendingKeepsInv
<1>9. ASSUME ServerDies, srequest' \in Request \cup {None},
             upTaken' \in [Conns -> Nat], \A y \in Conns : upTaken'[y] <= upSent[y],
             \A y \in Conns : upTaken'[y] = upTaken[y] \/ (response[y] = None /\ sfd[y] = "open"),
             UNCHANGED <<clientVars, upSent, downVars, response>>
      PROVE  IInv'
  <2>1. /\ spc' = "dead" /\ queue' = <<>> /\ cur' = None
        /\ sfd' = [x \in Conns |-> IF sfd[x] \in {"open", "queued"} THEN "closed" ELSE sfd[x]]
    BY <1>9 DEF ServerDies
  <2>2. /\ sfd' \in [Conns -> {"none", "queued", "open", "closed"}]
        /\ \A y \in Conns : sfd'[y] \in {sfd[y], "closed"} /\ sfd'[y] # "open"
        /\ \A y \in Conns : sfd[y] = "none" => sfd'[y] = sfd[y]
    BY <1>1, <2>1
  <2> QED
    BY <1>9, <2>1, <2>2, ClosingKeepsInv
<1>10. CASE ServerWriteToClosed
  <2>1. CASE spc' = "close"
    BY <1>3, <1>10, <2>1 DEF ServerWriteToClosed, ServerDies
  <2>2. CASE spc' # "close"
    <3>1. ServerDies /\ UNCHANGED <<clientVars, upSent, upTaken, downVars, srequest, response>>
      BY <1>10, <2>2 DEF ServerWriteToClosed, upVars
    <3> QED
      BY <1>9, <3>1 DEF IInv, TypeOK, Counted
  <2> QED
    BY <2>1, <2>2
\* The process may end after a request was refused that was read whole.
<1>12. CASE RequestRefused /\ spc' # "close"
  <2>1. /\ ServerDies /\ spc = "read_body" /\ srequest' = Decoded
        /\ upTaken' = [upTaken EXCEPT ![cur] = @ + (upSent[cur] - upTaken[cur])]
        /\ UNCHANGED <<clientVars, upSent, downVars, response>>
    BY <1>12 DEF RequestRefused, ServerTakesBody, ServerArrived
  <2>2. cur \in Conns /\ sfd[cur] = "open" /\ request[cur] \in Request /\ response[cur] = None
    BY <1>2, <2>1, InService DEF IInv, Serving
  <2>3. srequest' \in Request \cup {None}
    BY <2>1, <2>2 DEF Decoded, IInv, TypeOK
  <2>4. /\ upTaken' \in [Conns -> Nat] /\ \A y \in Conns : upTaken'[y] <= upSent[y]
        /\ \A y \in Conns : y # cur => upTaken'[y] = upTaken[y]
    <3>1. /\ upTaken \in [Conns -> Nat] /\ upSent \in [Conns -> Nat]
          /\ \A y \in Conns : upTaken[y] <= upSent[y]
      BY DEF IInv, TypeOK, Counted
    <3>2. upTaken[cur] + (upSent[cur] - upTaken[cur]) = upSent[cur]
      BY <2>2, <3>1
    <3>3. upTaken' = [upTaken EXCEPT ![cur] = upSent[cur]]
      BY <2>1, <3>2
    <3> QED
      BY <2>2, <3>1, <3>3
  <2> QED
    BY <1>9, <2>1, <2>2, <2>3, <2>4
<1>11. CASE CloseClient
  <2>1. /\ spc = "close" /\ spc' = "accept" /\ cur' = None /\ srequest' = None
        /\ sfd' = [sfd EXCEPT ![cur] = "closed"]
        /\ UNCHANGED <<clientVars, upVars, downVars, queue, response>>
    BY <1>11 DEF CloseClient, CloseCurrent, ClearRequest
  <2>2. cur \in Conns /\ sfd[cur] = "open" /\ \A y \in Conns : sfd[y] = "open" => y = cur
    BY <1>2, <2>1, InService
  <2>3. /\ sfd' \in [Conns -> {"none", "queued", "open", "closed"}]
        /\ \A y \in Conns : sfd'[y] \in {sfd[y], "closed"} /\ sfd'[y] # "open"
        /\ \A y \in Conns : sfd[y] \in {"none", "queued"} => sfd'[y] = sfd[y]
    BY <1>1, <2>1, <2>2
  <2> QED
    BY <1>1, <2>1, <2>3, ClosingKeepsInv DEF upVars, IInv, TypeOK, Counted
<1> QED
  BY <1>4, <1>5, <1>6, <1>7, <1>8, <1>10, <1>11, <1>12 DEF ServerStep, ServerFault

\* A step that changes nothing keeps everything.
LEMMA StutterKeepsInv == ASSUME IInv, UNCHANGED vars PROVE IInv'
<1>1. /\ UNCHANGED <<pc, started, request, result, cfd, upSent, upTaken, downSent, downTaken>>
      /\ UNCHANGED <<queue, sfd, spc, cur, srequest, response, cut>>
  BY DEF vars, clientVars, upVars, downVars, serverVars
<1> USE DEF IInv
<1>2. TypeOK' /\ Unasked' /\ Asked' /\ Counted' /\ Waiting' /\ Queued'
  BY <1>1 DEF TypeOK, Unasked, Asked, Counted, Waiting, Queued
<1>3. Asking'
  BY <1>1 DEF Asking, Busy, Conn
<1>4. Serving' /\ Answered' /\ ClientsKeptApart' /\ SuccessIsComplete'
  BY <1>1 DEF Serving, Answered, ClientsKeptApart, SuccessIsComplete, MessageParts
<1> QED
  BY <1>2, <1>3, <1>4

-----------------------------------------------------------------------------
(* Theorems *)

\* Clients and server keep all of IInv, whatever fails.
THEOREM Invariance == Spec => []IInv
<1>1. IInv /\ [Next]_vars => IInv'
  <2> SUFFICES ASSUME IInv, [Next]_vars PROVE IInv'
    OBVIOUS
  <2> cut' \subseteq Conns
    BY CutTyped
  <2>1. ASSUME NEW c \in Clients, Begin(c) PROVE IInv'
    BY <2>1, BeginKeepsInv
  <2>2. ASSUME NEW c \in Clients, ClientStep(c) \/ ClientFault(c) PROVE IInv'
    BY <2>2, ClientKeepsInv
  <2>3. CASE ServerStep \/ ServerFault
    BY <2>3, ServerKeepsInv
  <2>4. CASE UNCHANGED vars
    BY <2>4, StutterKeepsInv
  <2> QED
    BY <2>1, <2>2, <2>3, <2>4 DEF Next
<1> QED
  BY <1>1, InitInv, PTL DEF Spec

\* Every variable keeps its type.
THEOREM TypeCorrect == Spec => []TypeOK
<1>1. IInv => TypeOK
  BY DEF IInv
<1> QED
  BY <1>1, Invariance, PTL

\* The turns of the server's loop do not touch each other.
THEOREM NoTurnTouchesAnother == Spec => []ClientsKeptApart
<1>1. IInv => ClientsKeptApart
  BY DEF IInv
<1> QED
  BY <1>1, Invariance, PTL

\* A query is TRUE only for the whole response to the whole request.
THEOREM TrueIsComplete == Spec => []SuccessIsComplete
<1>1. IInv => SuccessIsComplete
  BY DEF IInv
<1> QED
  BY <1>1, Invariance, PTL

-----------------------------------------------------------------------------
(* Clients and server implement Query. *)

\* A step that starts, answers and ends no query is invisible to its caller.
LEMMA Invisible ==
  ASSUME UNCHANGED <<started, response, result>>
  PROVE  UNCHANGED Abstract!vars
  BY DEF Abstract!vars

\* A client that returns fails a query, or succeeds with the answer it was given.
LEMMA ReturnIsAnswer ==
  ASSUME IInv, NEW c \in Clients, Busy(c),
         NEW ok \in BOOLEAN, NEW status \in Codes, Returns(c, ok, status),
         ok => response[Conn(c)] # None /\ status = response[Conn(c)].status,
         UNCHANGED <<started, response>>
  PROVE  Abstract!Next
<1> DEFINE x == Conn(c)
<1>1. x \in Conns /\ x[1] = c /\ x[2] = started[c]
  BY OwnConn
<1>2. result[x] = None /\ result' = [result EXCEPT ![x] = [ok |-> ok, status |-> status]]
  BY DEF IInv, Asking, Returns
<1>3. started[c] \in Nat
  BY DEF IInv, TypeOK
<1> HIDE DEF x
<1>4. x \in {y \in Conns : y[2] <= started[y[1]]}
  BY <1>1, <1>3
<1>5. CASE ok
  <2>1. response[x] # None /\ status = response[x].status /\ response[x].status # None
    BY <1>5, NoneAssumption DEF x
  <2>2. Abstract!Succeed(x)
    BY <1>1, <1>2, <1>4, <1>5, <2>1 DEF Abstract!Succeed
  <2> QED
    BY <1>1, <2>2 DEF Abstract!Next
<1>6. CASE ~ok
  <2>1. Abstract!Fail(x, status)
    BY <1>2, <1>4, <1>6 DEF Abstract!Fail
  <2> QED
    BY <1>1, <2>1 DEF Abstract!Next
<1> QED
  BY <1>5, <1>6

\* Starting a query is asking it.
LEMMA BeginIsAsk == ASSUME IInv, NEW c \in Clients, Begin(c) PROVE Abstract!Next
<1>1. started[c] \in Nat /\ <<c, started[c] + 1>> \in Conns
  BY BoundsAssumption DEF Begin, IInv, TypeOK, Conns
<1> PICK x \in Conns : x = <<c, started[c] + 1>>
  BY <1>1
<1>2. started' = [started EXCEPT ![c] = @ + 1] /\ UNCHANGED <<response, result>>
  BY DEF Begin, serverVars
<1>3. x \notin {y \in Conns : y[2] <= started[y[1]]}
  BY <1>1
<1>4. {y \in Conns : y[2] <= started'[y[1]]} = {y \in Conns : y[2] <= started[y[1]]} \cup {x}
  <2>1. ASSUME NEW y \in Conns
        PROVE  y[2] <= started'[y[1]] <=> (y[2] <= started[y[1]] \/ y = x)
    <3>1. y[1] \in Clients /\ y[2] \in Nat /\ started[y[1]] \in Nat /\ y = <<y[1], y[2]>>
      BY ConnParts DEF IInv, TypeOK
    <3>2. CASE y[1] = c
      <4>1. started'[c] = started[c] + 1
        BY <1>2 DEF IInv, TypeOK
      <4> QED
        BY <1>1, <3>1, <3>2, <4>1
    <3>3. CASE y[1] # c
      BY <1>2, <3>1, <3>3 DEF IInv, TypeOK
    <3> QED
      BY <3>2, <3>3
  <2> QED
    BY <1>1, <2>1
<1>5. Abstract!Ask(x)
  BY <1>2, <1>3, <1>4 DEF Abstract!Ask
<1> QED
  BY <1>5 DEF Abstract!Next

\* Making a response is serving the query it is for.
LEMMA ResponseIsServe == ASSUME IInv, Dispatch \/ DispatchUntagged PROVE Abstract!Next
<1> DEFINE x == cur
<1>1. cur # None /\ response[x] = None
  BY Responds
<1>2. PICK r \in Response : response' = [response EXCEPT ![x] = r]
  BY Responds
<1>3. x \in Conns /\ sfd[x] = "open"
  BY <1>1, InService
<1>4. UNCHANGED <<started, result>>
  BY DEF Dispatch, DispatchUntagged, clientVars
<1>5. x \in {y \in Conns : y[2] <= started[y[1]]}
  <2>1. x[1] \in Clients /\ x[2] \in Nat /\ started[x[1]] \in Nat
    BY <1>3, ConnParts DEF IInv, TypeOK
  <2>2. ~(started[x[1]] < x[2])
    BY <1>3 DEF IInv, Unasked
  <2> QED
    BY <1>3, <2>1, <2>2
<1>6. r.status \in Codes
  BY DEF Response
<1> HIDE DEF x
<1> DEFINE served == [y \in Conns |-> IF response[y] = None THEN None ELSE response[y].status]
<1>7. served' = [served EXCEPT ![x] = r.status]
  <2>1. response'[x] = r /\ r # None /\ \A y \in Conns : y # x => response'[y] = response[y]
    BY <1>2, <1>3, NoneApart DEF IInv, TypeOK
  <2> QED
    BY <1>3, <2>1
<1>8. served[x] = None
  BY <1>1, <1>3 DEF x
<1>9. Abstract!Serve(x, r.status)
  BY <1>4, <1>5, <1>7, <1>8 DEF Abstract!Serve
<1> QED
  BY <1>3, <1>6, <1>9 DEF Abstract!Next

\* Every step of Exchange is a step of Query, or leaves its variables alone.
LEMMA StepIsQuery == ASSUME IInv, [Next]_vars PROVE [Abstract!Next]_(Abstract!vars)
<1>1. ASSUME NEW c \in Clients, Begin(c) PROVE Abstract!Next
  BY <1>1, BeginIsAsk
<1>2. ASSUME NEW c \in Clients, Busy(c), GiveUp(c), UNCHANGED serverVars PROVE Abstract!Next
  <2>1. Returns(c, FALSE, FAIL) /\ FAIL \in Codes /\ UNCHANGED <<started, response>>
    BY <1>2 DEF GiveUp, Codes, serverVars
  <2> QED
    BY <1>2, <2>1, ReturnIsAnswer
<1>3. ASSUME NEW c \in Clients, ClientStep(c) \/ ClientFault(c)
      PROVE  Abstract!Next \/ UNCHANGED <<started, response, result>>
  <2>1. CASE GetClient(c) \/ Connect(c) \/ WritePart(c) \/ Crash(c)
    BY <2>1 DEF GetClient, Connect, WritePart, Crash, Dies, serverVars
  <2>2. CASE NoClient(c) \/ ConnectRefused(c) \/ Interrupted(c) \/ ReadBodyShort(c)
    BY <1>2, <2>2 DEF NoClient, ConnectRefused, Interrupted, ReadBodyShort, BodyReadable, Busy
  <2>3. CASE WriteToClosed(c)
    BY <1>2, <2>3 DEF WriteToClosed, Dies, Busy, serverVars
  <2>4. CASE ReadHeader(c)
    BY <1>2, <2>4 DEF ReadHeader, Busy, serverVars
  <2>5. CASE ReadBody(c)
    <3>1. Busy(c) /\ pc[c] = "read_body" /\ Returns(c, TRUE, response[Conn(c)].status)
          /\ UNCHANGED <<started, response>>
      BY <2>5 DEF ReadBody, BodyReadable, Busy, serverVars
    <3>2. Conn(c) \in Conns /\ downTaken[Conn(c)] = 1 /\ downTaken[Conn(c)] <= downSent[Conn(c)]
      BY <3>1, OwnConn DEF IInv, Asking, Counted
    <3>3. response[Conn(c)] # None /\ response[Conn(c)] \in Response
      BY <3>2 DEF IInv, TypeOK, Answered
    <3>4. response[Conn(c)].status \in Codes
      BY <3>3 DEF Response
    <3> QED
      BY <3>1, <3>3, <3>4, ReturnIsAnswer
  <2>6. CASE DecodeFails(c)
    <3>1. Busy(c) /\ pc[c] = "read_body" /\ UNCHANGED response
      BY <2>6 DEF DecodeFails, BodyReadable, Busy, serverVars
    <3>2. CASE Dies(c)
      BY <3>1, <3>2 DEF Dies
    <3>3. CASE ~Dies(c)
      <4>1. PICK code \in {response[Conn(c)].status} \cup Garbage \cup {FAIL} : Returns(c, FALSE, code)
        BY <2>6, <3>3 DEF DecodeFails
      <4>2. UNCHANGED <<started, response>>
        BY <2>6, <3>1, <3>3 DEF DecodeFails
      <4>3. Conn(c) \in Conns /\ downTaken[Conn(c)] = 1 /\ downTaken[Conn(c)] <= downSent[Conn(c)]
        BY <3>1, OwnConn DEF IInv, Asking, Counted
      <4>4. response[Conn(c)] \in Response
        BY <4>3 DEF IInv, TypeOK, Answered
      <4>5. code \in Codes
        BY <4>4, CodesAssumption DEF Response, Codes
      <4> QED
        BY <3>1, <4>1, <4>2, <4>5, ReturnIsAnswer
    <3> QED
      BY <3>2, <3>3
  <2> QED
    BY <1>3, <2>1, <2>2, <2>3, <2>4, <2>5, <2>6 DEF ClientStep, ClientFault
<1>4. CASE Dispatch \/ DispatchUntagged
  BY <1>4, ResponseIsServe
<1>5. ASSUME ServerStep \/ ServerFault, ~(Dispatch \/ DispatchUntagged)
      PROVE  UNCHANGED <<started, response, result>>
  BY <1>5 DEF ServerStep, ServerFault, Accept, ServerReadHeader, ServerReadBody, RequestRefused,
              InvalidPacket, ServerWritePart, ServerWriteToClosed, CloseClient, ServerInterrupted,
              clientVars
<1>6. CASE UNCHANGED vars
  BY <1>6, Invisible DEF vars, clientVars, serverVars
<1> QED
  BY <1>1, <1>3, <1>4, <1>5, <1>6, Invisible DEF Next

\* Clients and server together keep the promise of query.
THEOREM ImplementsQuery == Spec => KeepsPromise
<1>1. Init => Abstract!Init
  <2> SUFFICES ASSUME Init PROVE Abstract!Init
    OBVIOUS
  <2>1. {x \in Conns : x[2] <= started[x[1]]} = {}
    <3>1. ASSUME NEW x \in Conns PROVE ~(x[2] <= started[x[1]])
      <4>1. x[1] \in Clients /\ x[2] \in Nat /\ x[2] # 0
        BY ConnParts
      <4> QED
        BY <4>1 DEF Init
    <3> QED
      BY <3>1
  <2>2. [x \in Conns |-> IF response[x] = None THEN None ELSE response[x].status]
          = [x \in Conns |-> None]
    BY DEF Init
  <2> QED
    BY <2>1, <2>2 DEF Init, Abstract!Init
<1>2. IInv /\ [Next]_vars => [Abstract!Next]_(Abstract!vars)
  BY StepIsQuery
<1> QED
  BY <1>1, <1>2, Invariance, PTL DEF Spec, KeepsPromise, Abstract!Spec

-----------------------------------------------------------------------------
(* Requests that arrive whole are answered. *)

\* Requests of which one read returns the whole body.
SmallRequests == RequestParts \subseteq {1}

\* A client that is past connect holds its socket.
Opened ==
    \A c \in Clients :
        pc[c] \in {"connect", "write", "read_header", "read_body"} => cfd[Conn(c)] = "open"

\* A client writes the parts of its request and no more.
Written ==
    /\ \A x \in Conns :
         IF x[2] <= started[x[1]] THEN upSent[x] <= MessageParts(request[x].parts)
         ELSE upSent[x] = 0
    /\ \A c \in Clients :
         /\ pc[c] \in {"begin", "connect"} => upSent[Conn(c)] = 0
         /\ pc[c] = "write" => upSent[Conn(c)] < MessageParts(request[Conn(c)].parts)

\* The body of a request is one part, unless the packet is empty.
OnePart ==
    \A x \in Conns :
        x[2] <= started[x[1]] /\ request[x].type # NoType => request[x].parts = 1

\* The server is done with x, or about to be.
Left(x) == sfd[x] = "closed" \/ (x = cur /\ spc = "close")

\* A running server leaves a request without a response only if its client has
\* gone, or for one of the reasons of Excused.
LeftForAReason ==
    spc # "dead" => \A x \in Conns :
        Left(x) /\ response[x] = None => cfd[x] = "closed" \/ Excused(x)

Healthy == Opened /\ Written /\ OnePart /\ LeftForAReason

\* A client of which the step concerns its own connections only keeps the rest.
LEMMA ClientKeepsHealthy ==
  ASSUME IInv, Healthy, NEW c \in Clients,
         UNCHANGED <<started, request, serverVars, cut>>,
         \A d \in Clients : d # c => pc'[d] = pc[d],
         \A y \in Conns : sfd'[y] = "closed" => sfd[y] = "closed",
         \A y \in Conns : y[1] # c => cfd'[y] = cfd[y] /\ upSent'[y] = upSent[y],
         \A y \in Conns : cfd[y] = "closed" /\ sfd[y] # "none" => cfd'[y] = "closed",
         \A y \in Conns : \/ upSent'[y] = upSent[y]
                          \/ /\ y[2] <= started[y[1]]
                             /\ upSent'[y] <= MessageParts(request[y].parts),
         pc'[c] \in {"connect", "write", "read_header", "read_body"} => cfd'[Conn(c)] = "open",
         pc'[c] \in {"begin", "connect"} => upSent'[Conn(c)] = 0,
         pc'[c] = "write" => upSent'[Conn(c)] < MessageParts(request[Conn(c)].parts)
  PROVE  Healthy'
<1>1. UNCHANGED <<spc, cur, srequest, response>> /\ \A d \in Clients : Conn(d)' = Conn(d)
  BY DEF serverVars, Conn
<1>2. ASSUME NEW d \in Clients, d # c, Busy(d)
      PROVE  cfd'[Conn(d)] = cfd[Conn(d)] /\ upSent'[Conn(d)] = upSent[Conn(d)]
  <2>1. Conn(d) \in Conns /\ Conn(d)[1] # c
    BY <1>2, OwnConn
  <2> QED
    BY <2>1
<1>3. Opened'
  <2> SUFFICES ASSUME NEW d \in Clients, pc'[d] \in {"connect", "write", "read_header", "read_body"}
               PROVE  cfd'[Conn(d)] = "open"
    BY <1>1 DEF Opened
  <2>1. CASE d # c
    <3>1. Busy(d) /\ pc'[d] = pc[d]
      BY <2>1 DEF Busy
    <3> QED
      BY <1>2, <2>1, <3>1 DEF Healthy, Opened
  <2> QED
    BY <2>1
<1>4. Written'
  <2>1. ASSUME NEW y \in Conns
        PROVE  IF y[2] <= started[y[1]] THEN upSent'[y] <= MessageParts(request[y].parts)
               ELSE upSent'[y] = 0
    BY DEF Healthy, Written
  <2>2. ASSUME NEW d \in Clients
        PROVE  /\ pc'[d] \in {"begin", "connect"} => upSent'[Conn(d)] = 0
               /\ pc'[d] = "write" => upSent'[Conn(d)] < MessageParts(request[Conn(d)].parts)
    <3>1. CASE d # c /\ pc'[d] \in {"begin", "connect", "write"}
      <4>1. Busy(d) /\ pc'[d] = pc[d]
        BY <3>1 DEF Busy
      <4> QED
        BY <1>2, <3>1, <4>1 DEF Healthy, Written
    <3> QED
      BY <3>1
  <2> QED
    BY <1>1, <2>1, <2>2 DEF Written, MessageParts
<1>5. OnePart'
  BY DEF Healthy, OnePart
<1>6. LeftForAReason'
  <2> SUFFICES ASSUME spc # "dead", NEW y \in Conns, Left(y)', response[y] = None
               PROVE  cfd'[y] = "closed" \/ Excused(y)
    BY <1>1 DEF LeftForAReason, Excused
  <2>1. Left(y)
    BY <1>1 DEF Left
  <2>2. cfd[y] = "closed" \/ Excused(y)
    BY <2>1 DEF Healthy, LeftForAReason
  <2>3. sfd[y] # "none"
    <3>1. CASE sfd[y] = "closed"
      BY <3>1
    <3>2. CASE y = cur /\ spc = "close"
      BY <3>2, InService, NoneApart
    <3> QED
      BY <2>1, <3>1, <3>2 DEF Left
  <2> QED
    BY <2>2, <2>3
<1> QED
  BY <1>3, <1>4, <1>5, <1>6 DEF Healthy

\* A step of the server changes nothing for the clients, and needs a reason to
\* leave a connection without a response.
LEMMA ServerKeepsHealthy ==
  ASSUME Healthy, UNCHANGED <<clientVars, upSent>>, cut \subseteq cut',
         \A y \in Conns :
            spc' # "dead" /\ Left(y)' /\ response'[y] = None =>
                \/ spc # "dead" /\ Left(y) /\ response[y] = None
                \/ cfd[y] = "closed" \/ Excused(y)'
  PROVE  Healthy'
<1>1. UNCHANGED <<pc, started, request, result, cfd>>
  BY DEF clientVars
<1>2. Opened' /\ Written' /\ OnePart'
  BY <1>1 DEF Healthy, Opened, Written, OnePart, Conn, MessageParts
<1>3. LeftForAReason'
  <2> SUFFICES ASSUME spc' # "dead", NEW y \in Conns, Left(y)', response'[y] = None
               PROVE  cfd[y] = "closed" \/ Excused(y)'
    BY <1>1 DEF LeftForAReason
  <2>1. CASE spc # "dead" /\ Left(y) /\ response[y] = None
    BY <1>1, <2>1 DEF Healthy, LeftForAReason, Excused
  <2> QED
    BY <2>1
<1> QED
  BY <1>2, <1>3 DEF Healthy

\* A new query: nothing of it is written yet, and its body is at most one part.
LEMMA BeginKeepsHealthy ==
  ASSUME SmallRequests, IInv, Healthy, NEW c \in Clients, Begin(c)
  PROVE  Healthy'
<1> DEFINE x == <<c, started[c] + 1>>
<1>1. PICK r \in Requests(x) : request' = [request EXCEPT ![x] = r]
  BY DEF Begin
<1>2. /\ pc[c] = "idle" /\ started[c] < MaxQueries
      /\ started' = [started EXCEPT ![c] = @ + 1]
      /\ pc' = [pc EXCEPT ![c] = "begin"]
      /\ UNCHANGED <<cfd, upSent, sfd, spc, cur, response, cut>>
  BY DEF Begin, upVars, serverVars
<1>3. /\ started \in [Clients -> 0 .. MaxQueries]
      /\ pc \in [Clients -> {"idle", "begin", "connect", "write", "read_header", "read_body", "dead"}]
      /\ request \in [Conns -> Request \cup {None}]
      /\ started[c] \in Nat /\ started[c] + 1 \in 1 .. MaxQueries
  BY <1>2, BoundsAssumption DEF IInv, TypeOK
<1>4. x \in Conns /\ x[1] = c /\ x[2] = started[c] + 1 /\ x = Conn(c)'
  BY <1>2, <1>3 DEF Conns, Conn
<1> HIDE DEF x
<1>5. r.type # NoType => r.parts = 1
  BY <1>4, TypesAssumption DEF Requests, SmallRequests
<1>6. r.parts \in Nat
  <2>1. r.parts \in RequestParts \/ r.parts = 0
    BY DEF Requests
  <2>2. \A n \in RequestParts : n \in Nat
    BY BoundsAssumption
  <2> QED
    BY ONLY <2>1, <2>2
<1>7. request'[x] = r /\ \A y \in Conns : y # x => request'[y] = request[y]
  BY <1>1, <1>3, <1>4
<1>8. /\ started'[c] = started[c] + 1
      /\ \A d \in Clients : d # c => started'[d] = started[d] /\ pc'[d] = pc[d] /\ Conn(d)' = Conn(d)
  BY <1>2, <1>3 DEF Conn
<1>9. ASSUME NEW y \in Conns, y # x
      PROVE  y[2] <= started'[y[1]] <=> y[2] <= started[y[1]]
  <2>1. y[1] \in Clients /\ y[2] \in Nat /\ started[y[1]] \in Nat /\ y = <<y[1], y[2]>>
    BY <1>3, ConnParts
  <2>2. CASE y[1] = c
    <3>1. y[2] # started[c] + 1
      BY <1>9, <2>1, <2>2 DEF x
    <3> QED
      BY <1>3, <1>8, <2>1, <2>2, <3>1
  <2>3. CASE y[1] # c
    BY <1>8, <2>1, <2>3
  <2> QED
    BY <2>2, <2>3
<1>10. ~(x[2] <= started[x[1]]) /\ x[2] <= started'[x[1]] /\ upSent[x] = 0 /\ sfd[x] = "none"
  <2>1. started[x[1]] < x[2] /\ ~(x[2] <= started[x[1]]) /\ x[2] <= started'[x[1]]
    BY <1>3, <1>4, <1>8
  <2> QED
    BY <1>4, <2>1 DEF Healthy, Written, IInv, Unasked
<1>11. ASSUME NEW d \in Clients, d # c, Busy(d) PROVE Conn(d) \in Conns /\ Conn(d) # x
  <2>1. Conn(d) \in Conns /\ Conn(d)[1] = d
    BY <1>11, OwnConn
  <2> QED
    BY <1>4, <1>11, <2>1
<1>12. Opened'
  <2> SUFFICES ASSUME NEW d \in Clients, pc'[d] \in {"connect", "write", "read_header", "read_body"}
               PROVE  cfd[Conn(d)'] = "open"
    BY <1>2 DEF Opened
  <2>1. d # c
    BY <1>2, <1>3
  <2> QED
    BY <1>8, <2>1 DEF Healthy, Opened
<1>13. Written'
  <2>1. ASSUME NEW y \in Conns
        PROVE  IF y[2] <= started'[y[1]] THEN upSent[y] <= MessageParts(request'[y].parts)
               ELSE upSent[y] = 0
    <3>1. CASE y = x
      BY <1>6, <1>7, <1>10, <3>1 DEF MessageParts
    <3>2. CASE y # x
      BY <1>7, <1>9, <3>2 DEF Healthy, Written
    <3> QED
      BY <3>1, <3>2
  <2>2. ASSUME NEW d \in Clients
        PROVE  /\ pc'[d] \in {"begin", "connect"} => upSent[Conn(d)'] = 0
               /\ pc'[d] = "write" => upSent[Conn(d)'] < MessageParts(request'[Conn(d)'].parts)
    <3>1. CASE d = c
      <4>1. pc'[d] = "begin" /\ Conn(d)' = x
        BY <1>2, <1>3, <1>4, <3>1
      <4> QED
        BY <1>10, <4>1
    <3>2. CASE d # c
      <4>1. pc'[d] = pc[d] /\ Conn(d)' = Conn(d)
        BY <1>8, <3>2
      <4>2. pc[d] \in {"begin", "connect", "write"} => request'[Conn(d)] = request[Conn(d)]
        BY <1>7, <1>11, <3>2 DEF Busy
      <4> QED
        BY <4>1, <4>2 DEF Healthy, Written
    <3> QED
      BY <3>1, <3>2
  <2>3. \A d \in Clients : MessageParts(request[Conn(d)].parts)' = MessageParts(request'[Conn(d)'].parts)
    BY DEF MessageParts
  <2> QED
    BY <1>2, <2>1, <2>2, <2>3 DEF Written, MessageParts
<1>14. OnePart'
  <2> SUFFICES ASSUME NEW y \in Conns, y[2] <= started'[y[1]], request'[y].type # NoType
               PROVE  request'[y].parts = 1
    BY DEF OnePart
  <2>1. CASE y = x
    BY <1>5, <1>7, <2>1
  <2>2. CASE y # x
    BY <1>7, <1>9, <2>2 DEF Healthy, OnePart
  <2> QED
    BY <2>1, <2>2
<1>15. LeftForAReason'
  <2> SUFFICES ASSUME spc # "dead", NEW y \in Conns, Left(y), response[y] = None
               PROVE  cfd[y] = "closed" \/ Excused(y)'
    BY <1>2 DEF LeftForAReason, Left
  <2>1. y # x
    <3>1. CASE sfd[y] = "closed"
      BY <1>10, <3>1
    <3>2. CASE y = cur /\ spc = "close"
      BY <1>10, <3>2, InService, NoneApart
    <3> QED
      BY <3>1, <3>2 DEF Left
  <2> QED
    BY <1>2, <1>7, <2>1 DEF Healthy, LeftForAReason, Excused
<1> QED
  BY <1>12, <1>13, <1>14, <1>15 DEF Healthy

\* Every step of a client keeps the exchange healthy.
LEMMA ClientStepKeepsHealthy ==
  ASSUME IInv, Healthy, NEW c \in Clients, ClientStep(c) \/ ClientFault(c)
  PROVE  Healthy'
<1> DEFINE x == Conn(c)
<1>1. /\ cfd \in [Conns -> {"none", "open", "closed"}]
      /\ upSent \in [Conns -> Nat]
      /\ sfd \in [Conns -> {"none", "queued", "open", "closed"}]
      /\ pc \in [Clients -> {"idle", "begin", "connect", "write", "read_header", "read_body", "dead"}]
  BY DEF IInv, TypeOK
<1>2. Busy(c) => x \in Conns /\ x[1] = c /\ x[2] = started[c] /\ x[2] <= started[x[1]]
  <2>1. started[c] \in Nat
    BY DEF IInv, TypeOK
  <2> QED
    BY <2>1, OwnConn
<1>3. /\ pc[c] = "begin" => sfd[x] = "none"
      /\ pc[c] \in {"begin", "connect"} => upSent[x] = 0
      /\ pc[c] = "write" => upSent[x] < MessageParts(request[x].parts)
      /\ pc[c] \in {"connect", "write", "read_header", "read_body"} => cfd[x] = "open"
  BY DEF IInv, Asking, Busy, Healthy, Written, Opened
<1> HIDE DEF x
\* The client stops, and may close what it held.
<1>4. ASSUME pc'[c] \in {"idle", "dead"}, \A d \in Clients : d # c => pc'[d] = pc[d],
             \A y \in Conns : cfd'[y] = cfd[y] \/ (y[1] = c /\ cfd'[y] = "closed"),
             UNCHANGED <<started, request, upSent, sfd, serverVars, cut>>
      PROVE  Healthy'
  BY <1>4, ClientKeepsHealthy
<1>5. ASSUME Busy(c), GiveUp(c), UNCHANGED <<upVars, sfd, serverVars, cut>>
      PROVE  Healthy'
  <2>1. pc' = [pc EXCEPT ![c] = "idle"] /\ UNCHANGED <<started, request, cfd, upSent>>
    BY <1>5 DEF GiveUp, Returns, upVars
  <2> QED
    BY <1>1, <1>4, <1>5, <2>1
<1>6. ASSUME Dies(c), UNCHANGED <<upVars, sfd, serverVars, cut>>
      PROVE  Healthy'
  <2>1. /\ pc' = [pc EXCEPT ![c] = "dead"] /\ UNCHANGED <<started, request, upSent>>
        /\ cfd' = [y \in Conns |-> IF y[1] = c /\ cfd[y] = "open" THEN "closed" ELSE cfd[y]]
    BY <1>6 DEF Dies, CloseAll, upVars
  <2> QED
    BY <1>1, <1>4, <1>6, <2>1
<1>7. CASE GetClient(c)
  <2>1. /\ Busy(c) /\ pc[c] = "begin"
        /\ cfd' = [cfd EXCEPT ![x] = "open"]
        /\ pc' = [pc EXCEPT ![c] = "connect"]
        /\ UNCHANGED <<started, request, upSent, sfd, serverVars, cut>>
    BY <1>7 DEF GetClient, Busy, upVars, x
  <2>2. /\ \A d \in Clients : d # c => pc'[d] = pc[d]
        /\ pc'[c] = "connect" /\ cfd'[x] = "open"
        /\ \A y \in Conns : y # x => cfd'[y] = cfd[y]
    BY <1>1, <1>2, <2>1
  <2>3. \A y \in Conns : y[1] # c => cfd'[y] = cfd[y]
    BY <1>2, <2>1, <2>2
  <2>4. \A y \in Conns : cfd[y] = "closed" /\ sfd[y] # "none" => cfd'[y] = "closed"
    BY <1>3, <2>1, <2>2
  <2>5. upSent'[x] = 0
    BY <1>3, <2>1
  <2> QED
    BY <2>1, <2>2, <2>3, <2>4, <2>5, ClientKeepsHealthy DEF x
<1>8. CASE Connect(c)
  <2>1. /\ Busy(c) /\ pc[c] = "connect"
        /\ sfd' = [sfd EXCEPT ![x] = "queued"]
        /\ pc' = [pc EXCEPT ![c] = "write"]
        /\ UNCHANGED <<started, request, cfd, upSent, serverVars, cut>>
    BY <1>8 DEF Connect, Busy, upVars, x
  <2>2. /\ \A d \in Clients : d # c => pc'[d] = pc[d]
        /\ pc'[c] = "write" /\ cfd'[x] = "open" /\ upSent'[x] = 0
        /\ \A y \in Conns : sfd'[y] = "closed" => sfd[y] = "closed"
    BY <1>1, <1>2, <1>3, <2>1
  <2>3. request[x].parts \in Nat
    BY <1>2, <2>1 DEF IInv, Asked, Request
  <2>4. upSent'[x] < MessageParts(request[x].parts)
    BY <2>2, <2>3 DEF MessageParts
  <2> QED
    BY <2>1, <2>2, <2>4, ClientKeepsHealthy DEF x
<1>9. CASE WritePart(c)
  <2>1. /\ Busy(c) /\ pc[c] = "write"
        /\ upSent' = [upSent EXCEPT ![x] = @ + 1]
        /\ pc' = IF upSent[x] + 1 = MessageParts(request[x].parts)
                   THEN [pc EXCEPT ![c] = "read_header"] ELSE pc
        /\ UNCHANGED <<started, request, cfd, sfd, serverVars, cut>>
    BY <1>9 DEF WritePart, Busy, x
  <2>2. request[x].parts \in Nat /\ upSent[x] \in Nat /\ upSent[x] < MessageParts(request[x].parts)
    BY <1>1, <1>2, <1>3, <2>1 DEF IInv, Asked, Request
  <2>3. /\ upSent'[x] = upSent[x] + 1
        /\ \A y \in Conns : y # x => upSent'[y] = upSent[y]
    BY <1>1, <1>2, <2>1
  <2>4. /\ upSent'[x] <= MessageParts(request[x].parts)
        /\ pc'[c] = "write" => upSent'[x] < MessageParts(request[x].parts)
    <3>1. pc'[c] = "write" => upSent[x] + 1 # MessageParts(request[x].parts)
      BY <1>1, <2>1
    <3> QED
      BY ONLY <2>2, <2>3, <3>1 DEF MessageParts
  <2>5. /\ \A d \in Clients : d # c => pc'[d] = pc[d]
        /\ pc'[c] \in {"write", "read_header"} /\ cfd'[x] = "open"
    BY <1>1, <1>3, <2>1
  <2>6. \A y \in Conns : y[1] # c => upSent'[y] = upSent[y]
    BY <1>2, <2>1, <2>3
  <2>7. \A y \in Conns : \/ upSent'[y] = upSent[y]
                         \/ y[2] <= started[y[1]] /\ upSent'[y] <= MessageParts(request[y].parts)
    BY <1>2, <2>1, <2>3, <2>4
  <2> QED
    BY <2>1, <2>4, <2>5, <2>6, <2>7, ClientKeepsHealthy DEF x
<1>10. CASE ReadHeader(c)
  <2>1. Busy(c) /\ pc[c] = "read_header" /\ UNCHANGED <<upVars, sfd, serverVars, cut>>
    BY <1>10 DEF ReadHeader, Busy
  <2>2. CASE Arrived(x) > 0
    <3>1. pc' = [pc EXCEPT ![c] = "read_body"] /\ UNCHANGED <<started, request, cfd, upSent>>
      BY <1>10, <2>2 DEF ReadHeader, upVars, x
    <3>2. /\ \A d \in Clients : d # c => pc'[d] = pc[d]
          /\ pc'[c] = "read_body" /\ cfd'[x] = "open"
      BY <1>1, <1>3, <2>1, <3>1
    <3> QED
      BY <2>1, <3>1, <3>2, ClientKeepsHealthy DEF x
  <2>3. CASE ~(Arrived(x) > 0)
    BY <1>5, <1>10, <2>1, <2>3 DEF ReadHeader, x
  <2> QED
    BY <2>2, <2>3
<1>11. CASE ReadBody(c)
  <2>1. /\ Busy(c)
        /\ pc' = [pc EXCEPT ![c] = "idle"] /\ cfd' = [cfd EXCEPT ![x] = "closed"]
        /\ UNCHANGED <<started, request, upSent, sfd, serverVars, cut>>
    BY <1>11 DEF ReadBody, BodyReadable, Busy, Returns, upVars, x
  <2>2. \A y \in Conns : cfd'[y] = cfd[y] \/ (y[1] = c /\ cfd'[y] = "closed")
    BY <1>1, <1>2, <2>1
  <2> QED
    BY <1>1, <1>4, <2>1, <2>2
<1>12. CASE DecodeFails(c)
  <2>1. UNCHANGED <<upVars, sfd, serverVars, cut>>
    BY <1>12 DEF DecodeFails
  <2>2. CASE Dies(c)
    BY <1>6, <2>1, <2>2
  <2>3. CASE ~Dies(c)
    <3>1. pc' = [pc EXCEPT ![c] = "idle"] /\ UNCHANGED <<started, request, cfd, upSent>>
      BY <1>12, <2>3 DEF DecodeFails, Returns, upVars
    <3> QED
      BY <1>1, <1>4, <2>1, <3>1
  <2> QED
    BY <2>2, <2>3
<1>13. CASE NoClient(c) \/ ConnectRefused(c) \/ ReadBodyShort(c) \/ Interrupted(c)
  BY <1>5, <1>13 DEF NoClient, ConnectRefused, ReadBodyShort, BodyReadable, Interrupted, Busy
<1>14. CASE WriteToClosed(c)
  <2>1. Busy(c) /\ UNCHANGED <<upVars, sfd, serverVars, cut>> /\ (Dies(c) \/ GiveUp(c))
    BY <1>14 DEF WriteToClosed, Busy
  <2> QED
    BY <1>5, <1>6, <2>1
<1>15. CASE Crash(c)
  BY <1>6, <1>15 DEF Crash
<1> QED
  BY <1>7, <1>8, <1>9, <1>10, <1>11, <1>12, <1>13, <1>14, <1>15 DEF ClientStep, ClientFault

\* The one read of a body of one part takes it whole, so a request is left
\* unread only if its client is gone.
LEMMA ReadKeepsHealthy ==
  ASSUME IInv, Healthy, ServerReadHeader \/ ServerReadBody
  PROVE  Healthy'
<1>1. cur # None /\ response[cur] = None /\ spc # "dead"
  BY DEF IInv, Serving, ServerReadHeader, ServerReadBody, ServerTakesBody
<1>2. /\ cur \in Conns /\ sfd[cur] = "open" /\ request[cur] \in Request
      /\ \A y \in Conns : sfd[y] = "open" => y = cur
  BY <1>1, InService
<1>3. UNCHANGED <<clientVars, upSent, sfd, cur, response, cut>>
  BY DEF ServerReadHeader, ServerReadBody, ServerTakesBody
<1>4. spc' = "close" => cfd[cur] = "closed" \/ request[cur].type = NoType
  <2>1. CASE ServerReadHeader
    BY <2>1 DEF ServerReadHeader, PeerClosed
  <2>2. CASE ServerReadBody
    <3> SUFFICES ASSUME spc' = "close", cfd[cur] # "closed", request[cur].type # NoType
                 PROVE  FALSE
      OBVIOUS
    <3>1. ~ServerComplete
      BY <2>2 DEF ServerReadBody
    <3>2. request[cur].parts = 1 /\ upSent[cur] <= MessageParts(request[cur].parts)
      <4>1. cur[1] \in Clients /\ cur[2] \in Nat /\ started[cur[1]] \in Nat
        BY <1>2, ConnParts DEF IInv, TypeOK
      <4>2. ~(started[cur[1]] < cur[2])
        BY <1>2 DEF IInv, Unasked
      <4>3. cur[2] <= started[cur[1]]
        BY <4>1, <4>2
      <4> QED
        BY <1>2, <4>3 DEF Healthy, OnePart, Written
    <3>3. upTaken[cur] = 1 /\ upSent[cur] \in Nat
      BY <1>2, <2>2 DEF ServerReadBody, ServerTakesBody, IInv, Serving, TypeOK
    <3>4. ServerArrived > 0
      BY <2>2, <3>2 DEF ServerReadBody, ServerTakesBody, PeerClosed
    <3> QED
      BY <3>1, <3>2, <3>3, <3>4 DEF ServerComplete, ServerArrived, MessageParts
  <2> QED
    BY <2>1, <2>2
<1>5. ASSUME NEW y \in Conns, Left(y)', response'[y] = None
      PROVE  (Left(y) /\ response[y] = None) \/ cfd[y] = "closed" \/ Excused(y)'
  BY <1>2, <1>3, <1>4, <1>5 DEF Left, Excused, clientVars
<1> QED
  BY <1>1, <1>3, <1>5, ServerKeepsHealthy

\* Every step of the server keeps the exchange healthy.
LEMMA ServerStepKeepsHealthy ==
  ASSUME SmallRequests, IInv, Healthy, ServerStep \/ ServerFault
  PROVE  Healthy'
<1>1. sfd \in [Conns -> {"none", "queued", "open", "closed"}]
  BY DEF IInv, TypeOK
<1>2. spc \notin {"accept", "dead"} =>
        /\ cur \in Conns /\ cur # None /\ sfd[cur] = "open"
        /\ \A y \in Conns : sfd[y] = "open" => y = cur
  BY InService DEF IInv, Serving
<1>3. CASE Accept
  <2>1. /\ spc = "accept" /\ spc' = "read_header"
        /\ sfd' = [sfd EXCEPT ![Head(queue)] = "open"]
        /\ UNCHANGED <<clientVars, upSent, response, cut>>
    BY <1>3 DEF Accept, upVars
  <2>2. \A y \in Conns : sfd'[y] = "closed" => sfd[y] = "closed"
    BY <1>1, <2>1
  <2>3. \A y \in Conns : Left(y)' => Left(y)
    BY <2>1, <2>2 DEF Left
  <2> QED
    BY <2>1, <2>3, ServerKeepsHealthy
<1>4. CASE ServerReadHeader \/ ServerReadBody
  BY <1>4, ReadKeepsHealthy
<1>5. CASE InvalidPacket
  <2>1. /\ spc = "dispatch" /\ srequest.type = NoType
        /\ UNCHANGED <<clientVars, upSent, sfd, cur, response, cut>>
    BY <1>5 DEF InvalidPacket, upVars
  <2>2. request[cur].type = NoType
    BY <2>1 DEF IInv, Serving
  <2>3. \A y \in Conns : Left(y)' => Left(y) \/ Excused(y)'
    BY <2>1, <2>2 DEF Left, Excused, clientVars
  <2> QED
    BY <2>1, <2>3, ServerKeepsHealthy
<1>6. CASE Dispatch \/ DispatchUntagged
  <2>1. spc = "dispatch" /\ spc' = "write" /\ UNCHANGED <<clientVars, upSent, sfd, cur, cut>>
    BY <1>6 DEF Dispatch, DispatchUntagged, upVars
  <2>2. \A y \in Conns : Left(y)' => sfd[y] = "closed"
    BY <2>1 DEF Left
  <2>3. \A y \in Conns : y # cur => response'[y] = response[y]
    <3>1. response \in [Conns -> Response \cup {None}]
      BY DEF IInv, TypeOK
    <3>2. PICK r \in Response : response' = [response EXCEPT ![cur] = r]
      BY <1>6, Responds
    <3> QED
      BY <3>1, <3>2
  <2>4. \A y \in Conns : Left(y)' => Left(y) /\ response'[y] = response[y]
    BY <1>2, <2>1, <2>2, <2>3 DEF Left
  <2> QED
    BY <2>1, <2>4, ServerKeepsHealthy
<1>7. CASE ServerWritePart
  <2>1. spc = "write" /\ UNCHANGED <<clientVars, upSent, sfd, cur, response, cut>>
    BY <1>7 DEF ServerWritePart, upVars
  <2>2. response[cur] # None
    BY <2>1 DEF IInv, Serving
  <2>3. \A y \in Conns : Left(y)' => Left(y) \/ y = cur
    BY <2>1 DEF Left
  <2> QED
    BY <2>1, <2>2, <2>3, ServerKeepsHealthy
<1>8. CASE ServerWriteToClosed
  <2>1. spc = "write" /\ UNCHANGED <<clientVars, upSent, response, cut>> /\ cfd[cur] = "closed"
    BY <1>8 DEF ServerWriteToClosed, upVars, PeerClosed
  <2>2. CASE spc' = "dead"
    BY <2>1, <2>2, ServerKeepsHealthy
  <2>3. CASE spc' # "dead"
    <3>1. UNCHANGED <<sfd, cur>>
      BY <1>8, <2>3 DEF ServerWriteToClosed, ServerDies
    <3>2. \A y \in Conns : Left(y)' => Left(y) \/ y = cur
      BY <3>1 DEF Left
    <3> QED
      BY <2>1, <3>2, ServerKeepsHealthy
  <2> QED
    BY <2>2, <2>3
<1>9. CASE CloseClient
  <2>1. /\ spc = "close" /\ spc' = "accept"
        /\ sfd' = [sfd EXCEPT ![cur] = "closed"]
        /\ UNCHANGED <<clientVars, upSent, response, cut>>
    BY <1>9 DEF CloseClient, CloseCurrent, upVars
  <2>2. \A y \in Conns : Left(y)' => Left(y)
    BY <1>1, <2>1 DEF Left
  <2> QED
    BY <2>1, <2>2, ServerKeepsHealthy
\* A turn that was cut short is excused, one that was not has its response.
<1>10. CASE ServerInterrupted
  <2>1. /\ spc \in {"read_header", "read_body", "write"} /\ cut' = cut \cup {cur}
        /\ UNCHANGED <<clientVars, upSent, sfd, cur, response>>
    BY <1>10 DEF ServerInterrupted, upVars
  <2>2. \A y \in Conns : Left(y)' => Left(y) \/ Excused(y)'
    BY <2>1 DEF Left, Excused
  <2> QED
    BY <2>1, <2>2, ServerKeepsHealthy
\* A request is refused for its empty entry or for want of memory.
<1>11. CASE RequestRefused
  <2>1. /\ spc = "read_body" /\ UNCHANGED <<clientVars, upSent, response>>
        /\ cut' = IF request[cur].empty THEN cut ELSE cut \cup {cur}
    BY <1>11 DEF RequestRefused, ServerTakesBody
  <2>2. CASE spc' = "dead"
    BY <2>1, <2>2, ServerKeepsHealthy
  <2>3. CASE spc' # "dead"
    <3>1. UNCHANGED <<sfd, cur>>
      BY <1>11, <2>3 DEF RequestRefused, ServerDies
    <3>2. \A y \in Conns : Left(y)' => Left(y) \/ Excused(y)'
      BY <2>1, <3>1 DEF Left, Excused, clientVars
    <3> QED
      BY <2>1, <3>2, ServerKeepsHealthy
  <2> QED
    BY <2>2, <2>3
<1> QED
  BY <1>3, <1>4, <1>5, <1>6, <1>7, <1>8, <1>9, <1>10, <1>11 DEF ServerStep, ServerFault

\* If the body of every request arrives in one read, a running server closes no
\* connection on a client that waits for its answer, unless the request is an
\* empty packet, does not decode, or a signal or a lack of memory ends its turn:
\* whatever the number of clients, the faults of others and the order of what
\* happens.  Without the hypothesis this is false (server/unsock.c:112 reads a
\* body once).
THEOREM SmallRequestsAnswered ==
  ASSUME SmallRequests
  PROVE  Spec => []GoodRequestsAnswered
<1>1. Init => Healthy
  <2> SUFFICES ASSUME Init PROVE Healthy
    OBVIOUS
  <2>1. ASSUME NEW y \in Conns PROVE ~(y[2] <= started[y[1]])
    <3>1. y[1] \in Clients /\ y[2] \in Nat /\ y[2] # 0
      BY ConnParts
    <3> QED
      BY <3>1 DEF Init
  <2> QED
    BY <2>1 DEF Init, Healthy, Opened, Written, OnePart, LeftForAReason, Left
<1>2. IInv /\ Healthy /\ [Next]_vars => Healthy'
  <2> SUFFICES ASSUME IInv, Healthy, [Next]_vars PROVE Healthy'
    OBVIOUS
  <2>1. ASSUME NEW c \in Clients, Begin(c) PROVE Healthy'
    BY <2>1, BeginKeepsHealthy
  <2>2. ASSUME NEW c \in Clients, ClientStep(c) \/ ClientFault(c) PROVE Healthy'
    BY <2>2, ClientStepKeepsHealthy
  <2>3. CASE ServerStep \/ ServerFault
    BY <2>3, ServerStepKeepsHealthy
  <2>4. CASE UNCHANGED vars
    <3>1. UNCHANGED <<clientVars, upSent, sfd, spc, cur, response, cut>>
      BY <2>4 DEF vars, upVars, serverVars
    <3>2. \A y \in Conns : Left(y)' => Left(y)
      BY <3>1 DEF Left
    <3> QED
      BY <3>1, <3>2, ServerKeepsHealthy
  <2> QED
    BY <2>1, <2>2, <2>3, <2>4 DEF Next
<1>3. IInv /\ Healthy => GoodRequestsAnswered
  <2> SUFFICES ASSUME IInv, Healthy, NEW c \in Clients, pc[c] \in {"write", "read_header"},
                      sfd[Conn(c)] = "closed", spc # "dead"
               PROVE  response[Conn(c)] # None \/ Excused(Conn(c))
    BY DEF GoodRequestsAnswered
  <2>1. Conn(c) \in Conns /\ cfd[Conn(c)] = "open" /\ Left(Conn(c))
    BY OwnConn DEF Busy, Healthy, Opened, Left
  <2> QED
    BY <2>1 DEF Healthy, LeftForAReason
<1> QED
  BY <1>1, <1>2, <1>3, Invariance, PTL DEF Spec
===============================================================================
