------------------------------ MODULE NssProofs ------------------------------
(***************************************************************************)
(* What holds of the name service switch module for any number of threads  *)
(* in calls at once, any buffers, any fields and any range of entry_count: *)
(* populate stays in the caller's buffer, unpacks all that the handler set *)
(* when the query succeeded, and enumerations are exact.                   *)
(***************************************************************************)
EXTENDS Nss, NumberProofs, SequenceTheorems, TLAPS

\* What a thread's locals are where it is in its call.
Locals(t) ==
    /\ pc[t] \in {"idle", "query"} => members[t] = <<>> /\ cursor[t] = 0 /\ regions[t] = <<>>
    /\ pc[t] = "idle" => request[t] = NULL
    /\ pc[t] = "populate" => request[t] # NULL
    /\ members[t] # <<>> => todo[t] # <<>>

\* A thread that enumerates has an offset, and asks for that position.
Asking(t) ==
    pc[t] \in {"query", "populate"} /\ call[t].kind = "entities" =>
        /\ offset[t][call[t].db] # NULL /\ offset[t][call[t].db] < MaxOffset
        /\ request[t] # NULL => request[t].value = offset[t][call[t].db]

\* What is written lies before the cursor.
BehindCursor(t) ==
    \A k \in DOMAIN regions[t] : regions[t][k].first + regions[t][k].size <= cursor[t]

CallInv == \A t \in Threads : Locals(t) /\ Asking(t) /\ BehindCursor(t)

IInv == TypeOK /\ CallInv /\ RegionsInBuffer /\ EnumerationExact

-----------------------------------------------------------------------------
(* Enumerations *)

\* The positions before offset o were delivered, as d, or refused, as r.
Exact(d, r, o) ==
    /\ \A k \in 2 .. Len(d) : d[k - 1] < d[k]
    /\ {d[k] : k \in DOMAIN d} \cap r = {}
    /\ {d[k] : k \in DOMAIN d} \cup r = IF o = NULL THEN {} ELSE 0 .. o - 1

\* EnumerationExact says Exact of every thread and database.
LEMMA ExactEverywhere ==
  EnumerationExact <=> \A t \in Threads, db \in Databases :
                         Exact(delivered[t][db], refused[t][db], offset[t][db])
  BY DEF EnumerationExact, Exact

\* An enumeration that starts has passed nothing.
LEMMA ExactAtStart == Exact(<<>>, {}, NULL) /\ Exact(<<>>, {}, 0)
<1>1. {<<>>[k] : k \in DOMAIN <<>>} = {} /\ Len(<<>>) = 0
  OBVIOUS
<1>2. 0 .. 0 - 1 = {} /\ 2 .. 0 = {}
  OBVIOUS
<1>. QED  BY <1>1, <1>2, NullAssumption DEF Exact

\* The position at the offset comes after all that were delivered.
LEMMA ExactAdvances ==
  ASSUME NEW d \in Seq(Nat), NEW r \in SUBSET Nat, NEW o \in Nat, Exact(d, r, o)
  PROVE  Exact(Append(d, o), r, o + 1) /\ Exact(d, r \cup {o}, o + 1)
<1>1. o # NULL /\ o + 1 # NULL
  BY NullAssumption
<1>2. {d[k] : k \in DOMAIN d} \cup r = 0 .. o - 1
  BY <1>1 DEF Exact
<1>3. 0 .. (o + 1) - 1 = 0 .. o - 1 \cup {o} /\ o \notin 0 .. o - 1
  OBVIOUS
<1>4. \A k \in DOMAIN d : d[k] \in Nat /\ d[k] < o
  BY <1>2
<1>. DEFINE e == Append(d, o)
<1>5. /\ Len(e) = Len(d) + 1 /\ e[Len(d) + 1] = o
      /\ \A k \in 1 .. Len(d) : e[k] = d[k]
      /\ DOMAIN e = 1 .. Len(d) + 1 /\ DOMAIN d = 1 .. Len(d) /\ Len(d) \in Nat
  OBVIOUS
<1>. HIDE DEF e
<1>6. {e[k] : k \in DOMAIN e} = {d[k] : k \in DOMAIN d} \cup {o}
  BY <1>5
<1>7. ASSUME NEW k \in 2 .. Len(e) PROVE e[k - 1] < e[k]
  <2>1. CASE k = Len(d) + 1
    <3>1. k - 1 = Len(d) /\ k - 1 \in 1 .. Len(d)
      BY <2>1, <1>5
    <3>2. k - 1 \in DOMAIN d /\ e[k - 1] = d[k - 1]
      BY <3>1, <1>5
    <3>. QED  BY <2>1, <3>2, <1>4, <1>5
  <2>2. CASE k # Len(d) + 1
    <3>1. k \in 2 .. Len(d) /\ k - 1 \in 1 .. Len(d) /\ k \in 1 .. Len(d)
      BY <2>2, <1>5
    <3>. QED  BY <3>1, <1>5 DEF Exact
  <2>. QED  BY <2>1, <2>2
<1>8. o \notin r /\ o \notin {d[k] : k \in DOMAIN d}
  BY <1>2, <1>3
<1>9. {d[k] : k \in DOMAIN d} \cap r = {} /\ \A k \in 2 .. Len(d) : d[k - 1] < d[k]
  BY DEF Exact
<1>10. Exact(e, r, o + 1)
  <2>1. {e[k] : k \in DOMAIN e} \cap r = {}
    BY <1>6, <1>8, <1>9
  <2>2. {e[k] : k \in DOMAIN e} \cup r = 0 .. (o + 1) - 1
    BY <1>6, <1>2, <1>3
  <2>. QED  BY <2>1, <2>2, <1>7, <1>1 DEF Exact
<1>11. Exact(d, r \cup {o}, o + 1)
  <2>1. {d[k] : k \in DOMAIN d} \cap (r \cup {o}) = {}
    BY <1>8, <1>9
  <2>2. {d[k] : k \in DOMAIN d} \cup (r \cup {o}) = 0 .. (o + 1) - 1
    BY <1>2, <1>3
  <2>. QED  BY <2>1, <2>2, <1>9, <1>1 DEF Exact
<1>. QED  BY <1>10, <1>11 DEF e

-----------------------------------------------------------------------------
(* Steps *)

\* What every step of thread t keeps of the others.
OthersKeep(t) ==
    \A u \in Threads \ {t} :
        /\ pc'[u] = pc[u] /\ call'[u] = call[u] /\ request'[u] = request[u]
        /\ todo'[u] = todo[u] /\ members'[u] = members[u] /\ cursor'[u] = cursor[u]
        /\ regions'[u] = regions[u] /\ offset'[u] = offset[u]

\* For a step of t that writes nothing to the buffer, types, enumerations and
\* what concerns t are left to show.
LEMMA ThreadStep ==
  ASSUME IInv, NEW t \in Threads, OthersKeep(t), TypeOK', EnumerationExact',
         Locals(t)', Asking(t)',
         \/ regions'[t] = <<>>
         \/ regions'[t] = regions[t] /\ call'[t] = call[t] /\ cursor'[t] = cursor[t]
  PROVE  IInv'
<1>1. CallInv'
  <2>. SUFFICES ASSUME NEW u \in Threads PROVE (Locals(u) /\ Asking(u) /\ BehindCursor(u))'
    BY DEF CallInv
  <2>1. Locals(u) /\ Asking(u) /\ BehindCursor(u)
    BY DEF IInv, CallInv
  <2>2. CASE u = t
    BY <2>1, <2>2 DEF BehindCursor
  <2>3. CASE u # t
    BY <2>1, <2>3 DEF Locals, Asking, BehindCursor, OthersKeep
  <2>. QED  BY <2>2, <2>3
<1>2. RegionsInBuffer'
  <2>. SUFFICES ASSUME NEW u \in Threads, NEW k \in DOMAIN regions'[u]
                PROVE  /\ regions'[u][k].first + regions'[u][k].size <= call'[u].size
                       /\ \A l \in 1 .. k - 1 :
                            regions'[u][l].first + regions'[u][l].size <= regions'[u][k].first
    BY DEF RegionsInBuffer
  <2>1. regions'[u] = regions[u] /\ call'[u] = call[u]
    BY DEF OthersKeep
  <2>. QED  BY <2>1 DEF IInv, RegionsInBuffer
<1>. QED  BY <1>1, <1>2 DEF IInv

\* For a step that writes: the string, array or member goes behind
\* what is written, and ends inside the buffer.
LEMMA WriteStep ==
  ASSUME IInv, NEW t \in Threads, NEW type, NEW slot \in Nat, NEW length \in Nat,
         Write(t, type, slot, length),
         type \in {"NAME", "DIR", "SHELL", "GECOS", "MEMBERS", "MEMBER"},
         UNCHANGED <<enumeration, call, request, pc, response, answer, result>>,
         pc[t] = "populate",
         \A u \in Threads \ {t} : todo'[u] = todo[u] /\ members'[u] = members[u],
         members'[t] # <<>> => todo'[t] # <<>>,
         todo' \in [Threads -> Seq(Field)], members' \in [Threads -> Seq(Nat \ {0})],
         given' \in [Threads -> SUBSET (Numbers("passwd") \cup {"NAME", "DIR", "SHELL",
                                                   "GECOS", "MEMBERS", "LOCAL"})]
  PROVE  IInv'
<1>. DEFINE new == [type |-> type, slot |-> slot, first |-> cursor[t], size |-> length]
<1>1. TypeOK
  BY DEF IInv
<1>2. cursor[t] \in Nat /\ regions[t] \in Seq(Region) /\ new \in Region
  BY <1>1 DEF TypeOK, Region
<1>3. /\ cursor' = [cursor EXCEPT ![t] = cursor[t] + length]
      /\ regions' = [regions EXCEPT ![t] = Append(regions[t], new)]
      /\ cursor[t] + length <= call[t].size
  BY DEF Write, Fits, NextCursor
<1>4. cursor' \in [Threads -> Nat] /\ regions' \in [Threads -> Seq(Region)]
  <2>1. Append(regions[t], new) \in Seq(Region)
    BY <1>2
  <2>. QED  BY <1>1, <1>2, <1>3, <2>1 DEF TypeOK
<1>5. TypeOK'
  BY <1>1, <1>4 DEF TypeOK, enumeration
<1>6. /\ regions'[t] = Append(regions[t], new) /\ cursor'[t] = cursor[t] + length
      /\ \A u \in Threads \ {t} : regions'[u] = regions[u] /\ cursor'[u] = cursor[u]
  BY <1>1, <1>3 DEF TypeOK
<1>7. /\ DOMAIN regions'[t] = 1 .. Len(regions[t]) + 1
      /\ DOMAIN regions[t] = 1 .. Len(regions[t]) /\ Len(regions[t]) \in Nat
      /\ regions'[t][Len(regions[t]) + 1] = new
      /\ \A k \in DOMAIN regions[t] : regions'[t][k] = regions[t][k] /\ regions[t][k] \in Region
  BY <1>2, <1>6
<1>8. BehindCursor(t)
  BY DEF IInv, CallInv
<1>9. CallInv'
  <2>. SUFFICES ASSUME NEW u \in Threads PROVE (Locals(u) /\ Asking(u) /\ BehindCursor(u))'
    BY DEF CallInv
  <2>1. Locals(u) /\ Asking(u) /\ BehindCursor(u)
    BY DEF IInv, CallInv
  <2>2. CASE u = t
    <3>1. BehindCursor(t)'
      <4>. SUFFICES ASSUME NEW k \in DOMAIN regions'[t]
                    PROVE  regions'[t][k].first + regions'[t][k].size <= cursor'[t]
        BY DEF BehindCursor
      <4>1. CASE k \in DOMAIN regions[t]
        <5>1. regions'[t][k] = regions[t][k] /\ regions[t][k] \in Region
          BY <4>1, <1>7
        <5>2. regions[t][k].first \in Nat /\ regions[t][k].size \in Nat
          BY <5>1 DEF Region
        <5>3. regions[t][k].first + regions[t][k].size <= cursor[t]
          BY <4>1, <1>8 DEF BehindCursor
        <5>4. regions[t][k].first + regions[t][k].size <= cursor[t] + length
          <6>1. \A a, b, c, d \in Nat : a + b <= c => a + b <= c + d
            OBVIOUS
          <6>2. length \in Nat /\ cursor[t] \in Nat
            BY <1>2
          <6>. QED  BY <5>2, <5>3, <6>1, <6>2
        <5>. QED  BY <5>1, <5>4, <1>6
      <4>2. CASE k = Len(regions[t]) + 1
        BY <4>2, <1>2, <1>6, <1>7
      <4>. QED  BY <4>1, <4>2, <1>7
    <3>. QED  BY <2>1, <2>2, <3>1 DEF Locals, Asking, enumeration
  <2>3. CASE u # t
    BY <2>1, <2>3, <1>6 DEF Locals, Asking, BehindCursor, enumeration
  <2>. QED  BY <2>2, <2>3
<1>10. RegionsInBuffer'
  <2>. SUFFICES ASSUME NEW u \in Threads, NEW k \in DOMAIN regions'[u]
                PROVE  /\ regions'[u][k].first + regions'[u][k].size <= call'[u].size
                       /\ \A l \in 1 .. k - 1 :
                            regions'[u][l].first + regions'[u][l].size <= regions'[u][k].first
    BY DEF RegionsInBuffer
  <2>1. RegionsInBuffer
    BY DEF IInv
  <2>2. CASE u = t /\ k = Len(regions[t]) + 1
    <3>1. regions'[t][k].first = cursor[t] /\ regions'[t][k].size = length
      BY <2>2, <1>7
    <3>2. ASSUME NEW l \in 1 .. k - 1
          PROVE  regions'[t][l] = regions[t][l] /\ l \in DOMAIN regions[t]
      <4>1. l \in 1 .. Len(regions[t])
        BY <2>2, <1>7
      <4>. QED  BY <4>1, <1>7
    <3>. QED  BY <2>2, <3>1, <3>2, <1>3, <1>8 DEF BehindCursor
  <2>3. CASE u = t /\ k \in DOMAIN regions[t]
    <3>1. ASSUME NEW l \in 1 .. k - 1
          PROVE  regions'[t][l] = regions[t][l] /\ l \in DOMAIN regions[t]
      <4>1. l \in 1 .. Len(regions[t])
        BY <2>3, <1>7
      <4>. QED  BY <4>1, <1>7
    <3>. QED  BY <2>1, <2>3, <3>1, <1>7 DEF RegionsInBuffer
  <2>4. CASE u # t
    BY <2>1, <2>4, <1>6 DEF RegionsInBuffer
  <2>5. u = t => k \in DOMAIN regions[t] \/ k = Len(regions[t]) + 1
    BY <1>7
  <2>. QED  BY <2>2, <2>3, <2>4, <2>5
<1>11. EnumerationExact'
  <2>1. EnumerationExact /\ offset' = offset /\ delivered' = delivered /\ refused' = refused
    BY DEF IInv, enumeration
  <2>2. \A u \in Threads, db \in Databases : Exact(delivered'[u][db], refused'[u][db], offset'[u][db])
    BY <2>1, ExactEverywhere
  <2>. QED  BY ONLY <2>2 DEF EnumerationExact, Exact
<1>. QED  BY <1>5, <1>9, <1>10, <1>11 DEF IInv

\* setpwent and endpwent leave nothing passed, with or without an offset.
LEMMA SetEntStep ==
  ASSUME IInv, NEW t \in Threads, NEW db \in Databases, SetEnt(t, db) \/ EndEnt(t, db)
  PROVE  IInv'
<1>1. PICK value \in {0, NULL} : SetOffset(t, db, value)
  BY DEF SetEnt, EndEnt
<1>2. /\ pc[t] = "idle" /\ Restart(t, db)
      /\ UNCHANGED <<pc, query, populate, result>>
  BY DEF SetEnt, EndEnt
<1>3. TypeOK /\ Locals(t)
  BY DEF IInv, CallInv
<1>4. offset' = [offset EXCEPT ![t][db] = value]
  BY <1>1, <1>3 DEF SetOffset, Owners, TypeOK
<1>5. 0 \in 0 .. MaxOffset
  BY MaxOffsetAssumption
<1>6. /\ offset' \in [Threads -> [Databases -> 0 .. MaxOffset \cup {NULL}]]
      /\ delivered' \in [Threads -> [Databases -> Seq(0 .. MaxOffset)]]
      /\ refused' \in [Threads -> [Databases -> SUBSET (0 .. MaxOffset)]]
  BY <1>1, <1>2, <1>3, <1>4, <1>5 DEF Restart, TypeOK
<1>7. TypeOK'
  BY <1>2, <1>3, <1>6 DEF TypeOK, query, populate
<1>8. EnumerationExact'
  <2>1. ASSUME NEW u \in Threads, NEW e \in Databases
        PROVE  Exact(delivered'[u][e], refused'[u][e], offset'[u][e])
    <3>1. CASE u = t /\ e = db
      <4>1. delivered'[u][e] = <<>> /\ refused'[u][e] = {} /\ offset'[u][e] = value
        BY <3>1, <1>2, <1>3, <1>4 DEF Restart, TypeOK
      <4>. QED  BY <4>1, <1>1, ExactAtStart
    <3>2. CASE u # t \/ e # db
      <4>1. /\ delivered'[u][e] = delivered[u][e] /\ refused'[u][e] = refused[u][e]
            /\ offset'[u][e] = offset[u][e]
        BY <3>2, <1>2, <1>3, <1>4 DEF Restart, TypeOK
      <4>. QED  BY <4>1, ExactEverywhere DEF IInv
    <3>. QED  BY <3>1, <3>2
  <2>. QED  BY <2>1 DEF EnumerationExact, Exact
<1>9. OthersKeep(t)
  BY <1>2, <1>3, <1>4 DEF OthersKeep, query, populate, TypeOK
<1>10. Locals(t)' /\ Asking(t)' /\ regions'[t] = regions[t] /\ call'[t] = call[t]
       /\ cursor'[t] = cursor[t]
  BY <1>2, <1>3 DEF Locals, Asking, query, populate
<1>. QED  BY <1>7, <1>8, <1>9, <1>10, ThreadStep

\* A call without memory for the offset returns at once.
LEMMA NoOffsetStep ==
  ASSUME IInv, NEW t \in Threads, NEW db \in Databases, NoOffset(t, db)
  PROVE  IInv'
<1>1. /\ pc[t] = "idle" /\ pc' = [pc EXCEPT ![t] = "return"]
      /\ result' = [result EXCEPT ![t] = [status |-> "UNAVAIL", errno |-> "none"]]
      /\ UNCHANGED <<enumeration, query, populate>>
  BY DEF NoOffset, Idle
<1>2. TypeOK /\ Locals(t) /\ EnumerationExact
  BY DEF IInv, CallInv
<1>3. TypeOK'
  BY <1>1, <1>2 DEF TypeOK, Results, enumeration, query, populate
<1>4. OthersKeep(t)
  BY <1>1, <1>2 DEF OthersKeep, enumeration, query, populate, TypeOK
<1>5. pc'[t] = "return"
  BY <1>1, <1>2 DEF TypeOK
<1>6. Locals(t)' /\ Asking(t)' /\ regions'[t] = <<>>
  BY <1>1, <1>2, <1>5 DEF Locals, Asking, query, populate
<1>7. EnumerationExact'
  BY <1>1, <1>2 DEF EnumerationExact, enumeration
<1>. QED  BY <1>3, <1>4, <1>6, <1>7, ThreadStep

\* The request of a call, with its field or without, touches no other's.
LEMMA AskedRequest ==
  ASSUME TypeOK, NEW t \in Threads, request[t] = NULL,
         NEW field \in [type : {"KEY", "ENTITIES"}, value : 0 .. MaxOffset],
         request' \in {[request EXCEPT ![t] = field], request}
  PROVE  /\ request' \in [Threads -> [type : {"KEY", "ENTITIES"}, value : 0 .. MaxOffset]
                                    \cup {NULL}]
         /\ request'[t] \in {field, NULL}
         /\ \A u \in Threads \ {t} : request'[u] = request[u]
<1>1. CASE request' = [request EXCEPT ![t] = field]
  BY <1>1 DEF TypeOK
<1>2. CASE request' = request
  BY <1>2 DEF TypeOK
<1>. QED  BY <1>1, <1>2

\* A lookup touches no enumeration.
LEMMA LookupStep ==
  ASSUME IInv, NEW t \in Threads, NEW db \in Databases, NEW size \in BufferSizes,
         Lookup(t, db, size)
  PROVE  IInv'
<1>. DEFINE key == [type |-> "KEY", value |-> 0]
<1>1. /\ pc[t] = "idle" /\ pc' = [pc EXCEPT ![t] = "query"]
      /\ call' = [call EXCEPT ![t] = [kind |-> "lookup", db |-> db, size |-> size]]
      /\ request' \in {[request EXCEPT ![t] = key], request}
      /\ UNCHANGED <<enumeration, response, answer, populate, result>>
  BY DEF Lookup, Ask, Idle
<1>2. TypeOK /\ Locals(t) /\ EnumerationExact
  BY DEF IInv, CallInv
<1>3. /\ call'[t].kind = "lookup" /\ pc'[t] = "query"
      /\ call' \in [Threads -> [kind : {"none", "lookup", "entities"}, db : Databases,
                                size : BufferSizes \cup {0}]]
  BY <1>1, <1>2 DEF TypeOK
<1>4. request' \in [Threads -> [type : {"KEY", "ENTITIES"}, value : 0 .. MaxOffset] \cup {NULL}]
  <2>1. key \in [type : {"KEY", "ENTITIES"}, value : 0 .. MaxOffset]
    BY MaxOffsetAssumption
  <2>2. request[t] = NULL
    BY <1>1, <1>2 DEF Locals
  <2>. QED  BY <1>1, <1>2, <2>1, <2>2, AskedRequest
<1>5. TypeOK'
  BY <1>1, <1>2, <1>3, <1>4 DEF TypeOK, enumeration, populate
<1>6. OthersKeep(t)
  BY <1>1, <1>2 DEF OthersKeep, enumeration, populate, TypeOK
<1>7. Locals(t)' /\ Asking(t)' /\ regions'[t] = <<>>
  BY <1>1, <1>2, <1>3 DEF Locals, Asking, populate
<1>8. EnumerationExact'
  BY <1>1, <1>2 DEF EnumerationExact, enumeration
<1>. QED  BY <1>5, <1>6, <1>7, <1>8, ThreadStep

\* getpwent_r asks for the position at the offset, the first if there is none.
LEMMA GetEntStep ==
  ASSUME IInv, NEW t \in Threads, NEW db \in Databases, NEW size \in BufferSizes,
         GetEnt(t, db, size)
  PROVE  IInv'
<1>. DEFINE start == IF offset[t][db] = NULL THEN 0 ELSE offset[t][db]
            field == [type |-> "ENTITIES", value |-> start]
<1>1. /\ pc[t] = "idle" /\ pc' = [pc EXCEPT ![t] = "query"]
      /\ call' = [call EXCEPT ![t] = [kind |-> "entities", db |-> db, size |-> size]]
      /\ request' \in {[request EXCEPT ![t] = field], request}
      /\ start < MaxOffset /\ SetOffset(t, db, start)
      /\ IF offset[t][db] = NULL THEN Restart(t, db) ELSE UNCHANGED <<delivered, refused>>
      /\ UNCHANGED <<response, answer, populate, result>>
  BY DEF GetEnt, Ask, Idle
<1>2. TypeOK /\ Locals(t) /\ EnumerationExact
  BY DEF IInv, CallInv
<1>3. start \in 0 .. MaxOffset /\ start # NULL
  BY <1>2, MaxOffsetAssumption, NullAssumption DEF TypeOK
<1>. HIDE DEF start
<1>4. offset' = [offset EXCEPT ![t][db] = start]
  BY <1>1, <1>2 DEF SetOffset, Owners, TypeOK
<1>5. /\ call'[t].kind = "entities" /\ call'[t].db = db /\ pc'[t] = "query"
      /\ call' \in [Threads -> [kind : {"none", "lookup", "entities"}, db : Databases,
                                size : BufferSizes \cup {0}]]
  BY <1>1, <1>2 DEF TypeOK
<1>6. /\ request' \in [Threads -> [type : {"KEY", "ENTITIES"}, value : 0 .. MaxOffset]
                                   \cup {NULL}]
      /\ request'[t] \in {field, NULL} /\ \A u \in Threads \ {t} : request'[u] = request[u]
  <2>1. field \in [type : {"KEY", "ENTITIES"}, value : 0 .. MaxOffset]
    BY <1>3
  <2>2. request[t] = NULL
    BY <1>1, <1>2 DEF Locals
  <2>. QED  BY <1>1, <1>2, <2>1, <2>2, AskedRequest
<1>7. offset' \in [Threads -> [Databases -> 0 .. MaxOffset \cup {NULL}]] /\ offset'[t][db] = start
  BY <1>2, <1>3, <1>4 DEF TypeOK
<1>8. /\ delivered' \in [Threads -> [Databases -> Seq(0 .. MaxOffset)]]
      /\ refused' \in [Threads -> [Databases -> SUBSET (0 .. MaxOffset)]]
  <2>1. CASE offset[t][db] = NULL
    <3>1. /\ delivered' = [delivered EXCEPT ![t][db] = <<>>]
          /\ refused' = [refused EXCEPT ![t][db] = {}]
      BY <2>1, <1>1 DEF Restart
    <3>. QED  BY <3>1, <1>2 DEF TypeOK
  <2>2. CASE offset[t][db] # NULL
    BY <2>2, <1>1, <1>2 DEF TypeOK
  <2>. QED  BY <2>1, <2>2
<1>9. TypeOK'
  BY <1>1, <1>2, <1>5, <1>6, <1>7, <1>8 DEF TypeOK, populate
<1>10. OthersKeep(t)
  BY <1>1, <1>2, <1>4, <1>6 DEF OthersKeep, populate, TypeOK
<1>11. Locals(t)' /\ regions'[t] = <<>>
  BY <1>1, <1>2, <1>5 DEF Locals, populate
<1>12. Asking(t)'
  BY <1>1, <1>3, <1>5, <1>6, <1>7 DEF Asking
<1>13. EnumerationExact'
  <2>1. ASSUME NEW u \in Threads, NEW e \in Databases
        PROVE  Exact(delivered'[u][e], refused'[u][e], offset'[u][e])
    <3>1. CASE u = t /\ e = db /\ offset[t][db] = NULL
      <4>1. delivered'[u][e] = <<>> /\ refused'[u][e] = {} /\ offset'[u][e] = 0
        BY <3>1, <1>1, <1>2, <1>7 DEF Restart, TypeOK, start
      <4>. QED  BY <4>1, ExactAtStart
    <3>2. CASE u # t \/ e # db \/ offset[t][db] # NULL
      <4>1. /\ delivered'[u][e] = delivered[u][e] /\ refused'[u][e] = refused[u][e]
            /\ offset'[u][e] = offset[u][e]
        BY <3>2, <1>1, <1>2, <1>4, SMTT(30) DEF Restart, TypeOK, start
      <4>. QED  BY <4>1, ExactEverywhere, <1>2
    <3>. QED  BY <3>1, <3>2
  <2>. QED  BY <2>1 DEF EnumerationExact, Exact
<1>. QED  BY <1>9, <1>10, <1>11, <1>12, <1>13, ThreadStep
-----------------------------------------------------------------------------
(* The handler and the answer *)

\* A step that only adds to the response.
LEMMA ResponseStep ==
  ASSUME IInv, NEW t \in Threads, response' \in [Threads -> Seq(Field)],
         UNCHANGED <<enumeration, pc, call, request, answer, populate, result>>
  PROVE  IInv'
<1>1. TypeOK'
  BY DEF IInv, TypeOK, enumeration, populate
<1>2. OthersKeep(t)
  BY DEF OthersKeep, enumeration, populate
<1>3. Locals(t)' /\ Asking(t)' /\ regions'[t] = regions[t] /\ call'[t] = call[t]
      /\ cursor'[t] = cursor[t]
  BY DEF IInv, CallInv, Locals, Asking, enumeration, populate
<1>4. EnumerationExact'
  BY DEF IInv, EnumerationExact, enumeration
<1>. QED  BY <1>1, <1>2, <1>3, <1>4, ThreadStep

\* An accessor appends a field.
LEMMA SetFieldStep ==
  ASSUME IInv, NEW t \in Threads, NEW type \in Sent, NEW size \in Sizes \cup {1, 4},
         SetField(t, type, size)
  PROVE  IInv'
<1>. DEFINE new == [type |-> type, sizes |-> <<size>>]
<1>1. type \in {"NAME", "UID", "GID", "DIR", "SHELL", "GECOS", "MEMBERS", "LOCAL"}
  BY DEF SetField, Handling, Types
<1>2. <<size>> \in Seq(Nat \ {0})
  BY SizesAssumption
<1>3. new \in Field
  BY <1>1, <1>2 DEF Field
<1>4. response[t] \in Seq(Field) /\ response \in [Threads -> Seq(Field)]
  BY DEF IInv, TypeOK
<1>5. response' = [response EXCEPT ![t] = Append(response[t], new)]
  BY DEF SetField
<1>6. response' \in [Threads -> Seq(Field)]
  BY <1>3, <1>4, <1>5
<1>. QED  BY <1>6, ResponseStep DEF SetField

\* member_add adds an entry to a field, or the field.
LEMMA AddEntryStep ==
  ASSUME IInv, NEW t \in Threads, NEW type \in Sent, NEW entry \in Seq(Nat \ {0}),
         AddEntry(t, type, entry)
  PROVE  IInv'
<1>1. type \in {"NAME", "UID", "GID", "DIR", "SHELL", "GECOS", "MEMBERS", "LOCAL"}
  BY DEF AddEntry, Handling, Types
<1>2. response[t] \in Seq(Field) /\ response \in [Threads -> Seq(Field)]
  BY DEF IInv, TypeOK
<1>3. response' \in [Threads -> Seq(Field)]
  <2>1. CASE Unset(t, type)
    <3>1. [type |-> type, sizes |-> entry] \in Field
      BY <1>1 DEF Field
    <3>2. response' = [response EXCEPT ![t] = Append(response[t], [type |-> type, sizes |-> entry])]
      BY <2>1 DEF AddEntry
    <3>. QED  BY <3>1, <3>2, <1>2
  <2>2. CASE ~Unset(t, type)
    <3>1. PICK k \in DOMAIN response[t] :
            response' = [response EXCEPT ![t][k].sizes = response[t][k].sizes \o entry]
      BY <2>2 DEF AddEntry
    <3>2. response[t][k] \in Field
      BY <3>1, <1>2
    <3>3. response[t][k].sizes \o entry \in Seq(Nat \ {0})
      BY <3>2 DEF Field
    <3>4. [response[t][k] EXCEPT !.sizes = response[t][k].sizes \o entry] \in Field
      BY <3>2, <3>3 DEF Field
    <3>5. [response[t] EXCEPT ![k].sizes = response[t][k].sizes \o entry] \in Seq(Field)
      BY <3>1, <3>4, <1>2
    <3>. QED  BY <3>1, <3>5, <1>2
  <2>. QED  BY <2>1, <2>2
<1>. QED  BY <1>3, ResponseStep DEF AddEntry

\* Whatever part of the response arrives, populate starts at the beginning of
\* the buffer, and only for a request that was sent.
LEMMA RepliedStep ==
  ASSUME IInv, NEW t \in Threads, NEW code \in Codes, NEW arrived \in Seq(Field),
         Replied(t, code, arrived), pc[t] = "query",
         code = "SUCCESS" => request[t] # NULL,
         answer' \in [Threads -> Seq(Field) \cup {NULL}]
  PROVE  IInv'
<1>1. TypeOK /\ Locals(t) /\ Asking(t) /\ EnumerationExact
  BY DEF IInv, CallInv
<1>2. UNCHANGED <<enumeration, call, request, members, cursor, regions>>
  BY DEF Replied
<1>3. CASE code = "SUCCESS"
  <2>1. /\ pc' = [pc EXCEPT ![t] = "populate"]
        /\ response' = [response EXCEPT ![t] = arrived]
        /\ todo' = [todo EXCEPT ![t] = arrived]
        /\ given' = [given EXCEPT ![t] = Preset(call[t].db)]
        /\ UNCHANGED result
    BY <1>3 DEF Replied
  <2>2. TypeOK'
    BY <1>1, <1>2, <2>1 DEF TypeOK, enumeration, Preset
  <2>3. OthersKeep(t)
    BY <1>1, <1>2, <2>1 DEF OthersKeep, enumeration, TypeOK
  <2>4. pc'[t] = "populate"
    BY <1>1, <2>1 DEF TypeOK
  <2>5. Locals(t)' /\ Asking(t)' /\ regions'[t] = <<>>
    BY <1>1, <1>2, <1>3, <2>4 DEF Locals, Asking, enumeration
  <2>6. EnumerationExact'
    BY <1>1, <1>2 DEF EnumerationExact, enumeration
  <2>. QED  BY <2>2, <2>3, <2>5, <2>6, ThreadStep
<1>4. CASE code # "SUCCESS"
  <2>1. /\ pc' = [pc EXCEPT ![t] = "return"]
        /\ response' = [response EXCEPT ![t] = <<>>]
        /\ result' = [result EXCEPT ![t] = StatusOf(code)]
        /\ UNCHANGED <<todo, given>>
    BY <1>4 DEF Replied
  <2>2. StatusOf(code) \in Results
    BY DEF StatusOf, Results
  <2>3. TypeOK'
    BY <1>1, <1>2, <2>1, <2>2 DEF TypeOK, enumeration
  <2>4. OthersKeep(t)
    BY <1>1, <1>2, <2>1 DEF OthersKeep, enumeration, TypeOK
  <2>5. pc'[t] = "return"
    BY <1>1, <2>1 DEF TypeOK
  <2>6. Locals(t)' /\ Asking(t)' /\ regions'[t] = <<>>
    BY <1>1, <1>2, <2>1, <2>5 DEF Locals, Asking
  <2>7. EnumerationExact'
    BY <1>1, <1>2 DEF EnumerationExact, enumeration
  <2>. QED  BY <2>3, <2>4, <2>6, <2>7, ThreadStep
<1>. QED  BY <1>3, <1>4

\* The whole response arrives.
LEMMA AnswerStep ==
  ASSUME IInv, NEW t \in Threads, NEW code \in Codes, Answer(t, code)
  PROVE  IInv'
<1>1. response[t] \in Seq(Field) /\ answer \in [Threads -> Seq(Field) \cup {NULL}]
  BY DEF IInv, TypeOK
<1>2. answer' \in [Threads -> Seq(Field) \cup {NULL}]
  BY <1>1 DEF Answer
<1>. QED  BY <1>1, <1>2, RepliedStep DEF Answer

\* Some of the response arrives, or none.
LEMMA QueryFailsStep ==
  ASSUME IInv, NEW t \in Threads, QueryFails(t)
  PROVE  IInv'
<1>1. response[t] \in Seq(Field) /\ answer' \in [Threads -> Seq(Field) \cup {NULL}]
  BY DEF IInv, TypeOK, QueryFails
<1>2. CASE Replied(t, "FAIL", <<>>)
  <2>1. <<>> \in Seq(Field) /\ "FAIL" \in Codes
    BY DEF Codes
  <2>. QED  BY <1>1, <1>2, <2>1, RepliedStep DEF QueryFails
<1>3. ASSUME NEW code \in Codes, NEW k \in 0 .. Len(response[t]), request[t] # NULL,
             Replied(t, code, SubSeq(response[t], 1, k))
      PROVE  IInv'
  <2>1. SubSeq(response[t], 1, k) \in Seq(Field)
    <3>1. \A n \in 1 .. k : response[t][n] \in Field
      BY <1>1
    <3>2. k \in Nat
      BY <1>1
    <3>. QED  BY <1>1, <3>1, <3>2
  <2>. QED  BY <1>1, <1>3, <2>1, RepliedStep DEF QueryFails
<1>. QED  BY <1>2, <1>3 DEF QueryFails
-----------------------------------------------------------------------------
(* populate *)

\* A sequence over a set is one over a larger set.
LEMMA WiderSeq ==
  ASSUME NEW S, NEW T, S \subseteq T, NEW s \in Seq(S)
  PROVE  s \in Seq(T)
<1>1. \A n \in 1 .. Len(s) : s[n] \in T
  OBVIOUS
<1>. QED  BY <1>1

\* A count or an index kept in a uint16_t.
LEMMA Wrapped == \A n \in Int : n % (WordMax + 1) \in Nat
  BY WordMaxAssumption

\* The field populate looks at.
LEMMA HeadField ==
  ASSUME TypeOK, NEW t \in Threads, todo[t] # <<>>
  PROVE  /\ Field1(t) \in Field /\ Tail(todo[t]) \in Seq(Field)
         /\ Field1(t).sizes \in Seq(Nat \ {0}) /\ Len(Field1(t).sizes) \in Nat
         /\ Field1(t).sizes # <<>> => Head(Field1(t).sizes) \in Nat
<1>1. todo[t] \in Seq(Field)
  BY DEF TypeOK
<1>2. Field1(t) \in Field /\ Tail(todo[t]) \in Seq(Field)
  BY <1>1 DEF Field1
<1>. QED  BY <1>2 DEF Field

\* A string is copied behind what is there.
LEMMA CopyStringStep ==
  ASSUME IInv, NEW t \in Threads, CopyString(t)
  PROVE  IInv'
<1>1. TypeOK
  BY DEF IInv
<1>2. /\ pc[t] = "populate" /\ members[t] = <<>> /\ todo[t] # <<>> /\ Field1(t).sizes # <<>>
      /\ Field1(t).type \in Strings(call[t].db)
      /\ Write(t, Field1(t).type, 0, Head(Field1(t).sizes))
      /\ given' = [given EXCEPT ![t] = given[t] \cup {Field1(t).type}]
      /\ todo' = [todo EXCEPT ![t] = Tail(todo[t])]
      /\ UNCHANGED <<enumeration, pc, query, members, result>>
  BY DEF CopyString, Populating, Give, NextField
<1>3. Field1(t).type \in {"NAME", "DIR", "SHELL", "GECOS"}
  BY <1>2 DEF Strings
<1>4. Head(Field1(t).sizes) \in Nat /\ Tail(todo[t]) \in Seq(Field)
  BY <1>1, <1>2, HeadField
<1>5. /\ todo' \in [Threads -> Seq(Field)] /\ members' \in [Threads -> Seq(Nat \ {0})]
      /\ given' \in [Threads -> SUBSET (Numbers("passwd") \cup {"NAME", "DIR", "SHELL",
                                                   "GECOS", "MEMBERS", "LOCAL"})]
  BY <1>1, <1>2, <1>3, <1>4 DEF TypeOK
<1>6. /\ \A u \in Threads \ {t} : todo'[u] = todo[u] /\ members'[u] = members[u]
      /\ members'[t] # <<>> => todo'[t] # <<>>
  BY <1>1, <1>2 DEF TypeOK
<1>. QED  BY <1>2, <1>3, <1>4, <1>5, <1>6, WriteStep DEF query

\* The array takes as many pointers as entry_count says.
LEMMA ReserveMembersStep ==
  ASSUME IInv, NEW t \in Threads, ReserveMembers(t)
  PROVE  IInv'
<1>1. TypeOK
  BY DEF IInv
<1>2. /\ pc[t] = "populate" /\ members[t] = <<>> /\ todo[t] # <<>>
      /\ Write(t, "MEMBERS", MemberCount(t), MemberCount(t) * PointerSize)
      /\ given' = [given EXCEPT ![t] = given[t] \cup {"MEMBERS"}]
      /\ members' = [members EXCEPT ![t] = Field1(t).sizes]
      /\ Field1(t).sizes = <<>> => todo' = [todo EXCEPT ![t] = Tail(todo[t])]
      /\ Field1(t).sizes # <<>> => todo' = todo
      /\ UNCHANGED <<enumeration, pc, query, result>>
  BY DEF ReserveMembers, Populating, Give, NextField
<1>3. MemberCount(t) \in Nat /\ MemberCount(t) * PointerSize \in Nat
  <2>1. Len(Field1(t).sizes) \in Nat
    BY <1>1, <1>2, HeadField
  <2>2. MemberCount(t) \in Nat
    BY <2>1, Wrapped DEF MemberCount
  <2>3. \A a, b \in Nat : a * b \in Nat
    OBVIOUS
  <2>. QED  BY <2>2, <2>3, PointerSizeAssumption
<1>4. Field1(t).sizes \in Seq(Nat \ {0}) /\ Tail(todo[t]) \in Seq(Field)
  BY <1>1, <1>2, HeadField
<1>5. todo' \in [Threads -> Seq(Field)]
  BY <1>1, <1>2, <1>4 DEF TypeOK
<1>6. /\ members' \in [Threads -> Seq(Nat \ {0})]
      /\ given' \in [Threads -> SUBSET (Numbers("passwd") \cup {"NAME", "DIR", "SHELL",
                                                   "GECOS", "MEMBERS", "LOCAL"})]
  BY <1>1, <1>2, <1>4 DEF TypeOK
<1>7. /\ \A u \in Threads \ {t} : todo'[u] = todo[u] /\ members'[u] = members[u]
      /\ members'[t] # <<>> => todo'[t] # <<>>
  BY <1>1, <1>2 DEF TypeOK
<1>. QED  BY <1>2, <1>3, <1>5, <1>6, <1>7, WriteStep DEF query

\* A member is copied behind what is there.
LEMMA CopyMemberStep ==
  ASSUME IInv, NEW t \in Threads, CopyMember(t)
  PROVE  IInv'
<1>1. TypeOK /\ Locals(t)
  BY DEF IInv, CallInv
<1>2. /\ pc[t] = "populate" /\ members[t] # <<>>
      /\ Write(t, "MEMBER", Slot(t), Head(members[t]))
      /\ members' = [members EXCEPT ![t] = Tail(members[t])]
      /\ Len(members[t]) = 1 => todo' = [todo EXCEPT ![t] = Tail(todo[t])]
      /\ Len(members[t]) # 1 => todo' = todo
      /\ UNCHANGED <<enumeration, pc, query, given, result>>
  BY DEF CopyMember, NextField
<1>3. todo[t] # <<>>
  BY <1>1, <1>2 DEF Locals
<1>4. members[t] \in Seq(Nat \ {0})
  BY <1>1 DEF TypeOK
<1>5. Slot(t) \in Nat /\ Head(members[t]) \in Nat
  <2>1. Len(Field1(t).sizes) \in Nat /\ Len(members[t]) \in Nat
    BY <1>1, <1>3, <1>4, HeadField
  <2>2. Len(Field1(t).sizes) - Len(members[t]) \in Int
    BY <2>1
  <2>3. Slot(t) \in Nat
    BY <2>2, Wrapped DEF Slot
  <2>. QED  BY <2>3, <1>2, <1>4
<1>6. Tail(todo[t]) \in Seq(Field) /\ Tail(members[t]) \in Seq(Nat \ {0})
  BY <1>1, <1>2, <1>3, <1>4, HeadField
<1>7. /\ todo' \in [Threads -> Seq(Field)] /\ members' \in [Threads -> Seq(Nat \ {0})]
      /\ given' \in [Threads -> SUBSET (Numbers("passwd") \cup {"NAME", "DIR", "SHELL",
                                                   "GECOS", "MEMBERS", "LOCAL"})]
  <2>1. todo' \in [Threads -> Seq(Field)]
    <3>1. todo' \in {todo, [todo EXCEPT ![t] = Tail(todo[t])]}
      BY <1>2
    <3>. QED  BY <3>1, <1>1, <1>6 DEF TypeOK
  <2>2. members' \in [Threads -> Seq(Nat \ {0})]
    BY <1>1, <1>2, <1>6 DEF TypeOK
  <2>. QED  BY <2>1, <2>2, <1>1, <1>2 DEF TypeOK
<1>8. \A u \in Threads \ {t} : todo'[u] = todo[u] /\ members'[u] = members[u]
  BY <1>1, <1>2 DEF TypeOK
<1>9. members'[t] # <<>> => todo'[t] # <<>>
  <2>1. members'[t] = Tail(members[t])
    BY <1>1, <1>2 DEF TypeOK
  <2>2. Len(members[t]) = 1 => Tail(members[t]) = <<>>
    <3>1. Len(Tail(members[t])) = Len(members[t]) - 1
      BY <1>2, <1>4, HeadTailProperties
    <3>2. \A q \in Seq(Nat \ {0}) : q # <<>> => Len(q) # 0
      BY EmptySeq
    <3>3. Len(members[t]) = 1 => Len(Tail(members[t])) = 0
      BY <3>1
    <3>. QED  BY <3>2, <3>3, <1>6
  <2>. QED  BY <2>1, <2>2, <1>2, <1>3
<1>. QED  BY <1>2, <1>5, <1>7, <1>8, <1>9, WriteStep DEF query

\* A number is stored in the structure; other fields are skipped.
LEMMA NextFieldStep ==
  ASSUME IInv, NEW t \in Threads, StoreNumber(t) \/ IgnoreField(t)
  PROVE  IInv'
<1>1. TypeOK /\ Locals(t) /\ Asking(t) /\ EnumerationExact
  BY DEF IInv, CallInv
<1>2. /\ pc[t] = "populate" /\ members[t] = <<>> /\ todo[t] # <<>>
      /\ todo' = [todo EXCEPT ![t] = Tail(todo[t])]
      /\ UNCHANGED <<enumeration, pc, query, members, cursor, regions, result>>
  BY DEF StoreNumber, IgnoreField, Populating, NextField
<1>3. given' \in [Threads -> SUBSET (Numbers("passwd") \cup {"NAME", "DIR", "SHELL",
                                                   "GECOS", "MEMBERS", "LOCAL"})]
  <2>1. CASE StoreNumber(t)
    <3>1. Field1(t).type \in Numbers("passwd") \cup {"LOCAL"}
      BY <2>1 DEF StoreNumber, Numbers
    <3>2. \/ given' = given
          \/ given' = [given EXCEPT ![t] = given[t] \cup {Field1(t).type}]
      BY <2>1 DEF StoreNumber, Give
    <3>3. given[t] \cup {Field1(t).type}
            \in SUBSET (Numbers("passwd") \cup {"NAME", "DIR", "SHELL", "GECOS", "MEMBERS",
                                              "LOCAL"})
      BY <3>1, <1>1 DEF TypeOK
    <3>4. CASE given' = given
      BY <3>4, <1>1 DEF TypeOK
    <3>5. CASE given' = [given EXCEPT ![t] = given[t] \cup {Field1(t).type}]
      BY <3>3, <3>5, <1>1 DEF TypeOK
    <3>. QED  BY <3>2, <3>4, <3>5
  <2>2. CASE IgnoreField(t)
    BY <2>2, <1>1 DEF IgnoreField, TypeOK
  <2>. QED  BY <2>1, <2>2
<1>4. Tail(todo[t]) \in Seq(Field)
  BY <1>1, <1>2, HeadField
<1>5. TypeOK'
  BY <1>1, <1>2, <1>3, <1>4 DEF TypeOK, enumeration, query
<1>6. OthersKeep(t)
  BY <1>1, <1>2 DEF OthersKeep, enumeration, query, TypeOK
<1>7. Locals(t)' /\ Asking(t)'
  BY <1>1, <1>2 DEF Locals, Asking, enumeration, query
<1>8. EnumerationExact'
  BY <1>1, <1>2 DEF EnumerationExact, enumeration
<1>. QED  BY <1>2, <1>5, <1>6, <1>7, <1>8, ThreadStep DEF query

\* Whatever populate returns, the position it was about is passed.
LEMMA PopulatedStep ==
  ASSUME IInv, NEW t \in Threads, NEW status \in {"SUCCESS", "TRYAGAIN"},
         NEW errno \in {"none", "EINVAL", "ERANGE"},
         Populated(t, status, errno), pc[t] = "populate"
  PROVE  IInv'
<1>. DEFINE db == call[t].db
            o == offset[t][db]
<1>1. TypeOK /\ Locals(t) /\ Asking(t) /\ EnumerationExact
  BY DEF IInv, CallInv
<1>2. /\ pc' = [pc EXCEPT ![t] = "return"]
      /\ result' = [result EXCEPT ![t] = [status |-> status, errno |-> errno]]
      /\ UNCHANGED <<query, populate>>
  BY DEF Populated
<1>3. result' \in [Threads -> Results]
  BY <1>1, <1>2 DEF TypeOK, Results
<1>4. pc'[t] = "return" /\ \A u \in Threads \ {t} : pc'[u] = pc[u]
  BY <1>1, <1>2 DEF TypeOK
<1>5. Locals(t)' /\ Asking(t)' /\ regions'[t] = regions[t] /\ call'[t] = call[t]
      /\ cursor'[t] = cursor[t]
  BY <1>1, <1>2, <1>4 DEF Locals, Asking, query, populate
<1>6. db \in Databases
  BY <1>1 DEF TypeOK
<1>7. CASE call[t].kind = "entities"
  <2>1. o \in 0 .. MaxOffset /\ o < MaxOffset /\ request[t].value = o
    BY <1>1, <1>6, <1>7 DEF Locals, Asking, TypeOK
  <2>. HIDE DEF o
  <2>2. offset' = [offset EXCEPT ![t][db] = o + 1]
    BY <1>1, <1>7 DEF Populated, SetOffset, Owners, TypeOK, o
  <2>3. \/ /\ delivered' = [delivered EXCEPT ![t][db] = Append(delivered[t][db], o)]
           /\ refused' = refused
        \/ /\ refused' = [refused EXCEPT ![t][db] = refused[t][db] \cup {o}]
           /\ delivered' = delivered
    BY <1>7, <2>1 DEF Populated
  <2>4. /\ delivered[t][db] \in Seq(0 .. MaxOffset) /\ refused[t][db] \in SUBSET (0 .. MaxOffset)
        /\ o + 1 \in 0 .. MaxOffset /\ o \in Nat
    <3>1. delivered[t][db] \in Seq(0 .. MaxOffset) /\ refused[t][db] \in SUBSET (0 .. MaxOffset)
      BY <1>1, <1>6 DEF TypeOK
    <3>2. o + 1 \in 0 .. MaxOffset /\ o \in Nat
      BY ONLY <2>1, MaxOffsetAssumption
    <3>. QED  BY <3>1, <3>2
  <2>5. /\ offset' \in [Threads -> [Databases -> 0 .. MaxOffset \cup {NULL}]]
        /\ offset'[t][db] = o + 1
    BY <1>1, <1>6, <2>2, <2>4 DEF TypeOK
  <2>6. /\ delivered' \in [Threads -> [Databases -> Seq(0 .. MaxOffset)]]
        /\ refused' \in [Threads -> [Databases -> SUBSET (0 .. MaxOffset)]]
    <3>1. Append(delivered[t][db], o) \in Seq(0 .. MaxOffset)
      BY <2>1, <2>4
    <3>2. CASE delivered' = [delivered EXCEPT ![t][db] = Append(delivered[t][db], o)]
               /\ refused' = refused
      BY <3>1, <3>2, <1>1 DEF TypeOK
    <3>3. CASE refused' = [refused EXCEPT ![t][db] = refused[t][db] \cup {o}]
               /\ delivered' = delivered
      BY <3>3, <1>1, <2>1, <2>4 DEF TypeOK
    <3>. QED  BY <2>3, <3>2, <3>3
  <2>7. TypeOK'
    BY <1>1, <1>2, <1>3, <2>5, <2>6 DEF TypeOK, query, populate
  <2>8. OthersKeep(t)
    BY <1>1, <1>2, <1>4, <2>2 DEF OthersKeep, query, populate, TypeOK
  <2>9. EnumerationExact'
    <3>1. ASSUME NEW u \in Threads, NEW e \in Databases
          PROVE  Exact(delivered'[u][e], refused'[u][e], offset'[u][e])
      <4>1. Exact(delivered[u][e], refused[u][e], offset[u][e])
        BY <1>1, ExactEverywhere
      <4>2. CASE u = t /\ e = db
        <5>1. Exact(delivered[t][db], refused[t][db], o)
          BY <4>1, <4>2 DEF o
        <5>2. /\ delivered[t][db] \in Seq(Nat) /\ refused[t][db] \in SUBSET Nat
          <6>1. 0 .. MaxOffset \subseteq Nat
            BY MaxOffsetAssumption
          <6>. QED  BY <2>4, <6>1, WiderSeq
        <5>3. /\ Exact(Append(delivered[t][db], o), refused[t][db], o + 1)
              /\ Exact(delivered[t][db], refused[t][db] \cup {o}, o + 1)
          BY <5>1, <5>2, <2>4, ExactAdvances
        <5>4. \/ /\ delivered'[t][db] = Append(delivered[t][db], o)
                 /\ refused'[t][db] = refused[t][db]
              \/ /\ refused'[t][db] = refused[t][db] \cup {o}
                 /\ delivered'[t][db] = delivered[t][db]
          <6>1. delivered[t] \in [Databases -> Seq(0 .. MaxOffset)]
                /\ refused[t] \in [Databases -> SUBSET (0 .. MaxOffset)]
                /\ delivered \in [Threads -> [Databases -> Seq(0 .. MaxOffset)]]
                /\ refused \in [Threads -> [Databases -> SUBSET (0 .. MaxOffset)]]
            BY <1>1 DEF TypeOK
          <6>2. CASE /\ delivered' = [delivered EXCEPT ![t][db] = Append(delivered[t][db], o)]
                     /\ refused' = refused
            BY <6>1, <6>2, <1>6
          <6>3. CASE /\ refused' = [refused EXCEPT ![t][db] = refused[t][db] \cup {o}]
                     /\ delivered' = delivered
            BY <6>1, <6>3, <1>6
          <6>. QED  BY <2>3, <6>2, <6>3
        <5>. QED  BY <4>2, <5>3, <5>4, <2>5
      <4>3. CASE u # t \/ e # db
        <5>1. \A v : /\ [delivered EXCEPT ![t][db] = v][u][e] = delivered[u][e]
                     /\ [refused EXCEPT ![t][db] = v][u][e] = refused[u][e]
                     /\ [offset EXCEPT ![t][db] = v][u][e] = offset[u][e]
          BY <4>3, <1>1 DEF TypeOK
        <5>2. offset'[u][e] = offset[u][e]
          BY <5>1, <2>2
        <5>3. delivered'[u][e] = delivered[u][e] /\ refused'[u][e] = refused[u][e]
          BY <5>1, <2>3
        <5>. QED  BY <5>2, <5>3, <4>1
      <4>. QED  BY <4>2, <4>3
    <3>. QED  BY <3>1 DEF EnumerationExact, Exact
  <2>. QED  BY <1>5, <2>7, <2>8, <2>9, ThreadStep
<1>8. CASE call[t].kind # "entities"
  <2>1. UNCHANGED enumeration
    BY <1>8 DEF Populated
  <2>2. TypeOK'
    BY <1>1, <1>2, <1>3, <2>1 DEF TypeOK, enumeration, query, populate
  <2>3. OthersKeep(t)
    BY <1>2, <1>4, <2>1 DEF OthersKeep, enumeration, query, populate
  <2>4. EnumerationExact'
    BY <1>1, <2>1 DEF EnumerationExact, enumeration
  <2>. QED  BY <1>5, <2>2, <2>3, <2>4, ThreadStep
<1>. QED  BY <1>7, <1>8

\* The call's locals are gone when it returns.
LEMMA ReturnStep ==
  ASSUME IInv, NEW t \in Threads, Return(t)
  PROVE  IInv'
<1>1. TypeOK /\ EnumerationExact
  BY DEF IInv
<1>2. NoCall \in [kind : {"none", "lookup", "entities"}, db : Databases,
                  size : BufferSizes \cup {0}]
  BY DatabasesAssumption DEF NoCall
<1>3. Given \in Results
  BY DEF Given, Results
<1>4. TypeOK'
  BY <1>1, <1>2, <1>3 DEF Return, TypeOK, enumeration
<1>5. OthersKeep(t)
  BY <1>1 DEF Return, OthersKeep, enumeration, TypeOK
<1>6. /\ pc'[t] = "idle" /\ request'[t] = NULL /\ members'[t] = <<>> /\ cursor'[t] = 0
      /\ regions'[t] = <<>>
  BY <1>1 DEF Return, TypeOK
<1>7. Locals(t)' /\ Asking(t)'
  BY <1>6 DEF Locals, Asking
<1>8. EnumerationExact'
  BY <1>1 DEF Return, EnumerationExact, enumeration
<1>. QED  BY <1>4, <1>5, <1>6, <1>7, <1>8, ThreadStep
-----------------------------------------------------------------------------
(* The inductive invariant *)

\* No thread is in a call.
LEMMA IInvInit == Init => IInv
<1>. SUFFICES ASSUME Init PROVE IInv  OBVIOUS
<1>1. NoCall \in [kind : {"none", "lookup", "entities"}, db : Databases,
                  size : BufferSizes \cup {0}]
  BY DatabasesAssumption DEF NoCall
<1>2. Given \in Results
  BY DEF Given, Results
<1>3. TypeOK
  BY <1>1, <1>2 DEF Init, TypeOK
<1>4. CallInv
  BY DEF Init, CallInv, Locals, Asking, BehindCursor
<1>5. RegionsInBuffer
  BY DEF Init, RegionsInBuffer
<1>6. EnumerationExact
  BY ExactEverywhere, ExactAtStart DEF Init
<1>. QED  BY <1>3, <1>4, <1>5, <1>6 DEF IInv

\* What a thread does in a call keeps the invariant.
LEMMA StepKeeps ==
  ASSUME IInv, NEW t \in Threads, Step(t)
  PROVE  IInv'
<1>1. ASSUME NEW type \in Sent, NEW size \in Sizes \cup {1, 4}, SetField(t, type, size)
      PROVE  IInv'
  BY <1>1, SetFieldStep
<1>2. ASSUME NEW type \in Sent, AddEntry(t, type, <<>>)
      PROVE  IInv'
  <2>1. <<>> \in Seq(Nat \ {0})
    OBVIOUS
  <2>. QED  BY <1>2, <2>1, AddEntryStep
<1>3. ASSUME NEW type \in Sent, NEW size \in Sizes, AddEntry(t, type, <<size>>)
      PROVE  IInv'
  <2>1. <<size>> \in Seq(Nat \ {0})
    BY SizesAssumption
  <2>. QED  BY <1>3, <2>1, AddEntryStep
<1>4. ASSUME NEW code \in Codes, Answer(t, code)
      PROVE  IInv'
  BY <1>4, AnswerStep
<1>5. CASE QueryFails(t)
  BY <1>5, QueryFailsStep
<1>6. CASE CopyString(t)
  BY <1>6, CopyStringStep
<1>7. CASE StoreNumber(t) \/ IgnoreField(t)
  BY <1>7, NextFieldStep
<1>8. CASE ReserveMembers(t)
  BY <1>8, ReserveMembersStep
<1>9. CASE CopyMember(t)
  BY <1>9, CopyMemberStep
<1>10. CASE NoEntry(t) \/ NoRoom(t) \/ AllFields(t)
  BY <1>10, PopulatedStep DEF NoEntry, NoRoom, AllFields, Populating
<1>11. CASE Return(t)
  BY <1>11, ReturnStep
<1>. QED
  BY <1>1, <1>2, <1>3, <1>4, <1>5, <1>6, <1>7, <1>8, <1>9, <1>10, <1>11 DEF Step

\* Every step keeps the invariant.
LEMMA IInvStep == IInv /\ [Next]_vars => IInv'
<1>. SUFFICES ASSUME IInv, [Next]_vars PROVE IInv'  OBVIOUS
<1>1. ASSUME NEW t \in Threads, NEW db \in Databases, SetEnt(t, db) \/ EndEnt(t, db)
      PROVE  IInv'
  BY <1>1, SetEntStep
<1>2. ASSUME NEW t \in Threads, NEW db \in Databases, NoOffset(t, db)
      PROVE  IInv'
  BY <1>2, NoOffsetStep
<1>3. ASSUME NEW t \in Threads, NEW db \in Databases, NEW size \in BufferSizes,
             Lookup(t, db, size)
      PROVE  IInv'
  BY <1>3, LookupStep
<1>4. ASSUME NEW t \in Threads, NEW db \in Databases, NEW size \in BufferSizes,
             GetEnt(t, db, size)
      PROVE  IInv'
  BY <1>4, GetEntStep
<1>5. ASSUME NEW t \in Threads, Step(t) PROVE IInv'
  BY <1>5, StepKeeps
<1>6. CASE UNCHANGED vars
  BY <1>6 DEF IInv, TypeOK, CallInv, Locals, Asking, BehindCursor, RegionsInBuffer,
              EnumerationExact, vars, enumeration, query, populate
<1>. QED  BY <1>1, <1>2, <1>3, <1>4, <1>5, <1>6 DEF Next

\* The locals of every call keep their types, for any number of threads in
\* calls at once.
THEOREM TypeCorrect == Spec => []TypeOK
<1>1. IInv => TypeOK
  BY DEF IInv
<1>. QED  BY <1>1, IInvInit, IInvStep, PTL DEF Spec

\* populate writes inside the caller's buffer and never over what it wrote, for
\* any response, even one with more members than entry_count can hold.
THEOREM RegionsStayInBuffer == Spec => []RegionsInBuffer
<1>1. IInv => RegionsInBuffer
  BY DEF IInv
<1>. QED  BY <1>1, IInvInit, IInvStep, PTL DEF Spec

\* getpwent_r and getaliasent_r ask for each position once and in order, for
\* any number of threads in calls at once, whatever the answers and whatever
\* setpwent, endpwent and lookups happen between them.
THEOREM EnumerationsAreExact == Spec => []EnumerationExact
<1>1. IInv => EnumerationExact
  BY DEF IInv
<1>. QED  BY <1>1, IInvInit, IInvStep, PTL DEF Spec

-----------------------------------------------------------------------------
(* What populate unpacks *)

\* One sequence is the end of another.
EndOf(s, r) ==
    /\ Len(s) <= Len(r)
    /\ \A k \in DOMAIN s : s[k] = r[Len(r) - Len(s) + k]

HasMember(written, slot, size) ==
    \E r \in DOMAIN written :
        written[r].type = "MEMBER" /\ written[r].slot = slot /\ written[r].size = size

\* Field f of database db is unpacked: what SuccessIsWhole says of each field.
Unpacks(db, f, written, stored) ==
    /\ f.type \in Strings(db) =>
         \E r \in DOMAIN written : written[r].type = f.type /\ written[r].size = f.sizes[1]
    /\ f.type \in Numbers(db) /\ f.sizes[1] = Width(f.type) => f.type \in stored
    /\ f.type = "MEMBERS" /\ Len(f.sizes) <= WordMax =>
         \A n \in DOMAIN f.sizes : HasMember(written, n - 1, f.sizes[n])

LocalGiven(t) == call[t].db = "aliases" => "LOCAL" \in given[t]

\* What populate has left is the end of the response, and the fields before
\* it are unpacked.
Passing(t) ==
    /\ EndOf(todo[t], response[t])
    /\ \A k \in 1 .. Len(response[t]) - Len(todo[t]) :
         Unpacks(call[t].db, response[t][k], regions[t], given[t])

\* The members it has left are the end of the field, and those before them are
\* copied.
Copying(t) ==
    members[t] # <<>> =>
        /\ Field1(t).type = "MEMBERS"
        /\ EndOf(members[t], Field1(t).sizes)
        /\ Len(Field1(t).sizes) <= WordMax =>
             \A n \in 1 .. Len(Field1(t).sizes) - Len(members[t]) :
                 HasMember(regions[t], n - 1, Field1(t).sizes[n])

\* The field that members and their array come from, and the slots it allows.
FromField(r, f) ==
    /\ f.type = "MEMBERS"
    /\ \/ Len(f.sizes) > WordMax
       \/ r.type = "MEMBER" /\ r.slot < Len(f.sizes)
       \/ r.type = "MEMBERS" /\ r.slot = Len(f.sizes)

ArrayFits(t) ==
    \A r \in DOMAIN regions[t] : regions[t][r].type \in {"MEMBER", "MEMBERS"} =>
        \E k \in DOMAIN response[t] : FromField(regions[t][r], response[t][k])

\* A handler sets fields of the database, each type once.
Handled(t) ==
    /\ pc[t] = "idle" => response[t] = <<>>
    /\ \A k \in DOMAIN response[t] : response[t][k].type \in Types(call[t].db)
    /\ \A k, l \in DOMAIN response[t] : response[t][k].type = response[t][l].type => k = l

UnpackInv(t) ==
    /\ Handled(t) /\ ArrayFits(t)
    /\ pc[t] = "populate" => LocalGiven(t) /\ Passing(t) /\ Copying(t)
    /\ pc[t] = "return" /\ result[t].status = "SUCCESS" =>
         /\ LocalGiven(t)
         /\ \A k \in DOMAIN response[t] :
              Unpacks(call[t].db, response[t][k], regions[t], given[t])

Unpacked == \A t \in Threads : UnpackInv(t)

\* The first of what is left, and what is left without it.
LEMMA EndMoves ==
  ASSUME NEW S, NEW r \in Seq(S), NEW s \in Seq(S), s # <<>>, EndOf(s, r)
  PROVE  /\ EndOf(Tail(s), r)
         /\ Len(r) - Len(Tail(s)) = Len(r) - Len(s) + 1
         /\ Len(r) - Len(s) + 1 \in DOMAIN r
         /\ Head(s) = r[Len(r) - Len(s) + 1]
<1>1. /\ Len(s) \in Nat \ {0} /\ Len(r) \in Nat /\ DOMAIN s = 1 .. Len(s)
      /\ DOMAIN r = 1 .. Len(r) /\ Head(s) = s[1]
  BY EmptySeq
<1>2. /\ Tail(s) \in Seq(S) /\ Len(Tail(s)) = Len(s) - 1
      /\ \A k \in 1 .. Len(s) - 1 : Tail(s)[k] = s[k + 1]
  BY HeadTailProperties
<1>3. DOMAIN Tail(s) = 1 .. Len(s) - 1
  BY <1>2
<1>4. Len(s) <= Len(r) /\ \A k \in 1 .. Len(s) : s[k] = r[Len(r) - Len(s) + k]
  BY <1>1 DEF EndOf
<1>5. ASSUME NEW k \in 1 .. Len(s) - 1
      PROVE  Tail(s)[k] = r[Len(r) - (Len(s) - 1) + k]
  <2>1. k + 1 \in 1 .. Len(s) /\ Len(r) - (Len(s) - 1) + k = Len(r) - Len(s) + (k + 1)
    BY <1>1
  <2>. QED  BY <2>1, <1>2, <1>4
<1>6. EndOf(Tail(s), r)
  <2>1. Len(s) - 1 <= Len(r)
    BY <1>1, <1>4
  <2>. QED  BY <2>1, <1>2, <1>3, <1>5 DEF EndOf
<1>7. Len(r) - Len(s) + 1 \in 1 .. Len(r) /\ Len(r) - (Len(s) - 1) = Len(r) - Len(s) + 1
  BY <1>1, <1>4
<1>8. s[1] = r[Len(r) - Len(s) + 1]
  BY <1>1, <1>4
<1>. QED  BY <1>1, <1>2, <1>6, <1>7, <1>8

\* A sequence is the end of itself.
LEMMA EndOfAll == ASSUME NEW S, NEW s \in Seq(S) PROVE EndOf(s, s) /\ Len(s) - Len(s) = 0
<1>1. Len(s) \in Nat /\ \A k \in DOMAIN s : k \in Nat
  OBVIOUS
<1>2. \A k \in DOMAIN s : Len(s) - Len(s) + k = k
  BY <1>1
<1>. QED  BY <1>1, <1>2 DEF EndOf

Extends(a, b) == \A k \in DOMAIN a : k \in DOMAIN b /\ b[k] = a[k]

\* What is unpacked stays so while populate writes on.
LEMMA StaysUnpacked ==
  ASSUME NEW db, NEW f, NEW a, NEW b, NEW g, NEW h, Extends(a, b), g \subseteq h,
         Unpacks(db, f, a, g)
  PROVE  Unpacks(db, f, b, h)
<1>1. \A slot, size : HasMember(a, slot, size) => HasMember(b, slot, size)
  BY DEF HasMember, Extends
<1>2. f.type \in Strings(db) =>
        \E r \in DOMAIN b : b[r].type = f.type /\ b[r].size = f.sizes[1]
  BY DEF Unpacks, Extends
<1>. QED  BY <1>1, <1>2 DEF Unpacks

\* A step of t leaves what the others unpack as it was.
OthersUnpack(t) ==
    \A u \in Threads \ {t} :
        /\ pc'[u] = pc[u] /\ call'[u] = call[u] /\ response'[u] = response[u]
        /\ todo'[u] = todo[u] /\ members'[u] = members[u] /\ regions'[u] = regions[u]
        /\ given'[u] = given[u] /\ result'[u] = result[u]

\* What populate has unpacked for u stays so while its call stands still.
LEMMA SameUnpacks ==
  ASSUME NEW u \in Threads, UnpackInv(u),
         pc'[u] = pc[u], call'[u] = call[u], response'[u] = response[u],
         todo'[u] = todo[u], members'[u] = members[u], regions'[u] = regions[u],
         given'[u] = given[u], result'[u] = result[u]
  PROVE  UnpackInv(u)'
<1>1. (Handled(u) /\ ArrayFits(u))'
  BY DEF UnpackInv, Handled, ArrayFits
<1>2. (pc[u] = "populate" => LocalGiven(u) /\ Passing(u) /\ Copying(u))'
  BY DEF UnpackInv, LocalGiven, Passing, Copying, Field1
<1>3. (pc[u] = "return" /\ result[u].status = "SUCCESS" =>
         /\ LocalGiven(u)
         /\ \A k \in DOMAIN response[u] :
              Unpacks(call[u].db, response[u][k], regions[u], given[u]))'
  BY DEF UnpackInv, LocalGiven
<1>. QED  BY <1>1, <1>2, <1>3 DEF UnpackInv

\* For a step of t, what concerns t is left to show.
LEMMA OneUnpacks ==
  ASSUME Unpacked, NEW t \in Threads, OthersUnpack(t), UnpackInv(t)'
  PROVE  Unpacked'
<1>1. \A u \in Threads \ {t} : UnpackInv(u)'
  BY SameUnpacks DEF Unpacked, OthersUnpack
<1>. QED  BY <1>1 DEF Unpacked

\* What Write adds to what is written.
LEMMA Written ==
  ASSUME TypeOK, NEW t \in Threads, NEW type, NEW slot, NEW length, Write(t, type, slot, length)
  PROVE  /\ Extends(regions[t], regions'[t])
         /\ Len(regions[t]) + 1 \in DOMAIN regions'[t]
         /\ \A k \in DOMAIN regions'[t] : k \in DOMAIN regions[t] \/ k = Len(regions[t]) + 1
         /\ regions'[t][Len(regions[t]) + 1].type = type
         /\ regions'[t][Len(regions[t]) + 1].slot = slot
         /\ regions'[t][Len(regions[t]) + 1].size = length
         /\ \A u \in Threads \ {t} : regions'[u] = regions[u]
<1>. DEFINE new == [type |-> type, slot |-> slot, first |-> cursor[t], size |-> length]
<1>1. regions \in [Threads -> Seq(Region)] /\ regions[t] \in Seq(Region)
  BY DEF TypeOK
<1>2. regions' = [regions EXCEPT ![t] = Append(regions[t], new)]
  BY DEF Write
<1>3. regions'[t] = Append(regions[t], new) /\ \A u \in Threads \ {t} : regions'[u] = regions[u]
  BY <1>1, <1>2
<1>4. /\ DOMAIN regions'[t] = 1 .. Len(regions[t]) + 1 /\ DOMAIN regions[t] = 1 .. Len(regions[t])
      /\ Len(regions[t]) \in Nat /\ regions'[t][Len(regions[t]) + 1] = new
      /\ \A k \in 1 .. Len(regions[t]) : regions'[t][k] = regions[t][k]
  <2>. HIDE DEF new
  <2>. QED  BY <1>1, <1>3, AppendProperties
<1>. QED  BY <1>3, <1>4 DEF Extends

\* A step within populate passes a field that it has unpacked, or stays at it.
LEMMA UnpackStep ==
  ASSUME TypeOK, NEW t \in Threads, UnpackInv(t), pc[t] = "populate",
         UNCHANGED <<pc, call, response>>,
         Extends(regions[t], regions'[t]), given[t] \subseteq given'[t],
         \/ todo'[t] = todo[t]
         \/ /\ todo[t] # <<>> /\ todo'[t] = Tail(todo[t])
            /\ Unpacks(call[t].db, Field1(t), regions'[t], given'[t]),
         ArrayFits(t)', Copying(t)'
  PROVE  UnpackInv(t)'
<1>1. response[t] \in Seq(Field) /\ todo[t] \in Seq(Field)
  BY DEF TypeOK
<1>2. LocalGiven(t) /\ Passing(t) /\ Handled(t)
  BY DEF UnpackInv
<1>3. Handled(t)' /\ LocalGiven(t)'
  BY <1>2 DEF Handled, LocalGiven
<1>4. \A k \in 1 .. Len(response[t]) - Len(todo[t]) :
        Unpacks(call[t].db, response[t][k], regions'[t], given'[t])
  BY <1>2, StaysUnpacked DEF Passing
<1>5. Passing(t)'
  <2>1. CASE todo'[t] = todo[t]
    BY <2>1, <1>2, <1>4 DEF Passing
  <2>2. CASE /\ todo[t] # <<>> /\ todo'[t] = Tail(todo[t])
             /\ Unpacks(call[t].db, Field1(t), regions'[t], given'[t])
    <3>. DEFINE p == Len(response[t]) - Len(todo[t])
    <3>1. /\ EndOf(todo'[t], response[t]) /\ Len(response[t]) - Len(todo'[t]) = p + 1
          /\ Field1(t) = response[t][p + 1]
      BY <2>2, <1>1, <1>2, EndMoves DEF Passing, Field1
    <3>2. p \in Int
      BY <1>1
    <3>3. \A k \in 1 .. p + 1 : k \in 1 .. p \/ k = p + 1
      <4>. HIDE DEF p
      <4>. QED  BY <3>2
    <3>4. \A k \in 1 .. p + 1 : Unpacks(call[t].db, response[t][k], regions'[t], given'[t])
      BY <3>1, <3>3, <2>2, <1>4
    <3>. QED  BY <3>1, <3>4 DEF Passing
  <2>. QED  BY <2>1, <2>2
<1>. QED  BY <1>3, <1>5 DEF UnpackInv

\* The field that populate looks at is one of the response, and of a type of
\* the database.
LEMMA FieldOfResponse ==
  ASSUME TypeOK, NEW t \in Threads, UnpackInv(t), pc[t] = "populate", todo[t] # <<>>
  PROVE  /\ \E k \in DOMAIN response[t] : response[t][k] = Field1(t)
         /\ Field1(t).type \in Types(call[t].db)
<1>1. response[t] \in Seq(Field) /\ todo[t] \in Seq(Field) /\ Passing(t) /\ Handled(t)
  BY DEF TypeOK, UnpackInv
<1>2. PICK k \in DOMAIN response[t] : response[t][k] = Field1(t)
  BY <1>1, EndMoves DEF Passing, Field1
<1>. QED  BY <1>1, <1>2 DEF Handled

\* A step of t that leaves the call, the response and the buffer alone.
LEMMA NothingUnpacked ==
  ASSUME TypeOK, Unpacked, NEW t \in Threads, pc'[t] \notin {"idle", "populate"},
         pc'[t] = "return" => result'[t].status # "SUCCESS",
         UNCHANGED <<call, response, regions>>, OthersUnpack(t)
  PROVE  Unpacked'
<1>1. UnpackInv(t)
  BY DEF Unpacked
<1>2. (Handled(t) /\ ArrayFits(t))'
  BY <1>1 DEF UnpackInv, Handled, ArrayFits
<1>3. UnpackInv(t)'
  BY <1>2 DEF UnpackInv
<1>. QED  BY <1>3, OneUnpacks

\* A call that asks, or cannot, has nothing to unpack yet.
LEMMA AskUnpacks ==
  ASSUME IInv, Unpacked, NEW t \in Threads, NEW db \in Databases,
         NoOffset(t, db) \/ \E size \in BufferSizes : Lookup(t, db, size) \/ GetEnt(t, db, size)
  PROVE  Unpacked'
<1>1. TypeOK /\ UnpackInv(t) /\ Locals(t)
  BY DEF IInv, CallInv, Unpacked
<1>2. CASE NoOffset(t, db)
  <2>1. /\ pc' = [pc EXCEPT ![t] = "return"]
        /\ result' = [result EXCEPT ![t] = [status |-> "UNAVAIL", errno |-> "none"]]
        /\ UNCHANGED <<call, response, todo, members, regions, given>>
    BY <1>2 DEF NoOffset, query, populate
  <2>2. OthersUnpack(t) /\ pc'[t] = "return" /\ result'[t].status = "UNAVAIL"
    BY <1>1, <2>1 DEF OthersUnpack, TypeOK
  <2>. QED  BY <1>1, <2>1, <2>2, NothingUnpacked
<1>3. ASSUME NEW size \in BufferSizes, Lookup(t, db, size) \/ GetEnt(t, db, size)
      PROVE  Unpacked'
  <2>1. PICK kind, field : Ask(t, kind, db, size, field)
    BY <1>3 DEF Lookup, GetEnt
  <2>2. /\ pc[t] = "idle" /\ pc' = [pc EXCEPT ![t] = "query"]
        /\ call' = [call EXCEPT ![t] = [kind |-> kind, db |-> db, size |-> size]]
        /\ UNCHANGED <<response, todo, members, regions, given, result>>
    BY <2>1 DEF Ask, Idle, populate
  <2>3. OthersUnpack(t) /\ pc'[t] = "query"
    BY <1>1, <2>2 DEF OthersUnpack, TypeOK
  <2>4. response[t] = <<>> /\ regions[t] = <<>>
    BY <1>1, <2>2 DEF UnpackInv, Handled, Locals
  <2>5. response'[t] = <<>> /\ regions'[t] = <<>> /\ DOMAIN <<>> = {}
    BY <2>2, <2>4
  <2>6. UnpackInv(t)'
    BY <2>3, <2>5 DEF UnpackInv, Handled, ArrayFits
  <2>. QED  BY <2>3, <2>6, OneUnpacks
<1>. QED  BY <1>2, <1>3

\* append and the accessors set each type once.
LEMMA HandlerUnpacks ==
  ASSUME IInv, Unpacked, NEW t \in Threads, NEW type \in Sent, NEW entry \in Seq(Nat \ {0}),
         Handling(t, type),
         \/ /\ Unset(t, type)
            /\ response' = [response EXCEPT ![t] =
                              Append(response[t], [type |-> type, sizes |-> entry])]
         \/ \E k \in DOMAIN response[t] :
              response' = [response EXCEPT ![t][k].sizes = response[t][k].sizes \o entry],
         UNCHANGED <<pc, call, todo, members, regions, given, result>>
  PROVE  Unpacked'
<1>1. TypeOK /\ UnpackInv(t) /\ Locals(t)
  BY DEF IInv, CallInv, Unpacked
<1>2. response[t] \in Seq(Field) /\ Handled(t) /\ regions[t] = <<>> /\ pc[t] = "query"
  BY <1>1 DEF TypeOK, UnpackInv, Locals, Handling
<1>3. OthersUnpack(t)
  BY <1>1 DEF OthersUnpack, TypeOK
<1>4. CASE /\ Unset(t, type)
           /\ response' = [response EXCEPT ![t] =
                             Append(response[t], [type |-> type, sizes |-> entry])]
  <2>. DEFINE new == [type |-> type, sizes |-> entry]
  <2>1. response'[t] = Append(response[t], new) /\ new.type = type
    BY <1>1, <1>4 DEF TypeOK
  <2>. HIDE DEF new
  <2>2. /\ DOMAIN response'[t] = 1 .. Len(response[t]) + 1 /\ Len(response[t]) \in Nat
        /\ DOMAIN response[t] = 1 .. Len(response[t])
        /\ response'[t][Len(response[t]) + 1] = new
        /\ \A k \in 1 .. Len(response[t]) : response'[t][k] = response[t][k]
    BY <1>2, <2>1
  <2>3. \A k \in DOMAIN response'[t] : k \in DOMAIN response[t] \/ k = Len(response[t]) + 1
    BY <2>2
  <2>4. type \in Types(call[t].db) /\ \A k \in DOMAIN response[t] : response[t][k].type # type
    BY <1>4 DEF Handling, Unset
  <2>5. Handled(t)'
    BY <1>2, <2>1, <2>2, <2>3, <2>4 DEF Handled
  <2>. QED  BY <1>2, <1>3, <2>5, OneUnpacks DEF UnpackInv, ArrayFits
<1>5. ASSUME NEW k \in DOMAIN response[t],
             response' = [response EXCEPT ![t][k].sizes = response[t][k].sizes \o entry]
      PROVE  Unpacked'
  <2>1. /\ DOMAIN response'[t] = DOMAIN response[t]
        /\ \A l \in DOMAIN response[t] : l # k => response'[t][l] = response[t][l]
        /\ response'[t][k].type = response[t][k].type
    BY <1>1, <1>2, <1>5 DEF TypeOK, Field
  <2>2. \A l \in DOMAIN response[t] : response'[t][l].type = response[t][l].type
    BY <2>1
  <2>3. Handled(t)'
    BY <1>2, <2>1, <2>2 DEF Handled
  <2>. QED  BY <1>2, <1>3, <2>3, OneUnpacks DEF UnpackInv, ArrayFits
<1>. QED  BY <1>4, <1>5

\* What was decoded is the start of what the handler set; nothing of it is
\* unpacked when populate starts.
LEMMA RepliedUnpacks ==
  ASSUME IInv, Unpacked, NEW t \in Threads, NEW code \in Codes, pc[t] = "query",
         NEW fields \in Seq(Field), Replied(t, code, fields),
         \A k \in DOMAIN fields : k \in DOMAIN response[t] /\ fields[k] = response[t][k]
  PROVE  Unpacked'
<1>1. TypeOK /\ UnpackInv(t) /\ Locals(t)
  BY DEF IInv, CallInv, Unpacked
<1>2. Handled(t) /\ regions[t] = <<>> /\ members[t] = <<>>
  BY <1>1 DEF UnpackInv, Locals
<1>3. UNCHANGED <<call, members, regions>>
  BY DEF Replied
<1>4. CASE code = "SUCCESS"
  <2>1. /\ pc' = [pc EXCEPT ![t] = "populate"] /\ response' = [response EXCEPT ![t] = fields]
        /\ todo' = [todo EXCEPT ![t] = fields] /\ UNCHANGED result
        /\ given' = [given EXCEPT ![t] = Preset(call[t].db)]
    BY <1>4 DEF Replied
  <2>2. /\ OthersUnpack(t) /\ pc'[t] = "populate" /\ response'[t] = fields
        /\ todo'[t] = fields /\ given'[t] = Preset(call[t].db)
    BY <1>1, <1>3, <2>1 DEF OthersUnpack, TypeOK
  <2>3. Handled(t)'
    BY <1>2, <1>3, <2>2 DEF Handled
  <2>4. LocalGiven(t)'
    BY <1>3, <2>2 DEF LocalGiven, Preset
  <2>5. Passing(t)'
    <3>1. EndOf(fields, fields) /\ Len(fields) - Len(fields) = 0
      BY EndOfAll
    <3>. QED  BY <2>2, <3>1 DEF Passing
  <2>6. Copying(t)' /\ ArrayFits(t)'
    <3>1. members'[t] = <<>> /\ regions'[t] = <<>> /\ DOMAIN <<>> = {}
      BY <1>2, <1>3
    <3>. QED  BY <3>1 DEF Copying, ArrayFits
  <2>. QED  BY <2>2, <2>3, <2>4, <2>5, <2>6, OneUnpacks DEF UnpackInv
<1>5. CASE code # "SUCCESS"
  <2>1. /\ pc' = [pc EXCEPT ![t] = "return"] /\ response' = [response EXCEPT ![t] = <<>>]
        /\ result' = [result EXCEPT ![t] = StatusOf(code)] /\ UNCHANGED <<todo, given>>
    BY <1>5 DEF Replied
  <2>2. /\ OthersUnpack(t) /\ pc'[t] = "return" /\ response'[t] = <<>>
        /\ result'[t] = StatusOf(code)
    BY <1>1, <1>3, <2>1 DEF OthersUnpack, TypeOK
  <2>3. result'[t].status # "SUCCESS"
    BY <2>2 DEF StatusOf
  <2>4. Handled(t)' /\ ArrayFits(t)'
    BY <1>2, <1>3, <2>2 DEF Handled, ArrayFits
  <2>. QED  BY <2>2, <2>3, <2>4, OneUnpacks DEF UnpackInv
<1>. QED  BY <1>4, <1>5

\* Strings, numbers and members are different fields.
LEMMA KindsApart ==
  ASSUME NEW db
  PROVE  /\ Strings(db) \cap Numbers(db) = {}
         /\ "MEMBERS" \notin Strings(db) \cup Numbers(db) /\ "MEMBER" \notin Strings(db)
  BY DEF Strings, Numbers

\* A string that is copied is unpacked.
LEMMA CopyStringUnpacks ==
  ASSUME IInv, Unpacked, NEW t \in Threads, CopyString(t)
  PROVE  Unpacked'
<1>1. TypeOK /\ UnpackInv(t)
  BY DEF IInv, Unpacked
<1>2. /\ pc[t] = "populate" /\ members[t] = <<>> /\ todo[t] # <<>> /\ Field1(t).sizes # <<>>
      /\ Field1(t).type \in Strings(call[t].db)
      /\ Write(t, Field1(t).type, 0, Head(Field1(t).sizes))
      /\ given' = [given EXCEPT ![t] = given[t] \cup {Field1(t).type}]
      /\ todo' = [todo EXCEPT ![t] = Tail(todo[t])]
      /\ UNCHANGED <<pc, call, response, members, result>>
  BY DEF CopyString, Populating, Give, NextField, query
<1>3. /\ given[t] \subseteq given'[t] /\ todo'[t] = Tail(todo[t])
      /\ \A u \in Threads \ {t} : todo'[u] = todo[u] /\ given'[u] = given[u]
  BY <1>1, <1>2 DEF TypeOK
<1>. DEFINE new == Len(regions[t]) + 1
<1>4. /\ Extends(regions[t], regions'[t]) /\ new \in DOMAIN regions'[t]
      /\ \A k \in DOMAIN regions'[t] : k \in DOMAIN regions[t] \/ k = new
      /\ regions'[t][new].type = Field1(t).type
      /\ regions'[t][new].size = Head(Field1(t).sizes)
      /\ \A u \in Threads \ {t} : regions'[u] = regions[u]
  BY <1>1, <1>2, Written
<1>. HIDE DEF new
<1>5. Head(Field1(t).sizes) = Field1(t).sizes[1]
  BY <1>1, <1>2, HeadField
<1>6. /\ Field1(t).type \notin Numbers(call[t].db)
      /\ Field1(t).type \notin {"MEMBERS", "MEMBER"}
  BY <1>2, KindsApart
<1>7. Unpacks(call[t].db, Field1(t), regions'[t], given'[t])
  BY <1>4, <1>5, <1>6 DEF Unpacks
<1>8. ArrayFits(t)'
  BY <1>1, <1>2, <1>4, <1>6 DEF UnpackInv, ArrayFits, Extends
<1>9. Copying(t)'
  BY <1>2 DEF Copying
<1>10. UnpackInv(t)'
  BY <1>1, <1>2, <1>3, <1>4, <1>7, <1>8, <1>9, UnpackStep
<1>11. OthersUnpack(t)
  BY <1>2, <1>3, <1>4 DEF OthersUnpack
<1>. QED  BY <1>10, <1>11, OneUnpacks

\* A number is stored if it has the right width; fields that the database does
\* not have in the structure are unpacked by nothing.
LEMMA NextFieldUnpacks ==
  ASSUME IInv, Unpacked, NEW t \in Threads, StoreNumber(t) \/ IgnoreField(t)
  PROVE  Unpacked'
<1>1. TypeOK /\ UnpackInv(t)
  BY DEF IInv, Unpacked
<1>2. /\ pc[t] = "populate" /\ members[t] = <<>> /\ todo[t] # <<>>
      /\ todo' = [todo EXCEPT ![t] = Tail(todo[t])]
      /\ UNCHANGED <<pc, call, response, members, regions, result>>
  BY DEF StoreNumber, IgnoreField, Populating, NextField, query
<1>3. \/ UNCHANGED given
      \/ given' = [given EXCEPT ![t] = given[t] \cup {Field1(t).type}]
  BY DEF StoreNumber, IgnoreField, Give
<1>4. given[t] \subseteq given'[t] /\ \A u \in Threads \ {t} : given'[u] = given[u]
  BY <1>1, <1>3 DEF TypeOK
<1>5. Field1(t).type \notin Strings(call[t].db) /\ Field1(t).type # "MEMBERS"
  <2>1. CASE StoreNumber(t)
    BY <2>1, KindsApart DEF StoreNumber
  <2>2. CASE IgnoreField(t)
    BY <1>1, <1>2, <2>2, FieldOfResponse DEF IgnoreField, Known
  <2>. QED  BY <2>1, <2>2
<1>6. Field1(t).type \in Numbers(call[t].db) /\ Field1(t).sizes[1] = Width(Field1(t).type) =>
        Field1(t).type \in given'[t]
  <2>1. CASE StoreNumber(t)
    <3>1. Head(Field1(t).sizes) = Field1(t).sizes[1]
      BY <1>1, <1>2, <2>1, HeadField DEF StoreNumber
    <3>. QED  BY <1>1, <2>1, <3>1 DEF StoreNumber, Give, TypeOK
  <2>2. CASE IgnoreField(t)
    BY <2>2 DEF IgnoreField, Known
  <2>. QED  BY <2>1, <2>2
<1>7. Unpacks(call[t].db, Field1(t), regions'[t], given'[t])
  BY <1>5, <1>6 DEF Unpacks
<1>8. Copying(t)' /\ ArrayFits(t)'
  BY <1>1, <1>2 DEF Copying, ArrayFits, UnpackInv
<1>9. todo'[t] = Tail(todo[t]) /\ \A u \in Threads \ {t} : todo'[u] = todo[u]
  BY <1>1, <1>2 DEF TypeOK
<1>10. Extends(regions[t], regions'[t])
  BY <1>2 DEF Extends
<1>11. UnpackInv(t)'
  BY <1>1, <1>2, <1>4, <1>7, <1>8, <1>9, <1>10, UnpackStep
<1>12. OthersUnpack(t)
  BY <1>2, <1>4, <1>9 DEF OthersUnpack
<1>. QED  BY <1>11, <1>12, OneUnpacks

\* A count or an index that entry_count can hold is kept as it is.
LEMMA NotWrapped == \A n \in Nat : n > WordMax \/ n % (WordMax + 1) = n
<1>1. \A n \in 0 .. WordMax : n % (WordMax + 1) = n
  BY WordMaxAssumption
<1>2. \A n \in Nat : n > WordMax \/ n \in 0 .. WordMax
  BY WordMaxAssumption
<1>. QED  BY <1>1, <1>2

\* The array has a slot for each member; then the members are to be copied.
LEMMA ReserveUnpacks ==
  ASSUME IInv, Unpacked, NEW t \in Threads, ReserveMembers(t)
  PROVE  Unpacked'
<1>1. TypeOK /\ UnpackInv(t)
  BY DEF IInv, Unpacked
<1>2. /\ pc[t] = "populate" /\ members[t] = <<>> /\ todo[t] # <<>>
      /\ Field1(t).type = "MEMBERS"
      /\ Write(t, "MEMBERS", MemberCount(t), MemberCount(t) * PointerSize)
      /\ given' = [given EXCEPT ![t] = given[t] \cup {"MEMBERS"}]
      /\ members' = [members EXCEPT ![t] = Field1(t).sizes]
      /\ Field1(t).sizes = <<>> => todo' = [todo EXCEPT ![t] = Tail(todo[t])]
      /\ Field1(t).sizes # <<>> => todo' = todo
      /\ UNCHANGED <<pc, call, response, result>>
  BY DEF ReserveMembers, Populating, Give, NextField, query
<1>3. /\ given[t] \subseteq given'[t] /\ members'[t] = Field1(t).sizes
      /\ \A u \in Threads \ {t} : members'[u] = members[u] /\ given'[u] = given[u]
  BY <1>1, <1>2 DEF TypeOK
<1>4. \A u \in Threads \ {t} : todo'[u] = todo[u]
  BY <1>1, <1>2 DEF TypeOK
<1>. DEFINE new == Len(regions[t]) + 1
<1>5. /\ Extends(regions[t], regions'[t])
      /\ \A k \in DOMAIN regions'[t] : k \in DOMAIN regions[t] \/ k = new
      /\ regions'[t][new].type = "MEMBERS" /\ regions'[t][new].slot = MemberCount(t)
      /\ \A u \in Threads \ {t} : regions'[u] = regions[u]
  BY <1>1, <1>2, Written
<1>. HIDE DEF new
<1>6. Field1(t).sizes \in Seq(Nat \ {0}) /\ Len(Field1(t).sizes) \in Nat
  BY <1>1, <1>2, HeadField
<1>7. Len(Field1(t).sizes) > WordMax \/ MemberCount(t) = Len(Field1(t).sizes)
  BY <1>6, NotWrapped DEF MemberCount
<1>8. ArrayFits(t)'
  <2>1. PICK f \in DOMAIN response[t] : response[t][f] = Field1(t)
    BY <1>1, <1>2, FieldOfResponse
  <2>2. FromField(regions'[t][new], response[t][f])
    BY <1>2, <1>5, <1>7, <2>1 DEF FromField
  <2>. QED  BY <1>1, <1>2, <1>5, <2>2 DEF UnpackInv, ArrayFits, Extends
<1>9. CASE Field1(t).sizes = <<>>
  <2>1. todo'[t] = Tail(todo[t])
    BY <1>1, <1>2, <1>9 DEF TypeOK
  <2>2. Unpacks(call[t].db, Field1(t), regions'[t], given'[t])
    BY <1>2, <1>9, KindsApart DEF Unpacks
  <2>3. Copying(t)'
    BY <1>3, <1>9 DEF Copying
  <2>4. UnpackInv(t)'
    BY <1>1, <1>2, <1>3, <1>5, <1>8, <2>1, <2>2, <2>3, UnpackStep
  <2>. QED  BY <1>2, <1>3, <1>4, <1>5, <2>4, OneUnpacks DEF OthersUnpack
<1>10. CASE Field1(t).sizes # <<>>
  <2>1. todo' = todo /\ Field1(t)' = Field1(t)
    BY <1>2, <1>10 DEF Field1
  <2>2. Copying(t)'
    <3>1. EndOf(Field1(t).sizes, Field1(t).sizes)
          /\ Len(Field1(t).sizes) - Len(Field1(t).sizes) = 0
      BY <1>6, EndOfAll
    <3>2. 1 .. 0 = {}
      OBVIOUS
    <3>. QED  BY <1>2, <1>3, <2>1, <3>1, <3>2 DEF Copying
  <2>3. UnpackInv(t)'
    BY <1>1, <1>2, <1>3, <1>5, <1>8, <2>1, <2>2, UnpackStep
  <2>. QED  BY <1>2, <1>3, <1>4, <1>5, <2>3, OneUnpacks DEF OthersUnpack
<1>. QED  BY <1>9, <1>10

\* A member goes to the slot that its position gives it; the last one
\* completes the field.
LEMMA CopyMemberUnpacks ==
  ASSUME IInv, Unpacked, NEW t \in Threads, CopyMember(t)
  PROVE  Unpacked'
<1>1. TypeOK /\ UnpackInv(t) /\ Locals(t)
  BY DEF IInv, CallInv, Unpacked
<1>2. /\ pc[t] = "populate" /\ members[t] # <<>>
      /\ Write(t, "MEMBER", Slot(t), Head(members[t]))
      /\ members' = [members EXCEPT ![t] = Tail(members[t])]
      /\ Len(members[t]) = 1 => todo' = [todo EXCEPT ![t] = Tail(todo[t])]
      /\ Len(members[t]) # 1 => todo' = todo
      /\ UNCHANGED <<pc, call, response, given, result>>
  BY DEF CopyMember, NextField, query
<1>3. todo[t] # <<>> /\ members[t] \in Seq(Nat \ {0}) /\ Copying(t)
  BY <1>1, <1>2 DEF Locals, TypeOK, UnpackInv
<1>. DEFINE f == Field1(t)
            c == Len(f.sizes) - Len(members[t])
            new == Len(regions[t]) + 1
<1>4. f.sizes \in Seq(Nat \ {0}) /\ Len(f.sizes) \in Nat
  BY <1>1, <1>3, HeadField
<1>5. /\ Extends(regions[t], regions'[t]) /\ new \in DOMAIN regions'[t]
      /\ \A k \in DOMAIN regions'[t] : k \in DOMAIN regions[t] \/ k = new
      /\ regions'[t][new].type = "MEMBER" /\ regions'[t][new].slot = Slot(t)
      /\ regions'[t][new].size = Head(members[t])
      /\ \A u \in Threads \ {t} : regions'[u] = regions[u]
  BY <1>1, <1>2, Written
<1>. HIDE DEF new
<1>6. /\ f.type = "MEMBERS" /\ EndOf(members[t], f.sizes)
      /\ Len(f.sizes) <= WordMax =>
           \A n \in 1 .. c : HasMember(regions[t], n - 1, f.sizes[n])
  BY <1>2, <1>3 DEF Copying
<1>7. /\ EndOf(Tail(members[t]), f.sizes) /\ Len(f.sizes) - Len(Tail(members[t])) = c + 1
      /\ c + 1 \in DOMAIN f.sizes /\ Head(members[t]) = f.sizes[c + 1]
  <2>1. \A r, s \in Seq(Nat \ {0}) : s # <<>> /\ EndOf(s, r) =>
          /\ EndOf(Tail(s), r) /\ Len(r) - Len(Tail(s)) = Len(r) - Len(s) + 1
          /\ Len(r) - Len(s) + 1 \in DOMAIN r /\ Head(s) = r[Len(r) - Len(s) + 1]
    BY EndMoves
  <2>. QED  BY <1>2, <1>3, <1>4, <1>6, <2>1
<1>8. c \in Nat /\ c < Len(f.sizes) /\ Slot(t) = c % (WordMax + 1)
  <2>1. c \in Int /\ Slot(t) = c % (WordMax + 1)
    BY <1>3, <1>4 DEF Slot
  <2>2. DOMAIN f.sizes = 1 .. Len(f.sizes)
    BY <1>4
  <2>. HIDE DEF c, f
  <2>. QED  BY <1>4, <1>7, <2>1, <2>2
<1>9. Len(f.sizes) > WordMax \/ Slot(t) = c
  <2>1. Len(f.sizes) > WordMax \/ ~(c > WordMax)
    <3>. HIDE DEF c
    <3>. QED  BY <1>4, <1>8, WordMaxAssumption
  <2>. QED  BY <1>8, <2>1, NotWrapped
<1>10. members'[t] = Tail(members[t]) /\ \A u \in Threads \ {t} : members'[u] = members[u]
  BY <1>1, <1>2 DEF TypeOK
<1>11. \A u \in Threads \ {t} : todo'[u] = todo[u]
  BY <1>1, <1>2 DEF TypeOK
<1>12. ArrayFits(t)'
  <2>1. PICK k \in DOMAIN response[t] : response[t][k] = f
    BY <1>1, <1>2, <1>3, FieldOfResponse
  <2>2. FromField(regions'[t][new], response[t][k])
    <3>. HIDE DEF c
    <3>. QED  BY <1>5, <1>6, <1>8, <1>9, <2>1 DEF FromField
  <2>. QED  BY <1>1, <1>2, <1>5, <2>2 DEF UnpackInv, ArrayFits, Extends
<1>13. Len(f.sizes) <= WordMax =>
         \A n \in 1 .. c + 1 : HasMember(regions'[t], n - 1, f.sizes[n])
  <2>. SUFFICES ASSUME Len(f.sizes) <= WordMax, NEW n \in 1 .. c + 1
                PROVE  HasMember(regions'[t], n - 1, f.sizes[n])
    OBVIOUS
  <2>1. CASE n = c + 1
    <3>1. Slot(t) = n - 1
      <4>. HIDE DEF c
      <4>. QED  BY <1>4, <1>8, <1>9, <2>1, WordMaxAssumption
    <3>. QED  BY <1>5, <1>7, <2>1, <3>1 DEF HasMember
  <2>2. CASE n \in 1 .. c
    <3>1. HasMember(regions[t], n - 1, f.sizes[n])
      BY <1>6, <2>2
    <3>. QED  BY <1>5, <3>1 DEF HasMember, Extends
  <2>3. n \in 1 .. c \/ n = c + 1
    <3>. HIDE DEF c
    <3>. QED  BY <1>8
  <2>. QED  BY <2>1, <2>2, <2>3
<1>14. Len(Tail(members[t])) = Len(members[t]) - 1 /\ Len(members[t]) \in Nat
       /\ Tail(members[t]) \in Seq(Nat \ {0})
  BY <1>2, <1>3, HeadTailProperties
<1>15. CASE Len(members[t]) = 1
  <2>1. todo'[t] = Tail(todo[t]) /\ Tail(members[t]) = <<>> /\ c + 1 = Len(f.sizes)
    <3>1. todo'[t] = Tail(todo[t])
      BY <1>1, <1>2, <1>15 DEF TypeOK
    <3>2. Len(Tail(members[t])) = 0
      BY <1>14, <1>15
    <3>3. Tail(members[t]) = <<>>
      BY <3>2, <1>14, EmptySeq
    <3>. QED  BY <3>1, <3>3, <1>4, <1>15
  <2>2. DOMAIN f.sizes = 1 .. Len(f.sizes)
    BY <1>4
  <2>3. Unpacks(call[t].db, f, regions'[t], given'[t])
    <3>. HIDE DEF c, f
    <3>. QED  BY <1>6, <1>13, <2>1, <2>2, KindsApart DEF Unpacks
  <2>4. Copying(t)'
    BY <1>10, <2>1 DEF Copying
  <2>5. UnpackInv(t)'
    BY <1>1, <1>2, <1>3, <1>5, <1>12, <2>1, <2>3, <2>4, UnpackStep
  <2>. QED  BY <1>2, <1>5, <1>10, <1>11, <2>5, OneUnpacks DEF OthersUnpack
<1>16. CASE Len(members[t]) # 1
  <2>1. todo' = todo /\ Field1(t)' = f
    BY <1>2, <1>16 DEF Field1
  <2>2. Copying(t)'
    <3>. HIDE DEF c, f
    <3>. QED  BY <1>6, <1>7, <1>10, <1>13, <2>1 DEF Copying
  <2>3. UnpackInv(t)'
    BY <1>1, <1>2, <1>5, <1>12, <2>1, <2>2, UnpackStep
  <2>. QED  BY <1>2, <1>5, <1>10, <1>11, <2>3, OneUnpacks DEF OthersUnpack
<1>. QED  BY <1>15, <1>16

\* populate returns: with success only when no field is left.
LEMMA PopulatedUnpacks ==
  ASSUME IInv, Unpacked, NEW t \in Threads, NoEntry(t) \/ NoRoom(t) \/ AllFields(t)
  PROVE  Unpacked'
<1>1. TypeOK /\ UnpackInv(t) /\ pc[t] = "populate"
  BY DEF IInv, Unpacked, NoEntry, NoRoom, AllFields, Populating
<1>2. PICK status, errno :
        /\ Populated(t, status, errno)
        /\ status = "SUCCESS" => todo[t] = <<>>
  BY DEF NoEntry, NoRoom, AllFields
<1>3. /\ pc' = [pc EXCEPT ![t] = "return"]
      /\ result' = [result EXCEPT ![t] = [status |-> status, errno |-> errno]]
      /\ UNCHANGED <<call, response, todo, members, regions, given>>
  BY <1>2 DEF Populated, query, populate
<1>4. OthersUnpack(t) /\ pc'[t] = "return" /\ result'[t].status = status
  BY <1>1, <1>3 DEF OthersUnpack, TypeOK
<1>5. CASE status # "SUCCESS"
  BY <1>1, <1>3, <1>4, <1>5, NothingUnpacked
<1>6. CASE status = "SUCCESS"
  <2>1. Handled(t) /\ ArrayFits(t) /\ LocalGiven(t) /\ Passing(t)
    BY <1>1 DEF UnpackInv
  <2>2. (Handled(t) /\ ArrayFits(t) /\ LocalGiven(t))'
    BY <1>3, <1>4, <2>1 DEF Handled, ArrayFits, LocalGiven
  <2>3. response[t] \in Seq(Field) /\ Len(todo[t]) = 0
    BY <1>1, <1>2, <1>6 DEF TypeOK
  <2>4. DOMAIN response[t] = 1 .. Len(response[t]) - Len(todo[t])
    BY <2>3
  <2>5. \A k \in DOMAIN response[t] : Unpacks(call[t].db, response[t][k], regions[t], given[t])
    BY <2>1, <2>4 DEF Passing
  <2>6. UnpackInv(t)'
    BY <1>3, <1>4, <2>2, <2>5 DEF UnpackInv
  <2>. QED  BY <1>4, <2>6, OneUnpacks
<1>. QED  BY <1>5, <1>6

\* A call that has returned leaves nothing behind.
LEMMA ReturnUnpacks ==
  ASSUME IInv, Unpacked, NEW t \in Threads, Return(t)
  PROVE  Unpacked'
<1>1. TypeOK
  BY DEF IInv
<1>2. /\ OthersUnpack(t) /\ pc'[t] = "idle" /\ response'[t] = <<>> /\ regions'[t] = <<>>
  BY <1>1 DEF Return, OthersUnpack, TypeOK
<1>3. DOMAIN <<>> = {}
  OBVIOUS
<1>4. UnpackInv(t)'
  BY <1>2, <1>3 DEF UnpackInv, Handled, ArrayFits
<1>. QED  BY <1>2, <1>4, OneUnpacks

\* At first no thread has called.
LEMMA UnpackedInit == Init => Unpacked
<1>1. DOMAIN <<>> = {}
  OBVIOUS
<1>. QED  BY <1>1 DEF Init, Unpacked, UnpackInv, Handled, ArrayFits

\* Every step keeps what is unpacked.
LEMMA UnpackedStep == IInv /\ Unpacked /\ [Next]_vars => Unpacked'
<1>. SUFFICES ASSUME IInv, Unpacked, [Next]_vars PROVE Unpacked'  OBVIOUS
<1>1. ASSUME NEW t \in Threads, NEW db \in Databases,
             \/ NoOffset(t, db)
             \/ \E size \in BufferSizes : Lookup(t, db, size) \/ GetEnt(t, db, size)
      PROVE  Unpacked'
  BY <1>1, AskUnpacks
<1>2. ASSUME UNCHANGED <<pc, call, response, todo, members, regions, given, result>>
      PROVE  Unpacked'
  BY <1>2, SameUnpacks DEF Unpacked
<1>3. ASSUME NEW t \in Threads, NEW type \in Sent, NEW size \in Sizes \cup {1, 4},
             SetField(t, type, size)
      PROVE  Unpacked'
  <2>1. <<size>> \in Seq(Nat \ {0})
    BY SizesAssumption
  <2>. QED  BY <1>3, <2>1, HandlerUnpacks DEF SetField, populate
<1>4. ASSUME NEW t \in Threads, NEW type \in Sent, NEW entry \in Seq(Nat \ {0}),
             AddEntry(t, type, entry)
      PROVE  Unpacked'
  BY <1>4, HandlerUnpacks DEF AddEntry, populate
<1>5. ASSUME NEW t \in Threads, NEW code \in Codes, Answer(t, code)
      PROVE  Unpacked'
  <2>1. response[t] \in Seq(Field)
    BY DEF IInv, TypeOK
  <2>. QED  BY <1>5, <2>1, RepliedUnpacks DEF Answer
<1>6. ASSUME NEW t \in Threads, QueryFails(t)
      PROVE  Unpacked'
  <2>1. response[t] \in Seq(Field) /\ pc[t] = "query"
    BY <1>6 DEF IInv, TypeOK, QueryFails
  <2>2. CASE Replied(t, "FAIL", <<>>)
    <3>1. <<>> \in Seq(Field) /\ "FAIL" \in Codes /\ DOMAIN <<>> = {}
      BY DEF Codes
    <3>. QED  BY <2>1, <2>2, <3>1, RepliedUnpacks
  <2>3. ASSUME NEW code \in Codes, NEW k \in 0 .. Len(response[t]),
               Replied(t, code, SubSeq(response[t], 1, k))
        PROVE  Unpacked'
    <3>. DEFINE fields == SubSeq(response[t], 1, k)
    <3>1. k \in Nat /\ Len(response[t]) \in Nat /\ \A n \in 1 .. k : response[t][n] \in Field
      BY <2>1
    <3>2. fields \in Seq(Field)
      BY <2>1, <3>1
    <3>3. DOMAIN fields = 1 .. k /\ \A n \in 1 .. k : fields[n] = response[t][n]
      BY <2>1, <3>1
    <3>4. \A n \in DOMAIN fields : n \in DOMAIN response[t] /\ fields[n] = response[t][n]
      BY <2>1, <3>1, <3>3
    <3>. HIDE DEF fields
    <3>5. Replied(t, code, fields)
      BY <2>3 DEF fields
    <3>. QED  BY <2>1, <3>2, <3>4, <3>5, RepliedUnpacks
  <2>. QED  BY <1>6, <2>2, <2>3 DEF QueryFails
<1>7. ASSUME NEW t \in Threads, Step(t) PROVE Unpacked'
  <2>1. ASSUME NEW type \in Sent,
               AddEntry(t, type, <<>>) \/ \E size \in Sizes : AddEntry(t, type, <<size>>)
        PROVE  Unpacked'
    <3>1. <<>> \in Seq(Nat \ {0}) /\ \A size \in Sizes : <<size>> \in Seq(Nat \ {0})
      BY SizesAssumption
    <3>. QED  BY <2>1, <3>1, <1>4
  <2>. QED  BY <1>3, <2>1, <1>5, <1>6, <1>7, CopyStringUnpacks, NextFieldUnpacks,
               ReserveUnpacks, CopyMemberUnpacks, PopulatedUnpacks, ReturnUnpacks DEF Step
<1>8. ASSUME NEW t \in Threads, NEW db \in Databases, SetEnt(t, db) \/ EndEnt(t, db)
      PROVE  Unpacked'
  BY <1>2, <1>8 DEF SetEnt, EndEnt, query, populate
<1>9. CASE UNCHANGED vars
  BY <1>2, <1>9 DEF vars, query, populate
<1>. QED  BY <1>1, <1>7, <1>8, <1>9 DEF Next

\* The invariant of all calls, with what populate has unpacked.
THEOREM UnpackInvariance == Spec => [](IInv /\ Unpacked)
<1>. QED  BY IInvInit, IInvStep, UnpackedInit, UnpackedStep, PTL DEF Spec

-----------------------------------------------------------------------------
(* What the handler set *)

\* A response that arrived by a query that succeeded is what the handler set,
\* and stays it until the call returns.
Arrived(t) ==
    IF pc[t] \in {"populate", "return"} THEN answer[t] \in {NULL, response[t]}
    ELSE answer[t] = NULL

ArrivedInv == \A t \in Threads : Arrived(t)

\* A step of one thread leaves the others' responses alone.
LEMMA OneArrives ==
  ASSUME ArrivedInv, NEW t \in Threads, Arrived(t)',
         \A u \in Threads \ {t} :
           pc'[u] = pc[u] /\ response'[u] = response[u] /\ answer'[u] = answer[u]
  PROVE  ArrivedInv'
  BY DEF ArrivedInv, Arrived

\* A query that succeeds leaves the response as the handler built it, one that
\* fails leaves no answer.
LEMMA ReplyArrives ==
  ASSUME TypeOK, ArrivedInv, NEW t \in Threads,
         QueryFails(t) \/ \E code \in Codes : Answer(t, code)
  PROVE  ArrivedInv'
<1>1. pc[t] = "query" /\ answer[t] = NULL
  BY DEF Answer, QueryFails, ArrivedInv, Arrived
<1>2. PICK code, fields :
        /\ Replied(t, code, fields)
        /\ \/ fields = response[t] /\ code = "SUCCESS" /\ answer' = [answer EXCEPT ![t] = fields]
           \/ answer' = [answer EXCEPT ![t] = NULL]
           \/ answer' = answer
  BY DEF Answer, QueryFails, Codes
<1>3. /\ pc' \in {[pc EXCEPT ![t] = "populate"], [pc EXCEPT ![t] = "return"]}
      /\ code = "SUCCESS" => response' = [response EXCEPT ![t] = fields]
      /\ code # "SUCCESS" => response' = [response EXCEPT ![t] = <<>>]
  BY <1>2 DEF Replied
<1>4. /\ pc'[t] \in {"populate", "return"} /\ answer'[t] \in {NULL, response'[t]}
      /\ \A u \in Threads \ {t} :
           pc'[u] = pc[u] /\ response'[u] = response[u] /\ answer'[u] = answer[u]
  BY <1>1, <1>2, <1>3 DEF TypeOK
<1>. QED  BY <1>4, OneArrives DEF Arrived

\* The handler adds to a response that has not arrived.
LEMMA HandlerArrives ==
  ASSUME TypeOK, ArrivedInv, NEW t \in Threads, NEW type, Handling(t, type),
         \E fields : response' = [response EXCEPT ![t] = fields],
         UNCHANGED <<pc, answer>>
  PROVE  ArrivedInv'
<1>1. \A u \in Threads \ {t} : response'[u] = response[u]
  BY DEF TypeOK
<1>2. pc'[t] = "query" /\ answer'[t] = NULL
  BY DEF Handling, ArrivedInv, Arrived
<1>. QED  BY <1>1, <1>2, OneArrives DEF Arrived

\* Every step keeps what arrived.
LEMMA ArrivedStep == TypeOK /\ ArrivedInv /\ [Next]_vars => ArrivedInv'
<1>. SUFFICES ASSUME TypeOK, ArrivedInv, [Next]_vars PROVE ArrivedInv'  OBVIOUS
<1>1. ASSUME UNCHANGED <<pc, response, answer>> PROVE ArrivedInv'
  BY <1>1 DEF ArrivedInv, Arrived
<1>2. ASSUME NEW t \in Threads, NEW db \in Databases,
             \/ NoOffset(t, db)
             \/ \E size \in BufferSizes : Lookup(t, db, size) \/ GetEnt(t, db, size)
      PROVE  ArrivedInv'
  <2>1. /\ pc[t] = "idle" /\ pc' \in {[pc EXCEPT ![t] = "query"], [pc EXCEPT ![t] = "return"]}
        /\ UNCHANGED <<response, answer>>
    BY <1>2 DEF NoOffset, Lookup, GetEnt, Ask, Idle, query
  <2>2. /\ answer'[t] = NULL
        /\ \A u \in Threads \ {t} : pc'[u] = pc[u]
    BY <2>1 DEF ArrivedInv, Arrived, TypeOK
  <2>. QED  BY <2>1, <2>2, OneArrives DEF Arrived
<1>3. ASSUME NEW t \in Threads, NEW type, NEW size, SetField(t, type, size)
      PROVE  ArrivedInv'
  BY <1>3, HandlerArrives DEF SetField
<1>4. ASSUME NEW t \in Threads, NEW type, NEW entry, AddEntry(t, type, entry)
      PROVE  ArrivedInv'
  <2>1. \E fields : response' = [response EXCEPT ![t] = fields]
    BY <1>4 DEF AddEntry
  <2>. QED  BY <1>4, <2>1, HandlerArrives DEF AddEntry
<1>5. ASSUME NEW t \in Threads, QueryFails(t) \/ \E code \in Codes : Answer(t, code)
      PROVE  ArrivedInv'
  BY <1>5, ReplyArrives
<1>6. ASSUME NEW t \in Threads,
             \/ CopyString(t) \/ StoreNumber(t) \/ ReserveMembers(t) \/ CopyMember(t)
             \/ IgnoreField(t)
      PROVE  ArrivedInv'
  BY <1>1, <1>6 DEF CopyString, StoreNumber, ReserveMembers, CopyMember, IgnoreField, query
<1>7. ASSUME NEW t \in Threads, NoEntry(t) \/ NoRoom(t) \/ AllFields(t)
      PROVE  ArrivedInv'
  <2>1. /\ pc[t] = "populate" /\ pc' = [pc EXCEPT ![t] = "return"]
        /\ UNCHANGED <<response, answer>>
    BY <1>7 DEF NoEntry, NoRoom, AllFields, Populating, Populated, query
  <2>2. pc'[t] = "return" /\ \A u \in Threads \ {t} : pc'[u] = pc[u]
    BY <2>1 DEF TypeOK
  <2>. QED  BY <2>1, <2>2, OneArrives DEF ArrivedInv, Arrived
<1>8. ASSUME NEW t \in Threads, Return(t) PROVE ArrivedInv'
  <2>1. /\ pc'[t] = "idle" /\ answer'[t] = NULL
        /\ \A u \in Threads \ {t} :
             pc'[u] = pc[u] /\ response'[u] = response[u] /\ answer'[u] = answer[u]
    BY <1>8 DEF Return, TypeOK
  <2>. QED  BY <2>1, OneArrives DEF Arrived
<1>9. ASSUME NEW t \in Threads, NEW db \in Databases, SetEnt(t, db) \/ EndEnt(t, db)
      PROVE  ArrivedInv'
  BY <1>1, <1>9 DEF SetEnt, EndEnt, query
<1>10. ASSUME NEW t \in Threads, Step(t) PROVE ArrivedInv'
  BY <1>3, <1>4, <1>5, <1>6, <1>7, <1>8, <1>10 DEF Step
<1>11. CASE UNCHANGED vars
  BY <1>1, <1>11 DEF vars, query
<1>. QED  BY <1>2, <1>9, <1>10, <1>11 DEF Next

\* What populate unpacks of a query that succeeded is what the handler set.
LEMMA ArrivedInvariance == Spec => []ArrivedInv
<1>1. Init => ArrivedInv
  BY DEF Init, ArrivedInv, Arrived
<1>2. TypeOK /\ ArrivedInv /\ [Next]_vars => ArrivedInv'
  BY ArrivedStep
<1>. QED  BY <1>1, <1>2, TypeCorrect, PTL DEF Spec

\* getpwnam_r, getaliasent_r and the others return NSS_STATUS_SUCCESS after a
\* query that succeeded only with every field the handler set where the caller
\* looks for it: strings at full size, numbers, the local flag, and each member
\* in its slot.  After a query that failed half way the same holds of the
\* fields decoded before the failure, which may be none.
THEOREM SuccessIsUnpacked == Spec => []SuccessIsWhole
<1>1. Unpacked /\ ArrivedInv => SuccessIsWhole
  <2>. SUFFICES ASSUME Unpacked, ArrivedInv, NEW t \in Threads, pc[t] = "return",
                       result[t].status = "SUCCESS"
                PROVE  LET fields == IF answer[t] = NULL THEN response[t] ELSE answer[t] IN
                       /\ call[t].db = "aliases" => "LOCAL" \in given[t]
                       /\ \A k \in DOMAIN fields : IsUnpacked(t, fields[k])
    BY DEF SuccessIsWhole
  <2>1. (IF answer[t] = NULL THEN response[t] ELSE answer[t]) = response[t]
    BY DEF ArrivedInv, Arrived
  <2>2. /\ LocalGiven(t)
        /\ \A k \in DOMAIN response[t] :
             Unpacks(call[t].db, response[t][k], regions[t], given[t])
    BY DEF Unpacked, UnpackInv
  <2>3. ASSUME NEW k \in DOMAIN response[t] PROVE IsUnpacked(t, response[t][k])
    BY <2>2 DEF IsUnpacked, Unpacks, HasMember, Regions
  <2>. QED  BY <2>1, <2>2, <2>3 DEF LocalGiven
<1>. QED  BY <1>1, UnpackInvariance, ArrivedInvariance, PTL

\* The pointers to members stay in the array that aliases' populate reserved
\* for entry_count of them, when entry_count can hold their number.
THEOREM SlotsStayInArray == Spec => []SlotsInArray
<1>1. Unpacked => SlotsInArray
  <2>. SUFFICES ASSUME Unpacked, NEW t \in Threads,
                       NEW m \in Regions(t, "MEMBER"), NEW a \in Regions(t, "MEMBERS")
                PROVE  \/ regions[t][m].slot < regions[t][a].slot
                       \/ \E k \in DOMAIN response[t] : Len(response[t][k].sizes) > WordMax
    BY DEF SlotsInArray
  <2>1. Handled(t) /\ ArrayFits(t)
    BY DEF Unpacked, UnpackInv
  <2>2. /\ m \in DOMAIN regions[t] /\ regions[t][m].type = "MEMBER"
        /\ a \in DOMAIN regions[t] /\ regions[t][a].type = "MEMBERS"
    BY DEF Regions
  <2>3. PICK k \in DOMAIN response[t] : FromField(regions[t][m], response[t][k])
    BY <2>1, <2>2 DEF ArrayFits
  <2>4. PICK l \in DOMAIN response[t] : FromField(regions[t][a], response[t][l])
    BY <2>1, <2>2 DEF ArrayFits
  <2>5. k = l
    BY <2>1, <2>3, <2>4 DEF Handled, FromField
  <2>. QED  BY <2>2, <2>3, <2>4, <2>5 DEF FromField
<1>. QED  BY <1>1, UnpackInvariance, PTL
-----------------------------------------------------------------------------
(* What populate has room for *)

\* The fields that populate has passed.
Passed(t) == Len(response[t]) - Len(todo[t])

\* Where the cursor stands: behind what the fields passed need, and within a
\* field behind the array and the members copied.
Reached(t) ==
    IF members[t] = <<>> THEN Sums(Needs(t))[Passed(t)]
    ELSE Sums(Needs(t))[Passed(t)] + MemberCount(t) * PointerSize
           + Sums(Field1(t).sizes)[Len(Field1(t).sizes) - Len(members[t])]

MeasureInv(t) ==
    /\ pc[t] = "populate" => cursor[t] = Reached(t) /\ cursor[t] <= call[t].size
    /\ pc[t] = "return" =>
         /\ result[t].errno = "ERANGE" => Total(Needs(t)) > call[t].size
         /\ result[t].status = "SUCCESS" => Total(Needs(t)) <= call[t].size

Measured == \A t \in Threads : MeasureInv(t)

\* Sizes are natural numbers, and a field's need is one.
LEMMA FieldNeed ==
  ASSUME NEW db, NEW f \in Field
  PROVE  f.sizes \in Seq(Nat) /\ FieldBytes(db, f) \in Nat
<1>1. f.sizes \in Seq(Nat \ {0}) /\ Len(f.sizes) \in Nat
  BY DEF Field
<1>2. f.sizes \in Seq(Nat)
  BY <1>1
<1>3. Total(f.sizes) \in Nat
  BY <1>1, <1>2, SumsAre DEF Total
<1>4. (Len(f.sizes) % (WordMax + 1)) * PointerSize \in Nat
  <2>1. Len(f.sizes) % (WordMax + 1) \in Nat
    <3>1. Len(f.sizes) \in Int
      BY <1>1
    <3>. QED  BY <3>1, Wrapped, Zenon
  <2>2. \A a, b \in Nat : a * b \in Nat
    OBVIOUS
  <2>. QED  BY <2>1, <2>2, PointerSizeAssumption
<1>5. f.sizes # <<>> => f.sizes[1] \in Nat
  BY <1>2, EmptySeq
<1>. QED  BY <1>2, <1>3, <1>4, <1>5 DEF FieldBytes

\* What a response needs, field by field.
LEMMA NeedsAre ==
  ASSUME TypeOK, NEW t \in Threads
  PROVE  /\ Needs(t) \in Seq(Nat) /\ Len(Needs(t)) = Len(response[t])
         /\ Sums(Needs(t)) \in [0 .. Len(response[t]) -> Nat]
         /\ \A k \in DOMAIN response[t] : Needs(t)[k] = FieldBytes(call[t].db, response[t][k])
<1>1. response[t] \in Seq(Field)
  BY DEF TypeOK
<1>2. Len(response[t]) \in Nat /\ DOMAIN response[t] = 1 .. Len(response[t])
      /\ \A k \in DOMAIN response[t] : response[t][k] \in Field
  BY <1>1
<1>3. Needs(t) \in [1 .. Len(response[t]) -> Nat]
  BY <1>2, FieldNeed DEF Needs
<1>4. Needs(t) \in Seq(Nat) /\ Len(Needs(t)) = Len(response[t])
  BY <1>2, <1>3
<1>. QED  BY <1>4, SumsAre DEF Needs

\* The field that populate looks at adds its need to what was passed.
LEMMA NextNeed ==
  ASSUME TypeOK, NEW t \in Threads, UnpackInv(t), pc[t] = "populate", todo[t] # <<>>
  PROVE  /\ Field1(t) \in Field
         /\ Passed(t) \in Nat /\ Passed(t) + 1 \in DOMAIN response[t]
         /\ Len(response[t]) - Len(Tail(todo[t])) = Passed(t) + 1
         /\ Sums(Needs(t))[Passed(t) + 1]
              = Sums(Needs(t))[Passed(t)] + FieldBytes(call[t].db, Field1(t))
         /\ Sums(Needs(t))[Passed(t) + 1] <= Total(Needs(t))
<1>. DEFINE n == Passed(t)
            N == Needs(t)
<1>1. response[t] \in Seq(Field) /\ todo[t] \in Seq(Field) /\ EndOf(todo[t], response[t])
  BY DEF TypeOK, UnpackInv, Passing
<1>2. /\ Len(response[t]) - Len(Tail(todo[t])) = n + 1
      /\ n + 1 \in DOMAIN response[t] /\ Field1(t) = response[t][n + 1]
  BY <1>1, EndMoves DEF Field1, Passed
<1>3. n \in Nat /\ Len(response[t]) \in Nat /\ DOMAIN response[t] = 1 .. Len(response[t])
  BY <1>1 DEF Passed, EndOf
<1>4. /\ N \in Seq(Nat) /\ Len(N) = Len(response[t])
      /\ N[n + 1] = FieldBytes(call[t].db, Field1(t))
  BY <1>2, NeedsAre
<1>5. Field1(t) \in Field
  BY <1>1, <1>2
<1>. HIDE DEF n, N
<1>6. n + 1 \in 1 .. Len(N) /\ (n + 1) - 1 = n /\ Len(N) \in 0 .. Len(N) /\ n + 1 \in 0 .. Len(N)
      /\ n + 1 <= Len(N)
  <2>1. n + 1 \in 1 .. Len(N)
    BY <1>2, <1>3, <1>4
  <2>2. Len(N) \in Nat
    BY <1>3, <1>4
  <2>. QED  BY ONLY <1>3, <2>1, <2>2
<1>7. Sums(N)[n + 1] = Sums(N)[n] + N[n + 1]
  BY <1>4, <1>6, SumsAre
<1>8. Sums(N)[n + 1] <= Sums(N)[Len(N)]
  BY <1>4, <1>6, SumsGrow
<1>. QED  BY <1>2, <1>3, <1>4, <1>5, <1>7, <1>8 DEF n, N, Total

\* The place of u's cursor stays while its call stands still.
LEMMA SameMeasure ==
  ASSUME NEW u \in Threads, MeasureInv(u),
         pc'[u] = pc[u], call'[u] = call[u], response'[u] = response[u],
         todo'[u] = todo[u], members'[u] = members[u], cursor'[u] = cursor[u],
         result'[u] = result[u]
  PROVE  MeasureInv(u)'
<1>1. /\ Needs(u)' = Needs(u) /\ Passed(u)' = Passed(u)
      /\ Field1(u)' = Field1(u) /\ MemberCount(u)' = MemberCount(u)
  BY DEF Needs, Passed, Field1, MemberCount
<1>2. Reached(u)' = Reached(u)
  BY <1>1 DEF Reached
<1>. QED  BY <1>1, <1>2 DEF MeasureInv

\* For a step of t, what concerns t is left to show.
LEMMA OneMeasures ==
  ASSUME Measured, NEW t \in Threads, OthersUnpack(t),
         \A u \in Threads \ {t} : cursor'[u] = cursor[u], MeasureInv(t)'
  PROVE  Measured'
<1>1. \A u \in Threads \ {t} : MeasureInv(u)'
  BY SameMeasure DEF Measured, OthersUnpack
<1>. QED  BY <1>1 DEF Measured

\* Sizes and places in the buffer are numbers, and so is the size of an array.
LEMMA BufferNumbers ==
  ASSUME TypeOK, NEW t \in Threads
  PROVE  /\ call[t].size \in Nat /\ cursor[t] \in Nat
         /\ todo[t] # <<>> => MemberCount(t) * PointerSize \in Nat
<1>1. call[t] \in [kind : {"none", "lookup", "entities"}, db : Databases,
                   size : BufferSizes \cup {0}]
  BY DEF TypeOK
<1>2. call[t].size \in Nat
  <2>1. call[t].size \in BufferSizes \cup {0}
    BY <1>1
  <2>2. CASE call[t].size \in BufferSizes
    BY <2>2, BufferSizesAssumption, Zenon
  <2>3. CASE call[t].size = 0
    BY <2>3
  <2>. QED  BY <2>1, <2>2, <2>3
<1>3. cursor[t] \in Nat
  BY DEF TypeOK
<1>4. ASSUME todo[t] # <<>> PROVE MemberCount(t) * PointerSize \in Nat
  <2>1. MemberCount(t) \in Nat
    <3>1. Len(Field1(t).sizes) \in Int
      BY <1>4, HeadField
    <3>. QED  BY <3>1, Wrapped DEF MemberCount
  <2>. DEFINE count == MemberCount(t)
  <2>. HIDE DEF count
  <2>2. count \in Nat => count * PointerSize \in Nat
    BY PointerSizeAssumption
  <2>. QED  BY <2>1, <2>2 DEF count
<1>. QED  BY <1>2, <1>3, <1>4

\* A step that passes a field and takes what it needs.
LEMMA PassMeasures ==
  ASSUME TypeOK, Unpacked, Measured, NEW t \in Threads, pc[t] = "populate", members[t] = <<>>,
         todo[t] # <<>>, todo' = [todo EXCEPT ![t] = Tail(todo[t])],
         members'[t] = <<>>, UNCHANGED <<pc, call, response, result>>,
         cursor'[t] = cursor[t] + FieldBytes(call[t].db, Field1(t)), cursor'[t] <= call[t].size
  PROVE  MeasureInv(t)'
<1>1. UnpackInv(t) /\ MeasureInv(t)
  BY DEF Unpacked, Measured
<1>2. todo'[t] = Tail(todo[t])
  BY DEF TypeOK
<1>3. cursor[t] = Sums(Needs(t))[Passed(t)]
  BY <1>1 DEF MeasureInv, Reached
<1>4. Needs(t)' = Needs(t) /\ Passed(t)' = Passed(t) + 1
  BY <1>1, <1>2, NextNeed DEF Needs, Passed
<1>5. cursor'[t] = Reached(t)'
  BY <1>1, <1>3, <1>4, NextNeed DEF Reached
<1>. QED  BY <1>5 DEF MeasureInv

\* What a write does to the cursor.
LEMMA WriteMoves ==
  ASSUME TypeOK, NEW t \in Threads, NEW type, NEW slot, NEW length, Write(t, type, slot, length)
  PROVE  /\ cursor'[t] = cursor[t] + length /\ cursor'[t] <= call[t].size
         /\ \A u \in Threads \ {t} : cursor'[u] = cursor[u]
  BY DEF TypeOK, Write, Fits, NextCursor

\* A string takes its size.
LEMMA CopyStringMeasures ==
  ASSUME TypeOK, Unpacked, Measured, NEW t \in Threads, CopyString(t)
  PROVE  MeasureInv(t)' /\ \A u \in Threads \ {t} : cursor'[u] = cursor[u]
<1>1. /\ pc[t] = "populate" /\ members[t] = <<>> /\ todo[t] # <<>> /\ Field1(t).sizes # <<>>
      /\ Field1(t).type \in Strings(call[t].db)
      /\ Write(t, Field1(t).type, 0, Head(Field1(t).sizes))
      /\ todo' = [todo EXCEPT ![t] = Tail(todo[t])]
      /\ UNCHANGED <<pc, call, response, members, result>>
  BY DEF CopyString, Populating, NextField, query
<1>2. FieldBytes(call[t].db, Field1(t)) = Head(Field1(t).sizes)
  <2>1. Head(Field1(t).sizes) = Field1(t).sizes[1]
    BY <1>1, HeadField
  <2>. QED  BY <1>1, <2>1, KindsApart DEF FieldBytes
<1>3. /\ cursor'[t] = cursor[t] + Head(Field1(t).sizes) /\ cursor'[t] <= call[t].size
      /\ \A u \in Threads \ {t} : cursor'[u] = cursor[u]
  BY <1>1, WriteMoves
<1>. QED  BY <1>1, <1>2, <1>3, PassMeasures

\* A number, or a field that the structure does not have, takes nothing.
LEMMA NextFieldMeasures ==
  ASSUME TypeOK, Unpacked, Measured, NEW t \in Threads, StoreNumber(t) \/ IgnoreField(t)
  PROVE  MeasureInv(t)' /\ \A u \in Threads \ {t} : cursor'[u] = cursor[u]
<1>1. /\ pc[t] = "populate" /\ members[t] = <<>> /\ todo[t] # <<>>
      /\ todo' = [todo EXCEPT ![t] = Tail(todo[t])]
      /\ UNCHANGED <<pc, call, response, members, cursor, result>>
  BY DEF StoreNumber, IgnoreField, Populating, NextField, query
<1>2. FieldBytes(call[t].db, Field1(t)) = 0
  <2>1. CASE StoreNumber(t)
    BY <2>1, KindsApart DEF StoreNumber, FieldBytes
  <2>2. CASE IgnoreField(t)
    BY <2>2 DEF IgnoreField, Known, FieldBytes
  <2>. QED  BY <2>1, <2>2
<1>3. cursor[t] \in Nat /\ cursor[t] <= call[t].size
  BY <1>1 DEF TypeOK, Measured, MeasureInv
<1>4. cursor'[t] = cursor[t] + FieldBytes(call[t].db, Field1(t)) /\ cursor'[t] <= call[t].size
  BY <1>1, <1>2, <1>3
<1>. QED  BY <1>1, <1>4, PassMeasures

\* The array takes its slots; an array of none is all that its field needs.
LEMMA ReserveMeasures ==
  ASSUME TypeOK, Unpacked, Measured, NEW t \in Threads, ReserveMembers(t)
  PROVE  MeasureInv(t)' /\ \A u \in Threads \ {t} : cursor'[u] = cursor[u]
<1>1. /\ pc[t] = "populate" /\ members[t] = <<>> /\ todo[t] # <<>>
      /\ Field1(t).type \in {"MEMBERS"} \cap Types(call[t].db)
      /\ Write(t, "MEMBERS", MemberCount(t), MemberCount(t) * PointerSize)
      /\ members' = [members EXCEPT ![t] = Field1(t).sizes]
      /\ Field1(t).sizes = <<>> => todo' = [todo EXCEPT ![t] = Tail(todo[t])]
      /\ Field1(t).sizes # <<>> => todo' = todo
      /\ UNCHANGED <<pc, call, response, result>>
  BY DEF ReserveMembers, Populating, NextField, query
<1>2. members'[t] = Field1(t).sizes
  BY <1>1 DEF TypeOK
<1>. DEFINE array == MemberCount(t) * PointerSize
<1>3. /\ cursor'[t] = cursor[t] + array /\ cursor'[t] <= call[t].size
      /\ \A u \in Threads \ {t} : cursor'[u] = cursor[u]
  BY <1>1, WriteMoves
<1>4. UnpackInv(t) /\ MeasureInv(t) /\ Field1(t) \in Field /\ Field1(t).sizes \in Seq(Nat)
  BY <1>1, HeadField, FieldNeed DEF Unpacked, Measured
<1>5. /\ FieldBytes(call[t].db, Field1(t)) = array + Total(Field1(t).sizes)
      /\ Sums(Field1(t).sizes)[0] = 0 /\ array \in Nat
  <2>1. Sums(Field1(t).sizes)[0] = 0
    BY <1>4, SumsAre
  <2>2. array \in Nat
    BY <1>1, BufferNumbers
  <2>. QED  BY <1>1, <2>1, <2>2 DEF FieldBytes, MemberCount
<1>6. cursor[t] \in Nat /\ cursor[t] = Sums(Needs(t))[Passed(t)]
  BY <1>1, <1>4 DEF TypeOK, MeasureInv, Reached
<1>7. CASE Field1(t).sizes = <<>>
  <2>1. Total(Field1(t).sizes) = 0
    BY <1>5, <1>7 DEF Total
  <2>2. cursor'[t] = cursor[t] + FieldBytes(call[t].db, Field1(t))
    <3>. HIDE DEF array
    <3>. QED  BY <1>3, <1>5, <1>6, <2>1
  <2>. QED  BY <1>1, <1>2, <1>3, <1>7, <2>2, PassMeasures
<1>8. CASE Field1(t).sizes # <<>>
  <2>1. /\ todo' = todo /\ Field1(t)' = Field1(t) /\ Needs(t)' = Needs(t)
        /\ Passed(t)' = Passed(t) /\ MemberCount(t)' = MemberCount(t)
    BY <1>1, <1>8 DEF Field1, Needs, Passed, MemberCount
  <2>2. Len(Field1(t).sizes) - Len(Field1(t).sizes) = 0
    BY <1>4
  <2>3. Reached(t)' = Sums(Needs(t))[Passed(t)] + array + Sums(Field1(t).sizes)[0]
    BY <1>2, <1>8, <2>1, <2>2 DEF Reached
  <2>4. cursor'[t] = Reached(t)'
    <3>. HIDE DEF array
    <3>. QED  BY <1>3, <1>5, <1>6, <2>3
  <2>. QED  BY <1>1, <1>3, <2>4 DEF MeasureInv
<1>. QED  BY <1>7, <1>8

\* Where the cursor stands among the members of a field, and what the next one
\* and the field need of what is left.
LEMMA NextMember ==
  ASSUME TypeOK, Unpacked, Measured, NEW t \in Threads, pc[t] = "populate",
         todo[t] # <<>>, members[t] # <<>>,
         NEW m \in Int, m = Len(Field1(t).sizes) - Len(members[t])
  PROVE  /\ Field1(t).sizes \in Seq(Nat) /\ Len(Field1(t).sizes) \in Nat
         /\ m \in Nat /\ m + 1 <= Len(Field1(t).sizes)
         /\ Len(Field1(t).sizes) - Len(Tail(members[t])) = m + 1
         /\ cursor[t] + Head(members[t])
              = Sums(Needs(t))[Passed(t)] + MemberCount(t) * PointerSize
                  + Sums(Field1(t).sizes)[m + 1]
         /\ Sums(Field1(t).sizes)[m + 1] <= Total(Field1(t).sizes)
         /\ FieldBytes(call[t].db, Field1(t))
              = MemberCount(t) * PointerSize + Total(Field1(t).sizes)
         /\ Total(Field1(t).sizes) \in Nat /\ MemberCount(t) * PointerSize \in Nat
         /\ Sums(Field1(t).sizes)[m + 1] \in Nat /\ Sums(Needs(t))[Passed(t)] \in Nat
<1>. DEFINE f == Field1(t)
            S == Sums(f.sizes)
            array == MemberCount(t) * PointerSize
            base == Sums(Needs(t))[Passed(t)]
<1>1. /\ UnpackInv(t) /\ MeasureInv(t) /\ f \in Field /\ f.sizes \in Seq(Nat) /\ Len(f.sizes) \in Nat
      /\ f.sizes \in Seq(Nat \ {0}) /\ members[t] \in Seq(Nat \ {0})
  BY HeadField, FieldNeed DEF Unpacked, Measured, TypeOK
<1>2. f.type = "MEMBERS" /\ EndOf(members[t], f.sizes) /\ f.type \in Types(call[t].db)
  BY <1>1, FieldOfResponse DEF UnpackInv, Copying
<1>3. /\ Len(f.sizes) - Len(Tail(members[t])) = m + 1
      /\ m + 1 \in DOMAIN f.sizes /\ Head(members[t]) = f.sizes[m + 1]
  <2>1. \A r, s \in Seq(Nat \ {0}) : s # <<>> /\ EndOf(s, r) =>
          /\ Len(r) - Len(Tail(s)) = Len(r) - Len(s) + 1
          /\ Len(r) - Len(s) + 1 \in DOMAIN r /\ Head(s) = r[Len(r) - Len(s) + 1]
    BY EndMoves
  <2>. QED  BY <1>1, <1>2, <2>1
<1>. DEFINE L == Len(f.sizes)
<1>4. /\ m \in Nat /\ m + 1 \in 1 .. L /\ (m + 1) - 1 = m /\ m + 1 <= L
      /\ m \in 0 .. L /\ m + 1 \in 0 .. L /\ L \in 0 .. L
  <2>1. L \in Nat /\ DOMAIN f.sizes = 1 .. L
    BY <1>1
  <2>2. Len(members[t]) <= L /\ Len(members[t]) \in Nat /\ m = L - Len(members[t])
    BY <1>1, <1>2 DEF EndOf
  <2>3. m + 1 \in DOMAIN f.sizes
    BY <1>3
  <2>. HIDE DEF L
  <2>4. m \in Nat /\ m + 1 <= L
    BY <2>1, <2>2, <2>3
  <2>5. L \in Nat
    BY <2>1
  <2>6. m + 1 \in 1 .. L /\ (m + 1) - 1 = m /\ m \in 0 .. L /\ m + 1 \in 0 .. L /\ L \in 0 .. L
    BY ONLY <2>4, <2>5
  <2>. QED  BY <2>4, <2>6
<1>5. S[m + 1] = S[m] + f.sizes[m + 1] /\ S \in [0 .. L -> Nat]
  BY <1>1, <1>4, SumsAre
<1>6. S[m + 1] \in Nat /\ S[m] \in Nat /\ f.sizes[m + 1] \in Nat /\ Total(f.sizes) \in Nat
  <2>1. S[m + 1] \in Nat /\ S[m] \in Nat /\ S[L] \in Nat
    <3>. HIDE DEF S, L
    <3>. QED  BY <1>4, <1>5
  <2>2. f.sizes[m + 1] \in Nat
    <3>1. \A k \in 1 .. L : f.sizes[k] \in Nat
      BY <1>1
    <3>. HIDE DEF L, f
    <3>. QED  BY <1>4, <3>1
  <2>. QED  BY <2>1, <2>2 DEF Total
<1>7. S[m + 1] <= Total(f.sizes)
  BY <1>1, <1>4, SumsGrow DEF Total
<1>8. cursor[t] = base + array + S[m]
  BY <1>1 DEF MeasureInv, Reached
<1>9. array \in Nat
  BY BufferNumbers
<1>10. base \in Nat
  <2>1. Passed(t) \in 0 .. Len(response[t])
    <3>1. response[t] \in Seq(Field) /\ Len(response[t]) \in Nat /\ DOMAIN response[t] = 1 .. Len(response[t])
      BY DEF TypeOK
    <3>2. Passed(t) \in Nat /\ Passed(t) + 1 \in DOMAIN response[t]
      BY <1>1, NextNeed
    <3>. QED  BY <3>1, <3>2
  <2>. QED  BY <2>1, NeedsAre
<1>11. cursor[t] + Head(members[t]) = base + array + S[m + 1]
  <2>. DEFINE a == S[m]
              b == S[m + 1]
              h == f.sizes[m + 1]
  <2>1. a \in Nat /\ b \in Nat /\ h \in Nat /\ b = a + h /\ Head(members[t]) = h
    BY <1>3, <1>5, <1>6
  <2>2. cursor[t] = base + array + a
    BY <1>8
  <2>. HIDE DEF base, array, a, b, h
  <2>3. cursor[t] + h = base + array + b
    BY <1>9, <1>10, <2>1, <2>2
  <2>. QED  BY <2>1, <2>3 DEF b
<1>12. FieldBytes(call[t].db, f) = array + Total(f.sizes)
  BY <1>2 DEF FieldBytes, MemberCount
<1>. QED  BY <1>1, <1>3, <1>4, <1>6, <1>7, <1>9, <1>10, <1>11, <1>12

\* A member takes its size; the last one brings the cursor behind its field.
LEMMA CopyMemberMeasures ==
  ASSUME TypeOK, CallInv, Unpacked, Measured, NEW t \in Threads, CopyMember(t)
  PROVE  MeasureInv(t)' /\ \A u \in Threads \ {t} : cursor'[u] = cursor[u]
<1>1. /\ pc[t] = "populate" /\ members[t] # <<>>
      /\ Write(t, "MEMBER", Slot(t), Head(members[t]))
      /\ members' = [members EXCEPT ![t] = Tail(members[t])]
      /\ Len(members[t]) = 1 => todo' = [todo EXCEPT ![t] = Tail(todo[t])]
      /\ Len(members[t]) # 1 => todo' = todo
      /\ UNCHANGED <<pc, call, response, given, result>>
  BY DEF CopyMember, NextField, query
<1>2. todo[t] # <<>> /\ members[t] \in Seq(Nat \ {0}) /\ UnpackInv(t)
  BY <1>1 DEF CallInv, Locals, TypeOK, Unpacked
<1>. DEFINE f == Field1(t)
            m == Len(f.sizes) - Len(members[t])
            S == Sums(f.sizes)
            array == MemberCount(t) * PointerSize
            base == Sums(Needs(t))[Passed(t)]
<1>3. /\ f.sizes \in Seq(Nat) /\ Len(f.sizes) \in Nat /\ m \in Int
  BY <1>2, HeadField, FieldNeed
<1>4. /\ m \in Nat /\ m + 1 <= Len(f.sizes) /\ Len(f.sizes) - Len(Tail(members[t])) = m + 1
      /\ cursor[t] + Head(members[t]) = base + array + S[m + 1]
      /\ FieldBytes(call[t].db, f) = array + Total(f.sizes)
      /\ Total(f.sizes) \in Nat /\ array \in Nat /\ S[m + 1] \in Nat /\ base \in Nat
  <2>. DEFINE n == m
  <2>1. n \in Int /\ n = Len(Field1(t).sizes) - Len(members[t])
    BY <1>3
  <2>. HIDE DEF n
  <2>2. /\ n \in Nat /\ n + 1 <= Len(f.sizes) /\ Len(f.sizes) - Len(Tail(members[t])) = n + 1
        /\ cursor[t] + Head(members[t]) = base + array + S[n + 1]
        /\ FieldBytes(call[t].db, f) = array + Total(f.sizes)
        /\ Total(f.sizes) \in Nat /\ array \in Nat /\ S[n + 1] \in Nat /\ base \in Nat
    BY <1>1, <1>2, <2>1, NextMember
  <2>. QED  BY <2>2 DEF n
<1>5. /\ cursor'[t] = cursor[t] + Head(members[t]) /\ cursor'[t] <= call[t].size
      /\ \A u \in Threads \ {t} : cursor'[u] = cursor[u]
  BY <1>1, WriteMoves
<1>6. Len(Tail(members[t])) = Len(members[t]) - 1 /\ Len(members[t]) \in Nat
      /\ Tail(members[t]) \in Seq(Nat \ {0}) /\ members'[t] = Tail(members[t])
  BY <1>1, <1>2, HeadTailProperties DEF TypeOK
<1>7. cursor'[t] = base + array + S[m + 1]
  BY <1>4, <1>5
<1>8. CASE Len(members[t]) = 1
  <2>1. todo'[t] = Tail(todo[t]) /\ Tail(members[t]) = <<>>
    <3>1. todo'[t] = Tail(todo[t])
      BY <1>1, <1>8 DEF TypeOK
    <3>2. Len(Tail(members[t])) = 0
      BY <1>6, <1>8
    <3>. QED  BY <3>1, <3>2, <1>6, EmptySeq
  <2>2. m + 1 = Len(f.sizes)
    <3>. HIDE DEF f
    <3>. QED  BY <1>3, <1>8
  <2>3. Needs(t)' = Needs(t) /\ Passed(t)' = Passed(t) + 1
    BY <1>1, <1>2, <2>1, NextNeed DEF Needs, Passed
  <2>4. Reached(t)' = base + FieldBytes(call[t].db, f)
    BY <1>1, <1>2, <1>6, <2>1, <2>3, NextNeed DEF Reached
  <2>5. S[m + 1] = Total(f.sizes)
    BY <2>2 DEF Total
  <2>6. cursor'[t] = Reached(t)'
    <3>. HIDE DEF base, array, S, m, f
    <3>. QED  BY <1>4, <1>7, <2>4, <2>5
  <2>. QED  BY <1>1, <1>5, <2>6 DEF MeasureInv
<1>9. CASE Len(members[t]) # 1
  <2>1. /\ todo' = todo /\ Field1(t)' = f /\ Needs(t)' = Needs(t)
        /\ Passed(t)' = Passed(t) /\ MemberCount(t)' = MemberCount(t)
    BY <1>1, <1>9 DEF Field1, Needs, Passed, MemberCount
  <2>2. Tail(members[t]) # <<>>
    <3>1. Len(Tail(members[t])) # 0
      BY <1>6, <1>9
    <3>. QED  BY <3>1, <1>6, EmptySeq
  <2>3. Reached(t)' = base + array + S[m + 1]
    BY <1>4, <1>6, <2>1, <2>2 DEF Reached
  <2>. QED  BY <1>1, <1>5, <1>7, <2>3 DEF MeasureInv
<1>. QED  BY <1>5, <1>8, <1>9

\* populate refuses only what does not fit, and succeeds behind all fields.
LEMMA PopulatedMeasures ==
  ASSUME TypeOK, Unpacked, Measured, NEW t \in Threads, NoEntry(t) \/ NoRoom(t) \/ AllFields(t)
  PROVE  MeasureInv(t)' /\ \A u \in Threads \ {t} : cursor'[u] = cursor[u]
<1>1. PICK status, errno :
        /\ Populated(t, status, errno)
        /\ status = "SUCCESS" => AllFields(t)
        /\ errno = "ERANGE" => NoRoom(t)
  BY DEF NoEntry, NoRoom, AllFields
<1>2. /\ pc' = [pc EXCEPT ![t] = "return"]
      /\ result' = [result EXCEPT ![t] = [status |-> status, errno |-> errno]]
      /\ UNCHANGED <<call, response, cursor>>
  BY <1>1 DEF Populated, query, populate
<1>3. pc'[t] = "return" /\ result'[t] = [status |-> status, errno |-> errno]
      /\ Needs(t)' = Needs(t)
  BY <1>2 DEF TypeOK, Needs
<1>4. pc[t] = "populate" /\ UnpackInv(t) /\ MeasureInv(t)
  BY DEF NoEntry, NoRoom, AllFields, Populating, Unpacked, Measured
<1>5. ASSUME AllFields(t) PROVE Total(Needs(t)) <= call[t].size
  <2>1. response[t] \in Seq(Field) /\ Len(response[t]) \in Nat /\ Len(todo[t]) = 0
    BY <1>5 DEF TypeOK, AllFields
  <2>2. Passed(t) = Len(Needs(t))
    BY <2>1, NeedsAre DEF Passed
  <2>. QED  BY <1>4, <1>5, <2>2 DEF AllFields, Populating, MeasureInv, Reached, Total
<1>6. ASSUME NoRoom(t) PROVE Total(Needs(t)) > call[t].size
  <2>. DEFINE base == Sums(Needs(t))[Passed(t)]
              bytes == FieldBytes(call[t].db, Field1(t))
              total == Total(Needs(t))
  <2>1. todo[t] # <<>> /\ cursor[t] + Wanted(t) > call[t].size /\ Wanted(t) \in Nat
    <3>1. todo[t] # <<>> /\ ~(cursor[t] + Wanted(t) <= call[t].size)
      BY <1>6 DEF NoRoom, Fits
    <3>2. cursor[t] \in Nat /\ call[t].size \in Nat
      BY BufferNumbers
    <3>3. Wanted(t) \in Nat
      <4>2. members[t] # <<>> => Head(members[t]) \in Nat
        BY DEF TypeOK
      <4>3. MemberCount(t) * PointerSize \in Nat
        BY <3>1, BufferNumbers
      <4>. QED  BY <1>6, <3>1, <4>2, <4>3, HeadField DEF Wanted, NoRoom
    <3>. QED  BY <3>1, <3>2, <3>3
  <2>2. base + bytes <= total /\ Field1(t) \in Field
    BY <1>4, <2>1, NextNeed
  <2>3. cursor[t] + Wanted(t) <= base + bytes
    <3>1. CASE members[t] # <<>>
      <4>. DEFINE m == Len(Field1(t).sizes) - Len(members[t])
      <4>1. m \in Int /\ Wanted(t) = Head(members[t])
        BY <2>1, <3>1, HeadField DEF TypeOK, Wanted
      <4>. HIDE DEF m
      <4>2. m = Len(Field1(t).sizes) - Len(members[t])
        BY DEF m
      <4>3. /\ cursor[t] + Wanted(t)
                 = base + MemberCount(t) * PointerSize + Sums(Field1(t).sizes)[m + 1]
            /\ Sums(Field1(t).sizes)[m + 1] <= Total(Field1(t).sizes)
            /\ bytes = MemberCount(t) * PointerSize + Total(Field1(t).sizes)
            /\ Total(Field1(t).sizes) \in Nat /\ MemberCount(t) * PointerSize \in Nat
            /\ Sums(Field1(t).sizes)[m + 1] \in Nat /\ base \in Nat
        BY <1>4, <2>1, <3>1, <4>1, <4>2, NextMember
      <4>. DEFINE array == MemberCount(t) * PointerSize
      <4>. HIDE DEF base, bytes, array
      <4>. QED  BY <4>3 DEF array
    <3>2. CASE members[t] = <<>>
      <4>1. cursor[t] = base /\ cursor[t] \in Nat
        BY <1>4, <3>2 DEF TypeOK, MeasureInv, Reached
      <4>2. /\ Field1(t).type \in (Known(call[t].db) \ Numbers(call[t].db))
            /\ Field1(t).type = "MEMBERS" \/ Field1(t).sizes # <<>>
        BY <1>6, <3>2 DEF NoRoom
      <4>3. CASE Field1(t).type = "MEMBERS"
        <5>1. bytes = MemberCount(t) * PointerSize + Total(Field1(t).sizes)
              /\ Wanted(t) = MemberCount(t) * PointerSize
          BY <3>2, <4>2, <4>3, KindsApart DEF Known, FieldBytes, MemberCount, Wanted
        <5>2. Total(Field1(t).sizes) \in Nat /\ MemberCount(t) * PointerSize \in Nat
          <6>1. Field1(t).sizes \in Seq(Nat) /\ Len(Field1(t).sizes) \in Nat
            BY <2>2, FieldNeed
          <6>2. Len(Field1(t).sizes) \in 0 .. Len(Field1(t).sizes)
            BY <6>1
          <6>. QED  BY <2>1, <6>1, <6>2, SumsAre, BufferNumbers DEF Total
        <5>. HIDE DEF base, bytes
        <5>. QED  BY <4>1, <5>1, <5>2
      <4>4. CASE Field1(t).type # "MEMBERS"
        <5>1. Head(Field1(t).sizes) = Field1(t).sizes[1] /\ Head(Field1(t).sizes) \in Nat
          BY <2>1, <4>2, <4>4, HeadField
        <5>2. bytes = Head(Field1(t).sizes) /\ Wanted(t) = Head(Field1(t).sizes)
          BY <3>2, <4>2, <4>4, <5>1 DEF Known, FieldBytes, Wanted
        <5>. HIDE DEF base, bytes
        <5>. QED  BY <4>1, <5>1, <5>2
      <4>. QED  BY <4>3, <4>4
    <3>. QED  BY <3>1, <3>2
  <2>4. base \in Nat /\ bytes \in Nat /\ total \in Nat
    <3>1. Len(response[t]) \in Nat /\ Passed(t) \in Nat /\ Passed(t) + 1 \in 1 .. Len(response[t])
      BY <1>4, <2>1, NextNeed DEF TypeOK
    <3>2. Passed(t) \in 0 .. Len(response[t]) /\ Len(response[t]) \in 0 .. Len(response[t])
      BY <3>1
    <3>. QED  BY <2>2, <3>2, NeedsAre, FieldNeed DEF Total
  <2>5. cursor[t] + Wanted(t) \in Int /\ call[t].size \in Nat
    <3>1. call[t].size \in Nat /\ cursor[t] \in Nat
      BY BufferNumbers
    <3>2. Wanted(t) \in Int
      BY <2>1
    <3>. QED  BY <3>1, <3>2
  <2>. HIDE DEF base, bytes, total
  <2>6. total > call[t].size
    BY <2>1, <2>2, <2>3, <2>4, <2>5
  <2>. QED  BY <2>6 DEF total
<1>. QED  BY <1>1, <1>2, <1>3, <1>5, <1>6 DEF MeasureInv

\* A call that asks, or cannot, starts at the buffer's start.
LEMMA AskMeasures ==
  ASSUME IInv, Measured, NEW t \in Threads, NEW db \in Databases,
         NoOffset(t, db) \/ \E size \in BufferSizes : Lookup(t, db, size) \/ GetEnt(t, db, size)
  PROVE  Measured'
<1>1. TypeOK
  BY DEF IInv
<1>2. /\ OthersUnpack(t) /\ \A u \in Threads \ {t} : cursor'[u] = cursor[u]
      /\ \/ pc'[t] = "query"
         \/ pc'[t] = "return" /\ result'[t] = [status |-> "UNAVAIL", errno |-> "none"]
  <2>1. CASE NoOffset(t, db)
    BY <1>1, <2>1 DEF NoOffset, query, populate, OthersUnpack, TypeOK
  <2>2. ASSUME NEW size \in BufferSizes, Lookup(t, db, size) \/ GetEnt(t, db, size)
        PROVE  OthersUnpack(t) /\ pc'[t] = "query" /\ \A u \in Threads \ {t} : cursor'[u] = cursor[u]
    <3>1. PICK kind, field : Ask(t, kind, db, size, field)
      BY <2>2 DEF Lookup, GetEnt
    <3>2. /\ pc' = [pc EXCEPT ![t] = "query"]
          /\ call' = [call EXCEPT ![t] = [kind |-> kind, db |-> db, size |-> size]]
          /\ UNCHANGED <<response, todo, members, cursor, regions, given, result>>
      BY <3>1 DEF Ask, populate
    <3>. QED  BY <1>1, <3>2 DEF OthersUnpack, TypeOK
  <2>. QED  BY <2>1, <2>2
<1>3. MeasureInv(t)'
  BY <1>2 DEF MeasureInv
<1>. QED  BY <1>2, <1>3, OneMeasures

\* A handler fills the response of a call that has not begun to unpack it.
LEMMA HandlerMeasures ==
  ASSUME IInv, Measured, NEW t \in Threads, NEW type, Handling(t, type),
         \/ \E new : response' = [response EXCEPT ![t] = new]
         \/ \E k, new : response' = [response EXCEPT ![t][k].sizes = new],
         UNCHANGED <<pc, call, todo, members, cursor, regions, given, result>>
  PROVE  Measured'
<1>1. TypeOK /\ pc'[t] = "query"
  BY DEF IInv, Handling
<1>2. OthersUnpack(t)
  BY <1>1 DEF OthersUnpack, TypeOK
<1>3. MeasureInv(t)'
  BY <1>1 DEF MeasureInv
<1>. QED  BY <1>2, <1>3, OneMeasures

\* populate starts with the whole response to come and an empty buffer; a
\* status other than SUCCESS is neither success nor ERANGE.
LEMMA RepliedMeasures ==
  ASSUME IInv, Measured, NEW t \in Threads, NEW code \in Codes, pc[t] = "query",
         NEW fields \in Seq(Field), Replied(t, code, fields), TypeOK'
  PROVE  Measured'
<1>1. TypeOK /\ members[t] = <<>> /\ cursor[t] = 0
  BY DEF IInv, CallInv, Locals
<1>2. UNCHANGED <<call, members, cursor, regions>>
  BY DEF Replied
<1>3. OthersUnpack(t)
  <2>1. CASE code = "SUCCESS"
    BY <1>1, <2>1 DEF Replied, OthersUnpack, TypeOK
  <2>2. CASE code # "SUCCESS"
    BY <1>1, <2>2 DEF Replied, OthersUnpack, TypeOK
  <2>. QED  BY <2>1, <2>2
<1>4. CASE code = "SUCCESS"
  <2>1. pc'[t] = "populate" /\ response'[t] = fields /\ todo'[t] = fields
    BY <1>1, <1>4 DEF Replied, TypeOK
  <2>2. Passed(t)' = 0
    BY <2>1 DEF Passed
  <2>3. (Sums(Needs(t))[0])' = 0
    <3>1. (Needs(t) \in Seq(Nat))'
      BY NeedsAre, PTL
    <3>. QED  BY <3>1, SumsAre
  <2>4. Reached(t)' = 0
    BY <1>1, <1>2, <2>2, <2>3 DEF Reached
  <2>5. MeasureInv(t)'
    BY <1>1, <1>2, <2>1, <2>4, BufferNumbers DEF MeasureInv
  <2>. QED  BY <1>2, <1>3, <2>5, OneMeasures
<1>5. CASE code # "SUCCESS"
  <2>1. pc'[t] = "return" /\ result'[t] = StatusOf(code)
    BY <1>1, <1>5 DEF Replied, TypeOK
  <2>2. StatusOf(code).status # "SUCCESS" /\ StatusOf(code).errno # "ERANGE"
    BY DEF StatusOf
  <2>3. MeasureInv(t)'
    BY <2>1, <2>2 DEF MeasureInv
  <2>. QED  BY <1>2, <1>3, <2>3, OneMeasures
<1>. QED  BY <1>4, <1>5

\* At first no thread has called.
LEMMA MeasuredInit == Init => Measured
  BY DEF Init, Measured, MeasureInv

\* Every step keeps the cursor where the fields passed put it.
LEMMA MeasuredStep == IInv /\ Unpacked /\ Measured /\ [Next]_vars => Measured'
<1>. SUFFICES ASSUME IInv, Unpacked, Measured, [Next]_vars PROVE Measured'  OBVIOUS
<1>1. TypeOK /\ CallInv /\ TypeOK'
  <2>1. IInv'
    BY IInvStep
  <2>. QED  BY <2>1 DEF IInv
<1>2. ASSUME UNCHANGED <<pc, call, response, todo, members, cursor, result>>
      PROVE  Measured'
  BY <1>2, SameMeasure DEF Measured
<1>3. ASSUME NEW t \in Threads, QueryFails(t) \/ \E code \in Codes : Answer(t, code)
      PROVE  Measured'
  <2>1. response[t] \in Seq(Field) /\ pc[t] = "query"
    BY <1>1, <1>3 DEF TypeOK, QueryFails, Answer
  <2>2. PICK code \in Codes, k \in 0 .. Len(response[t]) :
          Replied(t, code, <<>>) \/ Replied(t, code, response[t])
            \/ Replied(t, code, SubSeq(response[t], 1, k))
    <3>1. 0 \in 0 .. Len(response[t]) /\ "FAIL" \in Codes
      BY <2>1 DEF Codes
    <3>. QED  BY <1>3, <3>1 DEF QueryFails, Answer
  <2>3. <<>> \in Seq(Field) /\ SubSeq(response[t], 1, k) \in Seq(Field)
    BY <2>1
  <2>. QED  BY <1>1, <2>1, <2>2, <2>3, RepliedMeasures
<1>4. ASSUME NEW t \in Threads, NEW type, NEW entry,
             (\E size : SetField(t, type, size)) \/ AddEntry(t, type, entry)
      PROVE  Measured'
  <2>1. /\ Handling(t, type)
        /\ \/ \E new : response' = [response EXCEPT ![t] = new]
           \/ \E k, new : response' = [response EXCEPT ![t][k].sizes = new]
        /\ UNCHANGED <<pc, call, todo, members, cursor, regions, given, result>>
    BY <1>4 DEF SetField, AddEntry, populate
  <2>. QED  BY <2>1, HandlerMeasures
<1>5. ASSUME NEW t \in Threads,
             \/ CopyString(t) \/ StoreNumber(t) \/ IgnoreField(t) \/ ReserveMembers(t)
             \/ CopyMember(t) \/ NoEntry(t) \/ NoRoom(t) \/ AllFields(t)
      PROVE  Measured'
  <2>1. MeasureInv(t)' /\ \A u \in Threads \ {t} : cursor'[u] = cursor[u]
    BY <1>1, <1>5, CopyStringMeasures, NextFieldMeasures, ReserveMeasures,
       CopyMemberMeasures, PopulatedMeasures
  <2>2. \A u \in Threads \ {t} :
          /\ pc'[u] = pc[u] /\ call'[u] = call[u] /\ response'[u] = response[u]
          /\ todo'[u] = todo[u] /\ members'[u] = members[u] /\ result'[u] = result[u]
    <3>1. CASE CopyString(t) \/ StoreNumber(t) \/ IgnoreField(t)
      <4>1. /\ todo' = [todo EXCEPT ![t] = Tail(todo[t])]
            /\ UNCHANGED <<pc, call, response, members, result>>
        BY <3>1 DEF CopyString, StoreNumber, IgnoreField, NextField, query
      <4>. QED  BY <1>1, <4>1 DEF TypeOK
    <3>2. CASE ReserveMembers(t) \/ CopyMember(t)
      <4>1. /\ UNCHANGED todo \/ todo' = [todo EXCEPT ![t] = Tail(todo[t])]
            /\ \E new : members' = [members EXCEPT ![t] = new]
            /\ UNCHANGED <<pc, call, response, result>>
        BY <3>2 DEF ReserveMembers, CopyMember, NextField, query
      <4>. QED  BY <1>1, <4>1 DEF TypeOK
    <3>3. CASE NoEntry(t) \/ NoRoom(t) \/ AllFields(t)
      <4>1. /\ pc' = [pc EXCEPT ![t] = "return"]
            /\ \E new : result' = [result EXCEPT ![t] = new]
            /\ UNCHANGED <<call, response, todo, members>>
        BY <3>3 DEF NoEntry, NoRoom, AllFields, Populated, query, populate
      <4>. QED  BY <1>1, <4>1 DEF TypeOK
    <3>. QED  BY <1>5, <3>1, <3>2, <3>3
  <2>3. \A u \in Threads \ {t} : MeasureInv(u)'
    BY <2>1, <2>2, SameMeasure DEF Measured
  <2>. QED  BY <2>1, <2>3 DEF Measured
<1>6. ASSUME NEW t \in Threads, Return(t) PROVE Measured'
  <2>1. pc'[t] = "idle" /\ OthersUnpack(t) /\ \A u \in Threads \ {t} : cursor'[u] = cursor[u]
    BY <1>1, <1>6 DEF Return, OthersUnpack, TypeOK
  <2>2. MeasureInv(t)'
    BY <2>1 DEF MeasureInv
  <2>. QED  BY <2>1, <2>2, OneMeasures
<1>7. ASSUME NEW t \in Threads, Step(t) PROVE Measured'
  BY <1>3, <1>4, <1>5, <1>6, <1>7 DEF Step
<1>8. ASSUME NEW t \in Threads, NEW db \in Databases, SetEnt(t, db) \/ EndEnt(t, db)
      PROVE  Measured'
  BY <1>2, <1>8 DEF SetEnt, EndEnt, query, populate
<1>9. CASE UNCHANGED vars
  BY <1>2, <1>9 DEF vars, query, populate
<1>. QED  BY <1>7, <1>8, <1>9, AskMeasures DEF Next

\* ERANGE is exact: populate refuses a buffer only if the fields of the response
\* need more than it has, counting the member pointers, and a call succeeds
\* only if they need no more.
THEOREM RangeIsExact == Spec => []RangeMeansTooSmall
<1>1. Measured => RangeMeansTooSmall
  BY DEF Measured, MeasureInv, RangeMeansTooSmall
<1>2. Spec => [](IInv /\ Unpacked /\ Measured)
  BY IInvInit, IInvStep, UnpackedInit, UnpackedStep, MeasuredInit, MeasuredStep, PTL DEF Spec
<1>. QED  BY <1>1, <1>2, PTL
=============================================================================
