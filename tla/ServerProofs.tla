------------------------------ MODULE ServerProofs ------------------------------
(***************************************************************************)
(* Proofs about Server, for any types, handlers, nodes and sockets.        *)
(*                                                                         *)
(* Two servers on one path are kept apart by bind alone.  That no two      *)
(* sockets listen does not say why, so IInv adds the reason: a socket that *)
(* has been bound is the one at the path, unless its path was removed.     *)
(*                                                                         *)
(* That a lookup is right rests on the shape of the list (Chained), on     *)
(* what its nodes hold (Filled), and on what is still before a lookup      *)
(* (Walking).  "Before" is reachability along next: instead of a path,     *)
(* Reaches speaks of the sets of nodes that next does not lead out of.     *)
(***************************************************************************)
EXTENDS Server, TLAPS

\* A socket that was bound is what the path leads to, or lost its path.
NamedOnce ==
    \A s \in Sockets : state[s] \in {"bound", "listening"} => s = file \/ s \in unlinked

\* The node that is about to be published was allocated and filled in.
NodeReady == opc = "publish" => onode \in Nodes

IInv == TypeOK /\ NodeReady /\ NamedOnce

-----------------------------------------------------------------------------

\* A server starts with nothing bound.
LEMMA InitInv == Init => IInv
  BY NullAssumption DEF Init, IInv, TypeOK, NodeReady, NamedOnce, NoneRegistered

\* The owner's calls on the registry keep the types.
LEMMA RegistryKeepsTypes ==
  ASSUME IInv,
         \/ \E y \in Types, h \in Handlers : Add(y, h)
         \/ Publish
         \/ \E y \in Types : Unlink(y)
         \/ Free \/ FinalizeNode \/ Finalized
  PROVE  TypeOK' /\ NodeReady'
<1> USE DEF IInv
<1>1. CASE \E y \in Types, h \in Handlers : Add(y, h)
  <2> PICK y \in Types, h \in Handlers : Add(y, h)
    BY <1>1
  <2> USE DEF Add, TypeOK, NodeReady, lookup, watch, registry, sockets
  <2>1. PICK n \in Nodes \ used :
          /\ used' = used \cup {n} /\ onode' = n
          /\ type' = [type EXCEPT ![n] = y]
          /\ handler' = [handler EXCEPT ![n] = h]
          /\ next' = [next EXCEPT ![n] = head]
    OBVIOUS
  <2>2. /\ type' \in [Nodes -> Types \cup {NULL}]
        /\ handler' \in [Nodes -> Handlers \cup {NULL}]
        /\ next' \in [Nodes -> Nodes \cup {NULL}]
    BY <2>1
  <2>3. used' \subseteq Nodes /\ onode' \in Nodes
    BY <2>1
  <2> QED
    BY <2>2, <2>3
<1>2. CASE Publish
  <2> USE <1>2 DEF Publish, Published, Registered, TypeOK, NodeReady, lookup, sockets
  <2>1. type[onode] \in Types \cup {NULL} /\ handler[onode] \in Handlers \cup {NULL}
    OBVIOUS
  <2>2. /\ registered' \in [Types -> Handlers \cup {NULL}]
        /\ could' \subseteq Handlers \cup {NULL}
    BY <2>1
  <2>3. head' \in Nodes \cup {NULL} /\ onode' = NULL /\ opc' = "idle"
    OBVIOUS
  <2> QED
    BY <2>2, <2>3
<1>3. CASE \E y \in Types : Unlink(y)
  <2> PICK y \in Types : Unlink(y)
    BY <1>3
  <2> USE DEF Unlink, Registered, TypeOK, NodeReady, lookup, sockets
  <2>1. PICK n \in used :
          /\ IF head = n
               THEN head' = next[n] /\ UNCHANGED next
               ELSE /\ next' = [m \in Nodes |-> IF m \in Before(n) THEN next[n] ELSE next[m]]
                    /\ UNCHANGED head
          /\ onode' = n
    OBVIOUS
  <2>2. n \in Nodes /\ next[n] \in Nodes \cup {NULL}
    BY DEF TypeOK
  <2>3. next' \in [Nodes -> Nodes \cup {NULL}] /\ head' \in Nodes \cup {NULL}
    BY <2>1, <2>2
  <2>4. registered' \in [Types -> Handlers \cup {NULL}] /\ could' \subseteq Handlers \cup {NULL}
    OBVIOUS
  <2> QED
    BY <2>1, <2>2, <2>3, <2>4
<1>4. CASE Free
  BY <1>4, ZenonT(60) DEF Free, Freed, TypeOK, NodeReady, lookup, sockets
<1>5. CASE FinalizeNode
  BY <1>5 DEF FinalizeNode, Freed, TypeOK, NodeReady, lookup, sockets
<1>6. CASE Finalized
  BY <1>6 DEF Finalized, NoneRegistered, TypeOK, NodeReady, lookup, sockets
<1> QED
  BY <1>1, <1>2, <1>3, <1>4, <1>5, <1>6

\* The steps of a server's life and of the thread in execute do.
LEMMA LifeKeepsTypes ==
  ASSUME IInv, Initialize \/ Finalize \/ Execute \/ Bind \/ Listen \/ ExecuteFails \/ OperatorUnlinks
  PROVE  TypeOK' /\ NodeReady'
<1> USE DEF IInv, TypeOK, NodeReady, lookup, watch, registry, sockets, owner
<1>1. CASE Initialize
  <2>1. /\ socket' \in Sockets \cup {NULL} /\ life' \in {"raw", "ready", "final"}
        /\ life' = "ready" => socket' # NULL
    BY <1>1, NullAssumption DEF Initialize, SocketFails
  <2>2. state' \in [Sockets -> {"none", "open", "bound", "listening", "closed"}]
    BY <1>1 DEF Initialize, SocketFails
  <2> QED
    BY <1>1, <2>1, <2>2 DEF Initialize
<1>2. CASE Finalize
  BY <1>2 DEF Finalize
<1>3. CASE Execute \/ ExecuteFails
  BY <1>3 DEF Execute, ExecuteFails
<1>4. CASE Bind
  BY <1>4 DEF Bind, Bound, Nameless
<1>5. CASE Listen
  BY <1>5 DEF Listen
<1>6. CASE OperatorUnlinks
  BY <1>6 DEF OperatorUnlinks
<1> QED
  BY <1>1, <1>2, <1>3, <1>4, <1>5, <1>6

\* So does a lookup.
LEMMA LookupKeepsTypes ==
  ASSUME IInv, (\E y \in Types : Request(y)) \/ Look \/ Serve
  PROVE  TypeOK' /\ NodeReady'
<1> USE DEF IInv, TypeOK, NodeReady, lookup, watch, registry, sockets, owner
<1>1. CASE \E y \in Types : Request(y)
  <2> PICK y \in Types : Request(y)
    BY <1>1
  <2>1. registered[y] \in Handlers \cup {NULL}
    OBVIOUS
  <2>2. could' \subseteq Handlers \cup {NULL} /\ overlapped' \in BOOLEAN /\ stale' \in BOOLEAN
    BY <2>1 DEF Request
  <2> QED
    BY <2>2 DEF Request
<1>2. CASE Look
  <2>1. /\ xnode' \in Nodes \cup {NULL} /\ xfound' \in Handlers \cup {NULL}
        /\ xpc' \in {"lookup", "found"}
    BY <1>2 DEF Look, Looking, Answered
  <2>2. stale' \in BOOLEAN
    BY <1>2 DEF Look
  <2> QED
    BY <1>2, <2>1, <2>2 DEF Look
<1>3. CASE Serve
  BY <1>3, ZenonT(60) DEF Serve
<1> QED
  BY <1>1, <1>2, <1>3

\* A process that starts, after another died or beside it, does.
LEMMA StartKeepsTypes ==
  ASSUME IInv, Restart \/ StartAnother
  PROVE  TypeOK' /\ NodeReady'
<1>1. state' \in [Sockets -> {"none", "open", "bound", "listening", "closed"}]
  BY DEF IInv, TypeOK, Restart, StartAnother
<1> QED
  BY <1>1 DEF IInv, TypeOK, NodeReady, Restart, StartAnother, Starts, NoneRegistered

-----------------------------------------------------------------------------

\* Most steps do not touch the names of sockets.
LEMMA SocketsUntouched ==
  ASSUME IInv, UNCHANGED <<state, file, unlinked>>
  PROVE  NamedOnce'
  BY DEF IInv, NamedOnce

\* bind gives a name only where the path leads nowhere, and removing the path
\* is remembered.
LEMMA SocketsKeepNames ==
  ASSUME IInv, Initialize \/ Bind \/ Listen \/ Restart \/ OperatorUnlinks
  PROVE  NamedOnce'
<1> USE DEF IInv, TypeOK, NamedOnce
<1>1. CASE Initialize
  BY <1>1 DEF Initialize, SocketFails
<1>2. CASE Bind
  <2>1. file = NULL /\ file' = socket /\ unlinked' = unlinked
        /\ state' = [state EXCEPT ![socket] = "bound"]
    BY <1>2 DEF Bind, Bound
  <2>2. ASSUME NEW s \in Sockets, state'[s] \in {"bound", "listening"}
        PROVE  s = file' \/ s \in unlinked'
    BY <2>1, <2>2, NullAssumption
  <2> QED
    BY <2>2
<1>3. CASE Listen
  BY <1>3 DEF Listen
<1>4. CASE Restart
  BY <1>4 DEF Restart, Starts
<1>5. CASE OperatorUnlinks
  BY <1>5 DEF OperatorUnlinks
<1> QED
  BY <1>1, <1>2, <1>3, <1>4, <1>5

-----------------------------------------------------------------------------

\* The inductive invariant holds of every server.
THEOREM Invariance == Spec => []IInv
<1>1. IInv /\ [Next]_vars => IInv'
  <2> SUFFICES ASSUME IInv, [Next]_vars PROVE IInv'
    OBVIOUS
  <2>1. CASE Owner
    <3>1. TypeOK' /\ NodeReady'
      BY <2>1, RegistryKeepsTypes, LifeKeepsTypes DEF Owner
    <3>2. CASE Initialize
      BY <3>1, <3>2, SocketsKeepNames DEF IInv
    <3>3. CASE ~Initialize
      <4>1. UNCHANGED <<state, file, unlinked>>
        BY <2>1, <3>3 DEF Owner, Add, Publish, Unlink, Free, Finalize, FinalizeNode, Finalized,
                          sockets
      <4> QED
        BY <3>1, <4>1, SocketsUntouched DEF IInv
    <3> QED
      BY <3>2, <3>3
  <2>2. CASE Executor
    <3>1. TypeOK' /\ NodeReady'
      BY <2>2, LookupKeepsTypes, LifeKeepsTypes DEF Executor
    <3>2. CASE Bind \/ Listen
      BY <3>1, <3>2, SocketsKeepNames DEF IInv
    <3>3. CASE ~(Bind \/ Listen)
      <4>1. UNCHANGED <<state, file, unlinked>>
        BY <2>2, <3>3 DEF Executor, Execute, ExecuteFails, Request, Look, Serve, sockets
      <4> QED
        BY <3>1, <4>1, SocketsUntouched DEF IInv
    <3> QED
      BY <3>2, <3>3
  <2>3. CASE Restart \/ OperatorUnlinks
    BY <2>3, StartKeepsTypes, LifeKeepsTypes, SocketsKeepNames DEF IInv
  <2>4. CASE StartAnother
    <3>1. UNCHANGED <<state, file, unlinked>>
      BY <2>4 DEF StartAnother, Starts
    <3> QED
      BY <2>4, <3>1, StartKeepsTypes, SocketsUntouched DEF IInv
  <2>5. CASE UNCHANGED vars
    BY <2>5 DEF vars, registry, sockets, owner, lookup, watch, IInv, TypeOK, NodeReady, NamedOnce
  <2> QED
    BY <2>1, <2>2, <2>3, <2>4, <2>5 DEF Next
<1> QED
  BY InitInv, <1>1, PTL DEF Spec

\* The state is well-typed, and a server that is ready has a socket
\* (server/unsock.c:53).
THEOREM TypeCorrect == Spec => []TypeOK
  BY Invariance, PTL DEF IInv

\* No server takes the path of another that listens, however often processes die,
\* start again or are started beside it (server/unsock.c:179).
THEOREM OneServerPerPath == Spec => []UniqueListener
<1>1. IInv => UniqueListener
  BY DEF IInv, TypeOK, NamedOnce, UniqueListener
<1> QED
  BY Invariance, <1>1, PTL

-----------------------------------------------------------------------------
(* The registry as a list *)

\* The node that the owner has not linked yet, or has unlinked.
Apart == IF opc \in {"publish", "free"} THEN {onode} ELSE {}
Listed == used \ Apart

\* Where the list begins; finalize frees it from there.
First == IF opc = "finalize" THEN onode ELSE head

\* A set of nodes that next does not lead out of.
Closed(S) == \A n \in S : next[n] \in S \cup {NULL}

\* n is at node a or behind it.
Reaches(a, n) == \A S \in SUBSET used : Closed(S) /\ a \in S \cup {NULL} => n \in S

\* The nodes form one list.
Chained ==
    /\ opc \in {"publish", "free"} => onode \in used
    /\ First \in Listed \cup {NULL}
    /\ \A n \in used : next[n] \in Listed \cup {NULL}
    /\ \A n \in Listed : next[n] # NULL => next[n] # First
    /\ \A n, m \in Listed : next[n] = next[m] /\ next[n] # NULL => n = m
    /\ \A n \in Listed : Reaches(First, n)
    /\ opc = "publish" => next[onode] = head
    /\ opc = "finalize" => onode = head \/ head \notin used \cup {NULL}
    /\ opc # "idle" => life = "ready"
    /\ life # "ready" => used = {} /\ opc = "idle"

\* Each registered service has one node in it.
Filled ==
    /\ \A n \in used : type[n] \in Types /\ handler[n] \in Handlers
    /\ \A n \in Listed : registered[type[n]] = handler[n]
    /\ \A n, m \in Listed : type[n] = type[m] => n = m
    /\ First = head => \A y \in Types : registered[y] # NULL => \E n \in Listed : type[n] = y
    /\ opc = "publish" => registered[type[onode]] = NULL

\* A lookup that has not met freed memory stands on a node whose handler it may
\* return, and has what it looks for still before it, unless it was not there
\* at some moment.
Walking ==
    Looking =>
        /\ registered[xwant] \in could /\ xwant \in Types
        /\ ~stale =>
             /\ xnode \in used \cup {NULL}
             /\ xnode # NULL => /\ opc = "publish" => xnode # onode
                                /\ type[xnode] = xwant => handler[xnode] \in could
             /\ NULL \notin could => \E n \in Listed : type[n] = xwant /\ Reaches(xnode, n)

ListInv == Chained /\ Filled
WalkInv == Walking /\ LookupRight

\* At first the list is empty and nobody looks.
LEMMA ListInit == Init => ListInv /\ WalkInv
<1> SUFFICES ASSUME Init PROVE ListInv /\ WalkInv
  OBVIOUS
<1>1. Listed = {} /\ First = NULL
  BY DEF Init, Listed, First, Apart
<1>2. Chained /\ Filled
  BY <1>1 DEF Init, Chained, Filled, NoneRegistered
<1>3. Walking /\ LookupRight
  BY DEF Init, Walking, LookupRight, Looking
<1> QED
  BY <1>2, <1>3 DEF ListInv, WalkInv

\* Steps that leave the registry and its owner alone leave the list as it is.
LEMMA ListUntouched == ASSUME ListInv, UNCHANGED <<life, registry, owner>> PROVE ListInv'
  BY DEF ListInv, Chained, Filled, Listed, Apart, First, Reaches, Closed, registry, owner

\* A lookup does not see where the list begins once it is on its way.
LEMMA WalkUntouched ==
  ASSUME WalkInv, UNCHANGED <<used, next, type, handler, registered, owner, xpc, lookup, could, stale>>,
         overlapped => overlapped'
  PROVE  WalkInv'
  BY DEF WalkInv, Walking, LookupRight, Looking, Listed, Apart, Reaches, Closed, owner, lookup

\* The node that is freed is in no set of nodes that stay.
LEMMA FreedReaches ==
  ASSUME TypeOK, NEW m \in Nodes, Freed(m), NEW a, NEW n, Reaches(a, n)
  PROVE  \A S \in SUBSET used' : Closed(S)' /\ a \in S \cup {NULL} => n \in S
<1> SUFFICES ASSUME NEW S \in SUBSET used', Closed(S)', a \in S \cup {NULL} PROVE n \in S
  OBVIOUS
<1>1. used' = used \ {m} /\ next' = [next EXCEPT ![m] = NULL]
  BY DEF Freed
<1>2. S \in SUBSET used
  BY <1>1
<1>3. \A x \in S : next[x] = next'[x]
  BY <1>1 DEF TypeOK
<1>4. Closed(S)
  BY <1>3 DEF Closed
<1> QED
  BY <1>2, <1>4 DEF Reaches

-----------------------------------------------------------------------------
(* Adding a service *)

\* A structure without services is initialized.
LEMMA InitializeKeeps == ASSUME IInv, ListInv, WalkInv, Initialize PROVE ListInv' /\ WalkInv'
<1>1. used = {} /\ opc = "idle"
  BY DEF ListInv, Chained, Initialize
<1>2. UNCHANGED <<used, next, type, handler, registered, owner, xpc, lookup, watch>> /\ head' = NULL
  BY DEF Initialize
<1>3. Listed = {} /\ First = head /\ Listed' = {} /\ First' = NULL /\ opc' = "idle" /\ used' = {}
  BY <1>1, <1>2 DEF Listed, First, Apart, owner
<1>4. \A y \in Types : registered[y] = NULL
  BY <1>3 DEF ListInv, Filled
<1>5. ListInv'
  BY <1>2, <1>3, <1>4 DEF ListInv, Chained, Filled
<1>6. WalkInv'
  BY <1>2, WalkUntouched DEF watch
<1> QED
  BY <1>5, <1>6

\* A node that is filled in leads to the list and is not in it yet.
LEMMA AddKeeps ==
  ASSUME IInv, ListInv, WalkInv, NEW y \in Types, NEW h \in Handlers, Add(y, h)
  PROVE  ListInv' /\ WalkInv'
<1> USE DEF IInv, ListInv, WalkInv
<1>1. PICK k \in Nodes \ used :
        /\ used' = used \cup {k} /\ onode' = k
        /\ type' = [type EXCEPT ![k] = y]
        /\ handler' = [handler EXCEPT ![k] = h]
        /\ next' = [next EXCEPT ![k] = head]
  BY DEF Add
<1>2. /\ opc = "idle" /\ opc' = "publish" /\ life' = "ready" /\ life = "ready" /\ registered[y] = NULL
      /\ UNCHANGED <<head, registered, xpc, lookup, watch>>
  BY DEF Add
<1>3. Listed = used /\ First = head /\ Listed' = used /\ First' = head
  BY <1>1, <1>2 DEF Listed, Apart, First
<1>4. /\ \A n \in used : next'[n] = next[n] /\ type'[n] = type[n] /\ handler'[n] = handler[n]
      /\ next'[k] = head /\ type'[k] = y /\ handler'[k] = h
  BY <1>1 DEF TypeOK
<1>5. /\ head \in used \cup {NULL} /\ \A n \in used : next[n] \in used \cup {NULL}
      /\ k # NULL /\ k \notin used
  BY <1>3, NullAssumption DEF Chained
<1>6. ASSUME NEW a \in used \cup {NULL}, NEW n \in used, Reaches(a, n),
             NEW S \in SUBSET used', Closed(S)', a \in S \cup {NULL}
      PROVE  n \in S
  <2> DEFINE T == S \ {k}
  <2>1. T \in SUBSET used /\ a \in T \cup {NULL}
    BY <1>1, <1>5, <1>6
  <2>2. Closed(T)
    BY <1>4, <1>5, <1>6, <2>1 DEF Closed
  <2>3. n \in T
    BY <1>6, <2>1, <2>2 DEF Reaches
  <2> QED
    BY <2>3
<1>7. \A a \in used \cup {NULL}, n \in used : Reaches(a, n) => Reaches(a, n)'
  BY <1>6 DEF Reaches
<1>8. Chained'
  <2>1. \A n \in Listed' : Reaches(First, n)'
    BY <1>2, <1>3, <1>5, <1>7 DEF Chained
  <2>2. \A n \in used' : next'[n] \in Listed' \cup {NULL}
    BY <1>1, <1>3, <1>4, <1>5
  <2>3. /\ \A n \in Listed' : next'[n] # NULL => next'[n] # First'
        /\ \A n, m \in Listed' : next'[n] = next'[m] /\ next'[n] # NULL => n = m
    BY <1>3, <1>4 DEF Chained
  <2> QED
    BY <1>1, <1>2, <1>3, <1>4, <1>5, <2>1, <2>2, <2>3 DEF Chained
<1>9. Filled'
  <2>1. \A n \in used' : type'[n] \in Types /\ handler'[n] \in Handlers
    BY <1>1, <1>4 DEF Filled
  <2>2. /\ \A n \in Listed' : registered'[type'[n]] = handler'[n]
        /\ \A n, m \in Listed' : type'[n] = type'[m] => n = m
        /\ \A z \in Types : registered'[z] # NULL => \E n \in Listed' : type'[n] = z
    BY <1>2, <1>3, <1>4 DEF Filled
  <2> QED
    BY <1>1, <1>2, <1>4, <2>1, <2>2 DEF Filled
<1>10. WalkInv'
  <2>1. LookupRight'
    BY <1>2 DEF LookupRight, lookup, watch
  <2>2. UNCHANGED <<xwant, xnode, xfound, could, overlapped, stale, xpc>>
    BY <1>2 DEF lookup, watch
  <2>3. ASSUME Looking, ~stale, NULL \notin could
        PROVE  \E n \in Listed' : type'[n] = xwant /\ Reaches(xnode, n)'
    <3>1. PICK n \in Listed : type[n] = xwant /\ Reaches(xnode, n)
      BY <2>3 DEF Walking
    <3>2. n \in used /\ xnode \in used \cup {NULL}
      BY <1>3, <2>3 DEF Walking
    <3> QED
      BY <1>3, <1>4, <1>7, <2>2, <3>1, <3>2
  <2>4. ASSUME Looking, ~stale, xnode # NULL
        PROVE  /\ xnode \in used' /\ xnode # onode'
               /\ type'[xnode] = xwant => handler'[xnode] \in could
    BY <1>1, <1>4, <2>4 DEF Walking
  <2> QED
    BY <1>2, <2>1, <2>2, <2>3, <2>4 DEF Walking, Looking
<1> QED
  BY <1>8, <1>9, <1>10

\* Linked at the front, it is what the list begins with, and registered.
LEMMA PublishKeeps == ASSUME IInv, ListInv, WalkInv, Publish PROVE ListInv' /\ WalkInv'
<1> USE DEF IInv, ListInv, WalkInv
<1> PICK k \in Nodes : k = onode
  BY DEF Publish, NodeReady
<1>1. /\ opc = "publish" /\ opc' = "idle" /\ onode' = NULL /\ head' = k
      /\ UNCHANGED <<life, used, next, type, handler, xpc, lookup, overlapped, stale>>
      /\ registered' = [registered EXCEPT ![type[k]] = handler[k]]
      /\ could' = IF Looking /\ xwant = type[k] THEN could \cup {handler[k]} ELSE could
  BY DEF Publish, Published, Registered
<1>2. /\ k \in used /\ k \in Nodes /\ k # NULL /\ next[k] = head
      /\ type[k] \in Types /\ handler[k] \in Handlers /\ registered[type[k]] = NULL
  BY <1>1, NullAssumption DEF Chained, Filled, TypeOK
<1>3. Listed = used \ {k} /\ First = head /\ Listed' = used /\ First' = k
  BY <1>1 DEF Listed, Apart, First
<1>4. head \in Listed \cup {NULL} /\ \A n \in used : next[n] \in Listed \cup {NULL}
  BY <1>3 DEF Chained
<1>5. \A a, n : Reaches(a, n) => Reaches(a, n)'
  BY <1>1 DEF Reaches, Closed
<1>6. ASSUME NEW n \in used, NEW S \in SUBSET used, Closed(S), k \in S PROVE n \in S
  <2>1. next[k] \in S \cup {NULL}
    BY <1>6 DEF Closed
  <2>2. CASE n = k
    BY <1>6, <2>2
  <2>3. CASE n # k
    <3>1. Reaches(head, n)
      BY <1>3, <2>3 DEF Chained
    <3> QED
      BY <1>2, <1>6, <2>1, <3>1 DEF Reaches
  <2> QED
    BY <2>2, <2>3
<1>7. Chained'
  <2>1. \A n \in used : next[n] # k
    BY <1>2, <1>3, <1>4
  <2>2. ASSUME NEW n \in used, NEW m \in used, next[n] = next[m], next[n] # NULL PROVE n = m
    <3>1. CASE n \in Listed /\ m \in Listed
      BY <2>2, <3>1 DEF Chained
    <3>2. CASE n = k \/ m = k
      BY <1>2, <1>3, <2>2, <3>2 DEF Chained
    <3> QED
      BY <1>3, <3>1, <3>2
  <2>3. \A n \in Listed' : Reaches(First, n)'
    BY <1>1, <1>2, <1>3, <1>6 DEF Reaches, Closed
  <2>4. life = "ready"
    BY <1>1 DEF Chained
  <2> QED
    BY <1>1, <1>2, <1>3, <1>4, <2>1, <2>2, <2>3, <2>4 DEF Chained
<1>8. ASSUME NEW n \in Listed PROVE type[n] # type[k] /\ registered'[type[n]] = handler[n]
  <2>1. registered[type[n]] = handler[n] /\ handler[n] \in Handlers /\ type[n] \in Types
    BY <1>3 DEF Filled
  <2>2. type[n] # type[k]
    BY <1>2, <2>1, NullAssumption
  <2> QED
    BY <1>1, <2>1, <2>2 DEF TypeOK
<1>9. registered'[type[k]] = handler[k]
  BY <1>1, <1>2 DEF TypeOK
<1>10. Filled'
  <2>1. \A n \in Listed' : registered'[type'[n]] = handler'[n]
    BY <1>1, <1>3, <1>8, <1>9
  <2>2. \A n, m \in Listed' : type'[n] = type'[m] => n = m
    BY <1>1, <1>3, <1>8 DEF Filled
  <2>3. ASSUME NEW y \in Types, registered'[y] # NULL PROVE \E n \in Listed' : type'[n] = y
    <3>1. CASE y = type[k]
      BY <1>1, <1>2, <1>3, <3>1
    <3>2. CASE y # type[k]
      <4>1. registered[y] # NULL
        BY <1>1, <2>3, <3>2 DEF TypeOK
      <4>2. \E n \in Listed : type[n] = y
        BY <1>3, <4>1 DEF Filled
      <4> QED
        BY <1>1, <1>3, <4>2
    <3> QED
      BY <3>1, <3>2
  <2>4. \A n \in used' : type'[n] \in Types /\ handler'[n] \in Handlers
    BY <1>1 DEF Filled
  <2> QED
    BY <1>1, <2>1, <2>2, <2>3, <2>4 DEF Filled
<1>11. WalkInv'
  <2>1. could \subseteq could' /\ UNCHANGED <<xwant, xnode, xfound, overlapped, stale, xpc, used, type, handler>>
    BY <1>1 DEF lookup
  <2>2. LookupRight'
    BY <2>1 DEF LookupRight
  <2>3. ASSUME Looking PROVE registered'[xwant] \in could' /\ xwant \in Types
    BY <1>1, <1>9, <2>3 DEF Walking, TypeOK
  <2>4. ASSUME Looking, ~stale, NULL \notin could'
        PROVE  \E n \in Listed' : type'[n] = xwant /\ Reaches(xnode, n)'
    <3>1. PICK n \in Listed : type[n] = xwant /\ Reaches(xnode, n)
      BY <2>1, <2>4 DEF Walking
    <3> QED
      BY <1>3, <1>5, <2>1, <3>1
  <2>5. ASSUME Looking, ~stale
        PROVE  /\ xnode \in used \cup {NULL}
               /\ xnode # NULL /\ type[xnode] = xwant => handler[xnode] \in could'
    BY <2>1, <2>5 DEF Walking
  <2> QED
    BY <1>1, <2>1, <2>2, <2>3, <2>4, <2>5 DEF Walking, Looking
<1> QED
  BY <1>7, <1>10, <1>11

-----------------------------------------------------------------------------
(* Removing services *)

\* The node that leads to the one that is unlinked leads on to the next.
LEMMA UnlinkKeeps ==
  ASSUME IInv, ListInv, WalkInv, NEW y \in Types, Unlink(y)
  PROVE  ListInv' /\ WalkInv'
<1> USE DEF IInv, ListInv, WalkInv
<1>1. PICK m \in used :
        /\ type[m] = y /\ onode' = m
        /\ IF head = m
             THEN head' = next[m] /\ UNCHANGED next
             ELSE /\ next' = [x \in Nodes |-> IF x \in Before(m) THEN next[m] ELSE next[x]]
                  /\ UNCHANGED head
  BY DEF Unlink
<1>2. /\ opc = "idle" /\ opc' = "free" /\ life = "ready" /\ registered[y] # NULL
      /\ registered' = [registered EXCEPT ![y] = NULL]
      /\ could' = IF Looking /\ xwant = y THEN could \cup {NULL} ELSE could
      /\ UNCHANGED <<life, used, type, handler, xpc, lookup, overlapped, stale>>
  BY DEF Unlink, Registered
<1>3. Listed = used /\ First = head /\ Listed' = used \ {m} /\ First' = head'
  BY <1>1, <1>2 DEF Listed, Apart, First
<1>4. used \subseteq Nodes /\ m \in Nodes /\ m # NULL /\ NULL \notin used
      /\ \A n \in used : next[n] \in used \cup {NULL}
  BY <1>3, NullAssumption DEF TypeOK, Chained
<1>5. \A n, x \in used : next[n] = next[x] /\ next[n] # NULL => n = x
  BY <1>3 DEF Chained
<1>6. ASSUME NEW n \in used
      PROVE  next'[n] = IF head # m /\ next[n] = m THEN next[m] ELSE next[n]
  <2>1. n \in Nodes
    BY <1>4
  <2>2. CASE head = m
    BY <1>1, <2>2
  <2>3. CASE head # m
    <3>1. n \in Before(m) <=> next[n] = m
      BY DEF Before
    <3> QED
      BY <1>1, <2>1, <2>3, <3>1
  <2> QED
    BY <2>2, <2>3
\* No node leads to itself, or the list would not reach it.
<1>7. next[m] # m
  <2> SUFFICES ASSUME next[m] = m PROVE FALSE
    OBVIOUS
  <2>1. head # m
    BY <1>3, <1>4 DEF Chained
  <2>2. \A x \in used \ {m} : next[x] \in (used \ {m}) \cup {NULL}
    BY <1>4, <1>5
  <2>3. Closed(used \ {m}) /\ head \in (used \ {m}) \cup {NULL}
    BY <1>3, <2>1, <2>2 DEF Closed, Chained
  <2>4. Reaches(head, m)
    BY <1>3 DEF Chained
  <2>5. used \ {m} \in SUBSET used
    OBVIOUS
  <2> QED
    BY <2>3, <2>4, <2>5 DEF Reaches
\* What next led to before, it leads to still, but for m.
<1>8. ASSUME NEW S \in SUBSET used, Closed(S)'
      PROVE  \E T \in SUBSET used : Closed(T) /\ S \subseteq T /\ T \subseteq S \cup {m}
                                   /\ (head = m /\ head' \in S \cup {NULL} => m \in T)
  <2>0. \A x \in S : next'[x] \in S \cup {NULL}
    BY <1>8 DEF Closed
  <2>1. CASE head = m /\ head' \in S \cup {NULL}
    <3>1. \A x \in S \cup {m} : next[x] \in (S \cup {m}) \cup {NULL}
      BY <1>1, <1>6, <2>0, <2>1
    <3>2. S \cup {m} \in SUBSET used
      OBVIOUS
    <3> QED
      BY <3>1, <3>2 DEF Closed
  <2>2. CASE head # m /\ \E x \in S : next[x] = m
    <3>1. next[m] \in S \cup {NULL}
      BY <1>6, <2>0, <2>2
    <3>2. \A x \in S \cup {m} : next[x] \in (S \cup {m}) \cup {NULL}
      BY <1>6, <2>0, <3>1
    <3>3. S \cup {m} \in SUBSET used
      OBVIOUS
    <3> QED
      BY <2>2, <3>2, <3>3 DEF Closed
  <2>3. CASE /\ head = m => head' \notin S \cup {NULL}
             /\ head = m \/ \A x \in S : next[x] # m
    <3>1. \A x \in S : next[x] \in S \cup {NULL}
      BY <1>6, <2>0, <2>3
    <3> QED
      BY <2>3, <3>1 DEF Closed
  <2> QED
    BY <2>1, <2>2, <2>3
<1>9. ASSUME NEW a, NEW n, n # m, Reaches(a, n)
      PROVE  \A S \in SUBSET used : Closed(S)' /\ a \in S \cup {NULL} => n \in S
  <2> SUFFICES ASSUME NEW S \in SUBSET used, Closed(S)', a \in S \cup {NULL} PROVE n \in S
    OBVIOUS
  <2>1. PICK T \in SUBSET used : Closed(T) /\ S \subseteq T /\ T \subseteq S \cup {m}
    BY <1>8
  <2>2. n \in T
    BY <1>9, <2>1 DEF Reaches
  <2> QED
    BY <1>9, <2>1, <2>2
<1>10. ASSUME NEW n \in used \ {m}, NEW S \in SUBSET used, Closed(S)', head' \in S \cup {NULL}
       PROVE  n \in S
  <2>1. PICK T \in SUBSET used : Closed(T) /\ S \subseteq T /\ T \subseteq S \cup {m}
                                /\ (head = m => m \in T)
    BY <1>8, <1>10
  <2>2. head \in T \cup {NULL}
    BY <1>1, <1>10, <2>1
  <2>3. n \in T
    BY <1>3, <2>1, <2>2 DEF Chained, Reaches
  <2> QED
    BY <2>1, <2>3
<1>11. Chained'
  <2>1. head' \in (used \ {m}) \cup {NULL}
    BY <1>1, <1>3, <1>4, <1>7 DEF Chained
  <2>2. ASSUME NEW n \in used PROVE next'[n] \in (used \ {m}) \cup {NULL}
    BY <1>3, <1>4, <1>6, <1>7 DEF Chained
  <2>3. ASSUME NEW n \in used \ {m}, next'[n] # NULL PROVE next'[n] # head'
    <3>1. CASE head = m
      BY <1>1, <1>5, <1>6, <2>3, <3>1
    <3>2. CASE head # m
      BY <1>1, <1>3, <1>6, <2>3, <3>2 DEF Chained
    <3> QED
      BY <3>1, <3>2
  <2>4. ASSUME NEW n \in used \ {m}, NEW x \in used \ {m}, next'[n] = next'[x], next'[n] # NULL
        PROVE  n = x
    BY <1>4, <1>5, <1>6, <2>4
  <2>5. \A n \in Listed' : Reaches(First, n)'
    BY <1>2, <1>3, <1>10 DEF Reaches
  <2> QED
    BY <1>1, <1>2, <1>3, <2>1, <2>2, <2>3, <2>4, <2>5 DEF Chained
<1>12. \A n \in used \ {m} : type[n] # y
  BY <1>1, <1>3 DEF Filled
<1>13. Filled'
  <2>1. \A n \in used' : type'[n] \in Types /\ handler'[n] \in Handlers
    BY <1>2 DEF Filled
  <2>2. \A n \in Listed' : registered'[type'[n]] = handler'[n]
    BY <1>2, <1>3, <1>12 DEF Filled, TypeOK
  <2>3. \A n, x \in Listed' : type'[n] = type'[x] => n = x
    BY <1>2, <1>3 DEF Filled
  <2>4. ASSUME NEW z \in Types, registered'[z] # NULL PROVE \E n \in Listed' : type'[n] = z
    <3>1. z # y /\ registered[z] # NULL
      BY <1>2, <2>4 DEF TypeOK
    <3>2. PICK n \in Listed : type[n] = z
      BY <1>3, <3>1 DEF Filled
    <3> QED
      BY <1>1, <1>2, <1>3, <3>1, <3>2
  <2> QED
    BY <1>2, <2>1, <2>2, <2>3, <2>4 DEF Filled
<1>14. WalkInv'
  <2>1. could \subseteq could' /\ UNCHANGED <<xwant, xnode, xfound, overlapped, stale, xpc, used, type, handler>>
    BY <1>2 DEF lookup
  <2>2. LookupRight'
    BY <2>1 DEF LookupRight
  <2>3. ASSUME Looking PROVE registered'[xwant] \in could' /\ xwant \in Types
    BY <1>2, <2>3 DEF Walking, TypeOK
  <2>4. ASSUME Looking, ~stale, NULL \notin could'
        PROVE  \E n \in Listed' : type'[n] = xwant /\ Reaches(xnode, n)'
    <3>1. PICK n \in Listed : type[n] = xwant /\ Reaches(xnode, n)
      BY <2>1, <2>4 DEF Walking
    <3>2. xwant # y
      BY <1>2, <2>4
    <3>3. n # m
      BY <1>1, <3>1, <3>2
    <3>4. Reaches(xnode, n)'
      BY <1>9, <2>1, <3>1, <3>3 DEF Reaches
    <3> QED
      BY <1>3, <2>1, <3>1, <3>3, <3>4
  <2>5. ASSUME Looking, ~stale
        PROVE  /\ xnode \in used \cup {NULL}
               /\ xnode # NULL /\ type[xnode] = xwant => handler[xnode] \in could'
    BY <2>1, <2>5 DEF Walking
  <2> QED
    BY <1>2, <2>1, <2>2, <2>3, <2>4, <2>5 DEF Walking, Looking
<1> QED
  BY <1>11, <1>13, <1>14

\* What a freed node was a lookup learns by standing on it.
LEMMA FreedIsSeen ==
  ASSUME TypeOK, NEW m \in Nodes, Freed(m)
  PROVE  /\ used' = used \ {m}
         /\ \A n \in Nodes \ {m} : next'[n] = next[n] /\ type'[n] = type[n] /\ handler'[n] = handler[n]
         /\ (stale \/ (Looking /\ xnode = m)) <=> stale'
         /\ (overlapped \/ Looking) <=> overlapped'
<1>1. /\ used' = used \ {m} /\ next' = [next EXCEPT ![m] = NULL]
      /\ type' = [type EXCEPT ![m] = NULL] /\ handler' = [handler EXCEPT ![m] = NULL]
  BY DEF Freed
<1>2. (stale \/ (Looking /\ xnode = m)) <=> stale'
  BY Zenon DEF Freed
<1>3. (overlapped \/ Looking) <=> overlapped'
  BY Zenon DEF Freed
<1> QED
  BY <1>1, <1>2, <1>3 DEF TypeOK

\* The node that was unlinked is not in the list.
LEMMA FreeKeeps == ASSUME IInv, ListInv, WalkInv, Free PROVE ListInv' /\ WalkInv'
<1> USE DEF IInv, ListInv, WalkInv
<1>1. /\ opc = "free" /\ Freed(onode) /\ opc' = "idle" /\ onode' = NULL
      /\ UNCHANGED <<life, head, registered, xpc, lookup, could>>
  BY DEF Free
<1>2. PICK m \in Nodes : m = onode /\ m \in used
  BY <1>1 DEF Chained, TypeOK
<1>3. /\ used' = used \ {m}
      /\ \A n \in Nodes \ {m} : next'[n] = next[n] /\ type'[n] = type[n] /\ handler'[n] = handler[n]
      /\ (stale \/ (Looking /\ xnode = m)) <=> stale'
      /\ (overlapped \/ Looking) <=> overlapped'
  BY <1>1, <1>2, FreedIsSeen
<1>4. /\ Listed = used \ {m} /\ Listed' = used \ {m} /\ First = head /\ First' = head
      /\ used \subseteq Nodes
  BY <1>1, <1>2, <1>3 DEF Listed, Apart, First, TypeOK
<1>5. \A a, n : Reaches(a, n) => \A S \in SUBSET used' : Closed(S)' /\ a \in S \cup {NULL} => n \in S
  BY <1>1, <1>2, FreedReaches
<1>6. Chained'
  <2>1. \A n \in Listed' : Reaches(First, n)'
    BY <1>1, <1>4, <1>5 DEF Chained, Reaches
  <2>2. /\ \A n \in used' : next'[n] \in Listed' \cup {NULL}
        /\ \A n \in Listed' : next'[n] # NULL => next'[n] # First'
        /\ \A n, x \in Listed' : next'[n] = next'[x] /\ next'[n] # NULL => n = x
    BY <1>3, <1>4 DEF Chained
  <2>3. First' \in Listed' \cup {NULL} /\ life' = "ready"
    BY <1>1, <1>4 DEF Chained
  <2> QED
    BY <1>1, <2>1, <2>2, <2>3 DEF Chained
<1>7. Filled'
  <2>1. \A n \in used' : type'[n] \in Types /\ handler'[n] \in Handlers
    BY <1>3, <1>4 DEF Filled
  <2>2. /\ \A n \in Listed' : registered'[type'[n]] = handler'[n]
        /\ \A n, x \in Listed' : type'[n] = type'[x] => n = x
    BY <1>1, <1>3, <1>4 DEF Filled
  <2>3. ASSUME NEW z \in Types, registered'[z] # NULL PROVE \E n \in Listed' : type'[n] = z
    BY <1>1, <1>3, <1>4, <2>3 DEF Filled
  <2> QED
    BY <1>1, <2>1, <2>2, <2>3 DEF Filled
<1>8. WalkInv'
  <2>1. UNCHANGED <<xwant, xnode, xfound, xpc, could>>
    BY <1>1 DEF lookup
  <2>2. LookupRight'
    BY <1>3, <2>1 DEF LookupRight, Looking
  <2>3. ASSUME Looking, ~stale'
        PROVE  /\ xnode \in used' \cup {NULL}
               /\ xnode # NULL /\ type'[xnode] = xwant => handler'[xnode] \in could
    BY <1>3, <1>4, <2>3 DEF Walking
  <2>4. ASSUME Looking, ~stale', NULL \notin could
        PROVE  \E n \in Listed' : type'[n] = xwant /\ Reaches(xnode, n)'
    <3>1. PICK n \in Listed : type[n] = xwant /\ Reaches(xnode, n)
      BY <1>3, <2>4 DEF Walking
    <3> QED
      BY <1>3, <1>4, <1>5, <2>1, <3>1 DEF Reaches
  <2>5. Looking => registered[xwant] \in could /\ xwant \in Types
    BY <1>3 DEF Walking
  <2> QED
    BY <1>1, <2>1, <2>2, <2>3, <2>4, <2>5 DEF Walking, Looking
<1> QED
  BY <1>6, <1>7, <1>8

\* finalize begins where the list does.
LEMMA FinalizeKeeps == ASSUME IInv, ListInv, WalkInv, Finalize PROVE ListInv' /\ WalkInv'
<1> USE DEF IInv, ListInv, WalkInv
<1>1. /\ opc = "idle" /\ opc' = "finalize" /\ onode' = head /\ life = "ready"
      /\ UNCHANGED <<life, head, used, next, type, handler, registered, xpc, lookup, could, stale>>
  BY DEF Finalize, registry
<1>2. (overlapped \/ Looking) <=> overlapped'
  BY Zenon DEF Finalize
<1>3. Listed' = Listed /\ First' = First /\ First = head
  BY <1>1 DEF Listed, Apart, First
<1>4. ListInv'
  BY <1>1, <1>3 DEF Chained, Filled, Reaches, Closed
<1>5. WalkInv'
  <2>1. LookupRight'
    BY <1>1, <1>2 DEF LookupRight, lookup
  <2>2. Looking => overlapped'
    BY <1>2
  <2> QED
    BY <1>1, <1>3, <2>1, <2>2 DEF Walking, Looking, Reaches, Closed, lookup
<1> QED
  BY <1>4, <1>5

\* It frees the first node, which no other leads to: a lookup that is not on it
\* has it behind itself.
LEMMA FinalizeNodeKeeps == ASSUME IInv, ListInv, WalkInv, FinalizeNode PROVE ListInv' /\ WalkInv'
<1> USE DEF IInv, ListInv, WalkInv
<1>1. /\ opc = "finalize" /\ onode # NULL /\ Freed(onode) /\ onode' = next[onode]
      /\ UNCHANGED <<life, head, registered, opc, xpc, lookup, could>>
  BY DEF FinalizeNode
<1>2. PICK m \in Nodes : m = onode
  BY <1>1 DEF TypeOK
<1>3. /\ used' = used \ {m}
      /\ \A n \in Nodes \ {m} : next'[n] = next[n] /\ type'[n] = type[n] /\ handler'[n] = handler[n]
      /\ (stale \/ (Looking /\ xnode = m)) <=> stale'
      /\ (overlapped \/ Looking) <=> overlapped'
  BY <1>1, <1>2, FreedIsSeen
<1>4. /\ Listed = used /\ Listed' = used \ {m} /\ First = m /\ First' = next[m]
      /\ used \subseteq Nodes /\ m # NULL
  BY <1>1, <1>2, <1>3 DEF Listed, Apart, First, TypeOK
<1>5. /\ m \in used /\ NULL \notin used
      /\ \A n \in used : next[n] \in (used \ {m}) \cup {NULL}
      /\ \A n, x \in used : next[n] = next[x] /\ next[n] # NULL => n = x
  <2>1. m \in used
    BY <1>4 DEF Chained
  <2>2. NULL \notin used
    BY <1>4, NullAssumption
  <2>3. \A n \in used : next[n] \in (used \ {m}) \cup {NULL}
    BY <1>4 DEF Chained
  <2>4. \A n, x \in used : next[n] = next[x] /\ next[n] # NULL => n = x
    BY <1>4 DEF Chained
  <2> QED
    BY <2>1, <2>2, <2>3, <2>4
<1>6. \A a, n : Reaches(a, n) => \A S \in SUBSET used' : Closed(S)' /\ a \in S \cup {NULL} => n \in S
  BY <1>1, <1>2, FreedReaches
<1>7. ASSUME NEW n \in used \ {m}, NEW S \in SUBSET used', Closed(S)', next[m] \in S \cup {NULL}
      PROVE  n \in S
  <2>1. \A x \in S : next[x] \in S \cup {NULL}
    BY <1>3, <1>4, <1>7 DEF Closed
  <2>2. Closed(S \cup {m}) /\ S \cup {m} \in SUBSET used
    BY <1>3, <1>5, <1>7, <2>1 DEF Closed
  <2>3. Reaches(m, n)
    BY <1>4 DEF Chained
  <2>4. n \in S \cup {m}
    BY <2>2, <2>3 DEF Reaches
  <2> QED
    BY <2>4
<1>8. Chained'
  <2>1. \A n \in Listed' : Reaches(First, n)'
    BY <1>4, <1>7 DEF Reaches
  <2>2. \A n \in used' : next'[n] \in Listed' \cup {NULL}
    BY <1>3, <1>4, <1>5
  <2>3. \A n \in Listed' : next'[n] # NULL => next'[n] # First'
    BY <1>3, <1>4, <1>5
  <2>4. \A n, x \in Listed' : next'[n] = next'[x] /\ next'[n] # NULL => n = x
    BY <1>3, <1>4, <1>5
  <2>5. First' \in Listed' \cup {NULL} /\ life' = "ready"
    BY <1>1, <1>4, <1>5 DEF Chained
  <2>6. head' \notin used' \cup {NULL}
    BY <1>1, <1>2, <1>3, <1>4 DEF Chained
  <2> QED
    BY <1>1, <2>1, <2>2, <2>3, <2>4, <2>5, <2>6 DEF Chained
<1>9. Filled'
  <2>1. First' # head'
    <3>1. head' \notin used \/ head' = m
      BY <1>1, <1>2 DEF Chained
    <3>2. head' # NULL
      BY <1>1, <1>2, <1>4 DEF Chained
    <3> QED
      BY <1>4, <1>5, <3>1, <3>2
  <2>2. \A n \in used' : type'[n] \in Types /\ handler'[n] \in Handlers
    BY <1>3, <1>4 DEF Filled
  <2>3. /\ \A n \in Listed' : registered'[type'[n]] = handler'[n]
        /\ \A n, x \in Listed' : type'[n] = type'[x] => n = x
    BY <1>1, <1>3, <1>4 DEF Filled
  <2> QED
    BY <1>1, <2>1, <2>2, <2>3 DEF Filled
<1>10. WalkInv'
  <2>1. UNCHANGED <<xwant, xnode, xfound, xpc, could>>
    BY <1>1 DEF lookup
  <2>2. LookupRight'
    BY <1>3, <2>1 DEF LookupRight, Looking
  <2>3. ASSUME Looking, ~stale'
        PROVE  /\ xnode \in used' \cup {NULL}
               /\ xnode # NULL /\ type'[xnode] = xwant => handler'[xnode] \in could
    BY <1>3, <1>4, <2>3 DEF Walking
  <2>4. ASSUME Looking, ~stale', NULL \notin could
        PROVE  \E n \in Listed' : type'[n] = xwant /\ Reaches(xnode, n)'
    <3>1. PICK n \in Listed : type[n] = xwant /\ Reaches(xnode, n)
      BY <1>3, <2>4 DEF Walking
    <3>2. n # m
      <4>1. Closed(used \ {m}) /\ used \ {m} \in SUBSET used
        BY <1>5 DEF Closed
      <4>2. xnode \in (used \ {m}) \cup {NULL}
        BY <1>3, <2>3, <2>4
      <4> QED
        BY <3>1, <4>1, <4>2 DEF Reaches
    <3> QED
      BY <1>3, <1>4, <1>6, <2>1, <3>1, <3>2 DEF Reaches
  <2>5. Looking => registered[xwant] \in could /\ xwant \in Types
    BY <1>3 DEF Walking
  <2> QED
    BY <1>1, <2>1, <2>2, <2>3, <2>4, <2>5 DEF Walking, Looking
<1> QED
  BY <1>8, <1>9, <1>10

\* At its end all nodes are freed.
LEMMA FinalizedKeeps == ASSUME IInv, ListInv, WalkInv, Finalized PROVE ListInv' /\ WalkInv'
<1> USE DEF IInv, ListInv, WalkInv
<1>1. /\ opc = "finalize" /\ onode = NULL /\ opc' = "idle" /\ onode' = NULL
      /\ head' = NULL /\ registered' = NoneRegistered /\ life' = "final"
      /\ could' = IF Looking THEN could \cup {NULL} ELSE could
      /\ UNCHANGED <<used, next, type, handler, xpc, lookup, overlapped, stale>>
  BY DEF Finalized
<1>2. Listed = used /\ First = NULL /\ Listed' = used /\ First' = NULL
  BY <1>1 DEF Listed, Apart, First
<1>3. used = {}
  <2>1. ASSUME NEW n \in used PROVE FALSE
    <3>1. Reaches(NULL, n)
      BY <1>2 DEF Chained
    <3>2. Closed({}) /\ {} \in SUBSET used
      BY DEF Closed
    <3> QED
      BY <3>1, <3>2 DEF Reaches
  <2> QED
    BY <2>1
<1>4. Chained' /\ Filled'
  BY <1>1, <1>2, <1>3 DEF Chained, Filled, NoneRegistered
<1>5. WalkInv'
  <2>1. LookupRight'
    BY <1>1 DEF LookupRight, lookup, Looking
  <2> QED
    BY <1>1, <1>3, <2>1 DEF Walking, Looking, NoneRegistered, lookup
<1> QED
  BY <1>4, <1>5

-----------------------------------------------------------------------------
(* Looking a service up *)

\* A lookup begins at the head, from which it reaches what is registered.
LEMMA RequestKeeps ==
  ASSUME IInv, ListInv, WalkInv, NEW y \in Types, Request(y) PROVE WalkInv'
<1> USE DEF IInv, ListInv, WalkInv
<1>1. /\ xwant' = y /\ xnode' = head /\ could' = {registered[y]} /\ xpc' = "lookup"
      /\ UNCHANGED <<life, registry, owner>>
  BY DEF Request
<1>2. (stale' <=> head # NULL /\ head \notin used) /\ (overlapped' <=> opc = "finalize")
  BY Zenon DEF Request
<1>3. UNCHANGED <<used, next, type, handler, registered, head, opc, onode>> /\ Listed' = Listed
  BY <1>1 DEF registry, owner, Listed, Apart
<1>5. Listed \subseteq used
  BY DEF Listed
<1>6. LookupRight'
  BY <1>1, <1>2, <1>5 DEF Chained, First, LookupRight
<1>7. ASSUME ~stale' PROVE First = head
  BY <1>2, <1>7 DEF Chained, First
<1>8. ASSUME ~stale', head # NULL
      PROVE  head \in used /\ (opc = "publish" => head # onode) /\ (type[head] = y => handler[head] \in could')
  <2>1. head \in Listed
    BY <1>7, <1>8 DEF Chained
  <2>2. opc = "publish" => head # onode
    BY <2>1 DEF Listed, Apart
  <2> QED
    BY <1>1, <1>5, <2>1, <2>2 DEF Filled
<1>9. ASSUME ~stale', NULL \notin could'
      PROVE  \E n \in Listed : type[n] = y /\ Reaches(head, n)
  <2>1. registered[y] # NULL
    BY <1>1, <1>9
  <2>2. PICK n \in Listed : type[n] = y
    BY <1>7, <1>9, <2>1 DEF Filled
  <2> QED
    BY <1>7, <1>9, <2>2 DEF Chained
<1>10. \A n : Reaches(head, n) => Reaches(xnode, n)'
  BY <1>1, <1>3 DEF Reaches, Closed
<1> QED
  BY <1>1, <1>2, <1>3, <1>6, <1>8, <1>9, <1>10 DEF Walking, Looking

\* It moves on along the list, and never past what it looks for.
LEMMA LookKeeps == ASSUME IInv, ListInv, WalkInv, Look PROVE WalkInv'
<1> USE DEF IInv, ListInv, WalkInv
<1>1. /\ Looking /\ UNCHANGED <<life, registry, owner, xwant, could, overlapped>>
      /\ registered[xwant] \in could /\ xwant \in Types /\ (stale => overlapped)
  BY DEF Look, Walking, LookupRight
<1>2. UNCHANGED <<used, next, type, handler, registered, opc, onode>> /\ Listed' = Listed
  BY <1>1 DEF registry, owner, Listed, Apart
<1>3. CASE xnode = NULL
  <2>1. xfound' = NULL /\ xpc' = "found" /\ stale' = stale
    BY <1>3 DEF Look, Answered
  <2>2. ASSUME ~stale PROVE NULL \in could
    <3>1. Closed({}) /\ {} \in SUBSET used
      BY DEF Closed
    <3>2. \A n : ~Reaches(xnode, n)
      BY <1>3, <3>1 DEF Reaches
    <3> QED
      BY <1>1, <2>2, <3>2 DEF Walking
  <2> QED
    BY <1>1, <2>1, <2>2 DEF Walking, LookupRight, Looking
<1>4. CASE xnode # NULL /\ stale
  <2>1. xpc' = "found" /\ stale'
    BY <1>4 DEF Look, Answered
  <2> QED
    BY <1>1, <1>4, <2>1 DEF Walking, LookupRight, Looking
<1>5. CASE xnode # NULL /\ ~stale /\ type[xnode] = xwant
  <2>1. xpc' = "found" /\ ~stale' /\ xfound' = handler[xnode]
    BY <1>5 DEF Look, Answered
  <2>2. handler[xnode] \in could
    BY <1>1, <1>5 DEF Walking
  <2> QED
    BY <1>1, <2>1, <2>2 DEF Walking, LookupRight, Looking
<1>6. CASE xnode # NULL /\ ~stale /\ type[xnode] # xwant
  <2>1. /\ xnode' = next[xnode] /\ xpc' = xpc
        /\ stale' <=> next[xnode] # NULL /\ next[xnode] \notin used
    BY <1>6, Zenon DEF Look
  <2>2. xnode \in used
    BY <1>1, <1>6 DEF Walking
  <2>3. next[xnode] \in Listed \cup {NULL} /\ Listed \subseteq used
    BY <2>2 DEF Chained, Listed
  <2>4. ~stale'
    BY <2>1, <2>3
  <2>5. ASSUME next[xnode] # NULL
        PROVE  /\ opc = "publish" => next[xnode] # onode
               /\ type[next[xnode]] = xwant => handler[next[xnode]] \in could
    BY <1>1, <2>3, <2>5 DEF Filled, Listed, Apart
  <2>6. ASSUME NULL \notin could
        PROVE  \E n \in Listed : type[n] = xwant /\ Reaches(next[xnode], n)
    <3>1. PICK n \in Listed : type[n] = xwant /\ Reaches(xnode, n)
      BY <1>1, <1>6, <2>6 DEF Walking
    <3>2. ASSUME NEW S \in SUBSET used, Closed(S), next[xnode] \in S \cup {NULL} PROVE n \in S
      <4>1. Closed(S \cup {xnode}) /\ S \cup {xnode} \in SUBSET used
        BY <2>2, <3>2 DEF Closed
      <4>2. n \in S \cup {xnode}
        BY <3>1, <4>1 DEF Reaches
      <4> QED
        BY <1>6, <3>1, <4>2
    <3> QED
      BY <3>1, <3>2 DEF Reaches
  <2>7. \A n : Reaches(next[xnode], n) => Reaches(xnode, n)'
    BY <1>2, <2>1 DEF Reaches, Closed
  <2>8. LookupRight'
    BY <1>1, <2>1, <2>4 DEF LookupRight, Looking
  <2> QED
    BY <1>1, <1>2, <2>1, <2>3, <2>4, <2>5, <2>6, <2>7, <2>8 DEF Walking, Looking
<1> QED
  BY <1>3, <1>4, <1>5, <1>6

\* Together, in any process that starts.
LEMMA ListStep == IInv /\ ListInv /\ WalkInv /\ [Next]_vars => ListInv' /\ WalkInv'
<1> SUFFICES ASSUME IInv, ListInv, WalkInv, [Next]_vars PROVE ListInv' /\ WalkInv'
  OBVIOUS
<1>1. CASE Owner
  BY <1>1, InitializeKeeps, AddKeeps, PublishKeeps, UnlinkKeeps, FreeKeeps, FinalizeKeeps,
     FinalizeNodeKeeps, FinalizedKeeps DEF Owner
<1>2. CASE Executor
  <2>1. UNCHANGED <<life, registry, owner>>
    BY <1>2 DEF Executor, Execute, Bind, Listen, ExecuteFails, Request, Look, Serve
  <2>2. ListInv'
    BY <2>1, ListUntouched
  <2>3. CASE Execute \/ Bind \/ Listen \/ ExecuteFails \/ Serve
    <3>1. xpc' \notin {"lookup", "found"}
      BY <2>3 DEF Execute, Bind, Listen, ExecuteFails, Serve
    <3>2. UNCHANGED <<stale, overlapped>> \/ ~stale'
      BY <2>3 DEF Execute, Bind, Listen, ExecuteFails, Serve, watch
    <3> QED
      BY <2>2, <3>1, <3>2 DEF WalkInv, Walking, LookupRight, Looking
  <2> QED
    BY <1>2, <2>2, <2>3, RequestKeeps, LookKeeps DEF Executor
<1>3. CASE Restart \/ StartAnother
  <2>1. Starts
    BY <1>3 DEF Restart, StartAnother
  <2>2. used' = {} /\ head' = NULL /\ opc' = "idle" /\ life' = "raw" /\ registered' = NoneRegistered
        /\ xpc' = "out" /\ ~stale'
    BY <2>1 DEF Starts
  <2>3. Listed' = {} /\ First' = NULL
    BY <2>2 DEF Listed, First, Apart
  <2> QED
    BY <2>2, <2>3 DEF ListInv, WalkInv, Chained, Filled, Walking, LookupRight, Looking, NoneRegistered
<1>4. CASE OperatorUnlinks \/ UNCHANGED vars
  <2>1. UNCHANGED <<life, registry, owner, xpc, lookup, watch>>
    BY <1>4 DEF OperatorUnlinks, vars
  <2> QED
    BY <2>1, ListUntouched, WalkUntouched DEF registry, watch
<1> QED
  BY <1>1, <1>2, <1>3, <1>4 DEF Next

\* The list's invariant and a lookup's hold of every server.
THEOREM ListInvariance == Spec => [](ListInv /\ WalkInv)
  BY Invariance, ListInit, ListStep, PTL DEF Spec

\* Without a lock, a lookup finds what was registered at some moment since it
\* began, unless its node was freed under it (server.c:91).
THEOREM LookupsAreRight == Spec => []LookupRight
  BY ListInvariance, PTL DEF WalkInv
=================================================================================
