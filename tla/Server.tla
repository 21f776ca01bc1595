-------------------------------- MODULE Server --------------------------------
(***************************************************************************)
(* The life of a server: its registry of services (server.c) and its       *)
(* socket (server/unsock.c).  A thread in execute serves requests and      *)
(* looks services up; another thread, the owner, initializes the server,   *)
(* adds and removes services and finalizes it.  Nothing orders the two:    *)
(* the registry has no lock.  The process may die and start again, or      *)
(* another one be started beside it; they share the socket's path in the   *)
(* file system.                                                            *)
(*                                                                         *)
(* How a request is read and answered is the subject of Exchange.          *)
(***************************************************************************)
EXTENDS Integers, FiniteSets

CONSTANTS
    Types,       \* types of a request's first field
    Handlers,
    Nodes,       \* memory for srvd_server_service_t
    Sockets,     \* sockets the kernel hands out
    NULL

ASSUME NullAssumption == NULL \notin Handlers \cup Nodes \cup Sockets

VARIABLES
    life,        \* the structure: "raw", "ready", "final"
    executing,   \* server->monitor.executing
    head,        \* server->monitor.services
    used, next, type, handler,  \* allocated nodes, and what is in them
    socket,      \* server->socket
    state,       \* state[s]: "none", "open", "bound", "listening", "closed"
    file,        \* the socket bound to the path, or NULL
    opc, onode,  \* where the owner is in its call, and the node it is about
    xpc,         \* where the other thread is: "out" of execute, ...
    xwant, xnode, xfound,       \* service_get: type, i, *handler
    \* auxiliary
    registered,  \* registered[y]: the handler the owner registered for y, or NULL
    could,       \* what registered[xwant] has been since service_get began
    overlapped,  \* a service was freed, or finalize under way, since then
    stale,       \* service_get has reached a node that is not allocated
    unlinked     \* sockets whose path an operator has removed

registry == <<head, used, next, type, handler, registered>>
sockets  == <<socket, state, file, unlinked>>
owner    == <<opc, onode>>
lookup   == <<xwant, xnode, xfound>>
watch    == <<could, overlapped, stale>>
vars     == <<life, executing, registry, sockets, owner, xpc, lookup, watch>>

NoneRegistered == [y \in Types |-> NULL]

Init ==
    /\ life = "raw" /\ executing = FALSE
    /\ head = NULL /\ used = {} /\ next = [n \in Nodes |-> NULL]
    /\ type = [n \in Nodes |-> NULL] /\ handler = [n \in Nodes |-> NULL]
    /\ socket = NULL /\ state = [s \in Sockets |-> "none"] /\ file = NULL
    /\ opc = "idle" /\ onode = NULL
    /\ xpc = "out" /\ xwant = NULL /\ xnode = NULL /\ xfound = NULL
    /\ registered = NoneRegistered /\ could = {} /\ overlapped = FALSE /\ stale = FALSE
    /\ unlinked = {}

-----------------------------------------------------------------------------
(* What a lookup under way is told of the owner's steps *)

Looking == xpc = "lookup"

\* The handler of y is now h.
Registered(y, h) ==
    /\ registered' = [registered EXCEPT ![y] = h]
    /\ could' = IF Looking /\ xwant = y THEN could \cup {h} ELSE could

\* What a freed node holds does not matter: see Look.
Freed(n) ==
    /\ used' = used \ {n}
    /\ next' = [next EXCEPT ![n] = NULL] /\ type' = [type EXCEPT ![n] = NULL]
    /\ handler' = [handler EXCEPT ![n] = NULL]
    /\ overlapped' = (overlapped \/ Looking)
    /\ stale' = (stale \/ (Looking /\ xnode = n))

-----------------------------------------------------------------------------
(* The owner *)

\* Mutant of SocketFails: the result of socket() is not looked at.
MutSocketFails == socket' = NULL /\ life' = "ready" /\ UNCHANGED state
SocketFails == socket' = NULL /\ UNCHANGED <<state, life>>

\* An earlier socket of the structure is not closed.
Initialize ==
    /\ opc = "idle" /\ life # "ready"
    /\ executing' = FALSE
    /\ head' = NULL
    /\ \/ \E s \in Sockets :
            /\ state[s] = "none"
            /\ state' = [state EXCEPT ![s] = "open"] /\ socket' = s
            /\ life' = "ready"
       \/ SocketFails
    /\ UNCHANGED <<used, next, type, handler, registered, file, unlinked, owner, xpc, lookup,
                   watch>>

\* service_has walks the nodes that only the owner changes; without one of
\* this type a node is allocated and filled in.
Add(y, h) ==
    /\ opc = "idle" /\ life = "ready" /\ registered[y] = NULL
    /\ \E n \in Nodes \ used :
         /\ used' = used \cup {n}
         /\ type' = [type EXCEPT ![n] = y]
         /\ handler' = [handler EXCEPT ![n] = h]
         /\ next' = [next EXCEPT ![n] = head]
         /\ onode' = n
    /\ opc' = "publish"
    /\ UNCHANGED <<life, executing, head, registered, sockets, xpc, lookup, watch>>

\* Mutant of Published: the rest of the list is lost.
MutPublished(n) == head' = n /\ next' = [next EXCEPT ![n] = NULL]
Published(n) == head' = n /\ UNCHANGED next

Publish ==
    /\ opc = "publish"
    /\ Published(onode)
    /\ Registered(type[onode], handler[onode])
    /\ opc' = "idle" /\ onode' = NULL
    /\ UNCHANGED <<life, executing, used, type, handler, sockets, xpc, lookup, overlapped, stale>>

\* The nodes that lead to n.
Before(n) == {m \in used : next[m] = n}

\* service_remove unlinks the first node of the type, and frees it after.
Unlink(y) ==
    /\ opc = "idle" /\ life = "ready" /\ registered[y] # NULL
    /\ \E n \in used :
         /\ type[n] = y
         /\ IF head = n
              THEN head' = next[n] /\ UNCHANGED next
              ELSE next' = [m \in Nodes |-> IF m \in Before(n) THEN next[n] ELSE next[m]]
                   /\ UNCHANGED head
         /\ onode' = n
    /\ Registered(y, NULL)
    /\ opc' = "free"
    /\ UNCHANGED <<life, executing, used, type, handler, sockets, xpc, lookup, overlapped, stale>>

Free ==
    /\ opc = "free"
    /\ Freed(onode)
    /\ opc' = "idle" /\ onode' = NULL
    /\ UNCHANGED <<life, executing, head, registered, sockets, xpc, lookup, could>>

\* The test in finalize is the wrong way round: it refuses unless executing.
Finalize ==
    /\ opc = "idle" /\ life = "ready" /\ executing
    /\ executing' = FALSE
    /\ opc' = "finalize" /\ onode' = head
    /\ overlapped' = (overlapped \/ Looking)
    /\ UNCHANGED <<life, registry, sockets, xpc, lookup, could, stale>>

FinalizeNode ==
    /\ opc = "finalize" /\ onode # NULL
    /\ Freed(onode)
    /\ onode' = next[onode]
    /\ UNCHANGED <<life, executing, head, registered, sockets, opc, xpc, lookup, could>>

\* The socket stays open.
Finalized ==
    /\ opc = "finalize" /\ onode = NULL
    /\ head' = NULL /\ registered' = NoneRegistered
    /\ could' = IF Looking THEN could \cup {NULL} ELSE could
    /\ life' = "final" /\ opc' = "idle"
    /\ UNCHANGED <<executing, used, next, type, handler, sockets, onode, xpc, lookup, overlapped,
                   stale>>

-----------------------------------------------------------------------------
(* The thread in execute *)

Execute ==
    /\ xpc = "out" /\ life = "ready"
    /\ executing' = TRUE
    /\ xpc' = "bind"
    /\ UNCHANGED <<life, registry, sockets, owner, lookup, watch>>

\* Mutant of Bound: what is at the path is unlinked first.
MutBound == file' = socket /\ unlinked' = unlinked
Bound == file = NULL /\ file' = socket /\ UNCHANGED unlinked

\* The socket is there and has no name yet.
Nameless == socket # NULL /\ state[socket] = "open"

Bind ==
    /\ xpc = "bind" /\ Nameless
    /\ Bound
    /\ state' = [state EXCEPT ![socket] = "bound"]
    /\ xpc' = "listen"
    /\ UNCHANGED <<life, executing, registry, socket, owner, lookup, watch>>

Listen ==
    /\ xpc = "listen" /\ socket # NULL /\ state[socket] = "bound"
    /\ state' = [state EXCEPT ![socket] = "listening"]
    /\ xpc' = "accept"
    /\ UNCHANGED <<life, executing, registry, socket, file, unlinked, owner, lookup, watch>>

\* bind fails when there is something at the path, or the socket has a name;
\* listen, when it has none or the system refuses.  executing stays set, and
\* what bind made stays.
ExecuteFails ==
    /\ xpc = "listen" \/ (xpc = "bind" /\ ~(Nameless /\ file = NULL))
    /\ xpc' = "out"
    /\ UNCHANGED <<life, executing, registry, sockets, owner, lookup, watch>>

\* A request arrives and service_get begins.  Accepting on a socket that does
\* not listen fails, and the loop tries again.
Request(y) ==
    /\ xpc = "accept" /\ socket # NULL /\ state[socket] = "listening"
    /\ xwant' = y /\ xnode' = head
    /\ could' = {registered[y]}
    /\ overlapped' = (opc = "finalize")
    /\ stale' = (head # NULL /\ head \notin used)
    /\ xpc' = "lookup"
    /\ UNCHANGED <<life, executing, registry, sockets, owner, xfound>>

Answered(h) == xfound' = h /\ xnode' = NULL /\ xpc' = "found"

\* What a node that is not allocated holds is anything.
Look ==
    /\ Looking
    /\ \/ xnode = NULL /\ Answered(NULL) /\ UNCHANGED stale
       \/ /\ xnode # NULL /\ ~stale
          /\ IF type[xnode] = xwant
               THEN Answered(handler[xnode]) /\ UNCHANGED stale
               ELSE /\ xnode' = next[xnode]
                    /\ stale' = (next[xnode] # NULL /\ next[xnode] \notin used)
                    /\ UNCHANGED <<xfound, xpc>>
       \/ /\ xnode # NULL /\ stale
          /\ \E h \in Handlers \cup {NULL} : Answered(h)
          /\ UNCHANGED stale
    /\ UNCHANGED <<life, executing, registry, sockets, owner, xwant, could, overlapped>>

\* The handler is called, or UNAVAIL inserted; the next client is accepted.
Serve ==
    /\ xpc = "found"
    /\ xpc' = "accept"
    /\ xwant' = NULL /\ xfound' = NULL
    /\ could' = {} /\ overlapped' = FALSE /\ stale' = FALSE
    /\ UNCHANGED <<life, executing, registry, sockets, owner, xnode>>

-----------------------------------------------------------------------------
(* The process and the file system *)

\* A process starts, with its memory as in Init.
Starts ==
    /\ life # "raw"
    /\ life' = "raw" /\ executing' = FALSE
    /\ head' = NULL /\ used' = {} /\ next' = [n \in Nodes |-> NULL]
    /\ type' = [n \in Nodes |-> NULL] /\ handler' = [n \in Nodes |-> NULL]
    /\ socket' = NULL
    /\ opc' = "idle" /\ onode' = NULL
    /\ xpc' = "out" /\ xwant' = NULL /\ xnode' = NULL /\ xfound' = NULL
    /\ registered' = NoneRegistered /\ could' = {} /\ overlapped' = FALSE /\ stale' = FALSE
    /\ UNCHANGED <<file, unlinked>>

\* The kernel closes the sockets of a process that dies.
Restart ==
    /\ Starts
    /\ state' = [s \in Sockets |-> IF state[s] = "none" THEN "none" ELSE "closed"]

\* Another server of the path is started beside the one that runs, whose
\* threads are not followed any more; its sockets are as they are.
StartAnother == Starts /\ UNCHANGED state

\* Nothing in the program does.
OperatorUnlinks ==
    /\ file # NULL
    /\ file' = NULL /\ unlinked' = unlinked \cup {file}
    /\ UNCHANGED <<life, executing, registry, socket, state, owner, xpc, lookup, watch>>

Owner ==
    \/ Initialize
    \/ \E y \in Types, h \in Handlers : Add(y, h)
    \/ Publish
    \/ \E y \in Types : Unlink(y)
    \/ Free \/ Finalize \/ FinalizeNode \/ Finalized

Executor ==
    \/ Execute \/ Bind \/ Listen \/ ExecuteFails
    \/ \E y \in Types : Request(y)
    \/ Look \/ Serve

Next == Owner \/ Executor \/ Restart \/ StartAnother \/ OperatorUnlinks

Spec == Init /\ [][Next]_vars

-----------------------------------------------------------------------------
(* Properties *)

\* A server that is ready has a socket; the rest are types.
TypeOK ==
    /\ life \in {"raw", "ready", "final"} /\ executing \in BOOLEAN
    /\ head \in Nodes \cup {NULL} /\ used \subseteq Nodes
    /\ next \in [Nodes -> Nodes \cup {NULL}]
    /\ type \in [Nodes -> Types \cup {NULL}] /\ handler \in [Nodes -> Handlers \cup {NULL}]
    /\ socket \in Sockets \cup {NULL} /\ (life = "ready" => socket # NULL)
    /\ state \in [Sockets -> {"none", "open", "bound", "listening", "closed"}]
    /\ file \in Sockets \cup {NULL} /\ unlinked \subseteq Sockets
    /\ opc \in {"idle", "publish", "free", "finalize"} /\ onode \in Nodes \cup {NULL}
    /\ xpc \in {"out", "bind", "listen", "accept", "lookup", "found"}
    /\ xwant \in Types \cup {NULL} /\ xnode \in Nodes \cup {NULL}
    /\ xfound \in Handlers \cup {NULL}
    /\ registered \in [Types -> Handlers \cup {NULL}]
    /\ could \subseteq Handlers \cup {NULL}
    /\ overlapped \in BOOLEAN /\ stale \in BOOLEAN

\* Without a lock, a lookup goes wrong only when the node it stands on is freed
\* under it.  It then found a service being removed or a server being
\* finalized; adding services, and removing others, never disturbs it: it finds
\* what was registered for the type at some moment since it began.
LookupRight ==
    /\ stale => overlapped
    /\ xpc = "found" /\ ~stale => xfound \in could

\* No server takes the path of another: of two sockets that listen, one has had
\* its path removed from outside.
UniqueListener ==
    \A s, u \in Sockets :
        state[s] = "listening" /\ state[u] = "listening" /\ s # u =>
            s \in unlinked \/ u \in unlinked
=============================================================================
