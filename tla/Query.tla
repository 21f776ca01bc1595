-------------------------------- MODULE Query --------------------------------
(***************************************************************************)
(* What srvd_service_request_query promises its callers, without sockets:  *)
(* a query is handled at most once, a query that returns TRUE was handled  *)
(* and reports the status it was handled with, and a query that returns    *)
(* FALSE says nothing, since it may have been handled, may be handled      *)
(* later or never.  Exchange is the client and the server that implement   *)
(* it.                                                                     *)
(***************************************************************************)
CONSTANTS
    Queries,   \* identities of queries
    Codes,     \* response codes (service.h:23)
    None       \* no answer yet

VARIABLES
    asked,     \* queries that were started
    served,    \* served[x]: the code x was handled with, or None
    result     \* result[x]: what the query returned, or None

vars == <<asked, served, result>>

Result == [ok : BOOLEAN, status : Codes]

Init ==
    /\ asked = {}
    /\ served = [x \in Queries |-> None]
    /\ result = [x \in Queries |-> None]

Ask(x) ==
    /\ x \notin asked
    /\ asked' = asked \cup {x}
    /\ UNCHANGED <<served, result>>

\* The server answers each query once, in any order, also one whose caller has
\* given up.
Serve(x, code) ==
    /\ x \in asked
    /\ served[x] = None
    /\ served' = [served EXCEPT ![x] = code]
    /\ UNCHANGED <<asked, result>>

Succeed(x) ==
    /\ x \in asked
    /\ result[x] = None
    /\ served[x] # None
    /\ result' = [result EXCEPT ![x] = [ok |-> TRUE, status |-> served[x]]]
    /\ UNCHANGED <<asked, served>>

Fail(x, code) ==
    /\ x \in asked
    /\ result[x] = None
    /\ result' = [result EXCEPT ![x] = [ok |-> FALSE, status |-> code]]
    /\ UNCHANGED <<asked, served>>

Next ==
    \E x \in Queries :
        \/ Ask(x)
        \/ Succeed(x)
        \/ \E code \in Codes : Serve(x, code) \/ Fail(x, code)

Spec == Init /\ [][Next]_vars
=============================================================================
