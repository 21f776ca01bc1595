------------------------------ MODULE PacketList ------------------------------
(***************************************************************************)
(* The doubly linked lists of protocol/packet.c under threads: the fields  *)
(* of a packet with field_lock, and the entries of a field with            *)
(* entry_lock.  Both are linked by the same stores.  Writers hold the      *)
(* list's lock; get_by_type, get_by_offset, entry_get and get_first read   *)
(* without it, while a writer is between two of its stores.                *)
(*                                                                         *)
(* Whatever is private to a call until its stores is one step.  `list' is  *)
(* an auxiliary variable: the nodes that have become reachable, in order;  *)
(* no guard reads it.                                                      *)
(***************************************************************************)
EXTENDS Integers, Sequences, SequencesExt

CONSTANTS
    Threads,
    MaxCalls,    \* bound: calls per thread
    Types,       \* types of fields
    WordMax,     \* largest uint16_t
    Malloc,      \* what malloc can return: "memory", and "null" if it may fail
    Reorder,     \* whether a reader can see a writer's stores in another order
    First,       \* a node that may be in the list from the start
    NULL

Word == 0 .. WordMax

ASSUME WordMaxAssumption == WordMax \in Nat
ASSUME MaxCallsAssumption == MaxCalls \in Nat
ASSUME TypesAssumption == Types # {}
ASSUME MallocAssumption == "memory" \in Malloc /\ Malloc \subseteq {"memory", "null"}
ASSUME ReorderAssumption == Reorder \in BOOLEAN
\* A call has one new node, which malloc hands out once.
Nodes == (Threads \X (1 .. MaxCalls)) \cup {First}

ASSUME NodesAssumption ==
    /\ NULL \notin Threads \cup Nodes
    /\ First \notin Threads \X (1 .. MaxCalls)

Adders    == {"append", "get_or_add", "field_add", "entry_add"}
Injectors == {"insert", "get_or_inject", "field_inject", "entry_inject"}
GetOr     == {"get_or_add", "get_or_inject"}
Checked   == {"append", "insert"} \cup GetOr
ByOffset  == {"get_by_offset", "entry_get"}
Readers   == {"get_by_type", "get_first"} \cup ByOffset

FieldKinds == Checked \cup {"field_add", "field_inject", "get_by_type", "get_by_offset", "get_first"}
EntryKinds == {"entry_add", "entry_inject", "entry_get", "get_first"}

\* A call: what a field's type is, or is searched for, and an offset.
Operation == [kind : Adders \cup Injectors \cup Readers, type : Types, offset : Word]
Operations ==
    {o \in Operation :
        /\ o.kind \notin ByOffset => o.offset = 0
        /\ o.kind \in EntryKinds \cup {"get_by_offset"} => o.type = CHOOSE x \in Types : TRUE}

VARIABLES
    kinds,       \* the calls of this list: it holds fields or entries
    lock, head, tail, count, type, next, previous,  \* shared memory
    list, vetted,  \* auxiliary: reachable nodes; those linked after a search
    calls,       \* calls[t]: how many calls t has made
    pc, op,      \* pc[t]: where thread t is in its call op[t]
    node, counter,  \* locals `i' and `c' of a search
    todo,        \* todo[t]: stores of t that are still to become visible
    base,        \* auxiliary: base[t] is the list when t last read the head
    ret          \* ret[t]: what the last call of t returned

memory == <<lock, head, tail, count, type, next, previous>>
aux    == <<list, vetted>>
vars   == <<kinds, memory, aux, calls, pc, op, node, counter, todo, base, ret>>

NoOp == [kind |-> "get_first", type |-> CHOOSE x \in Types : TRUE, offset |-> 0]

\* The list is empty or has one node.
Init ==
    /\ kinds \in {FieldKinds, EntryKinds}
    /\ lock = NULL
    /\ \/ /\ head = NULL /\ tail = NULL /\ count = 0
          /\ type = [n \in Nodes |-> NULL]
          /\ list = <<>> /\ vetted = {}
       \/ /\ WordMax > 0
          /\ head = First /\ tail = First /\ count = 1
          /\ \E x \in Types : type = [n \in Nodes |-> IF n = First THEN x ELSE NULL]
          /\ list = <<First>> /\ vetted = {First}
    /\ next = [n \in Nodes |-> NULL] /\ previous = [n \in Nodes |-> NULL]
    /\ calls = [t \in Threads |-> 0]
    /\ pc = [t \in Threads |-> "idle"]
    /\ op = [t \in Threads |-> NoOp]
    /\ node = [t \in Threads |-> NULL]
    /\ counter = [t \in Threads |-> 0]
    /\ todo = [t \in Threads |-> <<>>]
    /\ base = [t \in Threads |-> <<>>]
    /\ ret = [t \in Threads |-> [ok |-> FALSE, node |-> NULL]]

-----------------------------------------------------------------------------

Goto(t, where) == pc' = [pc EXCEPT ![t] = where]

Return(t, ok, n) ==
    /\ Goto(t, "idle")
    /\ ret' = [ret EXCEPT ![t] = [ok |-> ok, node |-> n]]

New(t) == <<t, calls[t]>>

Call(t) ==
    /\ pc[t] = "idle"
    /\ calls[t] < MaxCalls
    /\ calls' = [calls EXCEPT ![t] = @ + 1]
    /\ \E o \in Operations :
         /\ o.kind \in kinds
         /\ op' = [op EXCEPT ![t] = o]
         /\ Goto(t, IF o.kind \in ByOffset THEN "count"
                    ELSE IF o.kind \in Readers THEN "head" ELSE "lock")
    /\ UNCHANGED <<kinds, memory, aux, node, counter, todo, base, ret>>

\* entry_add and entry_inject allocate before they lock.
NoMemory(t) ==
    /\ pc[t] = "lock"
    /\ op[t].kind \in EntryKinds
    /\ "null" \in Malloc
    /\ Return(t, FALSE, NULL)
    /\ UNCHANGED <<kinds, memory, aux, calls, op, node, counter, todo, base>>

\* The checking calls search first; the others have a node to link.
Lock(t) ==
    /\ pc[t] = "lock"
    /\ lock = NULL
    /\ lock' = t
    /\ Goto(t, IF op[t].kind \in Checked THEN "head" ELSE "initialize")
    /\ UNCHANGED <<kinds, head, tail, count, type, next, previous, aux, calls, op, node,
                   counter, todo, base, ret>>

ReadCount(t) ==
    /\ pc[t] = "count"
    /\ IF op[t].offset < count
         THEN Goto(t, "head") /\ UNCHANGED ret
         ELSE Return(t, FALSE, NULL)
    /\ UNCHANGED <<kinds, memory, aux, calls, op, node, counter, todo, base>>

ReadHead(t) ==
    /\ pc[t] = "head"
    /\ node' = [node EXCEPT ![t] = head]
    /\ counter' = [counter EXCEPT ![t] = 0]
    /\ base' = [base EXCEPT ![t] = list]
    /\ Goto(t, "walk")
    /\ UNCHANGED <<kinds, memory, aux, calls, op, todo, ret>>

\* Mutant of Matches: the walk stops one node early.
MutMatches(t) ==
    IF op[t].kind \in ByOffset \cup {"get_first"}
      THEN counter[t] + 1 >= op[t].offset
      ELSE type[node[t]] = op[t].type
\* The test in the loop of a search.
Matches(t) ==
    IF op[t].kind \in ByOffset \cup {"get_first"}
      THEN counter[t] = op[t].offset
      ELSE type[node[t]] = op[t].type

\* Mutant of Unlock: the error label comes after the unlock.
MutUnlock(t, ok, n) == lock' = (IF ok THEN NULL ELSE lock) /\ Return(t, ok, n)
\* The lock is given back and the call returns.
Unlock(t, ok, n) == lock' = NULL /\ Return(t, ok, n)

\* append and insert refuse a type that is there.
Found(t) ==
    /\ pc[t] = "walk" /\ node[t] # NULL
    /\ Matches(t)
    /\ CASE op[t].kind \in Readers -> Return(t, TRUE, node[t]) /\ UNCHANGED lock
         [] op[t].kind \in GetOr   -> Unlock(t, TRUE, node[t])
         [] OTHER                  -> Unlock(t, FALSE, NULL)
    /\ UNCHANGED <<kinds, head, tail, count, type, next, previous, aux, calls, op, node,
                   counter, todo, base>>

Advance(t) ==
    /\ pc[t] = "walk" /\ node[t] # NULL
    /\ ~Matches(t)
    /\ node' = [node EXCEPT ![t] = next[node[t]]]
    /\ counter' = [counter EXCEPT ![t] = (@ + 1) % (WordMax + 1)]
    /\ UNCHANGED <<kinds, memory, aux, calls, pc, op, todo, base, ret>>

\* Mutant of AfterMiss: a checking call lets go of the lock while it allocates.
MutAfterMiss(t) == lock' = NULL /\ Goto(t, "initialize") /\ UNCHANGED ret
\* A search that fails ends a reader's call; a checking call allocates a field.
AfterMiss(t) == Goto(t, "initialize") /\ UNCHANGED <<lock, ret>>

Missed(t) ==
    /\ pc[t] = "walk" /\ node[t] = NULL
    /\ IF op[t].kind \in Readers
         THEN Return(t, FALSE, NULL) /\ UNCHANGED lock
         ELSE \/ AfterMiss(t)
              \/ "null" \in Malloc /\ Unlock(t, FALSE, NULL)
    /\ UNCHANGED <<kinds, head, tail, count, type, next, previous, aux, calls, op, node,
                   counter, todo, base>>

Store(var, at, val) == <<[var |-> var, at |-> at, val |-> val]>>

Increment == Store("count", NULL, NULL)

\* Mutant of Incremented: the count has no width.
MutIncremented == count + 1
Incremented == (count + 1) % (WordMax + 1)

\* Mutant of AddStores: the count comes first.
MutAddStores(n) ==
    Increment
        \o (IF head = NULL THEN Store("head", NULL, n) ELSE <<>>)
        \o Store("previous", n, tail)
        \o (IF tail # NULL THEN Store("next", tail, n) ELSE <<>>)
        \o Store("tail", NULL, n)
\* _add_locked and the end of entry_add, in program order.
AddStores(n) ==
    (IF head = NULL THEN Store("head", NULL, n) ELSE <<>>)
        \o Store("previous", n, tail)
        \o (IF tail # NULL THEN Store("next", tail, n) ELSE <<>>)
        \o Store("tail", NULL, n)
        \o Increment

\* Mutants of InjectStores: the old head does not point back; the head moves
\* before the node leads to the rest.
MutNoPrevious(n) ==
    (IF tail = NULL THEN Store("tail", NULL, n) ELSE <<>>)
        \o Store("next", n, head)
        \o Store("head", NULL, n)
        \o Increment
MutInjectStores(n) ==
    (IF tail = NULL THEN Store("tail", NULL, n) ELSE <<>>)
        \o Store("head", NULL, n)
        \o Store("next", n, head)
        \o (IF head # NULL THEN Store("previous", head, n) ELSE <<>>)
        \o Increment
\* _inject_locked and the end of entry_inject, in program order.
InjectStores(n) ==
    (IF tail = NULL THEN Store("tail", NULL, n) ELSE <<>>)
        \o Store("next", n, head)
        \o (IF head # NULL THEN Store("previous", head, n) ELSE <<>>)
        \o Store("head", NULL, n)
        \o Increment

\* The node is initialized while nobody else knows it, and the stores that
\* link it begin.
Initialize(t) ==
    LET n == New(t) IN
    /\ pc[t] = "initialize"
    /\ type' = [type EXCEPT ![n] = op[t].type]
    /\ next' = [next EXCEPT ![n] = NULL]
    /\ previous' = [previous EXCEPT ![n] = NULL]
    /\ todo' = [todo EXCEPT ![t] =
                  IF op[t].kind \in Adders THEN AddStores(n) ELSE InjectStores(n)]
    /\ Goto(t, "link")
    /\ UNCHANGED <<kinds, lock, head, tail, count, aux, calls, op, node, counter, base, ret>>

\* The stores that can become visible next.
Visible(t) == IF Reorder THEN DOMAIN todo[t] ELSE {1}

\* The store that makes n reachable: the head, or the old tail's next.
Publishes(s, n) == s.var = "head" \/ (s.var = "next" /\ s.at # n)

Link(t) ==
    LET n == New(t) IN
    /\ pc[t] = "link"
    /\ todo[t] # <<>>
    /\ \E k \in Visible(t) :
       LET s == todo[t][k] IN
         /\ head' = IF s.var = "head" THEN s.val ELSE head
         /\ tail' = IF s.var = "tail" THEN s.val ELSE tail
         /\ count' = IF s.var = "count" THEN Incremented ELSE count
         /\ next' = IF s.var = "next" THEN [next EXCEPT ![s.at] = s.val] ELSE next
         /\ previous' =
              IF s.var = "previous" THEN [previous EXCEPT ![s.at] = s.val] ELSE previous
         /\ todo' = [todo EXCEPT ![t] = RemoveAt(@, k)]
         /\ IF Publishes(s, n)
              THEN /\ list' = IF op[t].kind \in Adders THEN Append(list, n) ELSE <<n>> \o list
                   /\ vetted' = IF op[t].kind \in Checked THEN vetted \cup {n} ELSE vetted
              ELSE UNCHANGED aux
    /\ UNCHANGED <<kinds, lock, type, calls, pc, op, node, counter, base, ret>>

Linked(t) ==
    /\ pc[t] = "link"
    /\ todo[t] = <<>>
    /\ Unlock(t, TRUE, New(t))
    /\ UNCHANGED <<kinds, head, tail, count, type, next, previous, aux, calls, op, node,
                   counter, todo, base>>

Step(t) ==
    \/ NoMemory(t) \/ Lock(t)
    \/ ReadCount(t) \/ ReadHead(t) \/ Found(t) \/ Advance(t) \/ Missed(t)
    \/ Initialize(t) \/ Link(t) \/ Linked(t)

Next == \E t \in Threads : Call(t) \/ Step(t)

Spec == Init /\ [][Next]_vars

-----------------------------------------------------------------------------
(* Properties *)

Stores == [var : {"head", "tail", "count", "next", "previous"},
           at : Nodes \cup {NULL}, val : Nodes \cup {NULL}]

TypeOK ==
    /\ kinds \in {FieldKinds, EntryKinds}
    /\ lock \in Threads \cup {NULL}
    /\ {head, tail} \subseteq Nodes \cup {NULL}
    /\ count \in Word
    /\ type \in [Nodes -> Types \cup {NULL}]
    /\ next \in [Nodes -> Nodes \cup {NULL}] /\ previous \in [Nodes -> Nodes \cup {NULL}]
    /\ list \in Seq(Nodes) /\ vetted \subseteq Nodes
    /\ calls \in [Threads -> 0 .. MaxCalls]
    /\ pc \in [Threads -> {"idle", "lock", "count", "head", "walk", "initialize", "link"}]
    /\ op \in [Threads -> Operations]
    /\ node \in [Threads -> Nodes \cup {NULL}]
    /\ counter \in [Threads -> Word]
    /\ todo \in [Threads -> Seq(Stores)]
    /\ base \in [Threads -> Seq(Nodes)]
    /\ ret \in [Threads -> [ok : BOOLEAN, node : Nodes \cup {NULL}]]

\* From the head, the next pointers spell the list at every moment, also
\* between two stores of a writer: this is what readers without the lock need.
ForwardChain ==
    /\ head = IF list = <<>> THEN NULL ELSE list[1]
    /\ \A k \in DOMAIN list :
         next[list[k]] = IF k = Len(list) THEN NULL ELSE list[k + 1]

\* While nobody holds the lock the previous pointers spell it backwards, the
\* tail is its last node, and the count is its length up to the wrap.
BackwardChain ==
    lock = NULL =>
        /\ tail = IF list = <<>> THEN NULL ELSE list[Len(list)]
        /\ \A k \in DOMAIN list :
             previous[list[k]] = IF k = 1 THEN NULL ELSE list[k - 1]
        /\ count = Len(list) % (WordMax + 1)

\* append, insert, get_or_add and get_or_inject never give a packet two fields
\* of one type, whichever threads call them.
TypesUnique ==
    \A k, l \in DOMAIN list :
        {list[k], list[l]} \subseteq vetted /\ type[list[k]] = type[list[l]] => k = l

\* "We should never get here, really": once the offset was below the count, the
\* walk of get_by_offset and entry_get does not run off the list.
NeverGetsHere ==
    \A t \in Threads :
        pc[t] = "walk" /\ op[t].kind \in ByOffset => node[t] # NULL

Returned(t) == pc[t] = "idle" /\ calls[t] > 0

\* A lookup by offset returns what was at that offset at the moment it read
\* the head, however many fields are inserted in front meanwhile.
FoundAtOffset ==
    \A t \in Threads :
        Returned(t) /\ op[t].kind \in ByOffset \cup {"get_first"} /\ ret[t].ok =>
            ret[t].node = base[t][op[t].offset + 1]

\* A lookup by type that fails started when no field had the type; one that
\* succeeds returns a field of the type, the first if it was there already.
FoundByType ==
    \A t \in Threads :
        Returned(t) /\ op[t].kind = "get_by_type" =>
            LET there == {k \in DOMAIN base[t] : type[base[t][k]] = op[t].type} IN
            IF there = {}
              THEN ret[t].ok => type[ret[t].node] = op[t].type
              ELSE /\ ret[t].ok
                   /\ \E k \in there : ret[t].node = base[t][k] /\ \A l \in there : k <= l

\* The calls between their lock and their unlock.
Holds(t) ==
    \/ pc[t] \in {"initialize", "link"}
    \/ pc[t] \in {"head", "walk"} /\ op[t].kind \in Checked

\* Exactly the call between its lock and its unlock owns the lock: every path
\* through a call, also the failing ones, gives it back once, and no call
\* works on a list whose lock it has let go.
LockHeldInCall == \A t \in Threads : lock = t <=> Holds(t)
=============================================================================
