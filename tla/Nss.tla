--------------------------------- MODULE Nss ---------------------------------
(***************************************************************************)
(* The name service switch module, nss/passwd.c and nss/aliases.c: lookups *)
(* and enumerations by threads, the response that a handler builds with    *)
(* the accessors of service/nss, and populate, which unpacks it into the   *)
(* caller's buffer.                                                        *)
(*                                                                         *)
(* What happens between the question and the answer is what Query allows:  *)
(* a query that succeeds brings the response the handler built, and one    *)
(* that fails leaves a status that says nothing, with the fields that were *)
(* decoded before it failed.  A field is its type and the sizes of its     *)
(* entries; the text in them is never looked at.  Three variables are      *)
(* auxiliary, no guard reads them: the positions of an enumeration that    *)
(* the caller was given, those whose response populate refused, and what   *)
(* the handler answered, while the query that brought it has succeeded.    *)
(***************************************************************************)
EXTENDS Integers, Sequences, FiniteSets, Sums

CONSTANTS
    Threads,
    Databases,     \* the databases asked: "passwd", "aliases"
    Sent,          \* types of the fields that handlers set
    Raw,           \* those they also add with the packet's own calls
    Sizes,         \* sizes of the entries they add
    BufferSizes,   \* sizes of the callers' buffers
    PointerSize,   \* sizeof(char *)
    WordMax,       \* largest uint16_t
    Gecos,         \* HAVE_PASSWD_GECOS
    MaxCallers,    \* bound: calls under way at once
    MaxOffset,     \* bound: positions of an enumeration
    MaxFields,     \* bound: fields a handler sets
    MaxMembers,    \* bound: entries a handler adds to a field
    NULL

ASSUME DatabasesAssumption == Databases # {} /\ Databases \subseteq {"passwd", "aliases"}
ASSUME SizesAssumption == Sizes \subseteq Nat \ {0}
ASSUME BufferSizesAssumption == BufferSizes \subseteq Nat
ASSUME PointerSizeAssumption == PointerSize \in Nat \ {0}
ASSUME WordMaxAssumption == WordMax \in Nat
ASSUME MaxOffsetAssumption == MaxOffset \in Nat
ASSUME NullAssumption == NULL \notin Nat

-----------------------------------------------------------------------------
(* Fields of the two databases *)

\* What populate copies into the buffer, and what it stores in the structure.
Strings(db) ==
    IF db = "passwd" THEN {"NAME", "DIR", "SHELL"} \cup (IF Gecos THEN {"GECOS"} ELSE {})
                     ELSE {"NAME"}
Numbers(db) == IF db = "passwd" THEN {"UID", "GID"} ELSE {"LOCAL"}

Width(type) == IF type = "LOCAL" THEN 1 ELSE 4

\* The types of a database's fields.
Types(db) ==
    IF db = "passwd" THEN {"NAME", "UID", "GID", "DIR", "SHELL", "GECOS"}
                     ELSE {"NAME", "MEMBERS", "LOCAL"}
Known(db) == Strings(db) \cup Numbers(db) \cup ({"MEMBERS"} \cap Types(db))

Codes   == {"SUCCESS", "FAIL", "NOTFOUND", "UNAVAIL", "UNKNOWN"}
Results == [status : {"SUCCESS", "NOTFOUND", "UNAVAIL", "TRYAGAIN"},
            errno : {"none", "EINVAL", "ERANGE"}]

Field  == [type : {"NAME", "UID", "GID", "DIR", "SHELL", "GECOS", "MEMBERS", "LOCAL"},
           sizes : Seq(Nat \ {0})]
\* A part of the buffer: a string, the array of member pointers, or the member
\* that the pointer in this slot leads to.
Region == [type : {"NAME", "DIR", "SHELL", "GECOS", "MEMBERS", "MEMBER"},
           slot : Nat, first : Nat, size : Nat]

VARIABLES
    offset,       \* offset[t][db]: the thread's offset variable, or NULL
    delivered, refused,
    pc,           \* pc[t]: where thread t is in its call
    call,         \* call[t]: what it asks, of which database, with which buffer
    request,      \* request[t]: the field of its request, or NULL
    response,     \* response[t]: the fields after the status
    answer,       \* answer[t]: those a handler sent with SUCCESS, if they arrived
    todo,         \* todo[t]: fields that populate has not seen yet
    members,      \* members[t]: entries of MEMBERS that it has not copied yet
    cursor,       \* cursor[t]: bi, counted from the start of the buffer
    regions,      \* regions[t]: what it has written, in order
    given,        \* given[t]: the fields of the structure that are set
    result        \* result[t]: status and errno of the call

enumeration == <<offset, delivered, refused>>
query       == <<call, request, response, answer>>
populate    == <<todo, members, cursor, regions, given>>
vars        == <<enumeration, pc, query, populate, result>>

NoCall == [kind |-> "none", db |-> CHOOSE db \in Databases : TRUE, size |-> 0]
Given  == [status |-> "SUCCESS", errno |-> "none"]

Init ==
    /\ offset = [t \in Threads |-> [db \in Databases |-> NULL]]
    /\ delivered = [t \in Threads |-> [db \in Databases |-> <<>>]]
    /\ refused = [t \in Threads |-> [db \in Databases |-> {}]]
    /\ pc = [t \in Threads |-> "idle"]
    /\ call = [t \in Threads |-> NoCall]
    /\ request = [t \in Threads |-> NULL]
    /\ response = [t \in Threads |-> <<>>]
    /\ answer = [t \in Threads |-> NULL]
    /\ todo = [t \in Threads |-> <<>>]
    /\ members = [t \in Threads |-> <<>>]
    /\ cursor = [t \in Threads |-> 0]
    /\ regions = [t \in Threads |-> <<>>]
    /\ given = [t \in Threads |-> {}]
    /\ result = [t \in Threads |-> Given]

Idle(t) ==
    /\ pc[t] = "idle"
    /\ Cardinality({u \in Threads : pc[u] # "idle"}) < MaxCallers

-----------------------------------------------------------------------------
(* Enumerations: setpwent, endpwent, and their like for aliases *)

\* Mutant of Owners: the offset is a static variable.
MutOwners(t) == Threads
\* The threads that see what t stores at its key: pthread_setspecific.
Owners(t) == {t}

SetOffset(t, db, value) ==
    offset' = [u \in Threads |->
                 IF u \in Owners(t) THEN [offset[u] EXCEPT ![db] = value] ELSE offset[u]]

\* An enumeration starts over: nothing was asked yet.
Restart(t, db) ==
    /\ delivered' = [delivered EXCEPT ![t][db] = <<>>]
    /\ refused' = [refused EXCEPT ![t][db] = {}]

\* setpwent allocates the offset if the thread has none.
SetEnt(t, db) ==
    /\ pc[t] = "idle"
    /\ SetOffset(t, db, 0)
    /\ Restart(t, db)
    /\ UNCHANGED <<pc, query, populate, result>>

EndEnt(t, db) ==
    /\ pc[t] = "idle"
    /\ SetOffset(t, db, NULL)
    /\ Restart(t, db)
    /\ UNCHANGED <<pc, query, populate, result>>

\* setpwent and getpwent_r without memory for the offset.
NoOffset(t, db) ==
    /\ Idle(t)
    /\ offset[t][db] = NULL
    /\ pc' = [pc EXCEPT ![t] = "return"]
    /\ result' = [result EXCEPT ![t] = [status |-> "UNAVAIL", errno |-> "none"]]
    /\ UNCHANGED <<enumeration, query, populate>>

-----------------------------------------------------------------------------
(* A call asks the server *)

\* The request has one field, or none when append finds no memory, which
\* nobody checks.
Ask(t, kind, db, size, field) ==
    /\ Idle(t)
    /\ pc' = [pc EXCEPT ![t] = "query"]
    /\ call' = [call EXCEPT ![t] = [kind |-> kind, db |-> db, size |-> size]]
    /\ request' \in {[request EXCEPT ![t] = field], request}
    /\ UNCHANGED <<response, answer, populate, result>>

\* getpwnam_r, getpwuid_r and getaliasbyname_r send what to look for.
Lookup(t, db, size) ==
    /\ Ask(t, "lookup", db, size, [type |-> "KEY", value |-> 0])
    /\ UNCHANGED enumeration

\* getpwent_r allocates the offset if the thread has none.
GetEnt(t, db, size) ==
    LET start == IF offset[t][db] = NULL THEN 0 ELSE offset[t][db] IN
    /\ start < MaxOffset
    /\ SetOffset(t, db, start)
    /\ Ask(t, "entities", db, size, [type |-> "ENTITIES", value |-> start])
    /\ IF offset[t][db] = NULL THEN Restart(t, db) ELSE UNCHANGED <<delivered, refused>>

-----------------------------------------------------------------------------
(* The handler, with the accessors of service/nss *)

\* append refuses a type that is there.
Unset(t, type) == \A k \in DOMAIN response[t] : response[t][k].type # type

Handling(t, type) ==
    /\ pc[t] = "query" /\ request[t] # NULL
    /\ type \in Sent \cap Types(call[t].db)

\* name_set, uid_set and the other accessors that append a field.
SetField(t, type, size) ==
    /\ Handling(t, type) /\ type # "MEMBERS"
    /\ size = Width(type) \/ type \notin Numbers(call[t].db)
    /\ Unset(t, type)
    /\ Len(response[t]) < MaxFields
    /\ response' = [response EXCEPT ![t] = Append(@, [type |-> type, sizes |-> <<size>>])]
    /\ UNCHANGED <<enumeration, pc, call, request, answer, populate, result>>

\* member_add gets the field or adds it, and adds an entry if there is memory;
\* a handler that uses the packet's own calls can do so with any type.
AddEntry(t, type, entry) ==
    /\ Handling(t, type) /\ type \in Raw \cup {"MEMBERS"}
    /\ IF Unset(t, type)
         THEN /\ Len(response[t]) < MaxFields
              /\ response' = [response EXCEPT ![t] =
                                Append(@, [type |-> type, sizes |-> entry])]
         ELSE \E k \in DOMAIN response[t] :
              /\ response[t][k].type = type
              /\ Len(response[t][k].sizes) < MaxMembers
              /\ response' = [response EXCEPT ![t][k].sizes = @ \o entry]
    /\ UNCHANGED <<enumeration, pc, call, request, answer, populate, result>>

-----------------------------------------------------------------------------
(* The answer *)

\* Mutant of StatusOf: the server's code is handed on.
MutStatusOf(code) == [status |-> code, errno |-> "none"]
StatusOf(code) ==
    CASE code = "NOTFOUND" -> [status |-> "NOTFOUND", errno |-> "none"]
      [] code = "UNAVAIL"  -> [status |-> "UNAVAIL", errno |-> "none"]
      [] OTHER             -> [status |-> "TRYAGAIN", errno |-> "EINVAL"]

\* "Servers are not required to send the LOCAL field."
Preset(db) == IF db = "aliases" THEN {"LOCAL"} ELSE {}

\* The status is looked at, whether the query succeeded or not.
Replied(t, code, fields) ==
    /\ IF code = "SUCCESS"
         THEN /\ pc' = [pc EXCEPT ![t] = "populate"]
              /\ response' = [response EXCEPT ![t] = fields]
              /\ todo' = [todo EXCEPT ![t] = fields]
              /\ given' = [given EXCEPT ![t] = Preset(call[t].db)]
              /\ UNCHANGED result
         ELSE /\ pc' = [pc EXCEPT ![t] = "return"]
              /\ response' = [response EXCEPT ![t] = <<>>]   \* nobody reads it
              /\ result' = [result EXCEPT ![t] = StatusOf(code)]
              /\ UNCHANGED <<todo, given>>
    /\ UNCHANGED <<enumeration, call, request, members, cursor, regions>>

\* Only a request that has a field is answered; one without a field the
\* server drops, and the query fails.
Answer(t, code) ==
    /\ pc[t] = "query" /\ request[t] # NULL
    /\ Replied(t, code, response[t])
    /\ answer' = [answer EXCEPT ![t] = IF code = "SUCCESS" THEN response[t] ELSE NULL]

\* Without any response the status is FAIL; after a response was decoded in
\* part it is the one it carries, with the fields that came first.
QueryFails(t) ==
    /\ pc[t] = "query"
    /\ \/ Replied(t, "FAIL", <<>>)
       \/ /\ request[t] # NULL
          /\ \E code \in Codes, k \in 0 .. Len(response[t]) :
               Replied(t, code, SubSeq(response[t], 1, k))
    /\ UNCHANGED answer

-----------------------------------------------------------------------------
(* populate *)

Field1(t) == Head(todo[t])

Populating(t) == pc[t] = "populate" /\ members[t] = <<>>

\* Mutants of Fits: the check forgets what the buffer already holds; a string
\* that just fits is refused.
MutFits(t, length) == length <= call[t].size
MutFitsStrictly(t, length) == cursor[t] + length < call[t].size
\* SRVD_BUFFER_CHECK_OFFSET
Fits(t, length) == cursor[t] + length <= call[t].size

\* SRVD_BUFFER_ITERATOR_NEXT
NextCursor(t, length) == cursor[t] + length

Write(t, type, slot, length) ==
    /\ Fits(t, length)
    /\ regions' = [regions EXCEPT ![t] = Append(@,
                     [type |-> type, slot |-> slot, first |-> cursor[t], size |-> length])]
    /\ cursor' = [cursor EXCEPT ![t] = NextCursor(t, length)]

Give(t, type) == given' = [given EXCEPT ![t] = @ \cup {type}]
\* Mutant of NextField: a `break' leaves the loop over the fields.
MutNextField(t) == todo' = [todo EXCEPT ![t] = <<>>]
NextField(t) == todo' = [todo EXCEPT ![t] = Tail(@)]

CopyString(t) ==
    /\ Populating(t) /\ todo[t] # <<>>
    /\ Field1(t).type \in Strings(call[t].db)
    /\ Field1(t).sizes # <<>>
    /\ Write(t, Field1(t).type, 0, Head(Field1(t).sizes))
    /\ Give(t, Field1(t).type)
    /\ NextField(t)
    /\ UNCHANGED <<enumeration, pc, query, members, result>>

\* get_uint32 and get_uint8 store nothing when the entry has another size,
\* which nobody checks.
StoreNumber(t) ==
    /\ Populating(t) /\ todo[t] # <<>>
    /\ Field1(t).type \in Numbers(call[t].db)
    /\ Field1(t).sizes # <<>>
    /\ IF Head(Field1(t).sizes) = Width(Field1(t).type)
         THEN Give(t, Field1(t).type) ELSE UNCHANGED given
    /\ NextField(t)
    /\ UNCHANGED <<enumeration, pc, query, members, cursor, regions, result>>

\* entry_count of the field.
MemberCount(t) == Len(Field1(t).sizes) % (WordMax + 1)

ReserveMembers(t) ==
    /\ Populating(t) /\ todo[t] # <<>>
    /\ Field1(t).type \in {"MEMBERS"} \cap Types(call[t].db)
    /\ Write(t, "MEMBERS", MemberCount(t), MemberCount(t) * PointerSize)
    /\ Give(t, "MEMBERS")
    /\ members' = [members EXCEPT ![t] = Field1(t).sizes]
    /\ IF Field1(t).sizes = <<>> THEN NextField(t) ELSE UNCHANGED todo
    /\ UNCHANGED <<enumeration, pc, query, result>>

\* Mutant of Slot: the members are counted from one.
MutSlot(t) == (Len(Field1(t).sizes) - Len(members[t]) + 1) % (WordMax + 1)
\* entry_offset in the loop over the members, a uint16_t.
Slot(t) == (Len(Field1(t).sizes) - Len(members[t])) % (WordMax + 1)

CopyMember(t) ==
    /\ pc[t] = "populate" /\ members[t] # <<>>
    /\ Write(t, "MEMBER", Slot(t), Head(members[t]))
    /\ members' = [members EXCEPT ![t] = Tail(@)]
    /\ IF Len(members[t]) = 1 THEN NextField(t) ELSE UNCHANGED todo
    /\ UNCHANGED <<enumeration, pc, query, given, result>>

IgnoreField(t) ==
    /\ Populating(t) /\ todo[t] # <<>>
    /\ Field1(t).type \notin Known(call[t].db)
    /\ NextField(t)
    /\ UNCHANGED <<enumeration, pc, query, members, cursor, regions, given, result>>

\* What populate does not find room for.
Wanted(t) ==
    IF members[t] # <<>> THEN Head(members[t])
    ELSE IF Field1(t).type = "MEMBERS" THEN MemberCount(t) * PointerSize
    ELSE Head(Field1(t).sizes)

\* After populate, whatever it returned, an enumeration moves on.
Populated(t, status, errno) ==
    LET db == call[t].db IN
    /\ pc' = [pc EXCEPT ![t] = "return"]
    /\ result' = [result EXCEPT ![t] = [status |-> status, errno |-> errno]]
    /\ IF call[t].kind = "entities"
         THEN /\ SetOffset(t, db, offset[t][db] + 1)
              /\ IF status = "SUCCESS"
                   THEN /\ delivered' = [delivered EXCEPT ![t][db] = Append(@, request[t].value)]
                        /\ UNCHANGED refused
                   ELSE /\ refused' = [refused EXCEPT ![t][db] = @ \cup {request[t].value}]
                        /\ UNCHANGED delivered
         ELSE UNCHANGED enumeration
    /\ UNCHANGED <<query, populate>>

NoEntry(t) ==
    /\ Populating(t) /\ todo[t] # <<>>
    /\ Field1(t).type \in Strings(call[t].db) \cup Numbers(call[t].db)
    /\ Field1(t).sizes = <<>>
    /\ Populated(t, "TRYAGAIN", "EINVAL")

NoRoom(t) ==
    /\ pc[t] = "populate" /\ todo[t] # <<>>
    /\ \/ members[t] # <<>>
       \/ Field1(t).type \in (Known(call[t].db) \ Numbers(call[t].db))
          /\ (Field1(t).type = "MEMBERS" \/ Field1(t).sizes # <<>>)
    /\ ~Fits(t, Wanted(t))
    /\ Populated(t, "TRYAGAIN", "ERANGE")

AllFields(t) ==
    /\ Populating(t) /\ todo[t] = <<>>
    /\ Populated(t, "SUCCESS", "none")

\* The error label of a call: request and response, which are local to it, are
\* finalized.
Return(t) ==
    /\ pc[t] = "return"
    /\ pc' = [pc EXCEPT ![t] = "idle"]
    /\ call' = [call EXCEPT ![t] = NoCall]
    /\ request' = [request EXCEPT ![t] = NULL]
    /\ response' = [response EXCEPT ![t] = <<>>]
    /\ answer' = [answer EXCEPT ![t] = NULL]
    /\ todo' = [todo EXCEPT ![t] = <<>>]
    /\ members' = [members EXCEPT ![t] = <<>>]
    /\ cursor' = [cursor EXCEPT ![t] = 0]
    /\ regions' = [regions EXCEPT ![t] = <<>>]
    /\ given' = [given EXCEPT ![t] = {}]
    /\ result' = [result EXCEPT ![t] = Given]
    /\ UNCHANGED enumeration

\* What a thread does in a call, and the server for it.
Step(t) ==
    \/ \E type \in Sent, size \in Sizes \cup {1, 4} : SetField(t, type, size)
    \/ \E type \in Sent : AddEntry(t, type, <<>>) \/ \E size \in Sizes : AddEntry(t, type, <<size>>)
    \/ \E code \in Codes : Answer(t, code)
    \/ QueryFails(t)
    \/ CopyString(t) \/ StoreNumber(t) \/ ReserveMembers(t) \/ CopyMember(t) \/ IgnoreField(t)
    \/ NoEntry(t) \/ NoRoom(t) \/ AllFields(t)
    \/ Return(t)

Next ==
    \E t \in Threads :
        \/ \E db \in Databases :
             \/ SetEnt(t, db) \/ EndEnt(t, db) \/ NoOffset(t, db)
             \/ \E size \in BufferSizes : Lookup(t, db, size) \/ GetEnt(t, db, size)
        \/ Step(t)

Spec == Init /\ [][Next]_vars

-----------------------------------------------------------------------------
(* Properties *)

TypeOK ==
    /\ offset \in [Threads -> [Databases -> 0 .. MaxOffset \cup {NULL}]]
    /\ delivered \in [Threads -> [Databases -> Seq(0 .. MaxOffset)]]
    /\ refused \in [Threads -> [Databases -> SUBSET (0 .. MaxOffset)]]
    /\ pc \in [Threads -> {"idle", "query", "populate", "return"}]
    /\ call \in [Threads -> [kind : {"none", "lookup", "entities"}, db : Databases,
                             size : BufferSizes \cup {0}]]
    /\ request \in [Threads -> [type : {"KEY", "ENTITIES"}, value : 0 .. MaxOffset]
                               \cup {NULL}]
    /\ response \in [Threads -> Seq(Field)] /\ todo \in [Threads -> Seq(Field)]
    /\ answer \in [Threads -> Seq(Field) \cup {NULL}]
    /\ members \in [Threads -> Seq(Nat \ {0})]
    /\ cursor \in [Threads -> Nat]
    /\ regions \in [Threads -> Seq(Region)]
    /\ given \in [Threads -> SUBSET (Numbers("passwd") \cup {"NAME", "DIR", "SHELL", "GECOS",
                                                          "MEMBERS", "LOCAL"})]
    /\ result \in [Threads -> Results]

\* Whatever fields, entries and sizes a response has, strings and the array of
\* member pointers are written inside the caller's buffer, and none of them
\* over another.
RegionsInBuffer ==
    \A t \in Threads : \A k \in DOMAIN regions[t] :
        LET r == regions[t][k] IN
        /\ r.first + r.size <= call[t].size
        /\ \A l \in 1 .. k - 1 : regions[t][l].first + regions[t][l].size <= r.first

\* An enumeration asks for each position once, in order, from zero: those
\* before the offset were delivered in order or refused by populate, whatever
\* the thread enumerates at the same time in the other database, whatever
\* lookups it makes and whatever other threads do.
EnumerationExact ==
    \A t \in Threads, db \in Databases :
        LET passed == {delivered[t][db][k] : k \in DOMAIN delivered[t][db]} IN
        /\ \A k \in 2 .. Len(delivered[t][db]) : delivered[t][db][k - 1] < delivered[t][db][k]
        /\ passed \cap refused[t][db] = {}
        /\ passed \cup refused[t][db] =
             IF offset[t][db] = NULL THEN {} ELSE 0 .. offset[t][db] - 1

Regions(t, type) == {k \in DOMAIN regions[t] : regions[t][k].type = type}

\* A field is unpacked: a string at its full size, a number of the right width,
\* and each member in the slot of the array that its position gives it, as long
\* as a uint16_t can count them.
IsUnpacked(t, f) ==
    LET db == call[t].db IN
    /\ f.type \in Strings(db) =>
         \E r \in Regions(t, f.type) : regions[t][r].size = f.sizes[1]
    /\ f.type \in Numbers(db) /\ f.sizes[1] = Width(f.type) => f.type \in given[t]
    /\ f.type = "MEMBERS" /\ Len(f.sizes) <= WordMax =>
         \A n \in DOMAIN f.sizes : \E r \in Regions(t, "MEMBER") :
             regions[t][r].slot = n - 1 /\ regions[t][r].size = f.sizes[n]

\* A call whose query succeeded and that returns SUCCESS has unpacked all that
\* the handler set.  One whose query failed half way can return SUCCESS too,
\* since only the status is looked at (passwd.c:276, aliases.c:208): then the
\* fields decoded before the failure are unpacked, maybe none.  Either
\* way the local flag of an alias is set, whether the server sent it or not.
SuccessIsWhole ==
    \A t \in Threads :
        pc[t] = "return" /\ result[t].status = "SUCCESS" =>
            LET fields == IF answer[t] = NULL THEN response[t] ELSE answer[t] IN
            /\ call[t].db = "aliases" => "LOCAL" \in given[t]
            /\ \A k \in DOMAIN fields : IsUnpacked(t, fields[k])

\* The pointer of each member lies in the array, unless there are more members
\* than the count can hold.
SlotsInArray ==
    \A t \in Threads : \A m \in Regions(t, "MEMBER"), a \in Regions(t, "MEMBERS") :
        \/ regions[t][m].slot < regions[t][a].slot
        \/ \E k \in DOMAIN response[t] : Len(response[t][k].sizes) > WordMax

\* The bytes of the buffer that a field takes.
FieldBytes(db, f) ==
    IF f.type \in {"MEMBERS"} \cap Types(db)
      THEN (Len(f.sizes) % (WordMax + 1)) * PointerSize + Total(f.sizes)
    ELSE IF f.type \in Strings(db) /\ f.sizes # <<>> THEN f.sizes[1] ELSE 0

\* What the fields of a response need.
Needs(t) == [k \in DOMAIN response[t] |-> FieldBytes(call[t].db, response[t][k])]

\* ERANGE tells the caller to come back with a larger buffer: a buffer that
\* holds the response is never refused, and one that does not is never taken.
RangeMeansTooSmall ==
    \A t \in Threads : pc[t] = "return" =>
        /\ result[t].errno = "ERANGE" => Total(Needs(t)) > call[t].size
        /\ result[t].status = "SUCCESS" => Total(Needs(t)) <= call[t].size
=============================================================================
