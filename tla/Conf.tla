--------------------------------- MODULE Conf ---------------------------------
(***************************************************************************)
(* The shared configuration of conf.c: threads in a query call             *)
(* srvd_conf_file_default_get, which reparses the file under a lock when   *)
(* its modification time differs, and then read the items without the      *)
(* lock, as srvd_client_get_by_conf does.  Meanwhile the file is edited in *)
(* place, replaced, removed and put back from a backup.                    *)
(*                                                                         *)
(* A file is a sequence of lines: a definition, or Bad for a line with a   *)
(* syntax error.  A size counts lines.  Time is in seconds, as st_mtime.   *)
(***************************************************************************)
EXTENDS Integers, Sequences, SequencesExt

CONSTANTS
    Threads,
    Texts,       \* what an editor may leave in the file
    Bad,         \* a line with a syntax error
    Current,     \* a descriptor of the file at the path
    Cut,         \* the value of a line whose end was not read
    MaxEdits,    \* bound: changes of the file
    MaxTime,     \* bound: seconds
    MallocFails, \* whether malloc can return NULL
    NULL

Lines == UNION {Range(c) : c \in Texts}
Items == (Lines \ {Bad}) \cup {[x EXCEPT !.value = Cut] : x \in Lines \ {Bad}}

ASSUME TextsAssumption == \A x \in Texts : x \in Seq(Range(x))
ASSUME BoundsAssumption == MaxEdits \in Nat /\ MaxTime \in Nat \ {0, 1}
ASSUME MallocFailsAssumption == MallocFails \in BOOLEAN
ASSUME NullAssumption == NULL \notin Threads \cup Texts /\ Current \notin Texts \cup {NULL}

VARIABLES
    text, mtime, now, edits,     \* the file at the path, NULL without one; the clock
    backup,      \* a copy of what was at the path, with the time it had, or NULL
    path, items, updated, updatedTime,  \* fconf_default
    lock,
    pc,
    handle,      \* `descriptor' of the parsing thread: NULL, Current while
                 \* it is the file at the path, or the text of one that was
    info,        \* what its stat() said
    todo, valid, \* lines _srvd_conf_file_read still has to read, and its `status'
    sure,        \* auxiliary: see Certain
    source,      \* auxiliary: the lines the last parse set out to read
    whole,       \* auxiliary: whether it had memory for all of them
    relies,      \* auxiliary: relies[t] is `edits' at the stat t relies on
    freed        \* auxiliary: freed[t]: items were freed while t reads them

disk  == <<text, mtime, now, edits, backup>>
conf  == <<path, items, updated, updatedTime>>
parse == <<handle, info, todo, valid>>
aux   == <<sure, source, whole, relies, freed>>
vars  == <<disk, conf, lock, pc, parse, aux>>

NoInfo == [size |-> 0, mtime |-> 0, edits |-> 0, certain |-> FALSE]

\* A file that is there may have been put back from its backup before.
Init ==
    /\ text \in Texts \cup {NULL} /\ mtime = 1 /\ now = 2 /\ edits = 0
    /\ backup \in {NULL} \cup (IF text = NULL THEN {} ELSE {[text |-> text, mtime |-> mtime]})
    /\ path = FALSE /\ items = <<>> /\ updated = FALSE /\ updatedTime = 0
    /\ lock = NULL
    /\ pc = [t \in Threads |-> "idle"]
    /\ handle = NULL /\ info = NoInfo /\ todo = <<>> /\ valid = TRUE
    /\ sure = FALSE /\ source = <<>> /\ whole = TRUE
    /\ relies = [t \in Threads |-> 0]
    /\ freed = [t \in Threads |-> FALSE]

Goto(t, where) == pc' = [pc EXCEPT ![t] = where]

-----------------------------------------------------------------------------
(* Whoever edits the file, and the clock *)

Edited(x, time) ==
    /\ edits < MaxEdits
    /\ edits' = edits + 1
    /\ text' = x
    /\ mtime' = time
    /\ UNCHANGED <<now, conf, lock, pc, todo, valid, aux>>

\* A parse is not certain any more if it has measured the file and is to read it.
Write ==
    \E x \in Texts :
        /\ Edited(x, now)
        /\ info' = [info EXCEPT !.certain =
                      @ /\ ~(handle = Current /\ \E t \in Threads : pc[t] = "read")]
        /\ UNCHANGED <<handle, backup>>

\* The descriptor of a thread in parse keeps the file that was there.
Kept == handle' = IF handle = Current THEN text ELSE handle

\* A backup is kept of a file that has been there for a while.
Replace ==
    \E x \in Texts \cup {NULL} :
        /\ text # NULL
        /\ Edited(x, now)
        /\ Kept
        /\ backup' = IF mtime < now THEN [text |-> text, mtime |-> mtime] ELSE backup
        /\ UNCHANGED info

\* With the modification time it had.
PutBack ==
    /\ backup # NULL
    /\ Edited(backup.text, backup.mtime)
    /\ Kept
    /\ UNCHANGED <<info, backup>>

Tick ==
    /\ now < MaxTime
    /\ now' = now + 1
    /\ UNCHANGED <<text, mtime, edits, backup, conf, lock, pc, parse, aux>>

-----------------------------------------------------------------------------
(* srvd_conf_file_default_get *)

\* The first call initializes the structure; the result is ignored.
Lock(t) ==
    /\ pc[t] = "idle"
    /\ lock = NULL
    /\ lock' = t
    /\ path' \in IF MallocFails THEN {path, TRUE} ELSE {TRUE}
    /\ Goto(t, "uptodate")
    /\ UNCHANGED <<disk, items, updated, updatedTime, parse, aux>>

\* Mutant of UpToDate: the time is not compared.
MutUpToDate == updated /\ text # NULL
UpToDate == updated /\ text # NULL /\ mtime = updatedTime

CheckUpToDate(t) ==
    /\ pc[t] = "uptodate"
    /\ IF UpToDate
         THEN Goto(t, "found") /\ relies' = [relies EXCEPT ![t] = edits]
         ELSE Goto(t, "open") /\ UNCHANGED relies
    /\ UNCHANGED <<disk, conf, lock, parse, sure, source, whole, freed>>

\* fopen: without a path, or a file at it, parse fails.
Open(t) ==
    /\ pc[t] = "open"
    /\ IF path /\ text # NULL
         THEN handle' = Current /\ Goto(t, "stat")
         ELSE Goto(t, "failed") /\ UNCHANGED handle
    /\ UNCHANGED <<disk, conf, lock, info, todo, valid, aux>>

\* A parse is certain when what it learns from stat() is about the file it has
\* opened, and no later edit can fall into the second of that modification; see
\* also Write.
Certain == handle = Current /\ mtime < now

Stat(t) ==
    /\ pc[t] = "stat"
    /\ \/ /\ text \notin {NULL, <<>>}
          /\ info' = [size |-> Len(text), mtime |-> mtime, edits |-> edits, certain |-> Certain]
          /\ Goto(t, "read")
       \/ /\ text \in {NULL, <<>>} \/ MallocFails
          /\ Goto(t, "failed")
          /\ UNCHANGED info
    /\ UNCHANGED <<disk, conf, lock, handle, todo, valid, aux>>

\* What n lines' worth of bytes of x may be: the last line can be cut anywhere.
Readings(x, n) ==
    LET full == SubSeq(x, 1, n) IN
    {full} \cup
    (IF n < Len(x)
       THEN {[full EXCEPT ![n] = Bad]} \cup
            (IF full[n] = Bad THEN {} ELSE {[full EXCEPT ![n].value = Cut]})
       ELSE {})

Opened == IF handle = Current THEN text ELSE handle

Read(t) ==
    /\ pc[t] = "read"
    /\ IF Len(Opened) < info.size
         THEN Goto(t, "failed") /\ UNCHANGED todo
         ELSE Goto(t, "clear") /\ todo' \in Readings(Opened, info.size)
    /\ UNCHANGED <<disk, conf, lock, handle, info, valid, aux>>

Reading == {"adapter", "path"}

\* srvd_conf_clear, also felt by the threads that are reading.
Cleared ==
    /\ items' = <<>>
    /\ freed' = [t \in Threads |-> freed[t] \/ (pc[t] \in Reading /\ items # <<>>)]

Clear(t) ==
    /\ pc[t] = "clear"
    /\ Cleared
    /\ valid' = TRUE
    /\ source' = todo /\ whole' = TRUE
    /\ Goto(t, "line")
    /\ UNCHANGED <<disk, path, updated, updatedTime, lock, handle, info, todo, sure, relies>>

\* Mutant of Accepted: what is wrong with a line does not matter.
MutAccepted(x) == TRUE
Accepted(x) == valid /\ x # Bad

\* One line.  The names that item_add compares are not terminated in the file's
\* buffer, so item_has never finds them: a new item always goes to the front.
ReadLine(t) ==
    /\ pc[t] = "line"
    /\ todo # <<>>
    /\ todo' = Tail(todo)
    /\ LET x == Head(todo) IN
         \/ /\ Accepted(x)
            /\ items' = <<x>> \o items
            /\ UNCHANGED <<valid, whole>>
         \/ /\ Accepted(x) /\ MallocFails
            /\ whole' = FALSE
            /\ UNCHANGED <<items, valid>>
         \/ /\ ~Accepted(x)
            /\ valid' = FALSE
            /\ UNCHANGED <<items, whole>>
    /\ UNCHANGED <<disk, path, updated, updatedTime, lock, pc, handle, info, sure, source, relies,
                   freed>>

\* Mutants of NewTime: the file is asked again; the clock is asked.
MutNewTime == mtime
MutNewTimeNow == now
NewTime == info.mtime

\* Mutant of Forget: the lines before the one in error stay.
MutForget == UNCHANGED <<items, freed>>
\* A text with an error is not kept in part.
Forget == Cleared

Parsed(t) ==
    /\ pc[t] = "line"
    /\ todo = <<>>
    /\ IF valid
         THEN /\ updated' = TRUE
              /\ updatedTime' = NewTime
              /\ sure' = (info.certain /\ whole)
              /\ relies' = [relies EXCEPT ![t] = info.edits]
              /\ Goto(t, "found")
              /\ UNCHANGED <<items, freed>>
         ELSE /\ Forget
              /\ Goto(t, "failed")
              /\ sure' = FALSE
              /\ UNCHANGED <<updated, updatedTime, relies>>
    /\ UNCHANGED <<disk, path, lock, parse, source, whole>>

\* Mutant of GiveBack: the error label comes after the unlock.
MutGiveBack(t) == lock' = IF pc[t] = "found" THEN NULL ELSE lock
GiveBack(t) == lock' = NULL

\* The structure is handed out and the lock given back.
Unlock(t) ==
    /\ pc[t] \in {"found", "failed"}
    /\ GiveBack(t)
    /\ handle' = NULL /\ info' = NoInfo /\ todo' = <<>> /\ valid' = TRUE
    /\ Goto(t, IF pc[t] = "found" THEN "adapter" ELSE "idle")
    /\ UNCHANGED <<disk, conf, aux>>

-----------------------------------------------------------------------------
(* srvd_client_get_by_conf, after the lock is given back *)

\* item_get stops at the first match: the last definition of the file.
Has(name, value) ==
    \E k \in DOMAIN items :
        /\ items[k].name = name /\ items[k].value = value
        /\ \A l \in 1 .. k - 1 : items[l].name # name

\* A walk over items that were freed can find anything or nothing.
ReadAdapter(t) ==
    /\ pc[t] = "adapter"
    /\ \/ (freed[t] \/ Has("client:adapter", "unsock")) /\ Goto(t, "path") /\ UNCHANGED <<relies, freed>>
       \/ /\ freed[t] \/ ~Has("client:adapter", "unsock")
          /\ Goto(t, "idle")
          /\ relies' = [relies EXCEPT ![t] = 0] /\ freed' = [freed EXCEPT ![t] = FALSE]
    /\ UNCHANGED <<disk, conf, lock, parse, sure, source, whole>>

\* The path is copied or missing; either way no item is used any more.
ReadPath(t) ==
    /\ pc[t] = "path"
    /\ Goto(t, "idle")
    /\ relies' = [relies EXCEPT ![t] = 0] /\ freed' = [freed EXCEPT ![t] = FALSE]
    /\ UNCHANGED <<disk, conf, lock, parse, sure, source, whole>>

Step(t) ==
    \/ Lock(t) \/ CheckUpToDate(t) \/ Open(t) \/ Stat(t) \/ Read(t)
    \/ Clear(t) \/ ReadLine(t) \/ Parsed(t) \/ Unlock(t)
    \/ ReadAdapter(t) \/ ReadPath(t)

Next == Write \/ Replace \/ PutBack \/ Tick \/ \E t \in Threads : Step(t)

Spec == Init /\ [][Next]_vars

\* The scheduler runs a thread that holds the lock; nothing makes it query.
FairSpec == Spec /\ \A t \in Threads : WF_vars(lock = t /\ Step(t))

-----------------------------------------------------------------------------
(* Properties *)

Seconds == 0 .. MaxTime

TypeOK ==
    /\ text \in Texts \cup {NULL}
    /\ mtime \in Seconds /\ now \in Seconds /\ edits \in 0 .. MaxEdits
    /\ backup \in [text : Texts, mtime : Seconds] \cup {NULL}
    /\ path \in BOOLEAN /\ items \in Seq(Items)
    /\ updated \in BOOLEAN /\ updatedTime \in Seconds
    /\ lock \in Threads \cup {NULL}
    /\ pc \in [Threads -> {"idle", "uptodate", "open", "stat", "read", "clear", "line",
                           "found", "failed"} \cup Reading]
    /\ handle \in {NULL, Current} \cup Texts
    /\ info \in [size : Nat, mtime : Seconds, edits : 0 .. MaxEdits, certain : BOOLEAN]
    /\ todo \in Seq(Items \cup {Bad}) /\ valid \in BOOLEAN
    /\ sure \in BOOLEAN /\ source \in Seq(Items \cup {Bad}) /\ whole \in BOOLEAN
    /\ relies \in [Threads -> 0 .. MaxEdits]
    /\ freed \in [Threads -> BOOLEAN]

\* What the last parse set out to read is what it got of one of the texts.
IsReading(r) == \E x \in Texts : \E n \in DOMAIN x : r \in Readings(x, n)

\* Whoever takes the lock finds no items, or those of a parse that met no error
\* and read one text: all its lines, the last one first, or fewer if memory ran
\* out (the result of item_add is ignored, conf.c:386).  So a parse keeps nothing of
\* the one before it, and one that meets an error keeps nothing of the lines it
\* has read before (conf.c:403-404).
OneReading ==
    lock = NULL /\ items # <<>> =>
        /\ IsReading(source) /\ Bad \notin Range(source)
        /\ IF whole
             THEN items = Reverse(source)
             ELSE Range(items) \subseteq Range(source) /\ Len(items) < Len(source)

\* When uptodate says that no parse is needed, the items are those of the file
\* as it is, the last definition of a name first, unless the last parse was not
\* certain, was short of memory or failed: the items are gone then, and the time
\* of the last success stays, at which a backup that is put back is up to date.
Fresh == lock = NULL /\ UpToDate /\ sure => items = Reverse(text)

\* A thread reads the items without the lock, but only a change of the file
\* after the stat it relies on makes another thread clear or rebuild them.
ConfigurationStays ==
    \A t \in Threads :
        pc[t] \in Reading /\ relies[t] = edits =>
            /\ ~freed[t]
            /\ lock # NULL => pc[lock] \notin {"clear", "line"}

\* Every path through default_get and parse gives the lock back.
LockGivenBack == \A t \in Threads : lock = t ~> lock # t
=============================================================================
