------------------------------ MODULE ConfProofs ------------------------------
(***************************************************************************)
(* Proofs about Conf, for any threads, texts, edits and seconds: who reads *)
(* items without the lock keeps them until the file changes, items are     *)
(* those of one reading, and a configuration that counts as up to date is  *)
(* the file, but for the exceptions that `sure' names.                     *)
(*                                                                         *)
(* Three chains of facts lead from stat() to the items: that nothing was   *)
(* edited since (Measured, Relied), that no other file has the time that   *)
(* it said (Only), and what part of a text is still to be read             *)
(* (PartlyRead).                                                           *)
(***************************************************************************)
EXTENDS Conf, SequenceTheorems, TLAPS

Busy    == {"uptodate", "open", "stat", "read", "clear", "line", "found", "failed"}
Parsing == {"open", "stat", "read", "clear", "line", "failed"}

\* The lock's owner is the thread in default_get.
Mutex == \A t \in Threads : pc[t] \in Busy <=> lock = t

\* A thread that has opened a file holds one.
Opens == \A t \in Threads : pc[t] \in {"stat", "read"} => Opened \in Texts
Sized == \A t \in Threads : pc[t] = "read" => info.size >= 1

-----------------------------------------------------------------------------
(* Nothing was edited since *)

Past == info.edits <= edits /\ \A t \in Threads : relies[t] <= edits

\* What stat() said still holds if there was no edit since.
Measured ==
    \A t \in Threads :
        pc[t] \in {"read", "clear", "line"} /\ info.edits = edits =>
            text # NULL /\ mtime = info.mtime

\* So a thread whose stat() still holds finds the configuration up to date, and
\* so does whoever takes the lock after it.
Relied ==
    \A t \in Threads :
        pc[t] \in Reading \cup {"found"} /\ relies[t] = edits =>
            /\ UpToDate /\ ~freed[t]
            /\ \A u \in Threads : pc[u] \notin Parsing

OnlyReadersFeel == \A t \in Threads : pc[t] \notin Reading => ~freed[t]

-----------------------------------------------------------------------------
(* What is read is the only file of its time *)

\* x is the only file of this time, now and after any edit.
Only(x, time) ==
    /\ time < now
    /\ text # NULL /\ mtime = time => text = x
    /\ backup # NULL /\ backup.mtime = time => backup.text = x

\* A backup is no younger than the file, and the same if it has the same time.
Dated ==
    /\ mtime <= now
    /\ backup # NULL =>
         /\ backup.mtime < now
         /\ text # NULL /\ mtime = backup.mtime => text = backup.text

\* From stat() to the items, when the parse is certain.
CertainRead ==
    \A t \in Threads : info.certain =>
        /\ pc[t] = "read" => Len(Opened) = info.size /\ Only(Opened, info.mtime)
        /\ pc[t] = "clear" => Only(todo, info.mtime)
        /\ pc[t] = "line" /\ valid /\ whole => Only(Reverse(items) \o todo, info.mtime)
CertainItems ==
    sure /\ (\A t \in Threads : pc[t] # "line") => Only(Reverse(items), updatedTime)

-----------------------------------------------------------------------------
(* What is read is one reading of one text *)

\* While lines are read, what is left of the reading and what was made of it.
PartlyRead ==
    \A t \in Threads :
        /\ pc[t] = "clear" => IsReading(todo)
        /\ pc[t] = "line" =>
             /\ IsReading(source)
             /\ Range(items) \cup Range(todo) \subseteq Range(source)
             /\ valid /\ Bad \in Range(source) => Bad \in Range(todo)
             /\ valid => IF whole THEN Reverse(items) \o todo = source
                                  ELSE Len(items) + Len(todo) < Len(source)
ReadOnce ==
    (\A t \in Threads : pc[t] # "line") /\ items # <<>> =>
        /\ IsReading(source) /\ Bad \notin Range(source)
        /\ IF whole
             THEN items = Reverse(source)
             ELSE Range(items) \subseteq Range(source) /\ Len(items) < Len(source)

LockInv  == TypeOK /\ Mutex /\ Opens /\ Sized
StayInv  == Past /\ Measured /\ Relied /\ OnlyReadersFeel
FreshInv == Dated /\ CertainRead /\ CertainItems
ReadInv  == PartlyRead /\ ReadOnce

IInv == LockInv /\ StayInv /\ FreshInv /\ ReadInv

-----------------------------------------------------------------------------
(* Texts and their readings *)

\* A text is a sequence of lines, and a line is a definition or Bad.
LEMMA TextType == ASSUME NEW x \in Texts PROVE x \in Seq(Lines) /\ x \in Seq(Items \cup {Bad})
<1>1. x \in Seq(Range(x))
  BY TextsAssumption
<1>2. Range(x) \subseteq Lines /\ Lines \subseteq Items \cup {Bad}
  BY DEF Lines, Items
<1> QED
  BY <1>1, <1>2

\* Reading a whole text finds it as it is.
LEMMA WholeReading == ASSUME NEW x \in Texts PROVE Readings(x, Len(x)) = {x}
<1>1. x \in Seq(Lines)
  BY TextType
<1>2. SubSeq(x, 1, Len(x)) = x
  BY <1>1
<1> QED
  BY <1>1, <1>2 DEF Readings

\* A reading of n lines has n lines, all definitions or Bad.
LEMMA ReadingType ==
  ASSUME NEW x \in Texts, NEW n \in 1 .. Len(x), NEW r \in Readings(x, n)
  PROVE  r \in Seq(Items \cup {Bad}) /\ Len(r) = n
<1> DEFINE S    == Items \cup {Bad}
           full == SubSeq(x, 1, n)
<1>1. x \in Seq(S) /\ x \in Seq(Lines) /\ n \in Nat /\ n <= Len(x)
  BY TextType
<1>2. full \in Seq(S) /\ full \in Seq(Lines) /\ Len(full) = n /\ n \in DOMAIN full
  BY <1>1
<1>3. \/ r = full
      \/ r = [full EXCEPT ![n] = Bad]
      \/ full[n] # Bad /\ r = [full EXCEPT ![n].value = Cut]
  BY DEF Readings
<1>4. full[n] \in Lines
  BY <1>2
<1>5. ASSUME full[n] # Bad PROVE [full[n] EXCEPT !.value = Cut] \in S
  BY <1>4, <1>5 DEF Items
<1> HIDE DEF full, S
<1>6. ASSUME NEW e \in S, r = [full EXCEPT ![n] = e] PROVE r \in Seq(S) /\ Len(r) = n
  BY <1>2, <1>6
<1>7. CASE r = full
  BY <1>2, <1>7 DEF S
<1>8. CASE r = [full EXCEPT ![n] = Bad]
  <2>1. Bad \in S
    BY DEF S
  <2> QED
    BY <1>6, <1>8, <2>1 DEF S
<1>9. CASE full[n] # Bad /\ r = [full EXCEPT ![n].value = Cut]
  <2>1. r = [full EXCEPT ![n] = [full[n] EXCEPT !.value = Cut]]
    BY <1>9
  <2> QED
    BY <1>5, <1>6, <1>9, <2>1 DEF S
<1> QED
  BY <1>3, <1>7, <1>8, <1>9 DEF S

-----------------------------------------------------------------------------
(* Types and the lock *)

\* What the editors of the file do, and a tick of the clock.
Outside == Write \/ Replace \/ PutBack \/ Tick

\* At first nobody is in default_get.
LEMMA LockInit == Init => LockInv
<1> SUFFICES ASSUME Init PROVE LockInv
  OBVIOUS
<1>1. 1 \in Seconds /\ 2 \in Seconds /\ 0 \in Seconds /\ 0 \in 0 .. MaxEdits
  BY BoundsAssumption DEF Seconds
<1>2. backup \in [text : Texts, mtime : Seconds] \cup {NULL}
  BY <1>1 DEF Init
<1>3. info \in [size : Nat, mtime : Seconds, edits : 0 .. MaxEdits, certain : BOOLEAN]
  BY <1>1 DEF Init, NoInfo
<1>4. TypeOK
  <2>1. <<>> \in Seq(Items) /\ <<>> \in Seq(Items \cup {Bad})
    OBVIOUS
  <2>2. /\ pc \in [Threads -> {"idle", "uptodate", "open", "stat", "read", "clear", "line",
                               "found", "failed"} \cup Reading]
        /\ relies \in [Threads -> 0 .. MaxEdits] /\ freed \in [Threads -> BOOLEAN]
    BY <1>1 DEF Init
  <2>3. /\ text \in Texts \cup {NULL} /\ mtime \in Seconds /\ now \in Seconds
        /\ edits \in 0 .. MaxEdits /\ path \in BOOLEAN /\ updated \in BOOLEAN
        /\ updatedTime \in Seconds /\ lock \in Threads \cup {NULL}
        /\ handle \in {NULL, Current} \cup Texts
        /\ valid \in BOOLEAN /\ sure \in BOOLEAN /\ whole \in BOOLEAN /\ source = <<>>
        /\ items = <<>> /\ todo = <<>>
    BY <1>1 DEF Init
  <2> QED
    BY <1>2, <1>3, <2>1, <2>2, <2>3 DEF TypeOK
<1>5. Mutex /\ Opens /\ Sized
  BY NullAssumption DEF Init, Mutex, Opens, Sized, Busy
<1> QED
  BY <1>4, <1>5 DEF LockInv

\* An edit changes what is at the path, and counts.
LEMMA EditedParts ==
  ASSUME TypeOK, NEW x \in Texts \cup {NULL}, NEW time \in Seconds, Edited(x, time)
  PROVE  /\ UNCHANGED <<now, path, items, updated, updatedTime, lock, pc, todo, valid>>
         /\ UNCHANGED <<sure, source, whole, relies, freed>>
         /\ text' = x /\ mtime' = time /\ edits' = edits + 1 /\ edits' \in 0 .. MaxEdits
  BY BoundsAssumption DEF TypeOK, Edited, conf, aux

\* Whoever edits the file leaves the lock alone, and an open file open.
LEMMA OutsideKeepsLock == ASSUME LockInv, Outside PROVE LockInv'
<1> USE DEF LockInv
<1>1. /\ UNCHANGED <<path, items, updated, updatedTime, lock, pc, todo, valid>>
      /\ UNCHANGED <<sure, source, whole, relies, freed>>
      /\ text' \in Texts \cup {NULL} /\ mtime' \in Seconds /\ now' \in Seconds
      /\ edits' \in 0 .. MaxEdits
      /\ backup' \in [text : Texts, mtime : Seconds] \cup {NULL}
      /\ handle' \in {NULL, Current} \cup Texts
      /\ info' \in [size : Nat, mtime : Seconds, edits : 0 .. MaxEdits, certain : BOOLEAN]
      /\ info'.size = info.size
      /\ Opened \in Texts => Opened' \in Texts
  <2>1. CASE Write
    <3>1. PICK x \in Texts : /\ Edited(x, now)
                             /\ \E b \in BOOLEAN : info' = [info EXCEPT !.certain = b]
                             /\ UNCHANGED <<handle, backup>>
      BY <2>1 DEF Write
    <3>2. now \in Seconds
      BY DEF TypeOK
    <3> QED
      BY <3>1, <3>2, EditedParts DEF TypeOK, Opened
  <2>2. CASE Replace
    <3>1. PICK x \in Texts \cup {NULL} :
            /\ text # NULL /\ Edited(x, now) /\ Kept
            /\ backup' = IF mtime < now THEN [text |-> text, mtime |-> mtime] ELSE backup
            /\ UNCHANGED info
      BY <2>2 DEF Replace
    <3>2. now \in Seconds
      BY DEF TypeOK
    <3>3. handle' \in {NULL, Current} \cup Texts /\ (Opened \in Texts => Opened' \in Texts)
      BY <3>1, NullAssumption DEF Kept, Opened, TypeOK
    <3>4. backup' \in [text : Texts, mtime : Seconds] \cup {NULL}
      BY <3>1 DEF TypeOK
    <3>5. /\ UNCHANGED <<now, path, items, updated, updatedTime, lock, pc, todo, valid>>
          /\ UNCHANGED <<sure, source, whole, relies, freed>>
          /\ text' = x /\ mtime' = now /\ edits' \in 0 .. MaxEdits
      BY <3>1, <3>2, EditedParts
    <3> QED
      BY <3>1, <3>3, <3>4, <3>5 DEF TypeOK
  <2>3. CASE PutBack
    <3>1. backup # NULL /\ Edited(backup.text, backup.mtime) /\ Kept /\ UNCHANGED <<info, backup>>
      BY <2>3 DEF PutBack
    <3>2. backup.text \in Texts /\ backup.mtime \in Seconds
      BY <3>1 DEF TypeOK
    <3>3. /\ UNCHANGED <<now, path, items, updated, updatedTime, lock, pc, todo, valid>>
          /\ UNCHANGED <<sure, source, whole, relies, freed>>
          /\ text' = backup.text /\ mtime' = backup.mtime /\ edits' \in 0 .. MaxEdits
      BY <3>1, <3>2, EditedParts
    <3>4. handle' \in {NULL, Current} \cup Texts /\ (Opened \in Texts => Opened' \in Texts)
      BY <3>1, NullAssumption DEF Kept, Opened, TypeOK
    <3> QED
      BY <3>1, <3>2, <3>3, <3>4 DEF TypeOK
  <2>4. CASE Tick
    BY <2>4, BoundsAssumption DEF Tick, TypeOK, Seconds, Opened, parse, conf, aux
  <2> QED
    BY <2>1, <2>2, <2>3, <2>4 DEF Outside
<1>2. TypeOK'
  BY <1>1 DEF TypeOK, conf, aux
<1>3. Mutex' /\ Opens' /\ Sized'
  BY <1>1 DEF Mutex, Opens, Sized
<1> QED
  BY <1>2, <1>3

\* A step of t moves t alone, and its owner gives the lock back at the end.
LEMMA StepMoves ==
  ASSUME LockInv, NEW t \in Threads, Step(t)
  PROVE  /\ \A u \in Threads : u # t => pc'[u] = pc[u]
         /\ pc' \in [Threads -> {"idle"} \cup Busy \cup Reading]
         /\ \/ pc[t] \notin Busy /\ pc'[t] \notin Busy /\ lock' = lock
            \/ pc[t] \notin Busy /\ pc'[t] \in Busy /\ lock = NULL /\ lock' = t
            \/ pc[t] \in Busy /\ pc'[t] \in Busy /\ lock' = lock
            \/ pc[t] \in Busy /\ pc'[t] \notin Busy /\ lock' = NULL
<1>1. pc \in [Threads -> {"idle"} \cup Busy \cup Reading]
  BY DEF LockInv, TypeOK, Busy
<1>2. CASE Lock(t)
  BY <1>1, <1>2 DEF Lock, Goto, Busy, Reading
<1>3. CASE CheckUpToDate(t)
  BY <1>1, <1>3 DEF CheckUpToDate, Goto, Busy, Reading
<1>4. CASE Open(t) \/ Stat(t) \/ Read(t) \/ Clear(t)
  BY <1>1, <1>4 DEF Open, Stat, Read, Clear, Goto, Busy, Reading
<1>5. CASE ReadLine(t)
  BY <1>1, <1>5 DEF ReadLine, Busy, Reading
<1>6. CASE Parsed(t)
  BY <1>1, <1>6 DEF Parsed, Goto, Busy, Reading
<1>7. CASE Unlock(t)
  BY <1>1, <1>7 DEF Unlock, GiveBack, Goto, Busy, Reading
<1>8. CASE ReadAdapter(t) \/ ReadPath(t)
  BY <1>1, <1>8 DEF ReadAdapter, ReadPath, Goto, Busy, Reading
<1> QED
  BY <1>2, <1>3, <1>4, <1>5, <1>6, <1>7, <1>8 DEF Step

\* So the owner stays the one that is in default_get.
LEMMA StepKeepsMutex == ASSUME LockInv, NEW t \in Threads, Step(t) PROVE Mutex'
<1> SUFFICES ASSUME NEW u \in Threads PROVE pc'[u] \in Busy <=> lock' = u
  BY DEF Mutex
<1>1. (pc[t] \in Busy <=> lock = t) /\ (pc[u] \in Busy <=> lock = u)
  BY DEF LockInv, Mutex
<1>2. u # NULL /\ t # NULL
  BY NullAssumption
<1>3. CASE u = t
  BY <1>1, <1>2, <1>3, StepMoves
<1>4. CASE u # t
  <2>1. pc'[u] = pc[u]
    BY <1>4, StepMoves
  <2> QED
    BY <1>1, <1>2, <1>4, <2>1, StepMoves
<1> QED
  BY <1>3, <1>4

\* Each step of default_get and its caller keeps the types.
LEMMA StepKeepsTypes == ASSUME LockInv, NEW t \in Threads, Step(t) PROVE TypeOK'
<1> USE DEF LockInv
<1>1. pc' \in [Threads -> {"idle", "uptodate", "open", "stat", "read", "clear", "line",
                           "found", "failed"} \cup Reading]
  BY StepMoves DEF Busy
<1>2. CASE Lock(t)
  BY <1>1, <1>2 DEF Lock, TypeOK, disk, parse, aux
<1>3. CASE CheckUpToDate(t)
  <2>1. relies' \in [Threads -> 0 .. MaxEdits]
    BY <1>3 DEF CheckUpToDate, TypeOK
  <2>2. UNCHANGED <<disk, conf, lock, parse, sure, source, whole, freed>>
    BY <1>3 DEF CheckUpToDate
  <2> QED
    BY <1>1, <2>1, <2>2 DEF TypeOK, disk, conf, parse
<1>4. CASE Open(t)
  BY <1>1, <1>4 DEF Open, TypeOK, disk, conf, aux
<1>5. CASE Stat(t)
  <2>1. info' \in [size : Nat, mtime : Seconds, edits : 0 .. MaxEdits, certain : BOOLEAN]
    <3>1. CASE text \notin {NULL, <<>>}
               /\ info' = [size |-> Len(text), mtime |-> mtime, edits |-> edits, certain |-> Certain]
      <4>1. Len(text) \in Nat
        BY <3>1, TextType DEF TypeOK
      <4>2. Certain \in BOOLEAN
        BY DEF Certain
      <4> QED
        BY <3>1, <4>1, <4>2 DEF TypeOK
    <3>2. CASE UNCHANGED info
      BY <3>2 DEF TypeOK
    <3> QED
      BY <1>5, <3>1, <3>2 DEF Stat
  <2> QED
    BY <1>1, <1>5, <2>1 DEF Stat, TypeOK, disk, conf, aux
<1>6. CASE Read(t)
  <2>1. todo' \in Seq(Items \cup {Bad})
    <3>1. CASE UNCHANGED todo
      BY <3>1 DEF TypeOK
    <3>2. CASE Len(Opened) >= info.size /\ todo' \in Readings(Opened, info.size)
      <4>1. Opened \in Texts /\ info.size >= 1 /\ info.size \in Nat
        BY <1>6 DEF Read, Opens, Sized, TypeOK
      <4>2. Len(Opened) \in Nat
        BY <4>1, TextType
      <4> QED
        BY <3>2, <4>1, <4>2, ReadingType
    <3>3. info.size \in Nat /\ (pc[t] = "read" => Len(Opened) \in Nat)
      BY TextType DEF Opens, TypeOK
    <3> QED
      BY <1>6, <3>1, <3>2, <3>3 DEF Read
  <2> QED
    BY <1>1, <1>6, <2>1 DEF Read, TypeOK, disk, conf, aux
<1>7. CASE Clear(t)
  BY <1>1, <1>7 DEF Clear, Cleared, TypeOK, disk
<1>8. CASE ReadLine(t)
  <2>1. todo # <<>> /\ todo' = Tail(todo) /\ Head(todo) \in Items \cup {Bad}
        /\ todo' \in Seq(Items \cup {Bad})
    BY <1>8 DEF ReadLine, TypeOK
  <2>2. items' \in Seq(Items)
    <3>1. CASE Accepted(Head(todo)) /\ items' = <<Head(todo)>> \o items
      <4>1. Head(todo) \in Items
        BY <2>1, <3>1 DEF Accepted
      <4> QED
        BY <3>1, <4>1 DEF TypeOK
    <3> QED
      BY <1>8, <3>1 DEF ReadLine, TypeOK
  <2>3. valid' \in BOOLEAN /\ whole' \in BOOLEAN
    BY <1>8 DEF ReadLine, TypeOK
  <2> QED
    BY <1>1, <1>8, <2>1, <2>2, <2>3 DEF ReadLine, TypeOK, disk
<1>9. CASE Parsed(t)
  <2>1. info.mtime \in Seconds /\ info.edits \in 0 .. MaxEdits /\ info.certain \in BOOLEAN
    BY DEF TypeOK
  <2>2. /\ items' \in Seq(Items) /\ freed' \in [Threads -> BOOLEAN]
        /\ relies' \in [Threads -> 0 .. MaxEdits] /\ sure' \in BOOLEAN
        /\ updated' \in BOOLEAN /\ updatedTime' \in Seconds
    <3>1. CASE valid
      BY <1>9, <2>1, <3>1 DEF Parsed, NewTime, TypeOK
    <3>2. CASE ~valid
      <4>1. Cleared /\ sure' = FALSE /\ UNCHANGED <<updated, updatedTime, relies>>
        BY <1>9, <3>2 DEF Parsed, Forget
      <4>2. items' = <<>> /\ freed' \in [Threads -> BOOLEAN]
        BY <4>1, Zenon DEF Cleared
      <4>3. items' \in Seq(Items)
        BY <4>2
      <4>4. relies' \in [Threads -> 0 .. MaxEdits] /\ updatedTime' \in Seconds
        BY <4>1 DEF TypeOK
      <4>5. updated' \in BOOLEAN /\ sure' \in BOOLEAN
        BY <4>1 DEF TypeOK
      <4> QED
        BY <4>2, <4>3, <4>4, <4>5
    <3> QED
      BY <3>1, <3>2
  <2> QED
    BY <1>1, <1>9, <2>2 DEF Parsed, TypeOK, disk, parse
<1>10. CASE Unlock(t)
  <2>1. NoInfo \in [size : Nat, mtime : Seconds, edits : 0 .. MaxEdits, certain : BOOLEAN]
    BY BoundsAssumption DEF NoInfo, Seconds
  <2> QED
    BY <1>1, <1>10, <2>1 DEF Unlock, GiveBack, TypeOK, disk, conf, aux
<1>11. CASE ReadAdapter(t)
  <2>1. relies' \in [Threads -> 0 .. MaxEdits] /\ freed' \in [Threads -> BOOLEAN]
    <3>1. CASE UNCHANGED <<relies, freed>>
      BY <3>1 DEF TypeOK
    <3>2. CASE relies' = [relies EXCEPT ![t] = 0] /\ freed' = [freed EXCEPT ![t] = FALSE]
      <4>1. 0 \in 0 .. MaxEdits
        BY BoundsAssumption
      <4> QED
        BY <3>2, <4>1 DEF TypeOK
    <3> QED
      BY <1>11, <3>1, <3>2 DEF ReadAdapter
  <2> QED
    BY <1>1, <1>11, <2>1 DEF ReadAdapter, TypeOK, disk, conf, parse
<1>12. CASE ReadPath(t)
  BY <1>1, <1>12, BoundsAssumption DEF ReadPath, TypeOK, disk, conf, parse
<1> QED
  BY <1>2, <1>3, <1>4, <1>5, <1>6, <1>7, <1>8, <1>9, <1>10, <1>11, <1>12 DEF Step

\* And what the file is that the parsing thread holds.
LEMMA StepKeepsFile == ASSUME LockInv, NEW t \in Threads, Step(t) PROVE Opens' /\ Sized'
<1> USE DEF LockInv
<1>1. ASSUME NEW u \in Threads, u # t PROVE pc[t] \in Busy => pc[u] \notin Busy
  BY <1>1 DEF Mutex
<1>2. ASSUME NEW u \in Threads, u # t, pc'[u] \in {"stat", "read"}
      PROVE  pc[u] = pc'[u] /\ pc[t] \notin Busy /\ UNCHANGED <<text, handle, info>>
  <2>1. pc'[u] = pc[u]
    BY <1>2, StepMoves
  <2>2. pc[t] \notin Busy
    BY <1>1, <1>2, <2>1 DEF Busy
  <2>3. Lock(t) \/ ReadAdapter(t) \/ ReadPath(t)
    BY <2>2 DEF Step, Busy, CheckUpToDate, Open, Stat, Read, Clear, ReadLine, Parsed, Unlock
  <2>4. UNCHANGED <<disk, parse>>
    BY <2>3 DEF Lock, ReadAdapter, ReadPath
  <2> QED
    BY <1>2, <2>1, <2>2, <2>4 DEF disk, parse
<1>3. pc'[t] = "stat" => Opened' \in Texts
  <2> SUFFICES ASSUME pc'[t] = "stat" PROVE Opened' \in Texts
    OBVIOUS
  <2>1. Open(t)
    BY DEF Step, Lock, CheckUpToDate, Open, Stat, Read, Clear, ReadLine, Parsed, Unlock,
       ReadAdapter, ReadPath, Goto, TypeOK
  <2>2. handle' = Current /\ text # NULL /\ text' = text
    BY <2>1 DEF Open, Goto, TypeOK, disk
  <2> QED
    BY <2>2 DEF Opened, TypeOK
<1>4. pc'[t] = "read" => Opened' \in Texts /\ info'.size >= 1
  <2> SUFFICES ASSUME pc'[t] = "read" PROVE Opened' \in Texts /\ info'.size >= 1
    OBVIOUS
  <2>1. Stat(t)
    BY DEF Step, Lock, CheckUpToDate, Open, Stat, Read, Clear, ReadLine, Parsed, Unlock,
       ReadAdapter, ReadPath, Goto, TypeOK
  <2>2. /\ text \notin {NULL, <<>>} /\ UNCHANGED <<text, handle>>
        /\ info' = [size |-> Len(text), mtime |-> mtime, edits |-> edits, certain |-> Certain]
    BY <2>1 DEF Stat, Goto, TypeOK, disk
  <2>3. Len(text) >= 1
    <3>1. text \in Seq(Lines) /\ text # <<>>
      BY <2>2, TextType DEF TypeOK
    <3> QED
      BY <3>1
  <2> QED
    BY <2>1, <2>2, <2>3 DEF Opened, Opens, Stat
<1>5. Opens'
  BY <1>2, <1>3, <1>4 DEF Opens, Opened
<1>6. Sized'
  BY <1>2, <1>4 DEF Sized
<1> QED
  BY <1>5, <1>6

\* Together: types, the lock and the open file are kept.
LEMMA LockStep == LockInv /\ [Next]_vars => LockInv'
<1> SUFFICES ASSUME LockInv, [Next]_vars PROVE LockInv'
  OBVIOUS
<1>1. CASE Outside
  BY <1>1, OutsideKeepsLock
<1>2. ASSUME NEW t \in Threads, Step(t) PROVE LockInv'
  BY <1>2, StepKeepsMutex, StepKeepsTypes, StepKeepsFile DEF LockInv
<1>3. CASE UNCHANGED vars
  BY <1>3 DEF LockInv, TypeOK, Mutex, Opens, Sized, Opened, vars, disk, conf, parse, aux
<1> QED
  BY <1>1, <1>2, <1>3 DEF Next, Outside

-----------------------------------------------------------------------------
(* Nothing was edited since *)

\* At first nothing was edited and nothing is read.
LEMMA StayInit == Init => StayInv
<1> SUFFICES ASSUME Init PROVE StayInv
  OBVIOUS
<1>1. Past
  BY DEF Init, Past, NoInfo
<1>2. Measured /\ Relied /\ OnlyReadersFeel
  BY DEF Init, Measured, Relied, OnlyReadersFeel, Reading
<1> QED
  BY <1>1, <1>2 DEF StayInv

\* After an edit no earlier stat() holds.
LEMMA OutsideKeepsStay == ASSUME LockInv, StayInv, Outside PROVE StayInv'
<1> USE DEF LockInv, StayInv
<1>1. UNCHANGED <<pc, relies, freed, updated, updatedTime>> /\ info'.edits = info.edits
      /\ info'.mtime = info.mtime
  <2>1. CASE Write
    <3>1. \E b \in BOOLEAN : info' = [info EXCEPT !.certain = b]
      BY <2>1 DEF Write
    <3> QED
      BY <2>1, <3>1 DEF Write, Edited, conf, aux, TypeOK
  <2>2. CASE Replace \/ PutBack
    BY <2>2 DEF Replace, PutBack, Edited, conf, aux
  <2>3. CASE Tick
    BY <2>3 DEF Tick, parse, conf, aux
  <2> QED
    BY <2>1, <2>2, <2>3 DEF Outside
<1>2. edits \in Nat /\ info.edits \in Nat /\ \A t \in Threads : relies[t] \in Nat
  BY BoundsAssumption DEF TypeOK
<1>3. CASE edits' = edits + 1
  <2>1. Past'
    BY <1>1, <1>2, <1>3 DEF Past
  <2>2. info'.edits # edits' /\ \A t \in Threads : relies'[t] # edits'
    BY <1>1, <1>2, <1>3 DEF Past
  <2>3. OnlyReadersFeel'
    BY <1>1 DEF OnlyReadersFeel
  <2> QED
    BY <2>1, <2>2, <2>3 DEF Measured, Relied
<1>4. CASE UNCHANGED <<edits, text, mtime>>
  BY <1>1, <1>4 DEF Past, Measured, Relied, OnlyReadersFeel, UpToDate
<1>5. edits' = edits + 1 \/ UNCHANGED <<edits, text, mtime>>
  BY DEF Outside, Write, Replace, PutBack, Edited, Tick
<1> QED
  BY <1>3, <1>4, <1>5

\* A thread relies on stat()s that were made.
LEMMA StepKeepsPast == ASSUME LockInv, StayInv, NEW t \in Threads, Step(t) PROVE Past'
<1> USE DEF LockInv, StayInv
<1>1. /\ edits \in Nat /\ info.edits <= edits /\ info.edits \in Nat
      /\ \A u \in Threads : relies[u] <= edits /\ relies[u] \in Nat
      /\ relies \in [Threads -> 0 .. MaxEdits]
  BY BoundsAssumption DEF TypeOK, Past
<1>2. edits' = edits
  BY DEF Step, Lock, CheckUpToDate, Open, Stat, Read, Clear, ReadLine, Parsed, Unlock,
     ReadAdapter, ReadPath, disk
<1>3. info'.edits <= edits
  <2>1. CASE Stat(t)
    BY <1>1, <2>1 DEF Stat
  <2>2. CASE Unlock(t)
    BY <1>1, <2>2 DEF Unlock, NoInfo
  <2>3. CASE UNCHANGED info
    BY <1>1, <2>3
  <2> QED
    BY <2>1, <2>2, <2>3 DEF Step, Lock, CheckUpToDate, Open, Read, Clear, ReadLine, Parsed,
       ReadAdapter, ReadPath, parse
<1>4. \E e \in {0, edits, info.edits} : relies' = [relies EXCEPT ![t] = e] \/ relies' = relies
  BY DEF Step, Lock, CheckUpToDate, Open, Stat, Read, Clear, ReadLine, Parsed, Unlock,
     ReadAdapter, ReadPath, aux
<1>5. \A u \in Threads : relies'[u] <= edits
  BY <1>1, <1>4
<1> QED
  BY <1>2, <1>3, <1>5 DEF Past

\* What a thread feels is forgotten when it has read the items.
LEMMA StepKeepsFeel == ASSUME LockInv, StayInv, NEW t \in Threads, Step(t) PROVE OnlyReadersFeel'
<1> USE DEF LockInv, StayInv
<1> SUFFICES ASSUME NEW u \in Threads, pc'[u] \notin Reading PROVE ~freed'[u]
  BY DEF OnlyReadersFeel
<1>1. pc[u] \notin Reading => ~freed[u]
  BY DEF OnlyReadersFeel
<1>2. u # t => pc'[u] = pc[u]
  BY StepMoves
<1>3. CASE Clear(t) \/ Parsed(t)
  <2>1. pc[t] \notin Reading /\ (freed' = freed \/ Cleared)
    BY <1>3 DEF Clear, Parsed, Forget, Reading
  <2>2. CASE Cleared
    <3>1. freed'[u] = (freed[u] \/ (pc[u] \in Reading /\ items # <<>>))
      BY <2>2 DEF Cleared
    <3> QED
      BY <1>1, <1>2, <2>1, <3>1
  <2> QED
    BY <1>1, <1>2, <2>1, <2>2
<1>4. CASE ReadAdapter(t) \/ ReadPath(t)
  <2>1. freed' = [freed EXCEPT ![t] = FALSE] \/ (freed' = freed /\ pc'[t] = "path")
    BY <1>4 DEF ReadAdapter, ReadPath, Goto, TypeOK
  <2>2. freed \in [Threads -> BOOLEAN]
    BY DEF TypeOK
  <2> QED
    BY <1>1, <1>2, <2>1, <2>2 DEF Reading
<1>5. CASE freed' = freed /\ pc[t] \notin Reading
  BY <1>1, <1>2, <1>5
<1> QED
  BY <1>3, <1>4, <1>5 DEF Step, Lock, CheckUpToDate, Open, Stat, Read, ReadLine, Unlock, aux, Reading

\* What stat() said holds until the next edit.
LEMMA StepKeepsMeasured == ASSUME LockInv, StayInv, NEW t \in Threads, Step(t) PROVE Measured'
<1> USE DEF LockInv, StayInv
<1> SUFFICES ASSUME NEW u \in Threads, pc'[u] \in {"read", "clear", "line"}, info'.edits = edits'
             PROVE  text' # NULL /\ mtime' = info'.mtime
  BY DEF Measured
<1>1. UNCHANGED disk
  BY DEF Step, Lock, CheckUpToDate, Open, Stat, Read, Clear, ReadLine, Parsed, Unlock,
     ReadAdapter, ReadPath
<1>2. CASE Stat(t) /\ pc'[t] = "read"
  BY <1>1, <1>2 DEF Stat, Goto, TypeOK, disk
<1>3. CASE UNCHANGED info /\ pc[u] \in {"read", "clear", "line"}
  BY <1>1, <1>3 DEF Measured, disk
<1>4. CASE u # t
  <2>1. pc'[u] = pc[u] /\ pc[t] \notin Busy
    BY <1>4, StepMoves DEF Mutex, Busy
  <2>2. UNCHANGED info
    BY <2>1 DEF Step, Lock, CheckUpToDate, Open, Stat, Read, Clear, ReadLine, Parsed, Unlock,
       ReadAdapter, ReadPath, Busy, parse
  <2> QED
    BY <1>3, <2>1, <2>2
<1>5. CASE u = t
  BY <1>2, <1>3, <1>5 DEF Step, Lock, CheckUpToDate, Open, Stat, Read, Clear, ReadLine, Parsed,
     Unlock, ReadAdapter, ReadPath, Goto, TypeOK
<1> QED
  BY <1>4, <1>5

\* While a thread parses, no stat() of another one still holds.
LEMMA ParsingAlone ==
  ASSUME LockInv, StayInv, NEW t \in Threads, pc[t] \in Parsing, NEW u \in Threads
  PROVE  pc[u] \in Reading \cup {"found"} => relies[u] # edits
  BY DEF StayInv, Relied

\* A thread that takes over a configuration takes over one that is up to date.
LEMMA StepKeepsRelied == ASSUME LockInv, StayInv, NEW t \in Threads, Step(t) PROVE Relied'
<1> USE DEF LockInv, StayInv
<1> SUFFICES ASSUME NEW u \in Threads, pc'[u] \in Reading \cup {"found"}, relies'[u] = edits'
             PROVE  UpToDate' /\ ~freed'[u] /\ \A v \in Threads : pc'[v] \notin Parsing
  BY DEF Relied
<1>1. UNCHANGED disk
  BY DEF Step, Lock, CheckUpToDate, Open, Stat, Read, Clear, ReadLine, Parsed, Unlock,
     ReadAdapter, ReadPath
<1>2. \A v \in Threads : v # t => pc'[v] = pc[v]
  BY StepMoves
<1>3. \A v \in Threads : v # t /\ pc[t] \in Busy => pc[v] \notin Busy
  BY DEF Mutex
<1>4. "found" \notin Reading /\ "found" \notin Parsing /\ Parsing \subseteq Busy
  BY DEF Reading, Parsing, Busy
\* A configuration that was handed out before.
<1>5. CASE /\ pc[u] \in Reading \cup {"found"} /\ relies[u] = edits
           /\ UNCHANGED <<updated, updatedTime>> /\ (freed'[u] => freed[u])
           /\ pc'[t] \notin Parsing
  <2>1. UpToDate /\ ~freed[u] /\ \A v \in Threads : pc[v] \notin Parsing
    BY <1>5 DEF Relied
  <2> QED
    BY <1>1, <1>2, <1>5, <2>1 DEF UpToDate, disk
<1>6. CASE pc[t] \in Parsing
  <2>1. CASE Parsed(t) /\ valid
    <3>1. /\ updated' = TRUE /\ updatedTime' = info.mtime
          /\ relies' = [relies EXCEPT ![t] = info.edits] /\ freed' = freed /\ pc'[t] = "found"
          /\ pc[t] = "line"
      BY <2>1 DEF Parsed, NewTime, Goto, TypeOK
    <3>2. u = t
      BY <1>1, <1>2, <1>4, <1>6, <3>1, ParsingAlone DEF disk, TypeOK
    <3>3. info.edits = edits
      BY <1>1, <3>1, <3>2 DEF disk, TypeOK
    <3>4. text # NULL /\ mtime = info.mtime /\ ~freed[t]
      BY <3>1, <3>3 DEF Measured, OnlyReadersFeel, Reading
    <3>5. UpToDate'
      BY <1>1, <3>1, <3>4 DEF UpToDate, disk
    <3>6. ~freed'[u]
      BY <3>1, <3>2, <3>4
    <3>7. ASSUME NEW v \in Threads PROVE pc'[v] \notin Parsing
      <4>1. pc[t] \in Busy
        BY <3>1 DEF Busy
      <4> QED
        BY <1>2, <1>3, <1>4, <3>1, <4>1
    <3> QED
      BY <3>5, <3>6, <3>7
  <2>2. CASE ~(Parsed(t) /\ valid)
    <3>1. relies' = relies /\ pc'[t] \notin Reading \cup {"found"}
      BY <1>6, <2>2 DEF Step, Lock, CheckUpToDate, Open, Stat, Read, Clear, ReadLine, Parsed,
         Unlock, ReadAdapter, ReadPath, Goto, TypeOK, aux, Parsing, Reading
    <3>2. u # t /\ pc[u] = pc'[u]
      BY <1>2, <3>1
    <3> QED
      BY <1>1, <1>6, <3>1, <3>2, ParsingAlone DEF disk
  <2> QED
    BY <2>1, <2>2
<1>7. CASE CheckUpToDate(t)
  <2>1. CASE UpToDate
    <3>1. /\ pc'[t] = "found" /\ relies' = [relies EXCEPT ![t] = edits] /\ pc[t] = "uptodate"
          /\ UNCHANGED <<updated, updatedTime, freed>>
      BY <1>7, <2>1 DEF CheckUpToDate, Goto, TypeOK, conf
    <3>2. ~freed[t]
      BY <3>1 DEF OnlyReadersFeel, Reading
    <3>3. CASE u = t
      <4>1. UpToDate'
        BY <1>1, <2>1, <3>1 DEF UpToDate, disk
      <4> QED
        BY <1>2, <1>3, <1>4, <3>1, <3>2, <3>3, <4>1 DEF Busy
    <3>4. CASE u # t
      <4>1. pc[u] = pc'[u] /\ relies[u] = relies'[u]
        BY <1>2, <3>1, <3>4 DEF TypeOK
      <4> QED
        BY <1>1, <1>4, <1>5, <3>1, <4>1 DEF disk
    <3> QED
      BY <3>3, <3>4
  <2>2. CASE ~UpToDate
    <3>1. pc'[t] = "open" /\ relies' = relies
      BY <1>7, <2>2 DEF CheckUpToDate, Goto, TypeOK
    <3>2. u # t
      BY <3>1 DEF Reading
    <3> QED
      BY <1>1, <1>2, <2>2, <3>1, <3>2 DEF Relied, disk
  <2> QED
    BY <2>1, <2>2
<1>8. CASE Lock(t)
  <2>1. pc'[t] = "uptodate" /\ UNCHANGED <<relies, freed, updated, updatedTime>>
    BY <1>8 DEF Lock, Goto, TypeOK, aux
  <2> QED
    BY <1>1, <1>2, <1>5, <2>1 DEF Reading, Parsing, disk
<1>9. CASE Unlock(t) /\ pc[t] = "found"
  <2>1. pc'[t] = "adapter" /\ UNCHANGED <<relies, freed, updated, updatedTime>>
    BY <1>9 DEF Unlock, Goto, TypeOK, conf, aux
  <2> QED
    BY <1>1, <1>2, <1>5, <1>9, <2>1 DEF Reading, Parsing, disk
<1>10. CASE ReadAdapter(t) \/ ReadPath(t)
  <2>1. /\ pc[t] \in Reading /\ pc'[t] \in {"path", "idle"} /\ UNCHANGED <<updated, updatedTime>>
        /\ \/ UNCHANGED <<relies, freed>>
           \/ pc'[t] = "idle" /\ relies' = [relies EXCEPT ![t] = 0] /\ freed' = [freed EXCEPT ![t] = FALSE]
    BY <1>10 DEF ReadAdapter, ReadPath, Goto, TypeOK, conf, Reading
  <2>2. pc[u] \in Reading \cup {"found"} /\ relies[u] = relies'[u] /\ freed'[u] = freed[u]
    BY <1>2, <2>1 DEF TypeOK, Reading
  <2>3. pc'[t] \notin Parsing
    BY <2>1 DEF Parsing
  <2> QED
    BY <1>1, <1>5, <2>1, <2>2, <2>3 DEF disk
<1> QED
  BY <1>6, <1>7, <1>8, <1>9, <1>10 DEF Step, Open, Stat, Read, Clear, ReadLine, Parsed, Unlock, Parsing

\* Together: a stat() holds until the file is edited.
LEMMA StayStep == LockInv /\ StayInv /\ [Next]_vars => StayInv'
<1> SUFFICES ASSUME LockInv, StayInv, [Next]_vars PROVE StayInv'
  OBVIOUS
<1>1. CASE Outside
  BY <1>1, OutsideKeepsStay
<1>2. ASSUME NEW t \in Threads, Step(t) PROVE StayInv'
  BY <1>2, StepKeepsPast, StepKeepsFeel, StepKeepsMeasured, StepKeepsRelied DEF StayInv
<1>3. CASE UNCHANGED vars
  BY <1>3 DEF StayInv, Past, Measured, Relied, OnlyReadersFeel, UpToDate, vars, disk, conf, parse, aux
<1> QED
  BY <1>1, <1>2, <1>3 DEF Next, Outside

-----------------------------------------------------------------------------
(* Items in the order of their lines *)

\* The front of the items is the line that was read last.
LEMMA ReversePlace ==
  ASSUME NEW S, NEW s \in Seq(S)
  PROVE  /\ Reverse(s) \in Seq(S) /\ Len(Reverse(s)) = Len(s)
         /\ \A i \in 1 .. Len(s) : Reverse(s)[i] = s[(Len(s) - i) + 1]
  BY DEF Reverse

\* The lines of a file are its items reversed.
LEMMA ReverseTwice == ASSUME NEW S, NEW s \in Seq(S) PROVE Reverse(Reverse(s)) = s
<1> DEFINE r == Reverse(s)
           q == Reverse(r)
<1>1. r \in Seq(S) /\ Len(r) = Len(s) /\ \A i \in 1 .. Len(s) : r[i] = s[(Len(s) - i) + 1]
  BY ReversePlace
<1> HIDE DEF r
<1>2. q \in Seq(S) /\ Len(q) = Len(r) /\ \A i \in 1 .. Len(r) : q[i] = r[(Len(r) - i) + 1]
  BY <1>1, ReversePlace
<1> HIDE DEF q
<1>3. ASSUME NEW i \in 1 .. Len(s) PROVE q[i] = s[i]
  <2>1. Len(s) \in Nat /\ (Len(s) - i) + 1 \in 1 .. Len(s)
    OBVIOUS
  <2>2. q[i] = r[(Len(s) - i) + 1]
    BY <1>1, <1>2
  <2>3. r[(Len(s) - i) + 1] = s[(Len(s) - ((Len(s) - i) + 1)) + 1]
    BY <1>1, <2>1
  <2>4. (Len(s) - ((Len(s) - i) + 1)) + 1 = i
    BY <2>1
  <2> QED
    BY <2>2, <2>3, <2>4
<1>4. q = s
  BY <1>1, <1>2, <1>3, SeqEqual
<1> QED
  BY <1>4 DEF q, r

\* An item that is put in front takes its line from what is to be read.
LEMMA ReverseCons ==
  ASSUME NEW S, NEW s \in Seq(S), NEW t \in Seq(S), t # <<>>
  PROVE  Reverse(<<Head(t)>> \o s) \o Tail(t) = Reverse(s) \o t
<1> DEFINE c == <<Head(t)>> \o s
           r == Reverse(c)
           q == Reverse(s)
           n == Len(s)
<1>1. c \in Seq(S) /\ Len(c) = n + 1 /\ n \in Nat
  OBVIOUS
<1>2. c[1] = Head(t) /\ \A i \in 1 .. n : c[i + 1] = s[i]
  OBVIOUS
<1> HIDE DEF c
<1>3. r \in Seq(S) /\ Len(r) = n + 1 /\ \A i \in 1 .. n + 1 : r[i] = c[(n + 1 - i) + 1]
  BY <1>1, ReversePlace
<1>4. q \in Seq(S) /\ Len(q) = n /\ \A i \in 1 .. n : q[i] = s[(n - i) + 1]
  BY ReversePlace
<1> HIDE DEF q, r, n
<1>5. r[n + 1] = t[1]
  BY <1>1, <1>2, <1>3
<1>6. ASSUME NEW i \in 1 .. n PROVE r[i] = q[i]
  <2>1. r[i] = c[(n + 1 - i) + 1]
    BY <1>1, <1>3
  <2>2. (n - i) + 1 \in 1 .. n /\ (n + 1 - i) + 1 = ((n - i) + 1) + 1
    BY <1>1
  <2>3. c[((n - i) + 1) + 1] = s[(n - i) + 1]
    BY <1>2, <2>2
  <2> QED
    BY <1>4, <2>1, <2>2, <2>3
<1>7. Tail(t) \in Seq(S) /\ Len(t) \in Nat \ {0} /\ Len(Tail(t)) = Len(t) - 1
      /\ \A i \in 1 .. Len(t) - 1 : Tail(t)[i] = t[i + 1]
  OBVIOUS
<1> DEFINE left == r \o Tail(t)
           right == q \o t
<1>8. /\ left \in Seq(S) /\ Len(left) = n + Len(t)
      /\ \A i \in 1 .. n + 1 : left[i] = r[i]
      /\ \A i \in n + 2 .. n + Len(t) : left[i] = Tail(t)[i - (n + 1)]
  <2>1. /\ left \in Seq(S) /\ Len(left) = Len(r) + Len(Tail(t))
        /\ \A i \in 1 .. Len(r) + Len(Tail(t)) :
             left[i] = IF i <= Len(r) THEN r[i] ELSE Tail(t)[i - Len(r)]
    BY <1>3, <1>7, ConcatProperties
  <2> HIDE DEF left
  <2>2. Len(r) + Len(Tail(t)) = n + Len(t) /\ Len(r) = n + 1
    BY <1>1, <1>3, <1>7
  <2>3. \A i \in 1 .. n + Len(t) : left[i] = IF i <= n + 1 THEN r[i] ELSE Tail(t)[i - (n + 1)]
    BY <2>1, <2>2
  <2>4. Len(left) = n + Len(t) /\ left \in Seq(S)
    BY <2>1, <2>2
  <2>5. ASSUME NEW i \in 1 .. n + 1 PROVE left[i] = r[i]
    <3>1. i \in 1 .. n + Len(t) /\ i <= n + 1
      BY <1>1, <1>7
    <3> QED
      BY <2>3, <3>1
  <2>6. ASSUME NEW i \in n + 2 .. n + Len(t) PROVE left[i] = Tail(t)[i - (n + 1)]
    <3>1. i \in 1 .. n + Len(t) /\ ~(i <= n + 1)
      BY <1>1, <1>7
    <3> QED
      BY <2>3, <3>1
  <2> QED
    BY <2>4, <2>5, <2>6
<1>9. /\ right \in Seq(S) /\ Len(right) = n + Len(t)
      /\ \A i \in 1 .. n : right[i] = q[i]
      /\ \A i \in n + 1 .. n + Len(t) : right[i] = t[i - n]
  <2>1. /\ right \in Seq(S) /\ Len(right) = Len(q) + Len(t)
        /\ \A i \in 1 .. Len(q) + Len(t) :
             right[i] = IF i <= Len(q) THEN q[i] ELSE t[i - Len(q)]
    BY <1>4, ConcatProperties
  <2> HIDE DEF right
  <2>2. \A i \in 1 .. n + Len(t) : right[i] = IF i <= n THEN q[i] ELSE t[i - n]
    BY <1>4, <2>1
  <2>3. Len(right) = n + Len(t) /\ right \in Seq(S)
    BY <1>4, <2>1
  <2>4. ASSUME NEW i \in 1 .. n PROVE right[i] = q[i]
    <3>1. i \in 1 .. n + Len(t) /\ i <= n
      BY <1>1, <1>7
    <3> QED
      BY <2>2, <3>1
  <2>5. ASSUME NEW i \in n + 1 .. n + Len(t) PROVE right[i] = t[i - n]
    <3>1. i \in 1 .. n + Len(t) /\ ~(i <= n)
      BY <1>1, <1>7
    <3> QED
      BY <2>2, <3>1
  <2> QED
    BY <2>3, <2>4, <2>5
<1> HIDE DEF left, right
<1>10. ASSUME NEW i \in 1 .. n + Len(t) PROVE left[i] = right[i]
  <2>1. CASE i \in 1 .. n
    <3>1. left[i] = r[i] /\ r[i] = q[i] /\ right[i] = q[i]
      BY <1>1, <1>6, <1>8, <1>9, <2>1
    <3> QED
      BY <3>1
  <2>2. CASE i = n + 1
    <3>1. i \in 1 .. n + 1 /\ i \in n + 1 .. n + Len(t) /\ i - n = 1
      BY <1>1, <1>7, <2>2
    <3>2. left[i] = r[n + 1]
      BY <1>8, <2>2, <3>1
    <3>3. right[i] = t[1]
      BY <1>9, <3>1
    <3> QED
      BY <1>5, <3>2, <3>3
  <2>3. CASE i \in n + 2 .. n + Len(t)
    <3>1. i - (n + 1) \in 1 .. Len(t) - 1 /\ (i - (n + 1)) + 1 = i - n
      BY <1>1, <1>7, <2>3
    <3>2. Tail(t)[i - (n + 1)] = t[i - n]
      BY <1>7, <3>1
    <3>3. left[i] = Tail(t)[i - (n + 1)]
      BY <1>8, <2>3
    <3>4. i \in n + 1 .. n + Len(t)
      BY <1>1, <1>7, <2>3
    <3>5. right[i] = t[i - n]
      BY <1>9, <3>4
    <3> QED
      BY <3>2, <3>3, <3>5
  <2> QED
    BY <1>1, <1>7, <2>1, <2>2, <2>3
<1>11. left = right
  BY <1>8, <1>9, <1>10, SeqEqual
<1> QED
  BY <1>11 DEF left, right, r, q, c

-----------------------------------------------------------------------------
(* What is read is the only file of its time *)

\* At first there is one text, in the file and in its backup.
LEMMA FreshInit == Init => FreshInv
<1> SUFFICES ASSUME Init PROVE FreshInv
  OBVIOUS
<1>1. Dated
  BY DEF Init, Dated
<1>2. CertainRead /\ CertainItems
  BY DEF Init, CertainRead, CertainItems, NoInfo
<1> QED
  BY <1>1, <1>2 DEF FreshInv

\* An edit gives a file the time of the clock, or those of a backup back.
LEMMA OutsideKeepsOnly ==
  ASSUME TypeOK, Dated, Outside
  PROVE  /\ Dated'
         /\ \A x : \A time \in Seconds : Only(x, time) =>
              /\ time < now'
              /\ text' # NULL /\ mtime' = time => text' = x
              /\ backup' # NULL /\ backup'.mtime = time => backup'.text = x
<1>1. /\ mtime \in Nat /\ now \in Nat /\ mtime <= now
      /\ now \in Seconds /\ Seconds \subseteq Nat
      /\ backup # NULL => /\ backup.mtime \in Nat /\ backup.mtime < now
                          /\ backup.mtime \in Seconds /\ backup.text \in Texts
                          /\ text # NULL /\ mtime = backup.mtime => text = backup.text
  BY BoundsAssumption DEF TypeOK, Dated, Seconds
<1>2. CASE Write
  <2>1. now' = now /\ mtime' = now /\ backup' = backup
    BY <1>2 DEF Write, Edited
  <2> QED
    BY <1>1, <2>1 DEF Dated, Only
<1>3. CASE Replace
  <2>1. /\ now' = now /\ mtime' = now /\ text # NULL
        /\ backup' = IF mtime < now THEN [text |-> text, mtime |-> mtime] ELSE backup
    BY <1>3 DEF Replace, Edited
  <2>2. CASE mtime < now
    <3>1. backup'.text = text /\ backup'.mtime = mtime
      BY <2>1, <2>2
    <3> QED
      BY <1>1, <2>1, <2>2, <3>1 DEF Dated, Only
  <2>3. CASE ~(mtime < now)
    BY <1>1, <2>1, <2>3 DEF Dated, Only
  <2> QED
    BY <2>2, <2>3
<1>4. CASE PutBack
  <2>1. /\ now' = now /\ backup' = backup /\ backup # NULL
        /\ mtime' = backup.mtime /\ text' = backup.text
    BY <1>4 DEF PutBack, Edited
  <2> QED
    BY <1>1, <2>1 DEF Dated, Only
<1>5. CASE Tick
  <2>1. now' = now + 1 /\ UNCHANGED <<text, mtime, backup>>
    BY <1>5 DEF Tick
  <2> QED
    BY <1>1, <2>1 DEF Dated, Only
<1> QED
  BY <1>2, <1>3, <1>4, <1>5 DEF Outside

\* A file that is written while it waits to be read is not certain any more;
\* one that is replaced is still read as it was.
LEMMA OutsideKeepsFresh == ASSUME LockInv, FreshInv, Outside PROVE FreshInv'
<1> USE DEF LockInv, FreshInv
<1>1. UNCHANGED <<pc, items, updatedTime, todo, valid, sure, whole>>
  BY DEF Outside, Write, Replace, PutBack, Edited, Tick, conf, parse, aux
<1>2. info.mtime \in Seconds /\ updatedTime \in Seconds
  BY DEF TypeOK
<1>3. /\ info'.certain => info.certain
      /\ info'.size = info.size /\ info'.mtime = info.mtime
      /\ \A t \in Threads : pc[t] = "read" /\ info'.certain => Opened' = Opened
  <2>1. CASE Write
    <3>1. PICK b \in BOOLEAN :
            /\ info' = [info EXCEPT !.certain = b]
            /\ b = (info.certain /\ ~(handle = Current /\ \E t \in Threads : pc[t] = "read"))
            /\ handle' = handle
      BY <2>1 DEF Write
    <3>2. info'.certain = b /\ info'.size = info.size /\ info'.mtime = info.mtime
      BY <3>1 DEF TypeOK
    <3> QED
      BY <3>1, <3>2 DEF Opened
  <2>2. CASE Replace \/ PutBack
    <3>1. Kept /\ info' = info
      BY <2>2 DEF Replace, PutBack
    <3>2. Opened' = Opened
      BY <3>1, NullAssumption DEF Kept, Opened, TypeOK
    <3> QED
      BY <3>1, <3>2
  <2>3. CASE Tick
    BY <2>3 DEF Tick, parse, Opened
  <2> QED
    BY <2>1, <2>2, <2>3 DEF Outside
<1>4. Dated'
  BY OutsideKeepsOnly
<1>5. CertainRead'
  <2> SUFFICES ASSUME NEW t \in Threads, info'.certain
               PROVE  /\ pc'[t] = "read" => Len(Opened') = info'.size /\ Only(Opened, info.mtime)'
                      /\ pc'[t] = "clear" => Only(todo, info.mtime)'
                      /\ pc'[t] = "line" /\ valid' /\ whole' => Only(Reverse(items) \o todo, info.mtime)'
    BY DEF CertainRead
  <2>1. pc[t] = "read" => Len(Opened) = info.size /\ Only(Opened, info.mtime)
    BY <1>3 DEF CertainRead
  <2>2. pc[t] = "clear" => Only(todo, info.mtime)
    BY <1>3 DEF CertainRead
  <2>3. pc[t] = "line" /\ valid /\ whole => Only(Reverse(items) \o todo, info.mtime)
    BY <1>3 DEF CertainRead
  <2>4. pc'[t] = "read" => Len(Opened') = info'.size /\ Only(Opened, info.mtime)'
    BY <1>1, <1>2, <1>3, <2>1, OutsideKeepsOnly DEF Only
  <2>5. pc'[t] = "clear" => Only(todo, info.mtime)'
    BY <1>1, <1>2, <1>3, <2>2, OutsideKeepsOnly DEF Only
  <2>6. pc'[t] = "line" /\ valid' /\ whole' => Only(Reverse(items) \o todo, info.mtime)'
    BY <1>1, <1>2, <1>3, <2>3, OutsideKeepsOnly DEF Only
  <2> QED
    BY <2>4, <2>5, <2>6
<1>6. CertainItems'
  BY <1>1, <1>2, OutsideKeepsOnly DEF CertainItems, Only
<1> QED
  BY <1>4, <1>5, <1>6

\* A certain stat() is about the only file of its time, and what is read from
\* it goes into the items line by line.
LEMMA StepKeepsCertainRead ==
  ASSUME LockInv, FreshInv, NEW t \in Threads, Step(t) PROVE CertainRead'
<1> USE DEF LockInv, FreshInv
<1>1. UNCHANGED <<text, mtime, now, backup>>
  BY DEF Step, Lock, CheckUpToDate, Open, Stat, Read, Clear, ReadLine, Parsed, Unlock,
     ReadAdapter, ReadPath, disk
<1>2. items \in Seq(Items \cup {Bad}) /\ todo \in Seq(Items \cup {Bad})
  BY DEF TypeOK
<1> SUFFICES ASSUME NEW u \in Threads, info'.certain
             PROVE  /\ pc'[u] = "read" => Len(Opened') = info'.size /\ Only(Opened', info'.mtime)
                    /\ pc'[u] = "clear" => Only(todo', info'.mtime)
                    /\ pc'[u] = "line" /\ valid' /\ whole' =>
                         Only(Reverse(items') \o todo', info'.mtime)
  BY <1>1 DEF CertainRead, Only
<1>3. CASE pc'[u] = pc[u] /\ UNCHANGED <<parse, items, whole>>
  BY <1>1, <1>3 DEF CertainRead, Only, Opened, parse
<1>4. CASE u # t
  <2>1. pc'[u] = pc[u]
    BY <1>4, StepMoves
  <2>2. CASE pc[t] \in Busy
    <3>1. pc[u] \notin Busy
      BY <1>4, <2>2 DEF Mutex
    <3> QED
      BY <2>1, <3>1 DEF Busy
  <2>3. CASE pc[t] \notin Busy
    <3>1. Lock(t) \/ ReadAdapter(t) \/ ReadPath(t)
      BY <2>3 DEF Step, Busy, CheckUpToDate, Open, Stat, Read, Clear, ReadLine, Parsed, Unlock
    <3>2. UNCHANGED <<parse, items, whole>>
      BY <3>1 DEF Lock, ReadAdapter, ReadPath, conf, aux
    <3> QED
      BY <1>3, <2>1, <3>2
  <2> QED
    BY <2>2, <2>3
<1>5. CASE u = t
  <2>1. CASE Stat(t)
    <3>1. CASE pc'[t] # "read"
      <4>1. pc'[t] = "failed"
        BY <2>1, <3>1 DEF Stat, Goto, TypeOK
      <4> QED
        BY <1>5, <4>1
    <3>2. CASE pc'[t] = "read"
      <4>1. /\ handle' = handle /\ text # NULL
            /\ info' = [size |-> Len(text), mtime |-> mtime, edits |-> edits, certain |-> Certain]
        BY <2>1, <3>2 DEF Stat, Goto, TypeOK
      <4>2. handle = Current /\ mtime < now
        BY <4>1 DEF Certain
      <4>3. Opened' = text /\ info'.mtime = mtime /\ info'.size = Len(text)
        BY <1>1, <4>1, <4>2 DEF Opened
      <4>4. Only(text, mtime)
        BY <4>1, <4>2 DEF Only, Dated
      <4> QED
        BY <1>5, <3>2, <4>3, <4>4
    <3> QED
      BY <3>1, <3>2
  <2>2. CASE Read(t)
    <3>1. UNCHANGED <<handle, info>> /\ pc[t] = "read" /\ pc'[t] \in {"clear", "failed"}
      BY <2>2 DEF Read, Goto, TypeOK
    <3>2. CASE pc'[t] = "clear"
      <4>1. todo' \in Readings(Opened, info.size)
        BY <2>2, <3>2 DEF Read, Goto, TypeOK
      <4>2. Len(Opened) = info.size /\ Only(Opened, info.mtime) /\ Opened \in Texts
        BY <3>1 DEF CertainRead, Opens
      <4>3. todo' = Opened
        BY <4>1, <4>2, WholeReading
      <4> QED
        BY <1>5, <3>1, <3>2, <4>2, <4>3
    <3>3. CASE pc'[t] = "failed"
      BY <1>5, <3>3
    <3> QED
      BY <3>1, <3>2, <3>3
  <2>3. CASE Clear(t)
    <3>1. /\ UNCHANGED <<info, todo>> /\ items' = <<>> /\ pc[t] = "clear" /\ pc'[t] = "line"
      BY <2>3 DEF Clear, Cleared, Goto, TypeOK
    <3>2. Only(todo, info.mtime)
      BY <3>1 DEF CertainRead
    <3>3. Reverse(<<>>) \o todo = todo
      <4>1. Reverse(<<>>) = <<>>
        BY DEF Reverse
      <4> QED
        BY <1>2, <4>1
    <3> QED
      BY <1>5, <3>1, <3>2, <3>3
  <2>4. CASE ReadLine(t)
    <3>1. /\ info' = info /\ pc' = pc /\ pc[t] = "line" /\ todo # <<>> /\ todo' = Tail(todo)
      BY <2>4 DEF ReadLine
    <3>2. CASE valid' /\ whole'
      <4>1. valid /\ whole /\ items' = <<Head(todo)>> \o items
        BY <2>4, <3>2 DEF ReadLine
      <4>2. Reverse(items') \o todo' = Reverse(items) \o todo
        BY <1>2, <3>1, <4>1, ReverseCons
      <4>3. Only(Reverse(items) \o todo, info.mtime)
        BY <3>1, <4>1 DEF CertainRead
      <4> QED
        BY <1>5, <3>1, <4>2, <4>3
    <3> QED
      BY <1>5, <3>1, <3>2
  <2>5. CASE pc'[t] \notin {"read", "clear", "line"}
    BY <1>5, <2>5
  <2> QED
    BY <2>1, <2>2, <2>3, <2>4, <2>5 DEF Step, Lock, CheckUpToDate, Open, Parsed, Unlock,
       ReadAdapter, ReadPath, Goto, TypeOK
<1> QED
  BY <1>4, <1>5

\* At the end of a certain parse all lines are items.
LEMMA StepKeepsCertainItems ==
  ASSUME LockInv, FreshInv, NEW t \in Threads, Step(t) PROVE CertainItems'
<1> USE DEF LockInv, FreshInv
<1>1. UNCHANGED <<text, mtime, now, backup>>
  BY DEF Step, Lock, CheckUpToDate, Open, Stat, Read, Clear, ReadLine, Parsed, Unlock,
     ReadAdapter, ReadPath, disk
<1> SUFFICES ASSUME sure', \A u \in Threads : pc'[u] # "line"
             PROVE  Only(Reverse(items'), updatedTime')
  BY <1>1 DEF CertainItems, Only
<1>2. CASE Parsed(t)
  <2>1. valid
    BY <1>2 DEF Parsed
  <2>2. /\ info.certain /\ whole /\ updatedTime' = info.mtime /\ items' = items
        /\ todo = <<>> /\ pc[t] = "line"
    BY <1>2, <2>1 DEF Parsed, NewTime
  <2>3. Only(Reverse(items) \o <<>>, info.mtime)
    BY <2>1, <2>2 DEF CertainRead
  <2>4. Reverse(items) \o <<>> = Reverse(items)
    <3>1. Reverse(items) \in Seq(Items)
      BY ReversePlace DEF TypeOK
    <3> QED
      BY <3>1
  <2> QED
    BY <2>2, <2>3, <2>4
<1>3. CASE Clear(t) \/ ReadLine(t)
  <2>1. pc'[t] = "line"
    BY <1>3 DEF Clear, ReadLine, Goto, TypeOK
  <2> QED
    BY <2>1
<1>4. CASE UNCHANGED <<items, updatedTime, sure>> /\ pc[t] # "line"
  <2>1. \A u \in Threads : pc[u] # "line"
    BY <1>4, StepMoves
  <2> QED
    BY <1>4, <2>1 DEF CertainItems
<1> QED
  BY <1>2, <1>3, <1>4 DEF Step, Lock, CheckUpToDate, Open, Stat, Read, Unlock, ReadAdapter,
     ReadPath, conf, aux

\* Together: what is certain stays certain.
LEMMA FreshStep == LockInv /\ FreshInv /\ [Next]_vars => FreshInv'
<1> SUFFICES ASSUME LockInv, FreshInv, [Next]_vars PROVE FreshInv'
  OBVIOUS
<1>1. CASE Outside
  BY <1>1, OutsideKeepsFresh
<1>2. ASSUME NEW t \in Threads, Step(t) PROVE FreshInv'
  <2>1. UNCHANGED disk
    BY <1>2 DEF Step, Lock, CheckUpToDate, Open, Stat, Read, Clear, ReadLine, Parsed, Unlock,
       ReadAdapter, ReadPath
  <2>2. Dated'
    BY <2>1 DEF FreshInv, Dated, disk
  <2> QED
    BY <1>2, <2>2, StepKeepsCertainRead, StepKeepsCertainItems DEF FreshInv
<1>3. CASE UNCHANGED vars
  BY <1>3 DEF FreshInv, Dated, CertainRead, CertainItems, Only, Opened, vars, disk, conf, parse, aux
<1> QED
  BY <1>1, <1>2, <1>3 DEF Next, Outside

-----------------------------------------------------------------------------
(* What is read is one reading of one text *)

\* A line that is read moves from what is left to what was made of it.
LEMMA RangeMoves ==
  ASSUME NEW S, NEW s \in Seq(S), NEW t \in Seq(S), t # <<>>
  PROVE  /\ Range(t) = {Head(t)} \cup Range(Tail(t)) /\ Len(Tail(t)) = Len(t) - 1
         /\ Range(<<Head(t)>> \o s) = {Head(t)} \cup Range(s)
         /\ Len(<<Head(t)>> \o s) = Len(s) + 1
<1>1. Len(t) \in Nat \ {0} /\ Head(t) = t[1] /\ Tail(t) \in Seq(S) /\ Len(Tail(t)) = Len(t) - 1
      /\ \A i \in 1 .. Len(t) - 1 : Tail(t)[i] = t[i + 1]
  OBVIOUS
<1>2. Range(t) = {Head(t)} \cup Range(Tail(t))
  <2>1. ASSUME NEW e \in Range(t) PROVE e \in {Head(t)} \cup Range(Tail(t))
    <3>1. PICK i \in 1 .. Len(t) : e = t[i]
      BY DEF Range
    <3>2. CASE i = 1
      BY <1>1, <3>1, <3>2
    <3>3. CASE i # 1
      <4>1. i - 1 \in 1 .. Len(t) - 1 /\ (i - 1) + 1 = i
        BY <1>1, <3>1, <3>3
      <4>2. e = Tail(t)[i - 1] /\ i - 1 \in DOMAIN Tail(t)
        BY <1>1, <3>1, <4>1
      <4> QED
        BY <4>2 DEF Range
    <3> QED
      BY <3>2, <3>3
  <2>2. ASSUME NEW e \in Range(Tail(t)) PROVE e \in Range(t)
    <3>1. PICK i \in 1 .. Len(t) - 1 : e = Tail(t)[i]
      BY <1>1 DEF Range
    <3>2. e = t[i + 1] /\ i + 1 \in DOMAIN t
      BY <1>1, <3>1
    <3> QED
      BY <3>2 DEF Range
  <2>3. Head(t) \in Range(t)
    BY <1>1 DEF Range
  <2> QED
    BY <2>1, <2>2, <2>3
<1> DEFINE c == <<Head(t)>> \o s
<1>3. c \in Seq(S) /\ Len(c) = Len(s) + 1 /\ c[1] = Head(t)
      /\ \A i \in 1 .. Len(s) : c[i + 1] = s[i]
  OBVIOUS
<1> HIDE DEF c
<1>4. Range(c) = {Head(t)} \cup Range(s)
  <2>1. ASSUME NEW e \in Range(c) PROVE e \in {Head(t)} \cup Range(s)
    <3>1. PICK i \in 1 .. Len(s) + 1 : e = c[i]
      BY <1>3 DEF Range
    <3>2. CASE i = 1
      BY <1>3, <3>1, <3>2
    <3>3. CASE i # 1
      <4>1. Len(s) \in Nat /\ i - 1 \in 1 .. Len(s) /\ (i - 1) + 1 = i
        BY <3>3
      <4>2. e = s[i - 1]
        BY <1>3, <3>1, <4>1
      <4>3. i - 1 \in DOMAIN s
        BY <4>1
      <4> QED
        BY <4>2, <4>3 DEF Range
    <3> QED
      BY <3>2, <3>3
  <2>2. ASSUME NEW e \in Range(s) PROVE e \in Range(c)
    <3>1. PICK i \in 1 .. Len(s) : e = s[i]
      BY DEF Range
    <3>2. e = c[i + 1] /\ i + 1 \in DOMAIN c
      BY <1>3, <3>1
    <3> QED
      BY <3>2 DEF Range
  <2>3. Head(t) \in Range(c)
    BY <1>3 DEF Range
  <2> QED
    BY <2>1, <2>2, <2>3
<1> QED
  BY <1>1, <1>2, <1>3, <1>4 DEF c

\* At first there are no items.
LEMMA ReadInit == Init => ReadInv
  BY DEF Init, ReadInv, PartlyRead, ReadOnce

\* Before the first line everything is left.
LEMMA NothingReadYet ==
  ASSUME NEW S, NEW s \in Seq(S)
  PROVE  Reverse(<<>>) \o s = s /\ Range(<<>>) = {} /\ Len(<<>>) = 0
<1>1. Reverse(<<>>) = <<>>
  BY DEF Reverse
<1> QED
  BY <1>1 DEF Range

\* What is left of a reading, and what was made of it, is that reading.
LEMMA StepKeepsPartlyRead ==
  ASSUME LockInv, ReadInv, NEW t \in Threads, Step(t) PROVE PartlyRead'
<1> USE DEF LockInv, ReadInv
<1> DEFINE Part(made, left, from, ok, all) ==
             /\ IsReading(from)
             /\ Range(made) \cup Range(left) \subseteq Range(from)
             /\ ok /\ Bad \in Range(from) => Bad \in Range(left)
             /\ ok => IF all THEN Reverse(made) \o left = from
                            ELSE Len(made) + Len(left) < Len(from)
<1>1. /\ items \in Seq(Items \cup {Bad}) /\ todo \in Seq(Items \cup {Bad})
      /\ source \in Seq(Items \cup {Bad})
  BY DEF TypeOK
<1> SUFFICES ASSUME NEW u \in Threads
             PROVE  /\ pc'[u] = "clear" => IsReading(todo')
                    /\ pc'[u] = "line" => Part(items', todo', source', valid', whole')
  BY DEF PartlyRead, IsReading
<1>2. pc[u] = "line" => Part(items, todo, source, valid, whole)
  BY DEF PartlyRead
<1>3. pc[u] = "clear" => IsReading(todo)
  BY DEF PartlyRead
<1>4. CASE pc'[u] = pc[u] /\ UNCHANGED <<parse, items, source, whole>>
  <2>1. UNCHANGED <<todo, valid, items, source, whole>>
    BY <1>4 DEF parse
  <2> HIDE DEF Part
  <2> QED
    BY <1>2, <1>3, <1>4, <2>1
<1>5. CASE u # t
  <2>1. pc'[u] = pc[u]
    BY <1>5, StepMoves
  <2>2. CASE pc[t] \in Busy
    <3>1. pc[u] \notin Busy
      BY <1>5, <2>2 DEF Mutex
    <3> QED
      BY <2>1, <3>1 DEF Busy
  <2>3. CASE pc[t] \notin Busy
    <3>1. Lock(t) \/ ReadAdapter(t) \/ ReadPath(t)
      BY <2>3 DEF Step, Busy, CheckUpToDate, Open, Stat, Read, Clear, ReadLine, Parsed, Unlock
    <3>2. UNCHANGED <<parse, items, source, whole>>
      BY <3>1 DEF Lock, ReadAdapter, ReadPath, conf, aux
    <3> QED
      BY <1>4, <2>1, <3>2
  <2> QED
    BY <2>2, <2>3
<1>6. CASE u = t
  <2>1. CASE Read(t)
    <3>1. CASE pc'[t] # "clear"
      <4>1. pc'[t] = "failed"
        BY <2>1, <3>1 DEF Read, Goto, TypeOK
      <4> QED
        BY <1>6, <4>1
    <3>2. CASE pc'[t] = "clear"
      <4>1. todo' \in Readings(Opened, info.size) /\ ~(Len(Opened) < info.size) /\ pc[t] = "read"
        BY <2>1, <3>2 DEF Read, Goto, TypeOK
      <4>2. Opened \in Texts /\ info.size >= 1 /\ info.size \in Nat
        BY <4>1 DEF Opens, Sized, TypeOK
      <4>3. Opened \in Seq(Lines)
        BY <4>2, TextType
      <4>4. info.size \in DOMAIN Opened
        BY <4>1, <4>2, <4>3
      <4>5. IsReading(todo')
        BY <4>1, <4>2, <4>4 DEF IsReading
      <4> QED
        BY <1>6, <3>2, <4>5
    <3> QED
      BY <3>1, <3>2
  <2>2. CASE Clear(t)
    <3>1. /\ todo' = todo /\ items' = <<>> /\ source' = todo /\ whole' = TRUE
          /\ pc[t] = "clear" /\ pc'[t] = "line"
      BY <2>2 DEF Clear, Cleared, Goto, TypeOK
    <3>2. Reverse(<<>>) \o todo = todo /\ Range(<<>>) = {}
      BY <1>1, NothingReadYet
    <3>3. Part(<<>>, todo, todo, valid', TRUE)
      BY <1>3, <1>6, <3>1, <3>2
    <3> HIDE DEF Part
    <3> QED
      BY <1>6, <3>1, <3>3
  <2>3. CASE ReadLine(t)
    <3>1. pc' = pc /\ pc[t] = "line" /\ todo # <<>> /\ todo' = Tail(todo) /\ source' = source
      BY <2>3 DEF ReadLine
    <3>2. Part(items, todo, source, valid, whole)
      BY <1>2, <1>6, <3>1
    <3>3. /\ Range(todo) = {Head(todo)} \cup Range(todo') /\ Len(todo') = Len(todo) - 1
          /\ Range(<<Head(todo)>> \o items) = {Head(todo)} \cup Range(items)
          /\ Len(<<Head(todo)>> \o items) = Len(items) + 1
      BY <1>1, <3>1, RangeMoves
    <3>4. Len(items) \in Nat /\ Len(todo) \in Nat /\ Len(source) \in Nat
      BY <1>1
    <3>5. items' \in {items, <<Head(todo)>> \o items}
      BY <2>3 DEF ReadLine
    <3>6. valid' => valid /\ Head(todo) # Bad
      BY <2>3 DEF ReadLine, Accepted
    <3>7. Range(items') \cup Range(todo') \subseteq Range(source)
      BY <3>2, <3>3, <3>5
    <3>8. valid' /\ Bad \in Range(source) => Bad \in Range(todo')
      BY <3>2, <3>3, <3>6
    <3>9. valid' /\ whole' => Reverse(items') \o todo' = source
      <4> SUFFICES ASSUME valid', whole' PROVE Reverse(items') \o todo' = source
        OBVIOUS
      <4>1. valid /\ whole /\ items' = <<Head(todo)>> \o items
        BY <2>3 DEF ReadLine
      <4>2. Reverse(items') \o todo' = Reverse(items) \o todo
        BY <1>1, <3>1, <4>1, ReverseCons
      <4> QED
        BY <3>2, <4>1, <4>2
    <3>10. valid' /\ ~whole' => Len(items') + Len(todo') < Len(source)
      <4> SUFFICES ASSUME valid', ~whole' PROVE Len(items') + Len(todo') < Len(source)
        OBVIOUS
      <4>1. CASE whole
        <5>1. items' = items
          BY <2>3, <4>1 DEF ReadLine
        <5>2. Reverse(items) \o todo = source
          BY <3>2, <3>6, <4>1
        <5>3. Reverse(items) \in Seq(Items \cup {Bad}) /\ Len(Reverse(items)) = Len(items)
          BY <1>1, ReversePlace
        <5>4. Len(source) = Len(items) + Len(todo)
          <6> DEFINE r == Reverse(items)
          <6> HIDE DEF r
          <6>1. r \in Seq(Items \cup {Bad}) => Len(r \o todo) = Len(r) + Len(todo)
            BY <1>1
          <6> QED
            BY <5>2, <5>3, <6>1 DEF r
        <5> QED
          BY <3>3, <3>4, <5>1, <5>4
      <4>2. CASE ~whole
        <5>1. Len(items) + Len(todo) < Len(source)
          BY <3>2, <3>6, <4>2
        <5>2. Len(items') <= Len(items) + 1 /\ Len(items') \in Nat
          BY <3>3, <3>4, <3>5
        <5> QED
          BY <3>1, <3>3, <3>4, <5>1, <5>2
      <4> QED
        BY <4>1, <4>2
    <3>11. Part(items', todo', source, valid', whole')
      BY <3>2, <3>7, <3>8, <3>9, <3>10
    <3> HIDE DEF Part
    <3> QED
      BY <1>6, <3>1, <3>11
  <2>4. CASE pc'[t] \notin {"clear", "line"}
    BY <1>6, <2>4
  <2> QED
    BY <2>1, <2>2, <2>3, <2>4 DEF Step, Lock, CheckUpToDate, Open, Stat, Parsed, Unlock,
       ReadAdapter, ReadPath, Goto, TypeOK
<1> QED
  BY <1>5, <1>6

\* A reading with an error leaves no items; one without is what they are from.
LEMMA StepKeepsReadOnce ==
  ASSUME LockInv, ReadInv, NEW t \in Threads, Step(t) PROVE ReadOnce'
<1> USE DEF LockInv, ReadInv
<1> SUFFICES ASSUME \A u \in Threads : pc'[u] # "line", items' # <<>>
             PROVE  /\ IsReading(source') /\ Bad \notin Range(source')
                    /\ IF whole'
                         THEN items' = Reverse(source')
                         ELSE Range(items') \subseteq Range(source') /\ Len(items') < Len(source')
  BY DEF ReadOnce, IsReading
<1>1. CASE Parsed(t)
  <2>1. pc[t] = "line" /\ todo = <<>> /\ UNCHANGED <<source, whole>>
    BY <1>1 DEF Parsed
  <2>2. valid /\ items' = items
    BY <1>1 DEF Parsed, Forget, Cleared
  <2>3. /\ IsReading(source) /\ Range(items) \subseteq Range(source)
        /\ Bad \in Range(source) => Bad \in Range(todo)
        /\ IF whole THEN Reverse(items) \o todo = source
                    ELSE Len(items) + Len(todo) < Len(source)
    BY <2>1, <2>2 DEF PartlyRead
  <2>4. Range(todo) = {} /\ Len(todo) = 0
    BY <2>1 DEF Range
  <2>5. items \in Seq(Items) /\ Len(items) \in Nat
    BY DEF TypeOK
  <2>6. whole => items = Reverse(source)
    <3>1. Reverse(items) \in Seq(Items)
      BY <2>5, ReversePlace
    <3>2. Reverse(items) \o <<>> = Reverse(items)
      BY <3>1
    <3> QED
      BY <2>1, <2>3, <2>5, <3>2, ReverseTwice
  <2> QED
    BY <2>1, <2>2, <2>3, <2>4, <2>5, <2>6
<1>2. CASE Clear(t) \/ ReadLine(t)
  <2>1. pc'[t] = "line"
    BY <1>2 DEF Clear, ReadLine, Goto, TypeOK
  <2> QED
    BY <2>1
<1>3. CASE UNCHANGED <<items, source, whole>> /\ pc[t] # "line"
  <2>1. \A u \in Threads : pc[u] # "line"
    BY <1>3, StepMoves
  <2> QED
    BY <1>3, <2>1 DEF ReadOnce
<1> QED
  BY <1>1, <1>2, <1>3 DEF Step, Lock, CheckUpToDate, Open, Stat, Read, Unlock, ReadAdapter,
     ReadPath, conf, aux

\* Together, and no edit of the file disturbs it.
LEMMA ReadStep == LockInv /\ ReadInv /\ [Next]_vars => ReadInv'
<1> SUFFICES ASSUME LockInv, ReadInv, [Next]_vars PROVE ReadInv'
  OBVIOUS
<1>1. CASE UNCHANGED <<pc, items, todo, valid, source, whole>>
  BY <1>1 DEF ReadInv, PartlyRead, ReadOnce, IsReading
<1>2. Outside \/ UNCHANGED vars => UNCHANGED <<pc, items, todo, valid, source, whole>>
  BY DEF Outside, Write, Replace, PutBack, Edited, Tick, vars, conf, parse, aux
<1>3. ASSUME NEW t \in Threads, Step(t) PROVE ReadInv'
  BY <1>3, StepKeepsPartlyRead, StepKeepsReadOnce DEF ReadInv
<1> QED
  BY <1>1, <1>2, <1>3 DEF Next, Outside

-----------------------------------------------------------------------------
(* The theorems *)

THEOREM Inductive == Spec => []IInv
<1>1. Init => IInv
  BY LockInit, StayInit, FreshInit, ReadInit DEF IInv
<1>2. IInv /\ [Next]_vars => IInv'
  BY LockStep, StayStep, FreshStep, ReadStep DEF IInv
<1> QED
  BY <1>1, <1>2, PTL DEF Spec

\* The types of the configuration, of the file and of the parsing thread.
THEOREM TypeCorrect == Spec => []TypeOK
<1>1. IInv => TypeOK
  BY DEF IInv, LockInv
<1> QED
  BY <1>1, Inductive, PTL

\* Who reads the items without the lock keeps them until the file is changed.
THEOREM ConfigurationStaysUntilEdited == Spec => []ConfigurationStays
<1>1. IInv => ConfigurationStays
  <2> SUFFICES ASSUME IInv, NEW t \in Threads, pc[t] \in Reading, relies[t] = edits
               PROVE  ~freed[t] /\ (lock # NULL => pc[lock] \notin {"clear", "line"})
    BY DEF ConfigurationStays
  <2>1. ~freed[t] /\ \A u \in Threads : pc[u] \notin Parsing
    BY DEF IInv, StayInv, Relied
  <2>2. lock # NULL => lock \in Threads
    BY DEF IInv, LockInv, TypeOK
  <2> QED
    BY <2>1, <2>2 DEF Parsing
<1> QED
  BY <1>1, Inductive, PTL

\* A configuration that counts as up to date is the file, unless `sure' says why not.
THEOREM UpToDateIsFresh == Spec => []Fresh
<1>1. IInv => Fresh
  <2> SUFFICES ASSUME IInv, lock = NULL, UpToDate, sure PROVE items = Reverse(text)
    BY DEF Fresh
  <2>1. \A t \in Threads : pc[t] \notin Busy
    BY NullAssumption DEF IInv, LockInv, Mutex
  <2>2. Only(Reverse(items), updatedTime)
    BY <2>1 DEF IInv, FreshInv, CertainItems, Busy
  <2>3. text = Reverse(items)
    BY <2>2 DEF UpToDate, Only
  <2>4. items \in Seq(Items)
    BY DEF IInv, LockInv, TypeOK
  <2> QED
    BY <2>3, <2>4, ReverseTwice
<1> QED
  BY <1>1, Inductive, PTL

\* Whoever takes the lock finds no items, or the lines of one text that had no
\* error in what was read of it, all of them unless memory ran out: whatever
\* parses failed before, and however far they came, nothing of them is left.
THEOREM ItemsOfOneReading == Spec => []OneReading
<1>1. IInv => OneReading
  <2> SUFFICES ASSUME IInv, lock = NULL, items # <<>> 
               PROVE  /\ IsReading(source) /\ Bad \notin Range(source)
                      /\ IF whole
                           THEN items = Reverse(source)
                           ELSE Range(items) \subseteq Range(source) /\ Len(items) < Len(source)
    BY DEF OneReading
  <2>1. \A t \in Threads : pc[t] \notin Busy
    BY NullAssumption DEF IInv, LockInv, Mutex
  <2> QED
    BY <2>1 DEF IInv, ReadInv, ReadOnce, Busy
<1> QED
  BY <1>1, Inductive, PTL
===============================================================================
