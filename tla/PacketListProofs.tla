--------------------------- MODULE PacketListProofs ---------------------------
(***************************************************************************)
(* Proofs about PacketList, for any threads, calls, types and word size,   *)
(* as long as stores become visible in program order: the calls keep the   *)
(* lists and their lock right, and readers without the lock find what they *)
(* look for.                                                               *)
(*                                                                         *)
(* The list only grows, at its ends, and while it grows only the owner of  *)
(* the lock has stores to make.  So IInv says, for the owner, which stores *)
(* are left and what the memory lacks until they are made (Stage), and for *)
(* a reader, that the list it started with is a part of the list (Based)   *)
(* and how far into that part it is (Walking, Searching).                  *)
(***************************************************************************)
EXTENDS PacketList, NumberProofs, SequenceTheorems, TLAPS

InList(n) == \E i \in DOMAIN list : list[i] = n

\* The stores of AddStores and InjectStores.
HeadIs(n)        == [var |-> "head", at |-> NULL, val |-> n]
TailIs(n)        == [var |-> "tail", at |-> NULL, val |-> n]
NextIs(n, m)     == [var |-> "next", at |-> n, val |-> m]
PreviousIs(n, m) == [var |-> "previous", at |-> n, val |-> m]
Counts           == [var |-> "count", at |-> NULL, val |-> NULL]

-----------------------------------------------------------------------------
(* The list while no store is pending, and while some are *)

TailRight     == tail = IF list = <<>> THEN NULL ELSE list[Len(list)]
PreviousRight ==
    \A k \in DOMAIN list : previous[list[k]] = IF k = 1 THEN NULL ELSE list[k - 1]
CountRight    == count = Len(list) % (WordMax + 1)
CountBefore   == list # <<>> /\ count = (Len(list) - 1) % (WordMax + 1)

Settled == TailRight /\ PreviousRight /\ CountRight

\* The stores that make n reachable are still to come.
Linkable(n) == ~InList(n) /\ CountRight

AddingFirst(n) ==
    /\ Linkable(n) /\ Settled /\ list = <<>> /\ next[n] = NULL
AddingLast(n) ==
    /\ Linkable(n) /\ Settled /\ list # <<>> /\ next[n] = NULL
InjectingFirst(n) ==
    /\ Linkable(n) /\ list = <<>> /\ next[n] = NULL /\ previous[n] = NULL
InjectingFront(n) ==
    /\ Linkable(n) /\ list # <<>> /\ previous[n] = NULL /\ TailRight

\* The stores s that are left to link n at the end or the front of the list,
\* and what the memory is until they are made.
ToAdd(n, s) ==
    \/ /\ AddingFirst(n)
       /\ s = <<HeadIs(n), PreviousIs(n, NULL), TailIs(n), Counts>>
    \/ /\ AddingLast(n)
       /\ s = <<PreviousIs(n, tail), NextIs(tail, n), TailIs(n), Counts>>
    \/ /\ AddingLast(n) /\ previous[n] = tail
       /\ s = <<NextIs(tail, n), TailIs(n), Counts>>
ToInject(n, s) ==
    \/ /\ InjectingFirst(n) /\ tail = NULL
       /\ s = <<TailIs(n), NextIs(n, NULL), HeadIs(n), Counts>>
    \/ /\ InjectingFirst(n) /\ tail = n
       /\ s = <<NextIs(n, NULL), HeadIs(n), Counts>>
    \/ /\ InjectingFirst(n) /\ tail = n
       /\ s = <<HeadIs(n), Counts>>
    \/ /\ InjectingFront(n) /\ PreviousRight
       /\ s = <<NextIs(n, head), PreviousIs(head, n), HeadIs(n), Counts>>
    \/ /\ InjectingFront(n) /\ PreviousRight /\ next[n] = head
       /\ s = <<PreviousIs(head, n), HeadIs(n), Counts>>
    \/ /\ InjectingFront(n) /\ next[n] = head
       /\ \A k \in DOMAIN list : previous[list[k]] = IF k = 1 THEN n ELSE list[k - 1]
       /\ s = <<HeadIs(n), Counts>>

\* What is left to do once n is reachable.
InPlace(n, s) ==
    \/ /\ list = <<n>> /\ CountBefore
       /\ s = <<PreviousIs(n, NULL), TailIs(n), Counts>>
    \/ /\ list # <<>> /\ list[Len(list)] = n /\ CountBefore /\ PreviousRight
       /\ s = <<TailIs(n), Counts>>
    \/ /\ CountBefore /\ TailRight /\ PreviousRight
       /\ s = <<Counts>>
    \/ Settled /\ s = <<>>

Stage(t) ==
    \/ op[t].kind \in Adders /\ ToAdd(New(t), todo[t])
    \/ op[t].kind \in Injectors /\ ToInject(New(t), todo[t])
    \/ InList(New(t)) /\ InPlace(New(t), todo[t])

Linking == \A t \in Threads : pc[t] = "link" => Stage(t) /\ type[New(t)] = op[t].type

Quiet == (\A t \in Threads : pc[t] # "link") => Settled

\* A node is in the list once, and not before its call links it.
Distinct == \A k, l \in DOMAIN list : list[k] = list[l] => k = l
Absent ==
    \A t \in Threads, k \in 1 .. MaxCalls :
        InList(<<t, k>>) => k < calls[t] \/ (k = calls[t] /\ pc[t] \in {"idle", "link"})
Vetted == \A n \in vetted : InList(n)

-----------------------------------------------------------------------------
(* Calls *)

\* The place of a call tells its kind.
Kinds ==
    \A t \in Threads :
        /\ pc[t] # "idle" => calls[t] # 0
        /\ pc[t] = "count" => op[t].kind \in ByOffset
        /\ pc[t] = "lock" => op[t].kind \notin Readers
        /\ pc[t] \in {"head", "walk"} => op[t].kind \in Readers \cup Checked
        /\ pc[t] \in {"initialize", "link"} => op[t].kind \in Adders \cup Injectors

\* b is a part of the list.
Part(b) == \E d \in Nat : \A k \in DOMAIN b : k + d \in DOMAIN list /\ list[k + d] = b[k]

Based == \A t \in Threads : Part(base[t])

\* The offset was below the count, and the count is not above the length.
BelowLength ==
    \A t \in Threads :
        pc[t] = "head" /\ op[t].kind \in ByOffset => op[t].offset < Len(list)

ByPlace == ByOffset \cup {"get_first"}

\* A walk by offset is at the node of its counter.
Walking ==
    \A t \in Threads : pc[t] = "walk" /\ op[t].kind \in ByPlace =>
        /\ counter[t] <= op[t].offset
        /\ base[t] = <<>> => node[t] = NULL /\ op[t].kind \notin ByOffset
        /\ base[t] # <<>> => op[t].offset < Len(base[t]) /\ node[t] = base[t][counter[t] + 1]

NoneBefore(t, k) == \A l \in 1 .. k - 1 : type[base[t][l]] # op[t].type

\* A walk by type has passed nodes of other types: it is at a node of the part
\* it started with, or has passed all of them.
Searching ==
    \A t \in Threads : pc[t] = "walk" /\ op[t].kind \notin ByPlace =>
        \/ \E k \in DOMAIN base[t] : node[t] = base[t][k] /\ NoneBefore(t, k)
        \/ (node[t] = NULL \/ InList(node[t])) /\ NoneBefore(t, Len(base[t]) + 1)

\* The search of a checking call sees the whole list, and what it did not find
\* is not there until the call links it.
Vetting ==
    \A t \in Threads : op[t].kind \in Checked =>
        /\ pc[t] = "walk" => base[t] = list
        /\ pc[t] = "initialize" \/ (pc[t] = "link" /\ ~InList(New(t))) =>
             \A k \in DOMAIN list : type[list[k]] # op[t].type

\* What a search returned is still there.
Lasting ==
    \A t \in Threads : Returned(t) /\ op[t].kind = "get_by_type" /\ ret[t].ok => InList(ret[t].node)

LockInv == TypeOK /\ LockHeldInCall /\ Kinds
ListInv == ForwardChain /\ Distinct /\ Absent /\ Vetted /\ Quiet /\ Linking /\ TypesUnique /\ Vetting
ReadInv == Based /\ BelowLength /\ Walking /\ Searching /\ Lasting /\ FoundAtOffset /\ FoundByType

IInv == LockInv /\ ListInv /\ ReadInv

-----------------------------------------------------------------------------
(* Numbers and sequences *)

\* Counting below the width does not wrap, and never runs ahead.
LEMMA WrapBound ==
  ASSUME NEW a \in Nat
  PROVE  /\ a % (WordMax + 1) \in Word /\ a % (WordMax + 1) <= a
         /\ a <= WordMax => a % (WordMax + 1) = a
  BY WordMaxAssumption DEF Word

\* What Append adds, what a new first element moves, and what RemoveAt removes.
LEMMA AppendParts ==
  ASSUME NEW S, NEW s \in Seq(S), NEW e \in S
  PROVE  /\ Append(s, e) \in Seq(S) /\ Append(s, e) # <<>>
         /\ Len(s) \in Nat /\ DOMAIN s = 1 .. Len(s)
         /\ DOMAIN Append(s, e) = 1 .. Len(s) + 1 /\ Len(Append(s, e)) = Len(s) + 1
         /\ Append(s, e)[Len(s) + 1] = e
         /\ \A i \in 1 .. Len(s) : Append(s, e)[i] = s[i]
  OBVIOUS

LEMMA ConsParts ==
  ASSUME NEW S, NEW s \in Seq(S), NEW e \in S
  PROVE  /\ <<e>> \o s \in Seq(S) /\ <<e>> \o s # <<>>
         /\ Len(s) \in Nat /\ DOMAIN s = 1 .. Len(s)
         /\ DOMAIN (<<e>> \o s) = 1 .. Len(s) + 1 /\ Len(<<e>> \o s) = Len(s) + 1
         /\ (<<e>> \o s)[1] = e
         /\ \A i \in 1 .. Len(s) : (<<e>> \o s)[i + 1] = s[i]
<1>1. <<e>> \in Seq(S) /\ Len(<<e>>) = 1 /\ <<e>>[1] = e /\ Len(s) \in Nat /\ DOMAIN s = 1 .. Len(s)
  OBVIOUS
<1>2. /\ <<e>> \o s \in Seq(S) /\ Len(<<e>> \o s) = 1 + Len(s)
      /\ \A i \in 1 .. 1 + Len(s) : (<<e>> \o s)[i] = IF i <= 1 THEN <<e>>[i] ELSE s[i - 1]
  BY <1>1, ConcatProperties
<1>3. DOMAIN (<<e>> \o s) = 1 .. Len(s) + 1
  BY <1>1, <1>2, LenProperties
<1>4. \A i \in 1 .. Len(s) : i + 1 \in 1 .. 1 + Len(s) /\ ~(i + 1 <= 1) /\ (i + 1) - 1 = i
  BY <1>1
<1>5. \A i \in 1 .. Len(s) : (<<e>> \o s)[i + 1] = s[i]
  BY <1>2, <1>4
<1>6. <<e>> \o s # <<>>
  BY <1>1, <1>2
<1> QED
  BY <1>1, <1>2, <1>3, <1>5, <1>6

LEMMA RemoveFirstIsTail ==
  ASSUME NEW S, NEW s \in Seq(S), s # <<>>
  PROVE  RemoveAt(s, 1) = Tail(s) /\ RemoveAt(s, 1) \in Seq(S) /\ 1 \in DOMAIN s
<1>1. SubSeq(s, 1, 1 - 1) = <<>>
  OBVIOUS
<1>2. SubSeq(s, 1 + 1, Len(s)) = Tail(s) /\ Tail(s) \in Seq(S)
  BY TailIsSubSeq
<1>3. <<>> \o Tail(s) = Tail(s)
  BY <1>2, ConcatEmptySeq
<1> QED
  BY <1>1, <1>2, <1>3 DEF RemoveAt

LEMMA RemoveKeepsType ==
  ASSUME NEW S, NEW s \in Seq(S), NEW i \in DOMAIN s
  PROVE  RemoveAt(s, i) \in Seq(S)
<1>1. i \in 1 .. Len(s) /\ Len(s) \in Nat
  OBVIOUS
<1>2. SubSeq(s, 1, i - 1) \in Seq(S) /\ SubSeq(s, i + 1, Len(s)) \in Seq(S)
  BY <1>1, SubSeqProperties
<1> QED
  BY <1>2, ConcatProperties DEF RemoveAt

-----------------------------------------------------------------------------
(* The stores of a writer *)

\* What each writer stores, spelled out for an empty list and for another.
LEMMA StoreTypes ==
  ASSUME NEW n \in Nodes, NEW m \in Nodes \cup {NULL}
  PROVE  /\ HeadIs(n) \in Stores /\ TailIs(n) \in Stores /\ Counts \in Stores
         /\ NextIs(n, m) \in Stores /\ PreviousIs(n, m) \in Stores
  BY DEF HeadIs, TailIs, Counts, NextIs, PreviousIs, Stores

\* Two sequences of one, and one more.
LEMMA Chain ==
  ASSUME NEW S, NEW a \in S
  PROVE  /\ <<a>> \in Seq(S) /\ <<>> \in Seq(S)
         /\ \A s \in Seq(S) : s \o <<a>> = Append(s, a) /\ s \o <<>> = s /\ <<>> \o s = s
  BY AppendIsConcat, ConcatEmptySeq

\* A sequence of four, built element by element.
LEMMA Four ==
  ASSUME NEW S, NEW a \in S, NEW b \in S, NEW c \in S, NEW d \in S,
         NEW s \in Seq(S), Len(s) = 4, s[1] = a, s[2] = b, s[3] = c, s[4] = d
  PROVE  s = <<a, b, c, d>>
<1> DEFINE t == <<a, b, c, d>>
<1>1. t \in Seq(S) /\ Len(t) = 4 /\ t[1] = a /\ t[2] = b /\ t[3] = c /\ t[4] = d
  OBVIOUS
<1> HIDE DEF t
<1>2. \A i \in 1 .. 4 : i = 1 \/ i = 2 \/ i = 3 \/ i = 4
  OBVIOUS
<1>3. \A i \in 1 .. Len(s) : s[i] = t[i]
  BY <1>1, <1>2
<1>4. s = t
  BY <1>1, <1>3, SeqEqual
<1> QED
  BY <1>4 DEF t

LEMMA AppendFour ==
  ASSUME NEW S, NEW a \in S, NEW b \in S, NEW c \in S, NEW d \in S
  PROVE  Append(Append(Append(Append(<<>>, a), b), c), d) = <<a, b, c, d>>
<1> DEFINE one   == Append(<<>>, a)
           two   == Append(one, b)
           three == Append(two, c)
           four  == Append(three, d)
<1>0. one = Append(<<>>, a) /\ two = Append(one, b) /\ three = Append(two, c) /\ four = Append(three, d)
  OBVIOUS
<1> HIDE DEF one, two, three, four
<1>1. one \in Seq(S) /\ Len(one) = 1 /\ one[1] = a
  <2>1. <<>> \in Seq(S) /\ Len(<<>>) = 0
    OBVIOUS
  <2> QED
    BY <1>0, <2>1, AppendProperties
<1>2. two \in Seq(S) /\ Len(two) = 2 /\ two[1] = a /\ two[2] = b
  BY <1>0, <1>1, AppendProperties
<1>3. three \in Seq(S) /\ Len(three) = 3 /\ three[1] = a /\ three[2] = b /\ three[3] = c
  BY <1>0, <1>2, AppendProperties
<1>4. four \in Seq(S) /\ Len(four) = 4 /\ four[1] = a /\ four[2] = b /\ four[3] = c /\ four[4] = d
  BY <1>0, <1>3, AppendProperties
<1>5. four = <<a, b, c, d>>
  BY ONLY <1>4, a \in S, b \in S, c \in S, d \in S, Four, Zenon
<1> QED
  BY ONLY <1>5 DEF one, two, three, four

LEMMA AppendOne == ASSUME NEW a PROVE Append(<<>>, a) = <<a>>
  OBVIOUS

LEMMA AddShape ==
  ASSUME NEW n \in Nodes, head \in Nodes \cup {NULL}, tail \in Nodes \cup {NULL}
  PROVE  /\ AddStores(n) \in Seq(Stores)
         /\ head = NULL /\ tail = NULL =>
              AddStores(n) = <<HeadIs(n), PreviousIs(n, NULL), TailIs(n), Counts>>
         /\ head # NULL /\ tail # NULL =>
              AddStores(n) = <<PreviousIs(n, tail), NextIs(tail, n), TailIs(n), Counts>>
<1> DEFINE one   == IF head = NULL THEN <<HeadIs(n)>> ELSE <<>>
           two   == one \o <<PreviousIs(n, tail)>>
           last  == IF tail # NULL THEN <<NextIs(tail, n)>> ELSE <<>>
           three == two \o last
           four  == three \o <<TailIs(n)>>
           five  == four \o <<Counts>>
<1>1. AddStores(n) = five
  BY DEF AddStores, Store, Increment, HeadIs, TailIs, Counts, NextIs, PreviousIs
<1>2. /\ HeadIs(n) \in Stores /\ TailIs(n) \in Stores /\ Counts \in Stores
      /\ PreviousIs(n, tail) \in Stores /\ (tail # NULL => NextIs(tail, n) \in Stores)
  BY StoreTypes
<1>3. one \in Seq(Stores) /\ last \in Seq(Stores)
  BY <1>2
<1>4. two \in Seq(Stores) /\ two = Append(one, PreviousIs(n, tail))
  BY <1>2, <1>3, Chain
<1>5. three \in Seq(Stores)
  BY <1>3, <1>4, ConcatProperties
<1>6. three = IF tail # NULL THEN Append(two, NextIs(tail, n)) ELSE two
  BY <1>2, <1>4, Chain
<1>7. four \in Seq(Stores) /\ four = Append(three, TailIs(n))
  BY <1>2, <1>5, Chain
<1>8. five \in Seq(Stores) /\ five = Append(four, Counts)
  BY <1>2, <1>7, Chain
<1> HIDE DEF one, two, last, three, four, five
<1>9. ASSUME head = NULL, tail = NULL
      PROVE  five = <<HeadIs(n), PreviousIs(n, NULL), TailIs(n), Counts>>
  <2>1. one = Append(<<>>, HeadIs(n))
    BY <1>9, AppendOne DEF one
  <2>2. three = Append(one, PreviousIs(n, NULL)) /\ PreviousIs(n, NULL) \in Stores
    BY <1>2, <1>4, <1>6, <1>9
  <2>3. five = Append(Append(Append(Append(<<>>, HeadIs(n)), PreviousIs(n, NULL)), TailIs(n)), Counts)
    BY ONLY <1>7, <1>8, <2>1, <2>2
  <2>4. HeadIs(n) \in Stores /\ PreviousIs(n, NULL) \in Stores /\ TailIs(n) \in Stores /\ Counts \in Stores
    BY <1>2, <2>2
  <2>5. Append(Append(Append(Append(<<>>, HeadIs(n)), PreviousIs(n, NULL)), TailIs(n)), Counts) = <<HeadIs(n), PreviousIs(n, NULL), TailIs(n), Counts>>
    BY ONLY <2>4, AppendFour
  <2> QED
    BY ONLY <2>3, <2>5
<1>10. ASSUME head # NULL, tail # NULL
       PROVE  five = <<PreviousIs(n, tail), NextIs(tail, n), TailIs(n), Counts>>
  <2>1. two = Append(<<>>, PreviousIs(n, tail))
    BY <1>4, <1>10 DEF one
  <2>2. three = Append(two, NextIs(tail, n)) /\ NextIs(tail, n) \in Stores
    BY <1>2, <1>6, <1>10
  <2>3. five = Append(Append(Append(Append(<<>>, PreviousIs(n, tail)), NextIs(tail, n)), TailIs(n)), Counts)
    BY ONLY <1>7, <1>8, <2>1, <2>2
  <2>4. PreviousIs(n, tail) \in Stores /\ NextIs(tail, n) \in Stores /\ TailIs(n) \in Stores /\ Counts \in Stores
    BY <1>2, <2>2
  <2>5. Append(Append(Append(Append(<<>>, PreviousIs(n, tail)), NextIs(tail, n)), TailIs(n)), Counts) = <<PreviousIs(n, tail), NextIs(tail, n), TailIs(n), Counts>>
    BY ONLY <2>4, AppendFour
  <2> QED
    BY ONLY <2>3, <2>5
<1> QED
  BY <1>1, <1>8, <1>9, <1>10

LEMMA InjectShape ==
  ASSUME NEW n \in Nodes, head \in Nodes \cup {NULL}, tail \in Nodes \cup {NULL}
  PROVE  /\ InjectStores(n) \in Seq(Stores)
         /\ head = NULL /\ tail = NULL =>
              InjectStores(n) = <<TailIs(n), NextIs(n, NULL), HeadIs(n), Counts>>
         /\ head # NULL /\ tail # NULL =>
              InjectStores(n) = <<NextIs(n, head), PreviousIs(head, n), HeadIs(n), Counts>>
<1> DEFINE one   == IF tail = NULL THEN <<TailIs(n)>> ELSE <<>>
           two   == one \o <<NextIs(n, head)>>
           first == IF head # NULL THEN <<PreviousIs(head, n)>> ELSE <<>>
           three == two \o first
           four  == three \o <<HeadIs(n)>>
           five  == four \o <<Counts>>
<1>1. InjectStores(n) = five
  BY DEF InjectStores, Store, Increment, HeadIs, TailIs, Counts, NextIs, PreviousIs
<1>2. /\ HeadIs(n) \in Stores /\ TailIs(n) \in Stores /\ Counts \in Stores
      /\ NextIs(n, head) \in Stores /\ (head # NULL => PreviousIs(head, n) \in Stores)
  BY StoreTypes
<1>3. one \in Seq(Stores) /\ first \in Seq(Stores)
  BY <1>2
<1>4. two \in Seq(Stores) /\ two = Append(one, NextIs(n, head))
  BY <1>2, <1>3, Chain
<1>5. three \in Seq(Stores)
  BY <1>3, <1>4, ConcatProperties
<1>6. three = IF head # NULL THEN Append(two, PreviousIs(head, n)) ELSE two
  BY <1>2, <1>4, Chain
<1>7. four \in Seq(Stores) /\ four = Append(three, HeadIs(n))
  BY <1>2, <1>5, Chain
<1>8. five \in Seq(Stores) /\ five = Append(four, Counts)
  BY <1>2, <1>7, Chain
<1> HIDE DEF one, two, first, three, four, five
<1>9. ASSUME head = NULL, tail = NULL
      PROVE  five = <<TailIs(n), NextIs(n, NULL), HeadIs(n), Counts>>
  <2>1. one = Append(<<>>, TailIs(n))
    BY <1>9, AppendOne DEF one
  <2>2. three = Append(one, NextIs(n, NULL)) /\ NextIs(n, NULL) \in Stores
    BY <1>2, <1>4, <1>6, <1>9
  <2>3. five = Append(Append(Append(Append(<<>>, TailIs(n)), NextIs(n, NULL)), HeadIs(n)), Counts)
    BY ONLY <1>7, <1>8, <2>1, <2>2
  <2>4. TailIs(n) \in Stores /\ NextIs(n, NULL) \in Stores /\ HeadIs(n) \in Stores /\ Counts \in Stores
    BY <1>2, <2>2
  <2>5. Append(Append(Append(Append(<<>>, TailIs(n)), NextIs(n, NULL)), HeadIs(n)), Counts) = <<TailIs(n), NextIs(n, NULL), HeadIs(n), Counts>>
    BY ONLY <2>4, AppendFour
  <2> QED
    BY ONLY <2>3, <2>5
<1>10. ASSUME head # NULL, tail # NULL
       PROVE  five = <<NextIs(n, head), PreviousIs(head, n), HeadIs(n), Counts>>
  <2>1. two = Append(<<>>, NextIs(n, head))
    BY <1>4, <1>10 DEF one
  <2>2. three = Append(two, PreviousIs(head, n)) /\ PreviousIs(head, n) \in Stores
    BY <1>2, <1>6, <1>10
  <2>3. five = Append(Append(Append(Append(<<>>, NextIs(n, head)), PreviousIs(head, n)), HeadIs(n)), Counts)
    BY ONLY <1>7, <1>8, <2>1, <2>2
  <2>4. NextIs(n, head) \in Stores /\ PreviousIs(head, n) \in Stores /\ HeadIs(n) \in Stores /\ Counts \in Stores
    BY <1>2, <2>2
  <2>5. Append(Append(Append(Append(<<>>, NextIs(n, head)), PreviousIs(head, n)), HeadIs(n)), Counts) = <<NextIs(n, head), PreviousIs(head, n), HeadIs(n), Counts>>
    BY ONLY <2>4, AppendFour
  <2> QED
    BY ONLY <2>3, <2>5
<1> QED
  BY <1>1, <1>8, <1>9, <1>10

\* What is left of a writer's stores after the first.
LEMMA TailOf ==
  ASSUME NEW a, NEW b, NEW c, NEW d
  PROVE  /\ <<a, b, c, d>> # <<>> /\ <<a, b, c, d>>[1] = a /\ Tail(<<a, b, c, d>>) = <<b, c, d>>
         /\ <<b, c, d>> # <<>> /\ <<b, c, d>>[1] = b /\ Tail(<<b, c, d>>) = <<c, d>>
         /\ <<c, d>> # <<>> /\ <<c, d>>[1] = c /\ Tail(<<c, d>>) = <<d>>
         /\ <<d>> # <<>> /\ <<d>>[1] = d /\ Tail(<<d>>) = <<>>
  OBVIOUS

-----------------------------------------------------------------------------
(* The lock *)

LEMMA NullApart == NULL \notin Threads /\ NULL \notin Nodes
  BY NodesAssumption

LEMMA NewIsNode ==
  ASSUME LockInv, NEW t \in Threads, pc[t] # "idle"
  PROVE  New(t) \in Nodes /\ New(t) # First /\ calls[t] \in 1 .. MaxCalls
<1>1. calls[t] \in 1 .. MaxCalls
  BY MaxCallsAssumption DEF LockInv, TypeOK, Kinds
<1> QED
  BY <1>1, NodesAssumption DEF New, Nodes

LEMMA StartType == NoOp \in Operations /\ NoOp.offset = 0 /\ 0 \in Word
<1>1. 0 \in Word
  BY WordMaxAssumption DEF Word
<1>2. (CHOOSE x \in Types : TRUE) \in Types
  BY TypesAssumption
<1> DEFINE x0 == CHOOSE x \in Types : TRUE
<1> HIDE DEF x0
<1>3. [kind |-> "get_first", type |-> x0, offset |-> 0] \in Operation
  BY <1>1, <1>2 DEF x0, Operation, Readers
<1> QED
  BY <1>1, <1>3 DEF NoOp, Operations, x0

LEMMA InitLock == Init => LockInv
<1> SUFFICES ASSUME Init PROVE LockInv
  OBVIOUS
<1>1. TypeOK
  <2>1. count \in Word /\ 0 \in Word
    BY WordMaxAssumption DEF Init, Word
  <2>2. First \in Nodes
    BY DEF Nodes
  <2>3. <<>> \in Seq(Nodes) /\ <<First>> \in Seq(Nodes) /\ {} \subseteq Nodes /\ {First} \subseteq Nodes
    BY <2>2
  <2>7. {head, tail} \subseteq Nodes \cup {NULL} /\ list \in Seq(Nodes) /\ vetted \subseteq Nodes
    BY ONLY <2>2, <2>3, Init DEF Init
  <2>4. type \in [Nodes -> Types \cup {NULL}]
    BY DEF Init
  <2>5. todo \in [Threads -> Seq(Stores)] /\ base \in [Threads -> Seq(Nodes)]
    BY DEF Init
  <2>6. op \in [Threads -> Operations]
    BY StartType DEF Init
  <2> QED
    BY <2>1, <2>7, <2>4, <2>5, <2>6, MaxCallsAssumption DEF Init, TypeOK
<1>2. LockHeldInCall
  BY NullApart DEF Init, LockHeldInCall, Holds
<1>3. Kinds
  BY DEF Init, Kinds
<1> QED
  BY <1>1, <1>2, <1>3 DEF LockInv

\* What a step of one thread leaves of another's call.
Same(u) ==
    /\ pc'[u] = pc[u] /\ op'[u] = op[u] /\ calls'[u] = calls[u] /\ ret'[u] = ret[u]
    /\ node'[u] = node[u] /\ counter'[u] = counter[u] /\ todo'[u] = todo[u] /\ base'[u] = base[u]

LEMMA Frame ==
  ASSUME TypeOK, NEW t \in Threads, Call(t) \/ Step(t), NEW u \in Threads, u # t
  PROVE  Same(u)
<1>1. CASE Call(t)
  BY <1>1 DEF Call, Goto, TypeOK, Same
<1>2. CASE NoMemory(t)
  BY <1>2 DEF NoMemory, Return, Goto, TypeOK, Same
<1>3. CASE Lock(t)
  BY <1>3 DEF Lock, Goto, TypeOK, Same
<1>4. CASE ReadCount(t)
  BY <1>4 DEF ReadCount, Return, Goto, TypeOK, Same
<1>5. CASE ReadHead(t)
  BY <1>5 DEF ReadHead, Goto, TypeOK, Same
<1>6. CASE Found(t)
  BY <1>6 DEF Found, Unlock, Return, Goto, TypeOK, Same
<1>7. CASE Advance(t)
  BY <1>7 DEF Advance, TypeOK, Same
<1>8. CASE Missed(t)
  BY <1>8 DEF Missed, AfterMiss, Unlock, Return, Goto, TypeOK, Same
<1>9. CASE Initialize(t)
  BY <1>9 DEF Initialize, Goto, TypeOK, Same
<1>10. CASE Link(t)
  BY <1>10 DEF Link, TypeOK, Same
<1>11. CASE Linked(t)
  BY <1>11 DEF Linked, Unlock, Return, Goto, TypeOK, Same
<1> QED
  BY <1>1, <1>2, <1>3, <1>4, <1>5, <1>6, <1>7, <1>8, <1>9, <1>10, <1>11 DEF Step

\* The steps that leave the list alone: all but the stores and what they need.
Calm == kinds' = kinds /\ UNCHANGED <<head, tail, count, type, next, previous, aux, todo>>

LEMMA CalmSteps ==
  ASSUME NEW t \in Threads,
         \/ Call(t) \/ NoMemory(t) \/ Lock(t) \/ ReadCount(t) \/ ReadHead(t) \/ Found(t)
         \/ Advance(t) \/ Missed(t) \/ Linked(t)
  PROVE  Calm
  BY DEF Call, NoMemory, Lock, ReadCount, ReadHead, Found, Advance, Missed, Linked, Calm, memory, aux

\* The types of what a calm step changes.
LEMMA CalmTypes ==
  ASSUME TypeOK, Calm, lock' \in Threads \cup {NULL},
         calls' \in [Threads -> 0 .. MaxCalls],
         pc' \in [Threads -> {"idle", "lock", "count", "head", "walk", "initialize", "link"}],
         op' \in [Threads -> Operations], node' \in [Threads -> Nodes \cup {NULL}],
         counter' \in [Threads -> Word], base' \in [Threads -> Seq(Nodes)],
         ret' \in [Threads -> [ok : BOOLEAN, node : Nodes \cup {NULL}]]
  PROVE  TypeOK'
  BY DEF TypeOK, Calm, aux

Places == {"idle", "lock", "count", "head", "walk", "initialize", "link"}
Results == [ok : BOOLEAN, node : Nodes \cup {NULL}]

LEMMA GotoTypes ==
  ASSUME TypeOK, NEW t \in Threads, NEW where \in Places, Goto(t, where)
  PROVE  pc' \in [Threads -> Places] /\ pc'[t] = where
  BY DEF Goto, TypeOK, Places

LEMMA ReturnTypes ==
  ASSUME TypeOK, NEW t \in Threads, NEW ok \in BOOLEAN, NEW n \in Nodes \cup {NULL}, Return(t, ok, n)
  PROVE  /\ pc' \in [Threads -> Places] /\ ret' \in [Threads -> Results]
         /\ pc'[t] = "idle" /\ ret'[t] = [ok |-> ok, node |-> n]
  BY DEF Return, Goto, TypeOK, Places, Results

LEMMA TypeStep ==
  ASSUME LockInv, NEW t \in Threads, Call(t) \/ Step(t)
  PROVE  TypeOK'
<1> USE DEF LockInv
<1>0. TypeOK
  OBVIOUS
<1>1. CASE Call(t)
  <2>1. calls[t] + 1 \in 0 .. MaxCalls
    BY <1>1, MaxCallsAssumption DEF Call, TypeOK
  <2>2. calls' \in [Threads -> 0 .. MaxCalls]
    BY <1>1, <2>1 DEF Call, TypeOK
  <2>3. PICK o \in Operations : op' = [op EXCEPT ![t] = o] /\
          Goto(t, IF o.kind \in ByOffset THEN "count" ELSE IF o.kind \in Readers THEN "head" ELSE "lock")
    BY <1>1 DEF Call
  <2>4. op' \in [Threads -> Operations]
        /\ pc' \in [Threads -> {"idle", "lock", "count", "head", "walk", "initialize", "link"}]
    BY <2>3 DEF Goto, TypeOK
  <2>5. UNCHANGED <<lock, node, counter, base, ret>> /\ Calm
    BY <1>1, CalmSteps DEF Call, memory
  <2> QED
    BY <2>2, <2>4, <2>5, CalmTypes DEF TypeOK
<1>2. CASE NoMemory(t)
  <2>1. Calm /\ UNCHANGED <<lock, calls, op, node, counter, base>>
    BY <1>2, CalmSteps DEF NoMemory, memory
  <2> QED
    BY <1>2, <2>1, CalmTypes DEF NoMemory, Return, Goto, TypeOK
<1>3. CASE Lock(t)
  <2>1. Calm
    BY <1>3, CalmSteps
  <2> QED
    BY <1>3, <2>1, CalmTypes DEF Lock, Goto, TypeOK
<1>4. CASE ReadCount(t)
  <2>1. Calm /\ UNCHANGED <<lock, calls, op, node, counter, base>>
    BY <1>4, CalmSteps DEF ReadCount, memory
  <2>2. Return(t, FALSE, NULL) \/ (Goto(t, "head") /\ ret' = ret)
    BY <1>4 DEF ReadCount
  <2>3. pc' \in [Threads -> Places] /\ ret' \in [Threads -> Results]
    <3>1. CASE Return(t, FALSE, NULL)
      BY <3>1, ReturnTypes
    <3>2. CASE Goto(t, "head") /\ ret' = ret
      BY <3>2, GotoTypes DEF TypeOK, Results, Places
    <3> QED
      BY <2>2, <3>1, <3>2
  <2> QED
    BY <2>1, <2>3, CalmTypes DEF TypeOK, Places, Results
<1>5. CASE ReadHead(t)
  <2>1. Calm /\ UNCHANGED <<lock, calls, op, ret>>
    BY <1>5, CalmSteps DEF ReadHead, memory
  <2>2. 0 \in Word
    BY StartType
  <2> QED
    BY <1>5, <2>1, <2>2, CalmTypes DEF ReadHead, Goto, TypeOK
<1>6. CASE Found(t)
  <2>1. Calm
    BY <1>6, CalmSteps
  <2>2. node[t] \in Nodes \cup {NULL} /\ lock' \in {lock, NULL}
        /\ (Return(t, TRUE, node[t]) \/ Return(t, FALSE, NULL))
    BY <1>6 DEF Found, Unlock, TypeOK
  <2>3. pc' \in [Threads -> Places] /\ ret' \in [Threads -> Results]
    BY <2>2, ReturnTypes
  <2> QED
    BY <1>6, <2>1, <2>2, <2>3, CalmTypes DEF Found, TypeOK, Places, Results
<1>7. CASE Advance(t)
  <2>1. Calm /\ UNCHANGED <<lock, calls, pc, op, base, ret>>
    BY <1>7, CalmSteps DEF Advance, memory
  <2>2. counter[t] \in Nat
    BY WordMaxAssumption DEF TypeOK, Word
  <2>3. (counter[t] + 1) % (WordMax + 1) \in Word
    BY <2>2, WrapBound
  <2>4. node[t] \in Nodes /\ next[node[t]] \in Nodes \cup {NULL}
    BY <1>7 DEF Advance, TypeOK
  <2> QED
    BY <1>7, <2>1, <2>3, <2>4, CalmTypes DEF Advance, TypeOK
<1>8. CASE Missed(t)
  <2>1. Calm
    BY <1>8, CalmSteps
  <2>2. lock' \in {lock, NULL} /\ (Return(t, FALSE, NULL) \/ (Goto(t, "initialize") /\ ret' = ret))
    BY <1>8 DEF Missed, AfterMiss, Unlock
  <2>3. pc' \in [Threads -> Places] /\ ret' \in [Threads -> Results]
    <3>1. CASE Return(t, FALSE, NULL)
      BY <3>1, ReturnTypes
    <3>2. CASE Goto(t, "initialize") /\ ret' = ret
      BY <3>2, GotoTypes DEF TypeOK, Results, Places
    <3> QED
      BY <2>2, <3>1, <3>2
  <2> QED
    BY <1>8, <2>1, <2>2, <2>3, CalmTypes DEF Missed, TypeOK, Places, Results
<1>9. CASE Initialize(t)
  <2>1. New(t) \in Nodes
    BY <1>9, NewIsNode DEF Initialize
  <2>2. head \in Nodes \cup {NULL} /\ tail \in Nodes \cup {NULL}
    BY DEF TypeOK
  <2>3. AddStores(New(t)) \in Seq(Stores) /\ InjectStores(New(t)) \in Seq(Stores)
    BY <2>1, <2>2, AddShape, InjectShape
  <2>4. op[t].type \in Types
    BY DEF TypeOK, Operations, Operation
  <2> QED
    BY <1>9, <2>1, <2>3, <2>4 DEF Initialize, Goto, TypeOK, aux
<1>10. CASE Link(t)
  <2>1. New(t) \in Nodes
    BY <1>10, NewIsNode DEF Link
  <2>2. todo[t] \in Seq(Stores) /\ todo[t] # <<>>
    BY <1>10 DEF TypeOK, Link
  <2>3. Visible(t) \subseteq DOMAIN todo[t]
    BY <2>2, RemoveFirstIsTail DEF Visible
  <2>4. PICK k \in Visible(t) :
          LET s == todo[t][k] IN
          /\ head' = IF s.var = "head" THEN s.val ELSE head
          /\ tail' = IF s.var = "tail" THEN s.val ELSE tail
          /\ count' = IF s.var = "count" THEN Incremented ELSE count
          /\ next' = IF s.var = "next" THEN [next EXCEPT ![s.at] = s.val] ELSE next
          /\ previous' = IF s.var = "previous" THEN [previous EXCEPT ![s.at] = s.val] ELSE previous
          /\ todo' = [todo EXCEPT ![t] = RemoveAt(@, k)]
          /\ IF Publishes(s, New(t))
               THEN /\ list' = IF op[t].kind \in Adders THEN Append(list, New(t)) ELSE <<New(t)>> \o list
                    /\ vetted' = IF op[t].kind \in Checked THEN vetted \cup {New(t)} ELSE vetted
               ELSE UNCHANGED aux
    BY <1>10 DEF Link
  <2> DEFINE s == todo[t][k]
  <2>5. s.at \in Nodes \cup {NULL} /\ s.val \in Nodes \cup {NULL} /\ RemoveAt(todo[t], k) \in Seq(Stores)
    <3>1. k \in DOMAIN todo[t] /\ s \in Stores
      BY <2>2, <2>3
    <3> QED
      BY <2>2, <3>1, RemoveKeepsType DEF Stores
  <2> HIDE DEF s
  <2>6. count \in Nat /\ Incremented \in Word
    <3>1. count \in Nat
      BY WordMaxAssumption DEF TypeOK, Word
    <3> QED
      BY <3>1, WrapBound DEF Incremented
  <2>7. list' \in Seq(Nodes) /\ vetted' \subseteq Nodes
    <3>1. list \in Seq(Nodes) /\ vetted \subseteq Nodes
      BY DEF TypeOK
    <3>2. Append(list, New(t)) \in Seq(Nodes) /\ <<New(t)>> \o list \in Seq(Nodes)
      BY <2>1, <3>1, AppendParts, ConsParts
    <3> QED
      BY <2>1, <2>4, <3>1, <3>2 DEF aux
  <2>8. {head', tail'} \subseteq Nodes \cup {NULL} /\ count' \in Word
    BY <2>4, <2>5, <2>6 DEF TypeOK, s
  <2>9. next' \in [Nodes -> Nodes \cup {NULL}] /\ previous' \in [Nodes -> Nodes \cup {NULL}]
    BY <2>4, <2>5 DEF TypeOK, s
  <2>10. todo' \in [Threads -> Seq(Stores)]
    BY <2>4, <2>5 DEF TypeOK
  <2> QED
    BY <1>10, <2>7, <2>8, <2>9, <2>10 DEF Link, TypeOK
<1>11. CASE Linked(t)
  <2>1. Calm
    BY <1>11, CalmSteps
  <2>2. New(t) \in Nodes
    BY <1>11, NewIsNode DEF Linked
  <2> QED
    BY <1>11, <2>1, <2>2, CalmTypes DEF Linked, Unlock, Return, Goto, TypeOK
<1> QED
  BY <1>1, <1>2, <1>3, <1>4, <1>5, <1>6, <1>7, <1>8, <1>9, <1>10, <1>11 DEF Step

\* A call searches, or links a node, or does one after the other.
LEMMA KindSets ==
  ASSUME NEW k
  PROVE  /\ k \in Checked => k \in Adders \cup Injectors
         /\ k \in Adders \cup Injectors => k \notin Readers
         /\ k \in Adders => k \notin Injectors
         /\ k \in ByOffset => k \in Readers
         /\ k \in ByPlace => k \in Readers
  BY DEF Checked, GetOr, Adders, Injectors, Readers, ByOffset, ByPlace

LEMMA OpKind ==
  ASSUME TypeOK, NEW t \in Threads
  PROVE  /\ op[t].kind \in Adders \cup Injectors \cup Readers /\ op[t].type \in Types
         /\ op[t].offset \in Word /\ (op[t].kind \notin ByOffset => op[t].offset = 0)
  BY DEF TypeOK, Operations, Operation

\* The three ways in which a step of t can concern the lock.
Turn(t) ==
    \/ lock' = lock /\ (Holds(t)' <=> Holds(t))
    \/ Holds(t) /\ lock' = NULL /\ ~Holds(t)'
    \/ lock = NULL /\ lock' = t /\ Holds(t)'

LEMMA TurnStep ==
  ASSUME LockInv, NEW t \in Threads, Call(t) \/ Step(t)
  PROVE  Turn(t)
<1> USE DEF LockInv
<1>0. pc \in [Threads -> Places] /\ op \in [Threads -> Operations] /\ op[t].kind \in Adders \cup Injectors \cup Readers
  BY OpKind DEF TypeOK, Places
<1>1. CASE Call(t)
  <2>1. PICK o \in Operations : op' = [op EXCEPT ![t] = o] /\
          Goto(t, IF o.kind \in ByOffset THEN "count" ELSE IF o.kind \in Readers THEN "head" ELSE "lock")
    BY <1>1 DEF Call
  <2>2. op'[t] = o /\ pc'[t] \in {"count", "head", "lock"} /\ (pc'[t] = "head" => o.kind \in Readers)
    BY <1>0, <2>1 DEF Goto
  <2>3. pc[t] = "idle" /\ lock' = lock
    BY <1>1 DEF Call, memory
  <2>4. o.kind \in Readers => o.kind \notin Checked
    BY KindSets
  <2> QED
    BY ONLY <2>2, <2>3, <2>4 DEF Turn, Holds
<1>2. CASE NoMemory(t)
  BY <1>0, <1>2 DEF NoMemory, Return, Goto, Turn, Holds, memory
<1>3. CASE Lock(t)
  <2>1. lock = NULL /\ lock' = t /\ op' = op /\ pc'[t] \in {"head", "initialize"}
        /\ (pc'[t] = "head" => op[t].kind \in Checked)
    BY <1>0, <1>3 DEF Lock, Goto
  <2> QED
    BY ONLY <2>1 DEF Turn, Holds
<1>4. CASE ReadCount(t)
  <2>1. pc[t] = "count" /\ lock' = lock /\ op' = op /\ pc'[t] \in {"idle", "head"}
    BY <1>0, <1>4 DEF ReadCount, Return, Goto, memory
  <2>2. op[t].kind \notin Checked
    BY <2>1, KindSets DEF Kinds
  <2> QED
    BY ONLY <2>1, <2>2 DEF Turn, Holds
<1>5. CASE ReadHead(t)
  BY <1>0, <1>5 DEF ReadHead, Goto, Turn, Holds, memory
<1>6. CASE Found(t)
  <2>1. pc[t] = "walk" /\ op' = op /\ pc'[t] = "idle"
    BY <1>0, <1>6 DEF Found, Unlock, Return, Goto
  <2>2. IF op[t].kind \in Readers THEN lock' = lock ELSE lock' = NULL
    BY <1>6, KindSets DEF Found, Unlock, GetOr, Readers, ByOffset
  <2>3. op[t].kind \in Readers \cup Checked /\ (op[t].kind \in Readers => op[t].kind \notin Checked)
    BY <2>1, KindSets DEF Kinds
  <2> QED
    BY ONLY <2>1, <2>2, <2>3 DEF Turn, Holds
<1>7. CASE Advance(t)
  BY <1>7 DEF Advance, Turn, Holds, memory
<1>8. CASE Missed(t)
  <2>1. pc[t] = "walk" /\ op' = op /\ pc'[t] \in {"idle", "initialize"}
        /\ IF op[t].kind \in Readers THEN pc'[t] = "idle" /\ lock' = lock
           ELSE (pc'[t] = "initialize" /\ lock' = lock) \/ (pc'[t] = "idle" /\ lock' = NULL)
    BY <1>0, <1>8 DEF Missed, AfterMiss, Unlock, Return, Goto
  <2>2. op[t].kind \in Readers \cup Checked /\ (op[t].kind \in Readers => op[t].kind \notin Checked)
    BY <2>1, KindSets DEF Kinds
  <2> QED
    BY ONLY <2>1, <2>2 DEF Turn, Holds
<1>9. CASE Initialize(t)
  BY <1>0, <1>9 DEF Initialize, Goto, Turn, Holds
<1>10. CASE Link(t)
  BY <1>10 DEF Link, Turn, Holds
<1>11. CASE Linked(t)
  BY <1>0, <1>11 DEF Linked, Unlock, Return, Goto, Turn, Holds
<1> QED
  BY <1>1, <1>2, <1>3, <1>4, <1>5, <1>6, <1>7, <1>8, <1>9, <1>10, <1>11 DEF Step

LEMMA LockedStep ==
  ASSUME LockInv, NEW t \in Threads, Call(t) \/ Step(t)
  PROVE  LockHeldInCall'
<1> SUFFICES ASSUME NEW u \in Threads PROVE (lock = u <=> Holds(u))'
  BY DEF LockHeldInCall
<1>1. Turn(t) /\ (lock = t <=> Holds(t)) /\ (lock = u <=> Holds(u)) /\ u # NULL /\ t # NULL
  BY TurnStep, NullApart DEF LockInv, LockHeldInCall
<1>2. CASE u = t
  BY <1>1, <1>2 DEF Turn
<1>3. CASE u # t
  <2>1. Holds(u)' <=> Holds(u)
    BY <1>3, Frame DEF LockInv, Same, Holds
  <2> QED
    BY <1>1, <1>3, <2>1 DEF Turn
<1> QED
  BY <1>2, <1>3

LEMMA KindsStep ==
  ASSUME LockInv, NEW t \in Threads, Call(t) \/ Step(t)
  PROVE  Kinds'
<1> USE DEF LockInv
<1> DEFINE Place(u) ==
        /\ pc[u] # "idle" => calls[u] # 0
        /\ pc[u] = "count" => op[u].kind \in ByOffset
        /\ pc[u] = "lock" => op[u].kind \notin Readers
        /\ pc[u] \in {"head", "walk"} => op[u].kind \in Readers \cup Checked
        /\ pc[u] \in {"initialize", "link"} => op[u].kind \in Adders \cup Injectors
<1>0. pc \in [Threads -> Places] /\ op \in [Threads -> Operations] /\ op[t].kind \in Adders \cup Injectors \cup Readers
      /\ calls[t] \in Nat /\ Place(t)
  BY OpKind, MaxCallsAssumption DEF TypeOK, Places, Kinds
<1>1. Place(t)'
  <2>1. CASE Call(t)
    <3>1. PICK o \in Operations : op' = [op EXCEPT ![t] = o] /\
            Goto(t, IF o.kind \in ByOffset THEN "count" ELSE IF o.kind \in Readers THEN "head" ELSE "lock")
      BY <2>1 DEF Call
    <3>2. /\ op'[t] = o /\ pc'[t] \in {"count", "head", "lock"}
          /\ (pc'[t] = "head" => o.kind \in Readers) /\ (pc'[t] = "count" => o.kind \in ByOffset)
          /\ (pc'[t] = "lock" => o.kind \notin Readers)
      BY <1>0, <3>1 DEF Goto
    <3>3. calls'[t] = calls[t] + 1
      BY <2>1 DEF Call, TypeOK
    <3> QED
      BY <1>0, <3>2, <3>3
  <2>2. CASE NoMemory(t)
    BY <1>0, <2>2 DEF NoMemory, Return, Goto
  <2>3. CASE Lock(t)
    <3>1. /\ pc[t] = "lock" /\ op' = op /\ calls' = calls
          /\ pc'[t] = IF op[t].kind \in Checked THEN "head" ELSE "initialize"
      BY <1>0, <2>3 DEF Lock, Goto
    <3> QED
      BY <1>0, <3>1
  <2>4. CASE ReadCount(t)
    <3>1. pc[t] = "count" /\ op' = op /\ calls' = calls /\ pc'[t] \in {"idle", "head"}
      BY <1>0, <2>4 DEF ReadCount, Return, Goto
    <3>2. op[t].kind \in ByOffset => op[t].kind \in Readers
      BY KindSets
    <3> QED
      BY <1>0, <3>1, <3>2
  <2>5. CASE ReadHead(t)
    BY <1>0, <2>5 DEF ReadHead, Goto
  <2>6. CASE Found(t)
    <3>1. pc'[t] = "idle"
      BY <1>0, <2>6 DEF Found, Unlock, Return, Goto
    <3> QED
      BY <3>1
  <2>7. CASE Advance(t)
    BY <1>0, <2>7 DEF Advance
  <2>8. CASE Missed(t)
    <3>1. /\ pc[t] = "walk" /\ op' = op /\ calls' = calls
          /\ pc'[t] = "idle" \/ (pc'[t] = "initialize" /\ op[t].kind \notin Readers)
      BY <1>0, <2>8 DEF Missed, AfterMiss, Unlock, Return, Goto
    <3> QED
      BY <1>0, <3>1
  <2>9. CASE Initialize(t)
    BY <1>0, <2>9 DEF Initialize, Goto
  <2>10. CASE Link(t)
    BY <1>0, <2>10 DEF Link
  <2>11. CASE Linked(t)
    <3>1. pc'[t] = "idle"
      BY <1>0, <2>11 DEF Linked, Unlock, Return, Goto
    <3> QED
      BY <3>1
  <2> QED
    BY <2>1, <2>2, <2>3, <2>4, <2>5, <2>6, <2>7, <2>8, <2>9, <2>10, <2>11 DEF Step
<1>2. ASSUME NEW u \in Threads, u # t PROVE Place(u)'
  BY <1>2, Frame DEF Same, Kinds
<1> QED
  BY <1>1, <1>2 DEF Kinds

LEMMA LockStep ==
  ASSUME LockInv, [Next]_vars
  PROVE  LockInv'
<1>1. CASE Next
  BY <1>1, TypeStep, LockedStep, KindsStep DEF Next, LockInv
<1>2. CASE UNCHANGED vars
  <2>1. TypeOK'
    BY <1>2 DEF LockInv, TypeOK, vars, memory, aux
  <2>2. LockHeldInCall' /\ Kinds'
    BY <1>2 DEF LockInv, LockHeldInCall, Holds, Kinds, vars, memory
  <2> QED
    BY <2>1, <2>2 DEF LockInv
<1> QED
  BY <1>1, <1>2

THEOREM LockInvariance == Spec => []LockInv
  BY InitLock, LockStep, PTL DEF Spec

\* The state of the calls is well-typed, for any number of threads and calls
\* and also when stores become visible out of order.
THEOREM TypeCorrect == Spec => []TypeOK
<1>1. LockInv => TypeOK
  BY DEF LockInv
<1> QED
  BY <1>1, LockInvariance, PTL

\* Exactly the call between lock and unlock owns the lock of the list: no path
\* through a call forgets the unlock or works without the lock.
THEOREM LockIsHeld == Spec => []LockHeldInCall
<1>1. LockInv => LockHeldInCall
  BY DEF LockInv
<1> QED
  BY <1>1, LockInvariance, PTL

-----------------------------------------------------------------------------
(* How the list grows *)

LEMMA ListFacts ==
  ASSUME TypeOK
  PROVE  /\ list \in Seq(Nodes) /\ Len(list) \in Nat /\ DOMAIN list = 1 .. Len(list)
         /\ list = <<>> <=> Len(list) = 0
         /\ \A k \in DOMAIN list : list[k] \in Nodes
  BY DEF TypeOK

\* list' is the list with a node n that was not there.
Joins(n) == ~InList(n) /\ (list' = Append(list, n) \/ list' = <<n>> \o list)
Grows(n) == list' = list \/ Joins(n)

LEMMA Growth ==
  ASSUME TypeOK, NEW n \in Nodes, Grows(n)
  PROVE  /\ \A m : InList(m) => InList(m)'
         /\ \A m : InList(m)' => InList(m) \/ m = n
         /\ Len(list) <= Len(list') /\ Len(list') \in Nat
         /\ \A b \in Seq(Nodes) : Part(b) => Part(b)'
<1>0. list \in Seq(Nodes) /\ Len(list) \in Nat /\ DOMAIN list = 1 .. Len(list)
  BY ListFacts
<1>1. CASE list' = list
  <2>1. \A m : InList(m)' <=> InList(m)
    BY <1>1 DEF InList
  <2>2. \A b \in Seq(Nodes) : Part(b) => Part(b)'
    BY <1>1 DEF Part
  <2> QED
    BY <1>0, <1>1, <2>1, <2>2
<1>2. CASE list' = Append(list, n)
  <2>1. /\ DOMAIN list' = 1 .. Len(list) + 1 /\ Len(list') = Len(list) + 1
        /\ list'[Len(list) + 1] = n /\ \A i \in 1 .. Len(list) : list'[i] = list[i]
    BY <1>0, <1>2, AppendParts
  <2>2. \A m : InList(m) => InList(m)'
    BY <1>0, <2>1 DEF InList
  <2>3. \A m : InList(m)' => InList(m) \/ m = n
    BY <1>0, <2>1 DEF InList
  <2>4. ASSUME NEW b \in Seq(Nodes), Part(b) PROVE Part(b)'
    <3>1. PICK d \in Nat : \A k \in DOMAIN b : k + d \in DOMAIN list /\ list[k + d] = b[k]
      BY <2>4 DEF Part
    <3>2. ASSUME NEW k \in DOMAIN b PROVE k + d \in DOMAIN list' /\ list'[k + d] = b[k]
      <4>1. k + d \in 1 .. Len(list) /\ list[k + d] = b[k]
        BY <1>0, <3>1, <3>2
      <4> QED
        BY <1>0, <2>1, <4>1
    <3> QED
      BY <3>2 DEF Part
  <2> QED
    BY <1>0, <2>1, <2>2, <2>3, <2>4
<1>3. CASE list' = <<n>> \o list
  <2>1. /\ DOMAIN list' = 1 .. Len(list) + 1 /\ Len(list') = Len(list) + 1
        /\ list'[1] = n /\ \A i \in 1 .. Len(list) : list'[i + 1] = list[i]
    BY <1>0, <1>3, ConsParts
  <2>2. ASSUME NEW m, InList(m) PROVE InList(m)'
    <3>1. PICK i \in 1 .. Len(list) : list[i] = m
      BY <1>0, <2>2 DEF InList
    <3>2. i + 1 \in DOMAIN list' /\ list'[i + 1] = m
      BY <1>0, <2>1, <3>1
    <3> QED
      BY <3>2 DEF InList
  <2>3. ASSUME NEW m, InList(m)' PROVE InList(m) \/ m = n
    <3>1. PICK i \in 1 .. Len(list) + 1 : list'[i] = m
      BY <2>1, <2>3 DEF InList
    <3>2. CASE i = 1
      BY <2>1, <3>1, <3>2
    <3>3. CASE i # 1
      <4>1. i - 1 \in 1 .. Len(list) /\ (i - 1) + 1 = i
        BY <1>0, <3>3
      <4>2. list[i - 1] = m
        BY <2>1, <3>1, <4>1
      <4> QED
        BY <1>0, <4>1, <4>2 DEF InList
    <3> QED
      BY <3>2, <3>3
  <2>4. ASSUME NEW b \in Seq(Nodes), Part(b) PROVE Part(b)'
    <3>1. PICK d \in Nat : \A k \in DOMAIN b : k + d \in DOMAIN list /\ list[k + d] = b[k]
      BY <2>4 DEF Part
    <3>2. ASSUME NEW k \in DOMAIN b PROVE k + (d + 1) \in DOMAIN list' /\ list'[k + (d + 1)] = b[k]
      <4>1. k + d \in 1 .. Len(list) /\ list[k + d] = b[k]
        BY <1>0, <3>1, <3>2
      <4>2. k \in Nat
        BY <3>2, LenProperties
      <4>3. k + (d + 1) = (k + d) + 1 /\ (k + d) + 1 \in DOMAIN list'
        BY <1>0, <2>1, <4>1, <4>2
      <4>4. list'[(k + d) + 1] = list[k + d]
        BY <2>1, <4>1
      <4> QED
        BY <4>1, <4>3, <4>4
    <3>3. d + 1 \in Nat
      OBVIOUS
    <3> QED
      BY <3>2, <3>3 DEF Part
  <2> QED
    BY <1>0, <2>1, <2>2, <2>3, <2>4
<1> QED
  BY <1>1, <1>2, <1>3 DEF Grows, Joins

\* Two calls never have stores to make.
LEMMA OneOwner ==
  ASSUME LockInv, NEW t \in Threads, NEW u \in Threads, u # t, Holds(t)
  PROVE  ~Holds(u)
  BY DEF LockInv, LockHeldInCall

-----------------------------------------------------------------------------
(* The list while nothing is stored *)

LEMMA CalmPlaces ==
  ASSUME LockInv, NEW t \in Threads,
         \/ Call(t) \/ NoMemory(t) \/ Lock(t) \/ ReadCount(t) \/ ReadHead(t) \/ Found(t)
         \/ Advance(t) \/ Missed(t) \/ Linked(t)
  PROVE  /\ pc'[t] # "link" /\ (pc[t] = "link" => Linked(t))
         /\ pc[t] \in {"idle", "link"} /\ calls'[t] = calls[t] => pc'[t] = "idle"
         /\ calls'[t] = calls[t] \/ (pc[t] = "idle" /\ calls'[t] = calls[t] + 1)
         /\ pc'[t] = "walk" => op' = op /\ (ReadHead(t) \/ (pc[t] = "walk" /\ base' = base))
         /\ pc'[t] = "initialize" => op' = op /\ (op[t].kind \notin Checked \/ Missed(t))
<1>0. pc \in [Threads -> Places] /\ calls \in [Threads -> 0 .. MaxCalls]
  BY DEF LockInv, TypeOK, Places
<1>1. CASE Call(t)
  <2>1. pc[t] = "idle" /\ pc'[t] \in {"count", "head", "lock"} /\ calls'[t] = calls[t] + 1
    BY <1>0, <1>1 DEF Call, Goto
  <2>2. calls[t] + 1 # calls[t]
    BY <1>0, MaxCallsAssumption
  <2> QED
    BY <2>1, <2>2
<1>2. CASE NoMemory(t)
  BY <1>0, <1>2 DEF NoMemory, Return, Goto
<1>3. CASE Lock(t)
  BY <1>0, <1>3 DEF Lock, Goto
<1>4. CASE ReadCount(t)
  <2>1. pc[t] = "count" /\ pc'[t] \in {"idle", "head"} /\ calls' = calls
    BY <1>0, <1>4 DEF ReadCount, Return, Goto
  <2> QED
    BY <2>1
<1>5. CASE ReadHead(t)
  BY <1>0, <1>5 DEF ReadHead, Goto
<1>6. CASE Found(t)
  <2>1. pc[t] = "walk" /\ pc'[t] = "idle" /\ calls' = calls
    BY <1>0, <1>6 DEF Found, Unlock, Return, Goto
  <2> QED
    BY <2>1
<1>7. CASE Advance(t)
  BY <1>7 DEF Advance
<1>8. CASE Missed(t)
  <2>1. pc[t] = "walk" /\ pc'[t] \in {"idle", "initialize"} /\ calls' = calls /\ op' = op
    BY <1>0, <1>8 DEF Missed, AfterMiss, Unlock, Return, Goto
  <2> QED
    BY <1>8, <2>1
<1>9. CASE Linked(t)
  BY <1>0, <1>9 DEF Linked, Unlock, Return, Goto
<1> QED
  BY <1>1, <1>2, <1>3, <1>4, <1>5, <1>6, <1>7, <1>8, <1>9

\* What a checking call did not find is not there.
LEMMA NotFound ==
  ASSUME LockInv, ListInv, ReadInv, NEW t \in Threads, Missed(t), op[t].kind \in Checked
  PROVE  \A k \in DOMAIN list : type[list[k]] # op[t].type
<1>1. pc[t] = "walk" /\ node[t] = NULL /\ base[t] = list /\ op[t].kind \notin ByPlace
  BY KindSets DEF Missed, ListInv, Vetting
<1>2. \A k \in DOMAIN list : list[k] # NULL
  BY ListFacts, NullApart DEF LockInv
<1>3. NoneBefore(t, Len(base[t]) + 1)
  BY <1>1, <1>2 DEF ReadInv, Searching
<1>4. Len(list) \in Nat /\ DOMAIN list = 1 .. Len(list)
  BY ListFacts DEF LockInv
<1> QED
  BY <1>1, <1>3, <1>4 DEF NoneBefore

LEMMA CalmList ==
  ASSUME IInv, NEW t \in Threads, LockInv',
         \/ Call(t) \/ NoMemory(t) \/ Lock(t) \/ ReadCount(t) \/ ReadHead(t) \/ Found(t)
         \/ Advance(t) \/ Missed(t) \/ Linked(t)
  PROVE  ListInv'
<1>0. /\ LockInv /\ ListInv /\ ReadInv /\ TypeOK /\ (Call(t) \/ Step(t))
      /\ UNCHANGED <<head, tail, count, type, next, previous, list, vetted, todo>>
  BY CalmSteps DEF IInv, LockInv, Step, Calm, aux
<1>1. ForwardChain' /\ Distinct' /\ Vetted' /\ TypesUnique'
  BY <1>0 DEF ListInv, ForwardChain, Distinct, Vetted, TypesUnique, InList
<1>2. \A m : InList(m)' <=> InList(m)
  BY <1>0 DEF InList
<1>p. /\ pc'[t] # "link" /\ (pc[t] = "link" => Linked(t))
      /\ pc[t] \in {"idle", "link"} /\ calls'[t] = calls[t] => pc'[t] = "idle"
      /\ calls'[t] = calls[t] \/ (pc[t] = "idle" /\ calls'[t] = calls[t] + 1)
      /\ pc'[t] = "walk" => op' = op /\ (ReadHead(t) \/ (pc[t] = "walk" /\ base' = base))
      /\ pc'[t] = "initialize" => op' = op /\ (op[t].kind \notin Checked \/ Missed(t))
  BY <1>0, CalmPlaces
<1>3. Absent'
  <2> SUFFICES ASSUME NEW u \in Threads, NEW k \in 1 .. MaxCalls, InList(<<u, k>>)'
               PROVE  (k < calls[u] \/ (k = calls[u] /\ pc[u] \in {"idle", "link"}))'
    BY DEF Absent
  <2>1. k < calls[u] \/ (k = calls[u] /\ pc[u] \in {"idle", "link"})
    BY <1>0, <1>2 DEF ListInv, Absent
  <2>2. CASE u # t
    BY <1>0, <2>1, <2>2, Frame DEF Same
  <2>3. CASE u = t
    <3>1. calls[t] \in Nat /\ k \in Nat
      BY <1>0, MaxCallsAssumption DEF TypeOK
    <3> QED
      BY <1>p, <2>1, <2>3, <3>1
  <2> QED
    BY <2>2, <2>3
<1>4. Quiet'
  <2> SUFFICES ASSUME \A u \in Threads : pc'[u] # "link" PROVE Settled
    BY <1>0 DEF Quiet, Settled, TailRight, PreviousRight, CountRight
  <2>1. CASE pc[t] = "link"
    <3>1. todo[t] = <<>> /\ Stage(t)
      BY <1>0, <1>p, <2>1 DEF Linked, ListInv, Linking
    <3>2. \A a, b, c, d : <<a, b, c, d>> # <<>> /\ <<a, b, c>> # <<>> /\ <<a, b>> # <<>> /\ <<a>> # <<>>
      BY TailOf
    <3> QED
      BY <3>1, <3>2 DEF Stage, ToAdd, ToInject, InPlace
  <2>2. CASE pc[t] # "link"
    <3>1. \A u \in Threads : u # t => pc[u] # "link"
      BY <1>0, Frame DEF Same
    <3> QED
      BY <1>0, <2>2, <3>1 DEF ListInv, Quiet
  <2> QED
    BY <2>1, <2>2
<1>5. Linking'
  <2> SUFFICES ASSUME NEW u \in Threads, pc'[u] = "link"
               PROVE  Stage(u)' /\ type'[New(u)'] = op'[u].type
    BY DEF Linking
  <2>1. u # t
    BY <1>p
  <2>2. Same(u)
    BY <1>0, <2>1, Frame
  <2>3. New(u)' = New(u)
    BY <2>2 DEF Same, New
  <2>4. pc[u] = "link" /\ Stage(u) /\ type[New(u)] = op[u].type
    BY <1>0, <2>2 DEF Same, ListInv, Linking
  <2>5. Stage(u)'
    <3> DEFINE n == New(u)
               s == todo[u]
    <3>1. n' = n /\ s' = s /\ (InList(n)' <=> InList(n)) /\ op'[u] = op[u]
      BY <1>2, <2>2, <2>3 DEF Same
    <3> HIDE DEF n, s
    <3>2. /\ (Settled' <=> Settled) /\ (TailRight' <=> TailRight) /\ (PreviousRight' <=> PreviousRight)
          /\ (CountRight' <=> CountRight) /\ (CountBefore' <=> CountBefore)
      BY <1>0 DEF Settled, TailRight, PreviousRight, CountRight, CountBefore
    <3>3. (ToAdd(n, s) => ToAdd(n, s)') /\ (ToInject(n, s) => ToInject(n, s)') /\ (InPlace(n, s) => InPlace(n, s)')
      BY <1>0, <3>1, <3>2 DEF ToAdd, ToInject, InPlace, AddingFirst, AddingLast, InjectingFirst, InjectingFront, Linkable
    <3> QED
      BY <2>4, <3>1, <3>3 DEF Stage, n, s
  <2> QED
    BY <1>0, <2>2, <2>3, <2>4, <2>5 DEF Same
<1>6. Vetting'
  <2> SUFFICES ASSUME NEW u \in Threads, op'[u].kind \in Checked
               PROVE  /\ pc'[u] = "walk" => base'[u] = list
                      /\ pc'[u] = "initialize" \/ (pc'[u] = "link" /\ ~InList(New(u))') =>
                           \A k \in DOMAIN list : type[list[k]] # op'[u].type
    BY <1>0 DEF Vetting
  <2>1. op[u].kind \in Checked =>
          /\ pc[u] = "walk" => base[u] = list
          /\ pc[u] = "initialize" \/ (pc[u] = "link" /\ ~InList(New(u))) =>
               \A k \in DOMAIN list : type[list[k]] # op[u].type
    BY <1>0 DEF ListInv, Vetting
  <2>2. CASE u # t
    <3>1. Same(u)
      BY <1>0, <2>2, Frame
    <3>2. New(u)' = New(u)
      BY <3>1 DEF Same, New
    <3> QED
      BY <1>2, <2>1, <3>1, <3>2 DEF Same
  <2>3. CASE u = t
    <3>1. ASSUME pc'[t] = "walk" PROVE base'[t] = list
      <4>1. CASE ReadHead(t)
        BY <1>0, <4>1 DEF ReadHead, TypeOK
      <4>2. CASE pc[t] = "walk" /\ base' = base /\ op' = op
        BY <2>1, <2>3, <4>2
      <4> QED
        BY <1>p, <3>1, <4>1, <4>2
    <3>2. ASSUME pc'[t] = "initialize" PROVE \A k \in DOMAIN list : type[list[k]] # op'[t].type
      <4>1. op' = op /\ Missed(t) /\ op[t].kind \in Checked
        BY <1>p, <2>3, <3>2
      <4> QED
        BY <1>0, <4>1, NotFound
    <3> QED
      BY <1>p, <2>3, <3>1, <3>2
  <2> QED
    BY <2>2, <2>3
<1> QED
  BY <1>1, <1>3, <1>4, <1>5, <1>6 DEF ListInv

-----------------------------------------------------------------------------
(* The node of a call *)

LEMMA InitializeList ==
  ASSUME IInv, NEW t \in Threads, LockInv', Initialize(t)
  PROVE  ListInv'
<1>n. PICK n : n = New(t)
  OBVIOUS
<1>0. LockInv /\ ListInv /\ TypeOK /\ (Call(t) \/ Step(t)) /\ pc[t] = "initialize"
  BY DEF IInv, LockInv, Step, Initialize
<1>1. n \in Nodes /\ New(t)' = n
  BY <1>n, <1>0, NewIsNode DEF Initialize, New
<1>2. /\ UNCHANGED <<head, tail, count, list, vetted, op, calls, base>>
      /\ type' = [type EXCEPT ![n] = op[t].type]
      /\ next' = [next EXCEPT ![n] = NULL] /\ previous' = [previous EXCEPT ![n] = NULL]
      /\ todo' = [todo EXCEPT ![t] = IF op[t].kind \in Adders THEN AddStores(n) ELSE InjectStores(n)]
      /\ pc' = [pc EXCEPT ![t] = "link"]
  BY <1>n DEF Initialize, Goto, aux
<1>3. ~InList(n)
  <2>1. calls[t] \in 1 .. MaxCalls /\ n = <<t, calls[t]>>
    BY <1>n, <1>0, NewIsNode DEF New
  <2>2. ~(calls[t] < calls[t])
    BY <2>1, MaxCallsAssumption
  <2> QED
    BY <1>0, <2>1, <2>2 DEF ListInv, Absent
<1>4. \A m : InList(m)' <=> InList(m)
  BY <1>2 DEF InList
<1>l. list \in Seq(Nodes) /\ Len(list) \in Nat /\ DOMAIN list = 1 .. Len(list)
      /\ (list = <<>> <=> Len(list) = 0) /\ \A k \in DOMAIN list : list[k] \in Nodes
  BY <1>0, ListFacts
<1>5. \A k \in DOMAIN list : /\ list[k] # n /\ next'[list[k]] = next[list[k]]
                             /\ previous'[list[k]] = previous[list[k]] /\ type'[list[k]] = type[list[k]]
  BY <1>0, <1>2, <1>3, <1>l DEF InList, TypeOK
<1>6. next'[n] = NULL /\ previous'[n] = NULL /\ type'[n] = op[t].type /\ pc'[t] = "link"
  BY <1>0, <1>1, <1>2 DEF TypeOK
<1>7. \A u \in Threads : u # t => ~Holds(u) /\ Same(u)
  BY <1>0, OneOwner, Frame DEF Holds
<1>8. Settled /\ ForwardChain
  BY <1>0, <1>7 DEF ListInv, Quiet, Holds
<1>9. ForwardChain'
  BY <1>2, <1>5, <1>8 DEF ForwardChain
<1>10. Settled'
  <2>1. TailRight' /\ CountRight'
    BY <1>2, <1>8 DEF Settled, TailRight, CountRight
  <2>2. PreviousRight'
    BY <1>2, <1>5, <1>8 DEF Settled, PreviousRight
  <2> QED
    BY <2>1, <2>2 DEF Settled
<1>11. Distinct' /\ Vetted' /\ TypesUnique'
  <2>1. Distinct' /\ Vetted'
    BY <1>0, <1>2, <1>4 DEF ListInv, Distinct, Vetted
  <2>2. TypesUnique'
    BY <1>0, <1>2, <1>5 DEF ListInv, TypesUnique
  <2> QED
    BY <2>1, <2>2
<1>12. Absent'
  <2>1. \A u \in Threads : pc[u] \in {"idle", "link"} => pc'[u] \in {"idle", "link"}
    BY <1>0, <1>2 DEF TypeOK
  <2> QED
    BY <1>0, <1>2, <1>4, <2>1 DEF ListInv, Absent
<1>13. Quiet'
  BY <1>6 DEF Quiet
<1>14. Stage(t)'
  <2>s. PICK s : s = todo'[t]
    OBVIOUS
  <2>1. s = IF op[t].kind \in Adders THEN AddStores(n) ELSE InjectStores(n)
    BY <1>0, <1>2, <2>s DEF TypeOK
  <2>2. head \in Nodes \cup {NULL} /\ tail \in Nodes \cup {NULL}
    BY <1>0 DEF TypeOK
  <2>3. IF list = <<>> THEN head = NULL /\ tail = NULL ELSE head \in Nodes /\ tail \in Nodes
    BY <1>8, <1>l DEF ForwardChain, Settled, TailRight
  <2>4. Linkable(n)'
    BY <1>1, <1>3, <1>4, <1>10 DEF Linkable, Settled
  <2>5. CASE op[t].kind \in Adders
    <3>1. ToAdd(n, s)'
      <4>1. CASE list = <<>>
        <5>1. s = <<HeadIs(n), PreviousIs(n, NULL), TailIs(n), Counts>>
          BY <1>1, <2>1, <2>2, <2>3, <2>5, <4>1, AddShape
        <5> QED
          BY <1>1, <1>2, <1>6, <1>10, <2>4, <4>1, <5>1 DEF ToAdd, AddingFirst
      <4>2. CASE list # <<>>
        <5>1. s = <<PreviousIs(n, tail), NextIs(tail, n), TailIs(n), Counts>>
          BY <1>1, <2>1, <2>2, <2>3, <2>5, <4>2, AddShape, NullApart
        <5> QED
          BY <1>1, <1>2, <1>6, <1>10, <2>4, <4>2, <5>1 DEF ToAdd, AddingLast
      <4> QED
        BY <4>1, <4>2
    <3> QED
      BY <1>1, <1>2, <2>5, <2>s, <3>1 DEF Stage
  <2>6. CASE op[t].kind \notin Adders
    <3>0. op[t].kind \in Injectors
      BY <1>0, <2>6 DEF LockInv, Kinds
    <3>1. ToInject(n, s)'
      <4>1. CASE list = <<>>
        <5>1. s = <<TailIs(n), NextIs(n, NULL), HeadIs(n), Counts>>
          BY <1>1, <2>1, <2>2, <2>3, <2>6, <4>1, InjectShape
        <5> QED
          BY <1>1, <1>2, <1>6, <2>3, <2>4, <4>1, <5>1 DEF ToInject, InjectingFirst
      <4>2. CASE list # <<>>
        <5>1. s = <<NextIs(n, head), PreviousIs(head, n), HeadIs(n), Counts>>
          BY <1>1, <2>1, <2>2, <2>3, <2>6, <4>2, InjectShape, NullApart
        <5> QED
          BY <1>1, <1>2, <1>6, <1>10, <2>4, <4>2, <5>1 DEF ToInject, InjectingFront, Settled
      <4> QED
        BY <4>1, <4>2
    <3> QED
      BY <1>1, <1>2, <2>s, <3>0, <3>1 DEF Stage
  <2> QED
    BY <2>5, <2>6
<1>15. Linking'
  <2> SUFFICES ASSUME NEW u \in Threads, pc'[u] = "link"
               PROVE  Stage(u)' /\ type'[New(u)'] = op'[u].type
    BY DEF Linking
  <2>1. u = t
    BY <1>7 DEF Holds, Same
  <2> QED
    BY <1>1, <1>2, <1>6, <1>14, <2>1
<1>16. Vetting'
  <2> SUFFICES ASSUME NEW u \in Threads, op'[u].kind \in Checked
               PROVE  /\ pc'[u] = "walk" => base'[u] = list
                      /\ pc'[u] = "initialize" \/ (pc'[u] = "link" /\ ~InList(New(u))') =>
                           \A k \in DOMAIN list : type'[list[k]] # op'[u].type
    BY <1>2 DEF Vetting
  <2>1. CASE u # t
    BY <1>2, <1>7, <2>1 DEF Holds, Same
  <2>2. CASE u = t
    <3>1. \A k \in DOMAIN list : type[list[k]] # op[t].type
      BY <1>0, <1>2, <2>2 DEF ListInv, Vetting
    <3> QED
      BY <1>2, <1>5, <1>6, <2>2, <3>1
  <2> QED
    BY <2>1, <2>2
<1> QED
  BY <1>9, <1>11, <1>12, <1>13, <1>15, <1>16 DEF ListInv

-----------------------------------------------------------------------------
(* The stores, one by one *)

\* What becomes reachable.
Joined(t) ==
    /\ Joins(New(t)) 
    /\ list' = IF op[t].kind \in Adders THEN Append(list, New(t)) ELSE <<New(t)>> \o list
    /\ vetted' = IF op[t].kind \in Checked THEN vetted \cup {New(t)} ELSE vetted

LEMMA StoreEffect ==
  ASSUME LockInv, ~Reorder, NEW t \in Threads, Link(t), NEW s, NEW r, todo[t][1] = s, Tail(todo[t]) = r
  PROVE  /\ todo'[t] = r
         /\ head' = IF s.var = "head" THEN s.val ELSE head
         /\ tail' = IF s.var = "tail" THEN s.val ELSE tail
         /\ count' = IF s.var = "count" THEN Incremented ELSE count
         /\ next' = IF s.var = "next" THEN [next EXCEPT ![s.at] = s.val] ELSE next
         /\ previous' = IF s.var = "previous" THEN [previous EXCEPT ![s.at] = s.val] ELSE previous
         /\ IF Publishes(s, New(t))
              THEN /\ list' = IF op[t].kind \in Adders THEN Append(list, New(t)) ELSE <<New(t)>> \o list
                   /\ vetted' = IF op[t].kind \in Checked THEN vetted \cup {New(t)} ELSE vetted
              ELSE list' = list /\ vetted' = vetted
<1>1. todo[t] \in Seq(Stores) /\ todo[t] # <<>> /\ todo \in [Threads -> Seq(Stores)]
  BY DEF LockInv, TypeOK, Link
<1>2. RemoveAt(todo[t], 1) = r
  BY <1>1, RemoveFirstIsTail
<1>3. Visible(t) = {1}
  BY DEF Visible
<1>4. /\ head' = IF s.var = "head" THEN s.val ELSE head
      /\ tail' = IF s.var = "tail" THEN s.val ELSE tail
      /\ count' = IF s.var = "count" THEN Incremented ELSE count
      /\ next' = IF s.var = "next" THEN [next EXCEPT ![s.at] = s.val] ELSE next
      /\ previous' = IF s.var = "previous" THEN [previous EXCEPT ![s.at] = s.val] ELSE previous
      /\ todo' = [todo EXCEPT ![t] = RemoveAt(@, 1)]
      /\ IF Publishes(s, New(t))
           THEN /\ list' = IF op[t].kind \in Adders THEN Append(list, New(t)) ELSE <<New(t)>> \o list
                /\ vetted' = IF op[t].kind \in Checked THEN vetted \cup {New(t)} ELSE vetted
           ELSE UNCHANGED aux
  BY <1>3 DEF Link
<1> QED
  BY <1>1, <1>2, <1>4 DEF aux

LEMMA StoreHead ==
  ASSUME LockInv, ~Reorder, NEW t \in Threads, Link(t), NEW r, todo[t][1] = HeadIs(New(t)), Tail(todo[t]) = r,
         ~InList(New(t))
  PROVE  /\ todo'[t] = r /\ head' = New(t) /\ UNCHANGED <<tail, count, next, previous>>
         /\ Joined(t)
  BY StoreEffect DEF HeadIs, Publishes, Joined, Joins

LEMMA StoreTail ==
  ASSUME LockInv, ~Reorder, NEW t \in Threads, Link(t), NEW r, todo[t][1] = TailIs(New(t)), Tail(todo[t]) = r
  PROVE  todo'[t] = r /\ tail' = New(t) /\ UNCHANGED <<head, count, next, previous, list, vetted>>
<1> DEFINE s == TailIs(New(t))
<1>1. s.var = "tail" /\ s.at = NULL /\ s.val = New(t)
  BY DEF TailIs
<1>2. ~Publishes(s, New(t))
  BY <1>1 DEF Publishes
<1> HIDE DEF s
<1>3. todo[t][1] = s
  BY DEF s
<1> QED
  BY <1>1, <1>2, <1>3, StoreEffect

LEMMA StoreCount ==
  ASSUME LockInv, ~Reorder, NEW t \in Threads, Link(t), NEW r, todo[t][1] = Counts, Tail(todo[t]) = r
  PROVE  todo'[t] = r /\ count' = Incremented /\ UNCHANGED <<head, tail, next, previous, list, vetted>>
<1> DEFINE s == Counts
<1>1. s.var = "count" /\ s.at = NULL /\ s.val = NULL
  BY DEF Counts
<1>2. ~Publishes(s, New(t))
  BY <1>1 DEF Publishes
<1> HIDE DEF s
<1>3. todo[t][1] = s
  BY DEF s
<1> QED
  BY <1>1, <1>2, <1>3, StoreEffect

\* A link f of node m is v now.
Changed(f, g, m, v) == g[m] = v /\ \A x \in Nodes : x # m => g[x] = f[x]

LEMMA StorePrevious ==
  ASSUME LockInv, ~Reorder, NEW t \in Threads, Link(t), NEW r, NEW m \in Nodes, NEW v,
         todo[t][1] = PreviousIs(m, v), Tail(todo[t]) = r
  PROVE  /\ todo'[t] = r /\ Changed(previous, previous', m, v)
         /\ UNCHANGED <<head, tail, count, next, list, vetted>>
<1> DEFINE s == PreviousIs(m, v)
<1>1. s.var = "previous" /\ s.at = m /\ s.val = v
  BY DEF PreviousIs
<1>2. ~Publishes(s, New(t))
  BY <1>1 DEF Publishes
<1> HIDE DEF s
<1>3. todo[t][1] = s
  BY DEF s
<1>4. previous \in [Nodes -> Nodes \cup {NULL}] /\ next \in [Nodes -> Nodes \cup {NULL}] /\ New(t) \in Nodes
  BY NewIsNode DEF LockInv, TypeOK, Link
<1>5. /\ todo'[t] = r /\ previous' = [previous EXCEPT ![m] = v]
      /\ UNCHANGED <<head, tail, count, next, list, vetted>>
  BY <1>1, <1>2, <1>3, StoreEffect
<1> QED
  BY <1>4, <1>5 DEF Changed

LEMMA StoreOwnNext ==
  ASSUME LockInv, ~Reorder, NEW t \in Threads, Link(t), NEW r, NEW v,
         todo[t][1] = NextIs(New(t), v), Tail(todo[t]) = r
  PROVE  /\ todo'[t] = r /\ Changed(next, next', New(t), v)
         /\ UNCHANGED <<head, tail, count, previous, list, vetted>>
<1> DEFINE s == NextIs(New(t), v)
<1>1. s.var = "next" /\ s.at = New(t) /\ s.val = v
  BY DEF NextIs
<1>2. ~Publishes(s, New(t))
  BY <1>1 DEF Publishes
<1> HIDE DEF s
<1>3. todo[t][1] = s
  BY DEF s
<1>4. previous \in [Nodes -> Nodes \cup {NULL}] /\ next \in [Nodes -> Nodes \cup {NULL}] /\ New(t) \in Nodes
  BY NewIsNode DEF LockInv, TypeOK, Link
<1>5. /\ todo'[t] = r /\ next' = [next EXCEPT ![New(t)] = v]
      /\ UNCHANGED <<head, tail, count, previous, list, vetted>>
  BY <1>1, <1>2, <1>3, StoreEffect
<1> QED
  BY <1>4, <1>5 DEF Changed

LEMMA StoreNext ==
  ASSUME LockInv, ~Reorder, NEW t \in Threads, Link(t), NEW r, NEW m \in Nodes, m # New(t), ~InList(New(t)),
         todo[t][1] = NextIs(m, New(t)), Tail(todo[t]) = r
  PROVE  /\ todo'[t] = r /\ Changed(next, next', m, New(t))
         /\ UNCHANGED <<head, tail, count, previous>> /\ Joined(t)
<1>1. previous \in [Nodes -> Nodes \cup {NULL}] /\ next \in [Nodes -> Nodes \cup {NULL}] /\ New(t) \in Nodes
  BY NewIsNode DEF LockInv, TypeOK, Link
<1>2. /\ todo'[t] = r /\ next' = [next EXCEPT ![m] = New(t)]
      /\ UNCHANGED <<head, tail, count, previous>> /\ Joined(t)
  BY StoreEffect DEF NextIs, Publishes, Joined, Joins
<1> QED
  BY <1>1, <1>2 DEF Changed

\* What a store comes to: the call is at its next stage and readers are served.
Done(t) == ForwardChain' /\ Stage(t)' /\ ((list' = list /\ vetted' = vetted) \/ Joined(t))

LEMMA LinkContext ==
  ASSUME IInv, NEW t \in Threads, Link(t)
  PROVE  /\ LockInv /\ TypeOK /\ ForwardChain /\ Distinct /\ Stage(t)
         /\ New(t) \in Nodes /\ New(t)' = New(t) /\ New(t) # NULL
         /\ op' = op /\ pc' = pc /\ calls' = calls /\ type' = type /\ base' = base
         /\ node' = node /\ counter' = counter /\ ret' = ret /\ kinds' = kinds
         /\ pc[t] = "link" /\ todo[t] # <<>>
         /\ list \in Seq(Nodes) /\ Len(list) \in Nat /\ DOMAIN list = 1 .. Len(list)
         /\ (list = <<>> <=> Len(list) = 0) /\ (\A k \in DOMAIN list : list[k] \in Nodes)
         /\ next \in [Nodes -> Nodes \cup {NULL}] /\ previous \in [Nodes -> Nodes \cup {NULL}]
<1>1. LockInv /\ TypeOK /\ ListInv /\ pc[t] = "link" /\ todo[t] # <<>>
  BY DEF IInv, LockInv, Link
<1>2. New(t) \in Nodes
  BY <1>1, NewIsNode
<1>3. UNCHANGED <<kinds, type, calls, pc, op, node, counter, base, ret>>
  BY DEF Link
<1>4. New(t)' = New(t)
  BY <1>3 DEF New
<1>5. ForwardChain /\ Distinct /\ Stage(t)
  BY <1>1 DEF ListInv, Linking
<1>6. next \in [Nodes -> Nodes \cup {NULL}] /\ previous \in [Nodes -> Nodes \cup {NULL}]
  BY <1>1 DEF TypeOK
<1> QED
  BY <1>1, <1>2, <1>3, <1>4, <1>5, <1>6, ListFacts, NullApart

LEMMA NextStage ==
  ASSUME IInv, NEW t \in Threads, Link(t), NEW n, n = New(t), NEW s, s = todo'[t],
         \/ op[t].kind \in Adders /\ ToAdd(n, s)'
         \/ op[t].kind \in Injectors /\ ToInject(n, s)'
         \/ InList(n)' /\ InPlace(n, s)'
  PROVE  Stage(t)'
<1>1. New(t)' = n /\ op'[t].kind = op[t].kind
  BY LinkContext
<1> QED
  BY <1>1 DEF Stage

\* add to an empty list: the head comes first.
LEMMA AddHead ==
  ASSUME IInv, ~Reorder, NEW t \in Threads, Link(t), op[t].kind \in Adders, NEW n, n = New(t),
         AddingFirst(n), todo[t] = <<HeadIs(n), PreviousIs(n, NULL), TailIs(n), Counts>>
  PROVE  Done(t)
<1>1. todo[t][1] = HeadIs(n) /\ Tail(todo[t]) = <<PreviousIs(n, NULL), TailIs(n), Counts>>
  BY TailOf
<1>2. ~InList(n) /\ list = <<>> /\ next[n] = NULL /\ CountRight
  BY DEF AddingFirst, Linkable
<1>3. todo'[t] = <<PreviousIs(n, NULL), TailIs(n), Counts>> /\ head' = n
      /\ UNCHANGED <<tail, count, next, previous>> /\ Joined(t)
  BY <1>1, <1>2, LinkContext, StoreHead
<1>4. list' = <<n>> /\ Len(<<n>>) = 1 /\ <<n>>[1] = n /\ DOMAIN <<n>> = {1} /\ <<n>> # <<>>
  BY <1>2, <1>3, AppendOne DEF Joined
<1>5. ForwardChain'
  BY <1>2, <1>3, <1>4 DEF ForwardChain
<1>6. CountBefore'
  <2>1. Len(list) = 0 /\ Len(list') = 1 /\ list' # <<>>
    BY <1>2, <1>4
  <2>2. count' = 0 % (WordMax + 1)
    BY <1>2, <1>3, <2>1 DEF CountRight
  <2> QED
    BY <2>1, <2>2 DEF CountBefore
<1>7. InList(n)'
  BY <1>4 DEF InList
<1>s. PICK s : s = todo'[t]
  OBVIOUS
<1>8. InPlace(n, s)'
  BY <1>3, <1>4, <1>6, <1>s DEF InPlace
<1>9. Stage(t)'
  BY <1>7, <1>8, <1>s, NextStage
<1> QED
  BY <1>3, <1>5, <1>9 DEF Done

LEMMA AddPrevious ==
  ASSUME IInv, ~Reorder, NEW t \in Threads, Link(t), op[t].kind \in Adders, NEW n, n = New(t),
         AddingLast(n), todo[t] = <<PreviousIs(n, tail), NextIs(tail, n), TailIs(n), Counts>>
  PROVE  Done(t)
<1>1. todo[t][1] = PreviousIs(n, tail) /\ Tail(todo[t]) = <<NextIs(tail, n), TailIs(n), Counts>>
  BY TailOf
<1>2. ~InList(n) /\ list # <<>> /\ next[n] = NULL /\ Settled
  BY DEF AddingLast, Linkable
<1>3. todo'[t] = <<NextIs(tail, n), TailIs(n), Counts>> /\ Changed(previous, previous', n, tail)
      /\ UNCHANGED <<head, tail, count, next, list, vetted>>
  <2>1. LockInv
    BY DEF IInv
  <2>2. PICK r : r = Tail(todo[t])
    OBVIOUS
  <2>3. /\ todo'[t] = r /\ Changed(previous, previous', n, tail)
        /\ UNCHANGED <<head, tail, count, next, list, vetted>>
    BY <1>1, <2>1, <2>2, StorePrevious, LinkContext
  <2> QED
    BY <1>1, <2>2, <2>3
<1>4. \A k \in DOMAIN list : list[k] # n /\ previous'[list[k]] = previous[list[k]]
  BY <1>2, <1>3, LinkContext DEF InList, Changed
<1>5. Settled'
  <2>1. TailRight' /\ CountRight'
    BY <1>2, <1>3 DEF Settled, TailRight, CountRight
  <2>2. PreviousRight'
    BY <1>2, <1>3, <1>4 DEF Settled, PreviousRight
  <2> QED
    BY <2>1, <2>2 DEF Settled
<1>6. ForwardChain'
  BY <1>3, LinkContext DEF ForwardChain
<1>7. AddingLast(n)' /\ previous'[n] = tail
  <2>1. ~InList(n)'
    BY <1>2, <1>3 DEF InList
  <2>2. previous'[n] = tail
    BY <1>3 DEF Changed
  <2> QED
    BY <1>2, <1>3, <1>5, <2>1, <2>2 DEF AddingLast, Linkable, Settled
<1>s. PICK s : s = todo'[t]
  OBVIOUS
<1>8. ToAdd(n, s)'
  BY <1>3, <1>7, <1>s DEF ToAdd
<1>9. Stage(t)'
  BY <1>8, <1>s, NextStage
<1> QED
  BY <1>3, <1>6, <1>9 DEF Done

LEMMA AddNext ==
  ASSUME IInv, ~Reorder, NEW t \in Threads, Link(t), op[t].kind \in Adders, NEW n, n = New(t),
         AddingLast(n), previous[n] = tail, todo[t] = <<NextIs(tail, n), TailIs(n), Counts>>
  PROVE  Done(t)
<1>1. todo[t][1] = NextIs(tail, n) /\ Tail(todo[t]) = <<TailIs(n), Counts>>
  BY TailOf
<1>2. ~InList(n) /\ list # <<>> /\ next[n] = NULL /\ Settled /\ CountRight
  BY DEF AddingLast, Linkable
<1>c. list \in Seq(Nodes) /\ Len(list) \in Nat /\ DOMAIN list = 1 .. Len(list) /\ n \in Nodes /\ ForwardChain /\ Distinct
      /\ Len(list) # 0 /\ (\A k \in DOMAIN list : list[k] \in Nodes) /\ next \in [Nodes -> Nodes \cup {NULL}]
  BY <1>2, LinkContext
<1>3. tail = list[Len(list)] /\ Len(list) \in DOMAIN list /\ tail # n /\ tail \in Nodes
  BY <1>2, <1>c DEF Settled, TailRight, InList
<1>4. todo'[t] = <<TailIs(n), Counts>> /\ Changed(next, next', tail, n)
      /\ UNCHANGED <<head, tail, count, previous>> /\ Joined(t)
  BY <1>1, <1>2, <1>3, LinkContext, StoreNext
<1>5. /\ DOMAIN list' = 1 .. Len(list) + 1 /\ Len(list') = Len(list) + 1
      /\ list'[Len(list) + 1] = n /\ \A i \in 1 .. Len(list) : list'[i] = list[i]
      /\ list' # <<>>
  BY <1>4, <1>c, AppendParts DEF Joined
<1>6. \A k \in 1 .. Len(list) : list[k] # n /\ (k # Len(list) => list[k] # tail)
  BY <1>2, <1>3, <1>c DEF InList, Distinct
<1>7. ForwardChain'
  <2>1. head' = list'[1]
    BY <1>2, <1>4, <1>5, <1>c DEF ForwardChain
  <2>2. ASSUME NEW k \in 1 .. Len(list) + 1
        PROVE  next'[list'[k]] = IF k = Len(list) + 1 THEN NULL ELSE list'[k + 1]
    <3>1. CASE k = Len(list) + 1
      BY <1>2, <1>3, <1>4, <1>5, <1>c, <3>1 DEF Changed
    <3>2. CASE k = Len(list)
      BY <1>3, <1>4, <1>5, <1>c, <3>2 DEF Changed
    <3>3. CASE k # Len(list) /\ k # Len(list) + 1
      <4>1. k \in 1 .. Len(list) /\ k + 1 \in 1 .. Len(list) /\ k # Len(list)
        <5>1. Len(list) \in Nat /\ k \in 1 .. Len(list) + 1 /\ k # Len(list) /\ k # Len(list) + 1
          BY <1>c, <2>2, <3>3
        <5> QED
          BY ONLY <5>1
      <4>2. list'[k] = list[k] /\ list'[k + 1] = list[k + 1] /\ list[k] # tail /\ list[k] \in Nodes
        BY <1>5, <1>6, <1>c, <4>1
      <4>3. next[list[k]] = list[k + 1]
        BY <1>c, <4>1 DEF ForwardChain
      <4> QED
        BY <1>4, <1>c, <3>3, <4>2, <4>3 DEF Changed
    <3> QED
      BY <3>1, <3>2, <3>3
  <2> QED
    BY <1>5, <2>1, <2>2 DEF ForwardChain
<1>8. CountBefore'
  BY <1>2, <1>4, <1>5, <1>c DEF CountBefore, CountRight
<1>9. PreviousRight'
  <2> SUFFICES ASSUME NEW k \in 1 .. Len(list) + 1
               PROVE  previous[list'[k]] = IF k = 1 THEN NULL ELSE list'[k - 1]
    BY <1>4, <1>5 DEF PreviousRight
  <2>1. CASE k = Len(list) + 1
    <3>1. k # 1 /\ k - 1 = Len(list) /\ list'[k] = n /\ list'[Len(list)] = tail
      BY <1>3, <1>5, <1>c, <2>1
    <3> QED
      BY <3>1
  <2>2. CASE k # Len(list) + 1
    <3>1. k \in 1 .. Len(list) /\ (k # 1 => k - 1 \in 1 .. Len(list))
      BY <1>c, <2>2
    <3>2. list'[k] = list[k] /\ (k # 1 => list'[k - 1] = list[k - 1])
      BY <1>5, <3>1
    <3> QED
      BY <1>2, <1>c, <3>1, <3>2 DEF Settled, PreviousRight
  <2> QED
    BY <2>1, <2>2
<1>s. PICK s : s = todo'[t]
  OBVIOUS
<1>10. InPlace(n, s)'
  BY <1>3, <1>4, <1>5, <1>8, <1>9, <1>s DEF InPlace
<1>11. InList(n)'
  <2>1. Len(list) + 1 \in DOMAIN list'
    BY <1>5, <1>c
  <2> QED
    BY <1>5, <2>1 DEF InList
<1>12. Stage(t)'
  BY <1>10, <1>11, <1>s, NextStage
<1> QED
  BY <1>4, <1>7, <1>12 DEF Done

\* inject to an empty list: the tail comes first, the head makes the node
\* reachable.
LEMMA InjectTail ==
  ASSUME IInv, ~Reorder, NEW t \in Threads, Link(t), op[t].kind \in Injectors, NEW n, n = New(t),
         InjectingFirst(n), tail = NULL, todo[t] = <<TailIs(n), NextIs(n, NULL), HeadIs(n), Counts>>
  PROVE  Done(t)
<1>1. todo[t][1] = TailIs(n) /\ Tail(todo[t]) = <<NextIs(n, NULL), HeadIs(n), Counts>>
  BY TailOf
<1>2. todo'[t] = <<NextIs(n, NULL), HeadIs(n), Counts>> /\ tail' = n
      /\ UNCHANGED <<head, count, next, previous, list, vetted>>
  BY <1>1, LinkContext, StoreTail
<1>3. InjectingFirst(n)' /\ ForwardChain'
  BY <1>2, LinkContext DEF InjectingFirst, Linkable, InList, CountRight, ForwardChain
<1>s. PICK s : s = todo'[t]
  OBVIOUS
<1>4. ToInject(n, s)'
  BY <1>2, <1>3, <1>s DEF ToInject
<1>5. Stage(t)'
  BY <1>4, <1>s, NextStage
<1> QED
  BY <1>2, <1>3, <1>5 DEF Done

LEMMA InjectOwnNext ==
  ASSUME IInv, ~Reorder, NEW t \in Threads, Link(t), op[t].kind \in Injectors, NEW n, n = New(t),
         InjectingFirst(n), tail = n, todo[t] = <<NextIs(n, NULL), HeadIs(n), Counts>>
  PROVE  Done(t)
<1>1. todo[t][1] = NextIs(n, NULL) /\ Tail(todo[t]) = <<HeadIs(n), Counts>>
  BY TailOf
<1>2. todo'[t] = <<HeadIs(n), Counts>> /\ Changed(next, next', n, NULL)
      /\ UNCHANGED <<head, tail, count, previous, list, vetted>>
  BY <1>1, LinkContext, StoreOwnNext
<1>3. InjectingFirst(n)' /\ list = <<>>
  BY <1>2, LinkContext DEF InjectingFirst, Linkable, InList, CountRight, Changed
<1>4. ForwardChain'
  BY <1>2, <1>3, LinkContext DEF ForwardChain
<1>s. PICK s : s = todo'[t]
  OBVIOUS
<1>5. ToInject(n, s)'
  BY <1>2, <1>3, <1>s DEF ToInject
<1>6. Stage(t)'
  BY <1>5, <1>s, NextStage
<1> QED
  BY <1>2, <1>4, <1>6 DEF Done

LEMMA InjectFirstHead ==
  ASSUME IInv, ~Reorder, NEW t \in Threads, Link(t), op[t].kind \in Injectors, NEW n, n = New(t),
         InjectingFirst(n), tail = n, todo[t] = <<HeadIs(n), Counts>>
  PROVE  Done(t)
<1>1. todo[t][1] = HeadIs(n) /\ Tail(todo[t]) = <<Counts>>
  BY TailOf
<1>2. ~InList(n) /\ list = <<>> /\ next[n] = NULL /\ previous[n] = NULL /\ CountRight
  BY DEF InjectingFirst, Linkable
<1>3. todo'[t] = <<Counts>> /\ head' = n /\ UNCHANGED <<tail, count, next, previous>> /\ Joined(t)
  BY <1>1, <1>2, LinkContext, StoreHead
<1>4. list' = <<n>> /\ Len(<<n>>) = 1 /\ <<n>>[1] = n /\ DOMAIN <<n>> = {1} /\ <<n>> # <<>>
  <2>1. op[t].kind \notin Adders
    BY KindSets
  <2>2. list' = <<n>> \o <<>>
    BY <1>2, <1>3, <2>1 DEF Joined
  <2>3. <<n>> \in Seq({n})
    OBVIOUS
  <2>4. <<n>> \o <<>> = <<n>>
    BY <2>3, ConcatEmptySeq
  <2> QED
    BY <2>2, <2>4
<1>5. ForwardChain'
  BY <1>2, <1>3, <1>4 DEF ForwardChain
<1>6. CountBefore'
  <2>1. Len(list) = 0 /\ Len(list') = 1 /\ list' # <<>>
    BY <1>2, <1>4
  <2>2. count' = 0 % (WordMax + 1)
    BY <1>2, <1>3, <2>1 DEF CountRight
  <2> QED
    BY <2>1, <2>2 DEF CountBefore
<1>7. InList(n)' /\ TailRight' /\ PreviousRight'
  BY <1>2, <1>3, <1>4 DEF InList, TailRight, PreviousRight
<1>s. PICK s : s = todo'[t]
  OBVIOUS
<1>8. InPlace(n, s)'
  BY <1>3, <1>6, <1>7, <1>s DEF InPlace
<1>9. Stage(t)'
  BY <1>7, <1>8, <1>s, NextStage
<1> QED
  BY <1>3, <1>5, <1>9 DEF Done

\* inject before others.
LEMMA InjectNext ==
  ASSUME IInv, ~Reorder, NEW t \in Threads, Link(t), op[t].kind \in Injectors, NEW n, n = New(t),
         InjectingFront(n), PreviousRight, todo[t] = <<NextIs(n, head), PreviousIs(head, n), HeadIs(n), Counts>>
  PROVE  Done(t)
<1>1. todo[t][1] = NextIs(n, head) /\ Tail(todo[t]) = <<PreviousIs(head, n), HeadIs(n), Counts>>
  BY TailOf
<1>2. todo'[t] = <<PreviousIs(head, n), HeadIs(n), Counts>> /\ Changed(next, next', n, head)
      /\ UNCHANGED <<head, tail, count, previous, list, vetted>>
  BY <1>1, LinkContext, StoreOwnNext
<1>3. \A k \in DOMAIN list : list[k] # n /\ next'[list[k]] = next[list[k]]
  BY <1>2, LinkContext DEF InjectingFront, Linkable, InList, Changed
<1>4. ForwardChain'
  BY <1>2, <1>3, LinkContext DEF ForwardChain
<1>5. InjectingFront(n)' /\ PreviousRight' /\ next'[n] = head'
  BY <1>2 DEF InjectingFront, Linkable, InList, CountRight, TailRight, PreviousRight, Changed
<1>s. PICK s : s = todo'[t]
  OBVIOUS
<1>6. ToInject(n, s)'
  BY <1>2, <1>5, <1>s DEF ToInject
<1>7. Stage(t)'
  BY <1>6, <1>s, NextStage
<1> QED
  BY <1>2, <1>4, <1>7 DEF Done

LEMMA InjectPrevious ==
  ASSUME IInv, ~Reorder, NEW t \in Threads, Link(t), op[t].kind \in Injectors, NEW n, n = New(t),
         InjectingFront(n), PreviousRight, next[n] = head, todo[t] = <<PreviousIs(head, n), HeadIs(n), Counts>>
  PROVE  Done(t)
<1>1. todo[t][1] = PreviousIs(head, n) /\ Tail(todo[t]) = <<HeadIs(n), Counts>>
  BY TailOf
<1>2. ~InList(n) /\ list # <<>> /\ previous[n] = NULL
  BY DEF InjectingFront, Linkable
<1>3. head = list[1] /\ 1 \in DOMAIN list /\ head \in Nodes /\ head # n
  BY <1>2, LinkContext DEF ForwardChain, InList
<1>4. todo'[t] = <<HeadIs(n), Counts>> /\ Changed(previous, previous', head, n)
      /\ UNCHANGED <<head, tail, count, next, list, vetted>>
  BY <1>1, <1>3, LinkContext, StorePrevious
<1>5. \A k \in DOMAIN list : previous'[list[k]] = IF k = 1 THEN n ELSE list[k - 1]
  <2> SUFFICES ASSUME NEW k \in DOMAIN list PROVE previous'[list[k]] = IF k = 1 THEN n ELSE list[k - 1]
    OBVIOUS
  <2>1. CASE k = 1
    BY <1>3, <1>4, <2>1 DEF Changed
  <2>2. CASE k # 1
    <3>1. list[k] # head /\ list[k] \in Nodes
      BY <1>3, <2>2, LinkContext DEF Distinct
    <3> QED
      BY <1>4, <2>2, <3>1 DEF Changed, PreviousRight
  <2> QED
    BY <2>1, <2>2
<1>6. ForwardChain'
  BY <1>4, LinkContext DEF ForwardChain
<1>7. InjectingFront(n)' /\ next'[n] = head'
  <2>1. previous'[n] = previous[n]
    BY <1>3, <1>4, LinkContext DEF Changed
  <2> QED
    BY <1>4, <2>1 DEF InjectingFront, Linkable, InList, CountRight, TailRight
<1>s. PICK s : s = todo'[t]
  OBVIOUS
<1>8. ToInject(n, s)'
  BY <1>4, <1>5, <1>7, <1>s DEF ToInject
<1>9. Stage(t)'
  BY <1>8, <1>s, NextStage
<1> QED
  BY <1>4, <1>6, <1>9 DEF Done

LEMMA InjectHead ==
  ASSUME IInv, ~Reorder, NEW t \in Threads, Link(t), op[t].kind \in Injectors, NEW n, n = New(t),
         InjectingFront(n), next[n] = head, todo[t] = <<HeadIs(n), Counts>>,
         \A k \in DOMAIN list : previous[list[k]] = IF k = 1 THEN n ELSE list[k - 1]
  PROVE  Done(t)
<1>1. todo[t][1] = HeadIs(n) /\ Tail(todo[t]) = <<Counts>>
  BY TailOf
<1>2. ~InList(n) /\ list # <<>> /\ previous[n] = NULL /\ TailRight /\ CountRight
  BY DEF InjectingFront, Linkable
<1>3. todo'[t] = <<Counts>> /\ head' = n /\ UNCHANGED <<tail, count, next, previous>> /\ Joined(t)
  BY <1>1, <1>2, LinkContext, StoreHead
<1>c. list \in Seq(Nodes) /\ Len(list) \in Nat /\ DOMAIN list = 1 .. Len(list) /\ n \in Nodes /\ ForwardChain
      /\ Len(list) # 0
  BY <1>2, LinkContext
<1>4. /\ DOMAIN list' = 1 .. Len(list) + 1 /\ Len(list') = Len(list) + 1 /\ list' # <<>>
      /\ list'[1] = n /\ \A i \in 1 .. Len(list) : list'[i + 1] = list[i]
  <2>1. op[t].kind \notin Adders
    BY KindSets
  <2>2. list' = <<n>> \o list
    BY <1>3, <2>1 DEF Joined
  <2> QED
    BY <1>c, <2>2, ConsParts
<1>5. \A k \in 1 .. Len(list) + 1 : k # 1 =>
        k - 1 \in 1 .. Len(list) /\ list'[k] = list[k - 1] /\ (k # 2 => list'[k - 1] = list[k - 2])
  <2> SUFFICES ASSUME NEW k \in 1 .. Len(list) + 1, k # 1
               PROVE  k - 1 \in 1 .. Len(list) /\ list'[k] = list[k - 1] /\ (k # 2 => list'[k - 1] = list[k - 2])
    OBVIOUS
  <2>1. k - 1 \in 1 .. Len(list) /\ (k - 1) + 1 = k
    BY <1>c
  <2>2. k # 2 => k - 2 \in 1 .. Len(list) /\ (k - 2) + 1 = k - 1
    BY <1>c
  <2> QED
    BY <1>4, <2>1, <2>2
<1>6. ForwardChain'
  <2>1. ASSUME NEW k \in 1 .. Len(list) + 1
        PROVE  next[list'[k]] = IF k = Len(list) + 1 THEN NULL ELSE list'[k + 1]
    <3>1. CASE k = 1
      <4>1. 1 \in 1 .. Len(list) /\ 1 # Len(list) + 1
        BY <1>c
      <4>2. list'[1 + 1] = list[1] /\ head = list[1]
        BY <1>2, <1>4, <1>c, <4>1 DEF ForwardChain
      <4> QED
        BY <1>4, <3>1, <4>1, <4>2
    <3>2. CASE k # 1
      <4>1. k - 1 \in 1 .. Len(list) /\ list'[k] = list[k - 1]
        BY <1>5, <3>2
      <4>2. next[list[k - 1]] = IF k - 1 = Len(list) THEN NULL ELSE list[(k - 1) + 1]
        BY <1>c, <4>1 DEF ForwardChain
      <4>3. k # Len(list) + 1 => k \in 1 .. Len(list)
        BY <1>c
      <4>4. k # Len(list) + 1 => list'[k + 1] = list[k]
        BY <1>4, <4>3
      <4>5. (k - 1 = Len(list) <=> k = Len(list) + 1) /\ (k - 1) + 1 = k
        BY <1>c
      <4> QED
        BY <4>1, <4>2, <4>4, <4>5
    <3> QED
      BY <3>1, <3>2
  <2> QED
    BY <1>3, <1>4, <2>1 DEF ForwardChain
<1>7. CountBefore'
  BY <1>2, <1>3, <1>4, <1>c DEF CountBefore, CountRight
<1>8. TailRight'
  <2>1. Len(list) \in 1 .. Len(list)
    BY <1>c
  <2>2. tail = list[Len(list)] /\ list'[Len(list) + 1] = list[Len(list)]
    BY <1>2, <1>4, <2>1 DEF TailRight
  <2> QED
    BY <1>3, <1>4, <2>2 DEF TailRight
<1>9. PreviousRight'
  <2>1. ASSUME NEW k \in 1 .. Len(list) + 1
        PROVE  previous[list'[k]] = IF k = 1 THEN NULL ELSE list'[k - 1]
    <3>1. CASE k = 1
      BY <1>2, <1>4, <3>1
    <3>2. CASE k # 1
      <4>1. k - 1 \in 1 .. Len(list) /\ list'[k] = list[k - 1] /\ (k # 2 => list'[k - 1] = list[k - 2])
        BY <1>5, <3>2
      <4>2. previous[list[k - 1]] = IF k - 1 = 1 THEN n ELSE list[(k - 1) - 1]
        BY <1>c, <4>1
      <4>3. (k - 1 = 1 <=> k = 2) /\ (k - 1) - 1 = k - 2
        OBVIOUS
      <4>4. k = 2 => list'[k - 1] = n
        BY <1>4
      <4> QED
        BY <3>2, <4>1, <4>2, <4>3, <4>4
    <3> QED
      BY <3>1, <3>2
  <2> QED
    BY <1>3, <1>4, <2>1 DEF PreviousRight
<1>10. InList(n)'
  <2>1. 1 \in DOMAIN list'
    BY <1>4, <1>c
  <2> QED
    BY <1>4, <2>1 DEF InList
<1>s. PICK s : s = todo'[t]
  OBVIOUS
<1>11. InPlace(n, s)'
  BY <1>3, <1>7, <1>8, <1>9, <1>s DEF InPlace
<1>12. Stage(t)'
  BY <1>10, <1>11, <1>s, NextStage
<1> QED
  BY <1>3, <1>6, <1>12 DEF Done

\* Once the node is reachable.
LEMMA PlacePrevious ==
  ASSUME IInv, ~Reorder, NEW t \in Threads, Link(t), NEW n, n = New(t),
         list = <<n>>, CountBefore, todo[t] = <<PreviousIs(n, NULL), TailIs(n), Counts>>
  PROVE  Done(t)
<1>1. todo[t][1] = PreviousIs(n, NULL) /\ Tail(todo[t]) = <<TailIs(n), Counts>>
  BY TailOf
<1>2. todo'[t] = <<TailIs(n), Counts>> /\ Changed(previous, previous', n, NULL)
      /\ UNCHANGED <<head, tail, count, next, list, vetted>>
  BY <1>1, LinkContext, StorePrevious
<1>3. <<n>> # <<>> /\ Len(<<n>>) = 1 /\ <<n>>[1] = n /\ DOMAIN <<n>> = {1}
  OBVIOUS
<1>4. PreviousRight'
  BY <1>2, <1>3 DEF PreviousRight, Changed
<1>5. ForwardChain' /\ CountBefore' /\ InList(n)'
  BY <1>2, <1>3, LinkContext DEF ForwardChain, CountBefore, InList
<1>s. PICK s : s = todo'[t]
  OBVIOUS
<1>6. InPlace(n, s)'
  BY <1>2, <1>3, <1>4, <1>5, <1>s DEF InPlace
<1>7. Stage(t)'
  BY <1>5, <1>6, <1>s, NextStage
<1> QED
  BY <1>2, <1>5, <1>7 DEF Done

LEMMA PlaceTail ==
  ASSUME IInv, ~Reorder, NEW t \in Threads, Link(t), NEW n, n = New(t), InList(n),
         list # <<>>, list[Len(list)] = n, CountBefore, PreviousRight, todo[t] = <<TailIs(n), Counts>>
  PROVE  Done(t)
<1>1. todo[t][1] = TailIs(n) /\ Tail(todo[t]) = <<Counts>>
  BY TailOf
<1>2. todo'[t] = <<Counts>> /\ tail' = n /\ UNCHANGED <<head, count, next, previous, list, vetted>>
  BY <1>1, LinkContext, StoreTail
<1>3. ForwardChain' /\ CountBefore' /\ TailRight' /\ PreviousRight' /\ InList(n)'
  BY <1>2, LinkContext DEF ForwardChain, CountBefore, TailRight, PreviousRight, InList
<1>s. PICK s : s = todo'[t]
  OBVIOUS
<1>4. InPlace(n, s)'
  BY <1>2, <1>3, <1>s DEF InPlace
<1>5. Stage(t)'
  BY <1>3, <1>4, <1>s, NextStage
<1> QED
  BY <1>2, <1>3, <1>5 DEF Done

LEMMA PlaceCount ==
  ASSUME IInv, ~Reorder, NEW t \in Threads, Link(t), NEW n, n = New(t), InList(n),
         CountBefore, TailRight, PreviousRight, todo[t] = <<Counts>>
  PROVE  Done(t)
<1>1. todo[t][1] = Counts /\ Tail(todo[t]) = <<>>
  BY TailOf
<1>2. todo'[t] = <<>> /\ count' = Incremented /\ UNCHANGED <<head, tail, next, previous, list, vetted>>
  BY <1>1, LinkContext, StoreCount
<1>3. ForwardChain' /\ TailRight' /\ PreviousRight' /\ InList(n)'
  BY <1>2, LinkContext DEF ForwardChain, TailRight, PreviousRight, InList
<1>4. CountRight'
  <2> DEFINE a == Len(list) - 1
             m == WordMax + 1
  <2>1. a \in Nat /\ m \in Nat /\ m > 0 /\ a + 1 = Len(list)
    BY WordMaxAssumption, LinkContext DEF CountBefore
  <2>2. count = a % m /\ count' = (count + 1) % m
    BY <1>2 DEF CountBefore, Incremented
  <2> HIDE DEF a, m
  <2>3. ((a % m) + 1) % m = (a + 1) % m
    BY <2>1, WrapStep
  <2>4. count' = Len(list) % m
    BY ONLY <2>1, <2>2, <2>3
  <2> QED
    BY <1>2, <2>4 DEF CountRight, m
<1>s. PICK s : s = todo'[t]
  OBVIOUS
<1>5. InPlace(n, s)'
  BY <1>2, <1>3, <1>4, <1>s DEF InPlace, Settled
<1>6. Stage(t)'
  BY <1>3, <1>5, <1>s, NextStage
<1> QED
  BY <1>2, <1>3, <1>6 DEF Done

\* Every store does what the list needs.
LEMMA LinkDone ==
  ASSUME IInv, ~Reorder, NEW t \in Threads, Link(t)
  PROVE  Done(t)
<1>n. PICK n : n = New(t)
  OBVIOUS
<1>s. PICK s : s = todo[t]
  OBVIOUS
<1>0. \/ op[t].kind \in Adders /\ ToAdd(n, s)
      \/ op[t].kind \in Injectors /\ ToInject(n, s)
      \/ InList(n) /\ InPlace(n, s)
  BY <1>n, <1>s, LinkContext DEF Stage
<1>1. CASE op[t].kind \in Adders /\ ToAdd(n, s)
  BY <1>1, <1>n, <1>s, AddHead, AddPrevious, AddNext DEF ToAdd
<1>2. CASE op[t].kind \in Injectors /\ ToInject(n, s)
  BY <1>2, <1>n, <1>s, InjectTail, InjectOwnNext, InjectFirstHead, InjectNext, InjectPrevious, InjectHead
     DEF ToInject
<1>3. CASE InList(n) /\ InPlace(n, s)
  <2>1. s # <<>>
    BY <1>s, LinkContext
  <2> QED
    BY <1>3, <1>n, <1>s, <2>1, PlacePrevious, PlaceTail, PlaceCount DEF InPlace
<1> QED
  BY <1>0, <1>1, <1>2, <1>3

LEMMA LinkGrows ==
  ASSUME IInv, ~Reorder, NEW t \in Threads, Link(t)
  PROVE  Grows(New(t))
  BY LinkDone DEF Done, Joined, Grows

LEMMA LinkList ==
  ASSUME IInv, ~Reorder, NEW t \in Threads, Link(t)
  PROVE  ListInv'
<1>n. PICK n : n = New(t)
  OBVIOUS
<1>0. /\ LockInv /\ ListInv /\ TypeOK /\ (Call(t) \/ Step(t)) /\ pc[t] = "link" /\ n \in Nodes
      /\ UNCHANGED <<op, pc, calls, type, base>> /\ Holds(t)
  BY <1>n, LinkContext DEF IInv, Step, Holds
<1>1. Done(t) /\ Grows(n)
  BY <1>n, LinkDone, LinkGrows
<1>2. /\ \A m : InList(m) => InList(m)'
      /\ \A m : InList(m)' => InList(m) \/ m = n
  BY <1>0, <1>1, Growth
<1>l. list \in Seq(Nodes) /\ Len(list) \in Nat /\ DOMAIN list = 1 .. Len(list)
  BY <1>0, ListFacts
<1>3. \A u \in Threads : u # t => ~Holds(u) /\ Same(u)
  BY <1>0, OneOwner, Frame
<1>4. \A u \in Threads : New(u)' = New(u)
  BY <1>0 DEF New
\* Where a node of the list was before.
<1>5. ASSUME Joined(t) PROVE /\ ~InList(n) /\ \A k \in DOMAIN list' : list'[k] = n \/ InList(list'[k])
                             /\ \A k, l \in DOMAIN list' : list'[k] = list'[l] => k = l
  <2>1. ~InList(n) /\ (list' = Append(list, n) \/ list' = <<n>> \o list)
    BY <1>5, <1>n DEF Joined, Joins
  <2>2. CASE list' = Append(list, n)
    <3>1. /\ DOMAIN list' = 1 .. Len(list) + 1
          /\ list'[Len(list) + 1] = n /\ \A i \in 1 .. Len(list) : list'[i] = list[i]
      BY <1>0, <1>l, <2>2, AppendParts
    <3>2. \A k \in DOMAIN list' : k \in 1 .. Len(list) \/ k = Len(list) + 1
      BY <3>1, <1>l
    <3> QED
      BY <1>0, <1>l, <2>1, <3>1, <3>2 DEF InList, ListInv, Distinct
  <2>3. CASE list' = <<n>> \o list
    <3>1. /\ DOMAIN list' = 1 .. Len(list) + 1
          /\ list'[1] = n /\ \A i \in 1 .. Len(list) : list'[i + 1] = list[i]
      BY <1>0, <1>l, <2>3, ConsParts
    <3>2. \A k \in DOMAIN list' : k = 1 \/ (k - 1 \in 1 .. Len(list) /\ list'[k] = list[k - 1])
      <4> SUFFICES ASSUME NEW k \in DOMAIN list', k # 1 PROVE k - 1 \in 1 .. Len(list) /\ list'[k] = list[k - 1]
        OBVIOUS
      <4>1. k - 1 \in 1 .. Len(list) /\ (k - 1) + 1 = k
        BY <1>l, <3>1
      <4> QED
        BY <3>1, <4>1
    <3>3. \A k \in DOMAIN list' : k = 1 \/ InList(list'[k])
      BY <1>l, <3>2 DEF InList
    <3>4. ASSUME NEW k \in DOMAIN list', NEW l \in DOMAIN list', list'[k] = list'[l] PROVE k = l
      <4>1. CASE k = 1 \/ l = 1
        BY <2>1, <3>1, <3>3, <3>4, <4>1
      <4>2. CASE k # 1 /\ l # 1
        <5>1. k - 1 = l - 1
          BY <1>0, <1>l, <3>2, <3>4, <4>2 DEF ListInv, Distinct
        <5>2. k \in Int /\ l \in Int
          BY <3>1
        <5> QED
          BY <5>1, <5>2
      <4> QED
        BY <4>1, <4>2
    <3> QED
      BY <2>1, <3>1, <3>3, <3>4
  <2> QED
    BY <2>1, <2>2, <2>3
<1>6. ForwardChain'
  BY <1>1 DEF Done
<1>7. Distinct'
  <2>1. CASE list' = list
    BY <1>0, <2>1 DEF ListInv, Distinct
  <2>2. CASE Joined(t)
    BY <1>5, <2>2 DEF Distinct
  <2> QED
    BY <1>1, <2>1, <2>2 DEF Done
<1>8. Absent'
  <2> SUFFICES ASSUME NEW u \in Threads, NEW k \in 1 .. MaxCalls, InList(<<u, k>>)'
               PROVE  (k < calls[u] \/ (k = calls[u] /\ pc[u] \in {"idle", "link"}))'
    BY DEF Absent
  <2>1. CASE InList(<<u, k>>)
    BY <1>0, <2>1 DEF ListInv, Absent
  <2>2. CASE <<u, k>> = n
    BY <1>0, <1>n, <2>2 DEF New
  <2> QED
    BY <1>2, <2>1, <2>2
<1>9. Vetted'
  <2>1. CASE vetted' = vetted
    BY <1>0, <1>2, <2>1 DEF ListInv, Vetted
  <2>2. CASE Joined(t)
    <3>1. InList(n)'
      <4>1. list' = Append(list, n) \/ list' = <<n>> \o list
        BY <1>n, <2>2 DEF Joined
      <4>2. \E k \in DOMAIN list' : list'[k] = n
        <5>1. CASE list' = Append(list, n)
          <6>1. DOMAIN list' = 1 .. Len(list) + 1 /\ list'[Len(list) + 1] = n
            BY <1>0, <1>l, <5>1, AppendParts
          <6> QED
            BY <1>l, <6>1
        <5>2. CASE list' = <<n>> \o list
          <6>1. DOMAIN list' = 1 .. Len(list) + 1 /\ list'[1] = n
            BY <1>0, <1>l, <5>2, ConsParts
          <6> QED
            BY <1>l, <6>1
        <5> QED
          BY <4>1, <5>1, <5>2
      <4> QED
        BY <4>2 DEF InList
    <3>2. \A m \in vetted' : m \in vetted \/ m = n
      BY <1>n, <2>2 DEF Joined
    <3> QED
      BY <1>0, <1>2, <3>1, <3>2 DEF ListInv, Vetted
  <2> QED
    BY <1>1, <2>1, <2>2 DEF Done
<1>10. Quiet'
  BY <1>0 DEF Quiet
<1>11. Linking'
  <2> SUFFICES ASSUME NEW u \in Threads, pc'[u] = "link"
               PROVE  Stage(u)' /\ type'[New(u)'] = op'[u].type
    BY DEF Linking
  <2>1. u = t
    BY <1>3 DEF Holds, Same
  <2> QED
    BY <1>0, <1>1, <1>4, <2>1 DEF Done, ListInv, Linking
<1>12. TypesUnique'
  <2>1. CASE list' = list /\ vetted' = vetted
    BY <1>0, <2>1 DEF ListInv, TypesUnique
  <2>2. CASE Joined(t)
    <3>1. \A m \in vetted' : m \in vetted \/ (m = n /\ op[t].kind \in Checked)
      BY <1>n, <2>2 DEF Joined
    <3>2. type[n] = op[t].type
      BY <1>0, <1>n DEF ListInv, Linking
    <3>3. ASSUME op[t].kind \in Checked PROVE \A m : InList(m) => type[m] # type[n]
      <4>1. \A k \in DOMAIN list : type[list[k]] # op[t].type
        BY <1>0, <1>5, <1>n, <2>2, <3>3 DEF ListInv, Vetting
      <4> QED
        BY <3>2, <4>1 DEF InList
    <3>4. \A m \in vetted : InList(m) /\ m # n
      BY <1>0, <1>5, <2>2 DEF ListInv, Vetted
    <3>5. \A m, o \in vetted : type[m] = type[o] => m = o
      BY <1>0 DEF ListInv, Vetted, InList, TypesUnique
    <3>6. \A m, o \in vetted' : type[m] = type[o] => m = o
      BY <3>1, <3>3, <3>4, <3>5
    <3> QED
      BY <1>0, <1>5, <2>2, <3>6 DEF TypesUnique
  <2> QED
    BY <1>1, <2>1, <2>2 DEF Done
<1>13. Vetting'
  <2> SUFFICES ASSUME NEW u \in Threads, op'[u].kind \in Checked
               PROVE  /\ pc'[u] = "walk" => base'[u] = list'
                      /\ pc'[u] = "initialize" \/ (pc'[u] = "link" /\ ~InList(New(u))') =>
                           \A k \in DOMAIN list' : type'[list'[k]] # op'[u].type
    BY DEF Vetting
  <2>1. u = t \/ pc[u] \notin {"walk", "initialize", "link"}
    BY <1>0, <1>3 DEF Holds
  <2>2. ASSUME u = t, ~InList(n)' PROVE \A k \in DOMAIN list' : type[list'[k]] # op[t].type
    <3>1. ~InList(n)
      BY <1>2, <2>2
    <3>2. \A k \in DOMAIN list : type[list[k]] # op[t].type
      BY <1>0, <1>n, <2>2, <3>1 DEF ListInv, Vetting
    <3>3. \A k \in DOMAIN list' : InList(list'[k])
      BY <1>2, <2>2 DEF InList
    <3> QED
      BY <3>2, <3>3 DEF InList
  <2> QED
    BY <1>0, <1>4, <1>n, <2>1, <2>2
<1> QED
  BY <1>6, <1>7, <1>8, <1>9, <1>10, <1>11, <1>12, <1>13 DEF ListInv

-----------------------------------------------------------------------------
(* What a thread has read, thread by thread *)

BelowAt(u) == pc[u] = "head" /\ op[u].kind \in ByOffset => op[u].offset < Len(list)
WalkAt(u) ==
    pc[u] = "walk" /\ op[u].kind \in ByPlace =>
        /\ counter[u] <= op[u].offset
        /\ base[u] = <<>> => node[u] = NULL /\ op[u].kind \notin ByOffset
        /\ base[u] # <<>> => op[u].offset < Len(base[u]) /\ node[u] = base[u][counter[u] + 1]
SearchAt(u) ==
    pc[u] = "walk" /\ op[u].kind \notin ByPlace =>
        \/ \E k \in DOMAIN base[u] : node[u] = base[u][k] /\ NoneBefore(u, k)
        \/ (node[u] = NULL \/ InList(node[u])) /\ NoneBefore(u, Len(base[u]) + 1)
LastAt(u) == Returned(u) /\ op[u].kind = "get_by_type" /\ ret[u].ok => InList(ret[u].node)
AtOffset(u) ==
    Returned(u) /\ op[u].kind \in ByPlace /\ ret[u].ok => ret[u].node = base[u][op[u].offset + 1]
There(u) == {k \in DOMAIN base[u] : type[base[u][k]] = op[u].type}
ByType(u) ==
    Returned(u) /\ op[u].kind = "get_by_type" =>
        IF There(u) = {}
          THEN ret[u].ok => type[ret[u].node] = op[u].type
          ELSE ret[u].ok /\ \E k \in There(u) : ret[u].node = base[u][k] /\ \A l \in There(u) : k <= l

Reading(u) ==
    Part(base[u]) /\ BelowAt(u) /\ WalkAt(u) /\ SearchAt(u) /\ LastAt(u) /\ AtOffset(u) /\ ByType(u)

LEMMA ReadByThread == ReadInv <=> \A u \in Threads : Reading(u)
<1>1. Based <=> \A u \in Threads : Part(base[u])
  BY DEF Based
<1>2. BelowLength <=> \A u \in Threads : BelowAt(u)
  BY DEF BelowLength, BelowAt
<1>3. Walking <=> \A u \in Threads : WalkAt(u)
  BY DEF Walking, WalkAt
<1>4. Searching <=> \A u \in Threads : SearchAt(u)
  BY DEF Searching, SearchAt
<1>5. Lasting <=> \A u \in Threads : LastAt(u)
  BY DEF Lasting, LastAt
<1>6. FoundAtOffset <=> \A u \in Threads : AtOffset(u)
  BY DEF FoundAtOffset, AtOffset, ByPlace
<1>7. FoundByType <=> \A u \in Threads : ByType(u)
  BY DEF FoundByType, ByType, There
<1> QED
  BY <1>1, <1>2, <1>3, <1>4, <1>5, <1>6, <1>7 DEF ReadInv, Reading

\* Every step keeps the nodes of the list in it, in their order, with their types.
LEMMA Kept ==
  ASSUME IInv, ~Reorder, NEW t \in Threads, Call(t) \/ Step(t)
  PROVE  /\ \A m : InList(m) => InList(m)' /\ type'[m] = type[m]
         /\ Len(list) <= Len(list') /\ \A b \in Seq(Nodes) : Part(b) => Part(b)'
<1>0. LockInv /\ TypeOK /\ ListInv
  BY DEF IInv, LockInv
<1>l. Len(list) \in Nat /\ DOMAIN list = 1 .. Len(list) /\ \A k \in DOMAIN list : list[k] \in Nodes
  BY <1>0, ListFacts
<1>1. CASE list' = list /\ type' = type
  <2>1. \A m : InList(m)' <=> InList(m)
    BY <1>1 DEF InList
  <2>2. \A b \in Seq(Nodes) : Part(b) => Part(b)'
    BY <1>1 DEF Part
  <2> QED
    BY <1>1, <1>l, <2>1, <2>2
<1>2. CASE Initialize(t)
  <2>1. list' = list /\ type' = [type EXCEPT ![New(t)] = op[t].type]
    BY <1>2 DEF Initialize, aux
  <2>2. ~InList(New(t))
    <3>1. calls[t] \in 1 .. MaxCalls /\ New(t) = <<t, calls[t]>> /\ pc[t] = "initialize"
      BY <1>0, <1>2, NewIsNode DEF New, Initialize
    <3>2. ~(calls[t] < calls[t])
      BY <3>1, MaxCallsAssumption
    <3> QED
      BY <1>0, <3>1, <3>2 DEF ListInv, Absent
  <2>3. \A m : InList(m)' <=> InList(m)
    BY <2>1 DEF InList
  <2>4. \A m : InList(m) => type'[m] = type[m]
    <3>1. \A m : InList(m) => m \in Nodes
      BY <1>l DEF InList
    <3> QED
      BY <1>0, <2>1, <2>2, <3>1 DEF TypeOK
  <2>5. \A b \in Seq(Nodes) : Part(b) => Part(b)'
    BY <2>1 DEF Part
  <2> QED
    BY <1>l, <2>1, <2>3, <2>4, <2>5
<1>3. CASE Link(t)
  <2>1. Grows(New(t)) /\ type' = type /\ New(t) \in Nodes
    BY <1>3, LinkGrows, LinkContext
  <2> QED
    BY <1>0, <2>1, Growth
<1> QED
  <2>1. CASE Call(t) \/ NoMemory(t) \/ Lock(t) \/ ReadCount(t) \/ ReadHead(t) \/ Found(t)
             \/ Advance(t) \/ Missed(t) \/ Linked(t)
    BY <1>1, <2>1, CalmSteps DEF Calm, aux
  <2> QED
    BY <1>2, <1>3, <2>1 DEF Step

\* A part of the list is in the list.
LEMMA PartIn ==
  ASSUME TypeOK, NEW b \in Seq(Nodes), Part(b)
  PROVE  \A k \in DOMAIN b : InList(b[k]) /\ b[k] \in Nodes
<1>1. PICK d \in Nat : \A k \in DOMAIN b : k + d \in DOMAIN list /\ list[k + d] = b[k]
  BY DEF Part
<1> QED
  BY <1>1 DEF InList

LEMMA ReadOthers ==
  ASSUME IInv, ~Reorder, NEW t \in Threads, Call(t) \/ Step(t), NEW u \in Threads, u # t
  PROVE  Reading(u)'
<1>0. TypeOK /\ Reading(u) /\ base[u] \in Seq(Nodes) /\ Same(u)
  BY ReadByThread, Frame DEF IInv, LockInv, TypeOK
<1>1. \A m : InList(m) => InList(m)' /\ type'[m] = type[m]
  BY Kept
<1>2. Len(list) <= Len(list') /\ Part(base[u])'
  BY <1>0, Kept DEF Reading, Same
<1>3. \A k \in DOMAIN base[u] : InList(base[u][k]) /\ type'[base[u][k]] = type[base[u][k]]
  BY <1>0, <1>1, PartIn DEF Reading
<1>4. There(u)' = There(u)
  BY <1>0, <1>3 DEF There, Same
<1>5. BelowAt(u)'
  <2>1. Len(list) \in Nat /\ Len(list') \in Int /\ op[u].offset \in Int
    <3>1. list \in Seq(Nodes) /\ list' \in Seq(Nodes) /\ op[u].offset \in Word
      BY <1>0, OpKind, TypeStep DEF IInv, TypeOK
    <3> QED
      BY <3>1, WordMaxAssumption DEF Word
  <2> QED
    BY <1>0, <1>2, <2>1 DEF Reading, BelowAt, Same
<1>6. WalkAt(u)'
  BY <1>0 DEF Reading, WalkAt, Same
<1>7. \A k \in Nat : k <= Len(base[u]) + 1 => (NoneBefore(u, k)' <=> NoneBefore(u, k))
  <2> SUFFICES ASSUME NEW k \in Nat, k <= Len(base[u]) + 1
               PROVE  NoneBefore(u, k)' <=> NoneBefore(u, k)
    OBVIOUS
  <2>1. \A l \in 1 .. k - 1 : l \in DOMAIN base[u]
    BY <1>0
  <2> QED
    BY <1>0, <1>3, <2>1 DEF NoneBefore, Same
<1>8. SearchAt(u)'
  <2>1. DOMAIN base[u] = 1 .. Len(base[u]) /\ Len(base[u]) \in Nat
    BY <1>0
  <2>2. \A k \in DOMAIN base[u] : NoneBefore(u, k) => NoneBefore(u, k)'
    BY <1>7, <2>1
  <2>3. NoneBefore(u, Len(base[u]) + 1) => NoneBefore(u, Len(base[u]) + 1)'
    BY <1>0, <1>7, <2>1 DEF Same
  <2> QED
    BY <1>0, <1>1, <2>2, <2>3 DEF Reading, SearchAt, Same
<1>9. LastAt(u)'
  BY <1>0, <1>1 DEF Reading, LastAt, Returned, Same
<1>10. AtOffset(u)'
  BY <1>0 DEF Reading, AtOffset, Returned, Same
<1>11. ByType(u)'
  <2> SUFFICES ASSUME Returned(u)', op'[u].kind = "get_by_type" PROVE ByType(u)'
    BY DEF ByType
  <2>1. Returned(u) /\ op[u].kind = "get_by_type"
    BY <1>0 DEF Returned, Same
  <2>2. CASE There(u) = {}
    BY <1>0, <1>1, <1>4, <2>1, <2>2 DEF Reading, ByType, LastAt, Same
  <2>3. CASE There(u) # {}
    BY <1>0, <1>4, <2>1, <2>3 DEF Reading, ByType, Same
  <2> QED
    BY <2>2, <2>3
<1> QED
  BY <1>0, <1>2, <1>5, <1>6, <1>8, <1>9, <1>10, <1>11 DEF Reading, Same

\* A call that is not reading owes nothing but its part of the list.
LEMMA NotReading ==
  ASSUME NEW t \in Threads, Part(base[t])', pc'[t] \notin {"head", "walk"},
         pc'[t] = "idle" => op'[t].kind \notin Readers
  PROVE  Reading(t)'
<1>1. pc'[t] = "idle" => op'[t].kind \notin ByPlace /\ op'[t].kind # "get_by_type"
  BY KindSets DEF Readers
<1> QED
  BY <1>1 DEF Reading, BelowAt, WalkAt, SearchAt, LastAt, AtOffset, ByType, Returned

\* The count never runs ahead of the list.
LEMMA CountLow ==
  ASSUME IInv
  PROVE  count <= Len(list) /\ count \in Nat
<1>0. LockInv /\ TypeOK /\ ListInv /\ Len(list) \in Nat
  BY ListFacts DEF IInv, LockInv
<1>1. CountRight \/ CountBefore
  <2>1. CASE \A t \in Threads : pc[t] # "link"
    BY <1>0, <2>1 DEF ListInv, Quiet, Settled
  <2>2. ASSUME NEW t \in Threads, pc[t] = "link" PROVE CountRight \/ CountBefore
    <3>1. Stage(t)
      BY <1>0, <2>2 DEF ListInv, Linking
    <3> QED
      BY <3>1 DEF Stage, ToAdd, ToInject, InPlace, AddingFirst, AddingLast, InjectingFirst, InjectingFront,
                  Linkable, Settled
  <2> QED
    BY <2>1, <2>2
<1>2. CASE CountRight
  BY <1>0, <1>2, WrapBound, WordMaxAssumption DEF CountRight, Word
<1>3. CASE CountBefore
  <2>1. Len(list) - 1 \in Nat
    BY <1>0, <1>3, ListFacts DEF CountBefore
  <2> DEFINE a == Len(list) - 1
  <2>2. count = a % (WordMax + 1) /\ a \in Nat /\ a <= Len(list)
    BY <1>0, <1>3, <2>1 DEF CountBefore
  <2> HIDE DEF a
  <2>3. a % (WordMax + 1) \in Word /\ a % (WordMax + 1) <= a
    BY <2>2, WrapBound
  <2> QED
    BY <1>0, <2>2, <2>3, WordMaxAssumption DEF Word
<1> QED
  BY <1>1, <1>2, <1>3

LEMMA CallReads ==
  ASSUME IInv, ~Reorder, NEW t \in Threads, Call(t)
  PROVE  Reading(t)'
<1>0. TypeOK /\ pc \in [Threads -> Places] /\ op \in [Threads -> Operations] /\ base' = base
      /\ base[t] \in Seq(Nodes) /\ Part(base[t])
  BY ReadByThread DEF IInv, LockInv, TypeOK, Places, Call, Reading
<1>1. Part(base[t])'
  BY <1>0, Kept
<1>2. PICK o \in Operations : op' = [op EXCEPT ![t] = o] /\
        Goto(t, IF o.kind \in ByOffset THEN "count" ELSE IF o.kind \in Readers THEN "head" ELSE "lock")
  BY DEF Call
<1>3. op'[t] = o /\ pc'[t] \in {"count", "head", "lock"} /\ (pc'[t] = "head" => o.kind \notin ByOffset)
  BY <1>0, <1>2 DEF Goto
<1> QED
  BY <1>1, <1>3 DEF Reading, BelowAt, WalkAt, SearchAt, LastAt, AtOffset, ByType, Returned

LEMMA ReadCountReads ==
  ASSUME IInv, ~Reorder, NEW t \in Threads, ReadCount(t)
  PROVE  Reading(t)'
<1>0. TypeOK /\ pc \in [Threads -> Places] /\ ret \in [Threads -> Results] /\ base' = base /\ op' = op /\ list' = list
      /\ base[t] \in Seq(Nodes) /\ Part(base[t]) /\ pc[t] = "count" /\ Kinds
  BY ReadByThread DEF IInv, LockInv, TypeOK, Places, Results, ReadCount, Reading, aux
<1>1. Part(base[t])'
  BY <1>0, Kept DEF Step
<1>2. op[t].kind \in ByOffset /\ op[t].kind # "get_by_type" /\ op[t].offset \in Word
  BY <1>0, OpKind DEF Kinds, ByOffset
<1>3. CASE op[t].offset < count
  <2>1. pc'[t] = "head"
    BY <1>0, <1>3 DEF ReadCount, Goto
  <2>2. op[t].offset < Len(list)
    <3>1. count <= Len(list) /\ count \in Nat /\ Len(list) \in Nat /\ op[t].offset \in Nat
      BY <1>0, <1>2, CountLow, ListFacts, WordMaxAssumption DEF Word
    <3> QED
      BY <1>3, <3>1
  <2> QED
    BY <1>0, <1>1, <2>1, <2>2 DEF Reading, BelowAt, WalkAt, SearchAt, LastAt, AtOffset, ByType, Returned
<1>4. CASE ~(op[t].offset < count)
  <2>1. pc'[t] = "idle" /\ ret'[t].ok = FALSE
    <3>1. Return(t, FALSE, NULL) /\ FALSE \in BOOLEAN /\ NULL \in Nodes \cup {NULL}
      BY <1>4 DEF ReadCount
    <3>2. pc'[t] = "idle" /\ ret'[t] = [ok |-> FALSE, node |-> NULL]
      BY <1>0, <3>1 DEF Return, Goto
    <3> QED
      BY <3>2
  <2> QED
    BY <1>0, <1>1, <1>2, <2>1 DEF Reading, BelowAt, WalkAt, SearchAt, LastAt, AtOffset, ByType, Returned
<1> QED
  BY <1>3, <1>4

LEMMA ReadHeadReads ==
  ASSUME IInv, ~Reorder, NEW t \in Threads, ReadHead(t)
  PROVE  Reading(t)'
<1>0. TypeOK /\ Kinds /\ Reading(t) /\ ForwardChain /\ pc[t] = "head" /\ op' = op /\ list' = list /\ type' = type
  BY ReadByThread DEF IInv, LockInv, ListInv, ReadHead, memory, aux
<1>1. base'[t] = list /\ node'[t] = head /\ counter'[t] = 0 /\ pc'[t] = "walk"
  BY <1>0 DEF ReadHead, Goto, TypeOK
<1>l. list \in Seq(Nodes) /\ Len(list) \in Nat /\ DOMAIN list = 1 .. Len(list)
      /\ (list = <<>> <=> Len(list) = 0) /\ (\A k \in DOMAIN list : list[k] \in Nodes)
  BY <1>0, ListFacts
<1>2. Part(base[t])'
  <2>1. \A k \in DOMAIN list : k + 0 = k
    BY <1>l
  <2> QED
    BY <1>0, <1>1, <2>1 DEF Part
<1>3. op[t].offset \in Nat /\ (op[t].kind \notin ByOffset => op[t].offset = 0)
      /\ (op[t].kind \in ByOffset => op[t].offset < Len(list))
  BY <1>0, OpKind, WordMaxAssumption DEF Word, Reading, BelowAt
<1>4. WalkAt(t)'
  <2>1. list = <<>> => head = NULL /\ op[t].kind \notin ByOffset
    BY <1>0, <1>3, <1>l DEF ForwardChain
  <2>2. list # <<>> => op[t].offset < Len(list) /\ head = list[0 + 1]
    BY <1>0, <1>3, <1>l DEF ForwardChain
  <2> QED
    BY <1>0, <1>1, <1>3, <2>1, <2>2 DEF WalkAt
<1>5. SearchAt(t)'
  <2>1. CASE list = <<>>
    <3>1. NoneBefore(t, Len(base[t]) + 1)'
      BY <1>l, <1>1, <2>1 DEF NoneBefore
    <3>2. node'[t] = NULL
      BY <1>0, <1>1, <2>1 DEF ForwardChain
    <3> QED
      BY <3>1, <3>2 DEF SearchAt
  <2>2. CASE list # <<>>
    <3>1. 1 \in DOMAIN list /\ node'[t] = list[1]
      BY <1>0, <1>1, <1>l, <2>2 DEF ForwardChain
    <3>2. NoneBefore(t, 1)'
      BY DEF NoneBefore
    <3> QED
      BY <1>1, <3>1, <3>2 DEF SearchAt
  <2> QED
    BY <2>1, <2>2
<1> QED
  BY <1>1, <1>2, <1>4, <1>5 DEF Reading, BelowAt, LastAt, AtOffset, ByType, Returned

\* From a node of a part of the list the walk goes to the part's next node.
LEMMA NextInPart ==
  ASSUME TypeOK, ForwardChain, NEW b \in Seq(Nodes), Part(b), NEW k \in DOMAIN b, k + 1 \in DOMAIN b
  PROVE  next[b[k]] = b[k + 1]
<1>1. PICK d \in Nat : \A l \in DOMAIN b : l + d \in DOMAIN list /\ list[l + d] = b[l]
  BY DEF Part
<1>2. k + d \in DOMAIN list /\ list[k + d] = b[k] /\ (k + 1) + d \in DOMAIN list /\ list[(k + 1) + d] = b[k + 1]
  BY <1>1
<1>3. Len(list) \in Nat /\ DOMAIN list = 1 .. Len(list) /\ k \in Nat
  BY ListFacts
<1>4. (k + 1) + d = (k + d) + 1 /\ k + d # Len(list)
  BY <1>2, <1>3
<1> QED
  BY <1>2, <1>4 DEF ForwardChain

LEMMA NextInList ==
  ASSUME TypeOK, ForwardChain, NEW m, InList(m)
  PROVE  next[m] = NULL \/ InList(next[m])
<1>1. PICK k \in DOMAIN list : list[k] = m
  BY DEF InList
<1>2. Len(list) \in Nat /\ DOMAIN list = 1 .. Len(list)
  BY ListFacts
<1>3. k # Len(list) => k + 1 \in DOMAIN list
  BY <1>2
<1> QED
  BY <1>1, <1>3 DEF ForwardChain, InList

\* What is the same for all steps of a walk.
LEMMA WalkContext ==
  ASSUME IInv, ~Reorder, NEW t \in Threads, pc[t] = "walk"
  PROVE  /\ TypeOK /\ Kinds /\ Reading(t) /\ ForwardChain
         /\ base[t] \in Seq(Nodes) /\ Len(base[t]) \in Nat /\ DOMAIN base[t] = 1 .. Len(base[t])
         /\ (base[t] = <<>> <=> Len(base[t]) = 0)
         /\ (\A k \in DOMAIN base[t] : InList(base[t][k]) /\ base[t][k] \in Nodes /\ base[t][k] # NULL)
         /\ op[t].offset \in Nat /\ op[t].offset <= WordMax /\ counter[t] \in Nat
         /\ op[t].kind \in Readers \cup Checked /\ pc \in [Threads -> Places] /\ ret \in [Threads -> Results]
<1>1. TypeOK /\ Kinds /\ Reading(t) /\ ForwardChain /\ base[t] \in Seq(Nodes)
      /\ pc \in [Threads -> Places] /\ ret \in [Threads -> Results]
  BY ReadByThread DEF IInv, LockInv, ListInv, TypeOK, Places, Results
<1>2. op[t].offset \in Word /\ counter[t] \in Word
  BY <1>1, OpKind DEF TypeOK
<1>3. \A k \in DOMAIN base[t] : InList(base[t][k]) /\ base[t][k] \in Nodes /\ base[t][k] # NULL
  BY <1>1, PartIn, NullApart DEF Reading
<1>4. op[t].kind \in Readers \cup Checked
  BY <1>1 DEF Kinds
<1> QED
  BY <1>1, <1>2, <1>3, <1>4, WordMaxAssumption DEF Word

LEMMA ReturnOf ==
  ASSUME TypeOK, NEW t \in Threads, NEW ok, NEW n, Return(t, ok, n)
  PROVE  pc'[t] = "idle" /\ ret'[t].ok = ok /\ ret'[t].node = n
<1>1. ret'[t] = [ok |-> ok, node |-> n] /\ pc'[t] = "idle"
  BY DEF Return, Goto, TypeOK
<1> QED
  BY <1>1

LEMMA FoundReads ==
  ASSUME IInv, ~Reorder, NEW t \in Threads, Found(t)
  PROVE  Reading(t)'
<1>0. pc[t] = "walk" /\ node[t] # NULL /\ Matches(t) /\ UNCHANGED <<list, type, base, op, node>>
  BY DEF Found, aux
<1>c. /\ TypeOK /\ Kinds /\ Reading(t)
      /\ base[t] \in Seq(Nodes) /\ Len(base[t]) \in Nat /\ DOMAIN base[t] = 1 .. Len(base[t])
      /\ (base[t] = <<>> <=> Len(base[t]) = 0)
      /\ (\A k \in DOMAIN base[t] : InList(base[t][k]) /\ base[t][k] \in Nodes /\ base[t][k] # NULL)
      /\ op[t].kind \in Readers \cup Checked
  BY <1>0, WalkContext
<1>1. Part(base[t])'
  BY <1>0, <1>c, Kept DEF Step, Reading
<1>2. CASE op[t].kind \notin Readers
  <2>1. pc'[t] = "idle"
    BY <1>2, <1>c, ReturnOf DEF Found, Unlock
  <2> QED
    BY <1>0, <1>1, <1>2, <2>1, NotReading
<1>3. CASE op[t].kind \in Readers
  <2>1. pc'[t] = "idle" /\ ret'[t].ok = TRUE /\ ret'[t].node = node[t]
    <3>1. op[t].kind \notin GetOr
      BY <1>3 DEF GetOr, Readers, ByOffset
    <3>2. Return(t, TRUE, node[t])
      BY <1>3, <3>1 DEF Found
    <3> QED
      BY <1>c, <3>2, ReturnOf
  <2>2. CASE op[t].kind \in ByPlace
    <3>1. op[t].kind # "get_by_type"
      BY <2>2 DEF ByPlace, ByOffset
    <3>2. counter[t] = op[t].offset
      BY <1>0, <2>2 DEF Matches, ByPlace
    <3>3. base[t] # <<>> /\ node[t] = base[t][op[t].offset + 1]
      BY <1>0, <1>c, <2>2, <3>2 DEF Reading, WalkAt
    <3> QED
      BY <1>0, <1>1, <2>1, <3>1, <3>3 DEF Reading, BelowAt, WalkAt, SearchAt, LastAt, AtOffset, ByType
  <2>3. CASE op[t].kind \notin ByPlace
    <3>1. type[node[t]] = op[t].type
      BY <1>0, <2>3 DEF Matches, ByPlace
    <3>2. There(t)' = There(t)
      BY <1>0 DEF There
    <3>3. CASE \E k \in DOMAIN base[t] : node[t] = base[t][k] /\ NoneBefore(t, k)
      <4>1. PICK k \in DOMAIN base[t] : node[t] = base[t][k] /\ NoneBefore(t, k)
        BY <3>3
      <4>2. k \in There(t)
        BY <3>1, <4>1 DEF There
      <4>3. \A l \in There(t) : k <= l
        <5> SUFFICES ASSUME NEW l \in There(t), ~(k <= l) PROVE FALSE
          OBVIOUS
        <5>1. l \in 1 .. Len(base[t]) /\ k \in 1 .. Len(base[t]) /\ type[base[t][l]] = op[t].type
          BY <1>c DEF There
        <5>2. l \in 1 .. k - 1
          BY <1>c, <5>1
        <5> QED
          BY <4>1, <5>1, <5>2 DEF NoneBefore
      <4>4. InList(node[t])'
        BY <1>0, <1>c, <4>1 DEF InList
      <4> QED
        BY <1>0, <1>1, <2>1, <2>3, <3>2, <4>1, <4>2, <4>3, <4>4
           DEF Reading, BelowAt, WalkAt, SearchAt, LastAt, AtOffset, ByType
    <3>4. CASE ~ \E k \in DOMAIN base[t] : node[t] = base[t][k] /\ NoneBefore(t, k)
      <4>1. InList(node[t]) /\ NoneBefore(t, Len(base[t]) + 1)
        BY <1>0, <1>c, <2>3, <3>4 DEF Reading, SearchAt
      <4>2. There(t) = {}
        <5>1. \A l \in DOMAIN base[t] : l \in 1 .. (Len(base[t]) + 1) - 1
          BY <1>c
        <5> QED
          BY <4>1, <5>1 DEF There, NoneBefore
      <4>3. InList(node[t])'
        BY <1>0, <4>1 DEF InList
      <4> QED
        BY <1>0, <1>1, <2>1, <2>3, <3>1, <3>2, <4>2, <4>3
           DEF Reading, BelowAt, WalkAt, SearchAt, LastAt, AtOffset, ByType
    <3> QED
      BY <3>3, <3>4
  <2> QED
    BY <2>2, <2>3
<1> QED
  BY <1>2, <1>3

LEMMA AdvanceReads ==
  ASSUME IInv, ~Reorder, NEW t \in Threads, Advance(t)
  PROVE  Reading(t)'
<1>0. pc[t] = "walk" /\ node[t] # NULL /\ ~Matches(t) /\ UNCHANGED <<list, type, base, op, pc, calls, ret>>
  BY DEF Advance, aux, memory
<1>c. /\ TypeOK /\ Kinds /\ Reading(t) /\ ForwardChain
      /\ base[t] \in Seq(Nodes) /\ Len(base[t]) \in Nat /\ DOMAIN base[t] = 1 .. Len(base[t])
      /\ (base[t] = <<>> <=> Len(base[t]) = 0)
      /\ (\A k \in DOMAIN base[t] : InList(base[t][k]) /\ base[t][k] \in Nodes /\ base[t][k] # NULL)
      /\ op[t].offset \in Nat /\ op[t].offset <= WordMax /\ counter[t] \in Nat
  BY <1>0, WalkContext
<1>1. Part(base[t])' /\ Part(base[t])
  BY <1>0, <1>c, Kept DEF Step, Reading
<1>2. node'[t] = next[node[t]] /\ counter'[t] = (counter[t] + 1) % (WordMax + 1)
  BY <1>c DEF Advance, TypeOK
<1>3. CASE op[t].kind \in ByPlace
  <2>1. counter[t] # op[t].offset
    BY <1>0, <1>3 DEF Matches, ByPlace
  <2>2. base[t] # <<>> /\ counter[t] <= op[t].offset /\ op[t].offset < Len(base[t])
        /\ node[t] = base[t][counter[t] + 1]
    BY <1>0, <1>c, <1>3 DEF Reading, WalkAt
  <2>3. counter[t] + 1 \in Nat /\ counter[t] + 1 <= WordMax
    BY <1>c, <2>1, <2>2, WordMaxAssumption
  <2>4. counter'[t] = counter[t] + 1
    BY <1>2, <2>3, WrapBound
  <2>5. counter[t] + 1 \in DOMAIN base[t] /\ (counter[t] + 1) + 1 \in DOMAIN base[t]
    BY <1>c, <2>1, <2>2
  <2>6. node'[t] = base[t][(counter[t] + 1) + 1]
    BY <1>1, <1>2, <1>c, <2>2, <2>5, NextInPart
  <2>7. counter[t] + 1 <= op[t].offset
    BY <1>c, <2>1, <2>2
  <2>8. WalkAt(t)'
    BY <1>0, <2>2, <2>4, <2>6, <2>7 DEF WalkAt
  <2> QED
    BY <1>0, <1>1, <1>3, <2>8 DEF Reading, BelowAt, SearchAt, LastAt, AtOffset, ByType, Returned
<1>4. CASE op[t].kind \notin ByPlace
  <2>1. type[node[t]] # op[t].type
    BY <1>0, <1>4 DEF Matches, ByPlace
  <2>2. SearchAt(t)'
    <3>1. CASE \E k \in DOMAIN base[t] : node[t] = base[t][k] /\ NoneBefore(t, k)
      <4>1. PICK k \in DOMAIN base[t] : node[t] = base[t][k] /\ NoneBefore(t, k)
        BY <3>1
      <4>2. NoneBefore(t, k + 1)'
        <5>1. \A l \in 1 .. (k + 1) - 1 : l = k \/ l \in 1 .. k - 1
          BY <1>c
        <5> QED
          BY <1>0, <2>1, <4>1, <5>1 DEF NoneBefore
      <4>3. CASE k + 1 \in DOMAIN base[t]
        <5>1. node'[t] = base[t][k + 1]
          BY <1>1, <1>2, <1>c, <4>1, <4>3, NextInPart
        <5> QED
          BY <1>0, <4>2, <4>3, <5>1 DEF SearchAt
      <4>4. CASE k + 1 \notin DOMAIN base[t]
        <5>1. k = Len(base[t])
          BY <1>c, <4>4
        <5>2. node'[t] = NULL \/ InList(node'[t])
          BY <1>2, <1>c, <4>1, NextInList
        <5>3. node'[t] = NULL \/ InList(node[t])'
          BY <1>0, <5>2 DEF InList
        <5> QED
          BY <1>0, <4>2, <5>1, <5>3 DEF SearchAt
      <4> QED
        BY <4>3, <4>4
    <3>2. CASE ~ \E k \in DOMAIN base[t] : node[t] = base[t][k] /\ NoneBefore(t, k)
      <4>1. InList(node[t]) /\ NoneBefore(t, Len(base[t]) + 1)
        BY <1>0, <1>c, <1>4, <3>2 DEF Reading, SearchAt
      <4>2. node'[t] = NULL \/ InList(node'[t])
        BY <1>2, <1>c, <4>1, NextInList
      <4>3. node'[t] = NULL \/ InList(node[t])'
        BY <1>0, <4>2 DEF InList
      <4>4. NoneBefore(t, Len(base[t]) + 1)'
        BY <1>0, <4>1 DEF NoneBefore
      <4> QED
        BY <4>3, <4>4 DEF SearchAt
    <3> QED
      BY <3>1, <3>2
  <2> QED
    BY <1>0, <1>1, <1>4, <2>2 DEF Reading, BelowAt, WalkAt, LastAt, AtOffset, ByType, Returned
<1> QED
  BY <1>3, <1>4

LEMMA MissedReads ==
  ASSUME IInv, ~Reorder, NEW t \in Threads, Missed(t)
  PROVE  Reading(t)'
<1>0. pc[t] = "walk" /\ node[t] = NULL /\ UNCHANGED <<list, type, base, op>>
  BY DEF Missed, aux
<1>c. /\ TypeOK /\ Reading(t) /\ pc \in [Threads -> Places]
      /\ base[t] \in Seq(Nodes) /\ Len(base[t]) \in Nat /\ DOMAIN base[t] = 1 .. Len(base[t])
      /\ (\A k \in DOMAIN base[t] : InList(base[t][k]) /\ base[t][k] \in Nodes /\ base[t][k] # NULL)
  BY <1>0, WalkContext
<1>1. Part(base[t])'
  BY <1>0, <1>c, Kept DEF Step, Reading
<1>2. CASE op[t].kind \notin Readers
  <2>1. pc'[t] \in {"idle", "initialize"}
    <3>1. Return(t, FALSE, NULL) \/ Goto(t, "initialize")
      BY <1>2 DEF Missed, AfterMiss, Unlock
    <3> QED
      BY <1>c, <3>1 DEF Return, Goto
  <2> QED
    BY <1>0, <1>1, <1>2, <2>1, NotReading
<1>3. CASE op[t].kind \in Readers
  <2>1. pc'[t] = "idle" /\ ret'[t].ok = FALSE
    BY <1>3, <1>c, ReturnOf DEF Missed
  <2>2. There(t)' = {} \/ op[t].kind # "get_by_type"
    <3>1. CASE op[t].kind \in ByPlace
      BY <3>1 DEF ByPlace, ByOffset
    <3>2. CASE op[t].kind \notin ByPlace
      <4>1. NoneBefore(t, Len(base[t]) + 1)
        BY <1>0, <1>c, <3>2 DEF Reading, SearchAt
      <4>2. \A l \in DOMAIN base[t] : l \in 1 .. (Len(base[t]) + 1) - 1
        BY <1>c
      <4> QED
        BY <1>0, <4>1, <4>2 DEF There, NoneBefore
    <3> QED
      BY <3>1, <3>2
  <2> QED
    BY <1>0, <1>1, <2>1, <2>2 DEF Reading, BelowAt, WalkAt, SearchAt, LastAt, AtOffset, ByType
<1> QED
  BY <1>2, <1>3

LEMMA ReadOwn ==
  ASSUME IInv, ~Reorder, NEW t \in Threads, Call(t) \/ Step(t)
  PROVE  Reading(t)'
<1>0. LockInv /\ TypeOK /\ Kinds /\ base[t] \in Seq(Nodes) /\ Part(base[t]) /\ pc \in [Threads -> Places]
  BY ReadByThread DEF IInv, LockInv, TypeOK, Reading, Places
<1>1. base'[t] = base[t] => Part(base[t])'
  BY <1>0, Kept
<1>2. CASE NoMemory(t)
  <2>1. pc'[t] = "idle" /\ op' = op /\ pc[t] = "lock" /\ base' = base
    BY <1>0, <1>2 DEF NoMemory, Return, Goto
  <2>2. op[t].kind \notin Readers
    BY <1>0, <2>1 DEF Kinds
  <2> QED
    BY <1>1, <2>1, <2>2, NotReading
<1>3. CASE Lock(t)
  <2>1. /\ op' = op /\ base' = base /\ pc[t] = "lock"
        /\ pc'[t] \in {"head", "initialize"} /\ (pc'[t] = "head" => op[t].kind \in Checked)
    BY <1>0, <1>3 DEF Lock, Goto
  <2>2. op[t].kind \in Checked => op[t].kind \notin ByOffset
    BY KindSets
  <2> QED
    BY <1>1, <2>1, <2>2 DEF Reading, BelowAt, WalkAt, SearchAt, LastAt, AtOffset, ByType, Returned
<1>4. CASE Initialize(t)
  <2>1. pc'[t] = "link" /\ base' = base
    BY <1>0, <1>4 DEF Initialize, Goto
  <2> QED
    BY <1>1, <2>1, NotReading
<1>5. CASE Link(t)
  <2>1. pc'[t] = "link" /\ base' = base
    BY <1>5 DEF Link
  <2> QED
    BY <1>1, <2>1, NotReading
<1>6. CASE Linked(t)
  <2>1. pc'[t] = "idle" /\ op' = op /\ pc[t] = "link" /\ base' = base
    BY <1>0, <1>6 DEF Linked, Unlock, Return, Goto
  <2>2. op[t].kind \notin Readers
    BY <1>0, <2>1, KindSets DEF Kinds
  <2> QED
    BY <1>1, <2>1, <2>2, NotReading
<1> QED
  BY <1>2, <1>3, <1>4, <1>5, <1>6, CallReads, ReadCountReads, ReadHeadReads, FoundReads, AdvanceReads, MissedReads
     DEF Step

-----------------------------------------------------------------------------
(* Theorems *)

LEMMA InitList == Init => IInv
<1> SUFFICES ASSUME Init PROVE IInv
  OBVIOUS
<1>1. LockInv
  BY InitLock
<1>2. \A t \in Threads : pc[t] = "idle" /\ calls[t] = 0 /\ base[t] = <<>> /\ op[t] = NoOp
  BY DEF Init
<1>3. list = <<>> \/ list = <<First>>
  BY DEF Init
<1>4. Len(<<First>>) = 1 /\ DOMAIN <<First>> = {1} /\ <<First>>[1] = First /\ <<First>> # <<>>
      /\ Len(<<>>) = 0 /\ DOMAIN <<>> = {}
  OBVIOUS
<1>5. 0 % (WordMax + 1) = 0 /\ (WordMax > 0 => 1 % (WordMax + 1) = 1) /\ First \in Nodes
  BY WordMaxAssumption DEF Nodes
<1>6. \/ head = NULL /\ tail = NULL /\ count = 0 /\ list = <<>> /\ vetted = {}
      \/ /\ WordMax > 0 /\ head = First /\ tail = First /\ count = 1
         /\ list = <<First>> /\ vetted = {First}
  BY DEF Init
<1>7. next[First] = NULL /\ previous[First] = NULL
  BY <1>5 DEF Init
<1>8. ForwardChain /\ Distinct /\ Vetted
  <2>1. CASE list = <<>>
    BY <1>4, <1>5, <1>6, <2>1, NullApart DEF ForwardChain, Distinct, Vetted, InList
  <2>2. CASE list = <<First>>
    <3>1. head = First /\ vetted = {First}
      BY <1>4, <1>6, <2>2
    <3>2. \A k \in DOMAIN list : k = 1 /\ list[k] = First /\ k = Len(list)
      BY <1>4, <2>2
    <3>3. ForwardChain
      BY <1>4, <1>7, <2>2, <3>1, <3>2 DEF ForwardChain
    <3>4. Distinct /\ Vetted
      BY <1>4, <2>2, <3>1, <3>2 DEF Distinct, Vetted, InList
    <3> QED
      BY <3>3, <3>4
  <2> QED
    BY <1>3, <2>1, <2>2
<1>9. Settled
  <2>1. TailRight
    BY <1>4, <1>6 DEF TailRight
  <2>2. PreviousRight
    BY <1>4, <1>6, <1>7 DEF PreviousRight
  <2>3. CountRight
    BY <1>4, <1>5, <1>6 DEF CountRight
  <2> QED
    BY <2>1, <2>2, <2>3 DEF Settled
<1>10. Absent
  <2>1. \A m : InList(m) => m = First
    BY <1>3, <1>4 DEF InList
  <2> QED
    BY <2>1, NodesAssumption DEF Absent
<1>11. TypesUnique
  BY <1>3, <1>4 DEF TypesUnique
<1>12. Quiet /\ Linking /\ Vetting
  BY <1>2, <1>9 DEF Quiet, Linking, Vetting
<1>13. ReadInv
  <2> SUFFICES ASSUME NEW u \in Threads PROVE Reading(u)
    BY ReadByThread
  <2>1. Part(base[u])
    <3>1. base[u] = <<>> /\ 0 \in Nat
      BY <1>2
    <3> QED
      BY <1>4, <3>1 DEF Part
  <2>2. ~Returned(u) /\ pc[u] = "idle"
    BY <1>2 DEF Returned
  <2> QED
    BY <2>1, <2>2 DEF Reading, BelowAt, WalkAt, SearchAt, LastAt, AtOffset, ByType
<1> QED
  BY <1>1, <1>8, <1>10, <1>11, <1>12, <1>13 DEF IInv, ListInv

LEMMA StutterKeeps ==
  ASSUME IInv, UNCHANGED vars
  PROVE  IInv'
<1>0. UNCHANGED <<kinds, lock, head, tail, count, type, next, previous, list, vetted, calls, pc, op, node, counter,
                  todo, base, ret>>
  BY DEF vars, memory, aux
<1>1. LockInv'
  BY LockStep DEF IInv
<1>2. ForwardChain' /\ Distinct' /\ Vetted' /\ TypesUnique' /\ Settled' = Settled /\ Absent' /\ Quiet'
  <2>1. Settled' = Settled
    BY <1>0 DEF Settled, TailRight, PreviousRight, CountRight
  <2> QED
    BY <1>0, <2>1 DEF IInv, ListInv, ForwardChain, Distinct, Vetted, TypesUnique, Absent, Quiet, InList
<1>3. Linking' /\ Vetting'
  <2>1. \A u \in Threads : New(u)' = New(u) /\ (InList(New(u))' <=> InList(New(u)))
    BY <1>0 DEF New, InList
  <2>2. Vetting'
    BY <1>0, <2>1 DEF IInv, ListInv, Vetting
  <2>3. \A u \in Threads : Stage(u)' <=> Stage(u)
    BY <1>0 DEF Stage, ToAdd, ToInject, InPlace, AddingFirst, AddingLast, InjectingFirst, InjectingFront,
                Linkable, Settled, TailRight, PreviousRight, CountRight, CountBefore, InList, New
  <2> QED
    BY <1>0, <2>1, <2>2, <2>3 DEF IInv, ListInv, Linking
<1>4. ReadInv'
  <2> SUFFICES ASSUME NEW u \in Threads PROVE Reading(u)'
    <3>1. (ReadInv <=> \A u \in Threads : Reading(u))'
      BY ReadByThread, PTL
    <3> QED
      BY <3>1
  <2>1. Reading(u)
    BY ReadByThread DEF IInv
  <2> QED
    BY <1>0, <2>1 DEF Reading, Part, BelowAt, WalkAt, SearchAt, NoneBefore, LastAt, AtOffset, ByType, There,
                      Returned, InList
<1> QED
  BY <1>1, <1>2, <1>3, <1>4 DEF IInv, ListInv

LEMMA ListStep ==
  ASSUME IInv, ~Reorder, NEW t \in Threads, Call(t) \/ Step(t)
  PROVE  IInv'
<1>1. LockInv'
  BY TypeStep, LockedStep, KindsStep DEF IInv, LockInv
<1>2. ListInv'
  <2>1. CASE Initialize(t)
    BY <1>1, <2>1, InitializeList
  <2>2. CASE Link(t)
    BY <2>2, LinkList
  <2>3. CASE \/ Call(t) \/ NoMemory(t) \/ Lock(t) \/ ReadCount(t) \/ ReadHead(t) \/ Found(t)
             \/ Advance(t) \/ Missed(t) \/ Linked(t)
    BY <1>1, <2>3, CalmList
  <2> QED
    BY <2>1, <2>2, <2>3 DEF Step
<1>3. ReadInv'
  <2>1. \A u \in Threads : Reading(u)'
    BY ReadOthers, ReadOwn
  <2>2. (ReadInv <=> \A u \in Threads : Reading(u))'
    BY ReadByThread, PTL
  <2> QED
    BY <2>1, <2>2
<1> QED
  BY <1>1, <1>2, <1>3 DEF IInv

\* Whatever the calls and however they interleave: the lists, the stores that
\* are under way and what readers know of them fit together.
THEOREM Invariance == ASSUME ~Reorder PROVE Spec => []IInv
<1>1. IInv /\ [Next]_vars => IInv'
  <2> SUFFICES ASSUME IInv, [Next]_vars PROVE IInv'
    OBVIOUS
  <2>1. CASE Next
    BY <2>1, ListStep DEF Next
  <2>2. CASE UNCHANGED vars
    BY <2>2, StutterKeeps
  <2> QED
    BY <2>1, <2>2
<1> QED
  BY <1>1, InitList, PTL DEF Spec

\* The next pointers spell the list at every moment, also between two stores,
\* so that a reader without the lock never leaves it.
THEOREM ReadersSeeAList == ASSUME ~Reorder PROVE Spec => []ForwardChain
<1>1. IInv => ForwardChain
  BY DEF IInv, ListInv
<1> QED
  BY <1>1, Invariance, PTL

\* When nobody holds the lock the list can be walked backwards, and the count
\* is its length up to the wrap of its sixteen bits.
THEOREM WritersLeaveAList == ASSUME ~Reorder PROVE Spec => []BackwardChain
<1>1. IInv => BackwardChain
  <2> SUFFICES ASSUME IInv, lock = NULL PROVE Settled
    BY DEF BackwardChain, Settled, TailRight, PreviousRight, CountRight
  <2>1. \A t \in Threads : ~Holds(t)
    BY NullApart DEF IInv, LockInv, LockHeldInCall
  <2> QED
    BY <2>1 DEF IInv, ListInv, Quiet, Holds
<1> QED
  BY <1>1, Invariance, PTL

\* append, insert and the get_or calls never give a packet two fields of a type.
THEOREM OneFieldPerType == ASSUME ~Reorder PROVE Spec => []TypesUnique
<1>1. IInv => TypesUnique
  BY DEF IInv, ListInv
<1> QED
  BY <1>1, Invariance, PTL

\* A walk by offset, once it has passed the test of the count, does not run off
\* the list: the assertion behind "We should never get here, really".
THEOREM OffsetsAreThere == ASSUME ~Reorder PROVE Spec => []NeverGetsHere
<1>1. ASSUME ~Reorder PROVE IInv => NeverGetsHere
  <2> SUFFICES ASSUME IInv, NEW t \in Threads, pc[t] = "walk", op[t].kind \in ByOffset PROVE node[t] # NULL
    BY DEF NeverGetsHere
  <2>1. /\ WalkAt(t) /\ op[t].kind \in ByPlace
        /\ Len(base[t]) \in Nat /\ DOMAIN base[t] = 1 .. Len(base[t])
        /\ (\A k \in DOMAIN base[t] : base[t][k] # NULL) /\ counter[t] \in Nat /\ op[t].offset \in Nat
    BY <1>1, WalkContext DEF Reading, ByPlace
  <2>2. /\ counter[t] <= op[t].offset /\ op[t].offset < Len(base[t])
        /\ node[t] = base[t][counter[t] + 1]
    BY <2>1 DEF WalkAt
  <2>3. counter[t] + 1 \in DOMAIN base[t]
    BY <2>1, <2>2
  <2> QED
    BY <2>1, <2>2, <2>3
<1> QED
  BY <1>1, Invariance, PTL

\* A lookup by offset returns what was there when it read the head.
THEOREM OffsetIsFound == ASSUME ~Reorder PROVE Spec => []FoundAtOffset
<1>1. IInv => FoundAtOffset
  BY DEF IInv, ReadInv
<1> QED
  BY <1>1, Invariance, PTL

\* A lookup by type finds the first field of the type that was there when it
\* started, and nothing of another type.
THEOREM TypeIsFound == ASSUME ~Reorder PROVE Spec => []FoundByType
<1>1. IInv => FoundByType
  BY DEF IInv, ReadInv
<1> QED
  BY <1>1, Invariance, PTL
===============================================================================
