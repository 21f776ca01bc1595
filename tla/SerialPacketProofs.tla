------------------------- MODULE SerialPacketProofs -------------------------
(***************************************************************************)
(* What holds of the decoder for every uint16_t range, every set of types, *)
(* every header and every body.                                            *)
(***************************************************************************)
EXTENDS SerialPacket, NumberProofs, TLAPS

\* The cursor stays in the body, and until the decoder returns nothing beyond
\* the cursor has been read.
CursorInBody ==
    /\ pc = "header" => p = 0 /\ fields = <<>>
    /\ p <= body_size
    /\ pc # "returned" => reach <= p

\* Stored entries lie behind the cursor, after at least one entry header.
EntriesBehindCursor ==
    \A k \in DOMAIN fields : \A n \in DOMAIN fields[k].entries :
        /\ ENTRY_HEADER_SIZE <= fields[k].entries[n].offset
        /\ fields[k].entries[n].offset + fields[k].entries[n].size <= p

\* A field is freed only by a step that returns.
FreedAtReturn == pc # "returned" \/ ok => freed = {}

\* Every word a header can hold, with the assumptions that give its range.
LEMMA WordIsNat == Word \subseteq Nat /\ 0 \in Word
  BY WordMaxAssumption DEF Word

\* Counting an entry keeps a field well-typed: the count wraps inside Word.
LEMMA WithEntryType ==
  ASSUME NEW f \in Field, NEW offset \in Nat, NEW size \in Word
  PROVE  /\ WithEntry(f, offset, size) \in Field
         /\ WithEntry(f, offset, size).entries
              = Append(f.entries, [offset |-> offset, size |-> size])
         /\ WithEntry(f, offset, size).type = f.type
<1>1. (f.entry_count + 1) % (WordMax + 1) \in Word
  BY WordMaxAssumption DEF Word, Field
<1>2. Append(f.entries, [offset |-> offset, size |-> size]) \in Seq(Entry)
  BY DEF Field, Entry
<1>. QED  BY <1>1, <1>2 DEF WithEntry, Field

\* The decoder starts well-typed, on any header or serialized packet.
LEMMA TypeInit == Init => TypeOK
<1>. SUFFICES ASSUME Init PROVE TypeOK  OBVIOUS
<1>1. header \in Header
  BY HeadersAssumption, PacketsAssumption DEF Init
<1>2. fields = <<>> /\ freed = {} /\ <<>> \in Seq(Field)
  BY DEF Init
<1>3. i \in 0 .. field_count /\ cur \in 0 .. Len(fields)
  BY DEF Init
<1>4. entry_count \in Word /\ entry \in 0 .. entry_count
  BY WordIsNat DEF Init
<1>5. pc = "header" /\ i = 0 /\ ok \in BOOLEAN
  BY DEF Init
<1>6. field_count \in Nat /\ body_size \in Nat /\ p \in Nat /\ reach \in Nat
  BY DEF Init
<1>. QED  BY <1>1, <1>2, <1>3, <1>4, <1>5, <1>6 DEF TypeOK

\* Every step of the decoder keeps types and loop bounds.
LEMMA TypeStep == TypeOK /\ [Next]_vars => TypeOK'
<1>. SUFFICES ASSUME TypeOK, [Next]_vars PROVE TypeOK'  OBVIOUS
<1>. USE WordIsNat DEF TypeOK, MoreFields, input, serial, packet, locals, vars, Return
<1>1. CASE UnserializeHeader
  <2>1. CASE header.version = Version
    <3>1. /\ field_count' = header.field_count /\ body_size' = header.body_size
          /\ pc' = "body" /\ UNCHANGED <<input, ok, locals, packet, reach>>
      BY <1>1, <2>1 DEF UnserializeHeader
    <3>2. field_count' \in Nat /\ body_size' \in Nat
      BY <3>1 DEF Header
    <3>3. i = 0 /\ i' = 0 /\ i' \in 0 .. field_count'
      BY <1>1, <3>1, <3>2 DEF UnserializeHeader
    <3>. QED  BY <3>1, <3>2, <3>3
  <2>2. CASE header.version # Version
    BY <1>1, <2>2 DEF UnserializeHeader
  <2>. QED  BY <2>1, <2>2
<1>2. CASE EnterBody
  BY <1>2 DEF EnterBody
<1>3. CASE PastEnd
  BY <1>3 DEF PastEnd
<1>4. ASSUME NEW type \in Types, NEW count \in Word, FieldRefused(type, count)
      PROVE  TypeOK'
  <2>1. UNCHANGED <<input, serial, locals, packet>> /\ pc' = "returned" /\ ok' = FALSE
    BY <1>4 DEF FieldRefused
  <2>2. reach' \in Nat
    BY <1>4 DEF FieldRefused, ReadFieldHeader, FIELD_HEADER_SIZE
  <2>. QED  BY <2>1, <2>2
<1>5. ASSUME NEW type \in Types, NEW count \in Word, OpenField(type, count)
      PROVE  TypeOK'
  <2>1. fields' \in Seq(Field) /\ cur' \in DOMAIN fields' /\ freed \subseteq DOMAIN fields'
    <3>1. CASE FieldsOfType(type) = {}
      <4>1. NewField(type) \in Field
        BY DEF NewField, Field, Entry
      <4>. QED  BY <1>5, <3>1, <4>1 DEF OpenField
    <3>2. CASE FieldsOfType(type) # {}
      BY <1>5, <3>2 DEF OpenField, FieldsOfType
    <3>. QED  BY <3>1, <3>2
  <2>. QED  BY <1>5, <2>1 DEF OpenField, ReadFieldHeader, FIELD_HEADER_SIZE
<1>6. ASSUME NEW size \in Word, EntryRefused(size)
      PROVE  TypeOK'
  <2>1. FinalizedField \in Field
    BY DEF FinalizedField, NewField, Field, Entry
  <2>2. cur \in DOMAIN fields
    BY <1>6 DEF EntryRefused, ReadEntryHeader
  <2>3. fields' \in Seq(Field) /\ DOMAIN fields' = DOMAIN fields /\ Len(fields') = Len(fields)
    BY <1>6, <2>1, <2>2 DEF EntryRefused, DiscardField
  <2>4. UNCHANGED <<input, serial, locals>> /\ pc' = "returned" /\ ok' = FALSE
    BY <1>6 DEF EntryRefused, DiscardField
  <2>5. reach' \in Nat /\ freed' = freed \cup {cur}
    BY <1>6 DEF EntryRefused, DiscardField, ENTRY_HEADER_SIZE
  <2>. QED  BY <2>2, <2>3, <2>4, <2>5
<1>7. ASSUME NEW size \in Word, AddEntry(size)
      PROVE  TypeOK'
  <2>1. cur \in DOMAIN fields /\ entry < entry_count
    BY <1>7 DEF AddEntry, ReadEntryHeader
  <2>2. fields[cur] \in Field
    BY <2>1
  <2>3. WithEntry(fields[cur], p + ENTRY_HEADER_SIZE, size) \in Field
    <3>1. p + ENTRY_HEADER_SIZE \in Nat
      BY DEF ENTRY_HEADER_SIZE
    <3>. QED  BY  <2>2, <3>1, WithEntryType, size \in Word
  <2>4. fields' \in Seq(Field) /\ DOMAIN fields' = DOMAIN fields /\ Len(fields') = Len(fields)
    BY <1>7, <2>1, <2>3 DEF AddEntry
  <2>. QED
    BY <1>7, <2>1, <2>4 DEF AddEntry, AfterEntry, ENTRY_HEADER_SIZE
<1>8. CASE NextField
  BY <1>8 DEF NextField
<1>9. CASE Finish
  BY <1>9 DEF Finish
<1>10. CASE UNCHANGED vars
  BY <1>10
<1>. QED  BY <1>1, <1>2, <1>3, <1>4, <1>5, <1>6, <1>7, <1>8, <1>9, <1>10 DEF Next

\* The decoder's state keeps its types and its loop counters their bounds, for
\* any header and body (unserialize_header, unserialize_body).
THEOREM TypeCorrect == Spec => []TypeOK
  BY TypeInit, TypeStep, PTL DEF Spec

-----------------------------------------------------------------------------
(* The inductive invariant *)

IInv ==
    /\ TypeOK
    /\ CursorInBody
    /\ EntriesBehindCursor
    /\ StoredRangesDisjoint
    /\ TypesUnique
    /\ FreedAtReturn
    /\ ReadOverhangBounded

\* AddEntry appends one entry, just behind the old cursor, to the current field
\* and leaves every other entry and every type as it was.
LEMMA AddEntryEffect ==
  ASSUME TypeOK, NEW size \in Word, AddEntry(size)
  PROVE  /\ DOMAIN fields' = DOMAIN fields
         /\ \A k \in DOMAIN fields : fields'[k].type = fields[k].type
         /\ \A k \in DOMAIN fields : \A n \in DOMAIN fields'[k].entries :
              \/ /\ n \in DOMAIN fields[k].entries
                 /\ fields'[k].entries[n] = fields[k].entries[n]
              \/ /\ k = cur /\ n = Len(fields[cur].entries) + 1
                 /\ fields'[k].entries[n] = [offset |-> p + ENTRY_HEADER_SIZE, size |-> size]
<1>. DEFINE e == [offset |-> p + ENTRY_HEADER_SIZE, size |-> size]
<1>1. fields \in Seq(Field) /\ cur \in DOMAIN fields /\ p + ENTRY_HEADER_SIZE \in Nat
  BY DEF TypeOK, AddEntry, ReadEntryHeader, ENTRY_HEADER_SIZE
<1>2. fields[cur] \in Field
  BY <1>1
<1>3. fields' = [fields EXCEPT ![cur] = WithEntry(fields[cur], p + ENTRY_HEADER_SIZE, size)]
  BY DEF AddEntry
<1>4. /\ DOMAIN fields' = DOMAIN fields
      /\ \A k \in DOMAIN fields : k # cur => fields'[k] = fields[k]
      /\ fields'[cur] = WithEntry(fields[cur], p + ENTRY_HEADER_SIZE, size)
  BY <1>1, <1>3
<1>5. /\ fields'[cur].entries = Append(fields[cur].entries, e)
      /\ fields'[cur].type = fields[cur].type
  BY <1>1, <1>2, <1>4, WithEntryType
<1>6. fields[cur].entries \in Seq(Entry)
  BY <1>2 DEF Field
<1>7. \A n \in DOMAIN Append(fields[cur].entries, e) :
        \/ /\ n \in DOMAIN fields[cur].entries
           /\ Append(fields[cur].entries, e)[n] = fields[cur].entries[n]
        \/ /\ n = Len(fields[cur].entries) + 1
           /\ Append(fields[cur].entries, e)[n] = e
  BY <1>6
<1>. HIDE DEF e
<1>8. \A k \in DOMAIN fields : \A n \in DOMAIN fields'[k].entries :
        \/ n \in DOMAIN fields[k].entries /\ fields'[k].entries[n] = fields[k].entries[n]
        \/ k = cur /\ n = Len(fields[cur].entries) + 1 /\ fields'[k].entries[n] = e
  BY <1>4, <1>5, <1>7
<1>9. \A k \in DOMAIN fields : fields'[k].type = fields[k].type
  BY <1>4, <1>5
<1>. QED  BY <1>4, <1>8, <1>9 DEF e

\* OpenField leaves the fields it finds alone and appends at most one, empty,
\* of a type that was not there.
LEMMA OpenFieldEffect ==
  ASSUME TypeOK, NEW type \in Types, NEW count \in Word, OpenField(type, count)
  PROVE  /\ \A k \in DOMAIN fields : k \in DOMAIN fields' /\ fields'[k] = fields[k]
         /\ \A k \in DOMAIN fields' : k \notin DOMAIN fields =>
              /\ k = Len(fields) + 1
              /\ fields'[k].entries = <<>>
              /\ fields'[k].type = type
              /\ \A l \in DOMAIN fields : fields[l].type # type
<1>1. fields \in Seq(Field)
  BY DEF TypeOK
<1>2. CASE FieldsOfType(type) # {}
  BY <1>2 DEF OpenField
<1>3. CASE FieldsOfType(type) = {}
  <2>1. fields' = Append(fields, NewField(type))
    BY <1>3 DEF OpenField
  <2>2. \A l \in DOMAIN fields : fields[l].type # type
    BY <1>3 DEF FieldsOfType
  <2>3. NewField(type).entries = <<>> /\ NewField(type).type = type
    BY DEF NewField
  <2>. HIDE DEF NewField
  <2>. QED  BY <1>1, <2>1, <2>2, <2>3
<1>. QED  BY <1>2, <1>3

\* DiscardField empties the current field and touches no other.
LEMMA DiscardFieldEffect ==
  ASSUME TypeOK, NEW size \in Word, EntryRefused(size)
  PROVE  /\ DOMAIN fields' = DOMAIN fields
         /\ \A k \in DOMAIN fields : k # cur => fields'[k] = fields[k]
         /\ fields'[cur].entries = <<>>
         /\ freed' = freed \cup {cur}
<1>1. fields \in Seq(Field) /\ cur \in DOMAIN fields
  BY DEF TypeOK, EntryRefused, ReadEntryHeader
<1>2. fields' = [fields EXCEPT ![cur] = FinalizedField] /\ freed' = freed \cup {cur}
  BY DEF EntryRefused, DiscardField
<1>3. FinalizedField.entries = <<>>
  BY DEF FinalizedField, NewField
<1>. QED  BY <1>1, <1>2, <1>3

\* The offset and size of a stored entry are numbers.
LEMMA StoredEntryType ==
  ASSUME TypeOK, NEW k \in DOMAIN fields, NEW n \in DOMAIN fields[k].entries
  PROVE  fields[k].entries[n].offset \in Nat /\ fields[k].entries[n].size \in Nat
<1>1. fields[k] \in Field
  BY DEF TypeOK
<1>2. fields[k].entries \in Seq(Entry)
  BY <1>1 DEF Field
<1>3. fields[k].entries[n] \in Entry
  BY <1>2
<1>. QED  BY <1>3, WordIsNat DEF Entry

\* The invariant holds before anything is read: there are no entries.
LEMMA InvInit == Init => IInv
<1>. SUFFICES ASSUME Init PROVE IInv  OBVIOUS
<1>1. TypeOK
  BY TypeInit
<1>2. fields = <<>> /\ freed = {} /\ p = 0 /\ reach = 0 /\ body_size = 0
  BY DEF Init
<1>. QED
  BY <1>1, <1>2 DEF IInv, CursorInBody, EntriesBehindCursor, StoredRangesDisjoint, TypesUnique,
     FreedAtReturn, ReadOverhangBounded, FIELD_HEADER_SIZE

\* The steps that leave the packet and the cursor alone.
LEMMA QuietStep ==
  ASSUME IInv, UNCHANGED <<packet, p>>,
         reach' = reach, pc' # "header",
         body_size' = body_size \/ (pc = "header" /\ body_size' \in Nat),
         (pc' = "returned" /\ ok' = FALSE) \/ pc # "returned"
  PROVE  /\ CursorInBody' /\ EntriesBehindCursor' /\ StoredRangesDisjoint'
         /\ TypesUnique' /\ FreedAtReturn' /\ ReadOverhangBounded'
<1>. USE DEF IInv, packet
<1>1. CursorInBody'
  BY DEF CursorInBody, TypeOK
<1>2. EntriesBehindCursor'
  BY DEF EntriesBehindCursor
<1>3. StoredRangesDisjoint'
  BY DEF StoredRangesDisjoint
<1>4. TypesUnique'
  BY DEF TypesUnique
<1>5. FreedAtReturn'
  BY DEF FreedAtReturn
<1>6. ReadOverhangBounded'
  BY DEF ReadOverhangBounded, CursorInBody, FIELD_HEADER_SIZE, TypeOK
<1>. QED  BY <1>1, <1>2, <1>3, <1>4, <1>5, <1>6

\* A refused field header: only the mark of what was read moves, and the decoder
\* returns.
LEMMA FieldRefusedKeepsInv ==
  ASSUME IInv, NEW type \in Types, NEW count \in Word, FieldRefused(type, count)
  PROVE  IInv'
<1>1. /\ UNCHANGED <<serial, locals, packet>> /\ pc' = "returned" /\ ok' = FALSE
      /\ pc = "field" /\ p < body_size /\ reach' = p + FIELD_HEADER_SIZE
  BY DEF FieldRefused, ReadFieldHeader, Return
<1>2. TypeOK'
  BY TypeStep DEF IInv, Next
<1>. USE DEF IInv, serial, locals, packet
<1>3. CursorInBody'
  BY <1>1 DEF CursorInBody
<1>4. EntriesBehindCursor' /\ StoredRangesDisjoint' /\ TypesUnique'
  BY <1>1 DEF EntriesBehindCursor, StoredRangesDisjoint, TypesUnique
<1>5. FreedAtReturn'
  BY <1>1 DEF FreedAtReturn
<1>6. ReadOverhangBounded'
  BY <1>1 DEF ReadOverhangBounded, FIELD_HEADER_SIZE, TypeOK
<1>. QED  BY <1>2, <1>3, <1>4, <1>5, <1>6

\* A new field has no entries, and its type is one no field had.
LEMMA OpenFieldKeepsInv ==
  ASSUME IInv, NEW type \in Types, NEW count \in Word, OpenField(type, count)
  PROVE  IInv'
<1>1. /\ pc = "field" /\ pc' = "entry" /\ p < body_size
      /\ reach' = p + FIELD_HEADER_SIZE /\ p' = p + FIELD_HEADER_SIZE
      /\ p + FIELD_HEADER_SIZE + count * ENTRY_HEADER_SIZE <= body_size
      /\ UNCHANGED <<body_size, freed>>
  BY DEF OpenField, ReadFieldHeader, EntryHeadersFit, serial
<1>2. TypeOK /\ TypeOK'
  BY TypeStep DEF IInv, Next
<1>. DEFINE Kept(k) == k \in DOMAIN fields /\ k \in DOMAIN fields' /\ fields'[k] = fields[k]
            Added(k) == /\ fields'[k].entries = <<>> /\ fields'[k].type = type
                        /\ k = Len(fields) + 1
                        /\ \A l \in DOMAIN fields : fields[l].type # type
<1>3. \A k \in DOMAIN fields' : Kept(k) \/ Added(k)
  BY <1>2, OpenFieldEffect
<1>4. CursorInBody'
  <2>1. count \in Nat /\ p \in Nat /\ body_size \in Nat
    BY <1>2, WordIsNat DEF TypeOK
  <2>2. p + 4 <= body_size
    BY <1>1, <2>1 DEF FIELD_HEADER_SIZE, ENTRY_HEADER_SIZE
  <2>. QED
    BY <1>1, <2>1, <2>2 DEF CursorInBody, FIELD_HEADER_SIZE
<1>5. EntriesBehindCursor'
  <2>. SUFFICES ASSUME NEW k \in DOMAIN fields', NEW n \in DOMAIN fields'[k].entries
                PROVE  /\ ENTRY_HEADER_SIZE <= fields'[k].entries[n].offset
                       /\ fields'[k].entries[n].offset + fields'[k].entries[n].size <= p'
    BY DEF EntriesBehindCursor, ENTRY_HEADER_SIZE
  <2>1. Kept(k)
    BY <1>3
  <2>. DEFINE offset == fields[k].entries[n].offset
              size   == fields[k].entries[n].size
  <2>2. k \in DOMAIN fields /\ n \in DOMAIN fields[k].entries
        /\ fields'[k].entries[n].offset = offset /\ fields'[k].entries[n].size = size
    BY <2>1
  <2>3. offset \in Nat /\ size \in Nat /\ p \in Nat
    BY <1>2, <2>2, StoredEntryType DEF TypeOK
  <2>4. ENTRY_HEADER_SIZE <= offset /\ offset + size <= p
    BY <2>2 DEF IInv, EntriesBehindCursor
  <2>5. p' = p + 4
    BY <1>1 DEF FIELD_HEADER_SIZE
  <2>. HIDE DEF offset, size, Kept, Added
  <2>6. offset + size <= p'
    BY <2>3, <2>4, <2>5
  <2>. QED
    BY <2>2, <2>4, <2>6
<1>6. StoredRangesDisjoint'
  <2>1. \A k \in DOMAIN fields' : \A n \in DOMAIN fields'[k].entries : Kept(k)
    BY <1>3
  <2>. QED
    BY <2>1 DEF IInv, StoredRangesDisjoint, ENTRY_HEADER_SIZE
<1>7. TypesUnique'
  <2>. SUFFICES ASSUME NEW k \in DOMAIN fields', NEW l \in DOMAIN fields',
                       k \notin freed, l \notin freed, fields'[k].type = fields'[l].type
                PROVE  k = l
    BY <1>1 DEF TypesUnique
  <2>1. CASE Kept(k) /\ Kept(l)
    BY <2>1 DEF IInv, TypesUnique
  <2>2. CASE Added(k) /\ Added(l)
    BY <2>2
  <2>3. CASE Kept(k) /\ Added(l)
    BY <2>3
  <2>4. CASE Added(k) /\ Kept(l)
    BY <2>4
  <2>. QED  BY <1>3, <2>1, <2>2, <2>3, <2>4
<1>8. FreedAtReturn'
  BY <1>1 DEF IInv, FreedAtReturn
<1>9. ReadOverhangBounded'
  BY <1>1, <1>2 DEF ReadOverhangBounded, FIELD_HEADER_SIZE, TypeOK
<1>. QED  BY <1>2, <1>4, <1>5, <1>6, <1>7, <1>8, <1>9 DEF IInv

\* A refused entry: its field is emptied, no other entry moves, and the decoder
\* returns FALSE.
LEMMA EntryRefusedKeepsInv ==
  ASSUME IInv, NEW size \in Word, EntryRefused(size)
  PROVE  IInv'
<1>1. /\ pc = "entry" /\ pc' = "returned" /\ ok' = FALSE
      /\ reach' = p + ENTRY_HEADER_SIZE
      /\ UNCHANGED <<body_size, p, cur>>
  BY DEF EntryRefused, ReadEntryHeader, DiscardField, Return, serial
<1>2. TypeOK /\ TypeOK' /\ cur \in DOMAIN fields
  BY <1>1, TypeStep DEF IInv, Next, TypeOK
<1>3. /\ DOMAIN fields' = DOMAIN fields
      /\ \A k \in DOMAIN fields : k # cur => fields'[k] = fields[k]
      /\ fields'[cur].entries = <<>>
      /\ freed' = freed \cup {cur}
  BY <1>2, DiscardFieldEffect
<1>4. \A k \in DOMAIN fields' : \A n \in DOMAIN fields'[k].entries :
        k \in DOMAIN fields /\ k # cur /\ fields'[k] = fields[k]
  BY <1>3
<1>5. CursorInBody'
  BY <1>1, <1>2 DEF IInv, CursorInBody
<1>6. EntriesBehindCursor'
  BY <1>1, <1>4 DEF IInv, EntriesBehindCursor
<1>7. StoredRangesDisjoint'
  BY <1>4 DEF IInv, StoredRangesDisjoint
<1>8. TypesUnique'
  BY <1>3 DEF IInv, TypesUnique
<1>9. FreedAtReturn'
  BY <1>1 DEF FreedAtReturn
<1>10. ReadOverhangBounded'
  BY <1>1, <1>2 DEF IInv, CursorInBody, ReadOverhangBounded, TypeOK, FIELD_HEADER_SIZE,
     ENTRY_HEADER_SIZE
<1>. QED  BY <1>2, <1>5, <1>6, <1>7, <1>8, <1>9, <1>10 DEF IInv

\* A stored entry starts two bytes after the old cursor, behind which all older
\* entries end, and ends at the new cursor, still in the body.
LEMMA AddEntryKeepsInv ==
  ASSUME IInv, NEW size \in Word, AddEntry(size)
  PROVE  IInv'
<1>1. /\ pc = "entry" /\ pc' = "entry" /\ p' = p + 2 + size /\ reach' = p + 2 + size
      /\ p + 2 + size <= body_size
      /\ UNCHANGED <<body_size, freed, ok>>
  BY DEF AddEntry, ReadEntryHeader, EntryFits, AfterEntry, ENTRY_HEADER_SIZE, serial
<1>2. TypeOK /\ TypeOK' /\ size \in Nat /\ p \in Nat /\ body_size \in Nat
  BY TypeStep, WordIsNat DEF IInv, Next, TypeOK
<1>. DEFINE e == [offset |-> p + 2, size |-> size]
            Old(k, n) == /\ k \in DOMAIN fields /\ n \in DOMAIN fields[k].entries
                         /\ fields'[k].entries[n] = fields[k].entries[n]
            New(k, n) == /\ k = cur /\ n = Len(fields[cur].entries) + 1
                         /\ fields'[k].entries[n] = e
<1>3. /\ DOMAIN fields' = DOMAIN fields
      /\ \A k \in DOMAIN fields : fields'[k].type = fields[k].type
      /\ \A k \in DOMAIN fields' : \A n \in DOMAIN fields'[k].entries : Old(k, n) \/ New(k, n)
  BY <1>2, AddEntryEffect DEF ENTRY_HEADER_SIZE
<1>4. ASSUME NEW k, NEW n, Old(k, n)
      PROVE  /\ fields[k].entries[n].offset \in Nat /\ fields[k].entries[n].size \in Nat
             /\ 2 <= fields[k].entries[n].offset
             /\ fields[k].entries[n].offset + fields[k].entries[n].size <= p
  <2>1. fields[k].entries[n].offset \in Nat /\ fields[k].entries[n].size \in Nat
    BY <1>2, <1>4, StoredEntryType
  <2>. QED  BY <1>4, <2>1 DEF IInv, EntriesBehindCursor, ENTRY_HEADER_SIZE
<1>5. CursorInBody'
  BY <1>1, <1>2 DEF CursorInBody
<1>6. EntriesBehindCursor'
  <2>. SUFFICES ASSUME NEW k \in DOMAIN fields', NEW n \in DOMAIN fields'[k].entries
                PROVE  /\ 2 <= fields'[k].entries[n].offset
                       /\ fields'[k].entries[n].offset + fields'[k].entries[n].size <= p'
    BY DEF EntriesBehindCursor, ENTRY_HEADER_SIZE
  <2>1. CASE Old(k, n)
    BY <1>1, <1>2, <1>4, <2>1
  <2>2. CASE New(k, n)
    BY <1>1, <1>2, <2>2
  <2>. QED  BY <1>3, <2>1, <2>2
<1>7. StoredRangesDisjoint'
  <2>. DEFINE Apart(a, b) == \/ a.offset + a.size + 2 <= b.offset
                             \/ b.offset + b.size + 2 <= a.offset
  <2>. SUFFICES ASSUME NEW k \in DOMAIN fields', NEW l \in DOMAIN fields',
                       NEW n \in DOMAIN fields'[k].entries, NEW m \in DOMAIN fields'[l].entries,
                       <<k, n>> # <<l, m>>
                PROVE  Apart(fields'[k].entries[n], fields'[l].entries[m])
    BY DEF StoredRangesDisjoint, ENTRY_HEADER_SIZE
  <2>1. CASE Old(k, n) /\ Old(l, m)
    BY <2>1 DEF IInv, StoredRangesDisjoint, ENTRY_HEADER_SIZE
  <2>2. CASE New(k, n) /\ New(l, m)
    BY <2>2
  <2>3. CASE Old(k, n) /\ New(l, m)
    BY <1>2, <1>4, <2>3
  <2>4. CASE New(k, n) /\ Old(l, m)
    BY <1>2, <1>4, <2>4
  <2>. QED  BY <1>3, <2>1, <2>2, <2>3, <2>4
<1>8. TypesUnique'
  BY <1>1, <1>3 DEF IInv, TypesUnique
<1>9. FreedAtReturn'
  BY <1>1 DEF IInv, FreedAtReturn
<1>10. ReadOverhangBounded'
  BY <1>1, <1>2 DEF ReadOverhangBounded, FIELD_HEADER_SIZE
<1>. QED  BY <1>2, <1>5, <1>6, <1>7, <1>8, <1>9, <1>10 DEF IInv

\* Every step keeps the invariant; one lemma above per step that can disturb it.
LEMMA InvStep == IInv /\ [Next]_vars => IInv'
<1>. SUFFICES ASSUME IInv, [Next]_vars PROVE IInv'  OBVIOUS
<1>1. TypeOK /\ TypeOK'
  BY TypeStep DEF IInv
<1>. USE DEF input, serial, packet, locals, vars, Return
<1>2. CASE UnserializeHeader
  <2>1. CASE header.version = Version
    <3>1. body_size' \in Nat
      BY <1>1 DEF TypeOK
    <3>. QED  BY <1>1, <1>2, <2>1, <3>1, QuietStep DEF UnserializeHeader, IInv
  <2>2. CASE header.version # Version
    BY <1>1, <1>2, <2>2, QuietStep DEF UnserializeHeader, IInv
  <2>. QED  BY <2>1, <2>2
<1>3. CASE EnterBody
  BY <1>1, <1>3, QuietStep DEF EnterBody, IInv
<1>4. CASE PastEnd
  BY <1>1, <1>4, QuietStep DEF PastEnd, IInv
<1>5. CASE NextField
  BY <1>1, <1>5, QuietStep DEF NextField, IInv
<1>6. CASE Finish
  BY <1>1, <1>6, QuietStep DEF Finish, IInv
<1>7. CASE UNCHANGED vars
  BY <1>1, <1>7 DEF IInv, CursorInBody, EntriesBehindCursor, StoredRangesDisjoint, TypesUnique,
     FreedAtReturn, ReadOverhangBounded
<1>. QED
  BY <1>2, <1>3, <1>4, <1>5, <1>6, <1>7, FieldRefusedKeepsInv, OpenFieldKeepsInv,
     EntryRefusedKeepsInv, AddEntryKeepsInv DEF Next

\* The inductive invariant of unserialize_header and unserialize_body.
THEOREM Invariance == Spec => []IInv
  BY InvInit, InvStep, PTL DEF Spec

\* Whatever a peer announces, an entry is copied from inside the body
\* (serial_packet.c:194).
THEOREM StoredEntriesInside == Spec => []EntriesWithinBody
<1>1. IInv => EntriesWithinBody
  <2>. SUFFICES ASSUME IInv, NEW k \in DOMAIN fields, NEW n \in DOMAIN fields[k].entries
                PROVE  fields[k].entries[n].offset + fields[k].entries[n].size <= body_size
    BY DEF EntriesWithinBody
  <2>1. p \in Nat /\ body_size \in Nat
    BY DEF IInv, TypeOK
  <2>2. fields[k].entries[n].offset \in Nat /\ fields[k].entries[n].size \in Nat
    BY StoredEntryType DEF IInv
  <2>. QED  BY <2>1, <2>2 DEF IInv, EntriesBehindCursor, CursorInBody
<1>. QED  BY <1>1, Invariance, PTL

\* No byte of the body is stored twice or read both as a header and as data,
\* also when records of one type are merged.
THEOREM StoredEntriesDisjoint == Spec => []StoredRangesDisjoint
<1>1. IInv => StoredRangesDisjoint
  BY DEF IInv
<1>. QED  BY <1>1, Invariance, PTL

\* The decoder reads header words at most three bytes past the body.
THEOREM OverhangBounded == Spec => []ReadOverhangBounded
<1>1. IInv => ReadOverhangBounded
  BY DEF IInv
<1>. QED  BY <1>1, Invariance, PTL

\* get_or_add keeps the types of a decoded packet's live fields distinct.
THEOREM LiveTypesUnique == Spec => []TypesUnique
<1>1. IInv => TypesUnique
  BY DEF IInv
<1>. QED  BY <1>1, Invariance, PTL

\* A packet handed on after a successful decode links no freed field.
THEOREM SuccessIsAlive == Spec => []SuccessLeavesNoFreedField
<1>1. IInv => SuccessLeavesNoFreedField
  BY DEF IInv, FreedAtReturn, SuccessLeavesNoFreedField
<1>. QED  BY <1>1, Invariance, PTL

-----------------------------------------------------------------------------
(* The bytes the cursor passed *)

\* The bytes stored in each field.
AllStored(fs) == [k \in DOMAIN fs |-> BytesStored(fs[k])]

\* The bytes stored in a field are a number.
LEMMA BytesStoredType ==
  ASSUME NEW f \in Field
  PROVE  /\ [n \in DOMAIN f.entries |-> f.entries[n].size] \in Seq(Nat)
         /\ BytesStored(f) \in Nat
<1>. DEFINE es == f.entries
            s == [n \in DOMAIN es |-> es[n].size]
<1>1. es \in Seq(Entry)
  BY DEF Field
<1>. HIDE DEF es
<1>2. Len(es) \in Nat /\ DOMAIN es = 1 .. Len(es)
  BY <1>1
<1>3. \A n \in 1 .. Len(es) : es[n].size \in Nat
  <2>1. \A n \in 1 .. Len(es) : es[n] \in Entry
    BY <1>1
  <2>. QED  BY <2>1, WordIsNat DEF Entry
<1>4. s \in [1 .. Len(es) -> Nat]
  BY <1>2, <1>3
<1>. HIDE DEF s
<1>5. s \in Seq(Nat)
  BY <1>2, <1>4
<1>6. Total(s) \in Nat
  BY <1>5, TotalIsNat
<1>7. 2 * Len(es) + Total(s) \in Nat
  BY <1>2, <1>6
<1>. QED  BY <1>5, <1>7 DEF BytesStored, ENTRY_HEADER_SIZE, es, s

\* An entry that is added is stored, whatever its field has counted so far.
LEMMA BytesAdded ==
  ASSUME NEW f \in Field, NEW offset \in Nat, NEW size \in Word
  PROVE  BytesStored(WithEntry(f, offset, size)) = BytesStored(f) + 2 + size
<1>. DEFINE e == [offset |-> offset, size |-> size]
            es == f.entries
            s == [n \in DOMAIN es |-> es[n].size]
            fs == Append(es, e)
            t == [n \in DOMAIN fs |-> fs[n].size]
<1>1. WithEntry(f, offset, size).entries = fs
  BY WithEntryType
<1>2. s \in Seq(Nat) /\ es \in Seq(Entry) /\ e \in Entry /\ size \in Nat
  BY BytesStoredType, WordIsNat DEF Field, Entry
<1>3. e.size = size
  OBVIOUS
<1>. HIDE DEF es, e
<1>4. /\ Len(es) \in Nat /\ DOMAIN es = 1 .. Len(es)
      /\ DOMAIN fs = 1 .. Len(es) + 1 /\ Len(fs) = Len(es) + 1
      /\ fs[Len(es) + 1] = e /\ \A n \in 1 .. Len(es) : fs[n] = es[n]
  BY <1>2
<1>. HIDE DEF fs
<1>5. t = Append(s, size)
  <2>1. DOMAIN s = 1 .. Len(es) /\ \A n \in 1 .. Len(es) : s[n] = es[n].size
    BY <1>4
  <2>2. Len(s) = Len(es)
    BY <1>2, <1>4, <2>1
  <2>3. t = [n \in 1 .. Len(es) + 1 |-> fs[n].size]
    BY <1>4
  <2>4. /\ t[Len(es) + 1] = size
        /\ \A n \in 1 .. Len(es) : t[n] = s[n]
    BY <1>3, <1>4, <2>1, <2>3
  <2>5. \A n \in 1 .. Len(es) + 1 : t[n] \in Nat
    <3>. SUFFICES ASSUME NEW n \in 1 .. Len(es) + 1 PROVE t[n] \in Nat
      OBVIOUS
    <3>1. CASE n = Len(es) + 1
      BY <1>2, <2>4, <3>1
    <3>2. CASE n # Len(es) + 1
      <4>. HIDE DEF s, t
      <4>1. n \in 1 .. Len(es)
        BY <1>4, <3>2
      <4>2. t[n] = s[n] /\ s[n] \in Nat
        BY <1>2, <2>2, <2>4, <4>1
      <4>. QED  BY <4>2
    <3>. QED  BY <3>1, <3>2
  <2>. HIDE DEF s
  <2>6. t \in [1 .. Len(es) + 1 -> Nat]
    BY <2>3, <2>5
  <2>. HIDE DEF t
  <2>7. t \in Seq(Nat) /\ Len(t) = Len(s) + 1
    BY <1>4, <2>2, <2>6
  <2>. QED  BY <1>2, <1>4, <2>2, <2>4, <2>7
<1>. HIDE DEF s, t
<1>6. Total(t) = Total(s) + size /\ Total(s) \in Nat
  BY <1>2, <1>5, TotalAppended, TotalIsNat
<1>7. 2 * (Len(es) + 1) + Total(t) = (2 * Len(es) + Total(s)) + 2 + size
  BY ONLY <1>2, <1>4, <1>6
<1>8. BytesStored(WithEntry(f, offset, size)) = 2 * (Len(es) + 1) + Total(t)
  BY <1>1, <1>4 DEF BytesStored, ENTRY_HEADER_SIZE, t
<1>9. BytesStored(f) = 2 * Len(es) + Total(s)
  BY DEF BytesStored, ENTRY_HEADER_SIZE, es, s
<1>. QED  BY <1>7, <1>8, <1>9

\* What the fields of a packet store is a sequence of numbers.
LEMMA AllStoredType ==
  ASSUME NEW fs \in Seq(Field)
  PROVE  /\ AllStored(fs) \in Seq(Nat) /\ Len(AllStored(fs)) = Len(fs)
         /\ \A k \in 1 .. Len(fs) : AllStored(fs)[k] = BytesStored(fs[k])
<1>1. Len(fs) \in Nat /\ DOMAIN fs = 1 .. Len(fs) /\ \A k \in 1 .. Len(fs) : fs[k] \in Field
  OBVIOUS
<1>2. AllStored(fs) = [k \in 1 .. Len(fs) |-> BytesStored(fs[k])]
  BY <1>1 DEF AllStored
<1>3. \A k \in 1 .. Len(fs) : BytesStored(fs[k]) \in Nat
  BY <1>1, BytesStoredType
<1>4. AllStored(fs) \in [1 .. Len(fs) -> Nat]
  BY <1>2, <1>3
<1>. QED  BY <1>1, <1>2, <1>4

\* Before the first field nothing has been passed, and only Finish succeeds.
Started ==
    /\ pc \in {"header", "body"} => p = 0 /\ i = 0 /\ fields = <<>>
    /\ ok => pc = "returned"

\* A field record that is opened moves the cursor over its header.
LEMMA OpenFieldSkipsNothing ==
  ASSUME TypeOK, NothingSkipped, NEW type \in Types, NEW count \in Word, OpenField(type, count)
  PROVE  NothingSkipped'
<1>1. pc = "field" /\ pc' = "entry" /\ p' = p + 4 /\ i' = i
  BY DEF OpenField, ReadFieldHeader, FIELD_HEADER_SIZE
<1>2. fields \in Seq(Field) /\ i \in Nat /\ p \in Nat
  BY DEF TypeOK
<1>3. p = 4 * i + Total(AllStored(fields))
  BY <1>1, <1>2 DEF NothingSkipped, FIELD_HEADER_SIZE, AllStored
<1>4. Total(AllStored(fields')) = Total(AllStored(fields))
  <2>1. CASE fields' = fields
    BY <2>1
  <2>2. CASE fields' = Append(fields, NewField(type))
    <3>. DEFINE f == NewField(type)
    <3>1. f \in Field
      BY WordIsNat DEF NewField, Field
    <3>2. BytesStored(f) = 0
      <4>1. f.entries = <<>> /\ Len(f.entries) = 0
        BY DEF NewField
      <4>2. [n \in DOMAIN f.entries |-> f.entries[n].size] = <<>>
        BY <4>1
      <4>3. <<>> \in Seq(Nat) /\ Total(<<>>) = 0
        BY TotalEmpty
      <4>. QED  BY <4>1, <4>2, <4>3 DEF BytesStored, ENTRY_HEADER_SIZE
    <3>. HIDE DEF f
    <3>3. /\ fields' \in Seq(Field) /\ Len(fields') = Len(fields) + 1 /\ Len(fields) \in Nat
          /\ fields'[Len(fields) + 1] = f
          /\ \A k \in 1 .. Len(fields) : fields'[k] = fields[k]
      BY <1>2, <2>2, <3>1 DEF f
    <3>. DEFINE s == AllStored(fields)
                t == AllStored(fields')
    <3>4. /\ s \in Seq(Nat) /\ Len(s) = Len(fields)
          /\ \A k \in 1 .. Len(fields) : s[k] = BytesStored(fields[k])
      BY <1>2, AllStoredType
    <3>5. /\ t \in Seq(Nat) /\ Len(t) = Len(fields) + 1
          /\ \A k \in 1 .. Len(fields) + 1 : t[k] = BytesStored(fields'[k])
      BY <3>3, AllStoredType
    <3>. HIDE DEF s, t
    <3>6. t[Len(s) + 1] = 0 /\ \A k \in 1 .. Len(s) : t[k] = s[k]
      BY <3>2, <3>3, <3>4, <3>5
    <3>7. t = Append(s, 0)
      <4>1. DOMAIN t = 1 .. Len(s) + 1
        BY <3>3, <3>4, <3>5
      <4>. QED  BY <3>4, <3>5, <3>6, <4>1
    <3>. QED  BY <3>4, <3>7, TotalAppended, TotalIsNat DEF s, t
  <2>. QED  BY <2>1, <2>2 DEF OpenField
<1>5. AllStored(fields) \in Seq(Nat)
  BY <1>2, AllStoredType
<1>6. p' = 4 * (i' + 1) + Total(AllStored(fields'))
  BY <1>1, <1>2, <1>3, <1>4, <1>5, TotalIsNat
<1>. QED  BY <1>1, <1>6 DEF NothingSkipped, FIELD_HEADER_SIZE, AllStored

\* An entry that is added moves the cursor over itself.
LEMMA AddEntrySkipsNothing ==
  ASSUME TypeOK, NothingSkipped, Started, NEW size \in Word, AddEntry(size)
  PROVE  NothingSkipped'
<1>1. /\ pc = "entry" /\ pc' = "entry" /\ p' = p + 2 + size /\ i' = i
      /\ fields' = [fields EXCEPT ![cur] = WithEntry(fields[cur], p + 2, size)]
  BY DEF AddEntry, ReadEntryHeader, AfterEntry, ENTRY_HEADER_SIZE
<1>2. /\ fields \in Seq(Field) /\ i \in Nat /\ p \in Nat /\ p + 2 \in Nat /\ size \in Nat
      /\ cur \in 1 .. Len(fields) /\ Len(fields) \in Nat
  BY <1>1, WordIsNat DEF TypeOK
<1>3. p = 4 * (i + 1) + Total(AllStored(fields))
  BY <1>1 DEF NothingSkipped, FIELD_HEADER_SIZE, AllStored
<1>4. fields[cur] \in Field
  BY <1>2
<1>. DEFINE g == WithEntry(fields[cur], p + 2, size)
            s == AllStored(fields)
            t == AllStored(fields')
<1>5. g \in Field
  BY <1>2, <1>4, WithEntryType
<1>6. BytesStored(g) = BytesStored(fields[cur]) + (2 + size) /\ BytesStored(fields[cur]) \in Nat
  <2>1. BytesStored(fields[cur]) \in Nat
    BY <1>4, BytesStoredType
  <2>2. BytesStored(g) = BytesStored(fields[cur]) + 2 + size
    BY <1>2, <1>4, BytesAdded
  <2>. HIDE DEF g
  <2>. QED  BY <1>2, <2>1, <2>2
<1>. HIDE DEF g
<1>7. /\ fields' \in Seq(Field) /\ Len(fields') = Len(fields) /\ fields'[cur] = g
      /\ \A k \in 1 .. Len(fields) : k # cur => fields'[k] = fields[k]
  BY <1>1, <1>2, <1>5 DEF g
<1>8. /\ s \in Seq(Nat) /\ Len(s) = Len(fields)
      /\ \A k \in 1 .. Len(fields) : s[k] = BytesStored(fields[k])
  BY <1>2, AllStoredType
<1>9. /\ t \in Seq(Nat) /\ Len(t) = Len(fields)
      /\ \A k \in 1 .. Len(fields) : t[k] = BytesStored(fields'[k])
  BY <1>7, AllStoredType
<1>. HIDE DEF s, t
<1>10. /\ t[cur] = s[cur] + (2 + size) /\ 2 + size \in Nat /\ cur \in 1 .. Len(s)
       /\ \A k \in 1 .. Len(s) : k # cur => t[k] = s[k]
  BY <1>2, <1>6, <1>7, <1>8, <1>9
<1>11. Total(t) = Total(s) + (2 + size) /\ Total(s) \in Nat
  BY <1>8, <1>9, <1>10, TotalRaised, TotalIsNat
<1>12. p' = 4 * (i' + 1) + Total(t)
  <2>1. p = 4 * (i + 1) + Total(s)
    BY <1>3 DEF s
  <2>. QED  BY <1>1, <1>2, <1>11, <2>1
<1>. QED  BY <1>1, <1>12 DEF NothingSkipped, FIELD_HEADER_SIZE, AllStored, t, Started

\* No step of the decoder moves the cursor over a byte it does not store.
LEMMA SkipStep ==
  TypeOK /\ NothingSkipped /\ Started /\ [Next]_vars => NothingSkipped' /\ Started'
<1>. SUFFICES ASSUME TypeOK, NothingSkipped, Started, [Next]_vars
              PROVE  NothingSkipped' /\ Started'
  OBVIOUS
<1>1. CASE UnserializeHeader
  BY <1>1 DEF UnserializeHeader, Return, NothingSkipped, Started, packet, locals
<1>2. CASE EnterBody
  <2>1. CASE pc' = "returned"
    BY <1>2, <2>1 DEF EnterBody, Return, NothingSkipped, Started
  <2>2. CASE pc' = "field"
    <3>1. p' = 0 /\ i' = 0 /\ fields' = <<>> /\ ok' = ok /\ ~ok
      BY <1>2, <2>2 DEF EnterBody, Return, Started, packet, locals
    <3>2. [k \in DOMAIN fields' |-> BytesStored(fields'[k])] = <<>>
      BY <3>1
    <3>3. Total(<<>>) = 0
      BY TotalEmpty
    <3>. QED  BY <2>2, <3>1, <3>2, <3>3 DEF NothingSkipped, Started, FIELD_HEADER_SIZE
  <2>. QED  BY <1>2, <2>1, <2>2 DEF EnterBody, Return
<1>3. CASE PastEnd
  BY <1>3 DEF PastEnd, Return, NothingSkipped, Started
<1>4. ASSUME NEW type \in Types, NEW count \in Word, FieldRefused(type, count)
      PROVE  NothingSkipped' /\ Started'
  BY <1>4 DEF FieldRefused, Return, NothingSkipped, Started
<1>5. ASSUME NEW type \in Types, NEW count \in Word, OpenField(type, count)
      PROVE  NothingSkipped' /\ Started'
  BY <1>5, OpenFieldSkipsNothing DEF OpenField, ReadFieldHeader, Started
<1>6. ASSUME NEW size \in Word, EntryRefused(size)
      PROVE  NothingSkipped' /\ Started'
  BY <1>6 DEF EntryRefused, DiscardField, Return, NothingSkipped, Started
<1>7. ASSUME NEW size \in Word, AddEntry(size)
      PROVE  NothingSkipped' /\ Started'
  BY <1>7, AddEntrySkipsNothing DEF AddEntry, ReadEntryHeader, Started
<1>8. CASE NextField
  <2>1. pc = "entry" /\ pc' = "field" /\ i' = i + 1 /\ UNCHANGED <<p, fields, ok>> /\ i \in Nat
    BY <1>8 DEF NextField, packet, TypeOK
  <2>. QED  BY <2>1 DEF NothingSkipped, Started
<1>9. CASE Finish
  BY <1>9 DEF Finish, Return, NothingSkipped, Started, packet, locals
<1>10. CASE UNCHANGED vars
  BY <1>10 DEF vars, packet, locals, NothingSkipped, Started
<1>. QED  BY <1>1, <1>2, <1>3, <1>4, <1>5, <1>6, <1>7, <1>8, <1>9, <1>10 DEF Next

\* For every body: the cursor passes nothing but the headers of fields and the
\* entries that end up in the packet, however many records of one type are
\* merged and however often the count of their field wraps.
THEOREM SkipsNothing == Spec => []NothingSkipped
<1>1. Init => NothingSkipped /\ Started
  BY DEF Init, NothingSkipped, Started
<1>. QED  BY <1>1, TypeCorrect, SkipStep, PTL DEF Spec

-----------------------------------------------------------------------------
(* The layout of a packet *)

\* A packet a peer sends is a sequence of fields, each of a type of its own.
LEMMA PacketIs ==
  ASSUME NEW pkt \in Packets
  PROVE  /\ Len(pkt) \in Nat /\ DOMAIN pkt = 1 .. Len(pkt)
         /\ \A k \in 1 .. Len(pkt) :
              /\ pkt[k].type \in Types
              /\ pkt[k].sizes \in Seq(Nat)
              /\ Len(pkt[k].sizes) \in Nat
              /\ DOMAIN pkt[k].sizes = 1 .. Len(pkt[k].sizes)
         /\ \A k, l \in 1 .. Len(pkt) : pkt[k].type = pkt[l].type => k = l
<1>1. pkt \in Seq([type : Types, sizes : Seq(Word)])
  BY PacketsAssumption
<1>2. Len(pkt) \in Nat /\ DOMAIN pkt = 1 .. Len(pkt)
  BY <1>1
<1>3. ASSUME NEW k \in 1 .. Len(pkt)
      PROVE  pkt[k].type \in Types /\ pkt[k].sizes \in Seq(Nat)
  <2>1. pkt[k] \in [type : Types, sizes : Seq(Word)]
    <3> DEFINE R == [type : Types, sizes : Seq(Word)]
    <3>1. pkt \in Seq(R)
      BY <1>1
    <3> HIDE DEF R
    <3>2. pkt[k] \in R
      BY <3>1
    <3> QED
      BY <3>2 DEF R
  <2> DEFINE t == pkt[k].sizes
  <2>2. pkt[k].type \in Types /\ t \in Seq(Word)
    BY <2>1
  <2> HIDE DEF t
  <2>3. Len(t) \in Nat /\ t \in [1 .. Len(t) -> Word]
    BY <2>2
  <2>4. t \in [1 .. Len(t) -> Nat]
    BY <2>3, WordIsNat
  <2>5. t \in Seq(Nat)
    BY <2>3, <2>4
  <2> QED
    BY <2>2, <2>5 DEF t
<1>4. \A k, l \in 1 .. Len(pkt) : pkt[k].type = pkt[l].type => k = l
  BY <1>2, PacketsAssumption
<1> QED
  BY <1>2, <1>3, <1>4

\* The sizes of the fields of a packet.
LEMMA LayoutIs ==
  ASSUME NEW pkt \in Packets
  PROVE  /\ Layout(pkt) \in Seq(Nat) /\ Len(Layout(pkt)) = Len(pkt)
         /\ \A k \in 1 .. Len(pkt) :
              /\ Layout(pkt)[k] = 4 + 2 * Len(pkt[k].sizes) + Total(pkt[k].sizes)
              /\ Total(pkt[k].sizes) \in Nat
<1>1. ASSUME NEW k \in 1 .. Len(pkt)
      PROVE  Total(pkt[k].sizes) \in Nat /\ Len(pkt[k].sizes) \in Nat
  <2>1. pkt[k].sizes \in Seq(Nat) /\ Len(pkt[k].sizes) \in Nat
    BY PacketIs
  <2>2. Sums(pkt[k].sizes) \in [0 .. Len(pkt[k].sizes) -> Nat]
    BY <2>1, SumsAre
  <2> QED
    BY <2>1, <2>2 DEF Total
<1>2. \A k \in 1 .. Len(pkt) : 4 + 2 * Len(pkt[k].sizes) + Total(pkt[k].sizes) \in Nat
  BY <1>1
<1>3. Layout(pkt) = [k \in 1 .. Len(pkt) |-> 4 + 2 * Len(pkt[k].sizes) + Total(pkt[k].sizes)]
  BY PacketIs DEF Layout, FieldBytes, FIELD_HEADER_SIZE, ENTRY_HEADER_SIZE
<1> HIDE DEF Layout
<1>4. Layout(pkt) \in [1 .. Len(pkt) -> Nat]
  BY <1>2, <1>3
<1>5. Layout(pkt) \in Seq(Nat) /\ Len(Layout(pkt)) = Len(pkt)
  BY <1>4, PacketIs
<1> QED
  BY <1>1, <1>3, <1>5

\* Field follows field, from the start of the body to its end.
LEMMA FieldPlaces ==
  ASSUME NEW pkt \in Packets
  PROVE  /\ BodySize(pkt) \in Nat
         /\ FieldAt(pkt, 1) = 0
         /\ FieldAt(pkt, Len(pkt) + 1) = BodySize(pkt)
         /\ BodySize(pkt) >= Len(pkt) * 4
         /\ \A k \in 1 .. Len(pkt) :
              /\ FieldAt(pkt, k) \in Nat
              /\ FieldAt(pkt, k + 1) \in Nat
              /\ FieldAt(pkt, k + 1)
                   = FieldAt(pkt, k) + (4 + 2 * Len(pkt[k].sizes) + Total(pkt[k].sizes))
              /\ FieldAt(pkt, k + 1) <= BodySize(pkt)
<1> DEFINE s == Layout(pkt)
           f == Sums(s)
<1>1. s \in Seq(Nat) /\ Len(s) = Len(pkt) /\ Len(pkt) \in Nat
  BY LayoutIs, PacketIs
<1>2. \A k \in 1 .. Len(pkt) :
        s[k] = 4 + 2 * Len(pkt[k].sizes) + Total(pkt[k].sizes) /\ s[k] >= 4
  BY LayoutIs, PacketIs
<1>3. \A k : FieldAt(pkt, k) = f[k - 1]
  BY DEF FieldAt
<1>4. BodySize(pkt) = f[Len(pkt)]
  BY <1>1 DEF BodySize, Total
<1> HIDE DEF s
<1>5. /\ f \in [0 .. Len(pkt) -> Nat] /\ f[0] = 0
      /\ \A k \in 1 .. Len(pkt) : f[k] = f[k - 1] + s[k]
  BY <1>1, SumsAre
<1>6. \A k \in 0 .. Len(pkt) : f[k] <= f[Len(pkt)]
  BY <1>1, SumsGrow
<1>7. f[Len(pkt)] >= Len(pkt) * 4
  <2>1. \A k \in 1 .. Len(s) : s[k] >= 4
    BY <1>1, <1>2
  <2>2. \A l \in 0 .. Len(s) : f[l] >= l * 4
    BY ONLY <1>1, <2>1, SumsAtLeast
  <2> HIDE DEF f
  <2> QED
    BY <1>1, <2>2
<1> HIDE DEF f
<1>8. ASSUME NEW k \in 1 .. Len(pkt)
      PROVE  /\ FieldAt(pkt, k) = f[k - 1] /\ FieldAt(pkt, k + 1) = f[k]
             /\ f[k - 1] \in Nat /\ f[k] \in Nat
             /\ f[k] = f[k - 1] + s[k] /\ f[k] <= f[Len(pkt)]
  <2>1. (k + 1) - 1 = k /\ k - 1 \in 0 .. Len(pkt) /\ k \in 0 .. Len(pkt)
    BY <1>1
  <2> QED
    BY <1>3, <1>5, <1>6, <2>1
<1>9. FieldAt(pkt, 1) = 0 /\ FieldAt(pkt, Len(pkt) + 1) = f[Len(pkt)]
  <2>1. 1 - 1 = 0 /\ (Len(pkt) + 1) - 1 = Len(pkt)
    BY <1>1
  <2> QED
    BY <1>3, <1>5, <2>1
<1>10. BodySize(pkt) \in Nat
  BY <1>1, <1>4, <1>5
<1> QED
  BY <1>2, <1>4, <1>7, <1>8, <1>9, <1>10

\* In a field, entry follows entry, from its header to the next field.
LEMMA EntryPlaces ==
  ASSUME NEW pkt \in Packets, NEW k \in 1 .. Len(pkt)
  PROVE  /\ EntryAt(pkt, k, 1) = FieldAt(pkt, k) + 4
         /\ EntryAt(pkt, k, Len(pkt[k].sizes) + 1) = FieldAt(pkt, k + 1)
         /\ \A n \in 1 .. Len(pkt[k].sizes) :
              /\ EntryAt(pkt, k, n) \in Nat
              /\ pkt[k].sizes[n] \in Nat
              /\ EntryAt(pkt, k, n + 1) = EntryAt(pkt, k, n) + 2 + pkt[k].sizes[n]
              /\ EntryAt(pkt, k, n + 1) <= BodySize(pkt)
<1> DEFINE s == pkt[k].sizes
           f == Sums(s)
           a == FieldAt(pkt, k)
           b == BodySize(pkt)
<1>1. s \in Seq(Nat) /\ Len(s) \in Nat
  BY PacketIs
<1>2. \A n \in 1 .. Len(s) : s[n] \in Nat
  <2> HIDE DEF s
  <2> QED
    BY ONLY <1>1
<1>3. a \in Nat /\ FieldAt(pkt, k + 1) = a + (4 + 2 * Len(s) + f[Len(s)])
      /\ FieldAt(pkt, k + 1) <= b /\ b \in Nat
  BY FieldPlaces DEF Total
<1>4. \A n : EntryAt(pkt, k, n) = a + 4 + 2 * (n - 1) + f[n - 1]
  BY DEF EntryAt, FIELD_HEADER_SIZE, ENTRY_HEADER_SIZE
<1> HIDE DEF s, a, b
<1>5. /\ f \in [0 .. Len(s) -> Nat] /\ f[0] = 0
      /\ \A n \in 1 .. Len(s) : f[n] = f[n - 1] + s[n]
  BY <1>1, SumsAre
<1>6. \A n \in 0 .. Len(s) : f[n] <= f[Len(s)]
  BY <1>1, SumsGrow
<1> HIDE DEF f
<1>7. EntryAt(pkt, k, 1) = a + 4
  <2>1. 1 - 1 = 0 /\ 2 * 0 = 0
    OBVIOUS
  <2>2. EntryAt(pkt, k, 1) = a + 4 + 2 * 0 + f[0]
    BY <1>4, <2>1
  <2> QED
    BY ONLY <1>3, <1>5, <2>2
<1>8. EntryAt(pkt, k, Len(s) + 1) = FieldAt(pkt, k + 1)
  <2>1. (Len(s) + 1) - 1 = Len(s)
    BY <1>1
  <2>2. EntryAt(pkt, k, Len(s) + 1) = a + 4 + 2 * Len(s) + f[Len(s)]
    BY <1>4, <2>1
  <2>3. f[Len(s)] \in Nat
    BY <1>1, <1>5
  <2> QED
    BY ONLY <1>1, <1>3, <2>2, <2>3
<1>9. ASSUME NEW n \in 1 .. Len(s)
      PROVE  /\ EntryAt(pkt, k, n) \in Nat
             /\ EntryAt(pkt, k, n + 1) = EntryAt(pkt, k, n) + 2 + s[n]
             /\ EntryAt(pkt, k, n + 1) <= b
  <2>1. (n + 1) - 1 = n /\ n \in Nat /\ n >= 1 /\ n <= Len(s)
    BY <1>1
  <2>2. EntryAt(pkt, k, n) = a + 4 + 2 * (n - 1) + f[n - 1]
        /\ EntryAt(pkt, k, n + 1) = a + 4 + 2 * n + f[n]
    BY <1>4, <2>1
  <2>3. f[n] = f[n - 1] + s[n] /\ f[n - 1] \in Nat /\ f[n] \in Nat /\ s[n] \in Nat
        /\ f[n] <= f[Len(s)] /\ f[Len(s)] \in Nat
    <3>1. n \in 0 .. Len(s) /\ n - 1 \in 0 .. Len(s) /\ Len(s) \in 0 .. Len(s)
      BY <1>1, <2>1
    <3> QED
      BY <1>2, <1>5, <1>6, <3>1
  <2> DEFINE g == f[n - 1]
             h == f[n]
             l == f[Len(s)]
             z == s[n]
  <2>4. EntryAt(pkt, k, n) = a + 4 + 2 * (n - 1) + g /\ EntryAt(pkt, k, n + 1) = a + 4 + 2 * n + h
        /\ h = g + z /\ g \in Nat /\ h \in Nat /\ z \in Nat /\ h <= l /\ l \in Nat
        /\ a + (4 + 2 * Len(s) + l) <= b
    BY <1>3, <2>2, <2>3
  <2> HIDE DEF g, h, l, z
  <2>5. EntryAt(pkt, k, n) \in Nat /\ EntryAt(pkt, k, n + 1) = EntryAt(pkt, k, n) + 2 + z
    BY ONLY <1>1, <1>3, <2>1, <2>4
  <2>6. EntryAt(pkt, k, n + 1) <= b
    BY ONLY <1>1, <1>3, <2>1, <2>4
  <2> QED
    BY <2>5, <2>6 DEF z
<1> QED
  BY <1>2, <1>7, <1>8, <1>9 DEF s, a, b

\* The words serialize writes for a field and its entries.
LEMMA WordsOfField ==
  ASSUME NEW pkt \in Packets, NEW k \in 1 .. Len(pkt)
  PROVE  /\ <<FieldAt(pkt, k), pkt[k].type>> \in Serialize(pkt)
         /\ <<FieldAt(pkt, k) + 2, Len(pkt[k].sizes)>> \in Serialize(pkt)
         /\ \A n \in 1 .. Len(pkt[k].sizes) :
              <<EntryAt(pkt, k, n), pkt[k].sizes[n]>> \in Serialize(pkt)
<1>1. FieldWords(pkt, k) \subseteq Serialize(pkt)
  BY PacketIs DEF Serialize
<1>2. \A n \in 1 .. Len(pkt[k].sizes) : <<EntryAt(pkt, k, n), pkt[k].sizes[n]>> \in FieldWords(pkt, k)
  BY PacketIs DEF FieldWords
<1>3. <<FieldAt(pkt, k), pkt[k].type>> \in FieldWords(pkt, k)
      /\ <<FieldAt(pkt, k) + 2, Len(pkt[k].sizes)>> \in FieldWords(pkt, k)
  BY DEF FieldWords
<1> QED
  BY <1>1, <1>2, <1>3

-----------------------------------------------------------------------------
(* What a peer sent comes back *)

StoredEntry(pkt, k, n) ==
    [offset |-> EntryAt(pkt, k, n) + ENTRY_HEADER_SIZE, size |-> pkt[k].sizes[n]]

\* f holds the first m entries of the k-th field of pkt, and nothing else.
IsStored(pkt, f, k, m) ==
    /\ f.type = pkt[k].type
    /\ f.entry_count = m
    /\ Len(f.entries) = m
    /\ \A n \in 1 .. m : f.entries[n] = StoredEntry(pkt, k, n)

\* None of the first m entries of the k-th field is empty.
NoneEmpty(pkt, k, m) == \A n \in 1 .. m : pkt[k].sizes[n] # 0

HasEmpty(pkt) == \E k \in DOMAIN pkt : \E n \in DOMAIN pkt[k].sizes : pkt[k].sizes[n] = 0

\* The first c fields of pkt are in fs, in order.
Decoded(pkt, fs, c) ==
    \A k \in 1 .. c : /\ IsStored(pkt, fs[k], k, Len(pkt[k].sizes))
                      /\ NoneEmpty(pkt, k, Len(pkt[k].sizes))

BetweenFields ==
    /\ p = FieldAt(sent, i + 1)
    /\ Len(fields) = i
    /\ Decoded(sent, fields, i)

InField ==
    /\ entry_count = Len(sent[i + 1].sizes)
    /\ p = EntryAt(sent, i + 1, entry + 1)
    /\ cur = i + 1 /\ Len(fields) = i + 1
    /\ Decoded(sent, fields, i)
    /\ IsStored(sent, fields[i + 1], i + 1, entry)
    /\ NoneEmpty(sent, i + 1, entry)

AllDecoded ==
    /\ i = Len(sent)
    /\ p = BodySize(sent)
    /\ Len(fields) = i
    /\ Decoded(sent, fields, i)

\* The decoder moves over a body a peer serialized as serialize did.
FollowsPeer ==
    wire # {} =>
        /\ sent \in Packets /\ wire = Serialize(sent) /\ header = HeaderOf(sent)
        /\ pc # "header" => field_count = Len(sent) /\ body_size = BodySize(sent)
        /\ pc \in {"header", "body"} => i = 0 /\ p = 0 /\ fields = <<>>
        /\ pc = "field" => BetweenFields
        /\ pc = "entry" => i + 1 \in 1 .. Len(sent) /\ InField
        /\ pc = "returned" => IF ok THEN AllDecoded ELSE "null" \in malloc \/ HasEmpty(sent)

\* The word the decoder finds where serialize wrote one.
LEMMA OneWord ==
  ASSUME NEW a, NEW v, NEW w, <<a, v>> \in wire, Reads(a, w)
  PROVE  w = v
<1>1. \A x \in wire : x[1] = a => x[2] = w
  BY DEF Reads
<1>2. <<a, v>>[1] = a => <<a, v>>[2] = w
  BY <1>1
<1> QED
  BY <1>2

\* Storing one more entry.
LEMMA StoreNext ==
  ASSUME NEW pkt \in Packets, NEW k \in 1 .. Len(pkt), NEW m \in 0 .. Len(pkt[k].sizes) - 1,
         NEW f \in Field, IsStored(pkt, f, k, m),
         NEW size \in Word, size = pkt[k].sizes[m + 1]
  PROVE  IsStored(pkt, WithEntry(f, EntryAt(pkt, k, m + 1) + ENTRY_HEADER_SIZE, size), k, m + 1)
<1> DEFINE e == StoredEntry(pkt, k, m + 1)
           offset == EntryAt(pkt, k, m + 1) + ENTRY_HEADER_SIZE
           g == WithEntry(f, offset, size)
<1>1. Len(pkt[k].sizes) \in Word /\ Len(pkt[k].sizes) \in Nat
  BY PacketsAssumption, PacketIs
<1>2. m \in Nat /\ m + 1 \in 1 .. Len(pkt[k].sizes) /\ m + 1 <= WordMax /\ m + 1 \in Nat
  BY <1>1, WordMaxAssumption DEF Word
<1>3. (m + 1) % (WordMax + 1) = m + 1
  <2>1. WordMax + 1 \in Nat /\ m + 1 < WordMax + 1
    BY <1>2, WordMaxAssumption
  <2> QED
    BY ONLY <1>2, <2>1, SmallRemainder
<1>4. offset \in Nat
  BY <1>2, EntryPlaces DEF ENTRY_HEADER_SIZE
<1>5. e = [offset |-> offset, size |-> size]
  BY DEF StoredEntry
<1>6. /\ g.type = pkt[k].type
      /\ g.entry_count = m + 1
      /\ g.entries = Append(f.entries, e)
  BY <1>3, <1>5 DEF WithEntry, IsStored, Field
<1>7. /\ f.entries \in Seq(Entry) /\ Len(f.entries) = m
      /\ \A n \in 1 .. m : f.entries[n] = StoredEntry(pkt, k, n)
  BY DEF IsStored, Field
<1> HIDE DEF e, g, offset
<1>8. /\ Len(Append(f.entries, e)) = m + 1
      /\ Append(f.entries, e)[m + 1] = e
      /\ \A n \in 1 .. m : Append(f.entries, e)[n] = f.entries[n]
  <2> DEFINE l == f.entries
  <2>1. l \in Seq(Entry) /\ Len(l) = m
    BY <1>7
  <2> HIDE DEF l
  <2>2. /\ Len(Append(l, e)) = m + 1
        /\ Append(l, e)[m + 1] = e
        /\ \A n \in 1 .. m : Append(l, e)[n] = l[n]
    BY ONLY <2>1
  <2> QED
    BY <2>2 DEF l
<1>9. ASSUME NEW n \in 1 .. m + 1 PROVE g.entries[n] = StoredEntry(pkt, k, n)
  <2>1. CASE n = m + 1
    BY <1>6, <1>8, <2>1 DEF e
  <2>2. CASE n # m + 1
    <3>1. n \in 1 .. m
      BY <1>2, <2>2
    <3> QED
      BY <1>6, <1>7, <1>8, <3>1
  <2> QED
    BY <2>1, <2>2
<1>10. IsStored(pkt, g, k, m + 1)
  BY <1>6, <1>8, <1>9 DEF IsStored
<1> QED
  BY <1>10 DEF g, offset

\* The header says what was sent, and the announced fields fit.
LEMMA HeaderFollows ==
  ASSUME TypeOK, FollowsPeer, UnserializeHeader \/ EnterBody
  PROVE  FollowsPeer'
<1> SUFFICES ASSUME wire # {} PROVE FollowsPeer'
  BY DEF FollowsPeer, UnserializeHeader, EnterBody, input
<1>1. /\ sent \in Packets /\ wire = Serialize(sent) /\ header = HeaderOf(sent)
      /\ UNCHANGED <<wire, sent, header, malloc, i, p, fields>>
  BY DEF FollowsPeer, UnserializeHeader, EnterBody, input, locals, packet
<1>2. CASE UnserializeHeader
  <2>1. /\ header.version = Version /\ header.field_count = Len(sent)
        /\ header.body_size = BodySize(sent)
    BY <1>1 DEF HeaderOf
  <2>2. /\ pc = "header" /\ pc' = "body"
        /\ field_count' = Len(sent) /\ body_size' = BodySize(sent)
    BY <1>2, <2>1 DEF UnserializeHeader
  <2> QED
    BY <1>1, <2>2 DEF FollowsPeer
<1>3. CASE EnterBody
  <2>1. pc = "body" /\ field_count = Len(sent) /\ body_size = BodySize(sent)
        /\ i = 0 /\ p = 0 /\ fields = <<>> /\ UNCHANGED <<field_count, body_size>>
    BY <1>3 DEF EnterBody, FollowsPeer, serial
  <2>2. body_size >= field_count * FIELD_HEADER_SIZE
    BY <1>1, <2>1, FieldPlaces DEF FIELD_HEADER_SIZE
  <2>3. body_size \in Nat /\ field_count * FIELD_HEADER_SIZE \in Nat
    BY DEF TypeOK, FIELD_HEADER_SIZE
  <2>4. pc' = "field"
    <3>1. ~(body_size < field_count * FIELD_HEADER_SIZE)
      BY ONLY <2>2, <2>3
    <3> QED
      BY <1>3, <3>1, Zenon DEF EnterBody
  <2>5. BetweenFields'
    <3>1. FieldAt(sent, 1) = 0
      BY <1>1, FieldPlaces
    <3>2. i + 1 = 1 /\ Len(fields) = i /\ 1 .. i = {}
      BY <2>1
    <3>3. Decoded(sent, fields, i)
      BY <3>2 DEF Decoded
    <3> QED
      BY <1>1, <2>1, <3>1, <3>2, <3>3 DEF BetweenFields
  <2> QED
    BY <1>1, <2>1, <2>4, <2>5 DEF FollowsPeer
<1> QED
  BY <1>2, <1>3

\* Between fields the cursor is at a field that was sent, or at the end.
LEMMA AtAField ==
  ASSUME TypeOK, FollowsPeer, wire # {}, pc = "field", MoreFields
  PROVE  /\ sent \in Packets /\ wire = Serialize(sent)
         /\ field_count = Len(sent) /\ body_size = BodySize(sent)
         /\ i \in Nat /\ i + 1 \in 1 .. Len(sent) /\ p = FieldAt(sent, i + 1)
         /\ FieldAt(sent, i + 1) + 4 + 2 * Len(sent[i + 1].sizes) <= body_size
<1>1. /\ sent \in Packets /\ wire = Serialize(sent)
      /\ field_count = Len(sent) /\ body_size = BodySize(sent)
      /\ p = FieldAt(sent, i + 1)
  BY DEF FollowsPeer, BetweenFields
<1>2. i \in Nat /\ Len(sent) \in Nat /\ i < Len(sent)
  BY <1>1, PacketIs DEF TypeOK, MoreFields
<1>3. i + 1 \in 1 .. Len(sent)
  BY <1>2
<1> DEFINE a == FieldAt(sent, i + 1)
           b == FieldAt(sent, (i + 1) + 1)
           l == Len(sent[i + 1].sizes)
           t == Total(sent[i + 1].sizes)
<1>4. a \in Nat /\ b \in Nat /\ l \in Nat /\ t \in Nat
  BY <1>1, <1>3, FieldPlaces, LayoutIs, PacketIs
<1>5. b = a + (4 + 2 * l + t) /\ b <= body_size
  BY <1>1, <1>3, FieldPlaces
<1>6. body_size \in Nat
  BY DEF TypeOK
<1> HIDE DEF a, b, l, t
<1>7. a + 4 + 2 * l <= body_size
  BY ONLY <1>4, <1>5, <1>6
<1> QED
  BY <1>1, <1>2, <1>3, <1>7 DEF a, l

\* The decoder does not take the body of a peer to be short.
LEMMA NotPastEnd == ASSUME TypeOK, FollowsPeer, wire # {} PROVE ~PastEnd
<1> SUFFICES ASSUME PastEnd PROVE FALSE
  OBVIOUS
<1>1. pc = "field" /\ MoreFields /\ p >= body_size
  BY DEF PastEnd
<1>2. sent \in Packets /\ i + 1 \in 1 .. Len(sent) /\ p = FieldAt(sent, i + 1)
      /\ FieldAt(sent, i + 1) + 4 + 2 * Len(sent[i + 1].sizes) <= body_size
  BY <1>1, AtAField
<1> DEFINE l == Len(sent[i + 1].sizes)
<1>3. l \in Nat
  BY <1>2, PacketIs
<1>4. p + 4 + 2 * l <= body_size
  BY <1>2
<1>5. p \in Nat /\ body_size \in Nat
  BY DEF TypeOK
<1> HIDE DEF l
<1> QED
  BY ONLY <1>1, <1>3, <1>4, <1>5

\* The words of the field header are the ones that were sent.
LEMMA FieldHeaderFollows ==
  ASSUME TypeOK, FollowsPeer, wire # {}, NEW type \in Types, NEW count \in Word,
         ReadFieldHeader(type, count)
  PROVE  /\ type = sent[i + 1].type
         /\ count = Len(sent[i + 1].sizes)
         /\ EntryHeadersFit(count)
<1>1. pc = "field" /\ MoreFields /\ Reads(p, type) /\ Reads(p + 2, count)
  BY DEF ReadFieldHeader
<1>2. /\ sent \in Packets /\ wire = Serialize(sent)
      /\ i + 1 \in 1 .. Len(sent) /\ p = FieldAt(sent, i + 1)
      /\ FieldAt(sent, i + 1) + 4 + 2 * Len(sent[i + 1].sizes) <= body_size
  BY <1>1, AtAField
<1>3. <<p, sent[i + 1].type>> \in wire /\ <<p + 2, Len(sent[i + 1].sizes)>> \in wire
  BY <1>2, WordsOfField
<1>4. type = sent[i + 1].type /\ count = Len(sent[i + 1].sizes)
  BY <1>1, <1>3, OneWord
<1>5. count \in Nat /\ p \in Nat
  BY WordIsNat DEF TypeOK
<1>6. EntryHeadersFit(count)
  BY <1>2, <1>4, <1>5 DEF EntryHeadersFit, FIELD_HEADER_SIZE, ENTRY_HEADER_SIZE
<1> QED
  BY <1>4, <1>6

\* A field header is refused only for want of memory.
LEMMA FieldRefusedFollows ==
  ASSUME TypeOK, FollowsPeer, NEW type \in Types, NEW count \in Word,
         FieldRefused(type, count)
  PROVE  FollowsPeer'
<1>1. /\ UNCHANGED <<wire, sent, header, malloc, field_count, body_size>>
      /\ pc' = "returned" /\ ~ok' /\ pc = "field" /\ ReadFieldHeader(type, count)
  BY DEF FieldRefused, ReadFieldHeader, Return, input, serial
<1> SUFFICES ASSUME wire # {} PROVE FollowsPeer'
  BY <1>1 DEF FollowsPeer
<1>2. "null" \in malloc
  BY <1>1, FieldHeaderFollows DEF FieldRefused
<1> QED
  BY <1>1, <1>2 DEF FollowsPeer

\* A field header opens a field of its own: no field decoded so far has its type.
LEMMA OpenFieldFollows ==
  ASSUME TypeOK, FollowsPeer, NEW type \in Types, NEW count \in Word,
         OpenField(type, count)
  PROVE  FollowsPeer'
<1>1. /\ UNCHANGED <<wire, sent, header, malloc, field_count, body_size, i>>
      /\ pc' = "entry" /\ pc = "field" /\ MoreFields /\ ReadFieldHeader(type, count)
      /\ p' = p + 4 /\ entry_count' = count /\ entry' = 0
  BY DEF OpenField, ReadFieldHeader, input, serial, FIELD_HEADER_SIZE
<1> SUFFICES ASSUME wire # {} PROVE FollowsPeer'
  BY <1>1 DEF FollowsPeer
<1>2. /\ sent \in Packets /\ i \in Nat /\ i + 1 \in 1 .. Len(sent)
      /\ p = FieldAt(sent, i + 1)
  BY <1>1, AtAField
<1>3. type = sent[i + 1].type /\ count = Len(sent[i + 1].sizes)
  BY <1>1, FieldHeaderFollows
<1>4. Len(fields) = i /\ Decoded(sent, fields, i) /\ fields \in Seq(Field)
  BY <1>1 DEF FollowsPeer, BetweenFields, TypeOK
<1>5. FieldsOfType(type) = {}
  <2> SUFFICES ASSUME NEW k \in DOMAIN fields, fields[k].type = type PROVE FALSE
    BY DEF FieldsOfType
  <2>1. k \in 1 .. i /\ k \in 1 .. Len(sent) /\ k # i + 1
    BY <1>2, <1>4
  <2>2. fields[k].type = sent[k].type
    BY <1>4, <2>1 DEF Decoded, IsStored
  <2> QED
    BY <1>2, <1>3, <2>1, <2>2, PacketIs
<1>6. fields' = Append(fields, NewField(type)) /\ cur' = i + 1
  BY <1>4, <1>5 DEF OpenField
<1>7. /\ Len(fields') = i + 1
      /\ fields'[i + 1] = NewField(type)
      /\ \A k \in 1 .. i : fields'[k] = fields[k]
  <2> DEFINE f == NewField(type)
  <2> HIDE DEF f
  <2>1. fields' = Append(fields, f)
    BY <1>6 DEF f
  <2> QED
    BY <1>4, <2>1, <1>2 DEF f
<1>8. Decoded(sent, fields', i)
  BY <1>4, <1>7 DEF Decoded
<1>9. IsStored(sent, fields'[i + 1], i + 1, 0) /\ NoneEmpty(sent, i + 1, 0)
  BY <1>3, <1>7 DEF IsStored, NoneEmpty, NewField
<1>10. p' = EntryAt(sent, i + 1, 0 + 1)
  BY <1>1, <1>2, EntryPlaces
<1>11. InField'
  BY <1>1, <1>3, <1>6, <1>7, <1>8, <1>9, <1>10 DEF InField
<1> QED
  BY <1>1, <1>2, <1>11 DEF FollowsPeer

\* In a field, the next entry is the one that was sent, and it fits.
LEMMA EntryFollows ==
  ASSUME TypeOK, FollowsPeer, wire # {}, NEW size \in Word, ReadEntryHeader(size)
  PROVE  /\ sent \in Packets /\ i \in Nat /\ i + 1 \in 1 .. Len(sent)
         /\ entry \in 0 .. Len(sent[i + 1].sizes) - 1
         /\ entry + 1 \in 1 .. Len(sent[i + 1].sizes)
         /\ size = sent[i + 1].sizes[entry + 1]
         /\ p = EntryAt(sent, i + 1, entry + 1)
         /\ EntryAt(sent, i + 1, (entry + 1) + 1) = p + 2 + size
         /\ EntryFits(size)
<1>1. pc = "entry" /\ entry < entry_count /\ Reads(p, size)
  BY DEF ReadEntryHeader
<1>2. /\ sent \in Packets /\ wire = Serialize(sent) /\ body_size = BodySize(sent)
      /\ i + 1 \in 1 .. Len(sent)
      /\ entry_count = Len(sent[i + 1].sizes)
      /\ p = EntryAt(sent, i + 1, entry + 1)
  BY <1>1 DEF FollowsPeer, InField
<1>3. i \in Nat /\ entry \in 0 .. entry_count /\ entry_count \in Nat
  BY <1>2, WordIsNat DEF TypeOK
<1>4. entry \in 0 .. Len(sent[i + 1].sizes) - 1 /\ entry + 1 \in 1 .. Len(sent[i + 1].sizes)
  BY <1>1, <1>2, <1>3
<1>5. <<p, sent[i + 1].sizes[entry + 1]>> \in wire
  BY <1>2, <1>4, WordsOfField
<1>6. size = sent[i + 1].sizes[entry + 1]
  BY <1>1, <1>5, OneWord
<1>7. EntryAt(sent, i + 1, (entry + 1) + 1) = p + 2 + size
      /\ EntryAt(sent, i + 1, (entry + 1) + 1) <= body_size
  BY <1>2, <1>4, <1>6, EntryPlaces
<1>8. EntryFits(size)
  BY <1>7 DEF EntryFits, ENTRY_HEADER_SIZE
<1> QED
  BY <1>2, <1>3, <1>4, <1>6, <1>7, <1>8

\* An entry is refused only if it is empty, or for want of memory.
LEMMA EntryRefusedFollows ==
  ASSUME TypeOK, FollowsPeer, NEW size \in Word, EntryRefused(size)
  PROVE  FollowsPeer'
<1>1. /\ UNCHANGED <<wire, sent, header, malloc, field_count, body_size>>
      /\ pc' = "returned" /\ ~ok' /\ pc = "entry" /\ ReadEntryHeader(size)
  BY DEF EntryRefused, ReadEntryHeader, DiscardField, Return, input, serial
<1> SUFFICES ASSUME wire # {} PROVE FollowsPeer'
  BY <1>1 DEF FollowsPeer
<1>2. /\ EntryFits(size) /\ sent \in Packets /\ i + 1 \in 1 .. Len(sent)
      /\ entry + 1 \in 1 .. Len(sent[i + 1].sizes)
      /\ size = sent[i + 1].sizes[entry + 1]
  BY <1>1, EntryFollows
<1>3. size = 0 \/ "null" \in malloc
  BY <1>2 DEF EntryRefused
<1>4. size = 0 => HasEmpty(sent)
  BY <1>2, PacketIs DEF HasEmpty
<1> QED
  BY <1>1, <1>3, <1>4 DEF FollowsPeer

\* An entry that is added is the next one that was sent.
LEMMA AddEntryFollows ==
  ASSUME TypeOK, FollowsPeer, NEW size \in Word, AddEntry(size)
  PROVE  FollowsPeer'
<1>1. /\ UNCHANGED <<wire, sent, header, malloc, field_count, body_size, i, entry_count, cur>>
      /\ pc = "entry" /\ pc' = "entry" /\ ReadEntryHeader(size) /\ size > 0
      /\ p' = p + 2 + size /\ entry' = entry + 1
      /\ fields' = [fields EXCEPT ![cur] = WithEntry(fields[cur], p + ENTRY_HEADER_SIZE, size)]
  BY DEF AddEntry, ReadEntryHeader, AfterEntry, input, serial, ENTRY_HEADER_SIZE
<1> SUFFICES ASSUME wire # {} PROVE FollowsPeer'
  BY <1>1 DEF FollowsPeer
<1>2. /\ sent \in Packets /\ i \in Nat /\ i + 1 \in 1 .. Len(sent)
      /\ entry \in 0 .. Len(sent[i + 1].sizes) - 1
      /\ size = sent[i + 1].sizes[entry + 1]
      /\ p = EntryAt(sent, i + 1, entry + 1)
      /\ EntryAt(sent, i + 1, (entry + 1) + 1) = p + 2 + size
  BY <1>1, EntryFollows
<1>3. /\ entry_count = Len(sent[i + 1].sizes)
      /\ cur = i + 1 /\ Len(fields) = i + 1
      /\ Decoded(sent, fields, i)
      /\ IsStored(sent, fields[i + 1], i + 1, entry)
      /\ NoneEmpty(sent, i + 1, entry)
  BY <1>1 DEF FollowsPeer, InField
<1>4. fields \in Seq(Field) /\ i + 1 \in DOMAIN fields
  BY <1>2, <1>3 DEF TypeOK
<1>5. fields[i + 1] \in Field
  BY <1>4
<1> DEFINE g == WithEntry(fields[i + 1], EntryAt(sent, i + 1, entry + 1) + ENTRY_HEADER_SIZE, size)
<1>6. IsStored(sent, g, i + 1, entry + 1)
  BY <1>2, <1>3, <1>5, StoreNext
<1>7. fields' = [fields EXCEPT ![i + 1] = g]
  BY <1>1, <1>2, <1>3
<1> HIDE DEF g
<1>8. Len(fields') = i + 1 /\ fields'[i + 1] = g /\ \A k \in 1 .. i : fields'[k] = fields[k]
  BY <1>2, <1>3, <1>4, <1>7
<1>9. Decoded(sent, fields', i)
  BY <1>3, <1>8 DEF Decoded
<1>10. NoneEmpty(sent, i + 1, entry + 1)
  <2>1. \A n \in 1 .. entry + 1 : n \in 1 .. entry \/ n = entry + 1
    BY <1>2
  <2>2. sent[i + 1].sizes[entry + 1] # 0
    BY <1>1, <1>2, WordIsNat
  <2> QED
    BY <1>3, <2>1, <2>2 DEF NoneEmpty
<1>11. InField'
  BY <1>1, <1>2, <1>3, <1>6, <1>8, <1>9, <1>10 DEF InField
<1> QED
  BY <1>1, <1>2, <1>11 DEF FollowsPeer

\* After its last entry a field is decoded, and the cursor is at the next one.
LEMMA NextFieldFollows ==
  ASSUME TypeOK, FollowsPeer, NextField
  PROVE  FollowsPeer'
<1>1. /\ UNCHANGED <<wire, sent, header, malloc, field_count, body_size, p, fields>>
      /\ pc = "entry" /\ pc' = "field" /\ entry = entry_count /\ i' = i + 1
  BY DEF NextField, input, serial, packet
<1> SUFFICES ASSUME wire # {} PROVE FollowsPeer'
  BY <1>1 DEF FollowsPeer
<1>2. /\ sent \in Packets /\ i + 1 \in 1 .. Len(sent)
      /\ entry_count = Len(sent[i + 1].sizes)
      /\ p = EntryAt(sent, i + 1, entry + 1) /\ Len(fields) = i + 1
      /\ Decoded(sent, fields, i)
      /\ IsStored(sent, fields[i + 1], i + 1, entry)
      /\ NoneEmpty(sent, i + 1, entry)
  BY <1>1 DEF FollowsPeer, InField
<1>3. i \in Nat
  BY DEF TypeOK
<1>4. p = FieldAt(sent, (i + 1) + 1)
  BY <1>1, <1>2, EntryPlaces
<1>5. Decoded(sent, fields, i + 1)
  <2> SUFFICES ASSUME NEW k \in 1 .. i + 1
               PROVE  /\ IsStored(sent, fields[k], k, Len(sent[k].sizes))
                      /\ NoneEmpty(sent, k, Len(sent[k].sizes))
    BY DEF Decoded
  <2>1. CASE k = i + 1
    BY <1>1, <1>2, <2>1
  <2>2. CASE k # i + 1
    <3>1. k \in 1 .. i
      BY <1>3, <2>2
    <3> QED
      BY <1>2, <3>1 DEF Decoded
  <2> QED
    BY <2>1, <2>2
<1>6. BetweenFields'
  BY <1>1, <1>2, <1>4, <1>5 DEF BetweenFields
<1> QED
  BY <1>1, <1>2, <1>6 DEF FollowsPeer

\* After the last field everything that was sent is decoded.
LEMMA FinishFollows ==
  ASSUME TypeOK, FollowsPeer, Finish
  PROVE  FollowsPeer'
<1>1. /\ UNCHANGED <<wire, sent, header, malloc, field_count, body_size, p, i, fields>>
      /\ pc = "field" /\ pc' = "returned" /\ ok' = TRUE /\ i = field_count
  BY DEF Finish, Return, input, serial, locals, packet
<1> SUFFICES ASSUME wire # {} PROVE FollowsPeer'
  BY <1>1 DEF FollowsPeer
<1>2. sent \in Packets /\ field_count = Len(sent) /\ BetweenFields
  BY <1>1 DEF FollowsPeer
<1>3. FieldAt(sent, i + 1) = BodySize(sent)
  BY <1>1, <1>2, FieldPlaces
<1>4. AllDecoded'
  BY <1>1, <1>2, <1>3 DEF AllDecoded, BetweenFields
<1> QED
  BY <1>1, <1>4 DEF FollowsPeer

\* No step of the decoder loses track of what was sent.
LEMMA FollowsStep == TypeOK /\ FollowsPeer /\ [Next]_vars => FollowsPeer'
<1> SUFFICES ASSUME TypeOK, FollowsPeer, [Next]_vars PROVE FollowsPeer'
  OBVIOUS
<1>1. CASE PastEnd
  <2>1. wire' = wire /\ wire = {}
    BY <1>1, NotPastEnd DEF PastEnd, input
  <2> QED
    BY <2>1 DEF FollowsPeer
<1>2. CASE UNCHANGED vars
  BY <1>2 DEF FollowsPeer, BetweenFields, InField, AllDecoded, vars, input, serial, locals, packet
<1> QED
  BY <1>1, <1>2, HeaderFollows, FieldRefusedFollows, OpenFieldFollows, EntryRefusedFollows,
     AddEntryFollows, NextFieldFollows, FinishFollows DEF Next

\* What was sent and decoded is what RoundTrip asks for.
LEMMA DecodedIsSent == TypeOK /\ FollowsPeer => RoundTrip
<1> SUFFICES ASSUME TypeOK, FollowsPeer, wire # {}, pc = "returned"
             PROVE  IF HasEmpty(sent) THEN ~ok
                    ELSE IF ~ok THEN "null" \in malloc
                    ELSE /\ p = body_size
                         /\ fields = [k \in DOMAIN sent |->
                              [type |-> sent[k].type,
                               entry_count |-> Len(sent[k].sizes),
                               entries |-> [n \in DOMAIN sent[k].sizes |->
                                 [offset |-> EntryAt(sent, k, n) + ENTRY_HEADER_SIZE,
                                  size |-> sent[k].sizes[n]]]]]
  BY DEF RoundTrip, HasEmpty
<1>1. /\ sent \in Packets /\ body_size = BodySize(sent)
      /\ IF ok THEN AllDecoded ELSE "null" \in malloc \/ HasEmpty(sent)
  BY DEF FollowsPeer
<1>2. CASE ~ok
  BY <1>1, <1>2
<1>3. CASE ok
  <2>1. /\ p = BodySize(sent) /\ Len(fields) = Len(sent)
        /\ Decoded(sent, fields, Len(sent))
    BY <1>1, <1>3 DEF AllDecoded
  <2>2. \A k \in 1 .. Len(sent) : NoneEmpty(sent, k, Len(sent[k].sizes))
    BY <2>1 DEF Decoded
  <2>3. ~HasEmpty(sent)
    BY <1>1, <2>2, PacketIs DEF HasEmpty, NoneEmpty
  <2>4. fields \in Seq(Field) /\ DOMAIN fields = 1 .. Len(sent) /\ DOMAIN sent = 1 .. Len(sent)
    BY <1>1, <2>1, PacketIs DEF TypeOK
  <2>5. ASSUME NEW k \in 1 .. Len(sent)
        PROVE  fields[k] = [type |-> sent[k].type,
                            entry_count |-> Len(sent[k].sizes),
                            entries |-> [n \in DOMAIN sent[k].sizes |-> StoredEntry(sent, k, n)]]
    <3> DEFINE f == fields[k]
               l == Len(sent[k].sizes)
    <3>1. f.type = sent[k].type /\ f.entry_count = l /\ Len(f.entries) = l
          /\ \A n \in 1 .. l : f.entries[n] = StoredEntry(sent, k, n)
      BY <2>1 DEF Decoded, IsStored
    <3>2. f \in Field /\ DOMAIN sent[k].sizes = 1 .. l
      BY <1>1, <2>4, PacketIs
    <3> HIDE DEF f, l
    <3>3. f.entries \in Seq(Entry)
      BY <3>2 DEF Field
    <3>4. f.entries = [n \in 1 .. l |-> f.entries[n]]
      BY <3>1, <3>3
    <3>5. f.entries = [n \in DOMAIN sent[k].sizes |-> StoredEntry(sent, k, n)]
      BY <3>1, <3>2, <3>4
    <3>6. f = [type |-> f.type, entry_count |-> f.entry_count, entries |-> f.entries]
      BY <3>2 DEF Field
    <3> QED
      BY <3>1, <3>5, <3>6 DEF f, l
  <2>6. fields = [k \in DOMAIN sent |-> fields[k]]
    BY <2>4
  <2>7. fields = [k \in DOMAIN sent |->
          [type |-> sent[k].type,
           entry_count |-> Len(sent[k].sizes),
           entries |-> [n \in DOMAIN sent[k].sizes |-> StoredEntry(sent, k, n)]]]
    BY <2>4, <2>5, <2>6
  <2> QED
    BY <1>1, <1>3, <2>1, <2>3, <2>7 DEF StoredEntry
<1> QED
  BY <1>2, <1>3

\* For every packet of any number of fields and entries: the body serialize
\* writes for it is decoded to the same fields, types, counts and bytes, unless
\* an entry is empty or memory runs out, and a decode that fails does so for no
\* other reason.
THEOREM PacketsComeBack == Spec => []RoundTrip
<1>1. Init => FollowsPeer
  BY DEF Init, FollowsPeer
<1>2. Spec => [](TypeOK /\ FollowsPeer)
  BY <1>1, TypeInit, TypeStep, FollowsStep, PTL DEF Spec
<1> QED
  BY <1>2, DecodedIsSent, PTL
=============================================================================
