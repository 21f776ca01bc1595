---------------------------- MODULE SerialPacket ----------------------------
(***************************************************************************)
(* The wire codec of lib/srvd/libsrvd/protocol/serial_packet.c: the layout *)
(* serialize writes, and the cursor-driven decoder made of                 *)
(* unserialize_header and unserialize_body, with the packet they build     *)
(* (protocol/packet.c).                                                    *)
(*                                                                         *)
(* A body is not spelled out byte by byte.  The decoder reads each 16-bit  *)
(* header word once and never goes back, so an arbitrary body is the same  *)
(* as an arbitrary word at every read; `wire' pins the words of a body     *)
(* that serialize produced.  An entry is the interval of the body copied   *)
(* into it.  Offsets are those of the C code, with p standing for p - body.*)
(***************************************************************************)
EXTENDS Integers, Sequences, Sums

CONSTANTS
    WordMax,      \* largest uint16_t (65535 in the program)
    Version,      \* SRVD_PROTOCOL_SERIAL_PACKET_VERSION
    Types,        \* values a field's type word can take
    NONE,         \* SRVD_PROTOCOL_NONE, the type of a finalized field
    Headers,      \* packet headers that can arrive in front of any body
    Packets,      \* packets a peer serializes: [type, sizes] per field
    Malloc        \* what malloc can return: "memory", and "null" if it may fail

Word == 0 .. WordMax

FIELD_HEADER_SIZE == 4
ENTRY_HEADER_SIZE == 2

ASSUME WordMaxAssumption == WordMax \in Nat
ASSUME MallocAssumption == "memory" \in Malloc /\ Malloc \subseteq {"memory", "null"}

\* What the 8 bytes of a header can say.
Header == [version : Nat, field_count : Word, body_size : Nat]

ASSUME VersionAssumption == Version \in Nat
ASSUME HeadersAssumption == Headers \subseteq Header

VARIABLES
    header,       \* the 8 bytes in front of the body
    wire,         \* pairs <<offset, word>> of a body that was serialized
    sent,         \* the packet that body came from
    malloc,       \* what malloc can return during this call
    pc,           \* where the decoder is
    ok,           \* what it returned
    field_count, body_size,     \* fields of serial_packet_t
    p, i, entry, entry_count,   \* locals of unserialize_body
    cur,          \* the local `field', as an index of `fields'
    fields,       \* the packet's field list, head first
    freed,        \* indices of fields that were finalized and freed
    reach         \* one past the highest body offset read so far

input   == <<header, wire, sent, malloc>>
serial  == <<field_count, body_size>>
packet  == <<fields, freed>>
locals  == <<p, i, entry, entry_count, cur>>
vars    == <<input, pc, ok, serial, locals, packet, reach>>

-----------------------------------------------------------------------------
(* serialize *)

FieldBytes(f) ==
    FIELD_HEADER_SIZE + ENTRY_HEADER_SIZE * Len(f.sizes) + Total(f.sizes)

Layout(pkt) == [k \in DOMAIN pkt |-> FieldBytes(pkt[k])]

\* Mutant of BodySize: only field headers and data are counted.
MutBodySize(pkt) ==
    Total([k \in DOMAIN pkt |-> FIELD_HEADER_SIZE + Total(pkt[k].sizes)])
BodySize(pkt) == Total(Layout(pkt))

FieldAt(pkt, k) == Sums(Layout(pkt))[k - 1]

EntryAt(pkt, k, n) ==
    FieldAt(pkt, k) + FIELD_HEADER_SIZE + ENTRY_HEADER_SIZE * (n - 1) + Sums(pkt[k].sizes)[n - 1]

FieldWords(pkt, k) ==
    {<<FieldAt(pkt, k), pkt[k].type>>, <<FieldAt(pkt, k) + 2, Len(pkt[k].sizes)>>}
        \cup {<<EntryAt(pkt, k, n), pkt[k].sizes[n]>> : n \in DOMAIN pkt[k].sizes}

Serialize(pkt) == UNION {FieldWords(pkt, k) : k \in DOMAIN pkt}

HeaderOf(pkt) ==
    [version |-> Version, field_count |-> Len(pkt), body_size |-> BodySize(pkt)]

\* Packets as the packet's calls build them: append and get_or_add look for a
\* type before they add it, sizes are uint16_t's, and the counts of fields and
\* entries have not wrapped.
ASSUME PacketsAssumption == \A pkt \in Packets :
    /\ pkt \in Seq([type : Types, sizes : Seq(Word)])
    /\ \A k, l \in DOMAIN pkt : pkt[k].type = pkt[l].type => k = l
    /\ \A k \in DOMAIN pkt : Len(pkt[k].sizes) \in Word
    /\ HeaderOf(pkt) \in Header

-----------------------------------------------------------------------------
(* The packet being filled (protocol/packet.c) *)

NewField(type) == [type |-> type, entry_count |-> 0, entries |-> <<>>]

FinalizedField == NewField(NONE)

\* Mutant of FieldsOfType: get_or_add does not look for an existing field.
MutNeverFound(type) == {}
\* get_by_type walks the list from the head.
FieldsOfType(type) == {k \in DOMAIN fields : fields[k].type = type}

\* Mutant of WithEntry: an entry the count has no room for is dropped.
MutDropsAtWrap(f, offset, size) ==
    IF f.entry_count = WordMax THEN f
    ELSE [f EXCEPT !.entries = Append(@, [offset |-> offset, size |-> size]),
                   !.entry_count = @ + 1]
\* field_entry_add, once it has its memory: the count is a uint16_t.
WithEntry(f, offset, size) ==
    [f EXCEPT !.entries = Append(@, [offset |-> offset, size |-> size]),
              !.entry_count = (@ + 1) % (WordMax + 1)]

-----------------------------------------------------------------------------
(* unserialize_header and unserialize_body *)

Init ==
    /\ \/ /\ header \in Headers
          /\ wire = {}
          /\ sent = <<>>
       \/ \E pkt \in Packets :
            /\ header = HeaderOf(pkt)
            /\ wire = Serialize(pkt)
            /\ sent = pkt
    /\ malloc \in {{"memory"}, Malloc}
    /\ pc = "header"
    /\ ok = FALSE
    /\ field_count = 0 /\ body_size = 0
    /\ p = 0 /\ i = 0 /\ entry = 0 /\ entry_count = 0 /\ cur = 0
    /\ fields = <<>> /\ freed = {}
    /\ reach = 0

\* w is a word the decoder can find at this offset of the body.
Reads(offset, w) == \A x \in wire : x[1] = offset => x[2] = w

Return(status) == pc' = "returned" /\ ok' = status

UnserializeHeader ==
    /\ pc = "header"
    /\ IF header.version = Version
         THEN /\ field_count' = header.field_count
              /\ body_size' = header.body_size
              /\ pc' = "body"
              /\ UNCHANGED ok
         ELSE Return(FALSE) /\ UNCHANGED serial
    /\ UNCHANGED <<input, locals, packet, reach>>

EnterBody ==
    /\ pc = "body"
    /\ IF body_size < field_count * FIELD_HEADER_SIZE
         THEN Return(FALSE)
         ELSE pc' = "field" /\ UNCHANGED ok
    /\ UNCHANGED <<input, serial, locals, packet, reach>>

\* Mutant of MoreFields: the loop runs once too often.
MutMoreFields == i <= field_count
MoreFields == i < field_count

PastEnd ==
    /\ pc = "field" /\ MoreFields
    /\ p >= body_size
    /\ Return(FALSE)
    /\ UNCHANGED <<input, serial, locals, packet, reach>>

\* The two words of a field header; nothing yet says that both lie in the body.
ReadFieldHeader(type, count) ==
    /\ pc = "field" /\ MoreFields
    /\ p < body_size
    /\ Reads(p, type) /\ Reads(p + 2, count)
    /\ reach' = p + FIELD_HEADER_SIZE

\* Mutant of EntryHeadersFit: the announced count is not checked.
MutNoHeaderCheck(count) == TRUE
EntryHeadersFit(count) ==
    p + FIELD_HEADER_SIZE + count * ENTRY_HEADER_SIZE <= body_size

\* Too many entries announced, or get_or_add finds no memory for the field.
FieldRefused(type, count) ==
    /\ ReadFieldHeader(type, count)
    /\ \/ ~EntryHeadersFit(count)
       \/ FieldsOfType(type) = {} /\ "null" \in malloc
    /\ Return(FALSE)
    /\ UNCHANGED <<input, serial, locals, packet>>

\* get_or_add returns the field of this type, appended now if there was none.
OpenField(type, count) ==
    /\ ReadFieldHeader(type, count)
    /\ EntryHeadersFit(count)
    /\ IF FieldsOfType(type) = {}
         THEN /\ fields' = Append(fields, NewField(type))
              /\ cur' = Len(fields) + 1
         ELSE /\ cur' \in FieldsOfType(type)
              /\ \A k \in FieldsOfType(type) : cur' <= k
              /\ UNCHANGED fields
    /\ p' = p + FIELD_HEADER_SIZE
    /\ entry_count' = count
    /\ entry' = 0
    /\ pc' = "entry"
    /\ UNCHANGED <<input, ok, serial, i, freed>>

ReadEntryHeader(size) ==
    /\ pc = "entry" /\ entry < entry_count
    /\ Reads(p, size)

\* Mutant of EntryFits: the entry's own header is forgotten.
MutIgnoresEntryHeader(size) == p + size <= body_size
EntryFits(size) == p + ENTRY_HEADER_SIZE + size <= body_size

\* Mutant of AfterEntry: the cursor forgets the entry's header.
MutSizeSkipped(size) == p + size
AfterEntry(size) == p + ENTRY_HEADER_SIZE + size

\* Mutant of DiscardField: the error path goes on with the next field.
MutNoReturn ==
    /\ fields' = [fields EXCEPT ![cur] = FinalizedField]
    /\ freed' = freed \cup {cur}
    /\ i' = i + 1
    /\ pc' = "field"
    /\ UNCHANGED ok
\* Mutant of DiscardField: the error path retries the entry.
MutSkipsEntry == pc' = "entry" /\ UNCHANGED <<ok, i, fields, freed>>
\* The error paths finalize and free the field; the packet keeps its link to it.
DiscardField ==
    /\ fields' = [fields EXCEPT ![cur] = FinalizedField]
    /\ freed' = freed \cup {cur}
    /\ Return(FALSE)
    /\ UNCHANGED i

\* field_entry_add refuses a size of zero, since data is never NULL here; its
\* two mallocs may fail.
EntryRefused(size) ==
    /\ ReadEntryHeader(size)
    /\ ~EntryFits(size) \/ size = 0 \/ "null" \in malloc
    /\ reach' = p + ENTRY_HEADER_SIZE
    /\ DiscardField
    /\ UNCHANGED <<input, serial, p, entry, entry_count, cur>>

AddEntry(size) ==
    /\ ReadEntryHeader(size)
    /\ EntryFits(size)
    /\ size > 0
    /\ fields' = [fields EXCEPT ![cur] = WithEntry(@, p + ENTRY_HEADER_SIZE, size)]
    /\ p' = AfterEntry(size)
    /\ entry' = entry + 1
    /\ reach' = p + ENTRY_HEADER_SIZE + size
    /\ UNCHANGED <<input, pc, ok, serial, i, entry_count, cur, freed>>

NextField ==
    /\ pc = "entry" /\ entry = entry_count
    /\ i' = i + 1
    /\ pc' = "field"
    /\ UNCHANGED <<input, ok, serial, p, entry, entry_count, cur, packet, reach>>

Finish ==
    /\ pc = "field" /\ i = field_count
    /\ Return(TRUE)
    /\ UNCHANGED <<input, serial, locals, packet, reach>>

Next ==
    \/ UnserializeHeader
    \/ EnterBody
    \/ PastEnd
    \/ \E type \in Types, count \in Word :
         FieldRefused(type, count) \/ OpenField(type, count)
    \/ \E size \in Word : EntryRefused(size) \/ AddEntry(size)
    \/ NextField
    \/ Finish

Spec == Init /\ [][Next]_vars

\* The decoder is a loop in one thread: it keeps running until it returns.
FairSpec == Spec /\ WF_vars(Next)

-----------------------------------------------------------------------------
(* Properties *)

Entry == [offset : Nat, size : Word]
Field == [type : Types \cup {NONE}, entry_count : Word, entries : Seq(Entry)]

\* Types of the state, and the bounds of the loop counters of unserialize_body.
TypeOK ==
    /\ header \in Header
    /\ pc \in {"header", "body", "field", "entry", "returned"}
    /\ ok \in BOOLEAN
    /\ field_count \in Nat /\ body_size \in Nat
    /\ p \in Nat /\ reach \in Nat
    /\ i \in 0 .. field_count
    /\ entry_count \in Word
    /\ entry \in 0 .. entry_count
    /\ fields \in Seq(Field)
    /\ cur \in 0 .. Len(fields)
    /\ pc = "header" => i = 0
    /\ pc = "entry" => i < field_count /\ cur \in DOMAIN fields
    /\ freed \subseteq DOMAIN fields

\* Every entry the decoder stored was copied from inside the body, whatever
\* counts and sizes the body announced (the check of serial_packet.c:194).
EntriesWithinBody ==
    \A k \in DOMAIN fields : \A n \in DOMAIN fields[k].entries :
        LET e == fields[k].entries[n] IN
        e.offset + e.size <= body_size

\* No two stored entries share a byte, nor does an entry overlap the header of
\* another: the cursor p moves over each byte of the body once, also when two
\* field records of one type are merged into one field.
StoredRangesDisjoint ==
    \A k, l \in DOMAIN fields :
      \A n \in DOMAIN fields[k].entries : \A m \in DOMAIN fields[l].entries :
        LET a == fields[k].entries[n]
            b == fields[l].entries[m] IN
        <<k, n>> # <<l, m>> =>
            \/ a.offset + a.size + ENTRY_HEADER_SIZE <= b.offset
            \/ b.offset + b.size + ENTRY_HEADER_SIZE <= a.offset

\* Header words are read before they are known to lie in the body, but never
\* further than the three bytes a field header can stick out.
ReadOverhangBounded == reach < body_size + FIELD_HEADER_SIZE

\* The packet never holds two live fields of one type: get_or_add merges.
TypesUnique ==
    \A k, l \in DOMAIN fields \ freed : fields[k].type = fields[l].type => k = l

\* A decode that reports success leaves no freed field linked in the packet.
SuccessLeavesNoFreedField == pc = "returned" /\ ok => freed = {}

\* A field in the list stays alive: nothing removes a field from a packet.
LinkedFieldsAlive == freed = {}

\* The bytes of the body that the entries of a field were copied from, with
\* the header of each.
BytesStored(f) ==
    ENTRY_HEADER_SIZE * Len(f.entries) + Total([n \in DOMAIN f.entries |-> f.entries[n].size])

\* Every byte the cursor passed is the header of a field record or belongs to an
\* entry that is in the packet: nothing a body holds is skipped or dropped, also
\* when records of one type are merged into a field with more entries than its
\* entry_count can say (packet.c:397).  With StoredRangesDisjoint, the entries
\* and headers tile the decoded part of the body.
NothingSkipped ==
    pc \in {"field", "entry"} \/ ok =>
        p = FIELD_HEADER_SIZE * (i + IF pc = "entry" THEN 1 ELSE 0)
              + Total([k \in DOMAIN fields |-> BytesStored(fields[k])])

\* What serialize writes is decoded to the same fields and the same bytes, in
\* order.  While there is memory decoding fails exactly for a packet with an
\* entry of size zero, which field_entry_add accepts with NULL data but the
\* decoder cannot rebuild; it also fails when malloc does, and never succeeds
\* with part of a packet.
RoundTrip ==
    wire # {} /\ pc = "returned" =>
        IF \E k \in DOMAIN sent : \E n \in DOMAIN sent[k].sizes : sent[k].sizes[n] = 0
        THEN ~ok
        ELSE IF ~ok THEN "null" \in malloc
        ELSE /\ p = body_size
             /\ fields = [k \in DOMAIN sent |->
                  [type |-> sent[k].type,
                   entry_count |-> Len(sent[k].sizes),
                   entries |-> [n \in DOMAIN sent[k].sizes |->
                     [offset |-> EntryAt(sent, k, n) + ENTRY_HEADER_SIZE,
                      size |-> sent[k].sizes[n]]]]]

\* The decoder returns, whatever the body holds.
Terminates == <>(pc = "returned")
=============================================================================
