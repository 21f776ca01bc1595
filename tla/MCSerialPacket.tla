--------------------------- MODULE MCSerialPacket ---------------------------
(* Instances of SerialPacket for TLC. *)
EXTENDS SerialPacket, SequencesExt

CONSTANTS MaxBody, MaxFields, MaxEntries, MaxSize

\* Any header over any body of at most MaxBody bytes, and a wrong version.
AnyHeaders == [version : {Version, Version + 1}, field_count : Word, body_size : 0 .. MaxBody]
NoHeaders == {}

\* Packets a peer can build with append, insert and get_or_add: unique types.
FieldRecords == [type : Types, sizes : BoundedSeq(0 .. MaxSize, MaxEntries)]
BuiltPackets ==
    {pkt \in BoundedSeq(FieldRecords, MaxFields) :
        \A k, l \in DOMAIN pkt : pkt[k].type = pkt[l].type => k = l}
NoPackets == {}
=============================================================================
