-------------------------------- MODULE Tlv --------------------------------
(***************************************************************************)
(* The TLV streams of gl-plugin/src/tlv.rs: sequences of entries, and the  *)
(* bytes they are read from and written to.                                *)
(***************************************************************************)
EXTENDS Integers, Sequences, SequencesExt

\* v without its last i bytes, for i up to 8; whether it takes no more than n.
Shifted(v) == LET s[i \in 0..8] == IF i = 0 THEN v ELSE s[i - 1] \div 256 IN s
Fits(v, n) == Shifted(v)[n] = 0
U64 == {v \in Nat : Fits(v, 8)}

\* Big-endian, in n bytes; and back.
BigEndian(v, n) == [i \in 1..n |-> Shifted(v)[n - i] % 256]
FromBigEndian(b) ==
    LET read[i \in 0..Len(b)] == IF i = 0 THEN 0 ELSE 256 * read[i - 1] + b[i]
    IN read[Len(b)]

PutCompactSize(v) ==
    CASE v <= 252 -> <<v>>
      [] v > 252 /\ v <= 65535 -> <<253>> \o BigEndian(v, 2)
      [] v > 65535 /\ Fits(v, 4) -> <<254>> \o BigEndian(v, 4)
      [] OTHER -> <<255>> \o BigEndian(v, 8)

\* How many bytes the compact size at position p takes, and what it says.
Width(b, p) ==
    CASE b[p] = 253 -> 3 [] b[p] = 254 -> 5 [] b[p] = 255 -> 9 [] OTHER -> 1
CompactSize(b, p) ==
    IF Width(b, p) = 1 THEN b[p] ELSE FromBigEndian(SubSeq(b, p + 1, p + Width(b, p) - 1))

\* put_tu64: the eight bytes without leading zeros, so that 0 takes no byte.
PutTu64(v) ==
    LET bytes == BigEndian(v, 8)
        zeros == {n \in 0..8 : \A i \in 1..n : bytes[i] = 0}
    IN SubSeq(bytes, Max(zeros) + 1, 8)

-----------------------------------------------------------------------------

Entry(typ, value) == [typ |-> typ, value |-> value]

Found(tlvs, typ) == {i \in DOMAIN tlvs : tlvs[i].typ = typ}
First(S) == CHOOSE i \in S : \A j \in S : i <= j

\* SerializedTlvStream::get, as the set of what is found: the first of the type.
Get(tlvs, typ) ==
    IF Found(tlvs, typ) = {} THEN {} ELSE {tlvs[First(Found(tlvs, typ))].value}

\* insert, of a type that is not there
InsertEntry(tlvs, e) == SortSeq(Append(tlvs, e), LAMBDA a, b : a.typ < b.typ)

SetBytes(tlvs, typ, value) ==
    IF Found(tlvs, typ) = {}
    THEN InsertEntry(tlvs, Entry(typ, value))
    ELSE [tlvs EXCEPT ![First(Found(tlvs, typ))].value = value]

SetTu64(tlvs, typ, v) == SetBytes(tlvs, typ, PutTu64(v))

-----------------------------------------------------------------------------

ToBytes(tlvs) ==
    FlattenSeq([i \in DOMAIN tlvs |->
        PutCompactSize(tlvs[i].typ) \o PutCompactSize(Len(tlvs[i].value)) \o tlvs[i].value])

\* A round of from_bytes, which has read some entries and got to a position: one
\* more entry, if two bytes are left.
ReadEntry(b, r) ==
    LET size == r.at + Width(b, r.at)
        value == size + Width(b, size)
        next == value + CompactSize(b, size)
        entry == Entry(CompactSize(b, r.at), SubSeq(b, value, next - 1))
    IN IF Len(b) - r.at < 1 THEN r ELSE [at |-> next, entries |-> Append(r.entries, entry)]

\* from_bytes, from position p on.  An entry takes two bytes at least, so that
\* nothing is left after half as many rounds as there are bytes.
FromBytes(b, p) ==
    LET after[n \in 0..Len(b) \div 2] ==
            IF n = 0 THEN [at |-> p, entries |-> <<>>] ELSE ReadEntry(b, after[n - 1])
    IN after[Len(b) \div 2].entries

\* How lightningd gives a payload to a hook, and what deserialize makes of it:
\* the length is read and not used (`take' is undone by `into_inner').
Prefixed(b) == PutCompactSize(Len(b)) \o b
Deserialize(b) == FromBytes(b, 1 + Width(b, 1))

=============================================================================
