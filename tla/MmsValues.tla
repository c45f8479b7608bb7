----------------------------- MODULE MmsValues -----------------------------
(***************************************************************************)
(* The first of the three codecs of MmsValue (C library): the server       *)
(* writes and reads values octet by octet with the BER helpers             *)
(* (mms_access_result.c).                                                  *)
(*                                                                         *)
(* Strings hold no zero octet, so strlen is their length.  Running out of  *)
(* memory is left out.                                                     *)
(***************************************************************************)
EXTENDS BerCoder, MmsData

RECURSIVE MmsValue_encodeMmsData(_), EncodedSize(_),
          decodeMmsDataRecursive(_, _, _, _), DecodedElements(_, _, _, _, _, _)

(***************************************************************************)
(* The server's encoder, written twice in one function: MmsValue_          *)
(* encodeMmsData(..., true) writes, MmsValue_encodeMmsData(..., false)     *)
(* says how much that will be.  The lengths written in front of what       *)
(* contains a value are sums of what the second says.                      *)
(***************************************************************************)
Total(Size(_), values) == FoldLeft(LAMBDA sum, v : sum + Size(v), 0, values)

DataTag ==
    [BOOLEAN |-> 131, BIT_STRING |-> 132, INTEGER |-> 133, UNSIGNED |-> 134, FLOAT |-> 135,
     OCTET_STRING |-> 137, VISIBLE_STRING |-> 138, BINARY_TIME |-> 140, STRING |-> 144,
     UTC_TIME |-> 145, ARRAY |-> 161, STRUCTURE |-> 162, DATA_ACCESS_ERROR |-> 128]

encodeStructuredAccessResult(tag, elements) ==
    BerEncoder_encodeTL(tag, Total(EncodedSize, elements))
        \o FlattenSeq([i \in DOMAIN elements |-> MmsValue_encodeMmsData(elements[i])])

MmsValue_encodeMmsData(v) ==
    LET tag == DataTag[v.type]
    IN  CASE v.type = "BOOLEAN" -> BerEncoder_encodeBoolean(tag, v.n # 0)
          [] v.type \in {"ARRAY", "STRUCTURE"} -> encodeStructuredAccessResult(tag, v.elements)
          [] v.type = "DATA_ACCESS_ERROR" -> BerEncoder_encodeUInt32WithTL(tag, v.n)
          [] v.type = "BIT_STRING" -> BerEncoder_encodeBitString(tag, v.n, v.octets)
          [] OTHER -> BerEncoder_encodeOctetString(tag, v.octets)

EncodedSize(v) ==
    CASE v.type = "BOOLEAN" -> 3
      [] v.type \in {"ARRAY", "STRUCTURE"} ->
           LET size == Total(EncodedSize, v.elements)
           IN  1 + size + BerEncoder_determineLengthSize(size)
      [] v.type = "DATA_ACCESS_ERROR" -> 2 + BerEncoder_UInt32determineEncodedSize(v.n)
      [] v.type = "BIT_STRING" -> BerEncoder_determineEncodedBitStringSize(v.n)
      [] v.type \in {"INTEGER", "UNSIGNED", "BINARY_TIME"} -> 2 + Len(v.octets)
      [] v.type = "UTC_TIME" -> 10
      [] v.type = "FLOAT" -> v.n \div 8 + 3
      [] OTHER -> BerEncoder_determineEncodedStringSize(v.octets)

(***************************************************************************)
(* The server's decoder.  It gives the value and the position behind it.   *)
(***************************************************************************)
Decoded(value, end) == [value |-> value, end |-> end]
NotDecoded == Decoded(NoValue, -1)

\* Elements are counted first, by their tags; the tag of MMS_STRING is not among those it
\* knows, although a value of that type is decoded when it stands alone.
Countable == {128, 131, 132, 133, 134, 135, 137, 138, 140, 145, 161, 162, 0}

getNumberOfElements(b, at, length) ==
    LET e == Elements(b, at, at + length, at + length, <<>>)
    IN  IF e.ok /\ \A i \in DOMAIN e.found : e.found[i].tag \in Countable THEN Len(e.found) ELSE -1

DecodedElements(b, p, max, depth, n, found) ==
    IF n = 0 THEN Decoded(Val("", 0, <<>>, found), p)
    ELSE LET l == BerDecoder_decodeLength(b, p + 1, max)
             v == decodeMmsDataRecursive(b, p, l.at + l.length, depth)
         IN  IF l = Bad \/ v.value = NoValue THEN NotDecoded
             ELSE DecodedElements(b, l.at + l.length, max, depth, n - 1, Append(found, v.value))

DataOfTag(tag) == CHOOSE type \in DOMAIN DataTag : DataTag[type] = tag

\* The sizes a value of a type may have; a missing value is not an error of its own, but the
\* caller sees none
SizeFits(type, n) ==
    CASE type = "FLOAT" -> n \in {5, 9}
      [] type = "BINARY_TIME" -> n \in {4, 6}
      [] type = "UTC_TIME" -> n = 8
      [] type \in {"INTEGER", "UNSIGNED"} -> n <= 8
      [] OTHER -> TRUE

MaxRecursion == 25

decodePrimitive(type, o) ==
    CASE type = "BOOLEAN" -> Val(type, IF o[1] # 0 THEN 1 ELSE 0, <<>>, <<>>)
      [] type = "DATA_ACCESS_ERROR" -> DataAccessError(BerDecoder_decodeUint32(o, 1, Len(o)))
      [] type = "BIT_STRING" ->
           IF o[1] > 7 THEN NoValue ELSE Val(type, 8 * (Len(o) - 1) - o[1], Tail(o), <<>>)
      [] type = "FLOAT" ->
           Val(type, (Len(o) - 1) * 8, <<IF Len(o) = 9 THEN 11 ELSE 8>> \o Tail(o), <<>>)
      [] OTHER -> OfOctets(type, o)

decodeMmsDataRecursive(b, p, max, depth) ==
    LET l == BerDecoder_decodeLength(b, p + 1, max)
        type == DataOfTag(b[p])
        end == l.at + l.length
    IN  IF \/ depth = MaxRecursion
           \/ l = Bad
           \/ \A t \in DOMAIN DataTag : DataTag[t] # b[p]
           \/ l.length = 0 /\ type \notin {"VISIBLE_STRING", "STRING", "OCTET_STRING"}
        THEN NotDecoded
        ELSE IF type \in {"ARRAY", "STRUCTURE"}
        THEN LET n == getNumberOfElements(b, l.at, l.length)
                 d == DecodedElements(b, l.at, max, depth + 1, n, <<>>)
             IN  IF n < 0 \/ d = NotDecoded THEN NotDecoded
                 ELSE Decoded([d.value EXCEPT !.type = type], d.end)
        ELSE IF SizeFits(type, l.length)
        THEN Decoded(decodePrimitive(type, Octets(b, l)), end)
        ELSE NotDecoded

MmsValue_decodeMmsData(b, p, max) == decodeMmsDataRecursive(b, p, max, 0)
=============================================================================
