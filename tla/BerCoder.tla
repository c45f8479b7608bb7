------------------------------ MODULE BerCoder ------------------------------
(***************************************************************************)
(* The BER helpers the C library's own services are written with           *)
(* (asn1/ber_encoder.c, asn1/ber_decode.c, asn1/ber_integer.c).  They know *)
(* no types: a caller writes a tag and a length it has computed before,    *)
(* then the contents, and a parser walks over tags and lengths.            *)
(*                                                                         *)
(* Octets are numbers 0..255 in sequences.  A position is an index into    *)
(* the sequence, and max is the first position a parser may not touch.     *)
(* Numbers stay below 2^31.                                                *)
(***************************************************************************)
EXTENDS Integers, SequencesExt

RECURSIVE compressInteger(_), decodeLengthRecursive(_, _, _, _), getIndefiniteLength(_, _, _, _, _),
          Elements(_, _, _, _, _)

(***************************************************************************)
(* Encoding.                                                               *)
(***************************************************************************)

\* Length 65535 takes the four-octet form, although two octets would hold it.
BerEncoder_encodeLength(n) ==
    CASE n < 128 -> <<n>>
      [] n \in 128 .. 255 -> <<129, n>>
      [] n \in 256 .. 65534 -> <<130, n \div 256, n % 256>>
      [] OTHER -> <<131, n \div 65536, (n % 65536) \div 256, n % 256>>

\* How many octets a caller sets aside for a length.  It says three for 65535, one less than
\* BerEncoder_encodeLength writes.
BerEncoder_determineLengthSize(n) ==
    CASE n < 128 -> 1 [] n \in 128 .. 255 -> 2 [] n \in 256 .. 65535 -> 3 [] OTHER -> 4

BerEncoder_encodeTL(tag, n) == <<tag>> \o BerEncoder_encodeLength(n)

BerEncoder_encodeOctetString(tag, octets) == BerEncoder_encodeTL(tag, Len(octets)) \o octets

BerEncoder_encodeStringWithTag(tag, string) == BerEncoder_encodeTL(tag, Len(string)) \o string

BerEncoder_determineEncodedStringSize(string) ==
    1 + BerEncoder_determineLengthSize(Len(string)) + Len(string)

BerEncoder_encodeBoolean(tag, value) == <<tag, 1, IF value THEN 1 ELSE 0>>

ByteSize(bits) == (bits + 7) \div 8

\* The bits behind the last one are sent as zeros.
BerEncoder_encodeBitString(tag, bits, octets) ==
    LET size == ByteSize(bits)
        padding == size * 8 - bits
        Masked(i) == IF i = size THEN (octets[i] \div 2^padding) * 2^padding ELSE octets[i]
    IN  BerEncoder_encodeTL(tag, size + 1) \o <<padding>> \o [i \in 1 .. size |-> Masked(i)]

\* The length is that of the octets and the padding octet, but the room for it is reckoned
\* without the padding octet.
BerEncoder_determineEncodedBitStringSize(bits) ==
    2 + BerEncoder_determineLengthSize(ByteSize(bits)) + ByteSize(bits)

\* An octet whose removal changes neither the sign nor the value is dropped.
compressInteger(o) ==
    IF Len(o) > 1 /\ \/ o[1] = 0 /\ o[2] < 128
                     \/ o[1] = 255 /\ o[2] >= 128
    THEN compressInteger(Tail(o)) ELSE o

BigEndian(n) == <<n \div 2^24, (n \div 2^16) % 256, (n \div 2^8) % 256, n % 256>>

BerEncoder_encodeUInt32(n) == compressInteger(<<0>> \o BigEndian(n))

BerEncoder_UInt32determineEncodedSize(n) == Len(compressInteger(<<0>> \o BigEndian(n)))

BerEncoder_encodeUInt32WithTL(tag, n) ==
    LET o == compressInteger(<<0>> \o BigEndian(n)) IN <<tag, Len(o)>> \o o

BerInteger_setInt32(n) == compressInteger(BigEndian(n))

(***************************************************************************)
(* Decoding.                                                               *)
(***************************************************************************)

\* A length, and the position behind it; at = -1 when there is no good one.  The indefinite
\* form is measured by walking over what it holds, end mark included.
Bad == [at |-> -1, length |-> 0]

Extent(at, length, max) ==
    IF length < 0 \/ at + length > max THEN Bad ELSE [at |-> at, length |-> length]

decodeLengthRecursive(b, p, max, depth) ==
    LET n == b[p] % 128
    IN  CASE p >= max -> Bad
          [] p < max /\ b[p] < 128 -> Extent(p + 1, b[p], max)
          [] p < max /\ b[p] = 128 -> Extent(p + 1, getIndefiniteLength(b, p + 1, max, depth + 1, 0), max)
          [] OTHER -> IF p + n >= max THEN Bad
                      ELSE Extent(p + 1 + n,
                                  FoldLeft(LAMBDA v, o : v * 256 + o, 0, [i \in 1 .. n |-> b[p + i]]), max)

MaxDepth == 50

getIndefiniteLength(b, p, max, depth, length) ==
    IF depth > MaxDepth \/ p >= max THEN -1
    ELSE IF b[p] = 0 /\ p + 1 < max /\ b[p + 1] = 0 THEN length + 2
    ELSE LET tag == IF b[p] % 32 = 31 THEN 2 ELSE 1
             Behind(sub) == IF sub = Bad THEN -1
                            ELSE getIndefiniteLength(b, sub.at + sub.length, max, depth,
                                                     length + (sub.at - p) + sub.length)
         IN  Behind(decodeLengthRecursive(b, p + tag, max, depth))

BerDecoder_decodeLength(b, p, max) == decodeLengthRecursive(b, p, max, 0)

BerDecoder_decodeUint32(b, p, n) == FoldLeft(LAMBDA v, o : v * 256 + o, 0, SubSeq(b, p, p + n - 1))

BerDecoder_decodeInt32(b, p, n) ==
    FoldLeft(LAMBDA v, o : v * 256 + o, IF b[p] >= 128 THEN -1 ELSE 0, SubSeq(b, p, p + n - 1))

BerDecoder_decodeBoolean(b, p) == b[p] # 0

Octets(b, e) == SubSeq(b, e.at, e.at + e.length - 1)

(***************************************************************************)
(* The loop every parser of the library is built around: from p, as long   *)
(* as end is not reached, a tag, a length that must lie before max, and a  *)
(* step over the contents.  What it yields is <<ok, elements>>; a length   *)
(* that is not good ends the loop and the parser fails.                    *)
(***************************************************************************)
Elements(b, p, end, max, found) ==
    IF p >= end THEN [ok |-> TRUE, found |-> found]
    ELSE LET Further(l) == IF l = Bad THEN [ok |-> FALSE, found |-> found]
                           ELSE Elements(b, l.at + l.length, end, max,
                                         Append(found, [tag |-> b[p], at |-> l.at, length |-> l.length]))
         IN  Further(BerDecoder_decodeLength(b, p + 1, max))

\* The elements of the contents of element e.
Within(b, e, max) == Elements(b, e.at, e.at + e.length, max, <<>>)

\* The last of the elements with a tag: a parser that meets a field twice keeps the second.
Tagged(elements, tag) == SelectSeq(elements, LAMBDA e : e.tag = tag)
Field(elements, tag) == LET t == Tagged(elements, tag) IN t[Len(t)]
Has(elements, tag) == Tagged(elements, tag) # <<>>

\* An element whose tag takes two octets (a service of the file or journal class): the loop
\* above would read the second as a length, so the parsers take it apart by hand.
LongElement(b, p, tag, max) ==
    IF p + 1 < max /\ b[p] = tag[1] /\ b[p + 1] = tag[2]
    THEN BerDecoder_decodeLength(b, p + 2, max) ELSE Bad
=============================================================================
