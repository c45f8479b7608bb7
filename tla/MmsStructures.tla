--------------------------- MODULE MmsStructures ---------------------------
(***************************************************************************)
(* The other codecs of MmsValue (C library).  The client, and the server's *)
(* write service, turn a value into an asn1c structure that the generated  *)
(* encoder writes, and back (mms_common_msg.c).  The client parses the     *)
(* access results of a read with a copy of that code (mms_client_read.c).  *)
(***************************************************************************)
EXTENDS Ber, MmsValues

RECURSIVE mmsMsg_createBasicDataElement(_), mmsMsg_parseDataElement(_)

(***************************************************************************)
(* Values as asn1c structures.  The structure of a CHOICE says which       *)
(* alternative it holds; a list or a SEQUENCE holds its members.           *)
(***************************************************************************)
Leaf(octets) == Node(octets, <<>>)
ListOf(items) == Node(<<>>, items)

IndexOf(type, name) ==
    CHOOSE i \in DOMAIN asn_DEF[type].elements : asn_DEF[type].elements[i].name = name
Alt(type, name, member) == Node(<<IndexOf(type, name)>>, <<member>>)
Present(type, st) == asn_DEF[type].elements[st.n[1]].name
Chosen(st) == st.c[1]
MemberOf(type, st, name) == st.c[IndexOf(type, name)]

\* The members of a SEQUENCE that a builder sets; the others are absent
Structure(type, members) ==
    LET elements == asn_DEF[type].elements
    IN  Node(<<>>, [i \in DOMAIN elements |->
                      IF elements[i].name \in DOMAIN members THEN members[elements[i].name] ELSE Absent])

\* The number of an INTEGER; the ones sent fit in a long.
LongOf(o) == asn_INTEGER2long(o)[1]

DataAlternative ==
    [BOOLEAN |-> "boolean", BIT_STRING |-> "bitstring", INTEGER |-> "integer",
     UNSIGNED |-> "unsigned", FLOAT |-> "floatingpoint", OCTET_STRING |-> "octetstring",
     VISIBLE_STRING |-> "visiblestring", BINARY_TIME |-> "binarytime", STRING |-> "mMSString",
     UTC_TIME |-> "utctime", ARRAY |-> "array", STRUCTURE |-> "structure"]

\* A whole number of octets is said to leave eight bits unused: the encoder takes that for none.
UnusedBits(v) == 8 - (v.n % 8)

\* The client has no use for values of other types (an error among them); such an element is
\* left without an alternative, which the encoder refuses.
Nothing == Node(<<0>>, <<>>)

mmsMsg_createBasicDataElement(v) ==
    LET List == ListOf([i \in DOMAIN v.elements |-> mmsMsg_createBasicDataElement(v.elements[i])])
        member == CASE v.type \in {"ARRAY", "STRUCTURE"} -> List
                    [] v.type = "BIT_STRING" -> Leaf(<<UnusedBits(v)>> \o v.octets)
                    [] v.type = "BOOLEAN" -> Leaf(<<v.n>>)
                    [] v.type = "FLOAT" -> Leaf(<<IF v.n = 64 THEN 11 ELSE 8>> \o Tail(v.octets))
                    [] OTHER -> Leaf(v.octets)
    IN  IF v.type \in DOMAIN DataAlternative
        THEN Alt("Data", DataAlternative[v.type], member) ELSE Nothing

TypeOfData(name) == CHOOSE type \in DOMAIN DataAlternative : DataAlternative[type] = name

\* A value that is not an array or a structure; the parsers of Data and of AccessResult have
\* this in common.
parsePrimitive(type, o) ==
    CASE type = "BOOLEAN" -> Val(type, o[1], <<>>, <<>>)
      [] type \in {"INTEGER", "UNSIGNED"} -> IF o = <<>> THEN NoValue ELSE OfOctets(type, o)
      [] type = "BIT_STRING" ->
           IF 8 * (Len(o) - 1) < o[1] THEN NoValue
           ELSE Val(type, 8 * (Len(o) - 1) - o[1], Tail(o), <<>>)
      [] type = "FLOAT" ->
           IF Len(o) \in {5, 9} THEN Val(type, (Len(o) - 1) * 8, o, <<>>) ELSE NoValue
      [] type = "UTC_TIME" -> IF Len(o) = 8 THEN OfOctets(type, o) ELSE NoValue
      [] type = "BINARY_TIME" -> IF Len(o) \in {4, 6} THEN OfOctets(type, o) ELSE NoValue
      [] OTHER -> OfOctets(type, o)

\* An array or structure of no elements, or with an element that is not understood, is none.
parseElements(type, items) ==
    LET elements == [i \in DOMAIN items |-> mmsMsg_parseDataElement(items[i])]
    IN  IF items = <<>> \/ NoValue \in Range(elements) THEN NoValue
        ELSE Val(type, 0, <<>>, elements)

mmsMsg_parseDataElement(st) ==
    LET name == Present("Data", st)
        type == TypeOfData(name)
    IN  CASE name \in {"booleanArray", "generalizedtime", "bcd"} -> NoValue
          [] name \in {"array", "structure"} -> parseElements(type, Chosen(st).c)
          [] OTHER -> parsePrimitive(type, Chosen(st).n)

\* The client's own copy for the results of a read: here a bit string of no bits is none, and
\* a type that is not known becomes an error value.
parseAccessResult(st) ==
    LET name == Present("AccessResult", st)
        type == TypeOfData(name)
    IN  CASE name = "failure" ->
               DataAccessError(IF Chosen(st).n # <<>> /\ Chosen(st).n[1] < 12 THEN Chosen(st).n[1] ELSE 12)
          [] name \in {"array", "structure"} -> parseElements(type, Chosen(st).c)
          [] name \in {"booleanArray", "generalizedtime", "bcd"} -> DataAccessError(11)
          [] name = "bitstring" ->
               IF 8 * (Len(Chosen(st).n) - 1) <= Chosen(st).n[1] THEN NoValue ELSE parsePrimitive(type, Chosen(st).n)
          [] OTHER -> parsePrimitive(type, Chosen(st).n)

\* One result stands for itself unless the caller wants a list.
mmsClient_parseListOfAccessResults(list, createArray) ==
    LET Result(values) == CASE Len(list) > 1 \/ createArray -> Val("ARRAY", 0, <<>>, values)
                            [] Len(list) = 1 /\ ~createArray -> values[1]
                            [] OTHER -> NoValue
    IN  Result([i \in DOMAIN list |-> parseAccessResult(list[i])])
=============================================================================
