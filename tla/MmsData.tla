------------------------------ MODULE MmsData ------------------------------
(***************************************************************************)
(* What the modules of the C library's client and server speak about:      *)
(* values (MmsValue), types of variables (MmsVariableSpecification), lists *)
(* of variables (MmsNamedVariableList) and the calls of the client.        *)
(*                                                                         *)
(* A value is a record: its type; n, the number that a BOOLEAN, a          *)
(* DATA_ACCESS_ERROR, a BIT_STRING (in bits) or a FLOAT (its format width) *)
(* carries; its octets, those of a FLOAT being the exponent width and the  *)
(* number in network order; and the elements of an ARRAY or a STRUCTURE.   *)
(*                                                                         *)
(* A type is a record: its name; its type; n, the size a leaf has in the   *)
(* type or the number of elements of an ARRAY; width, the exponent's width *)
(* of a FLOAT; and the elements of a STRUCTURE, or the one element type of *)
(* an ARRAY.                                                               *)
(*                                                                         *)
(* A list of variables is a record: its name, whether a client may delete  *)
(* it, and its members, each with the domain and the name of the variable, *)
(* an index (-1: none) and a component (NULL: none).                       *)
(*                                                                         *)
(* A name is the sequence of its octets; NULL stands for a name that is    *)
(* not given.  The components of a name are separated by '$'.              *)
(***************************************************************************)
EXTENDS SequencesExt

NULL == <<>>
Dollar == 36

FirstDollar(name) == SelectInSeq(name, LAMBDA o : o = Dollar)
Before(name, i) == SubSeq(name, 1, i - 1)
Behind(name, i) == SubSeq(name, i + 1, Len(name))

Val(type, n, octets, elements) ==
    [type |-> type, n |-> n, octets |-> octets, elements |-> elements]
NoValue == Val("NULL", 0, <<>>, <<>>)           \* a NULL pointer

\* MmsDataAccessError
Success == -1
TypeInconsistent == 7
AttributeInconsistent == 8
AccessUnsupported == 9
ObjectNoneExistent == 10
ValueInvalid == 11

DataAccessError(code) == Val("DATA_ACCESS_ERROR", code, <<>>, <<>>)
OfOctets(type, octets) == Val(type, 0, octets, <<>>)

VariableSpec(name, type, n, width, elements) ==
    [name |-> name, type |-> type, n |-> n, width |-> width, elements |-> elements]
NoSpec == VariableSpec(NULL, "NULL", 0, 0, <<>>)

VariableList(name, deletable, variables) == [name |-> name, deletable |-> deletable, variables |-> variables]
NoList == VariableList(NULL, FALSE, <<>>)

\* A call of the client, or of the server's application, and what it is given
Call(op, domain, item, index, component, items, values) ==
    [op |-> op, domain |-> domain, item |-> item, index |-> index, component |-> component,
     items |-> items, values |-> values]

NameOps == {"namedVariable", "namedVariableList", "journal", "domain", "associationLists"}
ReadOps == {"read", "readComponent", "readElement", "readElements", "readElementComponent"}
ReadManyOps == {"readMultiple", "readList", "readAssociationList"}
WriteOps == {"write", "writeComponent", "writeElement", "writeElements", "writeElementComponent"}
WriteManyOps == {"writeMultiple", "writeList"}
DefineOps == {"define", "defineForAssociation"}
DeleteOps == {"delete", "deleteOfAssociation"}
DirectoryOps == {"directory", "associationDirectory"}

\* What a call returns, and what the handler of a report is called with
Returned(error, value) == [error |-> error, value |-> value]
Failed(error) == Returned(error, NoValue)
NotYet == Failed("NOT_YET")

\* What the handler of a call that failed is told besides the error; -2 is
\* DATA_ACCESS_ERROR_NO_RESPONSE.
RefusedCall(c, error) == IF c.op \in WriteOps THEN Returned(error, -2) ELSE Failed(error)

Reported(domain, item, value) == [domain |-> domain, item |-> item, value |-> value]

\* The server sends no answer
NoResponse == <<>>
=============================================================================
