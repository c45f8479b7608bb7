---------------------------- MODULE MmsRequests ----------------------------
(***************************************************************************)
(* The request messages of the C library's client                          *)
(* (iso_mms/client/mms_client_*.c).  The older services fill in an asn1c   *)
(* structure and let the generated encoder write it; the others write the  *)
(* octets themselves and compute beforehand every length they announce.    *)
(* The buffer the request is written to is large enough.                   *)
(***************************************************************************)
EXTENDS MmsStructures

(***************************************************************************)
(* Requests built as asn1c structures.                                     *)
(***************************************************************************)
mmsClient_createConfirmedRequestPdu(id, service, request) ==
    Encode("MmsPdu",
           Alt("MmsPdu", "confirmedRequestPdu",
               Structure("ConfirmedRequestPdu",
                   [invokeID |-> Leaf(asn_long2INTEGER(id)),
                    confirmedServiceRequest |-> Alt("ConfirmedServiceRequest", service, request)])),
           0, 0, FALSE)

DomainSpecific(domain, item) ==
    Alt("ObjectName", "domainspecific",
        Structure("domainspecific_3", [domainId |-> Leaf(domain), itemId |-> Leaf(item)]))
VmdSpecific(item) == Alt("ObjectName", "vmdspecific", Leaf(item))
AaSpecific(item) == Alt("ObjectName", "aaspecific", Leaf(item))

\* The name of a variable or of a list, by what the caller gives
ObjectName(domain, item, associationSpecific) ==
    CASE associationSpecific -> AaSpecific(item)
      [] ~associationSpecific /\ domain # NULL -> DomainSpecific(domain, item)
      [] OTHER -> VmdSpecific(item)

Selecting(kind, choice) ==
    ListOf(<<Alt("AlternateAccess_Member_2", "unnamed", Alt("AlternateAccessSelection", kind, choice))>>)
SelectAccess(name, member) == Selecting("selectAccess", Alt("selectAccess_11", name, member))
SelectAlternateAccess(name, member, nested) ==
    Selecting("selectAlternateAccess",
              Structure("selectAlternateAccess_2",
                        [accessSelection |-> Alt("accessSelection_3", name, member),
                         alternateAccess |-> nested]))

mmsClient_createAlternateAccess(index, elementCount) ==
    IF elementCount > 0
    THEN SelectAccess("indexRange",
                      Structure("indexRange_14", [lowIndex |-> Leaf(asn_long2INTEGER(index)),
                                                  numberOfElements |-> Leaf(asn_long2INTEGER(elementCount))]))
    ELSE SelectAccess("index", Leaf(asn_long2INTEGER(index)))

RECURSIVE mmsClient_createAlternateAccessComponent(_)
mmsClient_createAlternateAccessComponent(name) ==
    LET i == FirstDollar(name)
    IN  IF i > 0
        THEN SelectAlternateAccess("component", Leaf(Before(name, i)),
                                   mmsClient_createAlternateAccessComponent(Behind(name, i)))
        ELSE SelectAccess("component", Leaf(name))

mmsClient_createAlternateAccessIndexComponent(index, component) ==
    IF component # NULL
    THEN SelectAlternateAccess("index", Leaf(asn_long2INTEGER(index)),
                               mmsClient_createAlternateAccessComponent(component))
    ELSE SelectAccess("index", Leaf(asn_long2INTEGER(index)))

\* A variable of a list of variables; Absent for no alternate access
Variable(type, name, access) ==
    Structure(type, [variableSpecification |-> Alt("VariableSpecification", "name", name),
                     alternateAccess |-> access])
VariableOf(name, access) == Variable("ListOfVariableSeq", name, access)
ListOfVariable(variables) == Alt("VariableAccessSpecification", "listOfVariable", ListOf(variables))
VariableListName(name) == Alt("VariableAccessSpecification", "variableListName", name)

ReadOf(id, specWithResult, specification) ==
    mmsClient_createConfirmedRequestPdu(id, "read",
        Structure("ReadRequest",
                  [specificationWithResult |-> IF specWithResult THEN Leaf(<<1>>) ELSE Absent,
                   variableAccessSpecification |-> specification]))

mmsClient_createReadNamedVariableListRequest(id, domain, item, specWithResult) ==
    ReadOf(id, specWithResult, VariableListName(ObjectName(domain, item, FALSE)))

mmsClient_createReadAssociationSpecificNamedVariableListRequest(id, item, specWithResult) ==
    ReadOf(id, specWithResult, VariableListName(AaSpecific(item)))

mmsClient_createReadRequest(id, domain, item) ==
    ReadOf(id, FALSE, ListOfVariable(<<VariableOf(ObjectName(domain, item, FALSE), Absent)>>))

mmsClient_createReadRequestComponent(id, domain, item, component) ==
    ReadOf(id, FALSE,
           ListOfVariable(<<VariableOf(ObjectName(domain, item, FALSE),
                                       mmsClient_createAlternateAccessComponent(component))>>))

mmsClient_createReadRequestAlternateAccessIndex(id, domain, item, index, elementCount) ==
    ReadOf(id, FALSE,
           ListOfVariable(<<VariableOf(DomainSpecific(domain, item),
                                       mmsClient_createAlternateAccess(index, elementCount))>>))

mmsClient_createReadRequestAlternateAccessSingleIndexComponent(id, domain, item, index, component) ==
    ReadOf(id, FALSE,
           ListOfVariable(<<VariableOf(DomainSpecific(domain, item),
                                       mmsClient_createAlternateAccessIndexComponent(index, component))>>))

mmsClient_createReadRequestMultipleValues(id, domain, items) ==
    ReadOf(id, FALSE,
           ListOfVariable([i \in DOMAIN items |-> VariableOf(DomainSpecific(domain, items[i]), Absent)]))

WriteOf(id, specification, values) ==
    mmsClient_createConfirmedRequestPdu(id, "write",
        Structure("WriteRequest",
                  [variableAccessSpecification |-> specification,
                   listOfData |-> ListOf([i \in DOMAIN values |-> mmsMsg_createBasicDataElement(values[i])])]))

WriteOne(id, domain, item, access, value) ==
    WriteOf(id, ListOfVariable(<<VariableOf(DomainSpecific(domain, item), access)>>), <<value>>)

mmsClient_createWriteRequest(id, domain, item, value) == WriteOne(id, domain, item, Absent, value)

\* No message (-1) when there are fewer values than items
mmsClient_createWriteMultipleItemsRequest(id, domain, items, values) ==
    IF Len(values) < Len(items) THEN <<>>
    ELSE WriteOf(id, ListOfVariable([i \in DOMAIN items |-> VariableOf(DomainSpecific(domain, items[i]), Absent)]),
                 SubSeq(values, 1, Len(items)))

mmsClient_createWriteRequestNamedVariableList(id, associationSpecific, domain, item, values) ==
    WriteOf(id, VariableListName(ObjectName(domain, item, associationSpecific)), values)

mmsClient_createWriteRequestArray(id, domain, item, index, elementCount, value) ==
    WriteOne(id, domain, item, mmsClient_createAlternateAccess(index, elementCount), value)

mmsClient_createWriteRequestComponent(id, domain, item, component, value) ==
    WriteOne(id, domain, item, mmsClient_createAlternateAccessComponent(component), value)

mmsClient_createWriteRequestAlternateAccessSingleIndexComponent(id, domain, item, index, component, value) ==
    WriteOne(id, domain, item, mmsClient_createAlternateAccessIndexComponent(index, component), value)

\* The classes of names a client asks for
ClassNumber == [namedVariable |-> 0, namedVariableList |-> 2, journal |-> 8, domain |-> 9]

NameListOf(id, class, scope, continueAfter) ==
    mmsClient_createConfirmedRequestPdu(id, "getNameList",
        Structure("GetNameListRequest",
                  [objectClass |-> Alt("ObjectClass", "basicObjectClass",
                                       Leaf(asn_long2INTEGER(ClassNumber[class]))),
                   objectScope |-> scope,
                   continueAfter |-> IF continueAfter = NULL THEN Absent ELSE Leaf(continueAfter)]))

mmsClient_createMmsGetNameListRequestVMDspecific(id, continueAfter) ==
    NameListOf(id, "domain", Alt("objectScope_3", "vmdSpecific", Leaf(<<0>>)), continueAfter)

mmsClient_createMmsGetNameListRequestAssociationSpecific(id, continueAfter) ==
    NameListOf(id, "namedVariableList", Alt("objectScope_3", "aaSpecific", Leaf(<<0>>)), continueAfter)

mmsClient_createGetNameListRequestDomainOrVMDSpecific(id, domain, class, continueAfter) ==
    NameListOf(id, class,
               IF domain # NULL THEN Alt("objectScope_3", "domainSpecific", Leaf(domain))
               ELSE Alt("objectScope_3", "vmdSpecific", Leaf(<<0>>)),
               continueAfter)

Deletion(id, name) ==
    mmsClient_createConfirmedRequestPdu(id, "deleteNamedVariableList",
        Structure("DeleteNamedVariableListRequest",
                  [scopeOfDelete |-> Leaf(asn_long2INTEGER(0)), listOfVariableListName |-> ListOf(<<name>>)]))

mmsClient_createDeleteNamedVariableListRequest(id, domain, list) ==
    Deletion(id, ObjectName(domain, list, FALSE))

mmsClient_createDeleteAssociationSpecificNamedVariableListRequest(id, list) ==
    Deletion(id, AaSpecific(list))

mmsClient_createGetNamedVariableListAttributesRequest(id, domain, list) ==
    mmsClient_createConfirmedRequestPdu(id, "getNamedVariableListAttributes", ObjectName(domain, list, FALSE))

mmsClient_createGetNamedVariableListAttributesRequestAssociationSpecific(id, list) ==
    mmsClient_createConfirmedRequestPdu(id, "getNamedVariableListAttributes", AaSpecific(list))

\* A member of a list: its domain and name, an array index (-1 for none) and a component
mmsClient_createDefineNamedVariableListRequest(id, domain, list, members, associationSpecific) ==
    LET Access(m) == CASE m.index = -1 -> Absent
                       [] m.index # -1 /\ m.component # NULL ->
                            mmsClient_createAlternateAccessIndexComponent(m.index, m.component)
                       [] OTHER -> mmsClient_createAlternateAccess(m.index, 0)
        Of(m) == Variable("DefineNamedVariableListRequest_Member_4", DomainSpecific(m.domain, m.item), Access(m))
    IN  mmsClient_createConfirmedRequestPdu(id, "defineNamedVariableList",
            Structure("DefineNamedVariableListRequest",
                      [variableListName |-> ObjectName(domain, list, associationSpecific),
                       listOfVariable |-> ListOf([i \in DOMAIN members |-> Of(members[i])])]))

mmsClient_createGetVariableAccessAttributesRequest(id, domain, item) ==
    mmsClient_createConfirmedRequestPdu(id, "getVariableAccessAttributes",
        Alt("GetVariableAccessAttributesRequest", "name", ObjectName(domain, item, FALSE)))
-----------------------------------------------------------------------------
(***************************************************************************)
(* Requests written octet by octet.  size is what the builder computes and *)
(* announces; what follows is what it writes.                              *)
(***************************************************************************)
LengthSize(n) == BerEncoder_determineLengthSize(n)
IdSize(id) == BerEncoder_UInt32determineEncodedSize(id)

ConfirmedRequest(id, size, request) ==
    BerEncoder_encodeTL(160, size) \o BerEncoder_encodeTL(2, IdSize(id)) \o BerEncoder_encodeUInt32(id)
        \o request

\* A service whose number takes a second tag octet
LongTL(number, size) == <<191, number>> \o BerEncoder_encodeLength(size)

NameSize(name) == 1 + LengthSize(Len(name)) + Len(name)
GraphicString(name) == BerEncoder_encodeOctetString(25, name)

mmsClient_createFileOpenRequest_Mutant(id, name, position) ==
    LET size == 1 + LengthSize(Len(name)) + NameSize(name) + 2
                + BerEncoder_UInt32determineEncodedSize(position)
    IN  ConfirmedRequest(id, 2 + IdSize(id) + 2 + LengthSize(size) + size,
            LongTL(72, size) \o BerEncoder_encodeTL(160, NameSize(name)) \o GraphicString(name)
                \o BerEncoder_encodeUInt32WithTL(129, position))

mmsClient_createFileOpenRequest(id, name, position) ==
    LET size == 1 + LengthSize(NameSize(name)) + NameSize(name) + 2
                + BerEncoder_UInt32determineEncodedSize(position)
    IN  ConfirmedRequest(id, 2 + IdSize(id) + 2 + LengthSize(size) + size,
            LongTL(72, size) \o BerEncoder_encodeTL(160, NameSize(name)) \o GraphicString(name)
                \o BerEncoder_encodeUInt32WithTL(129, position))

mmsClient_createFileDeleteRequest(id, name) ==
    LET size == NameSize(name)
    IN  ConfirmedRequest(id, 1 + 2 + IdSize(id) + 1 + LengthSize(size) + size,
                         LongTL(76, size) \o GraphicString(name))

\* The number of an open file is the whole request
FrsmRequest(id, number, frsmId) ==
    LET frsm == BerInteger_setInt32(frsmId)
    IN  ConfirmedRequest(id, 1 + 2 + 2 + IdSize(id) + Len(frsm),
                         <<159>> \o BerEncoder_encodeOctetString(number, frsm))

mmsClient_createFileReadRequest(id, frsmId) == FrsmRequest(id, 73, frsmId)

mmsClient_createFileCloseRequest(id, frsmId) == FrsmRequest(id, 74, frsmId)

encodeFileSpecification(tag, name) == BerEncoder_encodeTL(tag, NameSize(name)) \o GraphicString(name)

FileSpecificationSize(name) == NameSize(name) + 1 + LengthSize(NameSize(name))

mmsClient_createFileDirectoryRequest(id, name, continueAfter) ==
    LET Size(n) == IF n # NULL THEN FileSpecificationSize(n) ELSE 0
        Written(tag, n) == IF n # NULL THEN encodeFileSpecification(tag, n) ELSE <<>>
        size == Size(name) + Size(continueAfter)
    IN  ConfirmedRequest(id, 1 + 2 + 1 + IdSize(id) + LengthSize(size) + size,
                         LongTL(77, size) \o Written(160, name) \o Written(161, continueAfter))

TwoFiles(id, number, tag, first, second) ==
    LET size == FileSpecificationSize(first) + FileSpecificationSize(second)
    IN  ConfirmedRequest(id, 2 + IdSize(id) + 2 + LengthSize(size) + size,
                         LongTL(number, size) \o encodeFileSpecification(tag, first)
                             \o encodeFileSpecification(tag + 1, second))

mmsClient_createFileRenameRequest(id, current, new) == TwoFiles(id, 75, 160, current, new)

mmsClient_createObtainFileRequest(id, source, destination) == TwoFiles(id, 46, 161, source, destination)

(***************************************************************************)
(* ReadJournal.  What is announced for the service counts a tag and a      *)
(* length in front of the contents; what is in front of them is the tag    *)
(* and the length of the journal's name alone.  The two are the same as    *)
(* long as both lengths take one octet.                                    *)
(***************************************************************************)
ReadJournal(id, domain, item, range) ==
    LET objectId == NameSize(domain) + NameSize(item)
        journalName == 1 + LengthSize(objectId) + objectId
        content == journalName + Len(range)
        size == 1 + LengthSize(content) + content
    IN  ConfirmedRequest(id, 1 + 2 + 2 + IdSize(id) + size,
            LongTL(65, size) \o BerEncoder_encodeTL(160, journalName) \o BerEncoder_encodeTL(161, objectId)
                \o BerEncoder_encodeOctetString(26, domain) \o BerEncoder_encodeOctetString(26, item) \o range)

mmsClient_createReadJournalRequestWithTimeRange(id, domain, item, start, end) ==
    LET Limit(tag, time) == BerEncoder_encodeTL(tag, 2 + Len(time)) \o BerEncoder_encodeOctetString(128, time)
    IN  ReadJournal(id, domain, item, Limit(161, start) \o Limit(162, end))

mmsClient_createReadJournalRequestStartAfter(id, domain, item, time, entry) ==
    ReadJournal(id, domain, item,
        BerEncoder_encodeTL(165, 2 + Len(time) + 2 + Len(entry))
            \o BerEncoder_encodeOctetString(128, time) \o BerEncoder_encodeOctetString(129, entry))

mmsClient_createIdentifyRequest(id) ==
    ConfirmedRequest(id, 2 + 2 + IdSize(id), BerEncoder_encodeTL(130, 0))

mmsClient_createStatusRequest(id, extendedDerivation) ==
    ConfirmedRequest(id, 2 + 2 + 1 + IdSize(id), BerEncoder_encodeBoolean(128, extendedDerivation))

\* What a client says it supports; the values are 1's and 0's to everyone but the two ends
ServicesSupported == <<238, 28, 0, 0, 4, 8, 0, 0, 121, 239, 24>>
NestingLevel == 10

mmsClient_createInitiateRequest(maxPduSize, calling, called) ==
    LET Number(tag, n) == BerEncoder_encodeUInt32WithTL(tag, n)
        Size(n) == 2 + BerEncoder_UInt32determineEncodedSize(n)
        detail == 3 + 5 + 14
    IN  BerEncoder_encodeTL(168, Size(maxPduSize) + Size(calling) + Size(called) + Size(NestingLevel) + 2 + detail)
            \o Number(128, maxPduSize) \o Number(129, calling) \o Number(130, called) \o Number(131, NestingLevel)
            \o BerEncoder_encodeTL(164, detail)
            \o <<128, 1, 1>> \o <<129, 3, 5, 241, 0>> \o BerEncoder_encodeBitString(130, 85, ServicesSupported)

mmsClient_createConcludeRequest == <<139, 0>>
=============================================================================
