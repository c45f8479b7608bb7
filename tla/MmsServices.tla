---------------------------- MODULE MmsServices ----------------------------
(***************************************************************************)
(* The services of the C library's server (iso_mms/server): reading and    *)
(* writing variables, listing names, the named variable lists, and the     *)
(* types of variables.  A handler takes the device and a request and gives *)
(* the device afterwards and the octets of the response; no octets are no  *)
(* response.                                                               *)
(*                                                                         *)
(* The device is a record: its domains by name, the lists of variables of  *)
(* the device and of the association, and what the association has agreed  *)
(* on, the size of a message first of all.                                 *)
(*                                                                         *)
(* The server is built without VMD scope variables, with a flat and sorted *)
(* name space and with dynamic lists; no application handler is installed, *)
(* so every access is allowed and every value comes from the cache.  The   *)
(* services for files and journals are disabled at run time.  Names        *)
(* are shorter than the buffers they are put together in.  A request asks  *)
(* for no elements beyond an array and for no part of a leaf.              *)
(***************************************************************************)
EXTENDS MmsRequests, MmsDevice

CONSTANTS MaximumPduSize, MaxOutstanding        \* CONFIG_MMS_MAXIMUM_PDU_SIZE and
                                                \* CONFIG_DEFAULT_MAX_SERV_OUTSTANDING_*
CONSTANT Decoding(_, _)                         \* the generated decoder: Message of module Ber

LOCAL INSTANCE Bitwise

Served(device, response) == [device |-> device, response |-> response]

(***************************************************************************)
(* Responses that say no.                                                  *)
(***************************************************************************)
\* The tag and the value of a reject, by reason
RejectCode ==
    [UNRECOGNIZED_SERVICE |-> <<1, 1>>, UNKNOWN_PDU_TYPE |-> <<5, 0>>,
     REQUEST_INVALID_ARGUMENT |-> <<1, 4>>, INVALID_PDU |-> <<5, 1>>, REJECT_OTHER |-> <<1, 0>>]

mmsMsg_createMmsRejectPdu(id, reason) ==
    LET code == IF reason \in DOMAIN RejectCode THEN RejectCode[reason] ELSE RejectCode.REJECT_OTHER
    IN  BerEncoder_encodeTL(164, 3 + 2 + IdSize(id)) \o BerEncoder_encodeTL(128, IdSize(id))
            \o BerEncoder_encodeUInt32(id) \o <<128 + code[1], 1, code[2]>>

\* The class and the value of an error; those not listed become "others"
ErrorClass ==
    [ACCESS_OBJECT_ACCESS_UNSUPPORTED |-> <<135, 1>>, ACCESS_OBJECT_NON_EXISTENT |-> <<135, 2>>,
     ACCESS_OBJECT_ACCESS_DENIED |-> <<135, 3>>, SERVICE_OTHER |-> <<132, 0>>,
     SERVICE_OBJECT_CONSTRAINT_CONFLICT |-> <<132, 5>>, DEFINITION_OTHER |-> <<130, 0>>,
     DEFINITION_OBJECT_UNDEFINED |-> <<130, 1>>, DEFINITION_TYPE_UNSUPPORTED |-> <<130, 3>>,
     DEFINITION_OBJECT_EXISTS |-> <<130, 5>>, FILE_OTHER |-> <<139, 0>>,
     FILE_FILENAME_AMBIGUOUS |-> <<139, 1>>, FILE_POSITION_INVALID |-> <<139, 5>>,
     FILE_FILE_ACCESS_DENIED |-> <<139, 6>>, FILE_FILE_NON_EXISTENT |-> <<139, 7>>,
     FILE_DUPLICATE_FILENAME |-> <<139, 8>>, FILE_INSUFFICIENT_SPACE_IN_FILESTORE |-> <<139, 9>>,
     RESOURCE_OTHER |-> <<131, 0>>, RESOURCE_CAPABILITY_UNAVAILABLE |-> <<131, 4>>]

mapErrorTypeToErrorClass(error) ==
    IF error \in DOMAIN ErrorClass THEN ErrorClass[error] ELSE <<140, 0>>

mmsServer_createServiceErrorPduWithServiceSpecificInfo(id, error, info) ==
    LET infoSize == IF info = <<>> THEN 0 ELSE 1 + LengthSize(Len(info)) + Len(info)
        size == 5 + infoSize
        class == mapErrorTypeToErrorClass(error)
    IN  BerEncoder_encodeTL(162, 1 + LengthSize(size) + size + 2 + IdSize(id))
            \o BerEncoder_encodeTL(128, IdSize(id)) \o BerEncoder_encodeUInt32(id)
            \o BerEncoder_encodeTL(162, size) \o BerEncoder_encodeTL(160, 3) \o <<class[1], 1, class[2]>>
            \o (IF info = <<>> THEN <<>> ELSE BerEncoder_encodeOctetString(163, info))

mmsMsg_createServiceErrorPdu(id, error) ==
    mmsServer_createServiceErrorPduWithServiceSpecificInfo(id, error, <<>>)

\* A response that is larger than the client takes is replaced by an error.
Fitting_Mutant(device, id, response) == response

Fitting(device, id, response) ==
    IF Len(response) > device.agreed.maxPduSize THEN mmsMsg_createServiceErrorPdu(id, "RESOURCE_OTHER") ELSE response

\* The request as the generated decoder sees it; Absent when it is not the service's
RequestOf(b, service) ==
    LET pdu == Decoding("MmsPdu", b)
        request == MemberOf("ConfirmedRequestPdu", Chosen(pdu), "confirmedServiceRequest")
    IN  IF /\ pdu # Absent /\ Present("MmsPdu", pdu) = "confirmedRequestPdu"
           /\ Present("ConfirmedServiceRequest", request) = service
        THEN Chosen(request) ELSE Absent
-----------------------------------------------------------------------------
(***************************************************************************)
(* Names and alternate access.  The two kinds of selection have the same   *)
(* layout, and the code looks at one through the other.                    *)
(***************************************************************************)
\* mmsMsg_copyAsn1IdentifierToStringBuffer: a name that does not fit is empty
Identifier(leaf) == IF Len(leaf.n) < 65 THEN leaf.n ELSE <<>>

DomainIdOf(name) == Identifier(MemberOf("domainspecific_3", Chosen(name), "domainId"))
ItemIdOf(name) == Identifier(MemberOf("domainspecific_3", Chosen(name), "itemId"))

Selection(access) == Chosen(access.c[1])
IsNested(access) == Present("AlternateAccessSelection", Selection(access)) = "selectAlternateAccess"
Selector(access) ==
    IF IsNested(access)
    THEN MemberOf("selectAlternateAccess_2", Chosen(Selection(access)), "accessSelection")
    ELSE Chosen(Selection(access))
SelectorName(access) == Present(IF IsNested(access) THEN "accessSelection_3" ELSE "selectAccess_11", Selector(access))
NestedAccess(access) ==
    IF IsNested(access) THEN MemberOf("selectAlternateAccess_2", Chosen(Selection(access)), "alternateAccess")
    ELSE Absent

mmsServer_isIndexAccess(access) == SelectorName(access) \in {"index", "indexRange"}
mmsServer_isComponentAccess(access) == SelectorName(access) = "component"
mmsServer_isAccessToArrayComponent(access) ==
    NestedAccess(access) # Absent /\ SelectorName(NestedAccess(access)) = "component"

mmsServer_getLowIndex(access) ==
    LET item == Chosen(Selector(access))
    IN  CASE SelectorName(access) = "index" -> LongOf(item.n)
          [] SelectorName(access) = "indexRange" -> LongOf(MemberOf("indexRange_14", item, "lowIndex").n)
          [] OTHER -> -1

mmsServer_getNumberOfElements(access) ==
    IF SelectorName(access) = "indexRange"
    THEN LongOf(MemberOf("indexRange_14", Chosen(Selector(access)), "numberOfElements").n) ELSE 0

\* The path to a component of an array's element, and its name; NoPath if there is none
RECURSIVE mmsServer_getComponentOfArrayElement(_, _, _), getComponent(_, _, _), addNamedVariableValue(_, _, _)
mmsServer_getComponentOfArrayElement(access, spec, value) ==
    LET struct == IF spec.type = "ARRAY" THEN spec.elements[1] ELSE spec
        k == Child(struct, Chosen(Selector(NestedAccess(access))).n)
        inner == mmsServer_getComponentOfArrayElement(NestedAccess(access), struct.elements[k], value.elements[k])
        name == struct.elements[k].name
    IN  IF ~mmsServer_isAccessToArrayComponent(access) \/ spec.type \notin {"ARRAY", "STRUCTURE"} \/ k = 0
        THEN [path |-> NoPath, name |-> NULL]
        ELSE IF ~mmsServer_isAccessToArrayComponent(NestedAccess(access))
        THEN [path |-> <<k>>, name |-> name]
        ELSE [path |-> IF inner.path = NoPath THEN NoPath ELSE <<k>> \o inner.path,
              name |-> name \o <<Dollar>> \o inner.name]

\* The type and the full name of a component of a structure
getComponent(access, spec, name) ==
    LET component == Chosen(Selector(access)).n
        k == Child(spec, component)
        full == name \o <<Dollar>> \o component
    IN  IF ~mmsServer_isComponentAccess(access) \/ spec.type # "STRUCTURE" \/ k = 0
        THEN [spec |-> NoSpec, name |-> name]
        ELSE IF NestedAccess(access) # Absent
        THEN getComponent(NestedAccess(access), spec.elements[k], full)
        ELSE [spec |-> spec.elements[k], name |-> full]

\* The value takes over what was written, as far as it can; that it could not goes unnoticed.
SetAt(d, place, value) ==
    LET old == ValueAt(d.cache[place.entry], place.path)
        spec == SpecAt(MmsDomain_getNamedVariable(d, place.entry), place.path)
    IN  [d EXCEPT !.cache[place.entry] = Replace(@, place.path, MmsValue_update(spec, old, value).value)]
-----------------------------------------------------------------------------
\* The list of this name, in the domain, in the device or of the association
NamedList(device, name) ==
    CASE Present("ObjectName", name) = "domainspecific" ->
           IF DomainIdOf(name) \in DOMAIN device.domains
           THEN mmsServer_getNamedVariableListWithName(device.domains[DomainIdOf(name)].lists, ItemIdOf(name))
           ELSE NoList
      [] Present("ObjectName", name) = "vmdspecific" ->
           mmsServer_getNamedVariableListWithName(device.lists, Identifier(Chosen(name)))
      [] Present("ObjectName", name) = "aaspecific" ->
           mmsServer_getNamedVariableListWithName(device.association, Identifier(Chosen(name)))
-----------------------------------------------------------------------------
(***************************************************************************)
(* Read (mms_read_service.c).  Each variable adds a result, or none: a     *)
(* variable whose value cannot be had as a whole leaves no trace.          *)
(***************************************************************************)
NoneExistent == <<DataAccessError(10)>>
ValueOr(value, otherwise) == IF value = NoValue THEN otherwise ELSE <<value>>

\* A structure without a value of its own is put together from its components.
addNamedVariableValue(spec, d, id) ==
    LET whole == mmsServer_getValue(d, id)
        parts == [i \in DOMAIN spec.elements |->
                    addNamedVariableValue(spec.elements[i], d, id \o <<Dollar>> \o spec.elements[i].name)]
    IN  IF spec.type # "STRUCTURE" \/ whole # NoValue THEN whole
        ELSE IF \E i \in DOMAIN parts : parts[i] = NoValue THEN NoValue
        ELSE Val("STRUCTURE", 0, <<>>, parts)

ReadComponent_Mutant(d, access, spec, id) ==
    IF getComponent(access, spec, id).spec = NoSpec THEN NoValue ELSE mmsServer_getValue(d, id)

ReadComponent(d, access, spec, id) ==
    LET component == getComponent(access, spec, id)
    IN  IF component.spec = NoSpec THEN NoValue ELSE mmsServer_getValue(d, component.name)

ArrayAccess(array, access, spec) ==
    LET low == mmsServer_getLowIndex(access)
        n == mmsServer_getNumberOfElements(access)
        element == MmsValue_getElement(array, low)
        path == mmsServer_getComponentOfArrayElement(access, spec, element).path
        value == CASE n > 0 -> Val("ARRAY", 0, <<>>, [i \in 1 .. n |-> MmsValue_getElement(array, low + i - 1)])
                   [] n = 0 /\ ~mmsServer_isAccessToArrayComponent(access) -> element
                   [] OTHER -> IF spec.elements[1].type # "STRUCTURE" \/ element = NoValue \/ path = NoPath
                               THEN NoValue ELSE ValueAt(element, path)
    IN  IF ~mmsServer_isIndexAccess(access) \/ array = NoValue THEN NoneExistent ELSE ValueOr(value, NoneExistent)

alternateArrayAccess(d, access, id, spec) == ArrayAccess(mmsServer_getValue(d, id), access, spec)

addNamedVariableToResultList(spec, d, id, access) ==
    CASE spec = NoSpec -> NoneExistent
      [] spec.type = "STRUCTURE" ->
           IF access # Absent THEN ValueOr(ReadComponent(d, access, spec, id), NoneExistent)
           ELSE ValueOr(addNamedVariableValue(spec, d, id), <<>>)
      [] spec.type = "ARRAY" ->
           IF access # Absent THEN alternateArrayAccess(d, access, id, spec)
           ELSE ValueOr(mmsServer_getValue(d, id), <<>>)
      [] OTHER ->
           IF access # Absent THEN NoneExistent ELSE ValueOr(mmsServer_getValue(d, id), NoneExistent)

encodeVariableAccessSpecification(specific, domain, item) ==
    LET names == (IF domain = NULL THEN <<>> ELSE BerEncoder_encodeStringWithTag(26, domain))
                     \o BerEncoder_encodeStringWithTag(26, item)
        tagged == BerEncoder_encodeTL(160 + specific, Len(names)) \o names
        listName == BerEncoder_encodeTL(161, Len(tagged)) \o tagged
    IN  BerEncoder_encodeTL(160, Len(listName)) \o listName

\* Every length is computed before the octets it counts are written.
encodeReadResponse(device, id, values, accessSpec) ==
    LET results == Total(EncodedSize, values)
        Confirmed(content, confirmed) ==
            IF 1 + LengthSize(confirmed) + confirmed > device.agreed.maxPduSize
            THEN mmsMsg_createServiceErrorPdu(id, "RESOURCE_OTHER")
            ELSE BerEncoder_encodeTL(161, confirmed) \o BerEncoder_encodeTL(2, IdSize(id))
                     \o BerEncoder_encodeUInt32(id) \o BerEncoder_encodeTL(164, content) \o accessSpec
                     \o BerEncoder_encodeTL(161, results)
                     \o FlattenSeq([i \in DOMAIN values |-> MmsValue_encodeMmsData(values[i])])
        Response(content) == Confirmed(content, 1 + LengthSize(content) + content + IdSize(id) + 2)
    IN  Response(1 + LengthSize(results) + results + Len(accessSpec))

VariableName(item) == Chosen(MemberOf("ListOfVariableSeq", item, "variableSpecification"))

\* What one variable of the request adds to the results
ReadOne(device, item) ==
    LET name == VariableName(item)
        d == device.domains[DomainIdOf(name)]
    IN  IF Present("ObjectName", name) # "domainspecific" \/ DomainIdOf(name) \notin DOMAIN device.domains
        THEN NoneExistent
        ELSE addNamedVariableToResultList(MmsDomain_getNamedVariable(d, ItemIdOf(name)), d, ItemIdOf(name),
                                          MemberOf("ListOfVariableSeq", item, "alternateAccess"))

IsNamed(item) ==
    Present("VariableSpecification", MemberOf("ListOfVariableSeq", item, "variableSpecification")) = "name"

handleReadListOfVariablesRequest(device, items, id) ==
    IF \E i \in DOMAIN items : ~IsNamed(items[i])
    THEN mmsMsg_createMmsRejectPdu(id, "REQUEST_INVALID_ARGUMENT")
    ELSE encodeReadResponse(device, id, FlattenSeq([i \in DOMAIN items |-> ReadOne(device, items[i])]), <<>>)

ListEntry_Mutant(d, entry, value) ==
    IF value = NoValue THEN <<>>
    ELSE IF entry.index = -1 THEN <<value>> ELSE <<MmsValue_getElement(value, entry.index)>>

ListEntry(d, entry, value) ==
    LET spec == MmsDomain_getNamedVariable(d, entry.item)
        element == MmsValue_getElement(value, entry.index)
        path == MmsVariableSpecification_getChildValue(spec.elements[1], element, entry.component)
    IN  IF spec = NoSpec \/ value = NoValue THEN NoneExistent
        ELSE IF entry.index = -1 THEN <<value>>
        ELSE IF value.type # "ARRAY" THEN NoneExistent
        ELSE IF entry.component = NULL THEN ValueOr(element, <<>>)
        ELSE IF path = NoPath THEN <<>> ELSE <<ValueAt(element, path)>>

addNamedVariableToNamedVariableListResultList(d, entry) == ListEntry(d, entry, mmsServer_getValue(d, entry.item))

createNamedVariableListResponse(device, list, id, accessSpec) ==
    encodeReadResponse(device, id,
        FlattenSeq([i \in DOMAIN list.variables |->
            addNamedVariableToNamedVariableListResultList(device.domains[list.variables[i].domain], list.variables[i])]),
        accessSpec)

isSpecWithResult(request) ==
    LET member == MemberOf("ReadRequest", request, "specificationWithResult")
    IN  member # Absent /\ member.n # <<0>>

handleReadNamedVariableListRequest(device, request, name, id) ==
    LET list == NamedList(device, name)
        spec == CASE Present("ObjectName", name) = "domainspecific" ->
                       encodeVariableAccessSpecification(1, DomainIdOf(name), ItemIdOf(name))
                  [] Present("ObjectName", name) = "vmdspecific" ->
                       encodeVariableAccessSpecification(0, NULL, Identifier(Chosen(name)))
                  [] Present("ObjectName", name) = "aaspecific" ->
                       encodeVariableAccessSpecification(2, NULL, Identifier(Chosen(name)))
    IN  IF list = NoList THEN mmsMsg_createServiceErrorPdu(id, "ACCESS_OBJECT_NON_EXISTENT")
        ELSE createNamedVariableListResponse(device, list, id, IF isSpecWithResult(request) THEN spec ELSE <<>>)

mmsServer_handleReadRequest(device, b, id) ==
    LET request == RequestOf(b, "read")
        what == MemberOf("ReadRequest", request, "variableAccessSpecification")
    IN  Served(device,
            IF request = Absent THEN mmsMsg_createMmsRejectPdu(id, "INVALID_PDU")
            ELSE Fitting(device, id,
                IF Present("VariableAccessSpecification", what) = "listOfVariable"
                THEN handleReadListOfVariablesRequest(device, Chosen(what).c, id)
                ELSE handleReadNamedVariableListRequest(device, request, Chosen(what), id)))
-----------------------------------------------------------------------------
(***************************************************************************)
(* Write (mms_write_service.c).  A result is a data access error or        *)
(* Success, and the items are written one after the other.                 *)
(***************************************************************************)
MaxWriteItems == 100                  \* CONFIG_MMS_WRITE_SERVICE_MAX_NUMBER_OF_WRITE_ITEMS

mmsServer_createMmsWriteResponse(id, results) ==
    LET written == FlattenSeq([i \in DOMAIN results |->
                                  IF results[i] < 0 THEN <<129, 0>> ELSE <<128, 1, results[i]>>])
    IN  BerEncoder_encodeTL(161, 2 + IdSize(id) + 1 + LengthSize(Len(written)) + Len(written))
            \o BerEncoder_encodeTL(2, IdSize(id)) \o BerEncoder_encodeUInt32(id)
            \o BerEncoder_encodeTL(165, Len(written)) \o written

\* A write: the domain afterwards and the result
Wrote(d, result) == [d |-> d, result |-> result]

SetPlace(d, place, value) ==
    IF place = NoPlace THEN Wrote(d, ValueInvalid) ELSE Wrote(SetAt(d, place, value), Success)

mmsServer_setValue(d, id, value) == SetPlace(d, MmsValueCache_lookupValue(d, id), value)

mmsServer_setValueEx(d, id, value, index, component) ==
    SetPlace(d, MmsValueCache_lookupValueEx(d, id, index, component), value)

\* Elements are written one by one, up to the first that cannot be.
RECURSIVE WriteElements(_, _, _, _, _)
WriteElements(d, place, low, values, n) ==
    LET array == ValueAt(d.cache[place.entry], place.path)
        spec == SpecAt(MmsDomain_getNamedVariable(d, place.entry), place.path)
        old == MmsValue_getElement(array, low)
        u == MmsValue_update(spec.elements[1], old, Head(values))
        now == [d EXCEPT !.cache[place.entry] = Replace(@, Append(place.path, low + 1), u.value)]
    IN  IF n = 0 THEN Wrote(d, Success)
        ELSE IF values = <<>> \/ old = NoValue THEN Wrote(d, TypeInconsistent)
        ELSE IF u.ok THEN WriteElements(now, place, low + 1, Tail(values), n - 1)
        ELSE Wrote(now, TypeInconsistent)

\* A single element, a component of one, or a range of elements of an array
WriteIndexed(d, id, place, spec, access, value) ==
    LET low == mmsServer_getLowIndex(access)
        n == mmsServer_getNumberOfElements(access)
        element == MmsValue_getElement(ValueAt(d.cache[place.entry], place.path), low)
        component == mmsServer_getComponentOfArrayElement(access, spec, element)
    IN  IF place = NoPlace THEN Wrote(d, AttributeInconsistent)
        ELSE IF n # 0
        THEN IF value.type # "ARRAY" THEN Wrote(d, TypeInconsistent)
             ELSE WriteElements(d, place, low, value.elements, n)
        ELSE IF element = NoValue THEN Wrote(d, AttributeInconsistent)
        ELSE IF ~mmsServer_isAccessToArrayComponent(access) THEN mmsServer_setValueEx(d, id, value, low, NULL)
        ELSE IF component.path = NoPath THEN Wrote(d, ObjectNoneExistent)
        ELSE mmsServer_setValueEx(d, id, value, low, component.name)

\* The value is of the variable's type, or nothing is written.
WriteTyped(d, id, spec, value) ==
    IF MmsVariableSpecification_isValueOfType(spec, value) THEN mmsServer_setValue(d, id, value)
    ELSE Wrote(d, TypeInconsistent)

\* Alternate access that the type of the variable does not offer is refused first.
WriteVariable(d, id, access, data) ==
    LET spec == MmsDomain_getNamedVariable(d, id)
        value == mmsMsg_parseDataElement(data)
        component == getComponent(access, spec, id)
    IN  IF spec = NoSpec THEN Wrote(d, ObjectNoneExistent)
        ELSE IF access # Absent /\ spec.type = "ARRAY" /\ ~mmsServer_isIndexAccess(access)
        THEN Wrote(d, AccessUnsupported)
        ELSE IF access # Absent /\ spec.type # "ARRAY"
                    /\ ~(spec.type = "STRUCTURE" /\ mmsServer_isComponentAccess(access))
        THEN Wrote(d, AttributeInconsistent)
        ELSE IF value = NoValue THEN Wrote(d, AttributeInconsistent)
        ELSE IF access = Absent THEN WriteTyped(d, id, spec, value)
        ELSE IF mmsServer_isIndexAccess(access)
        THEN WriteIndexed(d, id, MmsValueCache_lookupValue(d, id), spec, access, value)
        ELSE IF component.spec = NoSpec THEN Wrote(d, ObjectNoneExistent)
        ELSE WriteTyped(d, component.name, component.spec, value)

\* One item after the other: a pair of the device and the results so far
WriteItem(done, item, data) ==
    LET name == VariableName(item)
        domain == DomainIdOf(name)
        After(wrote) == [device |-> [done.device EXCEPT !.domains[domain] = wrote.d],
                         results |-> Append(done.results, wrote.result)]
        Fails(error) == [done EXCEPT !.results = Append(@, error)]
    IN  IF ~IsNamed(item) THEN Fails(AccessUnsupported)
        ELSE IF Present("ObjectName", name) # "domainspecific" THEN Fails(AccessUnsupported)
        ELSE IF domain \notin DOMAIN done.device.domains THEN Fails(ObjectNoneExistent)
        ELSE After(WriteVariable(done.device.domains[domain], ItemIdOf(name),
                                 MemberOf("ListOfVariableSeq", item, "alternateAccess"), data))

\* A member of a list is written as a whole variable: its index and component are not looked at.
WriteMember(done, entry, data) ==
    LET d == done.device.domains[entry.domain]
        value == mmsMsg_parseDataElement(data)
        old == mmsServer_getValue(d, entry.item)
        After(wrote) == [device |-> [done.device EXCEPT !.domains[entry.domain] = wrote.d],
                         results |-> Append(done.results, wrote.result)]
    IN  After(IF value = NoValue THEN Wrote(d, AttributeInconsistent)
              ELSE IF ~MmsValue_equalTypes(old, value) THEN Wrote(d, TypeInconsistent)
              ELSE mmsServer_setValue(d, entry.item, value))

AllWritten(done, id) == Served(done.device, mmsServer_createMmsWriteResponse(id, done.results))
NothingWritten(device) == [device |-> device, results |-> <<>>]

createWriteNamedVariableListResponse(device, list, data, id) ==
    IF Len(list.variables) > MaxWriteItems THEN Served(device, mmsMsg_createMmsRejectPdu(id, "REJECT_OTHER"))
    ELSE AllWritten(FoldLeftDomain(LAMBDA done, i : WriteMember(done, list.variables[i], data[i]),
                                   NothingWritten(device), list.variables), id)

handleWriteNamedVariableListRequest(device, name, data, id) ==
    LET list == NamedList(device, name)
    IN  IF list = NoList THEN Served(device, mmsMsg_createServiceErrorPdu(id, "ACCESS_OBJECT_NON_EXISTENT"))
        ELSE createWriteNamedVariableListResponse(device, list, data, id)

mmsServer_handleWriteRequest(device, b, id) ==
    LET request == RequestOf(b, "write")
        what == MemberOf("WriteRequest", request, "variableAccessSpecification")
        items == Chosen(what).c
        data == MemberOf("WriteRequest", request, "listOfData").c
        Rejected(reason) == Served(device, mmsMsg_createMmsRejectPdu(id, reason))
    IN  IF request = Absent THEN Rejected("INVALID_PDU")
        ELSE IF Present("VariableAccessSpecification", what) = "variableListName"
        THEN handleWriteNamedVariableListRequest(device, Chosen(what), data, id)
        ELSE IF items = <<>> THEN Rejected("REQUEST_INVALID_ARGUMENT")
        ELSE IF Len(items) > MaxWriteItems THEN Rejected("REJECT_OTHER")
        ELSE IF Len(data) # Len(items) THEN Rejected("REQUEST_INVALID_ARGUMENT")
        ELSE AllWritten(FoldLeftDomain(LAMBDA done, i : WriteItem(done, items[i], data[i]),
                                       NothingWritten(device), items), id)
-----------------------------------------------------------------------------
(***************************************************************************)
(* GetNameList (mms_get_namelist_service.c).                               *)
(***************************************************************************)
\* StringUtils: names by their octets
RECURSIVE Precedes(_, _), NamesBelow(_, _)
Precedes(a, b) ==
    /\ b # <<>>
    /\ a = <<>> \/ Head(a) < Head(b) \/ (Head(a) = Head(b) /\ Precedes(Tail(a), Tail(b)))
Sorted(names) == SortSeq(names, Precedes)
sortIndex(specs) == SortSeq(specs, LAMBDA v, w : Precedes(v.name, w.name))

NamesOf(objects) == [i \in DOMAIN objects |-> objects[i].name]

\* A name, and the names of what is below it
NamesBelow(name, spec) ==
    LET parts == IF spec.type = "STRUCTURE" THEN sortIndex(spec.elements) ELSE <<>>
    IN  <<name>> \o FlattenSeq([i \in DOMAIN parts |-> NamesBelow(name \o <<Dollar>> \o parts[i].name, parts[i])])

getNameListDomainSpecific(d) ==
    LET variables == sortIndex(d.variables)
    IN  FlattenSeq([i \in DOMAIN variables |-> NamesBelow(variables[i].name, variables[i])])

\* Names from the one asked for, as many as are estimated to fit.  When not even one fits, the
\* loop that writes them does not stop, though the length announced is 0.
RECURSIVE HowMany(_, _)
HowMany(names, room) ==
    LET size == BerEncoder_determineEncodedStringSize(Head(names))
    IN  IF names = <<>> \/ size > room THEN 0 ELSE 1 + HowMany(Tail(names), room - size)

\* The names of the next page and of those behind it
From_Mutant(names, continueAfter) ==
    LET start == SelectInSeq(names, LAMBDA n : n = continueAfter)
    IN  IF continueAfter = NULL THEN names ELSE SubSeq(names, start + 2, Len(names))

From(names, continueAfter) ==
    LET start == SelectInSeq(names, LAMBDA n : n = continueAfter)
    IN  IF continueAfter = NULL THEN names ELSE SubSeq(names, start + 1, Len(names))

createNameListResponse(device, id, names, continueAfter) ==
    LET rest == From(names, continueAfter)
        n == HowMany(rest, device.agreed.maxPduSize - PduOverhead)
        moreFollows == n < Len(rest)
        listSize == Total(BerEncoder_determineEncodedStringSize, SubSeq(rest, 1, n))
        size == 1 + LengthSize(listSize) + listSize + (IF moreFollows THEN 0 ELSE 3)
        written == IF n = 0 THEN rest ELSE SubSeq(rest, 1, n)
    IN  IF continueAfter # NULL /\ continueAfter \notin Range(names) THEN mmsMsg_createServiceErrorPdu(id, "ACCESS_OBJECT_NON_EXISTENT")
        ELSE BerEncoder_encodeTL(161, 1 + LengthSize(size) + size + IdSize(id) + 2)
                 \o BerEncoder_encodeTL(2, IdSize(id)) \o BerEncoder_encodeUInt32(id)
                 \o BerEncoder_encodeTL(161, size) \o BerEncoder_encodeTL(160, listSize)
                 \o FlattenSeq([i \in DOMAIN written |-> BerEncoder_encodeStringWithTag(26, written[i])])
                 \o (IF moreFollows THEN <<>> ELSE BerEncoder_encodeBoolean(129, FALSE))

\* The names of a class in a scope: <<TRUE, names>>, or <<FALSE, error>>
NamesAsked(device, class, scope, domain) ==
    LET unsupported == <<FALSE, "ACCESS_OBJECT_ACCESS_UNSUPPORTED">>
    IN  CASE scope = 129 /\ class \in {0, 2, 8} ->
               IF domain \notin DOMAIN device.domains THEN <<FALSE, "ACCESS_OBJECT_NON_EXISTENT">>
               ELSE LET d == device.domains[domain]
                    IN  <<TRUE, CASE class = 0 -> getNameListDomainSpecific(d)
                                  [] class = 2 -> Sorted(NamesOf(d.lists))
                                  [] class = 8 -> Sorted(d.journals)>>
          [] scope = 128 /\ class = 9 -> <<TRUE, Sorted(SetToSeq(DOMAIN device.domains))>>
          [] scope = 128 /\ class = 2 -> <<TRUE, Sorted(NamesOf(device.lists))>>
          [] scope = 128 /\ class = 8 -> <<TRUE, <<>>>>
          [] scope = 130 /\ class = 2 -> <<TRUE, Sorted(NamesOf(device.association))>>
          [] OTHER -> unsupported

\* e is the element of the request
mmsServer_handleGetNameListRequest(device, b, e, id) ==
    LET fields == Within(b, e, e.at + e.length)
        class == Field(fields.found, 160)
        scope == Field(fields.found, 161)
        after == Field(fields.found, 130)
        inner == BerDecoder_decodeLength(b, scope.at + 1, scope.at + scope.length)
        domain == SubSeq(b, inner.at, inner.at + inner.length - 1)
        asked == NamesAsked(device, BerDecoder_decodeUint32(b, class.at + 2, b[class.at + 1]), b[scope.at], domain)
        Reject(reason) == mmsMsg_createMmsRejectPdu(id, reason)
    IN  Served(device,
            IF ~fields.ok THEN Reject("INVALID_PDU")
            ELSE IF Has(fields.found, 130) /\ after.length >= 130 THEN Reject("INVALID_PDU")
            ELSE IF b[scope.at] \notin 128 .. 130 THEN Reject("UNRECOGNIZED_MODIFIER")
            ELSE IF b[scope.at] = 129 /\ Len(domain) > 64 THEN Reject("INVALID_PDU")
            ELSE IF ~asked[1] THEN mmsMsg_createServiceErrorPdu(id, asked[2])
            ELSE createNameListResponse(device, id, asked[2], IF Has(fields.found, 130) THEN Octets(b, after) ELSE NULL))
-----------------------------------------------------------------------------
(***************************************************************************)
(* Named variable lists (mms_named_variable_list_service.c).               *)
(***************************************************************************)
MaxLists == 10                        \* the limit is the same for every scope
MaxMembers == 50

Without(lists, name) == SelectSeq(lists, LAMBDA l : l.name # name)

\* A list of a domain may be one the client must not delete; the others are all a client's.
DeleteOne_Mutant(done, name) ==
    LET list == NamedList(done.device, name)
        device == IF Present("ObjectName", name) = "domainspecific"
                  THEN [done.device EXCEPT !.domains[DomainIdOf(name)].lists = Without(@, list.name)]
                  ELSE done.device
    IN  IF list = NoList THEN done
        ELSE [device |-> device, matched |-> done.matched + 1, deleted |-> done.deleted + 1]

DeleteOne(done, name) ==
    LET list == NamedList(done.device, name)
        Deleted(device) == [device |-> device, matched |-> done.matched + 1, deleted |-> done.deleted + 1]
    IN  CASE list = NoList -> done
          [] list # NoList /\ Present("ObjectName", name) = "domainspecific" ->
               IF list.deletable
               THEN Deleted([done.device EXCEPT !.domains[DomainIdOf(name)].lists = Without(@, list.name)])
               ELSE [done EXCEPT !.matched = @ + 1]
          [] list # NoList /\ Present("ObjectName", name) = "aaspecific" ->
               Deleted([done.device EXCEPT !.association = Without(@, list.name)])
          [] list # NoList /\ Present("ObjectName", name) = "vmdspecific" ->
               Deleted([done.device EXCEPT !.lists = Without(@, list.name)])

createDeleteNamedVariableListResponse(id, matched, deleted) ==
    LET size == 2 + IdSize(matched) + 2 + IdSize(deleted)
    IN  BerEncoder_encodeTL(161, IdSize(id) + 2 + 2 + size)
            \o BerEncoder_encodeTL(2, IdSize(id)) \o BerEncoder_encodeUInt32(id) \o BerEncoder_encodeTL(173, size)
            \o BerEncoder_encodeTL(128, IdSize(matched)) \o BerEncoder_encodeUInt32(matched)
            \o BerEncoder_encodeTL(129, IdSize(deleted)) \o BerEncoder_encodeUInt32(deleted)

mmsServer_handleDeleteNamedVariableListRequest(device, b, id) ==
    LET request == RequestOf(b, "deleteNamedVariableList")
        names == MemberOf("DeleteNamedVariableListRequest", request, "listOfVariableListName")
        scope == MemberOf("DeleteNamedVariableListRequest", request, "scopeOfDelete")
        done == FoldLeft(DeleteOne, [device |-> device, matched |-> 0, deleted |-> 0], names.c)
    IN  IF request = Absent THEN Served(device, mmsMsg_createMmsRejectPdu(id, "INVALID_PDU"))
        ELSE IF names = Absent THEN Served(device, mmsMsg_createMmsRejectPdu(id, "INVALID_PDU"))
        ELSE IF scope # Absent /\ LongOf(scope.n) # 0
        THEN Served(device, mmsMsg_createServiceErrorPdu(id, "ACCESS_OBJECT_ACCESS_UNSUPPORTED"))
        ELSE Served(done.device, createDeleteNamedVariableListResponse(id, done.matched, done.deleted))

createDefineNamedVariableListResponse(id) ==
    BerEncoder_encodeTL(161, 2 + IdSize(id) + 2) \o BerEncoder_encodeTL(2, IdSize(id))
        \o BerEncoder_encodeUInt32(id) \o BerEncoder_encodeTL(139, 0)

checkIfVariableExists(device, entry) ==
    LET spec == MmsDomain_getNamedVariable(device.domains[entry.domain], entry.item)
    IN  /\ entry.domain \in DOMAIN device.domains /\ spec # NoSpec
        /\ entry.index # -1 =>
              /\ spec.type = "ARRAY" /\ entry.index < spec.n
              /\ \/ entry.component = NULL
                 \/ MmsVariableSpecification_getNamedVariableRecursive(spec.elements[1], entry.component) # NoSpec

\* The components that nested accesses name, joined; NULL when something else is selected
RECURSIVE mmsMsg_getComponentNameFromAlternateAccess(_)
mmsMsg_getComponentNameFromAlternateAccess(access) ==
    LET name == Chosen(Selector(access)).n
        rest == mmsMsg_getComponentNameFromAlternateAccess(NestedAccess(access))
    IN  IF SelectorName(access) # "component" THEN NULL
        ELSE IF ~IsNested(access) THEN name
        ELSE IF rest = NULL THEN NULL ELSE name \o <<Dollar>> \o rest

\* A member of a list as the request describes it.  A name that is not a domain's is read as one:
\* its octets are taken for the domain, and there is no item.
MemberAsked(item) ==
    LET type == "DefineNamedVariableListRequest_Member_4"
        name == Chosen(MemberOf(type, item, "variableSpecification"))
        access == MemberOf(type, item, "alternateAccess")
        domainSpecific == Present("ObjectName", name) = "domainspecific"
    IN  [domain |-> IF domainSpecific THEN DomainIdOf(name) ELSE Identifier(Chosen(name)),
         item |-> IF domainSpecific THEN ItemIdOf(name) ELSE NULL,
         index |-> IF access = Absent THEN -1 ELSE mmsServer_getLowIndex(access),
         component |-> IF access = Absent \/ ~IsNested(access) THEN NULL
                       ELSE mmsMsg_getComponentNameFromAlternateAccess(NestedAccess(access))]

\* The error that is sent when the code has set none: which one it is cannot be said.
UnsetError == CHOOSE error \in DOMAIN ErrorClass : TRUE

\* What is wrong with a member, if anything is; members are looked at in order.  A member is refused
\* for more than one alternate access, and the error is not set then; the client gives at most one.
MemberError(device, item) ==
    LET type == "DefineNamedVariableListRequest_Member_4"
        access == MemberOf(type, item, "alternateAccess")
    IN  IF access # Absent /\ Len(access.c) # 1 THEN UnsetError
        ELSE IF access # Absent /\ SelectorName(access) # "index" THEN "DEFINITION_INVALID_ADDRESS"
        ELSE IF Present("VariableSpecification", MemberOf(type, item, "variableSpecification")) # "name"
        THEN "DEFINITION_INVALID_ADDRESS"
        ELSE IF ~checkIfVariableExists(device, MemberAsked(item)) THEN "DEFINITION_OBJECT_UNDEFINED"
        ELSE "NONE"

\* The error, "NONE" when the list can be made
createNamedVariableList(device, items) ==
    LET bad == SelectInSeq(items, LAMBDA i : MemberError(device, i) # "NONE")
    IN  IF items = <<>> \/ Len(items) > MaxMembers THEN "DEFINITION_OTHER"
        ELSE IF bad # 0 THEN MemberError(device, items[bad]) ELSE "NONE"

\* A list of the device that cannot be made is not answered.
mmsServer_handleDefineNamedVariableListRequest(device, b, id) ==
    LET type == "DefineNamedVariableListRequest"
        request == RequestOf(b, "defineNamedVariableList")
        name == MemberOf(type, request, "variableListName")
        items == MemberOf(type, request, "listOfVariable").c
        scope == Present("ObjectName", name)
        domain == DomainIdOf(name)
        item == IF scope = "domainspecific" THEN ItemIdOf(name) ELSE Identifier(Chosen(name))
        lists == CASE scope = "domainspecific" -> device.domains[domain].lists
                   [] scope = "aaspecific" -> device.association
                   [] scope = "vmdspecific" -> device.lists
        new == Append(lists, VariableList(item, TRUE, [i \in DOMAIN items |-> MemberAsked(items[i])]))
        Error(which) == Served(device, mmsMsg_createServiceErrorPdu(id, which))
        Quiet(which) == IF scope = "vmdspecific" THEN Served(device, NoResponse) ELSE Error(which)
        After(error) ==
            IF error # "NONE" THEN Quiet(error)
            ELSE Served(CASE scope = "domainspecific" -> [device EXCEPT !.domains[domain].lists = new]
                          [] scope = "aaspecific" -> [device EXCEPT !.association = new]
                          [] scope = "vmdspecific" -> [device EXCEPT !.lists = new],
                        createDefineNamedVariableListResponse(id))
    IN  IF request = Absent THEN Served(device, mmsMsg_createMmsRejectPdu(id, "INVALID_PDU"))
        ELSE IF scope = "domainspecific" /\ domain \notin DOMAIN device.domains
        THEN Error("ACCESS_OBJECT_NON_EXISTENT")
        ELSE IF Len(lists) >= MaxLists THEN Quiet("RESOURCE_CAPABILITY_UNAVAILABLE")
        ELSE IF NamedList(device, name) # NoList THEN Error("DEFINITION_OBJECT_EXISTS")
        ELSE After(createNamedVariableList(device, items))

mmsServer_createConfirmedResponse(id, service, response) ==
    Encode("MmsPdu",
           Alt("MmsPdu", "confirmedResponsePdu",
               Structure("ConfirmedResponsePdu",
                   [invokeID |-> Leaf(asn_long2INTEGER(id)),
                    confirmedServiceResponse |-> Alt("ConfirmedServiceResponse", service, response)])),
           0, 0, FALSE)

createGetNamedVariableListAttributesResponse(id, list) ==
    LET Entry(v) ==
            Structure("GetNamedVariableListAttributesResponse_Member_4",
                [variableSpecification |-> Alt("VariableSpecification", "name", DomainSpecific(v.domain, v.item)),
                 alternateAccess |->
                    IF v.index # -1 THEN mmsClient_createAlternateAccessIndexComponent(v.index, v.component)
                    ELSE IF v.component # NULL THEN mmsClient_createAlternateAccessComponent(v.component)
                    ELSE Absent])
    IN  mmsServer_createConfirmedResponse(id, "getNamedVariableListAttributes",
            Structure("GetNamedVariableListAttributesResponse",
                [mmsDeletable |-> Leaf(<<IF list.deletable THEN 1 ELSE 0>>),
                 listOfVariable |-> ListOf([i \in DOMAIN list.variables |-> Entry(list.variables[i])])]))

mmsServer_handleGetNamedVariableListAttributesRequest(device, b, e, id) ==
    LET name == Decoding("GetNamedVariableListAttributesRequest", Octets(b, e))
        list == NamedList(device, name)
    IN  Served(device,
            IF name = Absent THEN mmsMsg_createMmsRejectPdu(id, "INVALID_PDU")
            ELSE Fitting(device, id,
                     IF list = NoList THEN mmsMsg_createServiceErrorPdu(id, "ACCESS_OBJECT_NON_EXISTENT")
                     ELSE createGetNamedVariableListAttributesResponse(id, list)))
-----------------------------------------------------------------------------
(***************************************************************************)
(* GetVariableAccessAttributes (mms_get_var_access_service.c).             *)
(***************************************************************************)
LeafAlternative ==
    [BOOLEAN |-> "boolean", BIT_STRING |-> "bitstring", INTEGER |-> "integer", UNSIGNED |-> "unsigned",
     FLOAT |-> "floatingpoint", OCTET_STRING |-> "octetstring", VISIBLE_STRING |-> "visiblestring",
     STRING |-> "mMSString", UTC_TIME |-> "utctime", BINARY_TIME |-> "binarytime"]

RECURSIVE createTypeSpecification(_)
createTypeSpecification(spec) ==
    LET member == CASE spec.type = "FLOAT" ->
                         Structure("floatingpoint_15", [formatwidth |-> Leaf(<<spec.n>>),
                                                        exponentwidth |-> Leaf(<<spec.width>>)])
                    [] spec.type = "BINARY_TIME" -> Leaf(<<IF spec.n = 6 THEN 1 ELSE 0>>)
                    [] spec.type \in {"BOOLEAN", "UTC_TIME"} -> Leaf(<<0>>)
                    [] OTHER -> Leaf(<<spec.n>>)
        Component(v) == Structure("StructComponent", [componentName |-> Leaf(v.name),
                                                      componentType |-> createTypeSpecification(v)])
    IN  CASE spec.type = "ARRAY" ->
               Alt("TypeSpecification", "array",
                   Structure("array_3", [numberOfElements |-> Leaf(asn_long2INTEGER(spec.n)),
                                         elementType |-> createTypeSpecification(spec.elements[1])]))
          [] spec.type = "STRUCTURE" ->
               Alt("TypeSpecification", "structure",
                   Structure("structure_7",
                       [components |-> ListOf([i \in DOMAIN spec.elements |-> Component(spec.elements[i])])]))
          [] OTHER -> Alt("TypeSpecification", LeafAlternative[spec.type], member)

createVariableAccessAttributesResponse(device, domain, item, id) ==
    LET spec == MmsDomain_getNamedVariable(device.domains[domain], item)
        missing == mmsMsg_createServiceErrorPdu(id, "ACCESS_OBJECT_NON_EXISTENT")
    IN  IF domain \notin DOMAIN device.domains THEN missing
        ELSE IF spec = NoSpec THEN missing
        ELSE mmsServer_createConfirmedResponse(id, "getVariableAccessAttributes",
                 Structure("GetVariableAccessAttributesResponse",
                     [mmsDeletable |-> Leaf(<<0>>), typeSpecification |-> createTypeSpecification(spec)]))

\* A request that is not for a variable of a domain is not answered.
mmsServer_handleGetVariableAccessAttributesRequest(device, b, e, id) ==
    LET request == Decoding("GetVariableAccessAttributesRequest", Octets(b, e))
        name == Chosen(request)
    IN  Served(device,
            IF request = Absent THEN NoResponse
            ELSE IF Present("GetVariableAccessAttributesRequest", request) # "name" THEN NoResponse
            ELSE IF Present("ObjectName", name) # "domainspecific" THEN NoResponse
            ELSE Fitting(device, id, createVariableAccessAttributesResponse(device,
                             MemberOf("domainspecific_3", Chosen(name), "domainId").n,
                             MemberOf("domainspecific_3", Chosen(name), "itemId").n, id)))
-----------------------------------------------------------------------------
(***************************************************************************)
(* Identify, Status, Initiate and Conclude.                                *)
(***************************************************************************)
ConfirmedResponse(id, tag, size, content) ==
    BerEncoder_encodeTL(161, IdSize(id) + 2 + 1 + LengthSize(size) + size) \o BerEncoder_encodeTL(2, IdSize(id))
        \o BerEncoder_encodeUInt32(id) \o BerEncoder_encodeTL(tag, size) \o content

mmsServer_handleIdentifyRequest(device, id) ==
    LET i == device.identity
        Size(name) == LengthSize(Len(name)) + Len(name)
    IN  Served(device,
            ConfirmedResponse(id, 162, 3 + Size(i.vendor) + Size(i.model) + Size(i.revision),
                BerEncoder_encodeStringWithTag(128, i.vendor) \o BerEncoder_encodeStringWithTag(129, i.model)
                    \o BerEncoder_encodeStringWithTag(130, i.revision)))

mmsServer_handleStatusRequest(device, id) ==
    LET st == device.status
    IN  Served(device,
            ConfirmedResponse(id, 160, 2 + IdSize(st.physical) + 2 + IdSize(st.logical),
                BerEncoder_encodeTL(128, IdSize(st.logical)) \o BerEncoder_encodeUInt32(st.logical)
                    \o BerEncoder_encodeTL(129, IdSize(st.physical)) \o BerEncoder_encodeUInt32(st.physical)))

parameterCBB == <<241, 0>>
ServerServices == <<238, 28, 0, 0, 0, 0, 0, 0, 0, 1, 24>>

\* An element that reaches beyond the message ends the parsing.
Inside(fields, end) ==
    LET out == SelectInSeq(fields.found, LAMBDA e : e.at + e.length > end)
    IN  [ok |-> fields.ok /\ out = 0, found |-> IF out = 0 THEN fields.found ELSE SubSeq(fields.found, 1, out - 1)]

\* What the client proposes, down to what the server can do; e is the request, the detail its
\* last element
parseInitiateRequestPdu(b, e) ==
    LET end == e.at + e.length
        fields == Inside(Within(b, e, end), end)
        found == fields.found
        Number(tag, default, limit) ==
            IF Has(found, tag)
            THEN LET n == BerDecoder_decodeUint32(b, Field(found, tag).at, Field(found, tag).length)
                 IN  IF n > limit THEN limit ELSE n
            ELSE default
        nesting == Field(found, 131)
        detailEnd == Field(found, 164).at + Field(found, 164).length
        detail == Inside(Within(b, Field(found, 164), detailEnd), detailEnd)
        cbc == Field(detail.found, 129)
        version == Field(detail.found, 128)
        ok == /\ fields.ok
              /\ Has(found, 164) =>
                    /\ detail.ok
                    /\ Has(detail.found, 128) => BerDecoder_decodeUint32(b, version.at, version.length) >= 1
        proposed == IF Has(found, 164) /\ Has(detail.found, 129) /\ cbc.length = 3
                    THEN SubSeq(b, cbc.at + 1, cbc.at + 2) ELSE <<0, 0>>
    IN  [ok |-> ok,
         agreed |-> [maxPduSize |-> Number(128, MaximumPduSize, MaximumPduSize),
                     calling |-> Number(129, MaxOutstanding, MaxOutstanding),
                     called |-> Number(130, MaxOutstanding, MaxOutstanding),
                     nesting |-> IF Has(found, 131) THEN BerDecoder_decodeUint32(b, nesting.at, nesting.length)
                                 ELSE NestingLevel,
                     cbc |-> [i \in 1 .. 2 |-> proposed[i] & parameterCBB[i]]]]

createInitiateResponse(agreed) ==
    LET detail == 14 + 5 + 3
    IN  BerEncoder_encodeTL(169, 2 + IdSize(agreed.maxPduSize) + 2 + IdSize(agreed.calling)
                                     + 2 + IdSize(agreed.called) + 2 + IdSize(agreed.nesting) + detail + 2)
            \o BerEncoder_encodeUInt32WithTL(128, agreed.maxPduSize)
            \o BerEncoder_encodeUInt32WithTL(129, agreed.calling)
            \o BerEncoder_encodeUInt32WithTL(130, agreed.called)
            \o BerEncoder_encodeUInt32WithTL(131, agreed.nesting)
            \o BerEncoder_encodeTL(164, detail) \o BerEncoder_encodeUInt32WithTL(128, 1)
            \o BerEncoder_encodeBitString(129, 11, agreed.cbc)
            \o BerEncoder_encodeBitString(130, 85, ServerServices)

mmsMsg_createInitiateErrorPdu == <<170, 5, 160, 3, 8, 1, 0>>

mmsServer_handleInitiateRequest(device, b, e) ==
    LET Answer(request) ==
            Served([device EXCEPT !.agreed = request.agreed],
                   IF request.ok THEN createInitiateResponse(request.agreed) ELSE mmsMsg_createInitiateErrorPdu)
    IN  Answer(parseInitiateRequestPdu(b, e))

mmsServer_writeConcludeResponsePdu == <<140, 0>>
-----------------------------------------------------------------------------
(***************************************************************************)
(* A message that has arrived (mms_server_connection.c).                   *)
(***************************************************************************)
\* The elements of a confirmed request in order; a second service would overwrite the response
\* of the first.
Service(s, b, tag, e) ==
    LET request == SubSeq(b, 1, e.at + e.length - 1)
    IN  CASE tag = 128 -> mmsServer_handleStatusRequest(s.device, s.id)
          [] tag = 161 -> mmsServer_handleGetNameListRequest(s.device, b, e, s.id)
          [] tag = 130 -> mmsServer_handleIdentifyRequest(s.device, s.id)
          [] tag = 164 -> mmsServer_handleReadRequest(s.device, request, s.id)
          [] tag = 165 -> mmsServer_handleWriteRequest(s.device, request, s.id)
          [] tag = 166 -> mmsServer_handleGetVariableAccessAttributesRequest(s.device, b, e, s.id)
          [] tag = 171 -> mmsServer_handleDefineNamedVariableListRequest(s.device, request, s.id)
          [] tag = 172 -> mmsServer_handleGetNamedVariableListAttributesRequest(s.device, b, e, s.id)
          [] tag = 173 -> mmsServer_handleDeleteNamedVariableListRequest(s.device, request, s.id)
          [] OTHER -> Served(s.device, mmsMsg_createMmsRejectPdu(s.id, "UNRECOGNIZED_SERVICE"))

\* One element; the loop ends early when its place is moved to the end.  An extended tag
\* that is known is that of a service which is not enabled.
HandleElement(s, b, end) ==
    LET extended == b[s.p] % 32 = 31
        tag == IF extended THEN b[s.p + 1] ELSE b[s.p]
        e == BerDecoder_decodeLength(b, IF extended THEN s.p + 2 ELSE s.p + 1, end)
        known == IF extended THEN tag \in {46, 65} \cup 72 .. 77
                 ELSE tag \in {128, 130, 161, 164, 165, 166} \cup 171 .. 173
        After(done) == [s EXCEPT !.device = done.device, !.response = done.response,
                                 !.p = IF known THEN e.at + e.length ELSE end]
    IN  CASE e = Bad -> [s EXCEPT !.p = end, !.response = mmsMsg_createMmsRejectPdu(s.id, "INVALID_PDU")]
          [] e # Bad /\ ~extended /\ tag = 2 ->
               [s EXCEPT !.p = e.at + e.length, !.id = BerDecoder_decodeUint32(b, e.at, e.length)]
          [] e # Bad /\ ~extended /\ tag = 0 -> [s EXCEPT !.p = e.at + e.length]
          [] OTHER -> After(Service(s, b, IF extended THEN 0 ELSE tag, e))

RECURSIVE HandleElements(_, _, _)
HandleElements(s, b, end) == IF s.p >= end THEN s ELSE HandleElements(HandleElement(s, b, end), b, end)

handleConfirmedRequestPdu(device, b, e) ==
    LET After(s) == Served(s.device, s.response)
    IN  After(HandleElements([device |-> device, p |-> e.at, id |-> 0, response |-> NoResponse], b, e.at + e.length))

MmsServerConnection_parseMessage(device, b) ==
    LET e == BerDecoder_decodeLength(b, 2, Len(b) + 1)
    IN  IF Len(b) < 2 THEN Served(device, NoResponse)
        ELSE IF e = Bad THEN Served(device, NoResponse)
        ELSE CASE b[1] = 168 -> mmsServer_handleInitiateRequest(device, b, e)
               [] b[1] = 160 -> handleConfirmedRequestPdu(device, b, e)
               [] b[1] = 139 -> Served(device, mmsServer_writeConcludeResponsePdu)
               [] b[1] \in {164, 0} -> Served(device, NoResponse)
               [] OTHER -> Served(device, <<164, 3, 128 + RejectCode.UNKNOWN_PDU_TYPE[1], 1,
                                            RejectCode.UNKNOWN_PDU_TYPE[2]>>)
=============================================================================
