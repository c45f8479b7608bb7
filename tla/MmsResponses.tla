--------------------------- MODULE MmsResponses ---------------------------
(***************************************************************************)
(* How the client of the C library reads the responses of a server         *)
(* (iso_mms/client/mms_client_*.c): what a call returns for the octets of  *)
(* a message, its error first of all.  A parser that is given "bufPos"     *)
(* starts behind the invoke id, at e, the element of the service; the      *)
(* others take the whole message.                                          *)
(***************************************************************************)
EXTENDS MmsServices

(***************************************************************************)
(* Errors (mms_client_connection.c).                                       *)
(***************************************************************************)
convertRejectCodesToMmsError(code) ==
    CASE code = <<1, 1>> -> "UNRECOGNIZED_SERVICE"
      [] code = <<5, 0>> -> "UNKNOWN_PDU_TYPE"
      [] code = <<1, 4>> -> "REQUEST_INVALID_ARGUMENT"
      [] code = <<5, 1>> -> "INVALID_PDU"
      [] OTHER -> "REJECT_OTHER"

\* By class, the name of any error of the class, and of the ones that have a name of their own
ServiceErrorClass ==
    [c \in 0 .. 7 \cup {11} |->
       CASE c = 0 -> <<"VMDSTATE_OTHER">> [] c = 1 -> <<"APPLICATION_REFERENCE_OTHER">>
         [] c = 2 -> <<"DEFINITION_OTHER", "DEFINITION_OBJECT_UNDEFINED", "DEFINITION_INVALID_ADDRESS",
                       "DEFINITION_TYPE_UNSUPPORTED", "DEFINITION_TYPE_INCONSISTENT",
                       "DEFINITION_OBJECT_EXISTS", "DEFINITION_OBJECT_ATTRIBUTE_INCONSISTENT">>
         [] c = 3 -> <<"RESOURCE_OTHER">>
         [] c = 4 -> <<"SERVICE_OTHER", "SERVICE_OTHER", "SERVICE_OTHER", "SERVICE_OTHER", "SERVICE_OTHER",
                       "SERVICE_OBJECT_CONSTRAINT_CONFLICT">>
         [] c = 5 -> <<"SERVICE_PREEMPT_OTHER">> [] c = 6 -> <<"TIME_RESOLUTION_OTHER">>
         [] c = 7 -> <<"ACCESS_OTHER", "ACCESS_OBJECT_ACCESS_UNSUPPORTED", "ACCESS_OBJECT_NON_EXISTENT",
                       "ACCESS_OBJECT_ACCESS_DENIED", "ACCESS_OBJECT_INVALIDATED">>
         [] c = 11 -> <<"FILE_OTHER", "FILE_FILENAME_AMBIGUOUS", "FILE_FILE_BUSY",
                        "FILE_FILENAME_SYNTAX_ERROR", "FILE_CONTENT_TYPE_INVALID",
                        "FILE_POSITION_INVALID", "FILE_FILE_ACCESS_DENIED",
                        "FILE_FILE_NON_EXISTENT", "FILE_DUPLICATE_FILENAME",
                        "FILE_INSUFFICIENT_SPACE_IN_FILESTORE">>]

convertServiceErrorToMmsError(class, code) ==
    IF class \notin DOMAIN ServiceErrorClass THEN "OTHER"
    ELSE LET names == ServiceErrorClass[class] IN IF code < Len(names) THEN names[code + 1] ELSE names[1]

\* The class and the code; without an error class both are zero.
parseServiceError(b, e) ==
    LET fields == Within(b, e, e.at + e.length)
        inner == Within(b, Field(fields.found, 160), e.at + e.length)
    IN  IF ~fields.ok \/ (Has(fields.found, 160) /\ ~inner.ok) THEN <<-1, -1>>
        ELSE IF ~Has(fields.found, 160) THEN <<0, 0>>
        ELSE <<inner.found[1].tag - 128, BerDecoder_decodeUint32(b, inner.found[1].at, inner.found[1].length)>>

NotParsed == [ok |-> FALSE, id |-> -1, code |-> <<0, 0>>]

\* -1 is no invoke id
mmsMsg_parseConfirmedErrorPDU(b) ==
    LET max == Len(b) + 1
        e == BerDecoder_decodeLength(b, 2, max)
        fields == Within(b, e, max)
        id == IF Has(fields.found, 128)
              THEN LET f == Field(fields.found, 128) IN BerDecoder_decodeUint32(b, f.at, f.length) ELSE -1
        code == IF Has(fields.found, 162) THEN parseServiceError(b, Field(fields.found, 162)) ELSE <<0, 0>>
    IN  IF b[1] # 162 \/ e = Bad THEN NotParsed
        ELSE IF ~fields.ok \/ code[1] < 0 THEN NotParsed
        ELSE [ok |-> TRUE, id |-> id, code |-> code]

mmsMsg_parseRejectPDU(b) ==
    LET max == Len(b) + 1
        e == BerDecoder_decodeLength(b, 2, max)
        fields == Within(b, e, max)
        ids == Tagged(fields.found, 128)
        reasons == SelectSeq(fields.found, LAMBDA f : f.tag \in 129 .. 139)
        reason == reasons[Len(reasons)]
    IN  IF b[1] # 164 \/ e = Bad THEN NotParsed
        ELSE IF ~fields.ok THEN NotParsed
        ELSE [ok |-> TRUE,
              id |-> IF ids = <<>> THEN -1 ELSE BerDecoder_decodeUint32(b, ids[Len(ids)].at, ids[Len(ids)].length),
              code |-> <<reason.tag - 128, BerDecoder_decodeInt32(b, reason.at, reason.length)>>]
-----------------------------------------------------------------------------
(***************************************************************************)
(* Responses the generated decoder reads.                                  *)
(***************************************************************************)
\* The response of a service; Absent when the message is not one
ResponseOf(b, service) ==
    LET pdu == Decoding("MmsPdu", b)
        response == MemberOf("ConfirmedResponsePdu", Chosen(pdu), "confirmedServiceResponse")
    IN  IF /\ pdu # Absent /\ Present("MmsPdu", pdu) = "confirmedResponsePdu"
           /\ Present("ConfirmedServiceResponse", response) = service
        THEN Chosen(response) ELSE Absent

mmsClient_parseReadResponse(b, createArray) ==
    LET response == ResponseOf(b, "read")
        value == mmsClient_parseListOfAccessResults(
                     MemberOf("ReadResponse", response, "listOfAccessResult").c, createArray)
    IN  IF response = Absent THEN NoValue ELSE value

\* The number deleted and the number matched; a message that is not understood leaves both zero.
mmsClient_parseDeleteNamedVariableListResponse(b) ==
    LET response == ResponseOf(b, "deleteNamedVariableList")
        Number(name) == LongOf(MemberOf("DeleteNamedVariableListResponse", response, name).n)
    IN  IF response = Absent THEN [deleted |-> 0, matched |-> 0]
        ELSE [deleted |-> Number("numberDeleted"), matched |-> Number("numberMatched")]

parseNamedVariableAttributes(response) ==
    LET type == "GetNamedVariableListAttributesResponse_Member_4"
        Attributes(item) ==
            LET name == Chosen(MemberOf(type, item, "variableSpecification"))
                vmd == Present("ObjectName", name) = "vmdspecific"
                access == MemberOf(type, item, "alternateAccess")
                indexed == access # Absent /\ SelectorName(access) = "index"
            IN  [domain |-> IF vmd THEN NULL ELSE DomainIdOf(name),
                 item |-> IF vmd THEN Chosen(name).n ELSE ItemIdOf(name),
                 index |-> IF indexed THEN LongOf(Chosen(Selector(access)).n) ELSE -1,
                 component |-> IF indexed /\ NestedAccess(access) # Absent
                               THEN mmsMsg_getComponentNameFromAlternateAccess(NestedAccess(access)) ELSE NULL]
        items == MemberOf("GetNamedVariableListAttributesResponse", response, "listOfVariable").c
    IN  [i \in DOMAIN items |-> Attributes(items[i])]

mmsClient_parseGetNamedVariableListAttributesResponse(b) ==
    LET response == ResponseOf(b, "getNamedVariableListAttributes")
    IN  IF response = Absent THEN Failed("PARSING_RESPONSE")
        ELSE Returned("NONE",
                 [deletable |-> MemberOf("GetNamedVariableListAttributesResponse", response, "mmsDeletable").n[1] # 0,
                  variables |-> parseNamedVariableAttributes(response)])

mmsClient_parseDefineNamedVariableResponse(b) == ResponseOf(b, "defineNamedVariableList") # Absent

\* The type of a variable; the name of the whole is not sent.
RECURSIVE TypeSpecificationOf(_, _)
TypeSpecificationOf(name, st) ==
    LET alternative == Present("TypeSpecification", st)
        body == Chosen(st)
        type == CHOOSE t \in DOMAIN LeafAlternative : LeafAlternative[t] = alternative
        Component(c) == TypeSpecificationOf(MemberOf("StructComponent", c, "componentName").n,
                                            MemberOf("StructComponent", c, "componentType"))
        components == MemberOf("structure_7", body, "components").c
    IN  CASE alternative = "structure" ->
               VariableSpec(name, "STRUCTURE", 0, 0, [i \in DOMAIN components |-> Component(components[i])])
          [] alternative = "array" ->
               VariableSpec(name, "ARRAY", LongOf(MemberOf("array_3", body, "numberOfElements").n), 0,
                            <<TypeSpecificationOf(NULL, MemberOf("array_3", body, "elementType"))>>)
          [] alternative = "floatingpoint" ->
               VariableSpec(name, type, MemberOf("floatingpoint_15", body, "formatwidth").n[1],
                            MemberOf("floatingpoint_15", body, "exponentwidth").n[1], <<>>)
          [] alternative = "binarytime" -> VariableSpec(name, type, IF body.n[1] = 0 THEN 4 ELSE 6, 0, <<>>)
          [] alternative \in {"boolean", "utctime"} -> VariableSpec(name, type, 0, 0, <<>>)
          [] OTHER -> VariableSpec(name, type, body.n[1], 0, <<>>)

mmsClient_parseGetVariableAccessAttributesResponse(b) ==
    LET response == ResponseOf(b, "getVariableAccessAttributes")
    IN  IF response = Absent THEN NoSpec
        ELSE TypeSpecificationOf(NULL, MemberOf("GetVariableAccessAttributesResponse", response, "typeSpecification"))
-----------------------------------------------------------------------------
(***************************************************************************)
(* Responses read octet by octet; p is the position of the service.        *)
(***************************************************************************)
mapDataAccessErrorToMmsError(code) ==
    CASE code = 0 -> "ACCESS_OBJECT_INVALIDATED" [] code = 1 -> "HARDWARE_FAULT"
      [] code = 2 -> "ACCESS_TEMPORARILY_UNAVAILABLE" [] code = 3 -> "ACCESS_OBJECT_ACCESS_DENIED"
      [] code = 4 -> "DEFINITION_OBJECT_UNDEFINED" [] code = 5 -> "DEFINITION_INVALID_ADDRESS"
      [] code = 6 -> "DEFINITION_TYPE_UNSUPPORTED" [] code = 7 -> "DEFINITION_TYPE_INCONSISTENT"
      [] code = 8 -> "DEFINITION_OBJECT_ATTRIBUTE_INCONSISTENT"
      [] code = 9 -> "ACCESS_OBJECT_ACCESS_UNSUPPORTED" [] code = 10 -> "ACCESS_OBJECT_NON_EXISTENT"
      [] code = 11 -> "ACCESS_OBJECT_VALUE_INVALID" [] OTHER -> "OTHER"

\* One result for each item, unless there are not as many as items (itemCount = -1: any number)
mmsClient_parseWriteMultipleItemsResponse(b, p, itemCount) ==
    LET max == Len(b) + 1
        e == BerDecoder_decodeLength(b, p + 1, max)
        fields == Within(b, e, max)
        results == SelectSeq(fields.found, LAMBDA f : f.tag \in {128, 129})
        Result(f) == DataAccessError(IF f.tag = 129 THEN Success ELSE BerDecoder_decodeUint32(b, f.at, f.length))
    IN  IF b[p] # 165 \/ e = Bad THEN Failed("PARSING_RESPONSE")
        ELSE IF ~fields.ok \/ itemCount \notin {-1, Len(fields.found)} THEN Failed("PARSING_RESPONSE")
        ELSE Returned("NONE", [i \in DOMAIN results |-> Result(results[i])])

\* Only the first result is looked at; 12 is DATA_ACCESS_ERROR_UNKNOWN.
mmsClient_parseWriteResponse(b, p) ==
    LET max == Len(b) + 1
        e == BerDecoder_decodeLength(b, p + 1, max)
        f == BerDecoder_decodeLength(b, e.at + 1, max)
        code == BerDecoder_decodeUint32(b, f.at, f.length)
    IN  IF b[p] # 165 \/ e = Bad THEN Returned("PARSING_RESPONSE", 12)
        ELSE IF b[e.at] = 129 THEN Returned("NONE", Success)
        ELSE IF b[e.at] # 128 THEN Returned("NONE", 12)
        ELSE IF f = Bad THEN Returned("PARSING_RESPONSE", 12)
        ELSE IF code < 13 THEN Returned(mapDataAccessErrorToMmsError(code), code)
        ELSE Returned("PARSING_RESPONSE", 12)

\* The names are added to those of the pages before; what is not understood gives up all of them.
mmsClient_parseGetNameListResponse(names, b) ==
    LET max == Len(b) + 1
        Next(p, tag) == IF p < max /\ b[p] = tag THEN BerDecoder_decodeLength(b, p + 1, max) ELSE Bad
        pdu == Next(1, 161)
        id == Next(pdu.at, 2)
        service == Next(id.at + id.length, 161)
        error == Failed("PARSING_RESPONSE")
        With(items, end) ==
            LET more == Next(end, 129)
            IN  IF ~items.ok \/ \E i \in DOMAIN items.found : items.found[i].tag # 26 THEN error
                ELSE IF end < max /\ (more = Bad \/ more.length # 1) THEN error
                ELSE Returned("NONE", [names |-> names \o [i \in DOMAIN items.found |-> Octets(b, items.found[i])],
                                       moreFollows |-> end >= max \/ b[more.at] > 0])
        In(list) == IF list = Bad THEN error ELSE With(Within(b, list, max), list.at + list.length)
    IN  IF pdu = Bad THEN error ELSE IF id = Bad THEN error
        ELSE IF service = Bad THEN error ELSE In(Next(service.at, 160))

\* At most a hundred octets of each name
mmsClient_parseIdentifyResponse(b, p) ==
    LET max == Len(b) + 1
        e == BerDecoder_decodeLength(b, p + 1, max)
        fields == Within(b, e, max)
        Name(tag) == LET o == Octets(b, Field(fields.found, tag))
                     IN  IF Has(fields.found, tag) THEN SubSeq(o, 1, IF Len(o) < 99 THEN Len(o) ELSE 99) ELSE NULL
    IN  IF b[p] # 162 \/ e = Bad THEN Failed("PARSING_RESPONSE")
        ELSE IF ~fields.ok THEN Failed("PARSING_RESPONSE")
        ELSE Returned("NONE", [vendor |-> Name(128), model |-> Name(129), revision |-> Name(130)])

mmsClient_parseStatusResponse(b, p) ==
    LET max == Len(b) + 1
        e == BerDecoder_decodeLength(b, p + 1, max)
        fields == Within(b, e, max)
        tags == {fields.found[i].tag : i \in DOMAIN fields.found}
        Number(tag) == LET f == Field(fields.found, tag) IN BerDecoder_decodeUint32(b, f.at, f.length)
    IN  IF b[p] # 160 \/ e = Bad THEN Failed("PARSING_RESPONSE")
        ELSE IF ~fields.ok \/ ~(tags \subseteq {128, 129, 130, 0}) \/ ~({128, 129} \subseteq tags)
        THEN Failed("PARSING_RESPONSE")
        ELSE Returned("NONE", [logical |-> Number(128), physical |-> Number(129)])

\* What the association has agreed on, as the client sees it
mmsClient_parseInitiateResponse(b) ==
    LET max == Len(b) + 1
        e == BerDecoder_decodeLength(b, 2, max)
        fields == Elements(b, e.at, max, max, <<>>)
        Number(tag, default) == LET f == Field(fields.found, tag)
                                IN  IF Has(fields.found, tag) THEN BerDecoder_decodeUint32(b, f.at, f.length)
                                    ELSE default
        AtMost(n, limit) == IF n > limit THEN limit ELSE n
        detail == Within(b, Field(fields.found, 164), Field(fields.found, 164).at + Field(fields.found, 164).length)
        services == Field(detail.found, 130).at
    IN  IF e = Bad THEN Failed("PARSING_RESPONSE")
        ELSE IF ~fields.ok \/ (Has(fields.found, 164) /\ ~detail.ok) THEN Failed("PARSING_RESPONSE")
        ELSE Returned("NONE",
                 [maxPduSize |-> AtMost(Number(128, MaximumPduSize), MaximumPduSize),
                  calling |-> AtMost(Number(129, MaxOutstanding), MaxOutstanding),
                  called |-> AtMost(Number(130, MaxOutstanding), MaxOutstanding),
                  nesting |-> Number(131, NestingLevel),
                  services |-> IF Has(fields.found, 164) /\ Has(detail.found, 130)
                               THEN SubSeq(b, services + 1, services + 11) ELSE <<>>])
-----------------------------------------------------------------------------
(***************************************************************************)
(* Reports: the calls of the report handler, a name and a value each.      *)
(***************************************************************************)
\* More results than variables, or fewer, are not reported; nor is a variable whose name is too
\* long.
ReportedWith(variables, value) ==
    LET Of(i) == LET name == Chosen(MemberOf("ListOfVariableSeq", variables[i], "variableSpecification"))
                     v == IF Len(variables) = 1 THEN value ELSE MmsValue_getElement(value, i - 1)
                     domain == MemberOf("domainspecific_3", Chosen(name), "domainId").n
                     item == MemberOf("domainspecific_3", Chosen(name), "itemId").n
                 IN  CASE Present("ObjectName", name) = "vmdspecific" ->
                            IF Len(Chosen(name).n) < 129 THEN <<Reported(NULL, Chosen(name).n, v)>> ELSE <<>>
                       [] Present("ObjectName", name) = "domainspecific" ->
                            IF Len(domain) < 65 /\ Len(item) < 65 THEN <<Reported(domain, item, v)>> ELSE <<>>
                       [] OTHER -> <<>>
    IN  FlattenSeq([i \in DOMAIN variables |-> Of(i)])

ReportedVariables(variables, results) ==
    IF Len(results) # Len(variables) THEN <<>>
    ELSE ReportedWith(variables, mmsClient_parseListOfAccessResults(results, FALSE))

handleUnconfirmedMmsPdu(b) ==
    LET pdu == Decoding("MmsPdu", b)
        service == MemberOf("UnconfirmedPDU", Chosen(pdu), "unconfirmedService")
        report == Chosen(service)
        spec == MemberOf("InformationReport", report, "variableAccessSpecification")
        results == MemberOf("InformationReport", report, "listOfAccessResult").c
    IN  IF pdu = Absent THEN <<>>
        ELSE IF Present("MmsPdu", pdu) # "unconfirmedPDU" THEN <<>>
        ELSE IF Present("UnconfirmedService", service) # "informationReport" THEN <<>>
        ELSE IF Present("VariableAccessSpecification", spec) = "listOfVariable"
        THEN ReportedVariables(Chosen(spec).c, results)
        ELSE IF Present("ObjectName", Chosen(spec)) # "vmdspecific" THEN <<>>
        ELSE <<Reported(NULL, Chosen(Chosen(spec)).n, mmsClient_parseListOfAccessResults(results, TRUE))>>
-----------------------------------------------------------------------------
(***************************************************************************)
(* What the client makes of the answer to a call (mmsIsoCallback and       *)
(* handleAsyncResponse).                                                   *)
(***************************************************************************)
handleAsyncResponse(c, b, p, names) ==
    LET value == mmsClient_parseReadResponse(b, c.op \in ReadManyOps)
        spec == mmsClient_parseGetVariableAccessAttributesResponse(b)
        deletion == mmsClient_parseDeleteNamedVariableListResponse(b)
    IN  CASE c.op \in ReadOps \cup ReadManyOps ->
               IF value = NoValue THEN Failed("PARSING_RESPONSE") ELSE Returned("NONE", value)
          [] c.op \in WriteOps -> mmsClient_parseWriteResponse(b, p)
          [] c.op \in WriteManyOps -> mmsClient_parseWriteMultipleItemsResponse(b, p, -1)
          [] c.op \in DirectoryOps -> mmsClient_parseGetNamedVariableListAttributesResponse(b)
          [] c.op \in DefineOps ->
               IF mmsClient_parseDefineNamedVariableResponse(b) THEN Returned("NONE", TRUE)
               ELSE Returned("PARSING_RESPONSE", FALSE)
          [] c.op \in DeleteOps ->
               Returned(CASE deletion.matched = 0 -> "ACCESS_OBJECT_NON_EXISTENT"
                          [] deletion.matched # 0 /\ deletion.deleted = 0 -> "ACCESS_OBJECT_ACCESS_DENIED"
                          [] OTHER -> "NONE", deletion.deleted = 1)
          [] c.op = "type" -> IF spec = NoSpec THEN Failed("PARSING_RESPONSE") ELSE Returned("NONE", spec)
          [] c.op = "status" -> mmsClient_parseStatusResponse(b, p)
          [] c.op = "identify" -> mmsClient_parseIdentifyResponse(b, p)
          [] c.op \in NameOps -> mmsClient_parseGetNameListResponse(names, b)

\* An answer with another invoke id belongs to no call: the call runs into its timeout.
mmsIsoCallback(c, b, invokeId, names) ==
    LET pdu == BerDecoder_decodeLength(b, 2, Len(b) + 1)
        no == BerDecoder_decodeLength(b, pdu.at + 1, Len(b) + 1)
        late == RefusedCall(c, "SERVICE_TIMEOUT")
        AfterError(error) == IF ~error.ok \/ error.id # invokeId THEN late
                             ELSE RefusedCall(c, convertServiceErrorToMmsError(error.code[1], error.code[2]))
        AfterReject(reject) == IF ~reject.ok \/ reject.id # invokeId THEN late
                               ELSE RefusedCall(c, convertRejectCodesToMmsError(reject.code))
    IN  CASE b[1] = 169 -> mmsClient_parseInitiateResponse(b)
          [] b[1] = 170 -> Failed("CONNECTION_REJECTED")
          [] b[1] = 163 -> Returned("NONE", handleUnconfirmedMmsPdu(b))
          [] b[1] = 140 -> Returned("NONE", TRUE)
          [] b[1] = 162 -> AfterError(mmsMsg_parseConfirmedErrorPDU(b))
          [] b[1] = 164 -> AfterReject(mmsMsg_parseRejectPDU(b))
          [] b[1] = 161 -> IF pdu = Bad THEN late
                           ELSE IF b[pdu.at] # 2 \/ no = Bad THEN late
                           ELSE IF BerDecoder_decodeUint32(b, no.at, no.length) # invokeId THEN late
                           ELSE handleAsyncResponse(c, b, no.at + no.length, names)
          [] OTHER -> late

=============================================================================
