----------------------------- MODULE AsnTypes -----------------------------
(***************************************************************************)
(* The type tables asn1c generated for the MMS PDUs                        *)
(* (src/sources/mms/iso_mms/asn1c): for every type its BER tags, its       *)
(* members with their own tags, and the tag-to-member map its decoder      *)
(* searches.  The tables are data; module Ber is the program that reads    *)
(* them.                                                                   *)
(*                                                                         *)
(* A descriptor names its members' types by string, because the types are  *)
(* mutually recursive: Descriptors[name] is the descriptor.  An alias type *)
(* (file of delegating functions) inherits the codec of its base type.     *)
(* The print, free and XER entries and the C struct offsets are left out:  *)
(* nothing here reads them.  No type has extension markers (every          *)
(* extension field is -1), so the tables do not record them.               *)
(***************************************************************************)
EXTENDS Integers, Sequences

\* asn1c's ber_tlv_tag_t: the tag number above the two class bits
Uni(n) == 4 * n
Ctx(n) == 4 * n + 2
Amb == -1                       \* "Ambiguous tag (CHOICE?)"

MaxLong == 2147483647
MinLong == -MaxLong - 1

\* A member: its tag, tag mode (-1 IMPLICIT, 0 none, +1 EXPLICIT), type, name;
\* `optional' counts the optional members that start here.
Mbr(tag, mode, type, name) ==
    [tag |-> tag, mode |-> mode, type |-> type, name |-> name, optional |-> 0, range |-> <<>>]

\* A member that may be absent: n optional members in a row start with it
Opt(n, tag, mode, type, name) == [Mbr(tag, mode, type, name) EXCEPT !.optional = n]

\* The values the type's constraint function admits: least and greatest, or only
\* the least where the greatest is above 2^31 - 1; for UtcTime the sizes
Ranged(d, range) == [d EXCEPT !.range = range]

\* Entries of a tag2el map: tag, member (from 0), and how far back and ahead the
\* map has entries of the same tag
E(tag, el_no) == [tag |-> tag, el_no |-> el_no, toff_first |-> 0, toff_last |-> 0]
A(tag, el_no, first, last) ==
    [tag |-> tag, el_no |-> el_no, toff_first |-> first, toff_last |-> last]

Descriptor(kind, tags, elements, tag2el) ==
    [kind |-> kind, tags |-> tags, elements |-> elements, tag2el |-> tag2el, range |-> <<>>]

\* The map of a type that lists its members' tags in the members' order
InOrder(elements) == [i \in DOMAIN elements |-> E(elements[i].tag, i - 1)]

Primitive(kind, tags) == Descriptor(kind, tags, <<>>, <<>>)
Sequence(tags, elements, tag2el) == Descriptor("SEQUENCE", tags, elements, tag2el)
Choice(elements, tag2el) == Descriptor("CHOICE", <<>>, elements, tag2el)
SequenceInOrder(tags, elements) == Sequence(tags, elements, InOrder(elements))
ChoiceInOrder(elements) == Choice(elements, InOrder(elements))
SequenceOf(tags, element) == Descriptor("SEQUENCE_OF", tags, <<element>>, <<>>)
Inherit(base, tags) == [base EXCEPT !.tags = tags]
-----------------------------------------------------------------------------
asn_DEF_BIT_STRING == Primitive("BIT_STRING", <<Uni(3)>>)
asn_DEF_BOOLEAN == Primitive("BOOLEAN", <<Uni(1)>>)
asn_DEF_GeneralizedTime == Primitive("OCTET_STRING", <<Uni(24)>>)
asn_DEF_INTEGER == Primitive("INTEGER", <<Uni(2)>>)
asn_DEF_NULL == Primitive("NULL", <<Uni(5)>>)
asn_DEF_NativeEnumerated == Primitive("NativeInteger", <<Uni(10)>>)
asn_DEF_NativeInteger == Primitive("NativeInteger", <<Uni(2)>>)
asn_DEF_OCTET_STRING == Primitive("OCTET_STRING", <<Uni(4)>>)
asn_DEF_UTF8String == Primitive("OCTET_STRING", <<Uni(12)>>)
asn_DEF_VisibleString == Primitive("OCTET_STRING", <<Uni(26)>>)

asn_DEF_ConcludeRequestPDU == Inherit(asn_DEF_NULL, <<Uni(5)>>)
asn_DEF_ConcludeResponsePDU == Inherit(asn_DEF_NULL, <<Uni(5)>>)
asn_DEF_DataAccessError == Inherit(asn_DEF_INTEGER, <<Uni(2)>>)
asn_DEF_DefineNamedVariableListResponse == Inherit(asn_DEF_NULL, <<Uni(5)>>)
asn_DEF_FloatingPoint == Inherit(asn_DEF_OCTET_STRING, <<Uni(4)>>)
asn_DEF_Identifier == Inherit(asn_DEF_VisibleString, <<Uni(26)>>)
asn_DEF_Integer16 == Ranged(Inherit(asn_DEF_NativeInteger, <<Uni(2)>>), <<-32768, 32767>>)
asn_DEF_Integer32 == Ranged(Inherit(asn_DEF_NativeInteger, <<Uni(2)>>), <<MinLong, MaxLong>>)
asn_DEF_Integer8 == Ranged(Inherit(asn_DEF_NativeInteger, <<Uni(2)>>), <<-128, 127>>)
asn_DEF_MMSString == Inherit(asn_DEF_UTF8String, <<Uni(12)>>)
asn_DEF_ParameterSupportOptions == Inherit(asn_DEF_BIT_STRING, <<Uni(3)>>)
asn_DEF_ServiceSupportOptions == Inherit(asn_DEF_BIT_STRING, <<Uni(3)>>)
asn_DEF_TimeOfDay == Inherit(asn_DEF_OCTET_STRING, <<Uni(4)>>)
asn_DEF_Unsigned16 == Ranged(Inherit(asn_DEF_NativeInteger, <<Uni(2)>>), <<0, 65535>>)
asn_DEF_Unsigned32 == Ranged(Inherit(asn_DEF_INTEGER, <<Uni(2)>>), <<0>>)
asn_DEF_Unsigned8 == Ranged(Inherit(asn_DEF_NativeInteger, <<Uni(2)>>), <<0, 255>>)
asn_DEF_UtcTime == Ranged(Inherit(asn_DEF_OCTET_STRING, <<Uni(4)>>), <<8, 8>>)

asn_MBR_AccessResult ==
    <<Mbr(Ctx(0), -1, "DataAccessError", "failure"), Mbr(Ctx(1), -1, "DataSequence", "array"),
      Mbr(Ctx(2), -1, "DataSequence", "structure"), Mbr(Ctx(3), -1, "BOOLEAN", "boolean"),
      Mbr(Ctx(4), -1, "BIT_STRING", "bitstring"), Mbr(Ctx(5), -1, "INTEGER", "integer"),
      Mbr(Ctx(6), -1, "INTEGER", "unsigned"), Mbr(Ctx(7), -1, "FloatingPoint", "floatingpoint"),
      Mbr(Ctx(9), -1, "OCTET_STRING", "octetstring"),
      Mbr(Ctx(10), -1, "VisibleString", "visiblestring"),
      Mbr(Ctx(11), -1, "GeneralizedTime", "generalizedtime"),
      Mbr(Ctx(12), -1, "TimeOfDay", "binarytime"), Mbr(Ctx(13), -1, "INTEGER", "bcd"),
      Mbr(Ctx(14), -1, "BIT_STRING", "booleanArray"), Mbr(Ctx(16), -1, "MMSString", "mMSString"),
      Mbr(Ctx(17), -1, "UtcTime", "utctime")>>

asn_DEF_AccessResult ==
    ChoiceInOrder(asn_MBR_AccessResult)

asn_DEF_Address ==
    ChoiceInOrder(<<Mbr(Ctx(0), -1, "Unsigned32", "numericAddress"),
        Mbr(Ctx(1), -1, "VisibleString", "symbolicAddress"),
        Mbr(Ctx(2), -1, "OCTET_STRING", "unconstrainedAddress")>>)

asn_DEF_named_4 ==
    Sequence(<<Ctx(5)>>, <<Mbr(Ctx(0), -1, "Identifier", "componentName"),
        Mbr(Amb, 0, "AlternateAccessSelection", "access")>>,
      <<A(Ctx(0), 0, 0, 1), A(Ctx(0), 1, -1, 0), E(Ctx(1), 1), E(Ctx(2), 1), E(Ctx(3), 1),
        E(Ctx(4), 1)>>)

asn_DEF_AlternateAccess_Member_2 ==
    Choice(<<Mbr(Amb, 0, "AlternateAccessSelection", "unnamed"), Mbr(Ctx(5), -1, "named_4", "named")>>,
      <<E(Ctx(0), 0), E(Ctx(1), 0), E(Ctx(2), 0), E(Ctx(3), 0), E(Ctx(4), 0), E(Ctx(5), 1)>>)

asn_DEF_AlternateAccess ==
    SequenceOf(<<Uni(16)>>, Mbr(Amb, 0, "AlternateAccess_Member_2", ""))

asn_DEF_indexRange_6 ==
    SequenceInOrder(<<Ctx(2)>>, <<Mbr(Ctx(0), -1, "Unsigned32", "lowIndex"),
        Mbr(Ctx(1), -1, "Unsigned32", "numberOfElements")>>)

asn_DEF_accessSelection_3 ==
    ChoiceInOrder(<<Mbr(Ctx(0), -1, "Identifier", "component"), Mbr(Ctx(1), -1, "Unsigned32", "index"),
        Mbr(Ctx(2), -1, "indexRange_6", "indexRange"), Mbr(Ctx(3), -1, "NULL", "allElements")>>)

asn_DEF_selectAlternateAccess_2 ==
    Sequence(<<Ctx(0)>>, <<Mbr(Amb, 0, "accessSelection_3", "accessSelection"),
        Mbr(Uni(16), 0, "AlternateAccess", "alternateAccess")>>,
      <<E(Uni(16), 1), E(Ctx(0), 0), E(Ctx(1), 0), E(Ctx(2), 0), E(Ctx(3), 0)>>)

asn_DEF_indexRange_14 ==
    SequenceInOrder(<<Ctx(3)>>, <<Mbr(Ctx(0), -1, "Unsigned32", "lowIndex"),
        Mbr(Ctx(1), -1, "Unsigned32", "numberOfElements")>>)

asn_DEF_selectAccess_11 ==
    ChoiceInOrder(<<Mbr(Ctx(1), -1, "Identifier", "component"), Mbr(Ctx(2), -1, "Unsigned32", "index"),
        Mbr(Ctx(3), -1, "indexRange_14", "indexRange"), Mbr(Ctx(4), -1, "NULL", "allElements")>>)

asn_DEF_AlternateAccessSelection ==
    Choice(<<Mbr(Ctx(0), -1, "selectAlternateAccess_2", "selectAlternateAccess"),
        Mbr(Amb, 0, "selectAccess_11", "selectAccess")>>,
      <<E(Ctx(0), 0), E(Ctx(1), 1), E(Ctx(2), 1), E(Ctx(3), 1), E(Ctx(4), 1)>>)

asn_DEF_ConfirmedErrorPDU ==
    SequenceInOrder(<<Uni(16)>>, <<Mbr(Ctx(0), -1, "Unsigned32", "invokeID"), Mbr(Ctx(2), -1, "ServiceError", "serviceError")>>)

asn_DEF_ConfirmedRequestPdu ==
    Sequence(<<Uni(16)>>, <<Mbr(Uni(2), 0, "Unsigned32", "invokeID"),
        Mbr(Amb, 0, "ConfirmedServiceRequest", "confirmedServiceRequest")>>,
      <<E(Uni(2), 0), E(Ctx(1), 1), E(Ctx(4), 1), E(Ctx(5), 1), E(Ctx(6), 1), E(Ctx(11), 1),
        E(Ctx(12), 1), E(Ctx(13), 1)>>)

asn_DEF_ConfirmedResponsePdu ==
    Sequence(<<Uni(16)>>, <<Mbr(Uni(2), 0, "Unsigned32", "invokeID"),
        Mbr(Amb, 0, "ConfirmedServiceResponse", "confirmedServiceResponse")>>,
      <<E(Uni(2), 0), E(Ctx(1), 1), E(Ctx(4), 1), E(Ctx(5), 1), E(Ctx(6), 1), E(Ctx(11), 1),
        E(Ctx(12), 1), E(Ctx(13), 1)>>)

asn_DEF_ConfirmedServiceRequest ==
    ChoiceInOrder(<<Mbr(Ctx(1), -1, "GetNameListRequest", "getNameList"),
        Mbr(Ctx(4), -1, "ReadRequest", "read"), Mbr(Ctx(5), -1, "WriteRequest", "write"),
        Mbr(Ctx(6), 1, "GetVariableAccessAttributesRequest", "getVariableAccessAttributes"),
        Mbr(Ctx(11), -1, "DefineNamedVariableListRequest", "defineNamedVariableList"),
        Mbr(Ctx(12), 1, "GetNamedVariableListAttributesRequest", "getNamedVariableListAttributes"),
        Mbr(Ctx(13), -1, "DeleteNamedVariableListRequest", "deleteNamedVariableList")>>)

asn_DEF_ConfirmedServiceResponse ==
    ChoiceInOrder(<<Mbr(Ctx(1), -1, "GetNameListResponse", "getNameList"),
        Mbr(Ctx(4), -1, "ReadResponse", "read"), Mbr(Ctx(5), -1, "WriteResponse", "write"),
        Mbr(Ctx(6), -1, "GetVariableAccessAttributesResponse", "getVariableAccessAttributes"),
        Mbr(Ctx(11), -1, "DefineNamedVariableListResponse", "defineNamedVariableList"),
        Mbr(Ctx(12), -1, "GetNamedVariableListAttributesResponse", "getNamedVariableListAttributes"),
        Mbr(Ctx(13), -1, "DeleteNamedVariableListResponse", "deleteNamedVariableList")>>)

asn_MBR_Data ==
    <<Mbr(Ctx(1), -1, "DataSequence", "array"), Mbr(Ctx(2), -1, "DataSequence", "structure"),
      Mbr(Ctx(3), -1, "BOOLEAN", "boolean"), Mbr(Ctx(4), -1, "BIT_STRING", "bitstring"),
      Mbr(Ctx(5), -1, "INTEGER", "integer"), Mbr(Ctx(6), -1, "INTEGER", "unsigned"),
      Mbr(Ctx(7), -1, "FloatingPoint", "floatingpoint"),
      Mbr(Ctx(9), -1, "OCTET_STRING", "octetstring"),
      Mbr(Ctx(10), -1, "VisibleString", "visiblestring"),
      Mbr(Ctx(11), -1, "GeneralizedTime", "generalizedtime"),
      Mbr(Ctx(12), -1, "TimeOfDay", "binarytime"), Mbr(Ctx(13), -1, "INTEGER", "bcd"),
      Mbr(Ctx(14), -1, "BIT_STRING", "booleanArray"), Mbr(Ctx(16), -1, "MMSString", "mMSString"),
      Mbr(Ctx(17), -1, "UtcTime", "utctime")>>

asn_DEF_Data ==
    ChoiceInOrder(asn_MBR_Data)

asn_DEF_DataSequence ==
    SequenceOf(<<Uni(16)>>, Mbr(Amb, 0, "Data", ""))

asn_DEF_DefineNamedVariableListRequest_Member_4 ==
    Sequence(<<Uni(16)>>, <<Mbr(Amb, 0, "VariableSpecification", "variableSpecification"),
        Opt(1, Ctx(5), -1, "AlternateAccess", "alternateAccess")>>,
      <<E(Ctx(0), 0), E(Ctx(1), 0), E(Ctx(2), 0), E(Ctx(3), 0), E(Ctx(4), 0), E(Ctx(5), 1)>>)

asn_DEF_DefineNamedVariableListRequest_listOfVariable_3 ==
    SequenceOf(<<Ctx(0)>>, Mbr(Uni(16), 0, "DefineNamedVariableListRequest_Member_4", ""))

asn_DEF_DefineNamedVariableListRequest ==
    Sequence(<<Uni(16)>>, <<Mbr(Amb, 0, "ObjectName", "variableListName"),
        Mbr(Ctx(0), -1, "DefineNamedVariableListRequest_listOfVariable_3", "listOfVariable")>>,
      <<A(Ctx(0), 0, 0, 1), A(Ctx(0), 1, -1, 0), E(Ctx(1), 0), E(Ctx(2), 0)>>)

asn_DEF_listOfVariableListName_7 ==
    SequenceOf(<<Ctx(1)>>, Mbr(Amb, 0, "ObjectName", ""))

asn_DEF_DeleteNamedVariableListRequest ==
    SequenceInOrder(<<Uni(16)>>, <<Opt(3, Ctx(0), -1, "INTEGER", "scopeOfDelete"),
        Opt(2, Ctx(1), -1, "listOfVariableListName_7", "listOfVariableListName"),
        Opt(1, Ctx(2), -1, "Identifier", "domainName")>>)

asn_DEF_DeleteNamedVariableListResponse ==
    SequenceInOrder(<<Uni(16)>>, <<Mbr(Ctx(0), -1, "Unsigned32", "numberMatched"),
        Mbr(Ctx(1), -1, "Unsigned32", "numberDeleted")>>)

asn_DEF_objectScope_3 ==
    ChoiceInOrder(<<Mbr(Ctx(0), -1, "NULL", "vmdSpecific"), Mbr(Ctx(1), -1, "Identifier", "domainSpecific"),
        Mbr(Ctx(2), -1, "NULL", "aaSpecific")>>)

asn_DEF_GetNameListRequest ==
    SequenceInOrder(<<Uni(16)>>, <<Mbr(Ctx(0), 1, "ObjectClass", "objectClass"),
        Mbr(Ctx(1), 1, "objectScope_3", "objectScope"),
        Opt(1, Ctx(2), -1, "Identifier", "continueAfter")>>)

asn_DEF_listOfIdentifier_2 ==
    SequenceOf(<<Ctx(0)>>, Mbr(Uni(26), 0, "Identifier", ""))

asn_DEF_GetNameListResponse ==
    SequenceInOrder(<<Uni(16)>>, <<Mbr(Ctx(0), -1, "listOfIdentifier_2", "listOfIdentifier"),
        Opt(1, Ctx(1), -1, "BOOLEAN", "moreFollows")>>)

asn_DEF_GetNamedVariableListAttributesResponse_Member_4 ==
    Sequence(<<Uni(16)>>, <<Mbr(Amb, 0, "VariableSpecification", "variableSpecification"),
        Opt(1, Ctx(5), -1, "AlternateAccess", "alternateAccess")>>,
      <<E(Ctx(0), 0), E(Ctx(1), 0), E(Ctx(2), 0), E(Ctx(3), 0), E(Ctx(4), 0), E(Ctx(5), 1)>>)

asn_DEF_GetNamedVariableListAttributesResponse_listOfVariable_3 ==
    SequenceOf(<<Ctx(1)>>, Mbr(Uni(16), 0, "GetNamedVariableListAttributesResponse_Member_4", ""))

asn_DEF_GetNamedVariableListAttributesResponse ==
    SequenceInOrder(<<Uni(16)>>, <<Mbr(Ctx(0), -1, "BOOLEAN", "mmsDeletable"),
        Mbr(Ctx(1), -1, "GetNamedVariableListAttributesResponse_listOfVariable_3", "listOfVariable")>>)

asn_DEF_GetVariableAccessAttributesRequest ==
    ChoiceInOrder(<<Mbr(Ctx(0), 1, "ObjectName", "name"), Mbr(Ctx(1), 1, "Address", "address")>>)

asn_DEF_GetVariableAccessAttributesResponse ==
    SequenceInOrder(<<Uni(16)>>, <<Mbr(Ctx(0), -1, "BOOLEAN", "mmsDeletable"), Opt(1, Ctx(1), 1, "Address", "address"),
        Mbr(Ctx(2), 1, "TypeSpecification", "typeSpecification")>>)

asn_DEF_IndexRangeSeq ==
    SequenceInOrder(<<Uni(16)>>, <<Mbr(Ctx(0), -1, "Unsigned32", "lowIndex"),
        Mbr(Ctx(1), -1, "Unsigned32", "numberOfElements")>>)

asn_DEF_InformationReport_listOfAccessResult_3 ==
    SequenceOf(<<Ctx(0)>>, Mbr(Amb, 0, "AccessResult", ""))

asn_DEF_InformationReport ==
    Sequence(<<Uni(16)>>, <<Mbr(Amb, 0, "VariableAccessSpecification", "variableAccessSpecification"),
        Mbr(Ctx(0), -1, "InformationReport_listOfAccessResult_3", "listOfAccessResult")>>,
      <<A(Ctx(0), 0, 0, 1), A(Ctx(0), 1, -1, 0), E(Ctx(1), 0)>>)

asn_DEF_InitRequestDetail ==
    SequenceInOrder(<<Uni(16)>>, <<Mbr(Ctx(0), -1, "Integer16", "proposedVersionNumber"),
        Mbr(Ctx(1), -1, "ParameterSupportOptions", "proposedParameterCBB"),
        Mbr(Ctx(2), -1, "ServiceSupportOptions", "servicesSupportedCalling")>>)

asn_DEF_InitResponseDetail ==
    SequenceInOrder(<<Uni(16)>>, <<Mbr(Ctx(0), -1, "Integer16", "negotiatedVersionNumber"),
        Mbr(Ctx(1), -1, "ParameterSupportOptions", "negotiatedParameterCBB"),
        Mbr(Ctx(2), -1, "ServiceSupportOptions", "servicesSupportedCalled")>>)

asn_DEF_InitiateRequestPdu ==
    SequenceInOrder(<<Uni(16)>>, <<Opt(1, Ctx(0), -1, "Integer32", "localDetailCalling"),
        Mbr(Ctx(1), -1, "Integer16", "proposedMaxServOutstandingCalling"),
        Mbr(Ctx(2), -1, "Integer16", "proposedMaxServOutstandingCalled"),
        Opt(1, Ctx(3), -1, "Integer8", "proposedDataStructureNestingLevel"),
        Mbr(Ctx(4), -1, "InitRequestDetail", "mmsInitRequestDetail")>>)

asn_DEF_InitiateResponsePdu ==
    SequenceInOrder(<<Uni(16)>>, <<Opt(1, Ctx(0), -1, "Integer32", "localDetailCalled"),
        Mbr(Ctx(1), -1, "Integer16", "negotiatedMaxServOutstandingCalling"),
        Mbr(Ctx(2), -1, "Integer16", "negotiatedMaxServOutstandingCalled"),
        Opt(1, Ctx(3), -1, "Integer8", "negotiatedDataStructureNestingLevel"),
        Mbr(Ctx(4), -1, "InitResponseDetail", "mmsInitResponseDetail")>>)

asn_DEF_ListOfVariableSeq ==
    Sequence(<<Uni(16)>>, <<Mbr(Amb, 0, "VariableSpecification", "variableSpecification"),
        Opt(1, Ctx(5), -1, "AlternateAccess", "alternateAccess")>>,
      <<E(Ctx(0), 0), E(Ctx(1), 0), E(Ctx(2), 0), E(Ctx(3), 0), E(Ctx(4), 0), E(Ctx(5), 1)>>)

asn_DEF_MmsPdu ==
    ChoiceInOrder(<<Mbr(Ctx(0), -1, "ConfirmedRequestPdu", "confirmedRequestPdu"),
        Mbr(Ctx(1), -1, "ConfirmedResponsePdu", "confirmedResponsePdu"),
        Mbr(Ctx(2), -1, "ConfirmedErrorPDU", "confirmedErrorPDU"),
        Mbr(Ctx(3), -1, "UnconfirmedPDU", "unconfirmedPDU"),
        Mbr(Ctx(4), -1, "RejectPDU", "rejectPDU"),
        Mbr(Ctx(8), -1, "InitiateRequestPdu", "initiateRequestPdu"),
        Mbr(Ctx(9), -1, "InitiateResponsePdu", "initiateResponsePdu"),
        Mbr(Ctx(10), -1, "InitiateErrorPdu", "initiateErrorPdu"),
        Mbr(Ctx(11), -1, "ConcludeRequestPDU", "concludeRequestPDU"),
        Mbr(Ctx(12), -1, "ConcludeResponsePDU", "concludeResponsePDU")>>)

asn_DEF_ObjectClass ==
    ChoiceInOrder(<<Mbr(Ctx(0), -1, "INTEGER", "basicObjectClass")>>)

asn_DEF_domainspecific_3 ==
    Sequence(<<Ctx(1)>>, <<Mbr(Uni(26), 0, "Identifier", "domainId"), Mbr(Uni(26), 0, "Identifier", "itemId")>>,
      <<A(Uni(26), 0, 0, 1), A(Uni(26), 1, -1, 0)>>)

asn_DEF_ObjectName ==
    ChoiceInOrder(<<Mbr(Ctx(0), -1, "Identifier", "vmdspecific"),
        Mbr(Ctx(1), -1, "domainspecific_3", "domainspecific"),
        Mbr(Ctx(2), -1, "Identifier", "aaspecific")>>)

asn_DEF_ReadRequest ==
    SequenceInOrder(<<Uni(16)>>, <<Opt(1, Ctx(0), -1, "BOOLEAN", "specificationWithResult"),
        Mbr(Ctx(1), 1, "VariableAccessSpecification", "variableAccessSpecification")>>)

asn_DEF_ReadResponse_listOfAccessResult_3 ==
    SequenceOf(<<Ctx(1)>>, Mbr(Amb, 0, "AccessResult", ""))

asn_DEF_ReadResponse ==
    SequenceInOrder(<<Uni(16)>>, <<Opt(1, Ctx(0), 1, "VariableAccessSpecification", "variableAccessSpecification"),
        Mbr(Ctx(1), -1, "ReadResponse_listOfAccessResult_3", "listOfAccessResult")>>)

rejectReason_ranges ==
    <<<<0, 9>>, <<0, 6>>, <<0, 4>>, <<0, 4>>, <<0, 1>>, <<0, 1>>, <<0, 2>>>>

asn_DEF_rejectReason_3 ==
    ChoiceInOrder(<<Ranged(Mbr(Ctx(1), -1, "NativeInteger", "confirmedRequestPDU"), rejectReason_ranges[1]),
        Ranged(Mbr(Ctx(2), -1, "NativeInteger", "confirmedResponsePDU"), rejectReason_ranges[2]),
        Ranged(Mbr(Ctx(3), -1, "NativeInteger", "confirmedErrorPDU"), rejectReason_ranges[3]),
        Ranged(Mbr(Ctx(4), -1, "NativeInteger", "unconfirmedPDU"), rejectReason_ranges[4]),
        Mbr(Ctx(5), -1, "INTEGER", "pduError"), Mbr(Ctx(6), -1, "NULL", "cancelRequestPDU"),
        Mbr(Ctx(7), -1, "NULL", "cancelResponsePDU"), Mbr(Ctx(8), -1, "NULL", "cancelErrorPDU"),
        Ranged(Mbr(Ctx(9), -1, "NativeInteger", "concludeRequestPDU"), rejectReason_ranges[5]),
        Ranged(Mbr(Ctx(10), -1, "NativeInteger", "concludeResponsePDU"), rejectReason_ranges[6]),
        Ranged(Mbr(Ctx(11), -1, "NativeInteger", "concludeErrorPDU"), rejectReason_ranges[7])>>)

asn_DEF_RejectPDU ==
    Sequence(<<Uni(16)>>, <<Opt(1, Ctx(0), -1, "Unsigned32", "originalInvokeID"),
        Mbr(Amb, 0, "rejectReason_3", "rejectReason")>>,
      <<E(Ctx(0), 0), E(Ctx(1), 1), E(Ctx(2), 1), E(Ctx(3), 1), E(Ctx(4), 1), E(Ctx(5), 1),
        E(Ctx(6), 1), E(Ctx(7), 1), E(Ctx(8), 1), E(Ctx(9), 1), E(Ctx(10), 1), E(Ctx(11), 1)>>)

asn_DEF_ScatteredAccessDescription_Member_2 ==
    SequenceInOrder(<<Uni(16)>>, <<Opt(1, Ctx(0), -1, "Identifier", "componentName"),
        Mbr(Ctx(1), 1, "VariableSpecification", "variableSpecification"),
        Opt(1, Ctx(2), -1, "AlternateAccess", "alternateAccess")>>)

asn_DEF_ScatteredAccessDescription ==
    SequenceOf(<<Uni(16)>>, Mbr(Uni(16), 0, "ScatteredAccessDescription_Member_2", ""))

asn_MBR_errorClass_2 ==
    <<Mbr(Ctx(0), -1, "INTEGER", "vmdstate"), Mbr(Ctx(1), -1, "INTEGER", "applicationreference"),
      Mbr(Ctx(2), -1, "INTEGER", "definition"), Mbr(Ctx(3), -1, "INTEGER", "resource"),
      Mbr(Ctx(4), -1, "INTEGER", "service"), Mbr(Ctx(5), -1, "INTEGER", "servicepreempt"),
      Mbr(Ctx(6), -1, "INTEGER", "timeresolution"), Mbr(Ctx(7), -1, "INTEGER", "access"),
      Mbr(Ctx(8), -1, "INTEGER", "initiate"), Mbr(Ctx(9), -1, "INTEGER", "conclude"),
      Mbr(Ctx(10), -1, "INTEGER", "cancel"), Mbr(Ctx(11), -1, "INTEGER", "file"),
      Mbr(Ctx(12), -1, "INTEGER", "others")>>

asn_DEF_errorClass_2 ==
    ChoiceInOrder(asn_MBR_errorClass_2)

asn_DEF_ServiceError ==
    SequenceInOrder(<<Uni(16)>>, <<Mbr(Ctx(0), 1, "errorClass_2", "errorClass"),
        Opt(2, Ctx(1), -1, "INTEGER", "additionalCode"),
        Opt(1, Ctx(2), -1, "VisibleString", "additionalDescription")>>)

asn_DEF_StructComponent ==
    SequenceInOrder(<<Uni(16)>>, <<Opt(1, Ctx(0), -1, "Identifier", "componentName"),
        Mbr(Ctx(1), 1, "TypeSpecification", "componentType")>>)

asn_DEF_array_3 ==
    SequenceInOrder(<<Ctx(1)>>, <<Opt(1, Ctx(0), -1, "BOOLEAN", "packed"),
        Mbr(Ctx(1), -1, "Unsigned32", "numberOfElements"),
        Mbr(Ctx(2), 1, "TypeSpecification", "elementType")>>)

asn_DEF_components_9 ==
    SequenceOf(<<Ctx(1)>>, Mbr(Uni(16), 0, "StructComponent", ""))

asn_DEF_structure_7 ==
    SequenceInOrder(<<Ctx(2)>>, <<Opt(1, Ctx(0), -1, "BOOLEAN", "packed"), Mbr(Ctx(1), -1, "components_9", "components")>>)

asn_DEF_floatingpoint_15 ==
    Sequence(<<Ctx(7)>>, <<Mbr(Uni(2), 0, "Unsigned8", "formatwidth"), Mbr(Uni(2), 0, "Unsigned8", "exponentwidth")>>,
      <<A(Uni(2), 0, 0, 1), A(Uni(2), 1, -1, 0)>>)

asn_MBR_TypeSpecification ==
    <<Mbr(Ctx(0), 1, "ObjectName", "typeName"), Mbr(Ctx(1), -1, "array_3", "array"),
      Mbr(Ctx(2), -1, "structure_7", "structure"), Mbr(Ctx(3), -1, "NULL", "boolean"),
      Mbr(Ctx(4), -1, "Integer32", "bitstring"), Mbr(Ctx(5), -1, "Unsigned8", "integer"),
      Mbr(Ctx(6), -1, "Unsigned8", "unsigned"),
      Mbr(Ctx(7), -1, "floatingpoint_15", "floatingpoint"),
      Mbr(Ctx(9), -1, "Integer32", "octetstring"), Mbr(Ctx(10), -1, "Integer32", "visiblestring"),
      Mbr(Ctx(11), -1, "NULL", "generalizedtime"), Mbr(Ctx(12), -1, "BOOLEAN", "binarytime"),
      Mbr(Ctx(13), -1, "Unsigned8", "bcd"), Mbr(Ctx(15), -1, "NULL", "objId"),
      Mbr(Ctx(16), -1, "Integer32", "mMSString"), Mbr(Ctx(17), -1, "NULL", "utctime")>>

asn_DEF_TypeSpecification ==
    ChoiceInOrder(asn_MBR_TypeSpecification)

asn_DEF_UnconfirmedPDU ==
    Sequence(<<Uni(16)>>, <<Mbr(Amb, 0, "UnconfirmedService", "unconfirmedService")>>,
      <<E(Ctx(0), 0)>>)

asn_DEF_UnconfirmedService ==
    ChoiceInOrder(<<Mbr(Ctx(0), -1, "InformationReport", "informationReport")>>)

asn_DEF_listOfVariable_2 ==
    SequenceOf(<<Ctx(0)>>, Mbr(Uni(16), 0, "ListOfVariableSeq", ""))

asn_DEF_VariableAccessSpecification ==
    ChoiceInOrder(<<Mbr(Ctx(0), -1, "listOfVariable_2", "listOfVariable"),
        Mbr(Ctx(1), 1, "ObjectName", "variableListName")>>)

asn_DEF_variableDescription_4 ==
    Sequence(<<Ctx(2)>>, <<Mbr(Amb, 0, "Address", "address"), Mbr(Amb, 0, "TypeSpecification", "typeSpecification")>>,
      <<A(Ctx(0), 0, 0, 1), A(Ctx(0), 1, -1, 0), A(Ctx(1), 0, 0, 1), A(Ctx(1), 1, -1, 0),
        A(Ctx(2), 0, 0, 1), A(Ctx(2), 1, -1, 0), E(Ctx(3), 1), E(Ctx(4), 1), E(Ctx(5), 1),
        E(Ctx(6), 1), E(Ctx(7), 1), E(Ctx(9), 1), E(Ctx(10), 1), E(Ctx(11), 1), E(Ctx(12), 1),
        E(Ctx(13), 1), E(Ctx(15), 1), E(Ctx(16), 1), E(Ctx(17), 1)>>)

asn_DEF_VariableSpecification ==
    ChoiceInOrder(<<Mbr(Ctx(0), 1, "ObjectName", "name"), Mbr(Ctx(1), 1, "Address", "address"),
        Mbr(Ctx(2), -1, "variableDescription_4", "variableDescription"),
        Mbr(Ctx(3), -1, "ScatteredAccessDescription", "scatteredAccessDescription"),
        Mbr(Ctx(4), -1, "NULL", "invalidated")>>)

asn_DEF_listOfData_3 ==
    SequenceOf(<<Ctx(0)>>, Mbr(Amb, 0, "Data", ""))

asn_DEF_WriteRequest ==
    Sequence(<<Uni(16)>>, <<Mbr(Amb, 0, "VariableAccessSpecification", "variableAccessSpecification"),
        Mbr(Ctx(0), -1, "listOfData_3", "listOfData")>>,
      <<A(Ctx(0), 0, 0, 1), A(Ctx(0), 1, -1, 0), E(Ctx(1), 0)>>)

asn_DEF_WriteResponse_Member_2 ==
    ChoiceInOrder(<<Mbr(Ctx(0), -1, "DataAccessError", "failure"), Mbr(Ctx(1), -1, "NULL", "success")>>)

asn_DEF_WriteResponse ==
    SequenceOf(<<Uni(16)>>, Mbr(Amb, 0, "WriteResponse_Member_2", ""))

asn_DEF_GetNamedVariableListAttributesRequest == Inherit(asn_DEF_ObjectName, <<>>)
asn_DEF_InitiateErrorPdu == Inherit(asn_DEF_ServiceError, <<Uni(16)>>)

Descriptors ==
    [AccessResult |-> asn_DEF_AccessResult, Address |-> asn_DEF_Address,
      named_4 |-> asn_DEF_named_4, AlternateAccess_Member_2 |-> asn_DEF_AlternateAccess_Member_2,
      AlternateAccess |-> asn_DEF_AlternateAccess, indexRange_6 |-> asn_DEF_indexRange_6,
      accessSelection_3 |-> asn_DEF_accessSelection_3,
      selectAlternateAccess_2 |-> asn_DEF_selectAlternateAccess_2,
      indexRange_14 |-> asn_DEF_indexRange_14, selectAccess_11 |-> asn_DEF_selectAccess_11,
      AlternateAccessSelection |-> asn_DEF_AlternateAccessSelection,
      BIT_STRING |-> asn_DEF_BIT_STRING, BOOLEAN |-> asn_DEF_BOOLEAN,
      ConcludeRequestPDU |-> asn_DEF_ConcludeRequestPDU,
      ConcludeResponsePDU |-> asn_DEF_ConcludeResponsePDU,
      ConfirmedErrorPDU |-> asn_DEF_ConfirmedErrorPDU,
      ConfirmedRequestPdu |-> asn_DEF_ConfirmedRequestPdu,
      ConfirmedResponsePdu |-> asn_DEF_ConfirmedResponsePdu,
      ConfirmedServiceRequest |-> asn_DEF_ConfirmedServiceRequest,
      ConfirmedServiceResponse |-> asn_DEF_ConfirmedServiceResponse, Data |-> asn_DEF_Data,
      DataAccessError |-> asn_DEF_DataAccessError, DataSequence |-> asn_DEF_DataSequence,
      DefineNamedVariableListRequest_Member_4 |-> asn_DEF_DefineNamedVariableListRequest_Member_4,
      DefineNamedVariableListRequest_listOfVariable_3 |-> asn_DEF_DefineNamedVariableListRequest_listOfVariable_3,
      DefineNamedVariableListRequest |-> asn_DEF_DefineNamedVariableListRequest,
      DefineNamedVariableListResponse |-> asn_DEF_DefineNamedVariableListResponse,
      listOfVariableListName_7 |-> asn_DEF_listOfVariableListName_7,
      DeleteNamedVariableListRequest |-> asn_DEF_DeleteNamedVariableListRequest,
      DeleteNamedVariableListResponse |-> asn_DEF_DeleteNamedVariableListResponse,
      FloatingPoint |-> asn_DEF_FloatingPoint, GeneralizedTime |-> asn_DEF_GeneralizedTime,
      objectScope_3 |-> asn_DEF_objectScope_3, GetNameListRequest |-> asn_DEF_GetNameListRequest,
      listOfIdentifier_2 |-> asn_DEF_listOfIdentifier_2,
      GetNameListResponse |-> asn_DEF_GetNameListResponse,
      GetNamedVariableListAttributesRequest |-> asn_DEF_GetNamedVariableListAttributesRequest,
      GetNamedVariableListAttributesResponse_Member_4 |-> asn_DEF_GetNamedVariableListAttributesResponse_Member_4,
      GetNamedVariableListAttributesResponse_listOfVariable_3 |-> asn_DEF_GetNamedVariableListAttributesResponse_listOfVariable_3,
      GetNamedVariableListAttributesResponse |-> asn_DEF_GetNamedVariableListAttributesResponse,
      GetVariableAccessAttributesRequest |-> asn_DEF_GetVariableAccessAttributesRequest,
      GetVariableAccessAttributesResponse |-> asn_DEF_GetVariableAccessAttributesResponse,
      INTEGER |-> asn_DEF_INTEGER, Identifier |-> asn_DEF_Identifier,
      IndexRangeSeq |-> asn_DEF_IndexRangeSeq,
      InformationReport_listOfAccessResult_3 |-> asn_DEF_InformationReport_listOfAccessResult_3,
      InformationReport |-> asn_DEF_InformationReport,
      InitRequestDetail |-> asn_DEF_InitRequestDetail,
      InitResponseDetail |-> asn_DEF_InitResponseDetail,
      InitiateErrorPdu |-> asn_DEF_InitiateErrorPdu,
      InitiateRequestPdu |-> asn_DEF_InitiateRequestPdu,
      InitiateResponsePdu |-> asn_DEF_InitiateResponsePdu, Integer16 |-> asn_DEF_Integer16,
      Integer32 |-> asn_DEF_Integer32, Integer8 |-> asn_DEF_Integer8,
      ListOfVariableSeq |-> asn_DEF_ListOfVariableSeq, MMSString |-> asn_DEF_MMSString,
      MmsPdu |-> asn_DEF_MmsPdu, NULL |-> asn_DEF_NULL,
      NativeEnumerated |-> asn_DEF_NativeEnumerated, NativeInteger |-> asn_DEF_NativeInteger,
      OCTET_STRING |-> asn_DEF_OCTET_STRING, ObjectClass |-> asn_DEF_ObjectClass,
      domainspecific_3 |-> asn_DEF_domainspecific_3, ObjectName |-> asn_DEF_ObjectName,
      ParameterSupportOptions |-> asn_DEF_ParameterSupportOptions,
      ReadRequest |-> asn_DEF_ReadRequest,
      ReadResponse_listOfAccessResult_3 |-> asn_DEF_ReadResponse_listOfAccessResult_3,
      ReadResponse |-> asn_DEF_ReadResponse, rejectReason_3 |-> asn_DEF_rejectReason_3,
      RejectPDU |-> asn_DEF_RejectPDU,
      ScatteredAccessDescription_Member_2 |-> asn_DEF_ScatteredAccessDescription_Member_2,
      ScatteredAccessDescription |-> asn_DEF_ScatteredAccessDescription,
      errorClass_2 |-> asn_DEF_errorClass_2, ServiceError |-> asn_DEF_ServiceError,
      ServiceSupportOptions |-> asn_DEF_ServiceSupportOptions,
      StructComponent |-> asn_DEF_StructComponent, TimeOfDay |-> asn_DEF_TimeOfDay,
      array_3 |-> asn_DEF_array_3, components_9 |-> asn_DEF_components_9,
      structure_7 |-> asn_DEF_structure_7, floatingpoint_15 |-> asn_DEF_floatingpoint_15,
      TypeSpecification |-> asn_DEF_TypeSpecification, UTF8String |-> asn_DEF_UTF8String,
      UnconfirmedPDU |-> asn_DEF_UnconfirmedPDU,
      UnconfirmedService |-> asn_DEF_UnconfirmedService, Unsigned16 |-> asn_DEF_Unsigned16,
      Unsigned32 |-> asn_DEF_Unsigned32, Unsigned8 |-> asn_DEF_Unsigned8,
      UtcTime |-> asn_DEF_UtcTime, listOfVariable_2 |-> asn_DEF_listOfVariable_2,
      VariableAccessSpecification |-> asn_DEF_VariableAccessSpecification,
      variableDescription_4 |-> asn_DEF_variableDescription_4,
      VariableSpecification |-> asn_DEF_VariableSpecification,
      VisibleString |-> asn_DEF_VisibleString, listOfData_3 |-> asn_DEF_listOfData_3,
      WriteRequest |-> asn_DEF_WriteRequest,
      WriteResponse_Member_2 |-> asn_DEF_WriteResponse_Member_2,
      WriteResponse |-> asn_DEF_WriteResponse]
=============================================================================
