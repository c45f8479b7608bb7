---------------------------- MODULE MmsGrammar ----------------------------
(***************************************************************************)
(* The MMS grammar of ISO 9506-2 as the Wireshark dissector has it         *)
(* (src/sources/wireshark/packet-mms.c): one production per                *)
(* dissect_mms_* function, in the order of the source.  It is the complete *)
(* protocol, where the stack's own tables (AsnTypes) have only the         *)
(* services the stack implements.                                          *)
(*                                                                         *)
(* The texts the dissector shows (value names, field labels, the IEC 61850 *)
(* reading of a value) are left out.                                       *)
(***************************************************************************)
EXTENDS Integers, Sequences, TLC

\* Fields of a ber_sequence_t or ber_choice_t table: IMPLTAG, no IMPLTAG (the value is
\* inside the tag), NOOWNTAG with a universal tag, NOOWNTAG with any tag (a CHOICE).
\* NOTCHKTAG has no effect on a context-specific tag.
Field(how, tag, type) == [how |-> how, tag |-> tag, type |-> type, optional |-> FALSE]
Imp(n, type) == Field("implicit", 4 * n + 2, type)
Exp(n, type) == Field("explicit", 4 * n + 2, type)
Own(n, type) == Field("own", 4 * n, type)
AnyTag(type) == Field("own", -1, type)
Opt(f) == [f EXCEPT !.optional = TRUE]

\* Productions
Production(kind, fields, tag, sizes) ==
    [kind |-> kind, fields |-> fields, tag |-> tag, sizes |-> sizes]
Struct(fields) == Production("sequence", fields, 64, {})
Cho(fields) == Production("choice", fields, -1, {})
SeqOf(field) == Production("sequence_of", <<field>>, 64, {})
Prim(kind, n) == Production(kind, <<>>, 4 * n, {})
Sized(sizes) == Production("sized", <<>>, -1, sizes)
Same(type) == Production("same", <<[type |-> type]>>, -1, {})
-----------------------------------------------------------------------------
mms_ReportedOptFlds ==
    [ReportedOptFlds |-> Prim("bitstring", 3),
     Unsigned32 |-> Prim("integer", 2)]

mms_Identifier ==
    [Identifier |-> Prim("string", 26),
     ObjectName_domain_specific_itemid |-> Same("Identifier"),
     T_domain_specific |->
       Struct(<<Own(26, "Identifier"), Own(26, "ObjectName_domain_specific_itemid")>>),
     ObjectName |->
       Cho(<<Imp(0, "Identifier"), Imp(1, "T_domain_specific"), Imp(2, "Identifier")>>),
     Transitions |-> Prim("bitstring", 3),
     AttachToEventCondition |->
       Struct(<<Exp(0, "ObjectName"), Exp(1, "ObjectName"), Imp(2, "Transitions"),
                Opt(Imp(3, "Unsigned32"))>>),
     Unsigned8 |-> Prim("integer", 2)]

mms_Priority ==
    [Priority |-> Same("Unsigned8"),
     Boolean |-> Prim("boolean", 1),
     AttachToSemaphore |->
       Struct(<<Exp(0, "ObjectName"), Opt(Imp(1, "Identifier")), Opt(Imp(2, "Priority")),
                Opt(Imp(3, "Unsigned32")), Opt(Imp(4, "Unsigned32")), Opt(Imp(5, "Boolean")),
                Opt(Imp(6, "Boolean"))>>),
     Modifier |-> Cho(<<Imp(0, "AttachToEventCondition"), Imp(1, "AttachToSemaphore")>>),
     SEQUENCE_OF_Modifier |-> SeqOf(AnyTag("Modifier")),
     Status_Request |-> Prim("boolean", 1),
     ObjectClass |-> Prim("integer", 2),
     T_extendedObjectClass |-> Cho(<<Imp(0, "ObjectClass")>>),
     NULL |-> Prim("null", 5)]

mms_ObjectScope ==
    [ObjectScope |-> Cho(<<Imp(0, "NULL"), Imp(1, "Identifier"), Imp(2, "NULL")>>),
     GetNameList_Request |->
       Struct(<<Exp(0, "T_extendedObjectClass"), Exp(1, "ObjectScope"), Opt(Imp(2, "Identifier"))>>),
     Identify_Request |-> Prim("null", 5),
     T_objectClass |-> Prim("integer", 2),
     T_extendedObjectClass_01 |-> Cho(<<Imp(0, "T_objectClass")>>),
     Rename_Request |->
       Struct(<<Exp(0, "T_extendedObjectClass_01"), Exp(1, "ObjectName"), Imp(2, "Identifier")>>),
     VisibleString |-> Prim("string", 26),
     OCTET_STRING |-> Prim("octet_string", 4)]

mms_Address ==
    [Address |-> Cho(<<Imp(0, "Unsigned32"), Imp(1, "VisibleString"), Imp(2, "OCTET_STRING")>>),
     T_array |->
       Struct(<<Opt(Imp(0, "Boolean")), Imp(1, "Unsigned32"), Exp(2, "TypeSpecification")>>),
     T_components_item |-> Struct(<<Opt(Imp(0, "Identifier")), Exp(1, "TypeSpecification")>>),
     T_components |-> SeqOf(Own(16, "T_components_item")),
     T_structure |-> Struct(<<Opt(Imp(0, "Boolean")), Imp(1, "T_components")>>),
     Integer32 |-> Prim("integer", 2),
     TypeSpecification |->
       Cho(<<Exp(0, "ObjectName"), Imp(1, "T_array"), Imp(2, "T_structure"), Imp(3, "NULL"),
             Imp(4, "Integer32"), Imp(5, "Unsigned8"), Imp(6, "Unsigned8"), Imp(9, "Integer32"),
             Imp(10, "Integer32"), Imp(11, "NULL"), Imp(12, "Boolean"), Imp(13, "Unsigned8"),
             Imp(15, "NULL")>>)]

mms_T_variableDescription ==
    [T_variableDescription |-> Struct(<<AnyTag("Address"), AnyTag("TypeSpecification")>>),
     T_indexRange |-> Struct(<<Imp(0, "Unsigned32"), Imp(1, "Unsigned32")>>),
     T_accessSelection |->
       Cho(<<Imp(0, "Identifier"), Imp(1, "Unsigned32"), Imp(2, "T_indexRange"), Imp(3, "NULL")>>),
     T_selectAlternateAccess |->
       Struct(<<AnyTag("T_accessSelection"), Own(16, "AlternateAccess")>>),
     T_indexRange_01 |-> Struct(<<Imp(0, "Unsigned32"), Imp(1, "Unsigned32")>>),
     T_selectAccess |->
       Cho(<<Imp(1, "Identifier"), Imp(2, "Unsigned32"), Imp(3, "T_indexRange_01"), Imp(4, "NULL")>>),
     AlternateAccessSelection |->
       Cho(<<Imp(0, "T_selectAlternateAccess"), AnyTag("T_selectAccess")>>),
     T_named |-> Struct(<<Imp(0, "Identifier"), AnyTag("AlternateAccessSelection")>>)]

mms_AlternateAccess_item ==
    [AlternateAccess_item |-> Cho(<<AnyTag("AlternateAccessSelection"), Imp(5, "T_named")>>),
     AlternateAccess |-> SeqOf(AnyTag("AlternateAccess_item")),
     ScatteredAccessDescription_item |->
       Struct(<<Opt(Imp(0, "Identifier")), Exp(1, "VariableSpecification"),
                Opt(Imp(2, "AlternateAccess"))>>),
     ScatteredAccessDescription |-> SeqOf(Own(16, "ScatteredAccessDescription_item")),
     VariableSpecification |->
       Cho(<<Exp(0, "ObjectName"), Exp(1, "Address"), Imp(2, "T_variableDescription"),
             Imp(3, "ScatteredAccessDescription"), Imp(4, "NULL")>>),
     T_listOfVariable_item_02 |->
       Struct(<<AnyTag("VariableSpecification"), Opt(Imp(5, "AlternateAccess"))>>),
     T_listOfVariable_02 |-> SeqOf(Own(16, "T_listOfVariable_item_02")),
     VariableAccessSpecification |-> Cho(<<Imp(0, "T_listOfVariable_02"), Exp(1, "ObjectName")>>)]

mms_Read_Request ==
    [Read_Request |-> Struct(<<Opt(Imp(0, "Boolean")), Exp(1, "VariableAccessSpecification")>>),
     SEQUENCE_OF_Data |-> SeqOf(AnyTag("Data")),
     T_structure_01 |-> SeqOf(AnyTag("Data")),
     T_boolean |-> Prim("boolean", 1)]

mms_T_data_bit_string ==
    [T_data_bit_string |-> Prim("bitstring", 3),
     T_integer |-> Prim("integer", 2),
     T_unsigned |-> Prim("integer", 2)]

mms_FloatingPoint ==
    [FloatingPoint |-> Prim("octet_string", 4),
     REAL |-> Prim("real", 9),
     T_data_octet_string |-> Prim("octet_string", 4),
     T_data_visible_string |-> Prim("string", 26),
     TimeOfDay |-> Sized({4, 6}),
     T_data_binary_time |-> Same("TimeOfDay")]

mms_INTEGER ==
    [INTEGER |-> Prim("integer", 2),
     BIT_STRING |-> Prim("bitstring", 3),
     OBJECT_IDENTIFIER |-> Prim("oid", 6),
     MMSString |-> Prim("string", 12),
     UtcTime |-> Sized({8})]

mms_Data ==
    [Data |->
       Cho(<<Imp(1, "SEQUENCE_OF_Data"), Imp(2, "T_structure_01"), Imp(3, "T_boolean"),
             Imp(4, "T_data_bit_string"), Imp(5, "T_integer"), Imp(6, "T_unsigned"),
             Imp(7, "FloatingPoint"), Imp(8, "REAL"), Imp(9, "T_data_octet_string"),
             Imp(10, "T_data_visible_string"), Imp(12, "T_data_binary_time"), Imp(13, "INTEGER"),
             Imp(14, "BIT_STRING"), Imp(15, "OBJECT_IDENTIFIER"), Imp(16, "MMSString"),
             Imp(17, "UtcTime")>>),
     T_listOfData |-> SeqOf(AnyTag("Data")),
     Write_Request |-> Struct(<<AnyTag("VariableAccessSpecification"), Imp(0, "T_listOfData")>>),
     GetVariableAccessAttributes_Request |-> Cho(<<Exp(0, "ObjectName"), Exp(1, "Address")>>),
     DefineNamedVariable_Request |->
       Struct(<<Exp(0, "ObjectName"), Exp(1, "Address"), Opt(Exp(2, "TypeSpecification"))>>),
     DefineScatteredAccess_Request |->
       Struct(<<Exp(0, "ObjectName"), Imp(1, "ScatteredAccessDescription")>>)]

mms_GetScatteredAccessAttributes_Request ==
    [GetScatteredAccessAttributes_Request |-> Same("ObjectName"),
     T_scopeOfDelete |-> Prim("integer", 2),
     SEQUENCE_OF_ObjectName |-> SeqOf(AnyTag("ObjectName")),
     DeleteVariableAccess_Request |->
       Struct(<<Opt(Imp(0, "T_scopeOfDelete")), Opt(Imp(1, "SEQUENCE_OF_ObjectName")),
                Opt(Imp(2, "Identifier"))>>),
     T_listOfVariable_item |->
       Struct(<<AnyTag("VariableSpecification"), Opt(Imp(5, "AlternateAccess"))>>),
     T_listOfVariable |-> SeqOf(Own(16, "T_listOfVariable_item")),
     DefineNamedVariableList_Request |->
       Struct(<<AnyTag("ObjectName"), Imp(0, "T_listOfVariable")>>),
     GetNamedVariableListAttributes_Request |-> Same("ObjectName"),
     T_scopeOfDelete_01 |-> Prim("integer", 2),
     DeleteNamedVariableList_Request |->
       Struct(<<Opt(Imp(0, "T_scopeOfDelete_01")), Opt(Imp(1, "SEQUENCE_OF_ObjectName")),
                Opt(Imp(2, "Identifier"))>>)]

mms_DefineNamedType_Request ==
    [DefineNamedType_Request |-> Struct(<<AnyTag("ObjectName"), AnyTag("TypeSpecification")>>),
     GetNamedTypeAttributes_Request |-> Same("ObjectName"),
     T_scopeOfDelete_02 |-> Prim("integer", 2),
     DeleteNamedType_Request |->
       Struct(<<Opt(Imp(0, "T_scopeOfDelete_02")), Opt(Imp(1, "SEQUENCE_OF_ObjectName")),
                Opt(Imp(2, "Identifier"))>>),
     T_listOfPromptData |-> SeqOf(Own(26, "VisibleString")),
     Input_Request |->
       Struct(<<Imp(0, "Identifier"), Opt(Imp(1, "Boolean")), Opt(Imp(2, "T_listOfPromptData")),
                Opt(Imp(3, "Unsigned32"))>>),
     T_listOfOutputData |-> SeqOf(Own(26, "VisibleString")),
     Output_Request |-> Struct(<<Imp(0, "Identifier"), Imp(1, "T_listOfOutputData")>>),
     T_ap_title |-> Same("acse_AP_title"),
     T_ap_invocation_id |-> Same("acse_AP_invocation_identifier"),
     T_ae_qualifier |-> Same("acse_AE_qualifier")]

mms_T_ae_invocation_id ==
    [T_ae_invocation_id |-> Same("acse_AE_invocation_identifier"),
     ApplicationReference |->
       Struct(<<Opt(Exp(0, "T_ap_title")), Opt(Exp(1, "T_ap_invocation_id")),
                Opt(Exp(2, "T_ae_qualifier")), Opt(Exp(3, "T_ae_invocation_id"))>>),
     TakeControl_Request |->
       Struct(<<Exp(0, "ObjectName"), Opt(Imp(1, "Identifier")), Opt(Imp(2, "Priority")),
                Opt(Imp(3, "Unsigned32")), Opt(Imp(4, "Unsigned32")), Opt(Imp(5, "Boolean")),
                Opt(Imp(6, "Boolean")), Opt(Imp(7, "ApplicationReference"))>>),
     RelinquishControl_Request |-> Struct(<<Exp(0, "ObjectName"), Opt(Imp(1, "Identifier"))>>),
     Unsigned16 |-> Prim("integer", 2),
     DefineSemaphore_Request |-> Struct(<<Exp(0, "ObjectName"), Imp(1, "Unsigned16")>>),
     DeleteSemaphore_Request |-> Same("ObjectName"),
     ReportSemaphoreStatus_Request |-> Same("ObjectName"),
     ReportPoolSemaphoreStatus_Request |->
       Struct(<<Exp(0, "ObjectName"), Opt(Imp(1, "Identifier"))>>),
     T_reportSemaphoreEntryStatus_Request_state |-> Prim("integer", 2)]

mms_ReportSemaphoreEntryStatus_Request ==
    [ReportSemaphoreEntryStatus_Request |->
       Struct(<<Exp(0, "ObjectName"), Imp(1, "T_reportSemaphoreEntryStatus_Request_state"),
                Opt(Imp(2, "OCTET_STRING"))>>),
     T_listOfCapabilities_01 |-> SeqOf(Own(26, "VisibleString")),
     InitiateDownloadSequence_Request |->
       Struct(<<Imp(0, "Identifier"), Imp(1, "T_listOfCapabilities_01"), Imp(2, "Boolean")>>),
     DownloadSegment_Request |-> Same("Identifier"),
     T_vmd_state |-> Prim("integer", 2),
     T_application_reference |-> Prim("integer", 2),
     T_definition |-> Prim("integer", 2),
     T_resource |-> Prim("integer", 2)]

mms_T_service ==
    [T_service |-> Prim("integer", 2),
     T_service_preempt |-> Prim("integer", 2),
     T_time_resolution |-> Prim("integer", 2),
     T_access |-> Prim("integer", 2),
     T_initiate |-> Prim("integer", 2),
     T_conclude |-> Prim("integer", 2),
     T_cancel |-> Prim("integer", 2),
     T_file |-> Prim("integer", 2)]

mms_T_errorClass ==
    [T_errorClass |->
       Cho(<<Imp(0, "T_vmd_state"), Imp(1, "T_application_reference"), Imp(2, "T_definition"),
             Imp(3, "T_resource"), Imp(4, "T_service"), Imp(5, "T_service_preempt"),
             Imp(6, "T_time_resolution"), Imp(7, "T_access"), Imp(8, "T_initiate"),
             Imp(9, "T_conclude"), Imp(10, "T_cancel"), Imp(11, "T_file"), Imp(12, "INTEGER")>>),
     ObtainFile_Error |-> Prim("integer", 2),
     ProgramInvocationState |-> Prim("integer", 2),
     Start_Error |-> Same("ProgramInvocationState"),
     Stop_Error |-> Same("ProgramInvocationState"),
     Resume_Error |-> Same("ProgramInvocationState"),
     Reset_Error |-> Same("ProgramInvocationState"),
     DeleteVariableAccess_Error |-> Same("Unsigned32"),
     DeleteNamedVariableList_Error |-> Same("Unsigned32"),
     DeleteNamedType_Error |-> Same("Unsigned32")]

mms_DefineEventEnrollment_Error ==
    [DefineEventEnrollment_Error |-> Same("ObjectName"),
     FileRename_Error |-> Prim("integer", 2),
     DefineEventConditionList_Error |-> Same("ObjectName"),
     AddEventConditionListReference_Error |-> Same("ObjectName"),
     RemoveEventConditionListReference_Error |->
       Cho(<<Exp(0, "ObjectName"), Exp(1, "ObjectName")>>),
     InitiateUnitControl_Error |-> Cho(<<Imp(0, "Identifier"), Imp(1, "Identifier")>>),
     StartUnitControl_Error |-> Struct(<<Imp(0, "Identifier"), Imp(1, "ProgramInvocationState")>>),
     StopUnitControl_Error |-> Struct(<<Imp(0, "Identifier"), Imp(1, "ProgramInvocationState")>>),
     DeleteUnitControl_Error |-> Cho(<<Imp(0, "Identifier"), Imp(1, "Identifier")>>)]

mms_LoadUnitControlFromFile_Error ==
    [LoadUnitControlFromFile_Error |->
       Cho(<<Imp(0, "NULL"), Imp(1, "Identifier"), Imp(2, "Identifier")>>),
     AdditionalService_Error |->
       Cho(<<Exp(0, "DefineEventConditionList_Error"),
             Exp(1, "AddEventConditionListReference_Error"),
             Exp(2, "RemoveEventConditionListReference_Error"),
             Exp(3, "InitiateUnitControl_Error"), Imp(4, "StartUnitControl_Error"),
             Imp(5, "StopUnitControl_Error"), Exp(6, "DeleteUnitControl_Error"),
             Exp(7, "LoadUnitControlFromFile_Error")>>),
     ChangeAccessControl_Error |-> Same("Unsigned32"),
     T_serviceSpecificInformation |->
       Cho(<<Imp(0, "ObtainFile_Error"), Imp(1, "Start_Error"), Imp(2, "Stop_Error"),
             Imp(3, "Resume_Error"), Imp(4, "Reset_Error"), Imp(5, "DeleteVariableAccess_Error"),
             Imp(6, "DeleteNamedVariableList_Error"), Imp(7, "DeleteNamedType_Error"),
             Exp(8, "DefineEventEnrollment_Error"), Imp(9, "FileRename_Error"),
             Exp(10, "AdditionalService_Error"), Imp(11, "ChangeAccessControl_Error")>>),
     ServiceError |->
       Struct(<<Exp(0, "T_errorClass"), Opt(Imp(1, "INTEGER")), Opt(Imp(2, "VisibleString")),
                Opt(Exp(3, "T_serviceSpecificInformation"))>>),
     TerminateDownloadSequence_Request |->
       Struct(<<Imp(0, "Identifier"), Opt(Imp(1, "ServiceError"))>>),
     InitiateUploadSequence_Request |-> Same("Identifier")]

mms_UploadSegment_Request ==
    [UploadSegment_Request |-> Same("Integer32"),
     TerminateUploadSequence_Request |-> Same("Integer32"),
     T_listOfCapabilities_03 |-> SeqOf(Own(26, "VisibleString")),
     GraphicString |-> Prim("string", 25),
     FileName |-> SeqOf(Own(25, "GraphicString")),
     RequestDomainDownload_Request |->
       Struct(<<Imp(0, "Identifier"), Opt(Imp(1, "T_listOfCapabilities_03")), Imp(2, "Boolean"),
                Imp(4, "FileName")>>),
     RequestDomainUpload_Request |-> Struct(<<Imp(0, "Identifier"), Imp(1, "FileName")>>),
     T_listOfCapabilities_04 |-> SeqOf(Own(26, "VisibleString")),
     LoadDomainContent_Request |->
       Struct(<<Imp(0, "Identifier"), Opt(Imp(1, "T_listOfCapabilities_04")), Imp(2, "Boolean"),
                Imp(4, "FileName"), Opt(Imp(5, "ApplicationReference"))>>),
     StoreDomainContent_Request |->
       Struct(<<Imp(0, "Identifier"), Imp(1, "FileName"), Opt(Imp(2, "ApplicationReference"))>>),
     DeleteDomain_Request |-> Same("Identifier"),
     GetDomainAttributes_Request |-> Same("Identifier")]

mms_SEQUENCE_OF_Identifier ==
    [SEQUENCE_OF_Identifier |-> SeqOf(Own(26, "Identifier")),
     CreateProgramInvocation_Request |->
       Struct(<<Imp(0, "Identifier"), Imp(1, "SEQUENCE_OF_Identifier"), Opt(Imp(2, "Boolean")),
                Opt(Imp(3, "Boolean"))>>),
     DeleteProgramInvocation_Request |-> Same("Identifier"),
     T_executionArgument |-> Cho(<<Imp(1, "VisibleString"), Own(8, "acse_EXTERNALt")>>),
     Start_Request |-> Struct(<<Imp(0, "Identifier"), Opt(AnyTag("T_executionArgument"))>>),
     Stop_Request |-> Struct(<<Imp(0, "Identifier")>>),
     T_executionArgument_01 |-> Cho(<<Imp(1, "VisibleString"), Own(8, "acse_EXTERNALt")>>),
     Resume_Request |-> Struct(<<Imp(0, "Identifier"), Opt(AnyTag("T_executionArgument_01"))>>),
     Reset_Request |-> Struct(<<Imp(0, "Identifier")>>)]

mms_Kill_Request ==
    [Kill_Request |-> Struct(<<Imp(0, "Identifier")>>),
     GetProgramInvocationAttributes_Request |-> Same("Identifier"),
     ObtainFile_Request |->
       Struct(<<Opt(Imp(0, "ApplicationReference")), Imp(1, "FileName"), Imp(2, "FileName")>>),
     EC_Class |-> Prim("integer", 2),
     DefineEventCondition_Request |->
       Struct(<<Exp(0, "ObjectName"), Imp(1, "EC_Class"), Opt(Imp(2, "Priority")),
                Opt(Imp(3, "Unsigned8")), Opt(Imp(4, "Boolean")),
                Opt(Exp(6, "VariableSpecification")), Opt(Imp(7, "Unsigned32"))>>),
     DeleteEventCondition_Request |->
       Cho(<<Imp(0, "SEQUENCE_OF_ObjectName"), Imp(1, "NULL"), Imp(2, "Identifier"),
             Imp(3, "NULL")>>),
     GetEventConditionAttributes_Request |-> Same("ObjectName"),
     ReportEventConditionStatus_Request |-> Same("ObjectName"),
     AlterEventConditionMonitoring_Request |->
       Struct(<<Exp(0, "ObjectName"), Opt(Imp(1, "Boolean")), Opt(Imp(2, "Priority")),
                Opt(Imp(3, "Boolean")), Opt(Imp(4, "Unsigned32"))>>),
     TriggerEvent_Request |-> Struct(<<Exp(0, "ObjectName"), Opt(Imp(1, "Priority"))>>)]

mms_DefineEventAction_Request ==
    [DefineEventAction_Request |->
       Struct(<<Exp(0, "ObjectName"), Opt(Imp(1, "SEQUENCE_OF_Modifier"))>>),
     DeleteEventAction_Request |->
       Cho(<<Imp(0, "SEQUENCE_OF_ObjectName"), Imp(1, "NULL"), Imp(3, "Identifier"),
             Imp(4, "NULL")>>),
     GetEventActionAttributes_Request |-> Same("ObjectName"),
     ReportEventActionStatus_Request |-> Same("ObjectName"),
     AlarmAckRule |-> Prim("integer", 2),
     DefineEventEnrollment_Request |->
       Struct(<<Exp(0, "ObjectName"), Exp(1, "ObjectName"), Imp(2, "Transitions"),
                Imp(3, "AlarmAckRule"), Opt(Exp(4, "ObjectName")),
                Opt(Exp(5, "ApplicationReference"))>>),
     DeleteEventEnrollment_Request |->
       Cho(<<Imp(0, "SEQUENCE_OF_ObjectName"), Exp(1, "ObjectName"), Exp(2, "ObjectName")>>),
     AlterEventEnrollment_Request |->
       Struct(<<Exp(0, "ObjectName"), Opt(Imp(1, "Transitions")), Opt(Imp(2, "AlarmAckRule"))>>),
     ReportEventEnrollmentStatus_Request |-> Same("ObjectName")]

mms_T_scopeOfRequest ==
    [T_scopeOfRequest |-> Prim("integer", 2),
     GetEventEnrollmentAttributes_Request |->
       Struct(<<Opt(Imp(0, "T_scopeOfRequest")), Opt(Imp(1, "SEQUENCE_OF_ObjectName")),
                Opt(Exp(2, "ApplicationReference")), Opt(Exp(3, "ObjectName")),
                Opt(Exp(4, "ObjectName")), Opt(Exp(5, "ObjectName"))>>),
     EC_State |-> Prim("integer", 2),
     EventTime |-> Cho(<<Imp(0, "TimeOfDay"), Imp(1, "Unsigned32")>>),
     AcknowledgeEventNotification_Request |->
       Struct(<<Exp(0, "ObjectName"), Imp(2, "EC_State"), Exp(3, "EventTime")>>),
     T_acknowledgmentFilter |-> Prim("integer", 2),
     T_severityFilter |-> Struct(<<Imp(0, "Unsigned8"), Imp(1, "Unsigned8")>>),
     GetAlarmSummary_Request |->
       Struct(<<Opt(Imp(0, "Boolean")), Opt(Imp(1, "Boolean")),
                Opt(Imp(2, "T_acknowledgmentFilter")), Opt(Imp(3, "T_severityFilter")),
                Opt(Exp(5, "ObjectName"))>>)]

mms_T_acknowledgmentFilter_01 ==
    [T_acknowledgmentFilter_01 |-> Prim("integer", 2),
     T_severityFilter_01 |-> Struct(<<Imp(0, "Unsigned8"), Imp(1, "Unsigned8")>>),
     GetAlarmEnrollmentSummary_Request |->
       Struct(<<Opt(Imp(0, "Boolean")), Opt(Imp(1, "Boolean")),
                Opt(Imp(2, "T_acknowledgmentFilter_01")), Opt(Imp(3, "T_severityFilter_01")),
                Opt(Exp(5, "ObjectName"))>>),
     T_rangeStartSpecification |-> Cho(<<Imp(0, "TimeOfDay"), Imp(1, "OCTET_STRING")>>),
     T_rangeStopSpecification |-> Cho(<<Imp(0, "TimeOfDay"), Imp(1, "Integer32")>>),
     T_listOfVariables |-> SeqOf(Own(26, "VisibleString")),
     T_entryToStartAfter |-> Struct(<<Imp(0, "TimeOfDay"), Imp(1, "OCTET_STRING")>>),
     ReadJournal_Request |->
       Struct(<<Exp(0, "ObjectName"), Opt(Exp(1, "T_rangeStartSpecification")),
                Opt(Exp(2, "T_rangeStopSpecification")), Opt(Imp(4, "T_listOfVariables")),
                Imp(5, "T_entryToStartAfter")>>),
     JOU_Additional_Detail |-> Prim("null", 5)]

mms_T_event ==
    [T_event |-> Struct(<<Exp(0, "ObjectName"), Imp(1, "EC_State")>>),
     T_listOfVariables_item |-> Struct(<<Imp(0, "VisibleString"), Exp(1, "Data")>>),
     T_listOfVariables_01 |-> SeqOf(Own(16, "T_listOfVariables_item")),
     T_data |-> Struct(<<Opt(Imp(0, "T_event")), Opt(Imp(1, "T_listOfVariables_01"))>>),
     T_entryForm |-> Cho(<<Imp(2, "T_data"), Imp(3, "VisibleString")>>),
     EntryContent |->
       Struct(<<Imp(0, "TimeOfDay"), Opt(Exp(1, "JOU_Additional_Detail")), AnyTag("T_entryForm")>>),
     SEQUENCE_OF_EntryContent |-> SeqOf(Own(16, "EntryContent")),
     WriteJournal_Request |-> Struct(<<Exp(0, "ObjectName"), Imp(1, "SEQUENCE_OF_EntryContent")>>),
     T_limitSpecification |-> Struct(<<Imp(0, "TimeOfDay"), Opt(Imp(1, "OCTET_STRING"))>>)]

mms_InitializeJournal_Request ==
    [InitializeJournal_Request |->
       Struct(<<Exp(0, "ObjectName"), Opt(Imp(1, "T_limitSpecification"))>>),
     ReportJournalStatus_Request |-> Same("ObjectName"),
     CreateJournal_Request |-> Struct(<<Exp(0, "ObjectName")>>),
     DeleteJournal_Request |-> Struct(<<Exp(0, "ObjectName")>>),
     GetCapabilityList_Request |-> Struct(<<Opt(Own(26, "VisibleString"))>>),
     FileOpen_Request |-> Struct(<<Imp(0, "FileName"), Imp(1, "Unsigned32")>>),
     FileRead_Request |-> Same("Integer32"),
     FileClose_Request |-> Same("Integer32"),
     FileRename_Request |-> Struct(<<Imp(0, "FileName"), Imp(1, "FileName")>>),
     FileDelete_Request |-> Same("FileName"),
     FileDirectory_Request |-> Struct(<<Opt(Imp(0, "FileName")), Opt(Imp(1, "FileName"))>>)]

mms_ConfirmedServiceRequest ==
    [ConfirmedServiceRequest |->
       Cho(<<Imp(0, "Status_Request"), Imp(1, "GetNameList_Request"), Imp(2, "Identify_Request"),
             Imp(3, "Rename_Request"), Imp(4, "Read_Request"), Imp(5, "Write_Request"),
             Exp(6, "GetVariableAccessAttributes_Request"), Imp(7, "DefineNamedVariable_Request"),
             Imp(8, "DefineScatteredAccess_Request"),
             Imp(9, "GetScatteredAccessAttributes_Request"),
             Imp(10, "DeleteVariableAccess_Request"), Imp(11, "DefineNamedVariableList_Request"),
             Imp(12, "GetNamedVariableListAttributes_Request"),
             Imp(13, "DeleteNamedVariableList_Request"), Imp(14, "DefineNamedType_Request"),
             Imp(15, "GetNamedTypeAttributes_Request"), Imp(16, "DeleteNamedType_Request"),
             Imp(17, "Input_Request"), Imp(18, "Output_Request"), Imp(19, "TakeControl_Request"),
             Imp(20, "RelinquishControl_Request"), Imp(21, "DefineSemaphore_Request"),
             Imp(22, "DeleteSemaphore_Request"), Imp(23, "ReportSemaphoreStatus_Request"),
             Imp(24, "ReportPoolSemaphoreStatus_Request"),
             Imp(25, "ReportSemaphoreEntryStatus_Request"),
             Imp(26, "InitiateDownloadSequence_Request"), Imp(27, "DownloadSegment_Request"),
             Imp(28, "TerminateDownloadSequence_Request"),
             Imp(29, "InitiateUploadSequence_Request"), Imp(30, "UploadSegment_Request"),
             Imp(31, "TerminateUploadSequence_Request"), Imp(32, "RequestDomainDownload_Request"),
             Imp(33, "RequestDomainUpload_Request"), Imp(34, "LoadDomainContent_Request"),
             Imp(35, "StoreDomainContent_Request"), Imp(36, "DeleteDomain_Request"),
             Imp(37, "GetDomainAttributes_Request"), Imp(38, "CreateProgramInvocation_Request"),
             Imp(39, "DeleteProgramInvocation_Request"), Imp(40, "Start_Request"),
             Imp(41, "Stop_Request"), Imp(42, "Resume_Request"), Imp(43, "Reset_Request"),
             Imp(44, "Kill_Request"), Imp(45, "GetProgramInvocationAttributes_Request"),
             Imp(46, "ObtainFile_Request"), Imp(47, "DefineEventCondition_Request"),
             Exp(48, "DeleteEventCondition_Request"),
             Exp(49, "GetEventConditionAttributes_Request"),
             Exp(50, "ReportEventConditionStatus_Request"),
             Imp(51, "AlterEventConditionMonitoring_Request"), Imp(52, "TriggerEvent_Request"),
             Imp(53, "DefineEventAction_Request"), Exp(54, "DeleteEventAction_Request"),
             Exp(55, "GetEventActionAttributes_Request"),
             Exp(56, "ReportEventActionStatus_Request"), Imp(57, "DefineEventEnrollment_Request"),
             Exp(58, "DeleteEventEnrollment_Request"), Imp(59, "AlterEventEnrollment_Request"),
             Exp(60, "ReportEventEnrollmentStatus_Request"),
             Imp(61, "GetEventEnrollmentAttributes_Request"),
             Imp(62, "AcknowledgeEventNotification_Request"), Imp(63, "GetAlarmSummary_Request"),
             Imp(64, "GetAlarmEnrollmentSummary_Request"), Imp(65, "ReadJournal_Request"),
             Imp(66, "WriteJournal_Request"), Imp(67, "InitializeJournal_Request"),
             Imp(68, "ReportJournalStatus_Request"), Imp(69, "CreateJournal_Request"),
             Imp(70, "DeleteJournal_Request"), Imp(71, "GetCapabilityList_Request"),
             Imp(72, "FileOpen_Request"), Imp(73, "FileRead_Request"),
             Imp(74, "FileClose_Request"), Imp(75, "FileRename_Request"),
             Imp(76, "FileDelete_Request"), Imp(77, "FileDirectory_Request")>>)]

mms_CS_Request_Detail ==
    [CS_Request_Detail |-> Cho(<<Own(2, "INTEGER")>>),
     Confirmed_RequestPDU |->
       Struct(<<Own(2, "Unsigned32"), Opt(Own(16, "SEQUENCE_OF_Modifier")),
                AnyTag("ConfirmedServiceRequest"), Opt(Exp(79, "CS_Request_Detail"))>>),
     T_vmdLogicalStatus |-> Prim("integer", 2),
     T_vmdPhysicalStatus |-> Prim("integer", 2),
     BIT_STRING_SIZE_0_128 |-> Prim("bitstring", 3),
     Status_Response |->
       Struct(<<Imp(0, "T_vmdLogicalStatus"), Imp(1, "T_vmdPhysicalStatus"),
                Opt(Imp(2, "BIT_STRING_SIZE_0_128"))>>),
     GetNameList_Response |-> Struct(<<Imp(0, "SEQUENCE_OF_Identifier"), Opt(Imp(1, "Boolean"))>>),
     T_listOfAbstractSyntaxes |-> SeqOf(Own(6, "OBJECT_IDENTIFIER")),
     Identify_Response |->
       Struct(<<Imp(0, "VisibleString"), Imp(1, "VisibleString"), Imp(2, "VisibleString"),
                Opt(Imp(3, "T_listOfAbstractSyntaxes"))>>)]

mms_Rename_Response ==
    [Rename_Response |-> Prim("null", 5),
     DataAccessError |-> Prim("integer", 2),
     AccessResult |-> Cho(<<Imp(0, "DataAccessError"), AnyTag("Data")>>),
     SEQUENCE_OF_AccessResult |-> SeqOf(AnyTag("AccessResult"))]

mms_Read_Response ==
    [Read_Response |->
       Struct(<<Opt(Exp(0, "VariableAccessSpecification")), Imp(1, "SEQUENCE_OF_AccessResult")>>),
     Write_Response_item |-> Cho(<<Imp(0, "DataAccessError"), Imp(1, "NULL")>>),
     Write_Response |-> SeqOf(AnyTag("Write_Response_item")),
     GetVariableAccessAttributes_Response |->
       Struct(<<Imp(0, "Boolean"), Opt(Exp(1, "Address")), Exp(2, "TypeSpecification")>>),
     DefineNamedVariable_Response |-> Prim("null", 5),
     DefineScatteredAccess_Response |-> Prim("null", 5),
     GetScatteredAccessAttributes_Response |->
       Struct(<<Imp(0, "Boolean"), Imp(1, "ScatteredAccessDescription")>>),
     DeleteVariableAccess_Response |-> Struct(<<Imp(0, "Unsigned32"), Imp(1, "Unsigned32")>>),
     DefineNamedVariableList_Response |-> Prim("null", 5),
     T_listOfVariable_item_01 |->
       Struct(<<AnyTag("VariableSpecification"), Opt(Imp(5, "AlternateAccess"))>>),
     T_listOfVariable_01 |-> SeqOf(Own(16, "T_listOfVariable_item_01"))]

mms_GetNamedVariableListAttributes_Response ==
    [GetNamedVariableListAttributes_Response |->
       Struct(<<Imp(0, "Boolean"), Imp(1, "T_listOfVariable_01")>>),
     DeleteNamedVariableList_Response |-> Struct(<<Imp(0, "Unsigned32"), Imp(1, "Unsigned32")>>),
     DefineNamedType_Response |-> Prim("null", 5),
     GetNamedTypeAttributes_Response |->
       Struct(<<Imp(0, "Boolean"), AnyTag("TypeSpecification")>>),
     DeleteNamedType_Response |-> Struct(<<Imp(0, "Unsigned32"), Imp(1, "Unsigned32")>>),
     Input_Response |-> Prim("string", 26),
     Output_Response |-> Prim("null", 5),
     TakeControl_Response |-> Cho(<<Imp(0, "NULL"), Imp(1, "Identifier")>>),
     RelinquishControl_Response |-> Prim("null", 5),
     DefineSemaphore_Response |-> Prim("null", 5),
     DeleteSemaphore_Response |-> Prim("null", 5)]

mms_T_class ==
    [T_class |-> Prim("integer", 2),
     ReportSemaphoreStatus_Response |->
       Struct(<<Imp(0, "Boolean"), Imp(1, "T_class"), Imp(2, "Unsigned16"), Imp(3, "Unsigned16"),
                Imp(4, "Unsigned16")>>),
     T_listOfNamedTokens_item |->
       Cho(<<Imp(0, "Identifier"), Imp(1, "Identifier"), Imp(2, "Identifier")>>),
     T_listOfNamedTokens |-> SeqOf(AnyTag("T_listOfNamedTokens_item")),
     ReportPoolSemaphoreStatus_Response |->
       Struct(<<Imp(0, "T_listOfNamedTokens"), Opt(Imp(1, "Boolean"))>>),
     T_entryClass |-> Prim("integer", 2),
     SemaphoreEntry |->
       Struct(<<Imp(0, "OCTET_STRING"), Imp(1, "T_entryClass"), Exp(2, "ApplicationReference"),
                Opt(Imp(3, "Identifier")), Opt(Imp(4, "Priority")), Opt(Imp(5, "Unsigned32")),
                Opt(Imp(6, "Boolean")), Opt(Imp(7, "Boolean"))>>),
     SEQUENCE_OF_SemaphoreEntry |-> SeqOf(Own(16, "SemaphoreEntry")),
     ReportSemaphoreEntryStatus_Response |->
       Struct(<<Imp(0, "SEQUENCE_OF_SemaphoreEntry"), Opt(Imp(1, "Boolean"))>>)]

mms_InitiateDownloadSequence_Response ==
    [InitiateDownloadSequence_Response |-> Prim("null", 5),
     T_loadData |-> Cho(<<Imp(0, "OCTET_STRING"), Own(8, "acse_EXTERNALt")>>),
     DownloadSegment_Response |-> Struct(<<AnyTag("T_loadData"), Opt(Imp(1, "Boolean"))>>),
     TerminateDownloadSequence_Response |-> Prim("null", 5),
     T_listOfCapabilities_02 |-> SeqOf(Own(26, "VisibleString")),
     InitiateUploadSequence_Response |->
       Struct(<<Imp(0, "Integer32"), Imp(1, "T_listOfCapabilities_02")>>),
     T_loadData_01 |-> Cho(<<Imp(0, "OCTET_STRING"), Own(8, "acse_EXTERNALt")>>),
     UploadSegment_Response |-> Struct(<<AnyTag("T_loadData_01"), Opt(Imp(1, "Boolean"))>>),
     TerminateUploadSequence_Response |-> Prim("null", 5),
     RequestDomainDownload_Response |-> Prim("null", 5),
     RequestDomainUpload_Response |-> Prim("null", 5)]

mms_LoadDomainContent_Response ==
    [LoadDomainContent_Response |-> Prim("null", 5),
     StoreDomainContent_Response |-> Prim("null", 5),
     DeleteDomain_Response |-> Prim("null", 5),
     T_listOfCapabilities_05 |-> SeqOf(Own(26, "VisibleString")),
     DomainState |-> Prim("integer", 2),
     Integer8 |-> Prim("integer", 2),
     GetDomainAttributes_Response |->
       Struct(<<Imp(0, "T_listOfCapabilities_05"), Imp(1, "DomainState"), Imp(2, "Boolean"),
                Imp(3, "Boolean"), Imp(4, "SEQUENCE_OF_Identifier"), Imp(5, "Integer8")>>),
     CreateProgramInvocation_Response |-> Prim("null", 5),
     DeleteProgramInvocation_Response |-> Prim("null", 5),
     Start_Response |-> Prim("null", 5),
     Stop_Response |-> Prim("null", 5),
     Resume_Response |-> Prim("null", 5),
     Reset_Response |-> Prim("null", 5)]

mms_Kill_Response ==
    [Kill_Response |-> Prim("null", 5),
     T_executionArgument_02 |-> Cho(<<Imp(1, "VisibleString"), Own(8, "acse_EXTERNALt")>>),
     GetProgramInvocationAttributes_Response |->
       Struct(<<Imp(0, "ProgramInvocationState"), Imp(1, "SEQUENCE_OF_Identifier"),
                Imp(2, "Boolean"), Imp(3, "Boolean"), Imp(4, "Boolean"), Imp(5, "VisibleString"),
                Opt(AnyTag("T_executionArgument_02"))>>),
     ObtainFile_Response |-> Prim("null", 5),
     GeneralizedTime |-> Prim("time", 24),
     FileAttributes |-> Struct(<<Imp(0, "Unsigned32"), Opt(Imp(1, "GeneralizedTime"))>>),
     FileOpen_Response |-> Struct(<<Imp(0, "Integer32"), Imp(1, "FileAttributes")>>),
     DefineEventCondition_Response |-> Prim("null", 5),
     DeleteEventCondition_Response |-> Same("Unsigned32"),
     T_monitoredVariable |-> Cho(<<Exp(0, "VariableSpecification"), Imp(1, "NULL")>>)]

mms_GetEventConditionAttributes_Response ==
    [GetEventConditionAttributes_Response |->
       Struct(<<Opt(Imp(0, "Boolean")), Imp(1, "EC_Class"), Opt(Imp(2, "Priority")),
                Opt(Imp(3, "Unsigned8")), Opt(Imp(4, "Boolean")),
                Opt(Exp(6, "T_monitoredVariable")), Opt(Imp(7, "Unsigned32"))>>),
     ReportEventConditionStatus_Response |->
       Struct(<<Imp(0, "EC_State"), Imp(1, "Unsigned32"), Opt(Imp(2, "Boolean")),
                Opt(Exp(3, "EventTime")), Opt(Exp(4, "EventTime"))>>),
     AlterEventConditionMonitoring_Response |-> Prim("null", 5),
     TriggerEvent_Response |-> Prim("null", 5),
     DefineEventAction_Response |-> Prim("null", 5),
     DeleteEventAction_Response |-> Same("Unsigned32"),
     GetEventActionAttributes_Response |->
       Struct(<<Opt(Imp(0, "Boolean")), Imp(1, "SEQUENCE_OF_Modifier")>>),
     ReportEventActionStatus_Response |-> Same("Unsigned32"),
     DefineEventEnrollment_Response |-> Prim("null", 5),
     DeleteEventEnrollment_Response |-> Same("Unsigned32"),
     EE_State |-> Prim("integer", 2)]

mms_T_currentState ==
    [T_currentState |-> Cho(<<Imp(0, "EE_State"), Imp(1, "NULL")>>),
     AlterEventEnrollment_Response |-> Struct(<<Exp(0, "T_currentState"), Exp(1, "EventTime")>>),
     EE_Duration |-> Prim("integer", 2),
     ReportEventEnrollmentStatus_Response |->
       Struct(<<Imp(0, "Transitions"), Opt(Imp(1, "Boolean")), Imp(2, "EE_Duration"),
                Opt(Imp(3, "AlarmAckRule")), Imp(4, "EE_State")>>),
     T_eventConditionName |-> Cho(<<Exp(0, "ObjectName"), Imp(1, "NULL")>>),
     T_eventActionName |-> Cho(<<Exp(0, "ObjectName"), Imp(1, "NULL")>>),
     EE_Class |-> Prim("integer", 2)]

mms_EventEnrollment ==
    [EventEnrollment |->
       Struct(<<Exp(0, "ObjectName"), Exp(1, "T_eventConditionName"),
                Opt(Exp(2, "T_eventActionName")), Opt(Exp(3, "ApplicationReference")),
                Opt(Imp(4, "Boolean")), Imp(5, "EE_Class"), Opt(Imp(6, "EE_Duration")),
                Imp(7, "Unsigned32"), Opt(Imp(8, "Unsigned32"))>>),
     SEQUENCE_OF_EventEnrollment |-> SeqOf(Own(16, "EventEnrollment")),
     GetEventEnrollmentAttributes_Response |->
       Struct(<<Imp(0, "SEQUENCE_OF_EventEnrollment"), Opt(Imp(1, "Boolean"))>>),
     AcknowledgeEventNotification_Response |-> Prim("null", 5),
     T_unacknowledgedState |-> Prim("integer", 2),
     AlarmSummary |->
       Struct(<<Exp(0, "ObjectName"), Imp(1, "Unsigned8"), Imp(2, "EC_State"),
                Imp(3, "T_unacknowledgedState"), Opt(Exp(5, "EventTime")),
                Opt(Exp(6, "EventTime"))>>),
     SEQUENCE_OF_AlarmSummary |-> SeqOf(Own(16, "AlarmSummary")),
     GetAlarmSummary_Response |->
       Struct(<<Imp(0, "SEQUENCE_OF_AlarmSummary"), Opt(Imp(1, "Boolean"))>>),
     AlarmEnrollmentSummary |->
       Struct(<<Exp(0, "ObjectName"), Opt(Exp(2, "ApplicationReference")), Imp(3, "Unsigned8"),
                Imp(4, "EC_State"), Opt(Imp(6, "Boolean")), Opt(Imp(7, "AlarmAckRule")),
                Opt(Imp(8, "EE_State")), Opt(Exp(9, "EventTime")), Opt(Exp(10, "EventTime")),
                Opt(Exp(11, "EventTime")), Opt(Exp(12, "EventTime"))>>)]

mms_SEQUENCE_OF_AlarmEnrollmentSummary ==
    [SEQUENCE_OF_AlarmEnrollmentSummary |-> SeqOf(Own(16, "AlarmEnrollmentSummary")),
     GetAlarmEnrollmentSummary_Response |->
       Struct(<<Imp(0, "SEQUENCE_OF_AlarmEnrollmentSummary"), Opt(Imp(1, "Boolean"))>>),
     JournalEntry |->
       Struct(<<Imp(0, "OCTET_STRING"), Exp(1, "ApplicationReference"), Imp(2, "EntryContent")>>),
     SEQUENCE_OF_JournalEntry |-> SeqOf(Own(16, "JournalEntry")),
     ReadJournal_Response |->
       Struct(<<Imp(0, "SEQUENCE_OF_JournalEntry"), Opt(Imp(1, "Boolean"))>>),
     WriteJournal_Response |-> Prim("null", 5),
     InitializeJournal_Response |-> Same("Unsigned32"),
     ReportJournalStatus_Response |-> Struct(<<Imp(0, "Unsigned32"), Imp(1, "Boolean")>>),
     CreateJournal_Response |-> Prim("null", 5),
     DeleteJournal_Response |-> Prim("null", 5),
     T_listOfCapabilities |-> SeqOf(Own(26, "VisibleString")),
     GetCapabilityList_Response |->
       Struct(<<Imp(0, "T_listOfCapabilities"), Opt(Imp(1, "Boolean"))>>)]

mms_FileRead_Response ==
    [FileRead_Response |-> Struct(<<Imp(0, "OCTET_STRING"), Opt(Imp(1, "Boolean"))>>),
     FileClose_Response |-> Prim("null", 5),
     FileRename_Response |-> Prim("null", 5),
     FileDelete_Response |-> Prim("null", 5),
     DirectoryEntry |-> Struct(<<Imp(0, "FileName"), Imp(1, "FileAttributes")>>),
     SEQUENCE_OF_DirectoryEntry |-> SeqOf(Own(16, "DirectoryEntry")),
     FileDirectory_Response |->
       Struct(<<Exp(0, "SEQUENCE_OF_DirectoryEntry"), Opt(Imp(1, "Boolean"))>>)]

mms_ConfirmedServiceResponse ==
    [ConfirmedServiceResponse |->
       Cho(<<Imp(0, "Status_Response"), Imp(1, "GetNameList_Response"),
             Imp(2, "Identify_Response"), Imp(3, "Rename_Response"), Imp(4, "Read_Response"),
             Imp(5, "Write_Response"), Imp(6, "GetVariableAccessAttributes_Response"),
             Imp(7, "DefineNamedVariable_Response"), Imp(8, "DefineScatteredAccess_Response"),
             Imp(9, "GetScatteredAccessAttributes_Response"),
             Imp(10, "DeleteVariableAccess_Response"),
             Imp(11, "DefineNamedVariableList_Response"),
             Imp(12, "GetNamedVariableListAttributes_Response"),
             Imp(13, "DeleteNamedVariableList_Response"), Imp(14, "DefineNamedType_Response"),
             Imp(15, "GetNamedTypeAttributes_Response"), Imp(16, "DeleteNamedType_Response"),
             Imp(17, "Input_Response"), Imp(18, "Output_Response"),
             Exp(19, "TakeControl_Response"), Imp(20, "RelinquishControl_Response"),
             Imp(21, "DefineSemaphore_Response"), Imp(22, "DeleteSemaphore_Response"),
             Imp(23, "ReportSemaphoreStatus_Response"),
             Imp(24, "ReportPoolSemaphoreStatus_Response"),
             Imp(25, "ReportSemaphoreEntryStatus_Response"),
             Imp(26, "InitiateDownloadSequence_Response"), Imp(27, "DownloadSegment_Response"),
             Imp(28, "TerminateDownloadSequence_Response"),
             Imp(29, "InitiateUploadSequence_Response"), Imp(30, "UploadSegment_Response"),
             Imp(31, "TerminateUploadSequence_Response"),
             Imp(32, "RequestDomainDownload_Response"), Imp(33, "RequestDomainUpload_Response"),
             Imp(34, "LoadDomainContent_Response"), Imp(35, "StoreDomainContent_Response"),
             Imp(36, "DeleteDomain_Response"), Imp(37, "GetDomainAttributes_Response"),
             Imp(38, "CreateProgramInvocation_Response"),
             Imp(39, "DeleteProgramInvocation_Response"), Imp(40, "Start_Response"),
             Imp(41, "Stop_Response"), Imp(42, "Resume_Response"), Imp(43, "Reset_Response"),
             Imp(44, "Kill_Response"), Imp(45, "GetProgramInvocationAttributes_Response"),
             Imp(46, "ObtainFile_Response"), Imp(72, "FileOpen_Response"),
             Imp(47, "DefineEventCondition_Response"), Imp(48, "DeleteEventCondition_Response"),
             Imp(49, "GetEventConditionAttributes_Response"),
             Imp(50, "ReportEventConditionStatus_Response"),
             Imp(51, "AlterEventConditionMonitoring_Response"), Imp(52, "TriggerEvent_Response"),
             Imp(53, "DefineEventAction_Response"), Imp(54, "DeleteEventAction_Response"),
             Imp(55, "GetEventActionAttributes_Response"),
             Imp(56, "ReportEventActionStatus_Response"),
             Imp(57, "DefineEventEnrollment_Response"), Imp(58, "DeleteEventEnrollment_Response"),
             Imp(59, "AlterEventEnrollment_Response"),
             Imp(60, "ReportEventEnrollmentStatus_Response"),
             Imp(61, "GetEventEnrollmentAttributes_Response"),
             Imp(62, "AcknowledgeEventNotification_Response"),
             Imp(63, "GetAlarmSummary_Response"), Imp(64, "GetAlarmEnrollmentSummary_Response"),
             Imp(65, "ReadJournal_Response"), Imp(66, "WriteJournal_Response"),
             Imp(67, "InitializeJournal_Response"), Imp(68, "ReportJournalStatus_Response"),
             Imp(69, "CreateJournal_Response"), Imp(70, "DeleteJournal_Response"),
             Imp(71, "GetCapabilityList_Response"), Imp(73, "FileRead_Response"),
             Imp(74, "FileClose_Response"), Imp(75, "FileRename_Response"),
             Imp(76, "FileDelete_Response"), Imp(77, "FileDirectory_Response")>>)]

mms_Confirmed_ResponsePDU ==
    [Confirmed_ResponsePDU |->
       Struct(<<Own(2, "Unsigned32"), AnyTag("ConfirmedServiceResponse"),
                Opt(Exp(79, "CS_Request_Detail"))>>),
     Confirmed_ErrorPDU |->
       Struct(<<Imp(0, "Unsigned32"), Opt(Imp(1, "Unsigned32")), Imp(2, "ServiceError")>>),
     T_listOfAccessResult |-> SeqOf(AnyTag("AccessResult")),
     InformationReport |->
       Struct(<<AnyTag("VariableAccessSpecification"), Imp(0, "T_listOfAccessResult")>>),
     UnsolicitedStatus |-> Same("Status_Response"),
     T_eventConditionName_01 |-> Cho(<<Exp(0, "ObjectName"), Imp(1, "NULL")>>),
     T_eventActionResult |-> Cho(<<Exp(0, "ConfirmedServiceResponse"), Imp(1, "ServiceError")>>),
     T_actionResult |-> Struct(<<AnyTag("ObjectName"), AnyTag("T_eventActionResult")>>)]

mms_EventNotification ==
    [EventNotification |->
       Struct(<<Exp(0, "ObjectName"), Exp(1, "T_eventConditionName_01"), Imp(2, "Unsigned8"),
                Opt(Imp(3, "EC_State")), Exp(4, "EventTime"), Opt(Imp(6, "Boolean")),
                Opt(Imp(7, "AlarmAckRule")), Opt(Imp(8, "T_actionResult"))>>),
     UnconfirmedService |->
       Cho(<<Imp(0, "InformationReport"), Imp(1, "UnsolicitedStatus"), Imp(2, "EventNotification")>>),
     Unconfirmed_PDU |->
       Struct(<<AnyTag("UnconfirmedService"), Opt(Exp(79, "CS_Request_Detail"))>>),
     T_confirmed_requestPDU |-> Prim("integer", 2),
     T_confirmed_responsePDU |-> Prim("integer", 2),
     T_confirmed_errorPDU |-> Prim("integer", 2)]

mms_T_unconfirmedPDU ==
    [T_unconfirmedPDU |-> Prim("integer", 2),
     T_pdu_error |-> Prim("integer", 2),
     T_cancel_requestPDU |-> Prim("integer", 2),
     T_cancel_responsePDU |-> Prim("integer", 2),
     T_cancel_errorPDU |-> Prim("integer", 2),
     T_conclude_requestPDU |-> Prim("integer", 2),
     T_conclude_responsePDU |-> Prim("integer", 2),
     T_conclude_errorPDU |-> Prim("integer", 2)]

mms_T_rejectReason ==
    [T_rejectReason |->
       Cho(<<Imp(1, "T_confirmed_requestPDU"), Imp(2, "T_confirmed_responsePDU"),
             Imp(3, "T_confirmed_errorPDU"), Imp(4, "T_unconfirmedPDU"), Imp(5, "T_pdu_error"),
             Imp(6, "T_cancel_requestPDU"), Imp(7, "T_cancel_responsePDU"),
             Imp(8, "T_cancel_errorPDU"), Imp(9, "T_conclude_requestPDU"),
             Imp(10, "T_conclude_responsePDU"), Imp(11, "T_conclude_errorPDU")>>),
     RejectPDU |-> Struct(<<Opt(Imp(0, "Unsigned32")), AnyTag("T_rejectReason")>>),
     Cancel_RequestPDU |-> Same("Unsigned32"),
     Cancel_ResponsePDU |-> Same("Unsigned32"),
     Cancel_ErrorPDU |-> Struct(<<Imp(0, "Unsigned32"), Imp(1, "ServiceError")>>),
     Integer16 |-> Prim("integer", 2),
     ParameterSupportOptions |-> Prim("bitstring", 3)]

mms_ServiceSupportOptions ==
    [ServiceSupportOptions |-> Prim("bitstring", 3),
     InitRequestDetail |->
       Struct(<<Imp(0, "Integer16"), Imp(1, "ParameterSupportOptions"),
                Imp(2, "ServiceSupportOptions")>>),
     Initiate_RequestPDU |->
       Struct(<<Opt(Imp(0, "Integer32")), Imp(1, "Integer16"), Imp(2, "Integer16"),
                Opt(Imp(3, "Integer8")), Imp(4, "InitRequestDetail")>>)]

mms_InitResponseDetail ==
    [InitResponseDetail |->
       Struct(<<Imp(0, "Integer16"), Imp(1, "ParameterSupportOptions"),
                Imp(2, "ServiceSupportOptions")>>),
     Initiate_ResponsePDU |->
       Struct(<<Opt(Imp(0, "Integer32")), Imp(1, "Integer16"), Imp(2, "Integer16"),
                Opt(Imp(3, "Integer8")), Imp(4, "InitResponseDetail")>>),
     Initiate_ErrorPDU |-> Same("ServiceError"),
     Conclude_RequestPDU |-> Prim("null", 5),
     Conclude_ResponsePDU |-> Prim("null", 5),
     Conclude_ErrorPDU |-> Same("ServiceError")]

mms_MMSpdu ==
    [MMSpdu |->
       Cho(<<Imp(0, "Confirmed_RequestPDU"), Imp(1, "Confirmed_ResponsePDU"),
             Imp(2, "Confirmed_ErrorPDU"), Imp(3, "Unconfirmed_PDU"), Imp(4, "RejectPDU"),
             Imp(5, "Cancel_RequestPDU"), Imp(6, "Cancel_ResponsePDU"), Imp(7, "Cancel_ErrorPDU"),
             Imp(8, "Initiate_RequestPDU"), Imp(9, "Initiate_ResponsePDU"),
             Imp(10, "Initiate_ErrorPDU"), Imp(11, "Conclude_RequestPDU"),
             Imp(12, "Conclude_ResponsePDU"), Imp(13, "Conclude_ErrorPDU")>>)]

WiresharkGrammar ==
    mms_ReportedOptFlds @@ mms_Identifier @@ mms_Priority @@ mms_ObjectScope @@
    mms_Address @@ mms_T_variableDescription @@ mms_AlternateAccess_item @@
    mms_Read_Request @@ mms_T_data_bit_string @@ mms_FloatingPoint @@ mms_INTEGER @@
    mms_Data @@ mms_GetScatteredAccessAttributes_Request @@ mms_DefineNamedType_Request @@
    mms_T_ae_invocation_id @@ mms_ReportSemaphoreEntryStatus_Request @@ mms_T_service @@
    mms_T_errorClass @@ mms_DefineEventEnrollment_Error @@ mms_LoadUnitControlFromFile_Error @@
    mms_UploadSegment_Request @@ mms_SEQUENCE_OF_Identifier @@ mms_Kill_Request @@
    mms_DefineEventAction_Request @@ mms_T_scopeOfRequest @@ mms_T_acknowledgmentFilter_01 @@
    mms_T_event @@ mms_InitializeJournal_Request @@ mms_ConfirmedServiceRequest @@
    mms_CS_Request_Detail @@ mms_Rename_Response @@ mms_Read_Response @@
    mms_GetNamedVariableListAttributes_Response @@ mms_T_class @@
    mms_InitiateDownloadSequence_Response @@ mms_LoadDomainContent_Response @@
    mms_Kill_Response @@ mms_GetEventConditionAttributes_Response @@ mms_T_currentState @@
    mms_EventEnrollment @@ mms_SEQUENCE_OF_AlarmEnrollmentSummary @@ mms_FileRead_Response @@
    mms_ConfirmedServiceResponse @@ mms_Confirmed_ResponsePDU @@ mms_EventNotification @@
    mms_T_unconfirmedPDU @@ mms_T_rejectReason @@ mms_ServiceSupportOptions @@
    mms_InitResponseDetail @@ mms_MMSpdu
=============================================================================
