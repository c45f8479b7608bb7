---------------------------- MODULE MmsReports ----------------------------
(***************************************************************************)
(* Reports (mms_information_report.c): the values of variables, or of a    *)
(* list of the device, sent without a request.  A report that is too large *)
(* is not sent.                                                            *)
(***************************************************************************)
EXTENDS MmsDevice

Sized_Mutant(size) == 2 + size
Sized(size) == 1 + BerEncoder_determineLengthSize(size) + size

\* specSize is what is announced for the description of the variables, spec what is written.
InformationReport(device, specTag, specSize, spec, values) ==
    LET results == Total(EncodedSize, values)
        content == Sized(specSize) + Sized(results)
    IN  IF Sized(Sized(content)) > device.agreed.maxPduSize THEN NoResponse
        ELSE BerEncoder_encodeTL(163, Sized(content)) \o BerEncoder_encodeTL(160, content)
                 \o BerEncoder_encodeTL(specTag, specSize) \o spec \o BerEncoder_encodeTL(160, results)
                 \o FlattenSeq([i \in DOMAIN values |-> MmsValue_encodeMmsData(values[i])])

MmsServerConnection_sendInformationReportSingleVariableVMDSpecific(device, item, value) ==
    LET name == BerEncoder_encodeStringWithTag(128, item)
        varSpecSize == Sized(Len(item))
    IN  InformationReport(device, 160, Sized(Sized(varSpecSize)),
            BerEncoder_encodeTL(48, Sized(varSpecSize)) \o BerEncoder_encodeTL(160, varSpecSize) \o name, <<value>>)

MmsServerConnection_sendInformationReportVMDSpecific(device, item, values) ==
    LET name == BerEncoder_encodeStringWithTag(128, item)
    IN  InformationReport(device, 161, BerEncoder_determineEncodedStringSize(item), name, values)

\* What is announced for the list counts a tag and a length that are not written, and does not
\* count the ones around a name in a domain: the two even out when there is one such name.
MmsServerConnection_sendInformationReportListOfVariables(device, variables, values) ==
    LET NamesSize(v) == BerEncoder_determineEncodedStringSize(v.item)
                            + (IF v.domain = NULL THEN 0 ELSE BerEncoder_determineEncodedStringSize(v.domain))
        Announced(v) == Sized(Sized(NamesSize(v)))
        InDomain(v) == BerEncoder_encodeTL(161, NamesSize(v)) \o BerEncoder_encodeStringWithTag(26, v.domain)
                           \o BerEncoder_encodeStringWithTag(26, v.item)
        Written(v) ==
            IF v.domain = NULL
            THEN BerEncoder_encodeTL(48, Sized(NamesSize(v))) \o BerEncoder_encodeTL(160, NamesSize(v))
                     \o BerEncoder_encodeStringWithTag(128, v.item)
            ELSE BerEncoder_encodeTL(48, Sized(Sized(NamesSize(v))))
                     \o BerEncoder_encodeTL(160, Sized(NamesSize(v))) \o InDomain(v)
    IN  InformationReport(device, 160, Sized(Total(Announced, variables)),
            FlattenSeq([i \in DOMAIN variables |-> Written(variables[i])]), values)

ReportOf(device, r) ==
    CASE r.op = "reportVariable" ->
           MmsServerConnection_sendInformationReportSingleVariableVMDSpecific(device, r.item, r.values[1])
      [] r.op = "reportList" -> MmsServerConnection_sendInformationReportVMDSpecific(device, r.item, r.values)
      [] r.op = "reportVariables" ->
           MmsServerConnection_sendInformationReportListOfVariables(device, r.items, r.values)
=============================================================================
