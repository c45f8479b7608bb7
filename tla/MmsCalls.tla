------------------------------ MODULE MmsCalls ------------------------------
(***************************************************************************)
(* The calls of the C library's client, and the message each of them sends *)
(* (mms_client_connection.c).                                              *)
(***************************************************************************)
EXTENDS MmsRequests

CONSTANT MaxOutstanding         \* CONFIG_DEFAULT_MAX_SERV_OUTSTANDING_*

(***************************************************************************)
(* The message of a call.  id is the invoke id; a call for names asks for  *)
(* the next page behind the last name it has.                              *)
(***************************************************************************)
NameListRequest(c, id, last) ==
    CASE c.op = "associationLists" -> mmsClient_createMmsGetNameListRequestAssociationSpecific(id, last)
      [] c.op = "domain" -> mmsClient_createMmsGetNameListRequestVMDspecific(id, last)
      [] OTHER -> mmsClient_createGetNameListRequestDomainOrVMDSpecific(id, c.domain, c.op, last)

ReadRequest(c, id) ==
    CASE c.op = "read" -> mmsClient_createReadRequest(id, c.domain, c.item)
      [] c.op = "readComponent" -> mmsClient_createReadRequestComponent(id, c.domain, c.item, c.component)
      [] c.op = "readElement" -> mmsClient_createReadRequestAlternateAccessIndex(id, c.domain, c.item, c.index, 0)
      [] c.op = "readElements" ->
           mmsClient_createReadRequestAlternateAccessIndex(id, c.domain, c.item, c.index, Len(c.items))
      [] c.op = "readElementComponent" ->
           mmsClient_createReadRequestAlternateAccessSingleIndexComponent(id, c.domain, c.item, c.index, c.component)
      [] c.op = "readMultiple" -> mmsClient_createReadRequestMultipleValues(id, c.domain, c.items)
      [] c.op = "readList" -> mmsClient_createReadNamedVariableListRequest(id, c.domain, c.item, c.index = 1)
      [] c.op = "readAssociationList" ->
           mmsClient_createReadAssociationSpecificNamedVariableListRequest(id, c.item, FALSE)

WriteRequest(c, id) ==
    CASE c.op = "write" -> mmsClient_createWriteRequest(id, c.domain, c.item, c.values[1])
      [] c.op = "writeComponent" ->
           mmsClient_createWriteRequestComponent(id, c.domain, c.item, c.component, c.values[1])
      [] c.op = "writeElement" ->
           mmsClient_createWriteRequestArray(id, c.domain, c.item, c.index, 0, c.values[1])
      [] c.op = "writeElements" ->
           mmsClient_createWriteRequestArray(id, c.domain, c.item, c.index, Len(c.items), c.values[1])
      [] c.op = "writeElementComponent" ->
           mmsClient_createWriteRequestAlternateAccessSingleIndexComponent(id, c.domain, c.item, c.index,
                                                                           c.component, c.values[1])
      [] c.op = "writeMultiple" -> mmsClient_createWriteMultipleItemsRequest(id, c.domain, c.items, c.values)
      [] c.op = "writeList" ->
           mmsClient_createWriteRequestNamedVariableList(id, FALSE, c.domain, c.item, c.values)

ListRequest(c, id) ==
    CASE c.op = "define" -> mmsClient_createDefineNamedVariableListRequest(id, c.domain, c.item, c.items, FALSE)
      [] c.op = "defineForAssociation" ->
           mmsClient_createDefineNamedVariableListRequest(id, NULL, c.item, c.items, TRUE)
      [] c.op = "delete" -> mmsClient_createDeleteNamedVariableListRequest(id, c.domain, c.item)
      [] c.op = "deleteOfAssociation" ->
           mmsClient_createDeleteAssociationSpecificNamedVariableListRequest(id, c.item)
      [] c.op = "directory" -> mmsClient_createGetNamedVariableListAttributesRequest(id, c.domain, c.item)
      [] c.op = "associationDirectory" ->
           mmsClient_createGetNamedVariableListAttributesRequestAssociationSpecific(id, c.item)

\* Services this server has not enabled
OtherRequest(c, id) ==
    CASE c.op = "fileOpen" -> mmsClient_createFileOpenRequest(id, c.item, c.index)
      [] c.op = "fileRead" -> mmsClient_createFileReadRequest(id, c.index)
      [] c.op = "fileClose" -> mmsClient_createFileCloseRequest(id, c.index)
      [] c.op = "fileDelete" -> mmsClient_createFileDeleteRequest(id, c.item)
      [] c.op = "fileRename" -> mmsClient_createFileRenameRequest(id, c.item, c.component)
      [] c.op = "obtainFile" -> mmsClient_createObtainFileRequest(id, c.item, c.component)
      [] c.op = "fileDirectory" -> mmsClient_createFileDirectoryRequest(id, c.item, c.component)
      [] c.op = "journalRange" ->
           mmsClient_createReadJournalRequestWithTimeRange(id, c.domain, c.item, c.items[1], c.items[2])
      [] c.op = "journalAfter" ->
           mmsClient_createReadJournalRequestStartAfter(id, c.domain, c.item, c.items[1], c.items[2])

Request(c, id, last) ==
    CASE c.op = "initiate" -> mmsClient_createInitiateRequest(c.index, MaxOutstanding, MaxOutstanding)
      [] c.op = "conclude" -> mmsClient_createConcludeRequest
      [] c.op = "identify" -> mmsClient_createIdentifyRequest(id)
      [] c.op = "status" -> mmsClient_createStatusRequest(id, c.index = 1)
      [] c.op = "type" -> mmsClient_createGetVariableAccessAttributesRequest(id, c.domain, c.item)
      [] c.op \in NameOps -> NameListRequest(c, id, last)
      [] c.op \in ReadOps \cup ReadManyOps -> ReadRequest(c, id)
      [] c.op \in WriteOps \cup WriteManyOps -> WriteRequest(c, id)
      [] c.op \in DefineOps \cup DeleteOps \cup DirectoryOps -> ListRequest(c, id)
      [] OTHER -> OtherRequest(c, id)
=============================================================================
