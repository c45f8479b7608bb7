--------------------------- MODULE MmsConnection ---------------------------
(***************************************************************************)
(* The C client (mms_client_connection.c over iso_client_connection.c).    *)
(* One connection object is used by three kinds of threads:                *)
(*   - the connection thread, which runs handleConnection over and over;   *)
(*   - callers, each blocked in a synchronous service until the handler    *)
(*     of its request posts its semaphore;                                 *)
(*   - the owner, who connects, concludes, aborts and closes.              *)
(* They share the transmit buffer (a semaphore taken by whoever builds a   *)
(* message), the table of outstanding calls, and the connection's states.  *)
(***************************************************************************)
EXTENDS Integers, FiniteSets, Sequences

CONSTANTS Callers,      \* the application's threads that call services
          Used,         \* the services they call
          Slots,        \* maxOutstandingCalled: the size of the table of outstanding calls
          MaxCalls,     \* bound: a caller with this many requests makes no new call,
          MaxRequests,  \* bound: and with this many asks for no further part of a list
          MaxConnects   \* bound: the times the owner connects

ASSUME CallersAssumption == {"owner", "association", "none"} \cap Callers = {}
ASSUME BoundsAssumption == {Slots, MaxCalls, MaxRequests, MaxConnects} \subseteq Nat

VARIABLES
    conn,       \* connectionState of the MmsConnection
    iso,        \* state of the IsoClientConnection
    int,        \* intState of the IsoClientConnection
    tick,       \* who runs handleConnection (tickMutex), where it is, and its nextState
    buffer,     \* count of transmitBufferMutex
    table,      \* outstandingCalls
    nextId,     \* lastInvokeId + 1
    sent,       \* the invoke IDs of the requests that reached the server
    call,       \* the callers: where each is, and the parameters of its handler
    owner,      \* the owner: where it is, its semaphore, how often it has connected
    conclude,   \* concludeHandler, concludeHandlerParameter and whether the timeout passed
    broken      \* history: what no later step repairs: the transmit buffer was not
                \* released ("buffer"), a handler ran without its parameter ("parameter")

vars == <<conn, iso, int, tick, buffer, table, nextId, sent, call, owner, conclude, broken>>

Unused == [used |-> FALSE, id |-> 0, caller |-> "none", service |-> [parses |-> "none"], due |-> FALSE]

Out == [by |-> "none", at |-> "out", slot |-> 0, next |-> "IDLE"]

Connecting == {"TCP_CONNECTING", "WAIT_FOR_COTP_CONNECT_RESP", "WAIT_FOR_ACSE_RESP"}
IntStates == Connecting \cup {"IDLE", "WAIT_FOR_DATA_MSG", "CLOSE_ON_ERROR",
                              "CLOSING_CONNECTION", "ERROR"}

-----------------------------------------------------------------------------
(* The services.  What tells them apart here: what the answer is parsed    *)
(* for, whether the arguments are refused before the transmit buffer is    *)
(* taken, whether a request too long for the buffer is noticed, and        *)
(* whether the call goes on with a request for the rest of a list.         *)

Service(parses) == [parses |-> parses, checked |-> FALSE, measured |-> FALSE, pages |-> FALSE]

MmsConnection_readVariable == Service("value")
MmsConnection_readVariableComponent == Service("value")
MmsConnection_readArrayElements == Service("value")
MmsConnection_readSingleArrayElementWithComponent == Service("value")
MmsConnection_readMultipleVariables == [Service("value") EXCEPT !.measured = TRUE]
MmsConnection_readNamedVariableListValues == Service("value")
MmsConnection_readNamedVariableListValuesAssociationSpecific == Service("value")
MmsConnection_readNamedVariableListDirectory == Service("value")
MmsConnection_readNamedVariableListDirectoryAssociationSpecific == Service("value")
MmsConnection_defineNamedVariableList == Service("value")
MmsConnection_defineNamedVariableListAssociationSpecific == Service("value")
MmsConnection_deleteNamedVariableList == Service("counts")
MmsConnection_deleteAssociationSpecificNamedVariableList == Service("counts")
MmsConnection_getVariableAccessAttributes == Service("value")
MmsConnection_identify == Service("value")
MmsConnection_getServerStatus == Service("value")
MmsConnection_readJournalTimeRange == [Service("value") EXCEPT !.checked = TRUE]
MmsConnection_readJournalStartAfter == [Service("value") EXCEPT !.checked = TRUE]
MmsConnection_fileOpen == Service("value")
MmsConnection_fileClose == Service("nothing")
MmsConnection_fileDelete == Service("nothing")
MmsConnection_fileRead == Service("value")
MmsConnection_getFileDirectory == Service("value")
MmsConnection_fileRename == Service("nothing")
MmsConnection_obtainFile == Service("nothing")
MmsConnection_writeVariable == Service("value")
MmsConnection_writeSingleArrayElementWithComponent == Service("value")
MmsConnection_writeVariableComponent == Service("value")
MmsConnection_writeMultipleVariables == [Service("value") EXCEPT !.measured = TRUE]
MmsConnection_writeArrayElements == Service("value")
MmsConnection_writeNamedVariableList == Service("value")
mmsClient_getNameList == [Service("value") EXCEPT !.pages = TRUE]

Services ==
    {MmsConnection_readVariable, MmsConnection_readVariableComponent,
     MmsConnection_readArrayElements, MmsConnection_readSingleArrayElementWithComponent,
     MmsConnection_readMultipleVariables, MmsConnection_readNamedVariableListValues,
     MmsConnection_readNamedVariableListValuesAssociationSpecific,
     MmsConnection_readNamedVariableListDirectory,
     MmsConnection_readNamedVariableListDirectoryAssociationSpecific,
     MmsConnection_defineNamedVariableList,
     MmsConnection_defineNamedVariableListAssociationSpecific,
     MmsConnection_deleteNamedVariableList,
     MmsConnection_deleteAssociationSpecificNamedVariableList,
     MmsConnection_getVariableAccessAttributes, MmsConnection_identify,
     MmsConnection_getServerStatus, MmsConnection_readJournalTimeRange,
     MmsConnection_readJournalStartAfter, MmsConnection_fileOpen, MmsConnection_fileClose,
     MmsConnection_fileDelete, MmsConnection_fileRead, MmsConnection_getFileDirectory,
     MmsConnection_fileRename, MmsConnection_obtainFile, MmsConnection_writeVariable,
     MmsConnection_writeSingleArrayElementWithComponent,
     MmsConnection_writeVariableComponent, MmsConnection_writeMultipleVariables,
     MmsConnection_writeArrayElements, MmsConnection_writeNamedVariableList,
     mmsClient_getNameList}

ASSUME UsedAssumption == Used \subseteq Services

\* What an answer, or none within the time limit, makes the handler of a request report:
\* success (NONE) or one of the errors.  A service that parses nothing takes any confirmed
\* response for success; one that counts deleted objects may report an error for a good one.
handleAsyncResponse(service, answer) ==
    CASE answer = "response" -> IF service.parses = "counts" THEN {"NONE", "error"} ELSE {"NONE"}
      [] answer = "garbled" -> IF service.parses = "nothing" THEN {"NONE"} ELSE {"error"}
      [] OTHER -> {"error"}

Answers == {"response", "garbled", "confirmed error", "reject"}

-----------------------------------------------------------------------------
(* Reading and posting the shared state *)

\* The callers and threads that have taken the transmit buffer and not given it back.
\* While the association is built up the buffer holds the initiate request.
Holders ==
    {c \in Callers : call[c].at \in {"add", "send"}}
    \cup {o \in {"owner"} : owner.at \in {"associate", "concludeParameter", "sendConclude"}}
    \cup {o \in {"association"} : int \in {"TCP_CONNECTING", "WAIT_FOR_COTP_CONNECT_RESP"}
                                   /\ tick.at = "out"}
    \cup {o \in {"association"} : tick.at # "out"
                                   /\ tick.next \in {"TCP_CONNECTING", "WAIT_FOR_COTP_CONNECT_RESP"}}

checkForOutstandingCall_Mutant(id) == {i \in 1..Slots : table[i].used}

checkForOutstandingCall(id) == {i \in 1..Slots : table[i].used /\ table[i].id = id}

\* The handler of the call in slot i stores its result in the parameters of the thread that
\* registered it and posts that thread's semaphore, wherever the thread is by now.
Handle(i, id, result) ==
    call' = [call EXCEPT ![table[i].caller].sem = @ + 1,
                         ![table[i].caller].result = result,
                         ![table[i].caller].from = id]

setConnectionState_Mutant(state) ==
    /\ conn' = state
    /\ owner' = IF state = "CONNECTED" /\ owner.at \in {"setConnecting", "connecting"}
                THEN [owner EXCEPT !.sem = @ + 1, !.state = state] ELSE owner


setConnectionState(state) ==
    /\ conn' = state
    /\ owner' = IF state \in {"CLOSED", "CONNECTED"} /\ owner.at \in {"setConnecting", "connecting"}
                THEN [owner EXCEPT !.sem = @ + 1, !.state = state] ELSE owner

-----------------------------------------------------------------------------
(* The connection thread (and the owner, inside close) in                  *)
(* IsoClientConnection_handleConnection                                    *)

\* Take the tickMutex and go to one of the steps below with a nextState.
Enter(by, at, slot, next) ==
    /\ tick.at = "out"
    /\ \/ by = "thread" /\ owner.connects > 0
       \/ by = "owner" /\ owner.at = "closing"
    /\ tick' = [by |-> by, at |-> at, slot |-> slot, next |-> next]

\* Nothing has arrived, or there is no connection: only ISO_IND_TICK, which looks for calls
\* whose time limit has passed.  A tick of the thread that finds none changes nothing.
Due == {i \in 1..Slots : table[i].used /\ table[i].due}

\* The conclude request has run into its time limit.
ConcludeDue == conclude.handler /\ conclude.due

Waits_Mutant(by) ==
    /\ by = "thread" => Due # {} \/ ConcludeDue
    /\ int = "WAIT_FOR_DATA_MSG"
    /\ Enter(by, "tick", 0, int)
    /\ UNCHANGED <<conn, iso, int, buffer, table, nextId, sent, call, owner, conclude, broken>>


Waits(by) ==
    /\ by = "thread" => Due # {} \/ ConcludeDue
    /\ int \notin {"CLOSE_ON_ERROR", "CLOSING_CONNECTION"}
    /\ Enter(by, "tick", 0, int)
    /\ UNCHANGED <<conn, iso, int, buffer, table, nextId, sent, call, owner, conclude, broken>>

\* ISO_IND_ASSOCIATION_FAILED; before the initiate request is sent the buffer is released
AssociationFails(by) ==
    /\ int \in Connecting
    /\ Enter(by, "tick", 0, "CLOSE_ON_ERROR")
    /\ buffer' = IF int = "WAIT_FOR_ACSE_RESP" THEN buffer ELSE buffer + 1
    /\ setConnectionState("CLOSING")
    /\ UNCHANGED <<iso, int, table, nextId, sent, call, conclude, broken>>

\* The TCP connection is up: sendConnectionRequestMessage
TcpConnected(by) ==
    /\ int = "TCP_CONNECTING"
    /\ Enter(by, "tick", 0, "WAIT_FOR_COTP_CONNECT_RESP")
    /\ UNCHANGED <<conn, iso, int, buffer, table, nextId, sent, call, owner, conclude, broken>>

\* The COTP connection is confirmed: sendAcseInitiateRequest releases the buffer
CotpConnected(by) ==
    /\ int = "WAIT_FOR_COTP_CONNECT_RESP"
    /\ Enter(by, "tick", 0, "WAIT_FOR_ACSE_RESP")
    /\ buffer' = buffer + 1
    /\ UNCHANGED <<conn, iso, int, table, nextId, sent, call, owner, conclude, broken>>

\* The ACSE response accepts the association.  The initiate response inside it is parsed, or
\* refused; an initiate error is an answer too.  Another message in its place says nothing of
\* the association: when it is taken (an unconfirmed one, a conclude request) the connection
\* goes on to wait for data, with nobody told; when it is not, it is closed.
Associated(by) ==
    /\ int = "WAIT_FOR_ACSE_RESP"
    /\ iso' = "CONNECTED"
    /\ \/ /\ Enter(by, "tick", 0, "WAIT_FOR_DATA_MSG")
          /\ setConnectionState("CONNECTED")
       \/ /\ Enter(by, "tick", 0, "CLOSE_ON_ERROR")
          /\ setConnectionState("CLOSING")
       \/ /\ \E next \in {"WAIT_FOR_DATA_MSG", "CLOSE_ON_ERROR"} : Enter(by, "tick", 0, next)
          /\ UNCHANGED <<conn, owner>>
    /\ UNCHANGED <<int, buffer, table, nextId, sent, call, conclude, broken>>

\* A message the client acts on: in the data phase, or in the place of the initiate response.
\* What mmsIsoCallback returns for it counts in the second case only (Associated).
Message(by, at, slot) ==
    /\ Enter(by, at, slot, "WAIT_FOR_DATA_MSG")
    /\ \/ int = "WAIT_FOR_DATA_MSG" /\ UNCHANGED iso
       \/ int = "WAIT_FOR_ACSE_RESP" /\ iso' = "CONNECTED"

\* An initiate response or error in the data phase: the connection is said to be closing,
\* but nothing closes it.
LateInitiate(by) ==
    /\ int = "WAIT_FOR_DATA_MSG"
    /\ Enter(by, "tick", 0, int)
    /\ setConnectionState("CLOSING")
    /\ UNCHANGED <<iso, int, buffer, table, nextId, sent, call, conclude, broken>>

\* The link fails, or the server disconnects
LinkLost(by) ==
    /\ int = "WAIT_FOR_DATA_MSG"
    /\ \E next \in {"CLOSE_ON_ERROR", "CLOSING_CONNECTION"} : Enter(by, "tick", 0, next)
    /\ UNCHANGED <<conn, iso, int, buffer, table, nextId, sent, call, owner, conclude, broken>>

\* A confirmed response, error or reject for the outstanding call in slot i; the answer to
\* any other invoke ID is dropped (checkForOutstandingCall returns NULL).
AnswerArrives(by) ==
    /\ \E id \in sent, answer \in Answers :
         \E i \in checkForOutstandingCall(id) :
           /\ Message(by, "remove", i)
           /\ \E result \in handleAsyncResponse(table[i].service, answer) : Handle(i, id, result)
         /\ sent' = sent \ {id}
    /\ UNCHANGED <<conn, int, buffer, table, nextId, owner, conclude, broken>>

Remove_Mutant ==
    /\ tick.at = "remove"
    /\ tick' = [tick EXCEPT !.at = "tick", !.slot = 0]
    /\ UNCHANGED <<conn, iso, int, buffer, table, nextId, sent, call, owner, conclude, broken>>

\* removeFromOutstandingCalls (or the same assignments in ISO_IND_TICK), after the handler
\* has returned
Remove ==
    /\ tick.at = "remove"
    /\ table' = [table EXCEPT ![tick.slot] = Unused]
    /\ tick' = [tick EXCEPT !.at = "tick", !.slot = 0]
    /\ UNCHANGED <<conn, iso, int, buffer, nextId, sent, call, owner, conclude, broken>>

\* The conclude handler, which is set, runs: it posts the semaphore its parameter names.
\* Between the two assignments of concludeAsync the parameter is not yet there.
CallConcludeHandler ==
    /\ owner' = IF conclude.parameter THEN [owner EXCEPT !.sem = @ + 1] ELSE owner
    /\ broken' = IF conclude.parameter THEN broken ELSE broken \cup {"parameter"}

\* The conclude response or error.  If a handler is set it runs and is forgotten.  With the
\* response IsoClientConnection_release follows, which needs the transmit buffer.
ConcludeAnswered(by) ==
    /\ \/ /\ conclude.handler
          /\ \E at \in {"forgetRespond", "forgetTick"} : Message(by, at, 0)
          /\ CallConcludeHandler
       \/ /\ ~conclude.handler
          /\ \E at \in {"respond", "tick"} : Message(by, at, 0)
          /\ UNCHANGED <<owner, broken>>
    /\ UNCHANGED <<conn, int, buffer, table, nextId, sent, call, conclude>>

\* No handler is set.  The parameter and the timeout are not looked at until one is.
NoConclude == [handler |-> FALSE, parameter |-> FALSE, due |-> TRUE]

\* concludeHandler = NULL, after the handler has returned; and what comes next
Forgetting == [forgetRespond |-> "respond", forgetTick |-> "tick", forgetLeave |-> "leave"]

ForgetConcludeHandler ==
    /\ tick.at \in DOMAIN Forgetting
    /\ tick' = [tick EXCEPT !.at = Forgetting[@]]
    /\ conclude' = NoConclude
    /\ UNCHANGED <<conn, iso, int, buffer, table, nextId, sent, call, owner, broken>>

\* A file request of the server (it obtains a file from the client): the thread answers it
\* in a transmit buffer of its own turn.
FileRequestArrives(by) ==
    /\ Message(by, "respond", 0)
    /\ UNCHANGED <<conn, int, buffer, table, nextId, sent, call, owner, conclude, broken>>

\* Inside IsoClientConnection_release, or sending the answer to a file request: wait for the
\* transmit buffer, and release it when the message is sent.
ThreadSends ==
    /\ tick.at = "respond"
    /\ buffer > 0
    /\ tick' = [tick EXCEPT !.at = "tick"]
    /\ UNCHANGED <<conn, iso, int, buffer, table, nextId, sent, call, owner, conclude, broken>>

\* CLOSE_ON_ERROR and CLOSING_CONNECTION: ISO_IND_CLOSED, then releaseSocket
Closed(by) ==
    /\ int \in {"CLOSE_ON_ERROR", "CLOSING_CONNECTION"}
    /\ LET end == IF int = "CLOSE_ON_ERROR" THEN "ERROR" ELSE "IDLE"
       IN  /\ iso' = end
           /\ Enter(by, "closed", 1, end)
    /\ setConnectionState("CLOSED")
    /\ UNCHANGED <<int, buffer, table, nextId, sent, call, conclude, broken>>

\* ISO_IND_CLOSED ends the calls slot by slot.  A slot is freed after its handler has run,
\* in a step of its own.
ClosedLoop ==
    /\ tick.at = "closed"
    /\ tick.slot <= Slots
    /\ \/ /\ table[tick.slot].used
          /\ \E result \in handleAsyncResponse(table[tick.slot].service, "SERVICE_TIMEOUT") :
               Handle(tick.slot, table[tick.slot].id, result)
          /\ tick' = [tick EXCEPT !.at = "closedFree"]
       \/ /\ ~table[tick.slot].used
          /\ tick' = [tick EXCEPT !.slot = @ + 1]
          /\ UNCHANGED call
    /\ UNCHANGED <<conn, iso, int, buffer, table, nextId, sent, owner, conclude, broken>>

ClosedFree ==
    /\ tick.at = "closedFree"
    /\ table' = [table EXCEPT ![tick.slot] = Unused]
    /\ tick' = [tick EXCEPT !.at = "closed", !.slot = @ + 1]
    /\ UNCHANGED <<conn, iso, int, buffer, nextId, sent, call, owner, conclude, broken>>

ClosedLoopEnds ==
    /\ tick.at = "closed" /\ tick.slot > Slots
    /\ tick' = [tick EXCEPT !.at = "tick", !.slot = 0]
    /\ UNCHANGED <<conn, iso, int, buffer, table, nextId, sent, call, owner, conclude, broken>>

\* ISO_IND_TICK ends the calls whose time limit has passed, in the order of the table
TickLoop ==
    /\ tick.at = "tick"
    /\ \E i \in Due :
         /\ \A j \in Due : i <= j
         /\ \E result \in handleAsyncResponse(table[i].service, "SERVICE_TIMEOUT") :
              Handle(i, table[i].id, result)
         /\ tick' = [tick EXCEPT !.at = "remove", !.slot = i]
    /\ UNCHANGED <<conn, iso, int, buffer, table, nextId, sent, owner, conclude, broken>>

\* The end of ISO_IND_TICK: the conclude timeout
TickConclude ==
    /\ tick.at = "tick" /\ Due = {} /\ ConcludeDue
    /\ CallConcludeHandler
    /\ tick' = [tick EXCEPT !.at = "forgetLeave"]
    /\ UNCHANGED <<conn, iso, int, buffer, table, nextId, sent, call, conclude>>

\* setIntState(nextState), post tickMutex
Leave ==
    /\ tick.at = "leave" \/ (tick.at = "tick" /\ Due = {} /\ ~ConcludeDue)
    /\ int' = tick.next
    /\ tick' = Out
    /\ \/ /\ tick.by = "thread"
          /\ UNCHANGED <<iso, owner>>
       \/ /\ tick.by = "owner"            \* back in IsoClientConnection_close
          /\ iso' = "IDLE"
          /\ owner' = [owner EXCEPT !.at = "idle"]
    /\ UNCHANGED <<conn, buffer, table, nextId, sent, call, conclude, broken>>

HandleConnection(by) ==
    \/ Waits(by)
    \/ AssociationFails(by)
    \/ TcpConnected(by)
    \/ CotpConnected(by)
    \/ Associated(by)
    \/ LateInitiate(by)
    \/ LinkLost(by)
    \/ AnswerArrives(by)
    \/ ConcludeAnswered(by)
    \/ FileRequestArrives(by)
    \/ Closed(by)

TickSteps ==
    \/ Remove
    \/ ForgetConcludeHandler
    \/ ThreadSends
    \/ ClosedLoop
    \/ ClosedFree
    \/ ClosedLoopEnds
    \/ TickLoop
    \/ TickConclude
    \/ Leave

-----------------------------------------------------------------------------
(* A caller in a synchronous service *)

NoCall(c) == [at |-> "idle", id |-> 0, service |-> [parses |-> "none"], sem |-> 0, result |-> "none",
              from |-> 0, requests |-> call[c].requests + 1]

\* The checks made before the transmit buffer is asked for
Check(c, service) ==
    /\ \/ /\ conn = "CONNECTED"
          /\ call' = [call EXCEPT ![c].at = "allocate", ![c].service = service]
       \/ /\ conn # "CONNECTED" \/ service.checked
          /\ call' = [call EXCEPT ![c] = NoCall(c)]
    /\ UNCHANGED <<conn, iso, int, tick, buffer, table, nextId, sent, owner, conclude, broken>>

Call(c) ==
    /\ call[c].at = "idle"
    /\ call[c].requests < MaxCalls
    /\ \E service \in Used : Check(c, service)

\* allocateTransmitBuffer, getNextInvokeId, and the request's encoder.  The two list services
\* notice that a request cannot be encoded and return at once.
Allocate(c) ==
    /\ call[c].at = "allocate"
    /\ buffer > 0
    /\ buffer' = buffer - 1
    /\ nextId' = nextId + 1
    /\ \/ /\ call' = [call EXCEPT ![c].at = "add", ![c].id = nextId,
                                    ![c].service = [parses |-> @.parses, pages |-> @.pages]]
          /\ UNCHANGED broken
       \/ /\ call[c].service.measured
          /\ call' = [call EXCEPT ![c] = NoCall(c)]
          /\ broken' = broken \cup {"buffer"}
    /\ UNCHANGED <<conn, iso, int, tick, table, sent, owner, conclude>>

addToOutstandingCalls_Mutant(c) ==
    LET free == {i \in 1..Slots : ~table[i].used}
    IN  /\ call[c].at = "add"
        /\ \/ /\ free # {}
              /\ LET i == CHOOSE i \in free : \A j \in free : i <= j
                 IN  table' = [table EXCEPT ![i] = [used |-> TRUE, id |-> call[c].id, caller |-> c,
                                                    service |-> call[c].service, due |-> FALSE]]
              /\ call' = [call EXCEPT ![c].at = "send"]
              /\ UNCHANGED buffer
           \/ /\ free = {}
              /\ UNCHANGED buffer
              /\ call' = [call EXCEPT ![c] = NoCall(c)]
              /\ UNCHANGED table
        /\ UNCHANGED <<conn, iso, int, tick, nextId, sent, owner, conclude, broken>>

\* addToOutstandingCalls: the first unused slot, or OUTSTANDING_CALL_LIMIT
addToOutstandingCalls(c) ==
    LET free == {i \in 1..Slots : ~table[i].used}
    IN  /\ call[c].at = "add"
        /\ \/ /\ free # {}
              /\ LET i == CHOOSE i \in free : \A j \in free : i <= j
                 IN  table' = [table EXCEPT ![i] = [used |-> TRUE, id |-> call[c].id, caller |-> c,
                                                    service |-> call[c].service, due |-> FALSE]]
              /\ call' = [call EXCEPT ![c].at = "send"]
              /\ UNCHANGED buffer
           \/ /\ free = {}
              /\ buffer' = buffer + 1
              /\ call' = [call EXCEPT ![c] = NoCall(c)]
              /\ UNCHANGED table
        /\ UNCHANGED <<conn, iso, int, tick, nextId, sent, owner, conclude, broken>>

\* IsoClientConnection_sendMessage: dropped when not connected; the buffer is released
IsoClientConnection_sendMessage(c) ==
    /\ call[c].at = "send"
    /\ sent' = IF iso = "CONNECTED" THEN sent \cup {call[c].id} ELSE sent
    /\ buffer' = buffer + 1
    /\ call' = [call EXCEPT ![c].at = "wait"]
    /\ UNCHANGED <<conn, iso, int, tick, table, nextId, owner, conclude, broken>>

\* The semaphore is posted: return, or ask for the rest of the name list
Return(c) ==
    /\ call[c].at = "wait"
    /\ call[c].sem > 0
    /\ \/ call' = [call EXCEPT ![c] = NoCall(c)]
       \/ /\ call[c].service.pages
          /\ call[c].result = "NONE"
          /\ NoCall(c).requests < MaxRequests
          /\ call' = [call EXCEPT ![c] =
                        IF conn = "CONNECTED"
                        THEN [NoCall(c) EXCEPT !.at = "allocate", !.service = mmsClient_getNameList]
                        ELSE NoCall(c)]
    /\ UNCHANGED <<conn, iso, int, tick, buffer, table, nextId, sent, owner, conclude, broken>>

\* requestTimeout passes for a registered call (or for the conclude request)
RequestTimeout(i) ==
    /\ table[i].used /\ ~table[i].due
    /\ table' = [table EXCEPT ![i].due = TRUE]
    /\ UNCHANGED <<conn, iso, int, tick, buffer, nextId, sent, call, owner, conclude, broken>>

ConcludeTimeout ==
    /\ conclude.handler /\ ~conclude.due
    /\ conclude' = [conclude EXCEPT !.due = TRUE]
    /\ UNCHANGED <<conn, iso, int, tick, buffer, table, nextId, sent, call, owner, broken>>

Caller(c) ==
    \/ Allocate(c)
    \/ addToOutstandingCalls(c)
    \/ IsoClientConnection_sendMessage(c)
    \/ Return(c)

-----------------------------------------------------------------------------
(* The owner: connect, conclude, abort and close *)

At(place) == owner' = [owner EXCEPT !.at = place]

\* MmsConnection_connect and connectAsync: the application connects when it has no
\* connection: it has seen CLOSED, or its last connect failed.
MmsConnection_connect ==
    /\ owner.at = "idle"
    /\ owner.connects < MaxConnects
    /\ conn = "CLOSED" \/ owner.state = "CLOSED"
    /\ buffer > 0
    /\ buffer' = buffer - 1
    /\ owner' = [at |-> "associate", sem |-> 0, state |-> "CONNECTING", connects |-> owner.connects + 1]
    /\ UNCHANGED <<conn, iso, int, tick, table, nextId, sent, call, conclude, broken>>

\* IsoClientConnection_associateAsync, under the tickMutex.  Without a socket it returns
\* without releasing the transmit buffer; when the connect cannot start it releases it.
IsoClientConnection_associateAsync ==
    /\ owner.at = "associate"
    /\ tick.at = "out"
    /\ \/ /\ iso' = "CONNECTING" /\ int' = "TCP_CONNECTING"
          /\ At("setConnecting")
          /\ UNCHANGED <<buffer, broken>>
       \/ /\ iso' = "ERROR" /\ int' = "ERROR"
          /\ buffer' = buffer + 1
          /\ owner' = [owner EXCEPT !.at = "idle", !.state = "CLOSED"]
          /\ UNCHANGED broken
       \/ /\ owner' = [owner EXCEPT !.at = "idle", !.state = "CLOSED"]
          /\ broken' = broken \cup {"buffer"}
          /\ UNCHANGED <<iso, int, buffer>>
    /\ UNCHANGED <<conn, tick, table, nextId, sent, call, conclude>>

\* The assignment after associateAsync has returned; the connection thread may have set a
\* later state already.  connectAsync returns here.
MmsConnection_connectAsync ==
    /\ owner.at = "setConnecting"
    /\ conn' = "CONNECTING"
    /\ \/ At("connecting")
       \/ owner' = [owner EXCEPT !.at = "idle", !.sem = 0]
    /\ UNCHANGED <<iso, int, tick, buffer, table, nextId, sent, call, conclude, broken>>

ConnectReturns ==
    /\ owner.at = "connecting"
    /\ owner.sem > 0
    /\ owner' = [owner EXCEPT !.at = "idle", !.sem = 0]
    /\ UNCHANGED <<conn, iso, int, tick, buffer, table, nextId, sent, call, conclude, broken>>

\* MmsConnection_concludeAsync: concludeHandler, then its parameter and timeout, then the
\* message.  Until they are assigned, the parameter and the timeout are those of an earlier
\* conclude, whose time limit (or zero) may have passed.
MmsConnection_conclude ==
    /\ owner.at = "idle"
    /\ conn = "CONNECTED"
    /\ buffer > 0
    /\ buffer' = buffer - 1
    /\ \E due \in BOOLEAN : conclude' = [handler |-> TRUE, parameter |-> FALSE, due |-> due]
    /\ owner' = [owner EXCEPT !.at = "concludeParameter", !.sem = 0]
    /\ UNCHANGED <<conn, iso, int, tick, table, nextId, sent, call, broken>>

ConcludeParameter ==
    /\ owner.at = "concludeParameter"
    /\ conclude' = [conclude EXCEPT !.parameter = TRUE]
    /\ At("sendConclude")
    /\ UNCHANGED <<conn, iso, int, tick, buffer, table, nextId, sent, call, broken>>

\* The timeout is set and the message sent: between the two only the transmit buffer is held.
SendConclude ==
    /\ owner.at = "sendConclude"
    /\ conclude' = [conclude EXCEPT !.due = FALSE]
    /\ buffer' = buffer + 1
    /\ At("concluding")
    /\ UNCHANGED <<conn, iso, int, tick, table, nextId, sent, call, broken>>

ConcludeReturns ==
    /\ owner.at = "concluding"
    /\ owner.sem > 0
    /\ owner' = [owner EXCEPT !.at = "idle", !.sem = 0]
    /\ UNCHANGED <<conn, iso, int, tick, buffer, table, nextId, sent, call, conclude, broken>>

\* MmsConnection_close closes a connection that is up; MmsConnection_abort sends an abort
\* first, and closes whatever the state is.
MmsConnection_close ==
    /\ owner.at = "idle"
    /\ conn = "CONNECTED"
    /\ At("close")
    /\ UNCHANGED <<conn, iso, int, tick, buffer, table, nextId, sent, call, conclude, broken>>

MmsConnection_abort ==
    /\ owner.at = "idle"
    /\ owner.connects > 0
    /\ \/ conn = "CONNECTED" /\ At("abort")
       \/ conn # "CONNECTED" /\ At("close")
    /\ UNCHANGED <<conn, iso, int, tick, buffer, table, nextId, sent, call, conclude, broken>>

\* sendAbortMessage takes the transmit buffer and releases it; then abort polls for CLOSED
\* until the request timeout and closes either way.
sendAbortMessage ==
    /\ owner.at = "abort"
    /\ buffer > 0
    /\ At("close")
    /\ UNCHANGED <<conn, iso, int, tick, buffer, table, nextId, sent, call, conclude, broken>>

\* IsoClientConnection_close.  Closing while the association is being built up leaves the
\* transmit buffer with the initiate request that is never sent.
IsoClientConnection_close ==
    /\ owner.at = "close"
    /\ tick.at = "out"
    /\ \/ /\ int \in {"IDLE", "ERROR", "CLOSE_ON_ERROR"}
          /\ At("idle")
          /\ UNCHANGED <<int, broken>>
       \/ /\ int \notin {"IDLE", "ERROR", "CLOSE_ON_ERROR"}
          /\ int' = "CLOSING_CONNECTION"
          /\ At("closing")
          /\ broken' = IF int \in {"TCP_CONNECTING", "WAIT_FOR_COTP_CONNECT_RESP"}
                       THEN broken \cup {"buffer"} ELSE broken
    /\ UNCHANGED <<conn, iso, tick, buffer, table, nextId, sent, call, conclude>>

OwnerTakesMutex == IsoClientConnection_associateAsync \/ IsoClientConnection_close

OwnerSteps ==
    \/ MmsConnection_connectAsync
    \/ ConnectReturns
    \/ ConcludeParameter
    \/ SendConclude
    \/ ConcludeReturns

OwnerCalls ==
    \/ MmsConnection_connect
    \/ MmsConnection_conclude
    \/ MmsConnection_close
    \/ MmsConnection_abort

-----------------------------------------------------------------------------

Init ==
    /\ conn = "CLOSED" /\ iso = "IDLE" /\ int = "IDLE"
    /\ tick = Out
    /\ buffer = 1
    /\ table = [i \in 1..Slots |-> Unused]
    /\ nextId = 1
    /\ sent = {}
    /\ call = [c \in Callers |-> [at |-> "idle", id |-> 0, service |-> [parses |-> "none"], sem |-> 0,
                                  result |-> "none", from |-> 0, requests |-> 0]]
    /\ owner = [at |-> "idle", sem |-> 0, state |-> "CLOSED", connects |-> 0]
    /\ conclude = NoConclude
    /\ broken = {}

Next ==
    \/ \E by \in {"thread", "owner"} : HandleConnection(by)
    \/ TickSteps
    \/ \E c \in Callers : Call(c) \/ Caller(c)
    \/ \E i \in 1..Slots : RequestTimeout(i)
    \/ ConcludeTimeout
    \/ OwnerTakesMutex
    \/ OwnerSteps
    \/ OwnerCalls
    \/ sendAbortMessage

Spec == Init /\ [][Next]_vars

\* nextReadTimeout: the thread does not wait for an association for ever
AssociationEnds ==
    \/ AssociationFails("thread")
    \/ TcpConnected("thread")
    \/ CotpConnected("thread")
    \/ Associated("thread")

\* Every thread goes on, the clock reaches every timeout, and the semaphores are fair.
Fairness ==
    /\ WF_vars(TickSteps)
    /\ SF_vars(ThreadSends)
    /\ WF_vars(HandleConnection("thread"))
    /\ SF_vars(HandleConnection("owner"))
    /\ SF_vars(AssociationEnds)
    /\ \A c \in Callers : WF_vars(Caller(c)) /\ SF_vars(Allocate(c))
    /\ \A i \in 1..Slots : WF_vars(RequestTimeout(i))
    /\ WF_vars(ConcludeTimeout)
    /\ SF_vars(OwnerTakesMutex)
    /\ WF_vars(OwnerSteps)
    /\ SF_vars(sendAbortMessage)

FairSpec == Spec /\ Fairness

-----------------------------------------------------------------------------

\* The transmit buffer is free or has exactly one holder, unless some path has already
\* returned without IsoClientConnection_releaseTransmitBuffer: no path releases it twice,
\* and none of the paths that fail (a full table, a refused association, a lost link)
\* keeps it.
BufferKept == "buffer" \notin broken => buffer + Cardinality(Holders) = 1

\* A slot of outstandingCalls that is in use belongs to the thread that registered it, which
\* is still sending or waiting, and whose handler has not run yet, unless the connection
\* thread is between the handler and freeing the slot: a handler never posts the semaphore
\* of a call that has returned (its parameters are on that thread's stack).
NoHandlerLeft ==
    \A i \in 1..Slots :
       table[i].used /\ ~(tick.at \in {"remove", "closedFree"} /\ tick.slot = i) =>
          LET c == table[i].caller
          IN  call[c].at \in {"send", "wait"} /\ call[c].id = table[i].id /\ call[c].sem = 0

\* A call's handler runs at most once and with the outcome of the call's own invoke ID:
\* answers, timeouts and the cleanup at the end of a connection are never given to another.
AnswerMatches ==
    \A c \in Callers : call[c].sem <= 1 /\ (call[c].sem = 1 => call[c].from = call[c].id)

\* Every synchronous call returns: with an answer, or once its time limit has passed,
\* whatever happens to the connection between registering the call and sending it.
CallReturns == \A c \in Callers : call[c].at = "wait" ~> (call[c].at # "wait" \/ broken # {})

\* A conclude that waits, and whose handler is not set any more: it was assigned while the
\* connection thread was between the handler of an earlier conclude and concludeHandler = NULL.
LostConclude == owner.at = "concluding" /\ owner.sem = 0 /\ ~conclude.handler

\* A connect whose association was accepted by an ACSE response without an initiate response:
\* nothing ends it but the loss of the link (which it then has to return from).
UnansweredConnect == owner.at = "connecting" /\ owner.sem = 0 /\ int = "WAIT_FOR_DATA_MSG"

\* connect, conclude, abort and close return to the application, whatever the server and the
\* link do.  Two calls wait for ever, and no other one: a conclude that has lost its handler
\* and, as long as the link lasts, a connect without an initiate response.
OwnerReturns ==
    owner.at # "idle" ~> (owner.at = "idle" \/ broken # {} \/ LostConclude \/ UnansweredConnect)

=============================================================================
