---------------------------- MODULE MmsExchange ----------------------------
(***************************************************************************)
(* A client and a server of the C library at the two ends of a link: a     *)
(* call of the client (MmsConnection_*, iso_mms/client) becomes a message, *)
(* the server reads it, acts on its device and answers                     *)
(* (MmsServerConnection_parseMessage, iso_mms/server), and the client      *)
(* reads the answer.  Whatever lies between the octets that are sent and   *)
(* those that arrive (the stack below, the calls that wait for each other) *)
(* is the matter of MmsConnection.                                         *)
(*                                                                         *)
(* Between two pages of names the application may change a value of the    *)
(* device, and another client its lists; when no call is under way the     *)
(* server may report values to the client.                                 *)
(***************************************************************************)
EXTENDS MmsReports, AsnTypes, FiniteSets

CONSTANTS MaximumPduSize, MaxOutstanding,       \* of the server (MmsServices)
          Device,         \* the server when the link is made
          Calls,          \* the calls the client may make
          Reports,        \* the reports the server may send
          Changes,        \* what the application, or another client, may do to the device
          MaxChanges,     \* how often it does so
          FirstId,        \* the last invoke id used before
          LastId          \* no call is made with a higher one

Codec == INSTANCE Ber WITH asn_DEF <- Descriptors
Client == INSTANCE MmsCalls WITH asn_DEF <- Descriptors
Ends == INSTANCE MmsResponses WITH asn_DEF <- Descriptors, Decoding <- Codec!Message
Packet == INSTANCE MmsGrammar
Wireshark == INSTANCE Dissector WITH Grammar <- Packet!WiresharkGrammar

VARIABLES device,         \* the server
          call,           \* the last call, or report
          wire,           \* the message under way
          names,          \* the names of the pages received so far
          got,            \* what the call returned
          served,         \* the device before and after the request was served
          invokeId,       \* the last invoke id
          associated, changes

vars == <<device, call, wire, names, got, served, invokeId, associated, changes>>

Idle == [to |-> "none", octets |-> <<>>]
Sent(to, octets) == [to |-> to, octets |-> octets]
Nobody == Call("none", NULL, NULL, -1, NULL, <<>>, <<>>)

MmsServerConnection_init(d) == [d EXCEPT !.association = <<>>, !.agreed = Device.agreed]

(***************************************************************************)
(* Steps.                                                                  *)
(***************************************************************************)
Init ==
    /\ device = Device /\ call = Nobody /\ wire = Idle /\ names = <<>> /\ got = NotYet
    /\ served = [before |-> Device, after |-> Device]
    /\ invokeId = FirstId /\ associated = FALSE /\ changes = 0

\* The client makes a call, the first one to associate.
Ask ==
    /\ call = Nobody /\ invokeId < LastId
    /\ \E c \in Calls :
           /\ associated = (c.op # "initiate")
           /\ call' = c
           /\ invokeId' = IF c.op \in {"initiate", "conclude"} THEN invokeId ELSE invokeId + 1
           /\ \E o \in {Client!Request(c, invokeId + 1, NULL)} : wire' = Sent("server", o)
    /\ UNCHANGED <<device, names, got, served, associated, changes>>

\* The server takes a request and answers it.
Serve ==
    /\ wire.to = "server"
    /\ \E s \in {Ends!MmsServerConnection_parseMessage(device, wire.octets)} :
           /\ device' = s.device
           /\ served' = [before |-> IF names = <<>> THEN device ELSE served.before, after |-> s.device]
           /\ wire' = Sent("client", s.response)
    /\ UNCHANGED <<call, names, got, invokeId, associated, changes>>

\* The client asks for the next page of names.
Page(answer) ==
    /\ names' = answer.value.names
    /\ invokeId' = invokeId + 1
    /\ \E o \in {Client!NameListRequest(call, invokeId + 1, Last(answer.value.names))} : wire' = Sent("server", o)
    /\ UNCHANGED <<device, got, associated>>

\* The call ends.  With a conclusion the connection ends at both sides.
Return(answer) ==
    /\ got' = answer
    /\ associated' = CASE call.op = "initiate" -> answer.error = "NONE"
                       [] call.op = "conclude" -> FALSE
                       [] OTHER -> associated
    /\ device' = IF associated' THEN device ELSE MmsServerConnection_init(device)
    /\ wire' = Idle
    /\ UNCHANGED <<names, invokeId>>

\* The client has the answer.
Receive ==
    /\ wire.to = "client" /\ wire.octets # NoResponse
    /\ \E answer \in {Ends!mmsIsoCallback(call, wire.octets, invokeId, names)} :
           LET more == call.op \in NameOps /\ answer.error = "NONE" /\ answer.value.moreFollows
           IN  IF more THEN Page(answer) ELSE Return(answer)
    /\ UNCHANGED <<call, served, changes>>

\* Nothing was sent: the call runs into its timeout.
TimeOut ==
    /\ wire = Sent("client", NoResponse)
    /\ wire' = Idle /\ got' = RefusedCall(call, "SERVICE_TIMEOUT")
    /\ UNCHANGED <<device, call, names, served, invokeId, associated, changes>>

\* The caller takes what the call returned.
Take ==
    /\ got.error # "NOT_YET"
    /\ call' = Nobody /\ got' = NotYet /\ names' = <<>> /\ served' = [before |-> device, after |-> device]
    /\ UNCHANGED <<device, wire, invokeId, associated, changes>>

\* The server reports values; a report that is too large for a message is not sent.
Report ==
    /\ call = Nobody /\ associated
    /\ \E r \in Reports :
           /\ call' = r
           /\ \E o \in {ReportOf(device, r)} :
                  IF o = NoResponse THEN wire' = Idle /\ got' = Failed("TOO_LARGE")
                  ELSE wire' = Sent("client", o) /\ got' = NotYet
    /\ UNCHANGED <<device, names, served, invokeId, associated, changes>>

ChangeLists(lists, c) ==
    IF c.op = "addList" THEN Append(lists, VariableList(c.item, TRUE, c.items))
    ELSE SelectSeq(lists, LAMBDA l : l.name # c.item)

\* Something else changes the device while names are asked for page by page.  Any other call is
\* served in one step: the device it meets is that before the change or after it.
Change(c) ==
    /\ wire.to = "server" /\ call.op \in NameOps /\ changes < MaxChanges
    /\ changes' = changes + 1
    /\ device' = IF c.op = "setValue" THEN [device EXCEPT !.domains[c.domain].cache[c.item] = c.values[1]]
                 ELSE [device EXCEPT !.domains[c.domain].lists = ChangeLists(@, c)]
    /\ UNCHANGED <<call, wire, names, got, served, invokeId, associated>>

Next ==
    \/ Ask
    \/ Serve
    \/ Receive
    \/ TimeOut
    \/ Take
    \/ Report
    \/ \E c \in Changes : Change(c)

Spec == Init /\ [][Next]_vars
-----------------------------------------------------------------------------
(***************************************************************************)
(* What a call is about, told from the device alone: the variables as      *)
(* trees of values, and the place of a component or an element in them.    *)
(***************************************************************************)
\* A variable's value: the one held under its name, or else the structure of what its components
\* have.  NoValue stands for what the device has no value of.
RECURSIVE Held(_, _, _), ValueOn(_, _), Whole(_)
Held(d, spec, name) ==
    IF name \in DOMAIN d.cache THEN d.cache[name]
    ELSE IF spec.type # "STRUCTURE" THEN NoValue
    ELSE Val("STRUCTURE", 0, <<>>, [i \in DOMAIN spec.elements |->
                                      Held(d, spec.elements[i], name \o <<Dollar>> \o spec.elements[i].name)])

ValueOn(v, way) == IF way = <<>> \/ v = NoValue THEN v ELSE ValueOn(v.elements[Head(way)], Tail(way))
Whole(v) == v # NoValue /\ \A i \in DOMAIN v.elements : Whole(v.elements[i])

FirstName(name) == IF FirstDollar(name) = 0 THEN name ELSE Before(name, FirstDollar(name))
Below(name) == IF FirstDollar(name) = 0 THEN NULL ELSE Behind(name, FirstDollar(name))

\* The way to the component `name' of a structure
RECURSIVE WayTo(_, _)
WayTo(spec, name) ==
    LET Through(k, rest) == IF rest = NoPath THEN NoPath ELSE <<k>> \o rest
        By(k) == IF k = 0 THEN NoPath ELSE Through(k, WayTo(spec.elements[k], Below(name)))
    IN  IF name = NULL THEN <<>>
        ELSE IF spec.type = "STRUCTURE" THEN By(Child(spec, FirstName(name))) ELSE NoPath

\* The variable [variable, way] that an item, an index (or -1) and a component (or NULL) stand for;
\* variable 0: none
Target(d, item, index, component) ==
    LET none == [variable |-> 0, way |-> NoPath]
        Component(k, way, below) == IF below = NoPath THEN none ELSE [variable |-> k, way |-> way \o below]
        Element(k, way, spec) ==
            IF index = -1 THEN Component(k, way, WayTo(spec, component))
            ELSE IF spec.type # "ARRAY" \/ index >= spec.n THEN none
            ELSE Component(k, Append(way, index + 1), WayTo(spec.elements[1], component))
        Item(k, way) == IF way = NoPath THEN none ELSE Element(k, way, SpecAt(d.variables[k], way))
        Variable(k) == IF k = 0 THEN none ELSE Item(k, WayTo(d.variables[k], Below(item)))
    IN  Variable(SelectInSeq(d.variables, LAMBDA spec : spec.name = FirstName(item)))

Trees(d) == [k \in DOMAIN d.variables |-> Held(d, d.variables[k], d.variables[k].name)]

\* The value of the variable, or the error that says there is none
Stored(dev, domain, item, index, component) ==
    LET d == dev.domains[domain]
        At(t) == LET v == ValueOn(Trees(d)[t.variable], t.way)
                 IN  IF t.variable = 0 THEN DataAccessError(ObjectNoneExistent)
                     ELSE IF Whole(v) THEN v ELSE DataAccessError(ObjectNoneExistent)
    IN  IF domain \notin DOMAIN dev.domains THEN DataAccessError(ObjectNoneExistent)
        ELSE At(Target(d, item, index, component))

Answered == wire.to = "none" /\ got.error # "NOT_YET"

\* The lists of the scope a call is about, and the one it names
OfAssociation ==
    {"defineForAssociation", "deleteOfAssociation", "associationDirectory", "associationLists", "readAssociationList"}
ListsOf(dev, c) ==
    IF c.op \in OfAssociation THEN dev.association
    ELSE IF c.domain = NULL THEN dev.lists
    ELSE IF c.domain \in DOMAIN dev.domains THEN dev.domains[c.domain].lists ELSE <<>>
WithLists(dev, c, lists) ==
    IF c.op \in OfAssociation THEN [dev EXCEPT !.association = lists]
    ELSE IF c.domain = NULL THEN [dev EXCEPT !.lists = lists]
    ELSE [dev EXCEPT !.domains[c.domain].lists = lists]
ListNamed(dev, c) == mmsServer_getNamedVariableListWithName(ListsOf(dev, c), c.item)
-----------------------------------------------------------------------------
(***************************************************************************)
(* Reads.  What a read of the device `dev' is to return: a sequence of     *)
(* results.                                                                *)
(***************************************************************************)
\* The variable has an entry of the cache, or is part of one.
HeldAsOne(d, name) == \E n \in DOMAIN d.cache : n = name \/ IsPrefix(n \o <<Dollar>>, name)

\* A structure or an array that the device has no whole value of adds no result, not even an error
\* (addNamedVariableToResultList); any other variable adds one.
ByName(dev, domain, item) ==
    LET spec == MmsDomain_getNamedVariable(dev.domains[domain], item)
        Result(value) == IF /\ domain \in DOMAIN dev.domains /\ value.type = "DATA_ACCESS_ERROR"
                            /\ spec.type \in {"STRUCTURE", "ARRAY"}
                         THEN <<>> ELSE <<value>>
    IN  Result(Stored(dev, domain, item, -1, NULL))

\* A structure is put together from its components when it is read by its name, not as a component
\* of another one,
AsComponent(dev, domain, item, component) ==
    IF HeldAsOne(dev.domains[domain], item \o <<Dollar>> \o component)
    THEN <<Stored(dev, domain, item, -1, component)>> ELSE <<DataAccessError(ObjectNoneExistent)>>

\* and not as a member of a list.  A member that is to be a component its array's elements do not
\* have adds no result.
AsMember(dev, w) ==
    LET d == dev.domains[w.domain]
        component == IF w.index = -1 THEN NULL ELSE w.component
    IN  IF ~HeldAsOne(d, w.item) THEN <<DataAccessError(ObjectNoneExistent)>>
        ELSE IF /\ w.index # -1 /\ MmsDomain_getNamedVariable(d, w.item).type = "ARRAY"
                /\ Target(d, w.item, w.index, component).variable = 0
        THEN <<>>
        ELSE <<Stored(dev, w.domain, w.item, w.index, component)>>

Results(dev, c) ==
    LET At(index) == Stored(dev, c.domain, c.item, index, c.component)
        members == ListNamed(dev, c).variables
    IN  CASE c.op = "read" -> ByName(dev, c.domain, c.item)
          [] c.op = "readComponent" -> AsComponent(dev, c.domain, c.item, c.component)
          [] c.op \in {"readElement", "readElementComponent"} -> <<At(c.index)>>
          [] c.op = "readElements" -> <<Val("ARRAY", 0, <<>>, [i \in DOMAIN c.items |-> At(c.index + i - 1)])>>
          [] c.op = "readMultiple" -> FlattenSeq([i \in DOMAIN c.items |-> ByName(dev, c.domain, c.items[i])])
          [] c.op \in {"readList", "readAssociationList"} ->
               FlattenSeq([i \in DOMAIN members |-> AsMember(dev, members[i])])

\* The answer did not fit into a message of the agreed size.
TooLarge(results) ==
    got.error = "RESOURCE_OTHER" /\ Total(EncodedSize, results) + PduOverhead > served.before.agreed.maxPduSize

\* The server reckons the length of a bit string without the octet that counts its unused bits: it
\* is short by one where that octet takes the length across a boundary (1009 to 1016 bits, say).
RECURSIVE Miscounted(_)
Miscounted(v) ==
    \/ v.type = "BIT_STRING" /\ BerEncoder_determineLengthSize(ByteSize(v.n)) # BerEncoder_determineLengthSize(ByteSize(v.n) + 1)
    \/ \E i \in DOMAIN v.elements : Miscounted(v.elements[i])

(***************************************************************************)
(* A read returns what the device held when it was served: the variable,   *)
(* component or element the client's call named, and no other one.  It     *)
(* fails only when the value is too large for a message, when the server   *)
(* miscounts it (Miscounted), or when the variable is a structure or an    *)
(* array the server has no whole value of: the answer has no result then,  *)
(* and the client does not take it.                                        *)
(***************************************************************************)
ReadTrue ==
    Answered /\ call.op \in ReadOps =>
        LET True(results) == IF got.error = "NONE" THEN results = <<got.value>>
                             ELSE \/ TooLarge(results)
                                  \/ got.error = "PARSING_RESPONSE" /\ (results = <<>> \/ Miscounted(results[1]))
        IN  True(Results(served.before, call))

(***************************************************************************)
(* A read of several variables, or of a list of them, returns a result for *)
(* each in their order, and each is what the device held: a variable that  *)
(* cannot be read takes the place of its result with an error.  A variable *)
(* without a trace (ByName, AsMember) is the exception: the results of     *)
(* those behind it move up by one.  The read fails when the list does not  *)
(* exist, or the results are too large or miscounted.                      *)
(***************************************************************************)
ReadManyTrue ==
    Answered /\ call.op \in ReadManyOps =>
        LET True(results) ==
                IF got.error = "NONE" THEN got.value = Val("ARRAY", 0, <<>>, results)
                ELSE \/ TooLarge(results)
                     \/ got.error = "PARSING_RESPONSE" /\ \E i \in DOMAIN results : Miscounted(results[i])
        IN  IF call.op # "readMultiple" /\ ListNamed(served.before, call) = NoList
            THEN got.error = "ACCESS_OBJECT_NON_EXISTENT"
            ELSE True(Results(served.before, call))
-----------------------------------------------------------------------------
(***************************************************************************)
(* Writes.                                                                 *)
(***************************************************************************)
\* The device's variables as trees
Memory(dev) == [n \in DOMAIN dev.domains |-> Trees(dev.domains[n])]

\* A variable of this type has room for the value (as MmsValue_update sees it; only its type is
\* compared before, not the size of a number or an octet string).
RECURSIVE HasRoom(_, _), Landed(_, _, _)
HasRoom(spec, v) ==
    /\ v.type = spec.type
    /\ CASE v.type \in {"STRUCTURE", "ARRAY"} ->
              /\ Len(v.elements) = IF v.type = "ARRAY" THEN spec.n ELSE Len(spec.elements)
              /\ \A i \in DOMAIN v.elements : HasRoom(ElementSpec(spec, i), v.elements[i])
         [] v.type \in {"INTEGER", "UNSIGNED"} -> Len(v.octets) <= MaxIntegerSize(spec)
         [] v.type = "OCTET_STRING" -> Len(v.octets) <= Magnitude(spec.n)
         [] v.type = "FLOAT" -> v.n = spec.n
         [] OTHER -> TRUE

\* What there is after a value was written over another one.  A leaf without room for its value
\* stays, and so do those behind it; of a bit string of another length the bits both have are taken.
Landed(spec, old, new) ==
    LET Reached(i) == \A k \in 1 .. i - 1 : HasRoom(ElementSpec(spec, k), new.elements[k])
    IN  IF old.type # new.type THEN old
        ELSE IF old.type \in {"STRUCTURE", "ARRAY"} /\ Len(old.elements) = Len(new.elements)
        THEN [old EXCEPT !.elements =
                [i \in DOMAIN @ |-> IF Reached(i) THEN Landed(ElementSpec(spec, i), @[i], new.elements[i]) ELSE @[i]]]
        ELSE IF old.type = "BIT_STRING" /\ old.n # new.n THEN [old EXCEPT !.octets = CopyBits(old, new)]
        ELSE IF HasRoom(spec, new) THEN new ELSE old

\* What a call writes
Write(domain, item, index, component, value) ==
    [domain |-> domain, item |-> item, index |-> index, component |-> component, value |-> value]

\* An array that is an entry of the cache by itself is written as a whole when one of its elements is
\* to be (MmsValueCache_lookupValueEx); so is the variable of every member of a list.
AsWhole(c) ==
    /\ c.op \in {"writeElement", "writeElementComponent"}
    /\ c.domain \in DOMAIN served.before.domains /\ c.item \in DOMAIN served.before.domains[c.domain].cache

Writes(c) ==
    CASE c.op = "writeElements" ->
           [i \in DOMAIN c.items |-> Write(c.domain, c.item, c.index + i - 1, NULL, c.values[1].elements[i])]
      [] c.op \in WriteOps \ {"writeElements"} ->
           IF AsWhole(c) THEN <<Write(c.domain, c.item, -1, NULL, c.values[1])>>
           ELSE <<Write(c.domain, c.item, c.index, c.component, c.values[1])>>
      [] c.op = "writeMultiple" ->
           [i \in DOMAIN c.items |-> Write(c.domain, c.items[i], -1, NULL, c.values[i])]
      [] c.op = "writeList" ->
           LET list == ListNamed(served.before, c).variables
           IN  [i \in DOMAIN list |-> Write(list[i].domain, list[i].item, -1, NULL, c.values[i])]

\* An element that is not there, or has no room for what is written
Missing(w) == Stored(served.before, w.domain, w.item, w.index, w.component).type = "DATA_ACCESS_ERROR"
Unwritable(w) ==
    LET d == served.before.domains[w.domain]
        t == Target(d, w.item, w.index, w.component)
    IN  Missing(w) \/ ~HasRoom(SpecAt(d.variables[t.variable], t.way), w.value)

\* The memory after some writes
RECURSIVE After(_, _)
After(memory, writes) ==
    LET w == Head(writes)
        d == served.before.domains[w.domain]
        With(t) == LET spec == SpecAt(d.variables[t.variable], t.way)
                   IN  [memory EXCEPT ![w.domain][t.variable] =
                           Replace(@, t.way, Landed(spec, ValueAt(@, t.way), w.value))]
    IN  IF writes = <<>> THEN memory
        ELSE After(IF Missing(w) THEN memory ELSE With(Target(d, w.item, w.index, w.component)), Tail(writes))

(***************************************************************************)
(* A write changes what it names, and only that.  When the client is told  *)
(* that it succeeded, the value is the device's, as far as the variable    *)
(* has room for it (Landed: the server ignores that MmsValue_update        *)
(* fails), and every other variable, component and element is as before;   *)
(* an item the client is told has failed was not touched.  Three cases     *)
(* differ.  A write of several elements that fails at one of them has      *)
(* already changed those before it, and that one as far as it has room; a  *)
(* write of one element of an array that is held by itself is taken for    *)
(* one of the array (see ElementWritten); and a write of a list's member   *)
(* for one of its variable (AsWhole).                                      *)
(***************************************************************************)
WriteTakes ==
    Answered /\ call.op \in WriteOps \cup WriteManyOps =>
        LET writes == Writes(call)
            Result(i) == IF call.op \in WriteOps THEN got.value ELSE got.value[i].n
            done == SelectSeq([i \in DOMAIN writes |-> [w |-> writes[i], ok |-> Result(i) = Success]], LAMBDA r : r.ok)
            first == SelectInSeq(writes, Unwritable)
            Then(some) == Memory(served.after) = After(Memory(served.before), some)
        IN  /\ [served.after EXCEPT !.domains = 0] = [served.before EXCEPT !.domains = 0]
            /\ IF got.error = "NONE" THEN Then([i \in DOMAIN done |-> done[i].w])
               ELSE IF call.op # "writeElements" THEN Then(<<>>)
               ELSE Then(SubSeq(writes, 1, first))

(***************************************************************************)
(* After a write of an array element that is reported to have succeeded,   *)
(* the element has the value that was written, if there is room for it     *)
(* (MmsConnection_writeArrayElements).                                     *)
(***************************************************************************)
ElementWritten ==
    /\ Answered /\ call.op = "writeElement" /\ got.error = "NONE"
    /\ ~Unwritable(Write(call.domain, call.item, call.index, NULL, call.values[1]))
    => Stored(served.after, call.domain, call.item, call.index, NULL) = call.values[1]

\* The description of the list is larger than a message: about so many octets for a member
LongList(list) ==
    LET Size(w) == Len(w.domain \o w.item \o w.component) + 10 + (IF w.index = -1 THEN 0 ELSE 14)
    IN  Total(Size, list.variables) + 16 > served.before.agreed.maxPduSize

(***************************************************************************)
(* Named variable lists.  A list that was defined is there with the        *)
(* members the client gave, in their order, and its directory tells them;  *)
(* one that was deleted is gone, and only a list that may be deleted is.   *)
(* Each changes that list alone; one that fails, nothing at all.           *)
(***************************************************************************)
ListsTrue ==
    Answered /\ call.op \in DefineOps \cup DeleteOps \cup DirectoryOps =>
        LET list == ListNamed(served.before, call)
            Lists(change) == WithLists(served.before, call, change)
        IN  CASE call.op \in DefineOps ->
                   IF got.error = "NONE"
                   THEN /\ list = NoList
                        /\ served.after = Lists(Append(ListsOf(served.before, call), VariableList(call.item, TRUE, call.items)))
                   ELSE served.after = served.before
              [] call.op \in DeleteOps ->
                   /\ got.error = "NONE" <=> list # NoList /\ list.deletable
                   /\ served.after = IF got.error = "NONE"
                                     THEN Lists(SelectSeq(ListsOf(served.before, call), LAMBDA l : l # list))
                                     ELSE served.before
              [] call.op \in DirectoryOps ->
                   /\ served.after = served.before
                   /\ IF got.error = "NONE"
                      THEN got.value = [deletable |-> list.deletable, variables |-> list.variables] /\ list # NoList
                      ELSE list = NoList \/ (got.error = "RESOURCE_OTHER" /\ LongList(list))

\* The names there are to be told
RECURSIVE NamesIn(_, _)
NamesIn(name, spec) ==
    {name} \cup (IF spec.type # "STRUCTURE" THEN {}
                 ELSE UNION {NamesIn(name \o <<Dollar>> \o c.name, c) : c \in Range(spec.elements)})
NamesOn(dev, c) ==
    IF c.domain # NULL /\ c.domain \notin DOMAIN dev.domains THEN {}
    ELSE CASE c.op = "domain" -> DOMAIN dev.domains
           [] c.op \in {"associationLists", "namedVariableList"} -> {list.name : list \in Range(ListsOf(dev, c))}
           [] c.op = "journal" -> Range(dev.domains[c.domain].journals)
           [] c.op = "namedVariable" -> UNION {NamesIn(spec.name, spec) : spec \in Range(dev.domains[c.domain].variables)}

\* A name that was not told yet is too long for a page of its own.  The server then writes all the
\* names that are left behind the length of an empty list.
NoPage(c) ==
    c.op \in NameOps /\ \E name \in NamesOn(served.after, c) \ Range(names) :
        BerEncoder_determineEncodedStringSize(name) > device.agreed.maxPduSize - PduOverhead

(***************************************************************************)
(* A list of names the client has put together from its pages names every  *)
(* object that was there all the time, no object twice and none that was   *)
(* never there, although lists come and go between two pages.  It fails    *)
(* only for a domain that does not exist, a class that has no names in the *)
(* scope, when the last name of a page is gone with the next request, or   *)
(* when the agreed size of a message is too small for a name (NoPage).     *)
(***************************************************************************)
NamesTrue ==
    Answered /\ call.op \in NameOps =>
        LET before == NamesOn(served.before, call)
            after == NamesOn(served.after, call)
            listed == got.value.names
        IN  IF got.error # "NONE"
            THEN \/ call.domain # NULL /\ call.domain \notin DOMAIN device.domains
                 \/ call.domain = NULL /\ call.op \in {"namedVariable"}
                 \/ names # <<>> /\ Last(names) \notin after
                 \/ got.error = "PARSING_RESPONSE" /\ NoPage(call)
            ELSE /\ IsInjective(listed)
                 /\ before \cap after \subseteq Range(listed)
                 /\ Range(listed) \subseteq before \cup after

ReportOps == {"reportVariable", "reportList", "reportVariables"}

\* The lengths the code computes beforehand are those of what it writes.  They are not in a report
\* of variables (sendInformationReportListOfVariables) unless exactly one of them is in a domain,
\* in the request for a journal (mms_client_journals.c) whose length does not fit one octet, in a
\* read response or a report with a bit string of an unlucky length, and in a page of names on which
\* there is no room for one.
ReportCounted(c) ==
    /\ c.op = "reportVariables" => Cardinality({i \in DOMAIN c.items : c.items[i].domain # NULL}) = 1
    /\ \A i \in DOMAIN c.values : ~Miscounted(c.values[i])
Counted(c) ==
    /\ c.op \in ReportOps => ReportCounted(c)
    /\ c.op \in {"journalRange", "journalAfter"} => Len(c.domain \o c.item) < 100
    /\ c.op \in ReadOps \cup ReadManyOps => \A v \in Range(Results(served.before, c)) : ~Miscounted(v)
    /\ ~NoPage(c)

\* The most the messages have that are never compared with the agreed size: the answers to a write,
\* three octets for an item, to identify and initiate, and what is no more than an error
Least(c) ==
    LET identity == <<device.identity.vendor, device.identity.model, device.identity.revision>>
    IN  CASE c.op \in WriteOps \cup WriteManyOps -> 16 + 3 * Len(Writes(c))
          [] c.op = "identify" -> 16 + Total(BerEncoder_determineEncodedStringSize, identity)
          [] c.op = "initiate" -> 48
          [] OTHER -> 24

(***************************************************************************)
(* No message of the server is longer than the client agreed to take       *)
(* (maxPduSize of the initiate exchange, for which there is no minimum),   *)
(* but for those that are never compared with it and have a small size of  *)
(* their own (Least), a report that is larger than the server reckons      *)
(* (Counted), and a page of names on which there is no room for one.       *)
(***************************************************************************)
RepliesFit ==
    wire.to = "client" /\ wire.octets # NoResponse =>
        \/ Len(wire.octets) <= device.agreed.maxPduSize
        \/ Len(wire.octets) <= Least(call)
        \/ call.op \in ReportOps /\ ~ReportCounted(call)
        \/ NoPage(call)

(***************************************************************************)
(* A message is one BER element as long as its length says, and a          *)
(* dissector of MMS takes it apart without an error: every length the two  *)
(* sides compute before they write is the length of what they write.  The  *)
(* dissector does not know some types, and expects a journal to be read    *)
(* from an entry onwards, not for a range of time.  Some messages are      *)
(* miscounted by the code (Counted), and 65535 is written as a length      *)
(* longer by an octet than it is reckoned.                                 *)
(***************************************************************************)
Framed ==
    wire.octets \notin {<<>>, NoResponse} /\ Counted(call) /\ Len(wire.octets) < 65535 =>
        LET e == BerDecoder_decodeLength(wire.octets, 2, Len(wire.octets) + 1)
        IN  /\ e.at + e.length = Len(wire.octets) + 1
            /\ \/ Wireshark!dissect_mms(wire.octets)
               \/ wire.to = "server" /\ call.op = "journalRange"
               \/ Codec!Uses("MmsPdu", Codec!Message("MmsPdu", wire.octets))

(***************************************************************************)
(* A report that is sent reaches the client's handler with the names and   *)
(* the values the server gave; one too large for a message is not sent.    *)
(* A miscounted one never reaches the handler with other names or values:  *)
(* the client does not decode it.                                          *)
(***************************************************************************)
ReportDelivered ==
    Answered /\ call.op \in ReportOps =>
        LET many == Val("ARRAY", 0, <<>>, call.values)
            frame == 24                    \* the tags and lengths around the names and values
        IN  \/ /\ got.error = "TOO_LARGE"
               /\ EncodedSize(many) + Len(call.item) + frame > device.agreed.maxPduSize
            \/ /\ got.error = "NONE"
               /\ got.value = IF ~ReportCounted(call) THEN <<>>
                              ELSE CASE call.op = "reportVariable" -> <<Reported(NULL, call.item, call.values[1])>>
                                     [] call.op = "reportList" -> <<Reported(NULL, call.item, many)>>
                                     [] call.op = "reportVariables" ->
                                          [i \in DOMAIN call.items |->
                                             Reported(call.items[i].domain, call.items[i].item, call.values[i])]
=============================================================================
