------------------------ MODULE MmsConnectionProofs ------------------------
(***************************************************************************)
(* Proofs about the C client's connection, for any number of calling       *)
(* threads and any size of the table of outstanding calls.                 *)
(***************************************************************************)
EXTENDS MmsConnection, FiniteSetTheorems, WellFoundedInduction, TLAPS

\* A leaf that names no prover is tried with Z3, with Zenon, and with Z3 for longer.
USE SMT, Zenon, SMTT(20)

\* What the services keep of themselves in a call and in a table entry
Kinds ==
    Services \cup {[parses |-> "none"]} \cup {[parses |-> s.parses, pages |-> s.pages] : s \in Services}

Calls == [at : {"idle", "allocate", "add", "send", "wait"}, id : Nat, service : Kinds, sem : Nat,
          result : {"none", "NONE", "error"}, from : Nat, requests : Nat]

Entries == [used : BOOLEAN, id : Nat, caller : Callers \cup {"none"}, service : Kinds, due : BOOLEAN]

OwnerPlaces == {"idle", "associate", "setConnecting", "connecting", "concludeParameter",
                "sendConclude", "concluding", "close", "abort", "closing"}

TickPlaces == {"out", "tick", "remove", "respond", "closed", "closedFree", "leave",
               "forgetRespond", "forgetTick", "forgetLeave"}

\* The types of what the proofs are about
CallType == call \in [Callers -> Calls] /\ nextId \in Nat /\ sent \in SUBSET Nat
TableType == table \in [1..Slots -> Entries]
TickType ==
    tick \in [by : {"none", "thread", "owner"}, at : TickPlaces, slot : Nat, next : IntStates]
OwnerType ==
    owner \in [at : OwnerPlaces, sem : Nat, state : {"CLOSED", "CONNECTING", "CONNECTED"}, connects : Nat]
TypeOK == CallType /\ TableType /\ TickType /\ OwnerType /\ int \in IntStates /\ buffer \in Nat

\* The connection thread is between the handler of slot i and freeing the slot
Freeing(i) == tick.at \in {"remove", "closedFree"} /\ tick.slot = i

\* The call in slot i waits for its handler
Active(i) == table[i].used /\ ~Freeing(i)

\* The slot the connection thread works on
SlotInv ==
    /\ tick.at \in {"remove", "closedFree"} => tick.slot \in 1..Slots /\ table[tick.slot].used
    /\ tick.at = "closed" => tick.slot >= 1

\* Of a call in progress the semaphore is posted once, and of none before it is registered
PostedInv ==
    \A c \in Callers :
        /\ call[c].at \in {"idle", "allocate", "add"} => call[c].sem = 0
        /\ call[c].at = "allocate" => call[c].service \in Services
        /\ call[c].sem \in {0, 1}
        /\ call[c].sem = 1 => call[c].from = call[c].id

\* An active slot and its caller belong together,
ActiveInv ==
    \A i \in 1..Slots : Active(i) =>
        /\ table[i].caller \in Callers
        /\ call[table[i].caller].at \in {"send", "wait"}
        /\ call[table[i].caller].id = table[i].id
        /\ call[table[i].caller].sem = 0

\* no two active slots have the same caller,
OneSlotInv ==
    \A i, j \in 1..Slots : Active(i) /\ Active(j) /\ table[i].caller = table[j].caller => i = j

\* and a call that sends or waits and has no result yet has an active slot: somebody will
\* call its handler.
CallsRegistered ==
    \A c \in Callers :
        call[c].at \in {"send", "wait"} /\ call[c].sem = 0 =>
            \E i \in 1..Slots : Active(i) /\ table[i].caller = c

CallsInv == SlotInv /\ PostedInv /\ ActiveInv /\ OneSlotInv /\ CallsRegistered

\* IsoClientConnection_close holds no transmit buffer while it runs handleConnection
ClosingInv == tick.at # "out" /\ tick.by = "owner" => owner.at = "closing"

\* The transmit buffer is free, or one of its users has it
BufferInv ==
    "buffer" \notin broken => \/ buffer = 1 /\ Holders = {}
                              \/ buffer = 0 /\ \E h \in Holders : Holders = {h}

IInv == TypeOK /\ CallsInv /\ ClosingInv /\ BufferInv

-----------------------------------------------------------------------------
(* What the definitions yield *)

\* A set of naturals that is not empty has a smallest element.
LEMMA Smallest ==
  ASSUME NEW S, S \subseteq Nat, S # {}
  PROVE  \E x \in S : \A y \in S : x <= y
<1>1. PICK x \in S : \A y \in S : ~(<<y, x>> \in OpToRel(<, Nat))
  BY WFMin, NatLessThanWellFounded, Zenon
<1>2. \A y \in S : ~(y < x)
  BY ZenonT(30), <1>1 DEF OpToRel
<1> QED
  BY <1>2

\* Every handler reports success or an error, whatever arrived.
LEMMA Results ==
  ASSUME NEW service, NEW answer
  PROVE  handleAsyncResponse(service, answer) \subseteq {"NONE", "error"}
<1>1. CASE answer = "response"
  BY <1>1 DEF handleAsyncResponse
<1>2. CASE answer = "garbled"
  BY <1>2 DEF handleAsyncResponse
<1>3. CASE answer # "response" /\ answer # "garbled"
  BY <1>3 DEF handleAsyncResponse
<1> QED
  BY <1>1, <1>2, <1>3

\* A thread that has returned from a service is ready for the next one.
LEMMA NoCallType ==
  ASSUME CallType, NEW c \in Callers
  PROVE  NoCall(c) \in Calls
BY DEF CallType, Calls, Kinds, NoCall

\* An entry that is not in use is an entry.
LEMMA UnusedType == Unused \in Entries
BY DEF Unused, Entries, Kinds

-----------------------------------------------------------------------------
(* The table of outstanding calls *)

\* A handler runs: for an answer, a timeout or the end of the connection.
LEMMA HandlerStep ==
  ASSUME TypeOK, CallsInv, NEW i \in 1..Slots, table[i].used,
         tick.at \notin {"remove", "closedFree"},
         NEW result \in {"NONE", "error"}, Handle(i, table[i].id, result),
         UNCHANGED table, tick'.at \in {"remove", "closedFree"}, tick'.slot = i
  PROVE  CallsInv' /\ call' \in [Callers -> Calls]
<1> DEFINE d == table[i].caller
<1>1. /\ d \in Callers
      /\ call[d].at \in {"send", "wait"} /\ call[d].id = table[i].id /\ call[d].sem = 0
  BY Zenon DEF CallsInv, ActiveInv, Active, Freeing
<1>2. \A c \in Callers \ {d} : call'[c] = call[c]
  BY DEF TypeOK, CallType, Handle
<1>3. /\ call'[d].at = call[d].at /\ call'[d].id = call[d].id
      /\ call'[d].sem = 1 /\ call'[d].from = table[i].id
      /\ call' \in [Callers -> Calls]
  <2>1. table[i].id \in Nat /\ call \in [Callers -> Calls]
    BY SMTT(20) DEF TypeOK, CallType, TableType, Entries
  <2>2. call'[d] = [call[d] EXCEPT !.sem = @ + 1, !.result = result, !.from = table[i].id]
    BY Zenon, <1>1, <2>1 DEF Handle, Calls
  <2>3. call' \in [Callers -> Calls]
    <3>1. call'[d] \in Calls
      <4>1. call[d] \in Calls /\ call[d].sem + 1 \in Nat
        BY <1>1, <2>1
      <4>2. [call[d] EXCEPT !.sem = @ + 1] \in Calls
        BY Zenon, <4>1 DEF Calls
      <4> QED
        BY ZenonT(30), <2>1, <2>2, <4>1, <4>2 DEF Calls
    <3>2. call' = [call EXCEPT ![d] = call'[d]]
      BY ZenonT(30), <1>1, <2>1 DEF Handle
    <3> QED
      BY <1>1, <2>1, <3>1, <3>2
  <2> QED
    BY <1>1, <2>1, <2>2, <2>3 DEF Calls
<1>4. \A j \in 1..Slots : Active(j)' <=> Active(j) /\ j # i
  BY DEF Active, Freeing
<1>5. SlotInv'
  BY DEF SlotInv
<1>6. PostedInv'
  BY <1>1, <1>2, <1>3 DEF CallsInv, PostedInv
<1>7. ActiveInv'
  <2> SUFFICES ASSUME NEW j \in 1..Slots, Active(j)'
               PROVE  /\ table[j].caller \in Callers
                      /\ call'[table[j].caller].at \in {"send", "wait"}
                      /\ call'[table[j].caller].id = table[j].id
                      /\ call'[table[j].caller].sem = 0
    BY DEF ActiveInv
  <2>1. Active(j) /\ j # i /\ Active(i)
    BY <1>4 DEF Active, Freeing
  <2>2. table[j].caller # d
    BY <2>1 DEF CallsInv, OneSlotInv
  <2> QED
    BY <1>2, <2>1, <2>2 DEF CallsInv, ActiveInv
<1>8. OneSlotInv'
  BY <1>4 DEF CallsInv, OneSlotInv
<1>9. CallsRegistered'
  <2> SUFFICES ASSUME NEW c \in Callers, call'[c].at \in {"send", "wait"}, call'[c].sem = 0
               PROVE  \E j \in 1..Slots : Active(j)' /\ table[j].caller = c
    BY DEF CallsRegistered
  <2>1. c # d
    BY <1>3
  <2>2. PICK j \in 1..Slots : Active(j) /\ table[j].caller = c
    BY <1>2, <2>1 DEF CallsInv, CallsRegistered
  <2> QED
    BY <1>4, <2>1, <2>2
<1> QED
  BY <1>3, <1>5, <1>6, <1>7, <1>8, <1>9 DEF CallsInv

\* The slot of a call whose handler has run is freed.
LEMMA FreeStep ==
  ASSUME TypeOK, CallsInv, tick.at \in {"remove", "closedFree"},
         table' = [table EXCEPT ![tick.slot] = Unused], UNCHANGED call,
         tick'.at \in {"tick", "closed"}, tick'.at = "closed" => tick'.slot >= 1
  PROVE  CallsInv' /\ TableType'
<1>1. tick.slot \in 1..Slots /\ table[tick.slot].used
  BY DEF CallsInv, SlotInv
<1>2. TableType'
  BY Zenon, UnusedType DEF TypeOK, TableType
<1>3. \A j \in 1..Slots : /\ Active(j)' <=> Active(j)
                          /\ Active(j) => table'[j] = table[j]
  BY <1>1 DEF TypeOK, TableType, Active, Freeing, Unused
<1>4. SlotInv' /\ PostedInv'
  BY DEF CallsInv, SlotInv, PostedInv
<1>5. ActiveInv' /\ OneSlotInv'
  BY <1>3 DEF CallsInv, ActiveInv, OneSlotInv
<1>6. CallsRegistered'
  BY <1>3 DEF CallsInv, CallsRegistered
<1> QED
  BY <1>2, <1>4, <1>5, <1>6 DEF CallsInv

\* The calls and their slots stay as they are, but for the time limits.
LEMMA QuietStep ==
  ASSUME TypeOK, CallsInv, UNCHANGED call,
         \A j \in 1..Slots : /\ table'[j].used = table[j].used /\ table'[j].id = table[j].id
                             /\ table'[j].caller = table[j].caller,
         UNCHANGED tick \/ {tick.at, tick'.at} \cap {"remove", "closedFree"} = {},
         tick'.at = "closed" => tick'.slot >= 1
  PROVE  CallsInv'
<1>1. \A j \in 1..Slots : Active(j)' <=> Active(j)
  BY Zenon DEF Active, Freeing
<1>2. SlotInv' /\ PostedInv'
  BY Zenon DEF CallsInv, SlotInv, PostedInv
<1>3. ActiveInv' /\ OneSlotInv'
  BY <1>1 DEF CallsInv, ActiveInv, OneSlotInv
<1>4. CallsRegistered'
  BY <1>1 DEF CallsInv, CallsRegistered
<1> QED
  BY <1>2, <1>3, <1>4 DEF CallsInv

\* A call that has no active slot goes to a place where it has none.
LEMMA AwayStep ==
  ASSUME TypeOK, CallsInv, NEW c \in Callers, NEW r \in Calls,
         call[c].at \notin {"send", "wait"} \/ call[c].sem > 0,
         call' = [call EXCEPT ![c] = r], r.sem = 0, r.at \in {"idle", "allocate", "add"},
         r.at = "allocate" => r.service \in Services, UNCHANGED <<table, tick>>
  PROVE  CallsInv'
<1>1. call'[c] = r /\ \A d \in Callers \ {c} : call'[d] = call[d]
  BY DEF TypeOK, CallType
<1>2. \A j \in 1..Slots : (Active(j)' <=> Active(j)) /\ (Active(j) => table[j].caller # c)
  BY DEF CallsInv, ActiveInv, Active, Freeing
<1>3. SlotInv' /\ PostedInv'
  BY <1>1 DEF CallsInv, SlotInv, PostedInv
<1>4. ActiveInv'
  BY <1>1, <1>2 DEF CallsInv, ActiveInv
<1>5. OneSlotInv'
  BY <1>2 DEF CallsInv, OneSlotInv
<1>6. CallsRegistered'
  BY <1>1, <1>2 DEF CallsInv, CallsRegistered
<1> QED
  BY <1>3, <1>4, <1>5, <1>6 DEF CallsInv

\* addToOutstandingCalls registers a call in a slot that nobody uses and nobody is freeing.
LEMMA RegisterStep ==
  ASSUME TypeOK, CallsInv, NEW c \in Callers, call[c].at = "add",
         NEW i \in 1..Slots, ~table[i].used,
         table' = [table EXCEPT ![i] = [used |-> TRUE, id |-> call[c].id, caller |-> c,
                                        service |-> call[c].service, due |-> FALSE]],
         call' = [call EXCEPT ![c].at = "send"], UNCHANGED tick
  PROVE  CallsInv' /\ TableType' /\ call' \in [Callers -> Calls]
<1>1. call'[c] = [call[c] EXCEPT !.at = "send"] /\ \A d \in Callers \ {c} : call'[d] = call[d]
  BY DEF TypeOK, CallType, Calls
<1>2. call[c] \in Calls /\ call[c].sem = 0
  BY DEF TypeOK, CallType, CallsInv, PostedInv
<1>3. /\ call'[c].at = "send" /\ call'[c].id = call[c].id /\ call'[c].sem = 0
      /\ call'[c] \in Calls
  BY <1>1, <1>2 DEF Calls
<1>4. /\ table'[i].used /\ table'[i].id = call[c].id /\ table'[i].caller = c
      /\ \A j \in (1..Slots) \ {i} : table'[j] = table[j]
  BY DEF TypeOK, TableType
<1>5. /\ Active(i)' /\ \A j \in (1..Slots) \ {i} : Active(j)' <=> Active(j)
      /\ \A j \in 1..Slots : Active(j) => j # i /\ table[j].caller # c
  BY <1>4 DEF CallsInv, ActiveInv, SlotInv, Active, Freeing
<1>6. TableType' /\ call' \in [Callers -> Calls]
  <2>1. [used |-> TRUE, id |-> call[c].id, caller |-> c, service |-> call[c].service, due |-> FALSE] \in Entries
    BY <1>2 DEF Entries, Calls
  <2>2. TableType'
    BY <2>1 DEF TypeOK, TableType
  <2>3. call' = [call EXCEPT ![c] = call'[c]]
    BY <1>1 DEF TypeOK, CallType
  <2> QED
    BY <1>3, <2>2, <2>3 DEF TypeOK, CallType
<1>7. SlotInv'
  BY <1>4 DEF CallsInv, SlotInv
<1>8. PostedInv'
  BY SMTT(20), <1>1, <1>3 DEF CallsInv, PostedInv
<1>9. ActiveInv'
  <2> SUFFICES ASSUME NEW j \in 1..Slots, Active(j)'
               PROVE  /\ table'[j].caller \in Callers
                      /\ call'[table'[j].caller].at \in {"send", "wait"}
                      /\ call'[table'[j].caller].id = table'[j].id
                      /\ call'[table'[j].caller].sem = 0
    BY DEF ActiveInv
  <2>1. CASE j = i
    BY <1>3, <1>4, <2>1
  <2>2. CASE j # i
    BY <1>1, <1>4, <1>5, <2>2 DEF CallsInv, ActiveInv
  <2> QED
    BY <2>1, <2>2
<1>10. OneSlotInv'
  BY <1>4, <1>5 DEF CallsInv, OneSlotInv
<1>11. CallsRegistered'
  <2> SUFFICES ASSUME NEW d \in Callers, call'[d].at \in {"send", "wait"}, call'[d].sem = 0
               PROVE  \E j \in 1..Slots : Active(j)' /\ table'[j].caller = d
    BY DEF CallsRegistered
  <2>1. CASE d = c
    BY <1>4, <1>5, <2>1
  <2>2. CASE d # c
    BY <1>1, <1>4, <1>5, <2>2 DEF CallsInv, CallsRegistered
  <2> QED
    BY <2>1, <2>2
<1> QED
  BY <1>6, <1>7, <1>8, <1>9, <1>10, <1>11 DEF CallsInv

\* Sending the request changes nothing of the registration.
LEMMA SendStep ==
  ASSUME TypeOK, CallsInv, NEW c \in Callers, call[c].at = "send",
         call' = [call EXCEPT ![c].at = "wait"], UNCHANGED <<table, tick>>
  PROVE  CallsInv' /\ call' \in [Callers -> Calls]
<1>1. call[c] \in Calls /\ \A d \in Callers \ {c} : call'[d] = call[d]
  BY DEF TypeOK, CallType
<1>2. /\ call'[c].at = "wait" /\ call'[c].id = call[c].id /\ call'[c].sem = call[c].sem
      /\ call'[c].from = call[c].from /\ call'[c] \in Calls
  BY <1>1 DEF TypeOK, CallType, Calls
<1>3. call' \in [Callers -> Calls]
  BY <1>1, <1>2 DEF TypeOK, CallType
<1>4. \A j \in 1..Slots : Active(j)' <=> Active(j)
  BY DEF Active, Freeing
<1>5. SlotInv' /\ PostedInv'
  BY <1>1, <1>2 DEF CallsInv, SlotInv, PostedInv
<1>6. ActiveInv' /\ OneSlotInv'
  BY <1>1, <1>2, <1>4 DEF CallsInv, ActiveInv, OneSlotInv
<1>7. CallsRegistered'
  BY <1>1, <1>2, <1>4 DEF CallsInv, CallsRegistered
<1> QED
  BY <1>3, <1>5, <1>6, <1>7 DEF CallsInv

\* The state of the connection other than its calls
RestType == TickType /\ OwnerType /\ int \in IntStates

\* A caller's step preserves the invariant of the calls.
LEMMA CallerStep ==
  ASSUME TypeOK, CallsInv, NEW c \in Callers, Call(c) \/ Caller(c)
  PROVE  TypeOK' /\ CallsInv'
<1>0. call \in [Callers -> Calls] /\ call[c] \in Calls /\ NoCall(c) \in Calls /\ NoCall(c).sem = 0
      /\ NoCall(c).at = "idle"
  BY Zenon, NoCallType DEF TypeOK, CallType, NoCall
<1>1. RestType'
  BY DEF TypeOK, RestType, TickType, OwnerType, Call, Check, Caller, Allocate, addToOutstandingCalls,
     IsoClientConnection_sendMessage, Return
<1>2. ASSUME NEW r \in Calls, call' = [call EXCEPT ![c] = r], r.sem = 0,
             call[c].at \notin {"send", "wait"} \/ call[c].sem > 0,
             r.at \in {"idle", "allocate", "add"}, r.at = "allocate" => r.service \in Services,
             UNCHANGED <<table, tick, sent>>, nextId' \in Nat, buffer' \in Nat
      PROVE  TypeOK' /\ CallsInv'
  <2>1. CallsInv'
    BY ZenonT(30), <1>2, AwayStep
  <2>2. CallType' /\ TableType'
    BY <1>0, <1>2 DEF TypeOK, CallType, TableType
  <2> QED
    BY <1>1, <1>2, <2>1, <2>2 DEF TypeOK, RestType
<1>3. CASE Call(c)
  <2>1. PICK service \in Services : Check(c, service)
    BY <1>3, UsedAssumption DEF Call
  <2>2. CASE call' = [call EXCEPT ![c] = NoCall(c)]
    BY Zenon, <1>0, <1>2, <1>3, <2>1, <2>2 DEF TypeOK, CallType, Call, Check
  <2>3. CASE call' = [call EXCEPT ![c].at = "allocate", ![c].service = service]
    <3> DEFINE r == [call[c] EXCEPT !.at = "allocate", !.service = service]
    <3>1. r \in Calls /\ r.at = "allocate" /\ r.service = service /\ r.sem = call[c].sem
      BY Zenon, <1>0, <2>1 DEF Calls, Kinds
    <3>2. call' = [call EXCEPT ![c] = r]
      BY Zenon, <1>0, <2>3 DEF Calls
    <3>3. call[c].at = "idle" /\ call[c].sem = 0
      BY <1>3 DEF Call, CallsInv, PostedInv
    <3> HIDE DEF r
    <3> QED
      BY Zenon, <1>2, <2>1, <3>1, <3>2, <3>3 DEF TypeOK, CallType, Check
  <2> QED
    BY <2>1, <2>2, <2>3 DEF Check
<1>4. CASE Allocate(c)
  <2>1. call[c].at = "allocate" /\ call[c].sem = 0 /\ call[c].service \in Services
    BY <1>4 DEF Allocate, CallsInv, PostedInv
  <2>2. nextId' \in Nat /\ buffer' \in Nat /\ nextId \in Nat /\ UNCHANGED <<table, tick, sent>>
    BY <1>4 DEF TypeOK, CallType, Allocate
  <2>3. CASE call' = [call EXCEPT ![c] = NoCall(c)]
    BY Zenon, <1>0, <1>2, <2>1, <2>2, <2>3
  <2>4. CASE call' = [call EXCEPT ![c].at = "add", ![c].id = nextId,
                                  ![c].service = [parses |-> @.parses, pages |-> @.pages]]
    <3> DEFINE k == [parses |-> call[c].service.parses, pages |-> call[c].service.pages]
               r == [call[c] EXCEPT !.at = "add", !.id = nextId, !.service = k]
    <3>1. k \in Kinds
      BY <2>1 DEF Kinds
    <3>2. call' = [call EXCEPT ![c] = r]
      BY Zenon, <1>0, <2>4 DEF Calls
    <3> HIDE DEF k
    <3>3. r \in Calls /\ r.at = "add" /\ r.sem = call[c].sem
      BY Zenon, <1>0, <2>2, <3>1 DEF Calls
    <3> HIDE DEF r
    <3> QED
      BY Zenon, <1>2, <2>1, <2>2, <3>2, <3>3
  <2> QED
    BY <1>4, <2>3, <2>4 DEF Allocate
<1>5. CASE addToOutstandingCalls(c)
  <2> DEFINE free == {i \in 1..Slots : ~table[i].used}
             first == CHOOSE i \in free : \A j \in free : i <= j
  <2>1. call[c].at = "add" /\ UNCHANGED <<tick, nextId, sent>>
    BY <1>5 DEF addToOutstandingCalls
  <2>2. CASE /\ free # {}
             /\ table' = [table EXCEPT ![first] = [used |-> TRUE, id |-> call[c].id, caller |-> c,
                                                   service |-> call[c].service, due |-> FALSE]]
             /\ call' = [call EXCEPT ![c].at = "send"]
             /\ UNCHANGED buffer
    <3>1. free \subseteq Nat
      BY BoundsAssumption
    <3>2. first \in free
      <4> HIDE DEF free
      <4>1. \E x \in free : \A y \in free : x <= y
        BY Zenon, <2>2, <3>1, Smallest
      <4> QED
        BY <4>1, Zenon
    <3>3. first \in 1..Slots /\ ~table[first].used
      BY <3>2
    <3> HIDE DEF first
    <3>4. CallsInv' /\ TableType' /\ call' \in [Callers -> Calls]
      BY Zenon, <2>1, <2>2, <3>3, RegisterStep
    <3> QED
      BY <1>1, <2>1, <2>2, <3>4 DEF TypeOK, RestType, CallType
  <2>3. CASE buffer' = buffer + 1 /\ call' = [call EXCEPT ![c] = NoCall(c)] /\ UNCHANGED table
    <3>1. nextId' \in Nat /\ buffer' \in Nat
      BY <2>1, <2>3 DEF TypeOK, CallType
    <3> QED
      BY Zenon, <1>0, <1>2, <2>1, <2>3, <3>1
  <2> QED
    BY <1>5, <2>2, <2>3 DEF addToOutstandingCalls
<1>6. CASE IsoClientConnection_sendMessage(c)
  <2>1. CallsInv' /\ call' \in [Callers -> Calls]
    BY Zenon, <1>6, SendStep DEF IsoClientConnection_sendMessage
  <2>2. sent' \in SUBSET Nat /\ buffer' \in Nat
    BY <1>0, <1>6 DEF TypeOK, CallType, Calls, IsoClientConnection_sendMessage
  <2> QED
    BY <1>1, <1>6, <2>1, <2>2 DEF TypeOK, RestType, CallType, TableType, IsoClientConnection_sendMessage
<1>7. CASE Return(c)
  <2>1. call[c].at = "wait" /\ call[c].sem > 0 /\ UNCHANGED <<table, tick, sent, nextId, buffer>>
    BY <1>7 DEF Return
  <2>2. CASE call' = [call EXCEPT ![c] = NoCall(c)]
    BY Zenon, <1>0, <1>2, <2>1, <2>2 DEF TypeOK, CallType
  <2>3. CASE call' = [call EXCEPT ![c] = [NoCall(c) EXCEPT !.at = "allocate", !.service = mmsClient_getNameList]]
    <3> DEFINE r == [NoCall(c) EXCEPT !.at = "allocate", !.service = mmsClient_getNameList]
    <3>1. mmsClient_getNameList \in Services
      BY DEF Services
    <3>2. r \in Calls /\ r.at = "allocate" /\ r.sem = 0 /\ r.service \in Services
      BY Zenon, <1>0, <3>1 DEF Calls, Kinds
    <3> HIDE DEF r
    <3> QED
      BY Zenon, <1>2, <2>1, <2>3, <3>2 DEF TypeOK, CallType, r
  <2> QED
    BY <1>7, <2>2, <2>3 DEF Return
<1> QED
  BY <1>3, <1>4, <1>5, <1>6, <1>7 DEF Caller

-----------------------------------------------------------------------------
(* The connection thread and the owner *)

\* Telling the owner of a new state leaves it where it is.
LEMMA SetState ==
  ASSUME OwnerType, NEW state, setConnectionState(state)
  PROVE  OwnerType' /\ owner'.at = owner.at
<1>1. CASE UNCHANGED owner
  BY <1>1 DEF OwnerType
<1>2. CASE state \in {"CLOSED", "CONNECTED"} /\ owner' = [owner EXCEPT !.sem = @ + 1, !.state = state]
  <2>1. owner.sem + 1 \in Nat /\ state \in {"CLOSED", "CONNECTING", "CONNECTED"}
    BY <1>2 DEF OwnerType
  <2>2. owner' = [owner EXCEPT !.sem = owner.sem + 1, !.state = state]
    BY <1>2 DEF OwnerType
  <2> QED
    BY Zenon, <2>1, <2>2 DEF OwnerType
<1> QED
  BY <1>1, <1>2 DEF setConnectionState

\* So does the conclude handler.
LEMMA ConcludeHandler ==
  ASSUME OwnerType, CallConcludeHandler
  PROVE  OwnerType' /\ owner'.at = owner.at
BY DEF OwnerType, CallConcludeHandler

\* handleConnection is entered when nobody is in it, by the owner only inside close.
LEMMA Entered ==
  ASSUME TickType, NEW by \in {"thread", "owner"}, NEW next \in IntStates, NEW slot \in Nat,
         NEW at \in {"tick", "remove", "respond", "closed", "forgetRespond", "forgetTick"},
         Enter(by, at, slot, next)
  PROVE  /\ TickType' /\ tick.at = "out"
         /\ tick'.at = at /\ tick'.slot = slot /\ tick'.next = next /\ tick'.by = by
         /\ by = "owner" => owner.at = "closing"
BY DEF TickType, TickPlaces, Enter

\* handleConnection goes to its next step.
LEMMA Moved ==
  ASSUME TickType, NEW at \in TickPlaces, NEW slot \in Nat, tick' = [tick EXCEPT !.at = at, !.slot = slot]
  PROVE  /\ TickType' /\ tick'.at = at /\ tick'.slot = slot
         /\ tick'.by = tick.by /\ tick'.next = tick.next
BY ZenonT(30) DEF TickType

\* Entering handleConnection for anything but an answer leaves the calls alone.
LEMMA EnterStep ==
  ASSUME TypeOK, CallsInv, ClosingInv, NEW by \in {"thread", "owner"}, NEW next \in IntStates,
         NEW slot \in Nat, NEW at \in {"tick", "respond", "closed", "forgetRespond", "forgetTick"},
         Enter(by, at, slot, next),
         at = "closed" => slot >= 1,
         UNCHANGED <<table, call, nextId, sent, int>>, OwnerType', owner'.at = owner.at, buffer' \in Nat
  PROVE  TypeOK' /\ CallsInv' /\ ClosingInv'
<1>1. /\ TickType' /\ tick.at = "out" /\ tick'.at = at /\ tick'.slot = slot /\ tick'.by = by
      /\ by = "owner" => owner.at = "closing"
  BY Entered DEF TypeOK
<1>2. CallsInv'
  BY <1>1, QuietStep
<1>3. TypeOK'
  BY <1>1 DEF TypeOK, CallType, TableType
<1> QED
  BY <1>1, <1>2, <1>3 DEF ClosingInv

\* handleConnection takes up what it finds.
LEMMA HandleConnectionStep ==
  ASSUME TypeOK, CallsInv, ClosingInv, NEW by \in {"thread", "owner"}, HandleConnection(by)
  PROVE  TypeOK' /\ CallsInv' /\ ClosingInv'
<1>0. /\ int \in IntStates
      /\ {"CLOSE_ON_ERROR", "CLOSING_CONNECTION", "ERROR", "IDLE", "WAIT_FOR_DATA_MSG",
          "WAIT_FOR_COTP_CONNECT_RESP", "WAIT_FOR_ACSE_RESP"} \subseteq IntStates
      /\ OwnerType /\ TickType /\ buffer \in Nat /\ buffer + 1 \in Nat
  BY DEF TypeOK, IntStates, Connecting
<1>1. CASE Waits(by) \/ TcpConnected(by) \/ CotpConnected(by) \/ LinkLost(by) \/ FileRequestArrives(by)
  <2>1. \E at \in {"tick", "respond"}, next \in IntStates : Enter(by, at, 0, next)
    BY <1>0, <1>1 DEF Waits, TcpConnected, CotpConnected, LinkLost, FileRequestArrives, Message
  <2>2. UNCHANGED <<table, call, nextId, sent, int, owner>> /\ buffer' \in Nat
    BY <1>0, <1>1 DEF Waits, TcpConnected, CotpConnected, LinkLost, FileRequestArrives
  <2>3. OwnerType' /\ owner'.at = owner.at
    BY <1>0, <2>2 DEF OwnerType
  <2> QED
    BY <2>1, <2>2, <2>3, EnterStep
<1>2. CASE AssociationFails(by) \/ Associated(by) \/ LateInitiate(by) \/ Closed(by)
  <2>1. \E at \in {"tick", "closed"}, slot \in {0, 1}, next \in IntStates :
           Enter(by, at, slot, next) /\ (at = "closed" => slot >= 1)
    BY <1>0, <1>2 DEF AssociationFails, Associated, LateInitiate, Closed
  <2>2. UNCHANGED <<table, call, nextId, sent, int>> /\ buffer' \in Nat
    BY <1>0, <1>2 DEF AssociationFails, Associated, LateInitiate, Closed
  <2>3. OwnerType' /\ owner'.at = owner.at
    <3>1. (\E state : setConnectionState(state)) \/ UNCHANGED owner
      BY Zenon, <1>2 DEF AssociationFails, Associated, LateInitiate, Closed
    <3>2. CASE UNCHANGED owner
      BY <1>0, <3>2 DEF OwnerType
    <3> QED
      BY <1>0, <3>1, <3>2, SetState
  <2> QED
    BY <2>1, <2>2, <2>3, EnterStep
<1>3. CASE ConcludeAnswered(by)
  <2>1. \E at \in {"tick", "respond", "forgetRespond", "forgetTick"} : Enter(by, at, 0, "WAIT_FOR_DATA_MSG")
    BY <1>3 DEF ConcludeAnswered, Message
  <2>2. UNCHANGED <<table, call, nextId, sent, int, buffer>>
    BY <1>3 DEF ConcludeAnswered
  <2>3. OwnerType' /\ owner'.at = owner.at
    BY <1>0, <1>3, ConcludeHandler DEF ConcludeAnswered, OwnerType
  <2> QED
    BY <1>0, <2>1, <2>2, <2>3, EnterStep
<1>4. CASE AnswerArrives(by)
  <2>1. PICK id \in sent, answer \in Answers :
          /\ \E i \in checkForOutstandingCall(id) :
                /\ Message(by, "remove", i)
                /\ \E result \in handleAsyncResponse(table[i].service, answer) : Handle(i, id, result)
          /\ sent' = sent \ {id}
    BY <1>4 DEF AnswerArrives
  <2>2. PICK i \in checkForOutstandingCall(id) :
                /\ Message(by, "remove", i)
                /\ \E result \in handleAsyncResponse(table[i].service, answer) : Handle(i, id, result)
    BY <2>1
  <2>3. PICK result \in {"NONE", "error"} : Handle(i, id, result)
    BY <2>2, Results
  <2>4. i \in 1..Slots /\ i \in Nat /\ table[i].used /\ table[i].id = id
    BY BoundsAssumption DEF checkForOutstandingCall
  <2>5. /\ TickType' /\ tick.at = "out" /\ tick'.at = "remove" /\ tick'.slot = i /\ tick'.by = by
        /\ by = "owner" => owner.at = "closing"
    BY <1>0, <2>2, <2>4, Entered DEF Message
  <2>6. UNCHANGED <<int, buffer, table, nextId, owner>>
    BY <1>4 DEF AnswerArrives
  <2>7. CallsInv' /\ call' \in [Callers -> Calls]
    BY <2>3, <2>4, <2>5, <2>6, HandlerStep
  <2>8. TypeOK'
    BY <2>1, <2>5, <2>6, <2>7 DEF TypeOK, CallType, TableType, OwnerType
  <2> QED
    BY <2>5, <2>6, <2>7, <2>8 DEF ClosingInv
<1> QED
  BY <1>1, <1>2, <1>3, <1>4 DEF HandleConnection

\* After concludeHandler = NULL handleConnection goes on in the same turn.
LEMMA Forgotten ==
  ASSUME TickType, ForgetConcludeHandler
  PROVE  /\ TickType' /\ tick'.by = tick.by /\ tick'.next = tick.next
         /\ tick.at \in {"forgetRespond", "forgetTick", "forgetLeave"}
         /\ tick'.at \in {"respond", "tick", "leave"}
<1>1. /\ DOMAIN Forgetting = {"forgetRespond", "forgetTick", "forgetLeave"}
      /\ \A at \in DOMAIN Forgetting : Forgetting[at] \in {"respond", "tick", "leave"}
  BY DEF Forgetting
<1>2. tick' = [tick EXCEPT !.at = Forgetting[tick.at]] /\ tick.at \in DOMAIN Forgetting
  BY DEF TickType, ForgetConcludeHandler
<1> QED
  BY <1>1, <1>2 DEF TickType, TickPlaces

\* handleConnection goes on, and leaves.
LEMMA TickStep ==
  ASSUME TypeOK, CallsInv, ClosingInv, TickSteps
  PROVE  TypeOK' /\ CallsInv' /\ ClosingInv'
<1>0. TickType /\ OwnerType /\ CallType /\ TableType /\ int \in IntStates /\ buffer \in Nat
  BY DEF TypeOK
<1>1. CASE Remove \/ ClosedFree
  <2>1. /\ tick.at \in {"remove", "closedFree"} /\ table' = [table EXCEPT ![tick.slot] = Unused]
        /\ UNCHANGED <<int, buffer, nextId, sent, call, owner>>
    BY <1>1 DEF Remove, ClosedFree
  <2>2. /\ TickType' /\ tick'.by = tick.by /\ tick'.at \in {"tick", "closed"}
        /\ tick'.at = "closed" => tick'.slot >= 1
    <3>1. tick.slot \in Nat /\ tick.slot + 1 \in Nat /\ tick.slot + 1 >= 1
      BY SMTT(20), <1>0 DEF TickType
    <3>2. CASE Remove
      BY ZenonT(30), <1>0, <3>2, Moved DEF Remove, TickPlaces
    <3>3. CASE ClosedFree
      <4>1. tick' = [tick EXCEPT !.at = "closed", !.slot = tick.slot + 1]
        BY <1>0, <3>3 DEF ClosedFree, TickType
      <4> QED
        BY Zenon, <1>0, <3>1, <4>1, Moved DEF TickPlaces
    <3> QED
      BY <1>1, <3>2, <3>3
  <2>3. CallsInv' /\ TableType'
    BY <2>1, <2>2, FreeStep
  <2>4. TypeOK'
    BY <2>1, <2>2, <2>3 DEF TypeOK, CallType, OwnerType
  <2> QED
    BY <2>1, <2>2, <2>3, <2>4 DEF ClosingInv
<1>2. ASSUME NEW i \in 1..Slots, table[i].used, tick.at \in {"tick", "closed"},
             NEW at \in {"remove", "closedFree"}, tick' = [tick EXCEPT !.at = at, !.slot = i],
             \E result \in handleAsyncResponse(table[i].service, "SERVICE_TIMEOUT") :
                Handle(i, table[i].id, result),
             UNCHANGED <<int, buffer, table, nextId, sent, owner>>
      PROVE  TypeOK' /\ CallsInv' /\ ClosingInv'
  <2>1. PICK result \in {"NONE", "error"} : Handle(i, table[i].id, result)
    BY SMTT(20), <1>2, Results
  <2>2. TickType' /\ tick'.at = at /\ tick'.slot = i /\ tick'.by = tick.by
    <3>1. i \in Nat /\ at \in TickPlaces
      BY <1>2, BoundsAssumption DEF TickPlaces
    <3> QED
      BY Zenon, <1>0, <1>2, <3>1, Moved
  <2>3. CallsInv' /\ call' \in [Callers -> Calls]
    BY <1>2, <2>1, <2>2, HandlerStep
  <2>4. TypeOK'
    BY SMTT(20), <1>2, <2>2, <2>3 DEF TypeOK, CallType, TableType, OwnerType
  <2> QED
    BY <1>2, <2>2, <2>3, <2>4 DEF ClosingInv
<1>3. CASE TickLoop
  BY Zenon, <1>2, <1>3 DEF TickLoop, Due
<1>4. CASE ClosedLoop
  <2>1. tick.slot \in 1..Slots /\ tick.at = "closed"
    BY SMTT(20), <1>0, <1>4, BoundsAssumption DEF ClosedLoop, CallsInv, SlotInv, TickType
  <2>2. CASE table[tick.slot].used /\ tick' = [tick EXCEPT !.at = "closedFree"]
    <3>1. tick' = [tick EXCEPT !.at = "closedFree", !.slot = tick.slot]
      BY Zenon, <1>0, <2>2 DEF TickType
    <3> QED
      BY ZenonT(30), <1>2, <1>4, <2>1, <2>2, <3>1 DEF ClosedLoop
  <2>3. CASE tick' = [tick EXCEPT !.slot = @ + 1] /\ UNCHANGED call
    <3>1. TickType' /\ tick'.by = tick.by /\ tick'.at = "closed" /\ tick'.slot >= 1
      BY <1>0, <2>1, <2>3 DEF TickType
    <3>2. UNCHANGED <<int, buffer, table, nextId, sent, owner>>
      BY <1>4 DEF ClosedLoop
    <3>3. CallsInv'
      BY <2>1, <2>3, <3>1, <3>2, QuietStep
    <3> QED
      BY <1>0, <2>1, <2>3, <3>1, <3>2, <3>3 DEF TypeOK, CallType, TableType, OwnerType, ClosingInv
  <2> QED
    BY <1>4, <2>2, <2>3 DEF ClosedLoop
<1>5. CASE ClosedLoopEnds \/ ThreadSends
  <2>1. /\ TickType' /\ tick'.by = tick.by /\ tick'.at = "tick" /\ tick.at \in {"closed", "respond"}
        /\ UNCHANGED <<int, buffer, table, nextId, sent, call, owner>>
    <3>1. CASE ClosedLoopEnds
      BY ZenonT(30), <1>0, <3>1, Moved DEF ClosedLoopEnds, TickPlaces
    <3>2. CASE ThreadSends
      <4>1. tick' = [tick EXCEPT !.at = "tick", !.slot = tick.slot] /\ tick.slot \in Nat
        BY Zenon, <1>0, <3>2 DEF ThreadSends, TickType
      <4> QED
        BY ZenonT(30), <1>0, <3>2, <4>1, Moved DEF ThreadSends, TickPlaces
    <3> QED
      BY SMTT(20), <1>5, <3>1, <3>2
  <2>2. CallsInv'
    BY <2>1, QuietStep
  <2> QED
    BY <1>0, <2>1, <2>2 DEF TypeOK, CallType, TableType, OwnerType, ClosingInv
<1>6. CASE Leave
  <2>1. /\ tick.at \in {"tick", "leave"} /\ tick' = Out /\ int' = tick.next
        /\ UNCHANGED <<buffer, table, nextId, sent, call>>
    BY <1>6 DEF Leave
  <2>2. TickType' /\ tick'.at = "out" /\ int' \in IntStates
    BY <1>0, <2>1 DEF TickType, TickPlaces, Out, IntStates
  <2>3. OwnerType'
    BY <1>0, <1>6 DEF Leave, OwnerType, OwnerPlaces
  <2>4. CallsInv'
    BY <2>1, <2>2, QuietStep
  <2> QED
    BY <1>0, <2>1, <2>2, <2>3, <2>4 DEF TypeOK, CallType, TableType, ClosingInv
<1>7. CASE TickConclude \/ ForgetConcludeHandler
  <2>1. UNCHANGED <<int, buffer, table, nextId, sent, call>>
    BY <1>7 DEF TickConclude, ForgetConcludeHandler
  <2>2. /\ TickType' /\ tick'.by = tick.by /\ tick.at # "out"
        /\ {tick.at, tick'.at} \cap {"remove", "closedFree", "closed"} = {}
    BY <1>0, <1>7, Forgotten DEF TickConclude, TickType, TickPlaces
  <2>3. OwnerType' /\ owner'.at = owner.at
    BY <1>0, <1>7, ConcludeHandler DEF TickConclude, ForgetConcludeHandler, OwnerType
  <2>4. CallsInv'
    BY <2>1, <2>2, QuietStep
  <2> QED
    BY <1>0, <2>1, <2>2, <2>3, <2>4 DEF TypeOK, CallType, TableType, ClosingInv
<1> QED
  BY <1>1, <1>3, <1>4, <1>5, <1>6, <1>7 DEF TickSteps

\* The owner goes to another place in its calls.
LEMMA OwnerMoves ==
  ASSUME OwnerType, NEW place \in OwnerPlaces,
         \/ At(place)
         \/ owner' = [owner EXCEPT !.at = place, !.sem = 0]
         \/ owner' = [owner EXCEPT !.at = place, !.state = "CLOSED"]
  PROVE  OwnerType' /\ owner'.at = place
<1>1. CASE At(place)
  BY <1>1 DEF OwnerType, At
<1>2. CASE owner' = [owner EXCEPT !.at = place, !.sem = 0]
  BY Zenon, <1>2 DEF OwnerType
<1>3. CASE owner' = [owner EXCEPT !.at = place, !.state = "CLOSED"]
  BY ZenonT(30), <1>3 DEF OwnerType
<1> QED
  BY <1>1, <1>2, <1>3

OwnerAct == OwnerTakesMutex \/ OwnerSteps \/ OwnerCalls \/ sendAbortMessage

\* No step of the owner outside handleConnection touches the calls.
LEMMA OwnerStep ==
  ASSUME TypeOK, CallsInv, ClosingInv, OwnerAct
  PROVE  TypeOK' /\ CallsInv' /\ ClosingInv'
<1>0. OwnerType /\ TickType /\ int \in IntStates /\ buffer \in Nat
  BY DEF TypeOK
<1>1. UNCHANGED <<table, call, nextId, sent, tick>> /\ owner.at # "closing"
  BY Zenon DEF OwnerAct, OwnerTakesMutex, OwnerSteps, OwnerCalls, sendAbortMessage,
     MmsConnection_connectAsync,
     ConnectReturns, ConcludeParameter, SendConclude, ConcludeReturns, MmsConnection_connect,
     MmsConnection_conclude, MmsConnection_close, MmsConnection_abort, IsoClientConnection_associateAsync,
     IsoClientConnection_close
<1>2. tick.at = "out" \/ tick.by # "owner"
  BY <1>1 DEF ClosingInv
<1>3. int' \in IntStates
  BY Zenon, <1>0 DEF OwnerAct, OwnerTakesMutex, OwnerSteps, OwnerCalls, sendAbortMessage,
     MmsConnection_connectAsync,
     ConnectReturns, ConcludeParameter, SendConclude, ConcludeReturns, MmsConnection_connect,
     MmsConnection_conclude, MmsConnection_close, MmsConnection_abort, IsoClientConnection_associateAsync,
     IsoClientConnection_close, IntStates, Connecting
<1>4. buffer' \in Nat
  <2>1. buffer + 1 \in Nat /\ (buffer > 0 => buffer - 1 \in Nat)
    BY <1>0
  <2>2. buffer' \in {buffer, buffer + 1} \/ (buffer > 0 /\ buffer' = buffer - 1)
    BY Zenon DEF OwnerAct, OwnerTakesMutex, OwnerSteps, OwnerCalls, sendAbortMessage,
       MmsConnection_connectAsync,
       ConnectReturns, ConcludeParameter, SendConclude, ConcludeReturns, MmsConnection_connect,
       MmsConnection_conclude, MmsConnection_close, MmsConnection_abort, IsoClientConnection_associateAsync,
       IsoClientConnection_close
  <2> QED
    BY <1>0, <2>1, <2>2
<1>5. OwnerType'
  <2>1. CASE OwnerTakesMutex
    BY <1>0, <2>1, OwnerMoves DEF OwnerPlaces, OwnerTakesMutex, IsoClientConnection_associateAsync,
       IsoClientConnection_close
  <2>2. CASE OwnerSteps
    BY <1>0, <2>2, OwnerMoves DEF OwnerPlaces, OwnerSteps, MmsConnection_connectAsync, ConnectReturns,
       ConcludeParameter, SendConclude, ConcludeReturns
  <2>3. CASE MmsConnection_connect
    BY <1>0, <2>3 DEF OwnerType, OwnerPlaces, MmsConnection_connect
  <2>4. CASE MmsConnection_conclude \/ MmsConnection_close \/ MmsConnection_abort \/ sendAbortMessage
    BY Zenon, <1>0, <2>4, OwnerMoves DEF OwnerPlaces, MmsConnection_conclude, MmsConnection_close,
       MmsConnection_abort, sendAbortMessage
  <2> QED
    BY <2>1, <2>2, <2>3, <2>4 DEF OwnerAct, OwnerCalls
<1>6. CallsInv'
  BY <1>1, QuietStep DEF CallsInv, SlotInv
<1> QED
  BY <1>1, <1>2, <1>3, <1>4, <1>5, <1>6 DEF TypeOK, CallType, TableType, TickType, ClosingInv

\* Time passes for a registered call.
LEMMA TimeoutStep ==
  ASSUME TypeOK, CallsInv, ClosingInv, NEW i \in 1..Slots, RequestTimeout(i)
  PROVE  TypeOK' /\ CallsInv' /\ ClosingInv'
<1>1. UNCHANGED <<int, tick, buffer, nextId, sent, call, owner>> /\ table \in [1..Slots -> Entries]
      /\ table' = [table EXCEPT ![i].due = TRUE]
  BY DEF RequestTimeout, TypeOK, TableType
<1>2. /\ table'[i] = [table[i] EXCEPT !.due = TRUE] /\ table[i] \in Entries
      /\ \A j \in (1..Slots) \ {i} : table'[j] = table[j]
  BY <1>1 DEF Entries
<1>3. /\ table'[i].used = table[i].used /\ table'[i].id = table[i].id
      /\ table'[i].caller = table[i].caller /\ table'[i] \in Entries
  BY ZenonT(30), <1>2 DEF Entries
<1>4. TableType'
  BY <1>1, <1>2, <1>3 DEF TableType
<1>5. CallsInv'
  BY <1>1, <1>2, <1>3, QuietStep DEF CallsInv, SlotInv
<1> QED
  BY <1>1, <1>4, <1>5 DEF TypeOK, CallType, TickType, OwnerType, ClosingInv

\* Every step preserves the invariant of the calls.
LEMMA CallsStep ==
  ASSUME TypeOK, CallsInv, ClosingInv, [Next]_vars
  PROVE  TypeOK' /\ CallsInv' /\ ClosingInv'
<1>1. ASSUME UNCHANGED <<int, tick, buffer, table, nextId, sent, call, owner>>
      PROVE  TypeOK' /\ CallsInv' /\ ClosingInv'
  <2>1. CallsInv'
    BY <1>1, QuietStep DEF CallsInv, SlotInv
  <2> QED
    BY <1>1, <2>1 DEF TypeOK, CallType, TableType, TickType, OwnerType, ClosingInv
<1>2. ASSUME NEW c \in Callers, Call(c) \/ Caller(c)
      PROVE  TypeOK' /\ CallsInv' /\ ClosingInv'
  <2>1. UNCHANGED <<tick, owner>>
    BY <1>2 DEF Call, Check, Caller, Allocate, addToOutstandingCalls, IsoClientConnection_sendMessage, Return
  <2> QED
    BY Zenon, <1>2, <2>1, CallerStep DEF ClosingInv
<1>3. CASE ConcludeTimeout \/ UNCHANGED vars
  BY <1>1, <1>3 DEF ConcludeTimeout, vars
<1> QED
  BY <1>2, <1>3, HandleConnectionStep, TickStep, TimeoutStep, OwnerStep DEF Next, OwnerAct

-----------------------------------------------------------------------------
(* The transmit buffer *)

CallerHolds(c) == call[c].at \in {"add", "send"}

OwnerHolds == owner.at \in {"associate", "concludeParameter", "sendConclude"}

\* The initiate request waits in the buffer for the COTP connection
Early == {"TCP_CONNECTING", "WAIT_FOR_COTP_CONNECT_RESP"}
RequestHolds == IF tick.at = "out" THEN int \in Early ELSE tick.next \in Early

\* The holders are the threads that hold the buffer, and the initiate request.
LEMMA HoldersAre ==
  Holders = {c \in Callers : CallerHolds(c)} \cup {o \in {"owner"} : OwnerHolds}
               \cup {o \in {"association"} : RequestHolds}
BY DEF Holders, CallerHolds, OwnerHolds, RequestHolds, Early

LEMMA HoldersAreNext ==
  Holders' = {c \in Callers : CallerHolds(c)'} \cup {o \in {"owner"} : OwnerHolds'}
               \cup {o \in {"association"} : RequestHolds'}
BY DEF Holders, CallerHolds, OwnerHolds, RequestHolds, Early

\* Nobody takes it or gives it back.
LEMMA Keeps ==
  ASSUME BufferInv, "buffer" \notin broken, UNCHANGED buffer,
         \A c \in Callers : CallerHolds(c)' <=> CallerHolds(c),
         OwnerHolds' <=> OwnerHolds, RequestHolds' <=> RequestHolds
  PROVE  BufferInv'
<1>1. Holders' = Holders
  BY HoldersAre, HoldersAreNext
<1> QED
  BY <1>1 DEF BufferInv

\* One takes it, of those who did not hold it.
LEMMA Takes ==
  ASSUME BufferInv, "buffer" \notin broken, buffer > 0, buffer' = buffer - 1,
         NEW h, Holders' = Holders \cup {h}
  PROVE  BufferInv'
<1>1. buffer = 1 /\ Holders = {}
  BY DEF BufferInv
<1> QED
  BY <1>1 DEF BufferInv

\* The one that holds it gives it back.
LEMMA Gives ==
  ASSUME BufferInv, "buffer" \notin broken, buffer' = buffer + 1,
         NEW h, h \in Holders, Holders' = Holders \ {h}
  PROVE  BufferInv'
<1>1. buffer = 0 /\ Holders = {h}
  BY DEF BufferInv
<1> QED
  BY <1>1 DEF BufferInv

\* handleConnection gives the buffer back when the initiate request is sent or given up.
LEMMA HandleConnectionBuffer ==
  ASSUME TypeOK, CallsInv, BufferInv, "buffer" \notin broken,
         NEW by \in {"thread", "owner"}, HandleConnection(by)
  PROVE  BufferInv'
<1>0. OwnerType /\ TickType /\ int \in IntStates
  BY Zenon DEF TypeOK
<1>1. OwnerHolds' <=> OwnerHolds
  BY Zenon, <1>0, SetState, ConcludeHandler DEF OwnerHolds, HandleConnection, Waits,
     TcpConnected, CotpConnected, LateInitiate,
     LinkLost, FileRequestArrives, AssociationFails, Associated, Closed, ConcludeAnswered, AnswerArrives
<1>2. \A c \in Callers : CallerHolds(c)' <=> CallerHolds(c)
  <2>1. CASE AnswerArrives(by)
    <3>1. \E i, id, result : Handle(i, id, result)
      BY <2>1 DEF AnswerArrives
    <3> QED
      BY <3>1 DEF TypeOK, CallType, Calls, Handle, CallerHolds
  <2>2. CASE UNCHANGED call
    BY SMTT(20), <2>2 DEF CallerHolds
  <2> QED
    BY Zenon, <2>1, <2>2 DEF HandleConnection, Waits, TcpConnected, CotpConnected,
       LinkLost, FileRequestArrives, AssociationFails, Associated, LateInitiate, Closed, ConcludeAnswered
<1>3. tick.at = "out" /\ tick'.at # "out"
  <2>1. \E at \in {"tick", "remove", "respond", "closed", "forgetRespond", "forgetTick"} : \E slot, next : Enter(by, at, slot, next)
    <3>1. CASE Waits(by) \/ AssociationFails(by) \/ TcpConnected(by) \/ CotpConnected(by)
      BY Zenon, <3>1 DEF Waits, AssociationFails, TcpConnected, CotpConnected
    <3>2. CASE Associated(by) \/ LateInitiate(by) \/ LinkLost(by) \/ AnswerArrives(by)
      BY Zenon, <3>2 DEF Associated, LateInitiate, LinkLost, AnswerArrives, Message
    <3>3. CASE ConcludeAnswered(by) \/ FileRequestArrives(by) \/ Closed(by)
      BY Zenon, <3>3 DEF ConcludeAnswered, FileRequestArrives, Message, Closed
    <3> QED
      BY Zenon, <3>1, <3>2, <3>3 DEF HandleConnection
  <2> QED
    BY <2>1 DEF Enter
<1>4. (RequestHolds <=> int \in Early) /\ (RequestHolds' <=> tick'.next \in Early)
  BY <1>3 DEF RequestHolds
<1>5. CASE UNCHANGED buffer /\ (tick'.next \in Early <=> int \in Early)
  BY <1>1, <1>2, <1>4, <1>5, Keeps
<1>6. CASE buffer' = buffer + 1 /\ int \in Early /\ tick'.next \notin Early
  <2>1. "association" \in Holders /\ Holders' = Holders \ {"association"}
    BY Zenon, <1>1, <1>2, <1>4, <1>6, HoldersAre, HoldersAreNext, CallersAssumption
  <2> QED
    BY <1>6, <2>1, Gives
<1> QED
  <2>1. CASE AnswerArrives(by) \/ ConcludeAnswered(by) \/ FileRequestArrives(by)
    BY <1>5, <2>1 DEF Enter, Message, AnswerArrives, ConcludeAnswered, FileRequestArrives, Early
  <2>2. CASE Waits(by) \/ TcpConnected(by) \/ Associated(by) \/ LateInitiate(by) \/ LinkLost(by) \/ Closed(by)
    BY <1>5, <2>2 DEF Enter, Waits, TcpConnected, Associated, LateInitiate, LinkLost, Closed, Early
  <2>3. CASE AssociationFails(by) \/ CotpConnected(by)
    BY <1>5, <1>6, <2>3 DEF Enter, AssociationFails, CotpConnected, Early, Connecting
  <2> QED
    BY Zenon, <2>1, <2>2, <2>3 DEF HandleConnection

\* Inside handleConnection the buffer is used in the thread's own turn only.
LEMMA TickBuffer ==
  ASSUME TypeOK, CallsInv, ClosingInv, BufferInv, "buffer" \notin broken, TickSteps
  PROVE  BufferInv'
<1>0. OwnerType /\ TickType
  BY SMTT(20) DEF TypeOK
<1>1. UNCHANGED buffer
  BY ZenonT(30) DEF TickSteps, Remove, ThreadSends, ClosedLoop, ClosedFree, ClosedLoopEnds,
     TickLoop, TickConclude, ForgetConcludeHandler, Leave
<1>2. \A c \in Callers : CallerHolds(c)' <=> CallerHolds(c)
  <2>1. CASE \E i, id, result : Handle(i, id, result)
    BY <2>1 DEF TypeOK, CallType, Calls, Handle, CallerHolds
  <2>2. CASE UNCHANGED call
    BY <2>2 DEF CallerHolds
  <2> QED
    BY Zenon, <2>1, <2>2 DEF TickSteps, Remove, ThreadSends, ClosedLoop, ClosedFree,
       ClosedLoopEnds, TickLoop, TickConclude, ForgetConcludeHandler, Leave
<1>3. CASE Leave
  <2>1. tick.at \in {"tick", "leave"} /\ tick'.at = "out" /\ int' = tick.next
    BY <1>3 DEF Leave, Out
  <2>2. RequestHolds' <=> RequestHolds
    BY <2>1 DEF RequestHolds
  <2>3. OwnerHolds' <=> OwnerHolds
    <3>1. CASE tick.by = "owner" /\ owner' = [owner EXCEPT !.at = "idle"]
      BY <1>0, <2>1, <3>1 DEF ClosingInv, OwnerType, OwnerHolds
    <3>2. CASE UNCHANGED owner
      BY <3>2 DEF OwnerHolds
    <3> QED
      BY <1>3, <3>1, <3>2 DEF Leave
  <2> QED
    BY <1>1, <1>2, <2>2, <2>3, Keeps
<1>4. CASE TickConclude \/ ForgetConcludeHandler
  <2>1. tick.at # "out" /\ tick'.at # "out" /\ tick'.next = tick.next
    BY <1>0, <1>4, Forgotten DEF TickType, TickConclude
  <2>2. owner'.at = owner.at
    BY <1>0, <1>4, ConcludeHandler DEF TickConclude, ForgetConcludeHandler
  <2>3. (RequestHolds' <=> RequestHolds) /\ (OwnerHolds' <=> OwnerHolds)
    BY <2>1, <2>2 DEF RequestHolds, OwnerHolds
  <2> QED
    BY SMTT(20), <1>1, <1>2, <2>3, Keeps
<1>5. CASE ~(Leave \/ TickConclude \/ ForgetConcludeHandler)
  <2>1. tick.at # "out" /\ tick'.at # "out" /\ tick'.next = tick.next /\ UNCHANGED <<int, owner>>
    BY Zenon, <1>0, <1>5 DEF TickType, TickSteps, Remove, ThreadSends, ClosedLoop, ClosedFree,
       ClosedLoopEnds, TickLoop
  <2>2. (RequestHolds' <=> RequestHolds) /\ (OwnerHolds' <=> OwnerHolds)
    BY <2>1 DEF RequestHolds, OwnerHolds
  <2> QED
    BY SMTT(20), <1>1, <1>2, <2>2, Keeps
<1> QED
  BY <1>3, <1>4, <1>5

\* A caller takes the buffer for its request and gives it back with it, or with a refusal.
LEMMA CallerBuffer ==
  ASSUME TypeOK, CallsInv, BufferInv, "buffer" \notin broken, "buffer" \notin broken',
         NEW c \in Callers, Call(c) \/ Caller(c)
  PROVE  BufferInv'
<1>0. call \in [Callers -> Calls] /\ c \notin {"owner", "association"} /\ NoCall(c).at = "idle"
  BY CallersAssumption DEF TypeOK, CallType, NoCall
<1>1. (OwnerHolds' <=> OwnerHolds) /\ (RequestHolds' <=> RequestHolds)
  <2>1. UNCHANGED <<owner, tick, int>>
    BY Zenon DEF Call, Check, Caller, Allocate, addToOutstandingCalls,
       IsoClientConnection_sendMessage, Return
  <2> QED
    BY Zenon, <2>1 DEF OwnerHolds, RequestHolds
<1>2. \A d \in Callers \ {c} : CallerHolds(d)' <=> CallerHolds(d)
  BY <1>0 DEF CallerHolds, Call, Check, Caller, Allocate, addToOutstandingCalls,
     IsoClientConnection_sendMessage, Return
<1>3. CASE UNCHANGED buffer /\ (CallerHolds(c)' <=> CallerHolds(c))
  BY Zenon, <1>1, <1>2, <1>3, Keeps
<1>4. CASE buffer > 0 /\ buffer' = buffer - 1 /\ CallerHolds(c)'
  <2>1. Holders' = Holders \cup {c}
    BY Zenon, <1>0, <1>1, <1>2, <1>4, HoldersAre, HoldersAreNext
  <2> QED
    BY <1>4, <2>1, Takes
<1>5. CASE buffer' = buffer + 1 /\ CallerHolds(c) /\ ~CallerHolds(c)'
  <2>1. c \in Holders /\ Holders' = Holders \ {c}
    BY Zenon, <1>0, <1>1, <1>2, <1>5, HoldersAre, HoldersAreNext
  <2> QED
    BY <1>5, <2>1, Gives
<1>6. CASE Call(c)
  BY <1>0, <1>3, <1>6 DEF Call, Check, CallerHolds, Calls
<1>7. CASE Allocate(c)
  BY <1>0, <1>4, <1>7 DEF Allocate, CallerHolds, Calls
<1>8. CASE addToOutstandingCalls(c)
  <2>1. call[c].at = "add"
    BY <1>8 DEF addToOutstandingCalls
  <2>2. CASE UNCHANGED buffer /\ call' = [call EXCEPT ![c].at = "send"]
    BY <1>0, <1>3, <2>1, <2>2 DEF CallerHolds, Calls
  <2>3. CASE buffer' = buffer + 1 /\ call' = [call EXCEPT ![c] = NoCall(c)]
    BY <1>0, <1>5, <2>1, <2>3 DEF CallerHolds
  <2> QED
    BY <1>8, <2>2, <2>3 DEF addToOutstandingCalls
<1>9. CASE IsoClientConnection_sendMessage(c)
  BY <1>0, <1>5, <1>9 DEF IsoClientConnection_sendMessage, CallerHolds, Calls
<1>10. CASE Return(c)
  <2>1. call'[c].at \in {"idle", "allocate"}
    BY ZenonT(30), <1>0, <1>10 DEF Return, NoCall
  <2> QED
    BY <1>3, <1>10, <2>1 DEF Return, CallerHolds
<1> QED
  BY <1>6, <1>7, <1>8, <1>9, <1>10 DEF Caller

\* The owner takes it to connect and to conclude; the association takes it over from connect.
LEMMA OwnerBuffer ==
  ASSUME TypeOK, CallsInv, BufferInv, "buffer" \notin broken, "buffer" \notin broken', OwnerAct
  PROVE  BufferInv'
<1>0. OwnerType /\ TickType
  BY DEF TypeOK
<1>1. \A c \in Callers : CallerHolds(c)' <=> CallerHolds(c)
  BY Zenon DEF CallerHolds, OwnerAct, OwnerTakesMutex, OwnerSteps, OwnerCalls, sendAbortMessage,
     MmsConnection_connectAsync, ConnectReturns, ConcludeParameter, SendConclude,
     ConcludeReturns, MmsConnection_connect, MmsConnection_conclude, MmsConnection_close,
     MmsConnection_abort, IsoClientConnection_associateAsync, IsoClientConnection_close
<1>2. CASE IsoClientConnection_associateAsync
  <2>1. OwnerHolds /\ "owner" \in Holders /\ tick.at = "out" /\ UNCHANGED tick
    BY <1>2, HoldersAre DEF IsoClientConnection_associateAsync, OwnerHolds
  <2>2. Holders = {"owner"} /\ buffer = 0
    BY <2>1 DEF BufferInv
  <2>3. ~RequestHolds /\ \A c \in Callers : ~CallerHolds(c)'
    BY <1>1, <2>2, HoldersAre, CallersAssumption
  <2>4. CASE At("setConnecting") /\ int' = "TCP_CONNECTING" /\ UNCHANGED buffer
    <3>1. ~OwnerHolds' /\ RequestHolds'
      BY Zenon, <1>0, <2>1, <2>4, OwnerMoves DEF OwnerPlaces, OwnerHolds, RequestHolds, Early
    <3>2. Holders' = {"association"}
      BY <2>3, <3>1, HoldersAreNext
    <3> QED
      BY <2>2, <2>4, <3>2 DEF BufferInv
  <2>5. CASE int' = "ERROR" /\ buffer' = buffer + 1 /\ owner' = [owner EXCEPT !.at = "idle", !.state = "CLOSED"]
    <3>1. ~OwnerHolds' /\ ~RequestHolds'
      BY <1>0, <2>1, <2>5, OwnerMoves DEF OwnerPlaces, OwnerHolds, RequestHolds, Early
    <3>2. Holders' = {}
      BY <2>3, <3>1, HoldersAreNext
    <3> QED
      BY <2>2, <2>5, <3>2 DEF BufferInv
  <2> QED
    BY <1>2, <2>4, <2>5 DEF IsoClientConnection_associateAsync
<1>3. CASE ~IsoClientConnection_associateAsync
  <2>1. RequestHolds' <=> RequestHolds
    <3>1. CASE IsoClientConnection_close
      BY <3>1 DEF IsoClientConnection_close, RequestHolds, Early
    <3>2. CASE UNCHANGED <<int, tick>>
      BY <3>2 DEF RequestHolds
    <3> QED
      BY Zenon, <1>3, <3>1, <3>2 DEF OwnerAct, OwnerTakesMutex, OwnerSteps, OwnerCalls,
         sendAbortMessage,
         MmsConnection_connectAsync, ConnectReturns, ConcludeParameter, SendConclude,
         ConcludeReturns, MmsConnection_connect, MmsConnection_conclude, MmsConnection_close,
         MmsConnection_abort
  <2>2. CASE MmsConnection_connect \/ MmsConnection_conclude
    <3>1. OwnerHolds' /\ buffer > 0 /\ buffer' = buffer - 1
      <4>1. CASE MmsConnection_connect
        BY <4>1 DEF MmsConnection_connect, OwnerHolds
      <4>2. CASE MmsConnection_conclude
        BY <1>0, <4>2, OwnerMoves DEF MmsConnection_conclude, OwnerPlaces, OwnerHolds
      <4> QED
        BY <2>2, <4>1, <4>2
    <3>2. Holders' = Holders \cup {"owner"}
      BY <1>1, <2>1, <3>1, HoldersAre, HoldersAreNext
    <3> QED
      BY <3>1, <3>2, Takes
  <2>3. CASE SendConclude
    <3>1. OwnerHolds /\ ~OwnerHolds' /\ buffer' = buffer + 1
      BY <1>0, <2>3, OwnerMoves DEF SendConclude, OwnerPlaces, OwnerHolds
    <3>2. "owner" \in Holders /\ Holders' = Holders \ {"owner"}
      BY <1>1, <2>1, <3>1, HoldersAre, HoldersAreNext, CallersAssumption
    <3> QED
      BY <3>1, <3>2, Gives
  <2>4. CASE IsoClientConnection_close \/ MmsConnection_connectAsync \/ ConnectReturns \/ ConcludeParameter
             \/ ConcludeReturns \/ MmsConnection_close \/ MmsConnection_abort \/ sendAbortMessage
    <3>1. UNCHANGED buffer
      BY <2>4 DEF IsoClientConnection_close, MmsConnection_connectAsync, ConnectReturns, ConcludeParameter,
         ConcludeReturns, MmsConnection_close, MmsConnection_abort, sendAbortMessage
    <3>2. OwnerHolds' <=> OwnerHolds
      <4>1. CASE ConcludeParameter
        BY <1>0, <4>1, OwnerMoves DEF ConcludeParameter, OwnerPlaces, OwnerHolds
      <4>2. CASE ~ConcludeParameter
        <5>1. \E place \in {"idle", "connecting", "close", "abort", "closing"} :
                At(place) \/ owner' = [owner EXCEPT !.at = place, !.sem = 0]
          BY <2>4, <4>2 DEF IsoClientConnection_close, MmsConnection_connectAsync, ConnectReturns,
             ConcludeReturns, MmsConnection_close, MmsConnection_abort, sendAbortMessage
        <5>2. ~OwnerHolds'
          BY ZenonT(30), <1>0, <5>1, OwnerMoves DEF OwnerPlaces, OwnerHolds
        <5>3. ~OwnerHolds
          BY <2>4, <4>2 DEF IsoClientConnection_close, MmsConnection_connectAsync, ConnectReturns,
             ConcludeReturns, MmsConnection_close, MmsConnection_abort, sendAbortMessage, OwnerHolds
        <5> QED
          BY <5>2, <5>3
      <4> QED
        BY <4>1, <4>2
    <3> QED
      BY Zenon, <1>1, <2>1, <3>1, <3>2, Keeps
  <2> QED
    BY <1>3, <2>2, <2>3, <2>4 DEF OwnerAct, OwnerTakesMutex, OwnerSteps, OwnerCalls
<1> QED
  BY <1>2, <1>3

-----------------------------------------------------------------------------
(* The theorems *)

\* The invariant holds before the first connect.
LEMMA InitIInv ==
  ASSUME Init
  PROVE  IInv
<1>1. CallType /\ TableType
  <2>1. [at |-> "idle", id |-> 0, service |-> [parses |-> "none"], sem |-> 0,
         result |-> "none", from |-> 0, requests |-> 0] \in Calls
    BY DEF Calls, Kinds
  <2> QED
    BY Zenon, <2>1, UnusedType DEF Init, CallType, TableType
<1>2. TickType /\ OwnerType /\ int \in IntStates /\ buffer \in Nat
  BY Zenon DEF Init, TickType, TickPlaces, Out, IntStates, OwnerType, OwnerPlaces
<1>3. CallsInv
  BY Zenon DEF Init, CallsInv, SlotInv, PostedInv, ActiveInv, OneSlotInv, CallsRegistered, Active, Out, Unused
<1>4. ClosingInv
  BY Zenon DEF Init, ClosingInv, Out
<1>5. Holders = {}
  BY HoldersAre DEF Init, CallerHolds, OwnerHolds, RequestHolds, Out, Early
<1> QED
  BY Zenon, <1>1, <1>2, <1>3, <1>4, <1>5 DEF Init, IInv, TypeOK, BufferInv

\* A buffer that was lost stays lost.
LEMMA BrokenStays ==
  ASSUME [Next]_vars
  PROVE  broken \subseteq broken'
<1>1. CASE \E by \in {"thread", "owner"} : HandleConnection(by)
  BY SMTT(20), <1>1 DEF HandleConnection, Waits, AssociationFails, TcpConnected, CotpConnected,
     Associated, LateInitiate, LinkLost,
     AnswerArrives, ConcludeAnswered, CallConcludeHandler, FileRequestArrives, Closed
<1>2. CASE TickSteps
  BY Zenon, <1>2 DEF TickSteps, Remove, ThreadSends, ClosedLoop, ClosedFree, ClosedLoopEnds,
     TickLoop, TickConclude, ForgetConcludeHandler, Leave,
     CallConcludeHandler
<1>3. CASE \E c \in Callers : Call(c) \/ Caller(c)
  BY <1>3 DEF Call, Check, Caller, Allocate, addToOutstandingCalls, IsoClientConnection_sendMessage, Return
<1>4. CASE OwnerAct
  BY ZenonT(30), <1>4 DEF OwnerAct, OwnerTakesMutex, OwnerSteps, OwnerCalls, sendAbortMessage,
     MmsConnection_connectAsync,
     ConnectReturns, ConcludeParameter, SendConclude, ConcludeReturns, MmsConnection_connect,
     MmsConnection_conclude, MmsConnection_close, MmsConnection_abort, IsoClientConnection_associateAsync,
     IsoClientConnection_close
<1>5. CASE ConcludeTimeout \/ UNCHANGED vars \/ \E i \in 1..Slots : RequestTimeout(i)
  BY <1>5 DEF ConcludeTimeout, RequestTimeout, vars
<1> QED
  BY Zenon, <1>1, <1>2, <1>3, <1>4, <1>5 DEF Next, OwnerAct

\* Every step preserves the invariant.
LEMMA NextIInv ==
  ASSUME IInv, [Next]_vars
  PROVE  IInv'
<1>1. TypeOK' /\ CallsInv' /\ ClosingInv'
  BY CallsStep DEF IInv
<1>2. BufferInv'
  <2> SUFFICES ASSUME "buffer" \notin broken'
               PROVE  BufferInv'
    BY DEF BufferInv
  <2>1. "buffer" \notin broken /\ TypeOK /\ CallsInv /\ ClosingInv /\ BufferInv
    BY BrokenStays DEF IInv
  <2>2. CASE ConcludeTimeout \/ UNCHANGED vars \/ \E i \in 1..Slots : RequestTimeout(i)
    BY <2>1, <2>2, Keeps DEF ConcludeTimeout, RequestTimeout, vars, CallerHolds, OwnerHolds, RequestHolds
  <2> QED
    BY <2>1, <2>2, HandleConnectionBuffer, TickBuffer, CallerBuffer, OwnerBuffer DEF Next, OwnerAct
<1> QED
  BY <1>1, <1>2 DEF IInv

LEMMA Inductive == Spec => []IInv
BY InitIInv, NextIInv, PTL DEF Spec

\* The transmit buffer is free or has exactly one holder, unless one of the paths that
\* return without releasing it was taken: no other path of the client, of the connection
\* thread or of the owner loses it or releases it twice.
THEOREM BufferSafe == Spec => []BufferKept
<1>1. IInv => BufferKept
  <2> SUFFICES ASSUME IInv, "buffer" \notin broken
               PROVE  buffer + Cardinality(Holders) = 1
    BY DEF BufferKept
  <2>1. CASE buffer = 1 /\ Holders = {}
    BY <2>1, FS_EmptySet
  <2>2. ASSUME buffer = 0, NEW h \in Holders, Holders = {h}
        PROVE  buffer + Cardinality(Holders) = 1
    <3>1. Cardinality(Holders) = 1
      BY Zenon, <2>2, FS_Singleton
    <3> QED
      BY <2>2, <3>1
  <2> QED
    BY <2>1, <2>2 DEF IInv, BufferInv
<1> QED
  BY <1>1, Inductive, PTL

\* No slot of outstandingCalls is left behind by the thread that registered it: a handler
\* never posts the semaphore of a call that has returned.
THEOREM HandlersSafe == Spec => []NoHandlerLeft
<1>1. IInv => NoHandlerLeft
  BY DEF IInv, CallsInv, ActiveInv, Active, Freeing, NoHandlerLeft
<1> QED
  BY <1>1, Inductive, PTL

\* A call's handler runs at most once, with the outcome of the call's own invoke ID.
THEOREM AnswersSafe == Spec => []AnswerMatches
<1>1. IInv => AnswerMatches
  BY DEF IInv, CallsInv, PostedInv, AnswerMatches
<1> QED
  BY <1>1, Inductive, PTL

\* A call that sends or waits without a result has a slot of its own in outstandingCalls
\* that nobody is freeing: an answer, its time limit or the end of the connection will find
\* it.  No freed slot and no other thread's answer leaves a caller waiting with nothing left
\* to wake it.
THEOREM CallsFound == Spec => [](CallsRegistered /\ OneSlotInv)
<1>1. IInv => CallsRegistered /\ OneSlotInv
  BY DEF IInv, CallsInv
<1> QED
  BY <1>1, Inductive, PTL

=============================================================================
