---------------------------- MODULE FilesProofs ----------------------------
(***************************************************************************)
(* Proofs about file transfer, for any number of downloads on one          *)
(* association and files of any length.  The inductive invariant follows a *)
(* request from its call to the file it is about: a call has one request   *)
(* under way (QueueInv); IDs and handles count the files opened, and an    *)
(* open file is one entry of the table (HandleInv); no two calls are told  *)
(* the same ID (OwnInv); so a call has what its own file has given         *)
(* (DataInv).                                                              *)
(***************************************************************************)
EXTENDS Files, FiniteSetTheorems, TLAPS

\* A leaf that names no prover is tried with Z3, with Zenon, and with Z3 for longer.
USE SMT, Zenon, SMTT(20)

\* What is assumed of the constants
Constants == IsFiniteSet(Calls) /\ Chunks \in Nat \ {0}

Requests == [call : Calls, no : Nat, kind : {"open", "read", "close"}, id : Nat]

\* The types of the calls, of the queue, and of the server's tables
CallType ==
  /\ up \in BOOLEAN
  /\ dp \in [Calls -> {"idle", "done", "failed"} \cup Kinds]
  /\ ctx \in [Calls -> {"live", "done"}]
  /\ no \in [Calls -> Nat]
  /\ frsmID \in [Calls -> Nat]
  /\ data \in [Calls -> Seq(1 .. Chunks)]
  /\ answer = [c \in Calls |-> answer[c]]
  /\ \A c \in Calls : answer[c].kind \in {"none", "ok", "error"}
QueueType == queue \in Seq(Requests)
ServerType ==
  /\ served \in BOOLEAN
  /\ nextID \in Nat
  /\ entries = [i \in DOMAIN entries |-> entries[i]] /\ DOMAIN entries \subseteq 1 .. nextID
  /\ open \in [DOMAIN open -> 0 .. Chunks]
  /\ closes \in [IDs -> Nat]

\* The open requests that may still come, or have not been handled yet
Fresh == {c \in Calls : \/ dp[c] = "idle"
                        \/ \E i \in DOMAIN queue : queue[i].call = c /\ queue[i].kind = "open"}

\* A call has one request under way at most, its latest one, and no answer to it yet.
QueueInv ==
  /\ \A i, j \in DOMAIN queue : queue[i].call = queue[j].call => i = j
  /\ \A c \in Calls : dp[c] = "idle" => answer[c].kind = "none"
  /\ \A i \in DOMAIN queue :
       LET c == queue[i].call
       IN  /\ dp[c] # "idle"
           /\ answer[c].kind = "none"
           /\ queue[i].no = no[c] /\ queue[i].id = frsmID[c]
           /\ dp[c] \in {"open", "read"} => queue[i].kind = dp[c]
           /\ dp[c] \in {"close", "drop"} => queue[i].kind = "close"

\* The IDs and the handles count the files opened: there are not more than calls.
HandleInv ==
  /\ nextID <= Cardinality(Calls \ Fresh)
  /\ {h \in IDs : closes[h] > 0} \cup DOMAIN open = 1 .. nextID
  /\ \A h \in IDs : closes[h] \in {0, 1} /\ (h \in DOMAIN open => closes[h] = 0)
  /\ HandlesTracked

\* The ID a call has been told, or is being told
Told(c) == IF dp[c] = "open" /\ answer[c].kind = "ok" THEN answer[c].id ELSE frsmID[c]

\* No two calls are told the same ID.
OwnInv ==
  /\ \A c \in Calls : /\ Told(c) \in 0 .. nextID
                      /\ dp[c] \in {"idle", "open"} => frsmID[c] = 0
  /\ \A c, d \in Calls : c # d /\ Told(c) = Told(d) => Told(c) = 0

\* A call has the chunks up to the place its file has been read to, and the one that is
\* being delivered is the next.
CallData(c) ==
  /\ \A i \in DOMAIN data[c] : data[c][i] = i
  /\ dp[c] \in {"idle", "open"} => data[c] = <<>>
  /\ dp[c] \in {"close", "done"} => Len(data[c]) = Chunks
  /\ dp[c] = "read" /\ answer[c].kind = "ok" =>
       /\ answer[c].chunk = Len(data[c]) + 1 /\ answer[c].chunk \in 1 .. Chunks
       /\ answer[c].more = (answer[c].chunk < Chunks)
  /\ up /\ dp[c] = "open" /\ answer[c].kind = "ok" /\ Told(c) \in DOMAIN entries =>
       open[entries[Told(c)]] = 0
  /\ up /\ dp[c] = "read" /\ Told(c) \in DOMAIN entries =>
       open[entries[Told(c)]] = Len(data[c]) + (IF answer[c].kind = "ok" THEN 1 ELSE 0)
DataInv == \A c \in Calls : CallData(c)

IInv == CallType /\ QueueType /\ ServerType /\ QueueInv /\ HandleInv /\ OwnInv /\ DataInv

-----------------------------------------------------------------------------
(* Sequences and cardinalities *)

\* What Answer leaves of the queue: all but the first request, moved up by one.
LEMMA TailFacts ==
  ASSUME NEW S, NEW q \in Seq(S), q # <<>>
  PROVE  /\ 1 \in DOMAIN q /\ Head(q) = q[1] /\ Head(q) \in S
         /\ Tail(q) \in Seq(S)
         /\ \A i \in DOMAIN Tail(q) : i \in Nat /\ i # 0 /\ i + 1 \in DOMAIN q /\ Tail(q)[i] = q[i + 1]
OBVIOUS

\* What Request makes of the queue: the new request comes last.
LEMMA AppendFacts ==
  ASSUME NEW S, NEW q \in Seq(S), NEW r \in S
  PROVE  /\ Append(q, r) \in Seq(S)
         /\ \A i \in DOMAIN Append(q, r) : \/ i \in DOMAIN q /\ Append(q, r)[i] = q[i]
                                           \/ i = Len(q) + 1 /\ Append(q, r)[i] = r
OBVIOUS

\* The number of calls that have had their open request handled does not fall while no call
\* is added to Fresh, and there are not more than calls.
LEMMA FreshCounted ==
  ASSUME Constants, Fresh' \subseteq Fresh
  PROVE  /\ Cardinality(Calls \ Fresh) \in Nat /\ Cardinality(Calls \ Fresh)' \in Nat
         /\ Cardinality(Calls) \in Nat
         /\ Cardinality(Calls \ Fresh) <= Cardinality(Calls \ Fresh)'
         /\ Cardinality(Calls \ Fresh) <= Cardinality(Calls)
         /\ Cardinality(Calls \ Fresh)' <= Cardinality(Calls)
<1> DEFINE A == Calls \ Fresh
           B == (Calls \ Fresh)'
<1>1. IsFiniteSet(Calls) /\ A \subseteq B /\ A \subseteq Calls /\ B \subseteq Calls
  BY DEF Constants
<1> HIDE DEF A, B
<1>2. IsFiniteSet(A) /\ IsFiniteSet(B)
  BY <1>1, FS_Subset
<1>3. Cardinality(A) <= Cardinality(B) /\ Cardinality(A) <= Cardinality(Calls) /\ Cardinality(B) <= Cardinality(Calls)
  BY <1>1, <1>2, FS_Subset
<1>4. Cardinality(A) \in Nat /\ Cardinality(B) \in Nat /\ Cardinality(Calls) \in Nat
  BY <1>1, <1>2, FS_CardinalityType
<1> QED
  BY <1>3, <1>4 DEF A, B

\* It grows when the open request of a call is handled.
LEMMA FreshFalls ==
  ASSUME Constants, Fresh' \subseteq Fresh, NEW c \in Calls, c \in Fresh, c \notin Fresh'
  PROVE  Cardinality(Calls \ Fresh) + 1 <= Cardinality(Calls \ Fresh)'
<1> DEFINE A == Calls \ Fresh
           B == (Calls \ Fresh)'
           C == A \cup {c}
<1>1. IsFiniteSet(Calls) /\ A \subseteq Calls /\ B \subseteq Calls /\ C \subseteq B /\ c \notin A
  BY DEF Constants
<1> HIDE DEF A, B
<1>2. IsFiniteSet(A) /\ IsFiniteSet(B)
  BY <1>1, FS_Subset
<1>3. Cardinality(C) = Cardinality(A) + 1
  BY Zenon, <1>1, <1>2, FS_AddElement
<1>4. Cardinality(C) <= Cardinality(B)
  <2> HIDE DEF C
  <2> QED BY <1>1, <1>2, FS_Subset
<1> QED
  BY <1>3, <1>4 DEF A, B

-----------------------------------------------------------------------------
(* A step of a call *)

\* The request a call at s waits for
KindOf(s) == IF s = "drop" THEN "close" ELSE s

\* What the steps of call c have in common: it returns, or it sends its next request and
\* waits, and it is told no new ID.
Moves(c) ==
  /\ UNCHANGED <<up, served, nextID, entries, open, closes>>
  /\ \A d \in Calls : d # c => /\ dp'[d] = dp[d] /\ no'[d] = no[d] /\ frsmID'[d] = frsmID[d]
                               /\ answer'[d] = answer[d] /\ data'[d] = data[d]
  /\ dp'[c] # "idle" /\ answer'[c].kind = "none"
  /\ frsmID'[c] \in {Told(c), 0}
  /\ frsmID'[c] = frsmID[c] \/ answer[c].kind # "none"
  /\ dp'[c] = "open" => dp[c] = "idle" /\ frsmID'[c] = frsmID[c]
  /\ \/ UNCHANGED queue /\ dp'[c] \in {"done", "failed"} /\ no'[c] = no[c]
     \/ /\ answer[c].kind # "none" \/ dp[c] = "idle"
        /\ dp'[c] \in Kinds
        /\ queue' = Append(queue, [call |-> c, no |-> no'[c], kind |-> KindOf(dp'[c]), id |-> frsmID'[c]])

\* An assignment to the component of one call
LEMMA Changed ==
  ASSUME NEW S, NEW f \in [Calls -> S], NEW g, NEW c \in Calls,
         g = f \/ \E v \in S : g = [f EXCEPT ![c] = v]
  PROVE  g \in [Calls -> S] /\ \A d \in Calls : d # c => g[d] = f[d]
OBVIOUS

\* Every step of a call keeps the types, and concerns that call alone.
LEMMA CallTypes ==
  ASSUME CallType, OwnInv, ServerType, DataInv, NEW c \in Calls, CallStep(c)
  PROVE  /\ CallType' /\ UNCHANGED <<up, served, nextID, entries, open, closes>>
         /\ \A d \in Calls : d # c => /\ dp'[d] = dp[d] /\ no'[d] = no[d] /\ frsmID'[d] = frsmID[d]
                                      /\ answer'[d] = answer[d] /\ data'[d] = data[d]
<1> DEFINE Points == {"idle", "done", "failed"} \cup Kinds
<1> USE DEF CallStep, FileOpen, Opened, FileRead, Closed, RequestFails, Request, Refused
<1>1. UNCHANGED <<up, served, nextID, entries, open, closes>> /\ UNCHANGED ctx
  BY DEF serverVars, fileVars
<1>2. dp' \in [Calls -> Points] /\ \A d \in Calls : d # c => dp'[d] = dp[d]
  <2>1. dp' = dp \/ \E v \in Points : dp' = [dp EXCEPT ![c] = v]
    BY DEF Kinds
  <2>2. dp \in [Calls -> Points]
    BY DEF CallType
  <2> HIDE DEF Points
  <2> QED BY <2>1, <2>2, Changed
<1>3. no' \in [Calls -> Nat] /\ \A d \in Calls : d # c => no'[d] = no[d]
  <2>1. no \in [Calls -> Nat] /\ no[c] + 1 \in Nat
    BY DEF CallType
  <2>2. no' = no \/ no' = [no EXCEPT ![c] = no[c] + 1]
    OBVIOUS
  <2> QED BY <2>1, <2>2, Changed
<1>4. frsmID' \in [Calls -> Nat] /\ \A d \in Calls : d # c => frsmID'[d] = frsmID[d]
  <2>1. frsmID \in [Calls -> Nat] /\ (dp[c] = "open" /\ answer[c].kind = "ok" => answer[c].id \in Nat)
    BY DEF CallType, OwnInv, Told, ServerType
  <2>2. frsmID' = frsmID \/ (dp[c] = "open" /\ answer[c].kind = "ok" /\ frsmID' = [frsmID EXCEPT ![c] = answer[c].id])
    OBVIOUS
  <2> QED BY Zenon, <2>1, <2>2, Changed
<1>5. data' \in [Calls -> Seq(1 .. Chunks)] /\ \A d \in Calls : d # c => data'[d] = data[d]
  <2>1. data \in [Calls -> Seq(1 .. Chunks)]
    BY DEF CallType
  <2>2. dp[c] = "read" /\ answer[c].kind = "ok" => Append(data[c], answer[c].chunk) \in Seq(1 .. Chunks)
    BY <2>1 DEF DataInv, CallData
  <2>3. data' = data \/ (dp[c] = "read" /\ answer[c].kind = "ok" /\ data' = [data EXCEPT ![c] = Append(data[c], answer[c].chunk)])
    OBVIOUS
  <2> QED BY Zenon, <2>1, <2>2, <2>3, Changed
<1>6. /\ answer' = [d \in Calls |-> answer'[d]] /\ \A d \in Calls : answer'[d].kind \in {"none", "ok", "error"}
      /\ \A d \in Calls : d # c => answer'[d] = answer[d]
  <2>1. answer' = answer \/ answer' = [answer EXCEPT ![c] = None]
    OBVIOUS
  <2>2. answer = [d \in Calls |-> answer[d]] /\ \A d \in Calls : answer[d].kind \in {"none", "ok", "error"}
    BY DEF CallType
  <2> QED BY <2>1, <2>2 DEF None
<1> QED
  <2>1. up \in BOOLEAN /\ ctx \in [Calls -> {"live", "done"}]
    BY DEF CallType
  <2>2. up' \in BOOLEAN /\ ctx' \in [Calls -> {"live", "done"}]
    BY <1>1, <2>1, Zenon
  <2> QED BY <1>1, <1>2, <1>3, <1>4, <1>5, <1>6, <2>2 DEF CallType

\* Every step of a call is a move of it.
LEMMA CallMoves ==
  ASSUME CallType, ServerType, OwnInv, QueueInv, DataInv, NEW c \in Calls, CallStep(c)
  PROVE  CallType' /\ Moves(c)
<1>0. /\ CallType' /\ UNCHANGED <<up, served, nextID, entries, open, closes>>
      /\ \A d \in Calls : d # c => /\ dp'[d] = dp[d] /\ no'[d] = no[d] /\ frsmID'[d] = frsmID[d]
                                   /\ answer'[d] = answer[d] /\ data'[d] = data[d]
  BY CallTypes
<1>1. /\ dp = [d \in Calls |-> dp[d]] /\ no = [d \in Calls |-> no[d]]
      /\ frsmID = [d \in Calls |-> frsmID[d]] /\ answer = [d \in Calls |-> answer[d]]
  BY DEF CallType
<1>2. /\ frsmID[c] = Told(c) \/ frsmID[c] = 0
      /\ dp[c] = "open" /\ answer[c].kind = "ok" => Told(c) = answer[c].id
      /\ dp[c] = "idle" => answer[c].kind = "none"
      /\ None.kind = "none"
  BY Zenon DEF OwnInv, QueueInv, Told, None
<1>3. /\ dp'[c] # "idle" /\ answer'[c].kind = "none"
      /\ frsmID'[c] = frsmID[c] \/ (dp[c] = "open" /\ answer[c].kind = "ok" /\ frsmID'[c] = answer[c].id)
      /\ dp'[c] = "open" => dp[c] = "idle" /\ frsmID'[c] = frsmID[c]
  BY <1>1, <1>2 DEF CallStep, FileOpen, Opened, FileRead, Closed, RequestFails, Request, Refused, Waiting, Kinds
<1>4. \/ UNCHANGED queue /\ dp'[c] \in {"done", "failed"} /\ no'[c] = no[c]
      \/ /\ answer[c].kind # "none" \/ dp[c] = "idle"
         /\ dp'[c] \in Kinds
         /\ queue' = Append(queue, [call |-> c, no |-> no'[c], kind |-> KindOf(dp'[c]), id |-> frsmID'[c]])
  <2>1. ASSUME NEW kind, NEW at \in Kinds, kind = KindOf(at), Request(c, kind, at)
        PROVE  /\ dp'[c] = at /\ dp'[c] \in Kinds
               /\ queue' = Append(queue, [call |-> c, no |-> no'[c], kind |-> KindOf(dp'[c]), id |-> frsmID'[c]])
    <3>1. dp'[c] = at /\ no'[c] = no[c] + 1
      BY <1>1, <2>1 DEF Request
    <3> QED BY <2>1, <3>1 DEF Request
  <2>2. ASSUME Refused(c) PROVE UNCHANGED queue /\ dp'[c] \in {"done", "failed"} /\ no'[c] = no[c]
    BY <1>1, <2>2 DEF Refused
  <2>3. /\ {"open", "read", "close", "drop"} \subseteq Kinds
        /\ KindOf("open") = "open" /\ KindOf("read") = "read" /\ KindOf("close") = "close" /\ KindOf("drop") = "close"
    BY DEF Kinds, KindOf
  <2>4. CASE FileOpen(c)
    BY <2>1, <2>2, <2>3, <2>4 DEF FileOpen
  <2>5. CASE Opened(c)
    BY <2>1, <2>2, <2>3, <2>5 DEF Opened
  <2>6. CASE FileRead(c)
    BY <2>1, <2>2, <2>3, <2>6 DEF FileRead
  <2>7. CASE Closed(c)
    BY <1>1, <2>7 DEF Closed
  <2>8. CASE RequestFails(c)
    <3>1. CASE Request(c, "close", "drop")
      <4>1. answer[c].kind # "none"
        BY <2>8, <3>1 DEF RequestFails, Request
      <4> QED BY <2>1, <2>3, <3>1, <4>1
    <3>2. CASE Refused(c)
      BY <2>2, <3>2
    <3>3. CASE dp' = [dp EXCEPT ![c] = "failed"] /\ UNCHANGED <<queue, no>>
      BY <1>1, <3>3
    <3> QED BY <2>8, <3>1, <3>2, <3>3 DEF RequestFails
  <2> QED
    BY <2>4, <2>5, <2>6, <2>7, <2>8 DEF CallStep
<1> QED
  BY <1>0, <1>2, <1>3, <1>4 DEF Moves

\* The requests under way are requests of calls.
LEMMA Queued ==
  ASSUME QueueType
  PROVE  \A i \in DOMAIN queue : queue[i] \in Requests /\ queue[i].call \in Calls
<1>1. \A i \in DOMAIN queue : queue[i] \in Requests
  BY DEF QueueType
<1> QED
  BY <1>1 DEF Requests

\* A call that sends its next request has none under way.
LEMMA MovesQueue ==
  ASSUME CallType, QueueType, QueueInv, CallType', NEW c \in Calls, Moves(c)
  PROVE  QueueType' /\ QueueInv' /\ Fresh' \subseteq Fresh
<1> DEFINE r == [call |-> c, no |-> no'[c], kind |-> KindOf(dp'[c]), id |-> frsmID'[c]]
<1>1. CASE UNCHANGED queue /\ dp'[c] \in {"done", "failed"} /\ no'[c] = no[c]
  <2>0. QueueType' /\ \A i \in DOMAIN queue : queue[i].call \in Calls
    BY Zenon, <1>1, Queued DEF QueueType
  <2>1. QueueInv'
    <3>1. \A i \in DOMAIN queue : queue[i].call = c => answer[c].kind = "none" /\ frsmID'[c] = frsmID[c]
      BY DEF QueueInv, Moves
    <3>2. no'[c] = no[c] /\ dp'[c] \notin Kinds
      BY <1>1 DEF Moves, Kinds
    <3> QED
      BY <1>1, <2>0, <3>1, <3>2 DEF Moves, QueueInv, Kinds
  <2>2. Fresh' \subseteq Fresh
    BY ZenonT(30), <1>1 DEF Moves, Fresh, CallType
  <2> QED BY <2>0, <2>1, <2>2
<1>2. CASE /\ answer[c].kind # "none" \/ dp[c] = "idle"
           /\ dp'[c] \in Kinds
           /\ queue' = Append(queue, r)
  <2>1. r \in Requests
    BY <1>2 DEF Requests, CallType, KindOf, Kinds
  <2> HIDE DEF r
  <2>2. /\ queue' \in Seq(Requests)
        /\ \A i \in DOMAIN queue' : \/ i \in DOMAIN queue /\ queue'[i] = queue[i]
                                    \/ i = Len(queue) + 1 /\ queue'[i] = r
    BY <1>2, <2>1, AppendFacts DEF QueueType
  <2>3. \A i \in DOMAIN queue : queue[i].call \in Calls /\ queue[i].call # c
    <3>1. \A i \in DOMAIN queue : queue[i].call \in Calls
      BY Queued
    <3>2. \A i \in DOMAIN queue : queue[i].call # c
      BY <1>2 DEF QueueInv
    <3> QED BY <3>1, <3>2
  <2>4. r.call = c /\ r.no = no'[c] /\ r.kind = KindOf(dp'[c]) /\ r.id = frsmID'[c]
    BY Zenon DEF r
  <2>5. QueueInv'
    <3>1. \A i, j \in DOMAIN queue' : queue'[i].call = queue'[j].call => i = j
      BY <2>2, <2>3, <2>4 DEF QueueInv
    <3>2. \A d \in Calls : dp'[d] = "idle" => answer'[d].kind = "none"
      BY DEF QueueInv, Moves
    <3>3. ASSUME NEW i \in DOMAIN queue', i \in DOMAIN queue, queue'[i] = queue[i]
          PROVE  /\ dp'[queue[i].call] = dp[queue[i].call] /\ no'[queue[i].call] = no[queue[i].call]
                 /\ frsmID'[queue[i].call] = frsmID[queue[i].call] /\ answer'[queue[i].call] = answer[queue[i].call]
      BY <2>3, <3>3 DEF Moves
    <3>4. r.call = c /\ dp'[c] # "idle" /\ answer'[c].kind = "none"
          /\ (dp'[c] \in {"open", "read"} => r.kind = dp'[c])
          /\ (dp'[c] \in {"close", "drop"} => r.kind = "close")
      BY Zenon, <2>4 DEF Moves, KindOf
    <3> QED
      BY <2>2, <2>4, <3>1, <3>2, <3>3, <3>4 DEF QueueInv
  <2>6. Fresh' \subseteq Fresh
    BY <1>2, <2>2, <2>4 DEF Fresh, Moves, KindOf
  <2> QED
    BY <2>2, <2>5, <2>6 DEF QueueType
<1> QED
  BY <1>1, <1>2 DEF Moves

\* The files of the server and the IDs of the calls stay what they were.
LEMMA MovesHandles ==
  ASSUME Constants, CallType, CallType', ServerType, HandleInv, OwnInv, NEW c \in Calls, Moves(c), Fresh' \subseteq Fresh
  PROVE  ServerType' /\ HandleInv' /\ OwnInv'
<1>1. ServerType'
  BY DEF Moves, ServerType
<1>2. nextID' <= Cardinality(Calls \ Fresh)'
  BY FreshCounted DEF Moves, HandleInv, ServerType
<1>3. HandleInv'
  BY Zenon, <1>2 DEF Moves, HandleInv, HandlesTracked
<1>4. \A d \in Calls : Told(d)' \in {Told(d), 0} /\ (dp'[d] \in {"idle", "open"} => frsmID'[d] = 0)
  BY DEF Moves, OwnInv, Told
<1>5. nextID' = nextID /\ nextID \in Nat
  BY DEF Moves, ServerType
<1>6. OwnInv'
  BY <1>4, <1>5 DEF OwnInv
<1> QED
  BY <1>1, <1>3, <1>6

\* The call has read what its file has given.
LEMMA CallKeepsData ==
  ASSUME Constants, CallType, ServerType, QueueInv, OwnInv, DataInv, NEW c \in Calls, CallStep(c), CallType', Moves(c)
  PROVE  DataInv'
<1>1. ASSUME NEW d \in Calls, d # c
      PROVE  CallData(d)'
  <2>1. CallData(d)
    BY DEF DataInv
  <2> QED
    BY ZenonT(30), <1>1, <2>1 DEF Moves, CallData, Told
<1>2. CallData(c)'
  <2>0. CallData(c) /\ data[c] \in Seq(1 .. Chunks)
    BY DEF DataInv, CallType
  <2> USE DEF CallType
  <2>1. CASE FileOpen(c)
    BY <2>0, <2>1 DEF FileOpen, Request, Refused, Moves, CallData, Told, serverVars, fileVars
  <2>2. CASE Opened(c)
    <3>1. /\ dp[c] = "open" /\ answer[c].kind = "ok" /\ frsmID'[c] = answer[c].id
          /\ dp'[c] \in {"read", "failed"} /\ data'[c] = data[c]
      BY <2>2 DEF Opened, Request, Refused
    <3>2. up' = up /\ entries' = entries /\ open' = open /\ answer'[c].kind = "none"
      BY DEF Moves
    <3>3. data[c] = <<>> /\ Len(data[c]) = 0
      BY <2>0, <3>1 DEF CallData
    <3> QED
      BY <2>0, <3>1, <3>2, <3>3 DEF CallData, Told
  <2>3. CASE FileRead(c)
    <3> DEFINE w == Append(data[c], answer[c].chunk)
    <3>1. data'[c] = w /\ answer[c].chunk = Len(data[c]) + 1 /\ answer[c].chunk \in 1 .. Chunks
          /\ answer[c].more = (answer[c].chunk < Chunks)
      BY <2>0, <2>3 DEF FileRead, CallData
    <3>2. Len(w) = Len(data[c]) + 1 /\ \A i \in DOMAIN w : w[i] = i
      BY <2>0, <3>1 DEF CallData
    <3>3. frsmID'[c] = frsmID[c] /\ dp[c] = "read" /\ answer[c].kind = "ok"
          /\ dp'[c] \in {"failed", "read", "close"}
          /\ (dp'[c] = "read" => answer[c].more) /\ (dp'[c] = "close" => ~answer[c].more)
      BY <2>3 DEF FileRead, Request, Refused
    <3> HIDE DEF w
    <3>4. up' = up /\ entries' = entries /\ open' = open /\ answer'[c].kind = "none" /\ Chunks \in Nat
      BY DEF Moves, Constants
    <3>5. Len(data[c]) \in Nat
      BY <2>0
    <3>6. dp'[c] = "close" => Len(w) = Chunks
      <4>1. dp'[c] = "close" => ~(answer[c].chunk < Chunks)
        BY <3>1, <3>3, Zenon
      <4> QED BY <3>1, <3>2, <3>4, <3>5, <4>1
    <3>7. dp'[c] = "read" /\ up' /\ Told(c)' \in DOMAIN entries' => open'[entries'[Told(c)']] = Len(w)
      BY <2>0, <3>2, <3>3, <3>4, <3>5 DEF CallData, Told
    <3>8. Len(w) + 0 = Len(w)
      BY SMTT(20), SMTT(30), <3>2, <3>5
    <3> QED
      BY Zenon, <3>1, <3>2, <3>3, <3>4, <3>6, <3>7, <3>8 DEF CallData
  <2>4. CASE Closed(c)
    BY SMTT(20), SMTT(30), <2>0, <2>4 DEF Closed, Moves, CallData, Told
  <2>5. CASE RequestFails(c)
    BY <2>0, <2>5 DEF RequestFails, Waiting, Kinds, Request, Refused, Moves, CallData, Told
  <2> QED
    BY <2>1, <2>2, <2>3, <2>4, <2>5 DEF CallStep
<1> QED
  BY Zenon, <1>1, <1>2 DEF DataInv

-----------------------------------------------------------------------------
(* A step of the server *)

\* What the server's answers have in common: the first request is handled, and at most the
\* answer of its call changes.
Handled(r) ==
  /\ queue # <<>> /\ r = Head(queue) /\ queue' = Tail(queue)
  /\ UNCHANGED <<up, served, dp, ctx, no, frsmID, data>>
  /\ \A d \in Calls : d # r.call => answer'[d] = answer[d]

\* The request that is handled is the latest of its call, which waits for nothing else.
LEMMA HeadFacts ==
  ASSUME QueueType, QueueInv, queue # <<>>, NEW r, r = Head(queue)
  PROVE  /\ r \in Requests /\ r.call \in Calls /\ dp[r.call] # "idle" /\ answer[r.call].kind = "none"
         /\ r.no = no[r.call] /\ r.id = frsmID[r.call]
         /\ dp[r.call] \in {"open", "read"} => r.kind = dp[r.call]
         /\ dp[r.call] \in {"close", "drop"} => r.kind = "close"
<1>1. 1 \in DOMAIN queue /\ r = queue[1]
  BY TailFacts DEF QueueType
<1>2. r \in Requests /\ r.call \in Calls
  BY <1>1, Queued
<1> QED
  BY <1>1, <1>2 DEF QueueInv

\* An answer is one of the types, and concerns one call.
LEMMA AnswerHandles ==
  ASSUME CallType, QueueType, QueueInv, queue # <<>>, NEW a, a.kind \in {"ok", "error"}, Answer(a),
         UNCHANGED <<up, served, dp, ctx, no, frsmID, data>>
  PROVE  /\ CallType' /\ Handled(Head(queue))
         /\ answer'[Head(queue).call] = IF up /\ Waiting(Head(queue).call) THEN a ELSE answer[Head(queue).call]
<1> DEFINE r == Head(queue)
<1>1. r.call \in Calls /\ r.no = no[r.call]
  BY HeadFacts
<1>2. /\ answer = [d \in Calls |-> answer[d]] /\ \A d \in Calls : answer[d].kind \in {"none", "ok", "error"}
      /\ up \in BOOLEAN /\ dp \in [Calls -> {"idle", "done", "failed"} \cup Kinds]
      /\ ctx \in [Calls -> {"live", "done"}] /\ no \in [Calls -> Nat]
      /\ frsmID \in [Calls -> Nat] /\ data \in [Calls -> Seq(1 .. Chunks)]
  BY DEF CallType
<1>3. answer' = (IF up /\ Waiting(r.call) THEN [answer EXCEPT ![r.call] = a] ELSE answer) /\ queue' = Tail(queue)
  BY <1>1 DEF Answer
<1> HIDE DEF r
<1>4. /\ answer' = [d \in Calls |-> answer'[d]] /\ \A d \in Calls : answer'[d].kind \in {"none", "ok", "error"}
      /\ \A d \in Calls : d # r.call => answer'[d] = answer[d]
      /\ answer'[r.call] = IF up /\ Waiting(r.call) THEN a ELSE answer[r.call]
  BY Zenon, <1>1, <1>2, <1>3
<1>5. CallType'
  <2>1. up' \in BOOLEAN
    BY <1>2, Zenon
  <2> QED BY <1>2, <1>4, <2>1 DEF CallType
<1> QED
  BY <1>3, <1>4, <1>5 DEF Handled, r

\* The requests behind it move up; a call whose open request was handled is not fresh.
LEMMA HandledQueue ==
  ASSUME CallType, QueueType, QueueInv, NEW r, Handled(r)
  PROVE  QueueType' /\ QueueInv' /\ Fresh' \subseteq Fresh /\ (r.kind = "open" => r.call \in Fresh /\ r.call \notin Fresh')
<1>1. /\ 1 \in DOMAIN queue /\ r = queue[1] /\ queue' \in Seq(Requests)
      /\ \A i \in DOMAIN queue' : i \in Nat /\ i # 0 /\ i + 1 \in DOMAIN queue /\ queue'[i] = queue[i + 1]
  BY TailFacts DEF QueueType, Handled
<1>2. r.call \in Calls /\ dp[r.call] # "idle"
  BY HeadFacts DEF Handled
<1>3. \A i \in DOMAIN queue' : queue'[i].call \in Calls /\ queue'[i].call # r.call
  <2> SUFFICES ASSUME NEW i \in DOMAIN queue' PROVE queue'[i].call \in Calls /\ queue'[i].call # r.call
    OBVIOUS
  <2>1. i + 1 \in DOMAIN queue /\ i + 1 # 1 /\ queue'[i] = queue[i + 1]
    BY <1>1
  <2>2. queue[i + 1].call \in Calls
    BY Zenon, <2>1, Queued
  <2> QED BY <1>1, <2>1, <2>2 DEF QueueInv
<1>4. QueueInv'
  <2>1. \A i, j \in DOMAIN queue' : queue'[i].call = queue'[j].call => i = j
    <3> SUFFICES ASSUME NEW i \in DOMAIN queue', NEW j \in DOMAIN queue', queue'[i].call = queue'[j].call PROVE i = j
      OBVIOUS
    <3>1. i + 1 = j + 1
      BY <1>1 DEF QueueInv
    <3> QED BY <1>1, <3>1
  <2>2. \A d \in Calls : dp'[d] = "idle" => answer'[d].kind = "none"
    BY <1>2 DEF QueueInv, Handled
  <2>3. \A i \in DOMAIN queue' : i + 1 \in DOMAIN queue /\ queue'[i] = queue[i + 1] /\ answer'[queue'[i].call] = answer[queue'[i].call]
    BY <1>1, <1>3 DEF Handled
  <2> QED BY <2>1, <2>2, <2>3 DEF QueueInv, Handled
<1>5. Fresh' \subseteq Fresh
  BY <1>1 DEF Fresh, Handled
<1>6. r.kind = "open" => r.call \in Fresh /\ r.call \notin Fresh'
  BY <1>1, <1>2, <1>3 DEF Fresh, Handled
<1> QED
  BY <1>1, <1>4, <1>5, <1>6 DEF QueueType

\* Every step that handles a request is such a step.
LEMMA HandlersAnswer ==
  ASSUME CallType, QueueType, QueueInv, HandleFileOpen \/ HandleFileRead \/ HandleFileClose
  PROVE  CallType' /\ Handled(Head(queue))
<1>1. queue # <<>> /\ UNCHANGED <<up, served, dp, ctx, no, frsmID, data>>
  BY DEF HandleFileOpen, HandleFileRead, HandleFileClose, Handling
<1>2. \E a : a.kind \in {"ok", "error"} /\ Answer(a)
  <2>1. Failed.kind = "error"
    BY DEF Failed
  <2>2. CASE HandleFileOpen
    BY <2>1, <2>2 DEF HandleFileOpen
  <2>3. CASE HandleFileRead
    BY <2>1, <2>3 DEF HandleFileRead
  <2>4. CASE HandleFileClose
    BY <2>1, <2>4 DEF HandleFileClose
  <2> QED BY <2>2, <2>3, <2>4
<1> QED
  BY <1>1, <1>2, AnswerHandles

-----------------------------------------------------------------------------
(* The table of open files and the provider *)

\* IDs and handles lie between 1 and the number of files opened.
LEMMA TableFacts ==
  ASSUME Constants, ServerType, HandleInv
  PROVE  /\ nextID \in Nat /\ Cardinality(Calls) \in Nat /\ nextID <= Cardinality(Calls)
         /\ 1 .. nextID \subseteq IDs /\ DOMAIN open \subseteq 1 .. nextID /\ DOMAIN entries \subseteq 1 .. nextID
         /\ \A i \in DOMAIN entries : entries[i] \in DOMAIN open
         /\ \A h \in DOMAIN open : (\E i \in DOMAIN entries : entries[i] = h) /\ open[h] \in 0 .. Chunks
         /\ \A i, j \in DOMAIN entries : entries[i] = entries[j] => i = j
<1>1. Cardinality(Calls \ Fresh) \in Nat /\ Cardinality(Calls) \in Nat /\ Cardinality(Calls \ Fresh) <= Cardinality(Calls)
  <2> DEFINE A == Calls \ Fresh
  <2>1. IsFiniteSet(Calls) /\ A \in SUBSET Calls
    BY DEF Constants
  <2> HIDE DEF A
  <2>2. IsFiniteSet(A) /\ Cardinality(A) <= Cardinality(Calls)
    BY <2>1, FS_Subset
  <2> QED BY <2>1, <2>2, FS_CardinalityType DEF A
<1>2. nextID \in Nat /\ nextID <= Cardinality(Calls)
  BY <1>1 DEF ServerType, HandleInv
<1>3. 1 .. nextID \subseteq IDs
  BY <1>1, <1>2 DEF IDs
<1>4. DOMAIN open \subseteq 1 .. nextID /\ DOMAIN entries \subseteq 1 .. nextID
  BY DEF HandleInv, ServerType
<1>5. /\ \A i \in DOMAIN entries : entries[i] \in DOMAIN open
      /\ \A h \in DOMAIN open : \E i \in DOMAIN entries : entries[i] = h
      /\ \A i, j \in DOMAIN entries : entries[i] = entries[j] => i = j
  BY DEF HandleInv, HandlesTracked, Range
<1>6. \A h \in DOMAIN open : open[h] \in 0 .. Chunks
  BY DEF ServerType
<1> QED
  BY <1>1, <1>2, <1>3, <1>4, <1>5, <1>6

\* The handle a file gets is the next number, as is its ID.
LEMMA NextHandle ==
  ASSUME ServerType, HandleInv
  PROVE  Cardinality({i \in IDs : closes[i] > 0} \cup DOMAIN open) + 1 = nextID + 1
<1>1. {i \in IDs : closes[i] > 0} \cup DOMAIN open = 1 .. nextID /\ nextID \in Nat
  BY DEF HandleInv, ServerType
<1>2. Cardinality(1 .. nextID) = nextID
  BY <1>1, FS_Interval
<1> QED
  BY Zenon, <1>1, <1>2

\* A step that handles a request and changes neither files nor table
LEMMA RefusedKeeps ==
  ASSUME Constants, IInv, NEW r, Handled(r), CallType', Fresh' \subseteq Fresh,
         answer'[r.call].kind = "error" \/ answer'[r.call] = answer[r.call],
         UNCHANGED <<nextID, entries, open, closes>>
  PROVE  ServerType' /\ HandleInv' /\ OwnInv' /\ DataInv'
<1>0. r.call \in Calls /\ answer[r.call].kind = "none"
  BY HeadFacts DEF IInv, Handled
<1>1. ServerType'
  BY DEF IInv, ServerType, Handled
<1>2. HandleInv'
  <2>1. nextID' <= Cardinality(Calls \ Fresh)'
    BY FreshCounted DEF IInv, HandleInv, ServerType
  <2> QED BY <2>1 DEF IInv, HandleInv, HandlesTracked
<1>3. \A d \in Calls : Told(d)' = Told(d) /\ (answer'[d] = answer[d] \/ (answer'[d].kind = "error" /\ answer[d].kind = "none"))
  BY <1>0 DEF Handled, Told
<1>4. OwnInv'
  BY <1>3 DEF IInv, OwnInv, Handled
<1>5. DataInv'
  <2> SUFFICES ASSUME NEW d \in Calls PROVE CallData(d)'
    BY DEF DataInv
  <2>1. CallData(d)
    BY DEF IInv, DataInv
  <2> QED BY ZenonT(30), <1>3, <2>1 DEF Handled, CallData
<1> QED
  BY <1>1, <1>2, <1>4, <1>5

\* handleFileOpen gives a new file the next ID and the next handle.
LEMMA OpenKeeps ==
  ASSUME Constants, IInv, HandleFileOpen, QueueType', CallType', Handled(Head(queue)), Fresh' \subseteq Fresh,
         Head(queue).call \in Fresh, Head(queue).call \notin Fresh'
  PROVE  ServerType' /\ HandleInv' /\ OwnInv' /\ DataInv'
<1> DEFINE r == Head(queue)
           h == Cardinality({i \in IDs : closes[i] > 0} \cup DOMAIN open) + 1
<1>0. /\ r.call \in Calls /\ answer[r.call].kind = "none" /\ r.kind = "open" /\ queue # <<>>
      /\ Waiting(r.call) => dp[r.call] = "open"
      /\ dp[r.call] # "read" /\ (dp[r.call] = "open" => Waiting(r.call))
  BY HeadFacts DEF IInv, HandleFileOpen, Handling, Waiting, Kinds
<1>c. PICK c \in Calls : c = r.call
  BY <1>0
<1>1. CASE Answer(Failed) /\ UNCHANGED <<open, nextID, entries>>
  <2>1. answer'[r.call].kind = "error" \/ answer'[r.call] = answer[r.call]
    BY <1>0, <1>1, AnswerHandles DEF IInv, Failed, Handled
  <2>2. UNCHANGED closes
    BY DEF HandleFileOpen
  <2> QED BY Zenon, <1>1, <2>1, <2>2, RefusedKeeps
<1>2. CASE /\ open' = [i \in DOMAIN open \cup {h} |-> IF i = h THEN 0 ELSE open[i]]
           /\ nextID' = Alloc
           /\ entries' = [i \in DOMAIN entries \cup {Alloc} |-> IF i = Alloc THEN h ELSE entries[i]]
           /\ Answer([kind |-> "ok", id |-> Alloc])
  <2> DEFINE n == nextID + 1
  <2>1. /\ open' = [i \in DOMAIN open \cup {n} |-> IF i = n THEN 0 ELSE open[i]]
        /\ nextID' = n /\ n \in Nat /\ UNCHANGED <<closes, served>>
        /\ entries' = [i \in DOMAIN entries \cup {n} |-> IF i = n THEN n ELSE entries[i]]
    BY <1>2, NextHandle DEF IInv, Alloc, ServerType, HandleFileOpen
  <2>2. answer'[r.call] = IF up /\ Waiting(r.call) THEN [kind |-> "ok", id |-> n] ELSE answer[r.call]
    BY <1>0, <1>2, AnswerHandles DEF IInv, Alloc, Handled
  <2>3. /\ nextID \in Nat /\ DOMAIN open \subseteq 1 .. nextID /\ DOMAIN entries \subseteq 1 .. nextID
        /\ \A i \in DOMAIN entries : entries[i] \in DOMAIN open
        /\ \A k \in DOMAIN open : (\E i \in DOMAIN entries : entries[i] = k) /\ open[k] \in 0 .. Chunks
        /\ \A i, j \in DOMAIN entries : entries[i] = entries[j] => i = j
    BY TableFacts DEF IInv
  <2>4. n \in IDs /\ n <= Cardinality(Calls \ Fresh)'
    <3>1. n <= Cardinality(Calls \ Fresh)'
      <4>1. Cardinality(Calls \ Fresh) + 1 <= Cardinality(Calls \ Fresh)'
        BY Zenon, <1>0, FreshFalls
      <4>2. Cardinality(Calls \ Fresh) \in Nat /\ Cardinality(Calls \ Fresh)' \in Nat
        BY FreshCounted
      <4>3. nextID <= Cardinality(Calls \ Fresh)
        BY DEF IInv, HandleInv
      <4> QED BY <2>3, <4>1, <4>2, <4>3
    <3>2. Cardinality(Calls) \in Nat /\ n <= Cardinality(Calls)
      BY <2>1, <3>1, FreshCounted
    <3> QED BY <2>1, <2>3, <3>1, <3>2 DEF IDs
  <2>5. n \notin 1 .. nextID /\ 1 .. n = (1 .. nextID) \cup {n}
    BY <2>3
  <2> HIDE DEF n, r, h
  <2>6. ServerType'
    <3>1. served' \in BOOLEAN
      BY <2>1, Zenon DEF IInv, ServerType
    <3>2. open' \in [DOMAIN open' -> 0 .. Chunks]
      <4>1. Chunks \in Nat
        BY DEF Constants
      <4> QED BY <2>1, <2>3, <4>1
    <3>3. DOMAIN entries' \subseteq 1 .. n /\ entries' = [i \in DOMAIN entries' |-> entries'[i]]
      BY Zenon, <2>1, <2>3, <2>5
    <3>4. closes' \in [IDs -> Nat]
      BY <2>1 DEF IInv, ServerType
    <3> QED BY <2>1, <3>1, <3>2, <3>3, <3>4 DEF ServerType
  <2>7. HandleInv'
    <3>1. {i \in IDs : closes[i] > 0} \cup DOMAIN open = 1 .. nextID
          /\ \A i \in IDs : closes[i] \in {0, 1} /\ (i \in DOMAIN open => closes[i] = 0)
      BY DEF IInv, HandleInv
    <3>2. {i \in IDs : closes'[i] > 0} \cup DOMAIN open' = 1 .. n
      BY <2>1, <2>5, <3>1
    <3>3. closes[n] = 0
      BY <2>4, <2>5, <3>1
    <3>4. \A i \in IDs : closes'[i] \in {0, 1} /\ (i \in DOMAIN open' => closes'[i] = 0)
      BY <2>1, <3>1, <3>3
    <3>5. Range(entries') = DOMAIN open' /\ \A i, j \in DOMAIN entries' : entries'[i] = entries'[j] => i = j
      <4>1. DOMAIN entries' = DOMAIN entries \cup {n} /\ DOMAIN open' = DOMAIN open \cup {n}
            /\ entries'[n] = n /\ \A i \in DOMAIN entries : entries'[i] = entries[i] /\ entries[i] # n
        BY <2>1, <2>3, <2>5
      <4>2. \A i, j \in DOMAIN entries' : entries'[i] = entries'[j] => i = j
        BY SMTT(20), SMTT(30), <2>3, <4>1
      <4>3. \A i \in DOMAIN entries' : entries'[i] \in DOMAIN open'
        BY <2>3, <4>1
      <4>4. \A k \in DOMAIN open' : \E i \in DOMAIN entries' : entries'[i] = k
        BY <2>3, <4>1
      <4>5. Range(entries') = DOMAIN open'
        BY Zenon, <4>3, <4>4, Zenon DEF Range
      <4> QED BY Zenon, <4>2, <4>5
    <3> QED BY Zenon, <2>1, <2>4, <3>2, <3>4, <3>5 DEF HandleInv, HandlesTracked
  <2>8. \A d \in Calls : d # c => Told(d)' = Told(d) /\ Told(d) \in 0 .. nextID
    BY <1>c DEF Handled, Told, IInv, OwnInv, r
  <2>9. Told(c)' \in {n, Told(c)} /\ Told(c) \in 0 .. nextID
    <3>1. dp' = dp /\ frsmID' = frsmID
      BY DEF Handled
    <3>2. CASE up /\ Waiting(c)
      <4>1. answer'[c] = [kind |-> "ok", id |-> n]
        BY <1>c, <2>2, <3>2
      <4>2. answer'[c].kind = "ok" /\ answer'[c].id = n
        BY <4>1
      <4>3. Told(c)' = n
        BY Zenon, <1>0, <1>c, <3>1, <3>2, <4>2 DEF Told
      <4> QED BY Zenon, <1>0, <1>c, <4>3 DEF IInv, OwnInv
    <3>3. CASE ~(up /\ Waiting(c))
      <4>1. answer'[c] = answer[c]
        BY <1>c, <2>2, <3>3
      <4>2. Told(c)' = Told(c)
        BY Zenon, <3>1, <4>1 DEF Told
      <4> QED BY <1>0, <1>c, <4>2 DEF IInv, OwnInv
    <3> QED BY <3>2, <3>3
  <2>10. OwnInv'
    <3>1. \A d \in Calls : Told(d)' \in 0 .. n
      <4>1. 0 .. nextID \subseteq 0 .. n /\ n \in 0 .. n
        BY <2>3 DEF n
      <4> QED BY <2>8, <2>9, <4>1
    <3>2. \A d \in Calls : dp'[d] \in {"idle", "open"} => frsmID'[d] = 0
      BY DEF IInv, OwnInv, Handled
    <3>3. \A e, d \in Calls : e # d /\ Told(e)' = Told(d)' => Told(e)' = 0
      <4>1. n \notin 0 .. nextID
        BY <2>3 DEF n
      <4>2. \A e, d \in Calls : e # d /\ Told(e) = Told(d) => Told(e) = 0
        BY DEF IInv, OwnInv
      <4> QED BY <2>8, <2>9, <4>1, <4>2
    <3> QED BY <2>1, <3>1, <3>2, <3>3 DEF OwnInv
  <2>11. DataInv'
    <3> SUFFICES ASSUME NEW d \in Calls PROVE CallData(d)'
      BY DEF DataInv
    <3>0. CallData(d)
      BY Zenon DEF IInv, DataInv
    <3>1. CASE d # c
      <4>1. Told(d) \in DOMAIN entries' => /\ Told(d) \in DOMAIN entries /\ entries'[Told(d)] = entries[Told(d)]
                                           /\ open'[entries[Told(d)]] = open[entries[Told(d)]]
        BY <2>1, <2>3, <2>5, <2>8, <3>1 DEF n
      <4>2. answer'[d] = answer[d] /\ dp' = dp /\ data' = data /\ up' = up /\ Told(d)' = Told(d)
        BY Zenon, <1>c, <2>8, <3>1 DEF Handled, r
      <4> QED BY Zenon, <3>0, <4>1, <4>2 DEF CallData
    <3>2. CASE d = c
      <4>1. dp' = dp /\ data' = data /\ up' = up /\ dp[d] # "read"
        BY <1>0, <1>c, <3>2 DEF Handled, r
      <4>2. up /\ dp[d] = "open" => Told(d)' = n /\ entries'[n] = n /\ open'[n] = 0
        BY <1>0, <1>c, <2>1, <2>2, <3>2, <4>1 DEF Told
      <4> QED BY Zenon, <3>0, <4>1, <4>2 DEF CallData
    <3> QED BY <3>1, <3>2
  <2> QED
    BY Zenon, <2>6, <2>7, <2>10, <2>11
<1> QED
  BY <1>1, <1>2 DEF HandleFileOpen

\* handleFileRead reads the next chunk of the file of the call that asks, and of no other.
LEMMA ReadKeeps ==
  ASSUME Constants, IInv, HandleFileRead, CallType', Handled(Head(queue)), Fresh' \subseteq Fresh
  PROVE  ServerType' /\ HandleInv' /\ OwnInv' /\ DataInv'
<1> DEFINE r == Head(queue)
           h == entries[r.id]
<1>0. /\ r.call \in Calls /\ answer[r.call].kind = "none" /\ r.kind = "read" /\ queue # <<>>
      /\ r.id = frsmID[r.call] /\ dp[r.call] # "open"
      /\ Waiting(r.call) => dp[r.call] = "read"
      /\ dp[r.call] = "read" => Waiting(r.call)
  BY HeadFacts DEF IInv, HandleFileRead, Handling, Waiting, Kinds
<1>c. PICK c \in Calls : c = r.call
  BY Zenon, <1>0
<1>u. UNCHANGED <<nextID, entries, closes>>
  BY DEF HandleFileRead
<1>1. CASE Answer(Failed) /\ UNCHANGED open
  <2>1. answer'[r.call].kind = "error" \/ answer'[r.call] = answer[r.call]
    BY <1>0, <1>1, AnswerHandles DEF IInv, Failed, Handled
  <2> QED BY Zenon, <1>1, <1>u, <2>1, RefusedKeeps
<1>2. CASE /\ r.id \in DOMAIN entries
           /\ open[h] < Chunks
           /\ open' = [open EXCEPT ![h] = @ + 1]
           /\ Answer([kind |-> "ok", chunk |-> open[h] + 1, more |-> open[h] + 1 < Chunks])
  <2> DEFINE a == [kind |-> "ok", chunk |-> open[h] + 1, more |-> open[h] + 1 < Chunks]
  <2>1. answer'[c] = IF up /\ Waiting(c) THEN a ELSE answer[c]
    BY <1>0, <1>c, <1>2, AnswerHandles DEF IInv, Handled
  <2>2. a.kind = "ok" /\ a.chunk = open[h] + 1 /\ a.more = (open[h] + 1 < Chunks)
    OBVIOUS
  <2>3. /\ nextID \in Nat /\ DOMAIN entries \subseteq 1 .. nextID
        /\ \A i \in DOMAIN entries : entries[i] \in DOMAIN open
        /\ \A k \in DOMAIN open : open[k] \in 0 .. Chunks
        /\ \A i, j \in DOMAIN entries : entries[i] = entries[j] => i = j
    BY TableFacts DEF IInv
  <2>4. /\ h \in DOMAIN open /\ DOMAIN open' = DOMAIN open /\ open'[h] = open[h] + 1
        /\ open[h] + 1 \in 1 .. Chunks /\ open[h] \in Nat /\ Chunks \in Nat
        /\ \A k \in DOMAIN open : k # h => open'[k] = open[k]
        /\ open' \in [DOMAIN open' -> 0 .. Chunks]
    <3>1. open \in [DOMAIN open -> 0 .. Chunks]
      BY DEF IInv, ServerType
    <3>2. h \in DOMAIN open /\ open[h] \in 0 .. Chunks /\ Chunks \in Nat
      BY Zenon, <1>2, <2>3 DEF Constants
    <3>3. open[h] + 1 \in 1 .. Chunks /\ open[h] + 1 \in 0 .. Chunks /\ open[h] \in Nat
      BY SMTT(20), SMTT(30), <1>2, <3>2
    <3> HIDE DEF h
    <3> QED BY Zenon, <1>2, <3>1, <3>2, <3>3
  <2> HIDE DEF a
  <2>5. Told(c) = r.id /\ Told(c) # 0
    BY <1>0, <1>c, <1>2, <2>3 DEF Told
  <2>6. \A d \in Calls : Told(d)' = Told(d)
    <3>1. \A d \in Calls : d # c => Told(d)' = Told(d)
      BY <1>c DEF Handled, Told
    <3>2. Told(c)' = Told(c)
      BY <1>0, <1>c DEF Handled, Told
    <3> QED BY <3>1, <3>2
  <2>7. ServerType'
    <3>1. served' \in BOOLEAN
      BY Zenon DEF IInv, ServerType, Handled
    <3> QED BY <1>u, <2>4, <3>1 DEF IInv, ServerType
  <2>8. HandleInv'
    <3>1. nextID' <= Cardinality(Calls \ Fresh)'
      BY <1>u, FreshCounted DEF IInv, HandleInv, ServerType
    <3>2. DOMAIN open' = DOMAIN open
      BY Zenon, <2>4
    <3> QED BY <1>u, <3>1, <3>2 DEF IInv, HandleInv, HandlesTracked
  <2>9. OwnInv'
    <3>1. frsmID' = frsmID /\ dp' = dp
      BY DEF Handled
    <3> QED BY <1>u, <2>6, <3>1 DEF IInv, OwnInv
  <2>10. DataInv'
    <3> SUFFICES ASSUME NEW d \in Calls PROVE CallData(d)'
      BY DEF DataInv
    <3>0. CallData(d) /\ dp' = dp /\ data' = data /\ up' = up /\ Told(d)' = Told(d) /\ entries' = entries
      BY Zenon, <1>u, <2>6 DEF IInv, DataInv, Handled
    <3>1. CASE d # c
      <4>1. Told(d) \in DOMAIN entries => open'[entries[Told(d)]] = open[entries[Told(d)]]
        <5>1. Told(d) # r.id
          BY <2>5, <3>1 DEF IInv, OwnInv
        <5> QED BY <1>2, <2>3, <2>4, <5>1
      <4>2. answer'[d] = answer[d]
        BY <1>c, <3>1 DEF Handled
      <4> HIDE DEF h
      <4> QED BY ZenonT(30), <3>0, <4>1, <4>2 DEF CallData
    <3>2. CASE d = c
      <4>1. CASE up /\ Waiting(c)
        <5>1. answer'[d] = a /\ dp[d] = "read" /\ answer[d].kind = "none"
          BY Zenon, <1>0, <1>c, <2>1, <3>2, <4>1
        <5>2. open[h] = Len(data[d])
          <6>1. open[entries[Told(d)]] = Len(data[d]) + 0 /\ Len(data[d]) \in Nat
            BY <1>2, <2>5, <3>0, <3>2, <4>1, <5>1 DEF CallData, IInv, CallType
          <6> QED BY SMTT(20), SMTT(30), <2>5, <3>2, <6>1
        <5>3. /\ answer'[d].chunk = Len(data[d]) + 1 /\ answer'[d].chunk \in 1 .. Chunks
              /\ answer'[d].kind = "ok" /\ answer'[d].more = (answer'[d].chunk < Chunks)
          BY <2>2, <2>4, <5>1, <5>2
        <5>4. open'[entries[Told(d)]] = Len(data[d]) + 1
          BY Zenon, <2>4, <2>5, <3>2, <5>2
        <5> HIDE DEF h
        <5> QED BY Zenon, <3>0, <5>1, <5>3, <5>4 DEF CallData
      <4>2. CASE ~(up /\ Waiting(c))
        <5>1. answer'[d] = answer[d] /\ ~(up /\ dp[d] = "read") /\ dp[d] # "open"
          BY Zenon, <1>0, <1>c, <2>1, <3>2, <4>2
        <5> QED BY Zenon, <3>0, <5>1 DEF CallData
      <4> QED BY Zenon, <4>1, <4>2
    <3> QED BY <3>1, <3>2
  <2> QED
    BY Zenon, <2>7, <2>8, <2>9, <2>10
<1> QED
  BY Zenon, <1>1, <1>2 DEF HandleFileRead

\* Files are closed as they leave the table.
LEMMA RemovalKeeps ==
  ASSUME Constants, IInv, NEW I \in SUBSET DOMAIN entries, Fresh' \subseteq Fresh,
         entries' = [j \in DOMAIN entries \ I |-> entries[j]],
         CloseHandles({entries[i] : i \in I}), nextID' = nextID, served' \in BOOLEAN
  PROVE  /\ ServerType' /\ HandleInv'
         /\ \A j \in DOMAIN entries' : /\ j \in DOMAIN entries /\ entries'[j] = entries[j]
                                       /\ open'[entries[j]] = open[entries[j]]
<1> DEFINE H == {entries[i] : i \in I}
<1>1. /\ nextID \in Nat /\ 1 .. nextID \subseteq IDs /\ DOMAIN open \subseteq 1 .. nextID
      /\ DOMAIN entries \subseteq 1 .. nextID
      /\ \A i \in DOMAIN entries : entries[i] \in DOMAIN open
      /\ \A k \in DOMAIN open : (\E i \in DOMAIN entries : entries[i] = k) /\ open[k] \in 0 .. Chunks
      /\ \A i, j \in DOMAIN entries : entries[i] = entries[j] => i = j
  BY TableFacts DEF IInv
<1>2. \A j \in DOMAIN entries : entries[j] \in H <=> j \in I
  BY <1>1
<1>3. H \subseteq DOMAIN open
  BY <1>1
<1>4. /\ open' = [k \in DOMAIN open \ H |-> open[k]]
      /\ closes' = [k \in IDs |-> IF k \in H THEN closes[k] + 1 ELSE closes[k]]
  BY DEF CloseHandles
<1> HIDE DEF H
<1>5. \A j \in DOMAIN entries' : /\ j \in DOMAIN entries /\ entries'[j] = entries[j]
                                 /\ entries[j] \in DOMAIN open' /\ open'[entries[j]] = open[entries[j]]
  BY <1>1, <1>2, <1>4
<1>6. /\ closes \in [IDs -> Nat] /\ \A k \in IDs : closes[k] \in {0, 1} /\ (k \in DOMAIN open => closes[k] = 0)
      /\ {k \in IDs : closes[k] > 0} \cup DOMAIN open = 1 .. nextID
  BY DEF IInv, ServerType, HandleInv
<1>7. \A k \in IDs : closes'[k] = (IF k \in H THEN 1 ELSE closes[k])
  BY <1>3, <1>4, <1>6
<1>8. ServerType'
  <2>1. open' \in [DOMAIN open' -> 0 .. Chunks]
    BY <1>1, <1>4
  <2>2. closes' \in [IDs -> Nat]
    BY <1>4, <1>6, <1>7
  <2>3. entries' = [j \in DOMAIN entries' |-> entries'[j]] /\ DOMAIN entries' \subseteq 1 .. nextID'
    BY Zenon, <1>1
  <2> QED BY Zenon, <1>1, <2>1, <2>2, <2>3 DEF ServerType
<1>9. HandleInv'
  <2>1. nextID' <= Cardinality(Calls \ Fresh)'
    BY FreshCounted DEF IInv, HandleInv, ServerType
  <2>2. {k \in IDs : closes'[k] > 0} \cup DOMAIN open' = 1 .. nextID'
    <3>1. \A k \in IDs : closes'[k] > 0 <=> (k \in H \/ closes[k] > 0)
      BY <1>7
    <3>2. DOMAIN open' = DOMAIN open \ H
      BY <1>4
    <3> QED BY <1>1, <1>3, <1>6, <3>1, <3>2
  <2>3. \A k \in IDs : closes'[k] \in {0, 1} /\ (k \in DOMAIN open' => closes'[k] = 0)
    BY Zenon, <1>4, <1>6, <1>7
  <2>4. \A i, j \in DOMAIN entries' : entries'[i] = entries'[j] => i = j
    BY Zenon, <1>1, <1>5
  <2>5. \A k \in DOMAIN open' : \E i \in DOMAIN entries' : entries'[i] = k
    BY <1>1, <1>2, <1>4
  <2>6. Range(entries') = DOMAIN open'
    <3>1. \A j \in DOMAIN entries' : entries'[j] \in DOMAIN open'
      BY Zenon, <1>5
    <3> QED BY <2>5, <3>1, Zenon DEF Range
  <2> QED BY Zenon, <2>1, <2>2, <2>3, <2>4, <2>6 DEF HandleInv, HandlesTracked
<1> QED
  BY <1>5, <1>8, <1>9

\* handleFileClose closes the file of the call that asks.
LEMMA CloseKeeps ==
  ASSUME Constants, IInv, HandleFileClose, CallType', Handled(Head(queue)), Fresh' \subseteq Fresh
  PROVE  ServerType' /\ HandleInv' /\ OwnInv' /\ DataInv'
<1> DEFINE r == Head(queue)
<1>0. /\ r.call \in Calls /\ answer[r.call].kind = "none" /\ r.kind = "close" /\ queue # <<>>
      /\ dp[r.call] \notin {"open", "read"}
  BY HeadFacts DEF IInv, HandleFileClose, Handling
<1>c. PICK c \in Calls : c = r.call
  BY <1>0
<1>1. CASE r.id \notin DOMAIN entries /\ Answer(Failed) /\ UNCHANGED <<entries, open, closes>>
  <2>1. answer'[r.call].kind = "error" \/ answer'[r.call] = answer[r.call]
    BY <1>0, <1>1, AnswerHandles DEF IInv, Failed, Handled
  <2>2. UNCHANGED nextID
    BY DEF HandleFileClose
  <2> QED BY Zenon, <1>1, <2>1, <2>2, RefusedKeeps
<1>2. CASE r.id \in DOMAIN entries /\ entries' = FrsmRemove(r.id) /\ CloseHandles({entries[r.id]})
  <2>1. /\ ServerType' /\ HandleInv'
        /\ \A j \in DOMAIN entries' : /\ j \in DOMAIN entries /\ entries'[j] = entries[j]
                                      /\ open'[entries[j]] = open[entries[j]]
    <3>1. {entries[i] : i \in {r.id}} = {entries[r.id]} /\ {r.id} \in SUBSET DOMAIN entries
      BY <1>2
    <3>2. nextID' = nextID /\ entries' = [j \in DOMAIN entries \ {r.id} |-> entries[j]]
      BY <1>2 DEF HandleFileClose, FrsmRemove
    <3>3. served' \in BOOLEAN
      BY Zenon DEF IInv, ServerType, Handled
    <3>4. CloseHandles({entries[i] : i \in {r.id}})
      BY <1>2, <3>1
    <3> HIDE DEF r
    <3> QED BY Zenon, <3>1, <3>2, <3>3, <3>4, RemovalKeeps
  <2>2. \A d \in Calls : Told(d)' = Told(d) /\ (d # c => answer'[d] = answer[d])
    BY Zenon, <1>0, <1>c DEF Handled, Told
  <2>3. OwnInv'
    <3>1. frsmID' = frsmID /\ dp' = dp /\ nextID' = nextID
      BY DEF Handled, HandleFileClose
    <3> QED BY <2>2, <3>1 DEF IInv, OwnInv
  <2>4. DataInv'
    <3> SUFFICES ASSUME NEW d \in Calls PROVE CallData(d)'
      BY DEF DataInv
    <3>0. CallData(d) /\ dp' = dp /\ data' = data /\ up' = up /\ Told(d)' = Told(d)
      BY Zenon, <2>2 DEF IInv, DataInv, Handled
    <3>1. CASE d # c
      BY ZenonT(30), <2>1, <2>2, <3>0, <3>1 DEF CallData
    <3>2. CASE d = c
      BY Zenon, <1>0, <1>c, <3>0, <3>2 DEF CallData
    <3> QED BY <3>1, <3>2
  <2> QED BY Zenon, <2>1, <2>3, <2>4
<1> QED
  BY Zenon, <1>1, <1>2 DEF HandleFileClose

\* The cleanup at the end of the association closes what is left.
LEMMA CloseAllKeeps ==
  ASSUME Constants, IInv, CloseAll
  PROVE  IInv'
<1>1. CallType'
  <2>1. up' \in BOOLEAN
    BY Zenon DEF CloseAll, IInv, CallType
  <2> QED BY <2>1 DEF CloseAll, IInv, CallType, callVars
<1>2. queue' = <<>> /\ DOMAIN queue' = {} /\ UNCHANGED <<dp, no, frsmID, answer, data, nextID>> /\ ~up'
  BY DEF CloseAll, callVars
<1>3. QueueType' /\ QueueInv' /\ Fresh' \subseteq Fresh
  <2>1. QueueType'
    BY <1>2 DEF QueueType
  <2>2. QueueInv'
    BY <1>2 DEF QueueInv, IInv
  <2>3. Fresh' \subseteq Fresh
    BY Zenon, <1>2 DEF Fresh
  <2> QED BY <2>1, <2>2, <2>3
<1>4. ServerType' /\ HandleInv'
  <2>1. entries' = [j \in DOMAIN entries \ DOMAIN entries |-> entries[j]] /\ served' \in BOOLEAN
    BY Zenon DEF CloseAll, Empty
  <2>2. CloseHandles({entries[i] : i \in DOMAIN entries})
    BY DEF CloseAll, AllHandles, Range
  <2> QED BY <1>2, <1>3, <2>1, <2>2, RemovalKeeps
<1>5. \A d \in Calls : Told(d)' = Told(d)
  BY <1>2 DEF Told
<1>6. OwnInv'
  BY <1>2, <1>5 DEF OwnInv, IInv
<1>7. DataInv'
  BY ZenonT(30), <1>2 DEF DataInv, CallData, IInv
<1> QED
  BY Zenon, <1>1, <1>3, <1>4, <1>6, <1>7 DEF IInv

-----------------------------------------------------------------------------
(* The theorems *)

\* A new association satisfies the invariant.
LEMMA Initially ==
  ASSUME Constants, Init
  PROVE  IInv
<1>1. /\ queue = <<>> /\ DOMAIN queue = {} /\ nextID = 0 /\ DOMAIN entries = {} /\ DOMAIN open = {} /\ Chunks \in Nat
      /\ \A c \in Calls : /\ dp[c] = "idle" /\ answer[c] = None /\ answer[c].kind = "none" /\ frsmID[c] = 0
                          /\ data[c] = <<>>
  BY DEF Init, Empty, None, Constants
<1>2. CallType
  BY DEF Init, CallType, None, Kinds
<1>3. QueueType /\ QueueInv
  BY <1>1 DEF QueueType, QueueInv
<1>4. ServerType
  BY <1>1 DEF Init, ServerType, Empty
<1>5. Calls \ Fresh = {} /\ Cardinality({}) = 0
  BY <1>1, FS_EmptySet DEF Fresh
<1>6. HandleInv
  <2>1. {h \in IDs : closes[h] > 0} = {} /\ \A h \in IDs : closes[h] = 0
    BY DEF Init
  <2>2. 1 .. nextID = {}
    BY <1>1
  <2>3. HandlesTracked
    BY <1>1 DEF HandlesTracked, Range
  <2>4. nextID <= Cardinality(Calls \ Fresh)
    <3> DEFINE A == Calls \ Fresh
    <3>1. A = {}
      BY <1>5
    <3> HIDE DEF A
    <3>2. nextID <= Cardinality(A)
      BY <1>1, <1>5, <3>1
    <3> QED BY <3>2 DEF A
  <2>5. {h \in IDs : closes[h] > 0} \cup DOMAIN open = 1 .. nextID
    BY Zenon, <1>1, <2>1, <2>2
  <2> QED BY <1>1, <2>1, <2>3, <2>4, <2>5 DEF HandleInv
<1>7. OwnInv
  BY <1>1 DEF OwnInv, Told
<1>8. DataInv
  BY <1>1 DEF DataInv, CallData
<1> QED
  BY <1>2, <1>3, <1>4, <1>6, <1>7, <1>8 DEF IInv

\* A step that ends a context or the association, or changes nothing
LEMMA RestKeeps ==
  ASSUME IInv, UNCHANGED <<dp, no, frsmID, answer, data, queue, served, nextID, entries, open, closes>>,
         up' \in BOOLEAN, up' => up, ctx' \in [Calls -> {"live", "done"}]
  PROVE  IInv'
<1>1. CallType'
  BY Zenon DEF IInv, CallType
<1>2. QueueType' /\ QueueInv'
  BY DEF IInv, QueueType, QueueInv
<1>3. ServerType'
  <2>1. served' \in BOOLEAN
    BY Zenon DEF IInv, ServerType
  <2> QED BY <2>1 DEF IInv, ServerType
<1>4. HandleInv'
  <2>1. Fresh' = Fresh
    BY Zenon DEF Fresh
  <2> QED BY <2>1 DEF IInv, HandleInv, HandlesTracked
<1>5. OwnInv'
  BY SMTT(20), SMTT(30) DEF IInv, OwnInv, Told
<1>6. DataInv'
  <2> SUFFICES ASSUME NEW c \in Calls PROVE CallData(c)'
    BY DEF DataInv
  <2>1. CallData(c)
    BY Zenon DEF IInv, DataInv
  <2> QED BY ZenonT(30), <2>1 DEF CallData, Told
<1> QED
  BY Zenon, <1>1, <1>2, <1>3, <1>4, <1>5, <1>6 DEF IInv

\* Every step keeps the invariant.
LEMMA Inductive ==
  ASSUME Constants, IInv, [Next]_vars
  PROVE  IInv'
<1> USE DEF IInv
<1>1. ASSUME NEW c \in Calls, CallStep(c) PROVE IInv'
  <2>1. CallType' /\ Moves(c)
    BY <1>1, CallMoves
  <2>2. QueueType' /\ QueueInv' /\ Fresh' \subseteq Fresh
    BY <2>1, MovesQueue
  <2>3. ServerType' /\ HandleInv' /\ OwnInv'
    BY <2>1, <2>2, MovesHandles
  <2>4. DataInv'
    BY Zenon, <1>1, <2>1, CallKeepsData
  <2> QED BY <2>1, <2>2, <2>3, <2>4
<1>2. CASE HandleFileOpen \/ HandleFileRead \/ HandleFileClose
  <2>1. CallType' /\ Handled(Head(queue))
    BY Zenon, <1>2, HandlersAnswer
  <2>2. QueueType' /\ QueueInv' /\ Fresh' \subseteq Fresh
        /\ (Head(queue).kind = "open" => Head(queue).call \in Fresh /\ Head(queue).call \notin Fresh')
    BY <2>1, HandledQueue
  <2>3. ServerType' /\ HandleInv' /\ OwnInv' /\ DataInv'
    <3>1. CASE HandleFileOpen
      <4>1. Head(queue).kind = "open"
        BY <3>1 DEF HandleFileOpen, Handling
      <4> QED BY Zenon, <2>1, <2>2, <3>1, <4>1, OpenKeeps
    <3>2. CASE HandleFileRead
      BY Zenon, <2>1, <2>2, <3>2, ReadKeeps
    <3>3. CASE HandleFileClose
      BY Zenon, <2>1, <2>2, <3>3, CloseKeeps
    <3> QED BY Zenon, <1>2, <3>1, <3>2, <3>3
  <2> QED BY <2>1, <2>2, <2>3
<1>3. CASE CloseAll
  BY <1>3, CloseAllKeeps
<1>t. up \in BOOLEAN /\ ctx \in [Calls -> {"live", "done"}]
  BY DEF CallType
<1>4. ASSUME NEW c \in Calls, CtxEnds(c) PROVE IInv'
  <2>1. UNCHANGED <<dp, no, frsmID, answer, data, queue, served, nextID, entries, open, closes>> /\ up' = up
    BY <1>4 DEF CtxEnds, serverVars, fileVars
  <2>2. ctx' \in [Calls -> {"live", "done"}]
    BY <1>4, <1>t DEF CtxEnds
  <2>3. up' \in BOOLEAN /\ (up' => up)
    BY <1>t, <2>1, Zenon
  <2> HIDE DEF IInv
  <2> QED BY Zenon, <2>1, <2>2, <2>3, RestKeeps
<1>5. CASE AssociationEnds
  <2>1. UNCHANGED <<dp, no, frsmID, answer, data, queue, served, nextID, entries, open, closes>>
        /\ up' = FALSE /\ ctx' = ctx
    BY <1>5 DEF AssociationEnds, callVars, serverVars, fileVars
  <2>2. up' \in BOOLEAN /\ (up' => up)
    BY <2>1, Zenon
  <2> HIDE DEF IInv
  <2> QED BY Zenon, <1>t, <2>1, <2>2, RestKeeps
<1>6. CASE UNCHANGED vars
  <2>1. UNCHANGED <<dp, no, frsmID, answer, data, queue, served, nextID, entries, open, closes>>
        /\ up' = up /\ ctx' = ctx
    BY <1>6 DEF vars, callVars, serverVars, fileVars
  <2>2. up' \in BOOLEAN /\ (up' => up)
    BY <1>t, <2>1, Zenon
  <2> HIDE DEF IInv
  <2> QED BY <1>t, <2>1, <2>2, RestKeeps
<1> QED
  BY Zenon, <1>1, <1>2, <1>3, <1>4, <1>5, <1>6 DEF Next, ServerStep, Terminated

\* The table of an association holds exactly the files that the provider has open, each
\* under one ID, and every file is closed at most once: by FileClose or by the cleanup.
THEOREM FilesAccounted ==
  ASSUME Constants
  PROVE  Spec => []HandlesInv
<1>1. IInv => HandlesInv
  <2> SUFFICES ASSUME IInv PROVE HandlesInv
    OBVIOUS
  <2>1. /\ nextID \in Nat /\ 1 .. nextID \subseteq IDs /\ DOMAIN open \subseteq 1 .. nextID
        /\ DOMAIN entries \subseteq 1 .. nextID
        /\ \A i \in DOMAIN entries : entries[i] \in DOMAIN open
        /\ \A h \in DOMAIN open : open[h] \in 0 .. Chunks
    BY TableFacts DEF IInv
  <2>2. HandlesTracked /\ ClosedOnce
    BY DEF IInv, HandleInv, ClosedOnce
  <2>3. \A i \in DOMAIN queue : queue[i].call \in Calls /\ queue[i].kind \in {"open", "read", "close"}
    <3>1. \A i \in DOMAIN queue : queue[i] \in Requests
      BY Zenon, Queued DEF IInv
    <3> QED BY <3>1 DEF Requests
  <2>4. \A c \in Calls : frsmID[c] \in IDs \cup {0}
    BY <2>1 DEF IInv, OwnInv, Told
  <2>5. nextID \in IDs \cup {0} /\ DOMAIN entries \subseteq IDs /\ DOMAIN open \subseteq IDs
    BY <2>1
  <2>6. Range(entries) \subseteq IDs
    BY Zenon, <2>1 DEF Range
  <2>7. TypeOK
    BY Zenon, <2>1, <2>3, <2>4, <2>5, <2>6 DEF TypeOK, IInv, CallType, ServerType
  <2> QED BY <2>2, <2>7 DEF HandlesInv
<1> QED
  BY <1>1, Initially, Inductive, PTL DEF Spec

\* A DownloadFile that succeeds returns every chunk of its file once and in order, whatever
\* other calls transfer on the association and however their requests fail.
THEOREM DownloadsExact ==
  ASSUME Constants
  PROVE  Spec => []DownloadExact
<1>1. IInv => DownloadExact
  <2> SUFFICES ASSUME IInv, NEW c \in Calls, dp[c] = "done"
               PROVE  data[c] = [i \in 1 .. Chunks |-> i]
    BY Zenon DEF DownloadExact
  <2>1. data[c] \in Seq(1 .. Chunks) /\ Len(data[c]) = Chunks /\ \A i \in DOMAIN data[c] : data[c][i] = i
    BY DEF IInv, CallType, DataInv, CallData
  <2> QED BY <2>1
<1> QED
  BY <1>1, Initially, Inductive, PTL DEF Spec

=============================================================================
