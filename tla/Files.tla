-------------------------------- MODULE Files --------------------------------
(***************************************************************************)
(* File transfer over one association: DownloadFile calls in the client,   *)
(* the file handlers of the server with the table of open files (frsm) of  *)
(* the association, and the file provider of the application.              *)
(*                                                                         *)
(* Every call transfers a file of Chunks pieces.  Requests are handled in  *)
(* the order they are written, one at a time; an answer counts only while  *)
(* its request is pending in the client (module Client).  The provider is  *)
(* external: an operation on it may fail.                                  *)
(***************************************************************************)
EXTENDS Naturals, Sequences, FiniteSets, Functions

CONSTANTS Calls,   \* DownloadFile calls of one client
          Chunks   \* answers of FileRead it takes to transfer the file

VARIABLES
  up,             \* the association is up
  served,         \* its Serve is running
  dp, ctx,        \* per call: control point and context
  no, frsmID,     \* per call: its latest request, FileOpenResult.FrsmID
  answer, data,   \* per call: answer delivered, chunks collected
  queue,          \* requests under way to the server
  nextID, entries,\* frsmTable: last ID given, ID -> handle
  open, closes    \* provider: handle -> chunks read so far, handle -> times closed

callVars   == <<dp, ctx, no, frsmID, answer, data>>
serverVars == <<served, nextID, entries>>
fileVars   == <<open, closes>>
vars == <<up, callVars, queue, serverVars, fileVars>>

\* A file has one open at most per call: IDs and handles are 1, 2, ...
IDs == 1 .. Cardinality(Calls)
None == [kind |-> "none"]
Kinds == {"open", "read", "close", "drop"}
Waiting(c) == dp[c] \in Kinds

\* Type correctness of the association's files.
TypeOK ==
  /\ up \in BOOLEAN /\ served \in BOOLEAN
  /\ dp \in [Calls -> {"idle", "done", "failed"} \cup Kinds]
  /\ ctx \in [Calls -> {"live", "done"}]
  /\ no \in [Calls -> Nat]
  /\ frsmID \in [Calls -> IDs \cup {0}]
  /\ \A c \in Calls : answer[c].kind \in {"none", "ok", "error"} /\ data[c] \in Seq(1 .. Chunks)
  /\ \A i \in DOMAIN queue : queue[i].call \in Calls /\ queue[i].kind \in {"open", "read", "close"}
  /\ nextID \in IDs \cup {0}
  /\ DOMAIN entries \subseteq IDs /\ Range(entries) \subseteq IDs
  /\ DOMAIN open \subseteq IDs /\ \A h \in DOMAIN open : open[h] \in 0 .. Chunks
  /\ closes \in [IDs -> Nat]

Empty == [i \in {} |-> 0]

Init ==
  /\ up = TRUE
  /\ served = TRUE
  /\ dp = [c \in Calls |-> "idle"]
  /\ ctx = [c \in Calls |-> "live"]
  /\ no = [c \in Calls |-> 0]
  /\ frsmID = [c \in Calls |-> 0]
  /\ answer = [c \in Calls |-> None]
  /\ data = [c \in Calls |-> <<>>]
  /\ queue = <<>>
  /\ nextID = 0
  /\ entries = Empty
  /\ open = Empty
  /\ closes = [h \in IDs |-> 0]

-----------------------------------------------------------------------------
(* The client: FileOpen, FileReadAll and FileClose in DownloadFile *)

\* sendConfirmed: refused at once when the context or the association has
\* ended, else written; the call then waits.
Request(c, kind, at) ==
  /\ ctx[c] = "live" /\ up
  /\ queue' = Append(queue, [call |-> c, no |-> no[c] + 1, kind |-> kind, id |-> frsmID'[c]])
  /\ no' = [no EXCEPT ![c] = @ + 1]
  /\ dp' = [dp EXCEPT ![c] = at]

Refused(c) ==
  /\ ctx[c] = "done" \/ ~up
  /\ dp' = [dp EXCEPT ![c] = "failed"]
  /\ UNCHANGED <<queue, no>>

FileOpen(c) ==
  /\ dp[c] = "idle"
  /\ UNCHANGED frsmID
  /\ Request(c, "open", "open") \/ Refused(c)
  /\ UNCHANGED <<up, ctx, answer, data, serverVars, fileVars>>

Opened(c) ==
  /\ dp[c] = "open"
  /\ answer[c].kind = "ok"
  /\ frsmID' = [frsmID EXCEPT ![c] = answer[c].id]
  /\ Request(c, "read", "read") \/ Refused(c)
  /\ answer' = [answer EXCEPT ![c] = None]
  /\ UNCHANGED <<up, ctx, data, serverVars, fileVars>>

\* A chunk arrived: the next FileRead, or FileClose after the last one.
FileRead(c) ==
  /\ dp[c] = "read"
  /\ answer[c].kind = "ok"
  /\ data' = [data EXCEPT ![c] = Append(@, answer[c].chunk)]
  /\ UNCHANGED frsmID
  /\ \/ Refused(c)
     \/ answer[c].more /\ Request(c, "read", "read")
     \/ ~answer[c].more /\ Request(c, "close", "close")
  /\ answer' = [answer EXCEPT ![c] = None]
  /\ UNCHANGED <<up, ctx, serverVars, fileVars>>

Closed(c) ==
  /\ dp[c] \in {"close", "drop"}
  /\ answer[c].kind = "ok"
  /\ dp' = [dp EXCEPT ![c] = IF @ = "close" THEN "done" ELSE "failed"]
  /\ answer' = [answer EXCEPT ![c] = None]
  /\ UNCHANGED <<up, ctx, no, frsmID, data, queue, serverVars, fileVars>>

\* A request fails: a service error, the context or the association ended.
\* A failed FileRead is followed by FileClose with the same context.
RequestFails(c) ==
  /\ Waiting(c)
  /\ answer[c].kind = "error" \/ ctx[c] = "done" \/ ~up
  /\ UNCHANGED frsmID
  /\ \/ dp[c] = "read" /\ (Request(c, "close", "drop") \/ Refused(c))
     \/ /\ dp[c] # "read"
        /\ dp' = [dp EXCEPT ![c] = "failed"]
        /\ UNCHANGED <<queue, no>>
  /\ answer' = [answer EXCEPT ![c] = None]
  /\ UNCHANGED <<up, ctx, data, serverVars, fileVars>>

-----------------------------------------------------------------------------
(* The server: one request at a time *)

Handling(kind) == served /\ queue # <<>> /\ Head(queue).kind = kind

\* The answer reaches its caller while the association is up and the request
\* is pending.
Answer(a) ==
  LET r == Head(queue)
  IN  /\ queue' = Tail(queue)
      /\ answer' = IF up /\ Waiting(r.call) /\ no[r.call] = r.no
                   THEN [answer EXCEPT ![r.call] = a] ELSE answer

Failed == [kind |-> "error"]

\* The ID alloc gives.
Alloc_Mutant == 1
Alloc == nextID + 1

\* handleFileOpen: the provider opens the file and the table takes it; or it
\* does not exist, or its initial position is invalid and it is closed again.
HandleFileOpen ==
  LET h == Cardinality({i \in IDs : closes[i] > 0} \cup DOMAIN open) + 1
  IN  /\ Handling("open")
      /\ \/ /\ open' = [i \in DOMAIN open \cup {h} |-> IF i = h THEN 0 ELSE open[i]]
            /\ nextID' = Alloc
            /\ entries' = [i \in DOMAIN entries \cup {Alloc} |-> IF i = Alloc THEN h ELSE entries[i]]
            /\ Answer([kind |-> "ok", id |-> Alloc])
         \/ /\ Answer(Failed)
            /\ UNCHANGED <<open, nextID, entries>>
      /\ UNCHANGED <<up, served, dp, ctx, no, frsmID, data, closes>>

HandleFileRead ==
  LET i == Head(queue).id
      h == entries[i]
  IN  /\ Handling("read")
      /\ \/ /\ i \in DOMAIN entries
            /\ open[h] < Chunks
            /\ open' = [open EXCEPT ![h] = @ + 1]
            /\ Answer([kind |-> "ok", chunk |-> open[h] + 1, more |-> open[h] + 1 < Chunks])
         \/ /\ Answer(Failed)
            /\ UNCHANGED open
      /\ UNCHANGED <<up, served, dp, ctx, no, frsmID, data, nextID, entries, closes>>

\* provider.Close on a set of handles.
CloseHandles(H) ==
  /\ open' = [h \in DOMAIN open \ H |-> open[h]]
  /\ closes' = [h \in IDs |-> IF h \in H THEN closes[h] + 1 ELSE closes[h]]

\* frsmTable.remove
FrsmRemove(i) == [j \in DOMAIN entries \ {i} |-> entries[j]]

HandleFileClose ==
  LET i == Head(queue).id
  IN  /\ Handling("close")
      /\ \/ /\ i \in DOMAIN entries
            /\ entries' = FrsmRemove(i)
            /\ CloseHandles({entries[i]})
            /\ Answer([kind |-> "ok"]) \/ Answer(Failed)
         \/ /\ i \notin DOMAIN entries
            /\ Answer(Failed)
            /\ UNCHANGED <<entries, open, closes>>
      /\ UNCHANGED <<up, served, dp, ctx, no, frsmID, data, nextID>>

\* Serve ends, noticing that the association is gone, and closeAll runs.
AllHandles_Mutant == {}
AllHandles == Range(entries)

CloseAll ==
  /\ served /\ ~up
  /\ served' = FALSE
  /\ CloseHandles(AllHandles)
  /\ entries' = Empty
  /\ queue' = <<>>
  /\ UNCHANGED <<up, callVars, nextID>>

-----------------------------------------------------------------------------

CtxEnds(c) ==
  /\ ctx[c] = "live"
  /\ Waiting(c)
  /\ ctx' = [ctx EXCEPT ![c] = "done"]
  /\ UNCHANGED <<up, dp, no, frsmID, answer, data, queue, serverVars, fileVars>>

AssociationEnds ==
  /\ up
  /\ up' = FALSE
  /\ UNCHANGED <<callVars, queue, serverVars, fileVars>>

Terminated == (\A c \in Calls : dp[c] \in {"done", "failed"}) /\ ~served /\ UNCHANGED vars

CallStep(c) == FileOpen(c) \/ Opened(c) \/ FileRead(c) \/ Closed(c) \/ RequestFails(c)
ServerStep == HandleFileOpen \/ HandleFileRead \/ HandleFileClose \/ CloseAll

Next ==
  \/ \E c \in Calls : CallStep(c) \/ CtxEnds(c)
  \/ ServerStep \/ AssociationEnds \/ Terminated

Spec == Init /\ [][Next]_vars

(***************************************************************************)
(* Fairness: calls and the server run; nothing says that a context or the  *)
(* association ends.                                                       *)
(***************************************************************************)
Fairness == WF_vars(ServerStep) /\ \A c \in Calls : WF_vars(CallStep(c))

FairSpec == Spec /\ Fairness

-----------------------------------------------------------------------------

\* The provider's open files are exactly those in the table, one entry each:
\* none is lost to the server while the association lives.
HandlesTracked ==
  /\ Range(entries) = DOMAIN open
  /\ \A i, j \in DOMAIN entries : entries[i] = entries[j] => i = j

\* No file is closed twice, by FileClose and by the cleanup of its association.
ClosedOnce == \A h \in IDs : closes[h] <= 1

\* The state is of its types, and files are accounted for.
HandlesInv == TypeOK /\ HandlesTracked /\ ClosedOnce

\* A download that succeeds has the whole file, every chunk once and in
\* order, whatever other calls transfer on the association.
DownloadExact == \A c \in Calls : dp[c] = "done" => data[c] = [i \in 1 .. Chunks |-> i]

\* DownloadFile "opens a file, reads all its content, and closes the handle":
\* a call that was told its frsmID and has returned leaves no entry behind,
\* although a read failed, unless its context ended, with which it closes.
DownloadCloses ==
  \A c \in Calls :
    (dp[c] \in {"done", "failed"} /\ frsmID[c] # 0 /\ ctx[c] = "live") ~> (frsmID[c] \notin DOMAIN entries)

\* When the association ends, every file left open on it gets closed.
EndCloses == ~up ~> (open = Empty)

=============================================================================
