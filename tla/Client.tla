------------------------------- MODULE Client -------------------------------
(***************************************************************************)
(* One go-mms client association: the callers of the confirmed services    *)
(* (doConfirmed), the detached goroutine that writes each request (send),  *)
(* the invoke tracker, the reader goroutine (readerLoop) and the one Close *)
(* or Abort that ends the association.  Every step between two             *)
(* synchronisation points of the code (a mutex, a channel, the transport)  *)
(* is one action.                                                          *)
(*                                                                         *)
(* The peer is the environment: it answers each request it received at     *)
(* most once and in any order, may send reports and unusable PDUs, may     *)
(* stall a write for ever and may drop the link at any time.               *)
(***************************************************************************)
EXTENDS Naturals

CONSTANTS Calls,  \* the service calls made on the client, each by its own goroutine
          MaxID,  \* the largest invoke ID (2^32 - 1 in the code)
          Ends    \* how the program may end the association: "close", "abort"

ASSUME CallsAssumption ==
  Calls \cap {"none", "empty", "closed", "ctx", "dup", "closer", "nobody"} = {}

ASSUME MaxIDAssumption == MaxID \in Nat \ {0}

ASSUME EndsAssumption == Ends \subseteq {"close", "abort"}

IDs == 1 .. MaxID

(***************************************************************************)
(* What a caller returns, and what its response channel carries: the       *)
(* answer to the request of some call (named by that call), an error       *)
(* matching ErrClosed, or its context's error.  "dup" is the error of      *)
(* AllocateWithID for an ID that is still pending.                         *)
(***************************************************************************)
Payload == Calls \cup {"closed", "ctx"}
Result  == Payload \cup {"dup"}

VARIABLES
  closed,      \* Client.closed
  readerCtx,   \* the context of readerLoop: "live" or "done" (readerCancel)
  concludeCh,  \* the one-slot channel concludeCh holds a signal
  nextID,      \* Tracker.nextID
  pending,     \* Tracker.pending: the call whose channel is registered, per ID
  pc, id, ctx, \* per call: control point of doConfirmed, invokeID, its context
  chan,        \* per call: what was sent on its response channel
  res,         \* per call: the result it is about to return or has returned
  wpc, state,  \* per call: control point of send's goroutine, its CAS state
  done,        \* per call: the one-slot channel between that goroutine and send
  sendMu,      \* holder of Client.sendMu
  link,        \* transport: "up", "broken" by the peer, "closed" by the client
  owed,        \* requests the peer has received and may still answer
  concludeOut, \* the ConcludeRequest was written in full
  reader,      \* control point of readerLoop
  readerHeld,  \* entries the reader took out of pending and has not sent to yet
  closer,      \* control point of the Close or Abort that runs the shutdown
  mode,        \* which of the two it is
  closeCtx,    \* its context
  closerHeld,  \* as readerHeld, for the CancelAll of Close and Abort
  timer,       \* Abort's AfterFunc: "off", "armed"
  closeRes     \* what conclude returned: "none", "nil", "err" or "eof"

callVars   == <<pc, id, ctx, chan, res>>
writeVars  == <<wpc, state, done>>
trackVars  == <<nextID, pending>>
linkVars   == <<sendMu, link, owed, concludeOut>>
readerVars == <<readerCtx, concludeCh, reader, readerHeld>>
closeVars  == <<closed, closer, mode, closeCtx, closerHeld, timer, closeRes>>
vars == <<callVars, writeVars, trackVars, linkVars, readerVars, closeVars>>

CallType ==
  /\ pc \in [Calls -> {"idle", "begin", "register", "send", "wait", "cancel", "return"}]
  /\ id \in [Calls -> 0 .. MaxID]
  /\ \A c \in Calls : pc[c] # "idle" => id[c] \in IDs
  /\ ctx \in [Calls -> {"live", "done"}]
  /\ chan \in [Calls -> Payload \cup {"empty"}]
  /\ res \in [Calls -> Result \cup {"none"}]

WriteType ==
  /\ wpc \in [Calls -> {"none", "lock", "write", "exit"}]
  /\ state \in [Calls -> {"pending", "writing", "abandoned"}]
  /\ done \in [Calls -> {"empty", "nil", "err"}]

TrackType ==
  /\ nextID \in 0 .. MaxID
  /\ pending \in [IDs -> Calls \cup {"none"}]

LinkType ==
  /\ sendMu \in Calls \cup {"closer", "nobody"}
  /\ link \in {"up", "broken", "closed"}
  /\ owed \in SUBSET Calls
  /\ concludeOut \in BOOLEAN

ReaderType ==
  /\ readerCtx \in {"live", "done"}
  /\ concludeCh \in BOOLEAN
  /\ reader \in {"recv", "read", "deliver", "handler", "stop", "flush", "exit", "done"}
  /\ readerHeld \in [Calls -> Payload \cup {"empty"}]

CloseType ==
  /\ closed \in BOOLEAN
  /\ closer \in {"idle", "cancel", "flush", "lock", "write", "await", "stop", "join", "return"}
  /\ mode \in {"none", "close", "abort"}
  /\ closeCtx \in {"live", "cancelled", "expired"}
  /\ closerHeld \in [Calls -> Payload \cup {"empty"}]
  /\ timer \in {"off", "armed"}
  /\ closeRes \in {"none", "nil", "err", "eof"}

\* Type correctness; a call that has begun has a proper invoke ID (NextID
\* never returns 0).
TypeOK == CallType /\ WriteType /\ TrackType /\ LinkType /\ ReaderType /\ CloseType

NoEntries == [c \in Calls |-> "empty"]

\* newClient after a successful association: the reader runs, nothing is pending.
Init ==
  /\ closed = FALSE
  /\ readerCtx = "live"
  /\ concludeCh = FALSE
  /\ nextID = 0
  /\ pending = [i \in IDs |-> "none"]
  /\ pc = [c \in Calls |-> "idle"]
  /\ id = [c \in Calls |-> 0]
  /\ ctx = [c \in Calls |-> "live"]
  /\ chan = NoEntries
  /\ res = [c \in Calls |-> "none"]
  /\ wpc = [c \in Calls |-> "none"]
  /\ state = [c \in Calls |-> "pending"]
  /\ done = [c \in Calls |-> "empty"]
  /\ sendMu = "nobody"
  /\ link = "up"
  /\ owed = {}
  /\ concludeOut = FALSE
  /\ reader = "recv"
  /\ readerHeld = NoEntries
  /\ closer = "idle"
  /\ mode = "none"
  /\ closeCtx = "live"
  /\ closerHeld = NoEntries
  /\ timer = "off"
  /\ closeRes = "none"

-----------------------------------------------------------------------------
(* doConfirmed, one caller *)

\* Control of call c moves on; with a result when it is about to return.
Goto(c, at) == pc' = [pc EXCEPT ![c] = at] /\ UNCHANGED res
Leave(c, at, r) == pc' = [pc EXCEPT ![c] = at] /\ res' = [res EXCEPT ![c] = r]

\* sendMu.Lock succeeds.
SendMuFree_Mutant == TRUE
SendMuFree == sendMu = "nobody"

\* Tracker.Complete under its lock: the entry of invoke ID i is found and
\* deleted.
Lookup_Mutant(i) ==
  IF \E j \in IDs : pending[j] # "none"
    THEN pending[CHOOSE j \in IDs : pending[j] # "none"] ELSE "none"
Lookup(i) == pending[i]

Delete_Mutant(i) == UNCHANGED pending
Delete(i) == pending' = [pending EXCEPT ![i] = "none"]

\* nextID++ in the width of an invoke ID, skipping 0.
After(n) == IF n = MaxID THEN 1 ELSE n + 1

\* Tracker.NextID.  Each service method
\* takes its ID before doConfirmed looks at anything.
NextID(c) ==
  /\ pc[c] = "idle"
  /\ nextID' = After(nextID)
  /\ id' = [id EXCEPT ![c] = nextID']
  /\ Goto(c, "begin")
  /\ UNCHANGED <<pending, ctx, chan, writeVars, linkVars, readerVars, closeVars>>

CheckClosed(c) ==
  /\ pc[c] = "begin"
  /\ \/ closed /\ Leave(c, "return", "closed")
     \/ ~closed /\ Goto(c, "register")
  /\ UNCHANGED <<id, ctx, chan, writeVars, trackVars, linkVars, readerVars, closeVars>>

\* ctx.Err, then AllocateWithID, which refuses an ID that is pending; then
\* send starts the goroutine that writes the request.
AllocateWithID(c) ==
  /\ pc[c] = "register"
  /\ \/ /\ ctx[c] = "done"
        /\ Leave(c, "return", "ctx")
        /\ UNCHANGED <<pending, wpc>>
     \/ /\ ctx[c] = "live"
        /\ pending[id[c]] # "none"
        /\ Leave(c, "return", "dup")
        /\ UNCHANGED <<pending, wpc>>
     \/ /\ ctx[c] = "live"
        /\ pending[id[c]] = "none"
        /\ pending' = [pending EXCEPT ![id[c]] = c]
        /\ wpc' = [wpc EXCEPT ![c] = "lock"]
        /\ Goto(c, "send")
  /\ UNCHANGED <<nextID, id, ctx, chan, state, done, linkVars, readerVars, closeVars>>

\* send returns what the goroutine reported.
SendReturns(c) ==
  /\ pc[c] = "send"
  /\ \/ done[c] = "nil" /\ Goto(c, "wait")
     \/ done[c] = "err" /\ Leave(c, "cancel", "closed")
  /\ UNCHANGED <<id, ctx, chan, writeVars, trackVars, linkVars, readerVars, closeVars>>

\* state.CompareAndSwap(pending, abandoned)
Abandon(c) == state' = [state EXCEPT ![c] = IF @ = "pending" THEN "abandoned" ELSE @]

\* The context ends while send waits: a write that has not started is
\* abandoned, one in progress goes on without the caller.
SendCtxDone_Mutant(c) == FALSE
SendCtxDone(c) ==
  /\ pc[c] = "send"
  /\ ctx[c] = "done"
  /\ Abandon(c)
  /\ Leave(c, "cancel", "ctx")
  /\ UNCHANGED <<id, ctx, chan, wpc, done, trackVars, linkVars, readerVars, closeVars>>

\* The select of doConfirmed.  The channel is read at most once, so its
\* value stays in chan as a record of what was delivered.
WaitResponse(c) ==
  /\ pc[c] = "wait"
  /\ chan[c] # "empty"
  /\ Leave(c, "return", chan[c])
  /\ UNCHANGED <<id, ctx, chan, writeVars, trackVars, linkVars, readerVars, closeVars>>

WaitCtxDone(c) ==
  /\ pc[c] = "wait"
  /\ ctx[c] = "done"
  /\ Leave(c, "cancel", "ctx")
  /\ UNCHANGED <<id, ctx, chan, writeVars, trackVars, linkVars, readerVars, closeVars>>

\* readerDone is closed and nothing was delivered just before.
NoResponse_Mutant(c) == reader = "done"
NoResponse(c) == reader = "done" /\ chan[c] = "empty"

WaitReaderDone(c) ==
  /\ pc[c] = "wait"
  /\ NoResponse(c)
  /\ Leave(c, "cancel", "closed")
  /\ UNCHANGED <<id, ctx, chan, writeVars, trackVars, linkVars, readerVars, closeVars>>

\* Tracker.Cancel: by ID, so it signals whichever call is registered.  The
\* delete and the send after it are one step: the send never blocks
\* (ExactlyOneDelivery) and only c acts in between.  A failed write returns
\* the context's error instead if the context has ended by now.
Cancel(c) ==
  /\ pc[c] = "cancel"
  /\ LET owner == Lookup(id[c]) IN
       \/ /\ owner = "none"
          /\ UNCHANGED <<pending, chan>>
       \/ /\ owner # "none"
          /\ chan[owner] = "empty"
          /\ Delete(id[c])
          /\ chan' = [chan EXCEPT ![owner] = res[c]]
  /\ Leave(c, "return", IF done[c] = "err" /\ ctx[c] = "done" THEN "ctx" ELSE res[c])
  /\ UNCHANGED <<nextID, id, ctx, writeVars, linkVars, readerVars, closeVars>>

-----------------------------------------------------------------------------
(* send's goroutine: the detached write of one request *)

SendLock(c) ==
  /\ wpc[c] = "lock"
  /\ SendMuFree
  /\ \/ /\ state[c] = "pending"
        /\ state' = [state EXCEPT ![c] = "writing"]
        /\ sendMu' = c
        /\ wpc' = [wpc EXCEPT ![c] = "write"]
        /\ UNCHANGED done
     \/ /\ state[c] # "pending"
        /\ done' = [done EXCEPT ![c] = "nil"]
        /\ wpc' = [wpc EXCEPT ![c] = "exit"]
        /\ UNCHANGED <<state, sendMu>>
  /\ UNCHANGED <<callVars, trackVars, link, owed, concludeOut, readerVars, closeVars>>

\* A write to a peer that is gone may still succeed locally.
SendWritten(c) ==
  /\ wpc[c] = "write"
  /\ link # "closed"
  /\ owed' = IF link = "up" THEN owed \cup {c} ELSE owed
  /\ done' = [done EXCEPT ![c] = "nil"]
  /\ wpc' = [wpc EXCEPT ![c] = "exit"]
  /\ sendMu' = "nobody"
  /\ UNCHANGED <<callVars, state, trackVars, link, concludeOut, readerVars, closeVars>>

\* A failed write closes the transport.  The write runs under
\* context.WithoutCancel, so only the transport can end it.
SendFailed(c) ==
  /\ wpc[c] = "write"
  /\ link # "up"
  /\ link' = "closed"
  /\ done' = [done EXCEPT ![c] = "err"]
  /\ wpc' = [wpc EXCEPT ![c] = "exit"]
  /\ sendMu' = "nobody"
  /\ UNCHANGED <<callVars, state, trackVars, owed, concludeOut, readerVars, closeVars>>

-----------------------------------------------------------------------------
(* readerLoop *)

\* Transport.Receive refuses a closed transport and an ended context.
Receive ==
  /\ reader = "recv"
  /\ reader' = IF link = "closed" \/ readerCtx = "done" THEN "stop" ELSE "read"
  /\ UNCHANGED <<callVars, writeVars, trackVars, linkVars, readerCtx, concludeCh, readerHeld, closeVars>>

ReceiveFails ==
  /\ reader = "read"
  /\ link # "up" \/ readerCtx = "done"
  /\ reader' = "stop"
  /\ UNCHANGED <<callVars, writeVars, trackVars, linkVars, readerCtx, concludeCh, readerHeld, closeVars>>

\* A session FINISH or ABORT, an undecodable or an oversize PDU.
ReceiveUnusable ==
  /\ reader = "read"
  /\ link = "up"
  /\ reader' = "stop"
  /\ UNCHANGED <<callVars, writeVars, trackVars, linkVars, readerCtx, concludeCh, readerHeld, closeVars>>

\* dispatchConfirmed of the peer's answer to call c: Tracker.Complete takes
\* the entry of the answer's invoke ID out of pending under the lock and
\* sends afterwards; without an entry the answer is discarded.
DispatchConfirmed(c) ==
  /\ reader = "read"
  /\ link # "closed"
  /\ c \in owed
  /\ owed' = owed \ {c}
  /\ LET owner == Lookup(id[c]) IN
       \/ /\ owner = "none"
          /\ reader' = "recv"
          /\ UNCHANGED <<pending, readerHeld>>
       \/ /\ owner # "none"
          /\ Delete(id[c])
          /\ readerHeld' = [readerHeld EXCEPT ![owner] = c]
          /\ reader' = "deliver"
  /\ UNCHANGED <<callVars, writeVars, nextID, sendMu, link, concludeOut, readerCtx, concludeCh, closeVars>>

\* An answer without a readable invoke ID is logged and dropped.
DispatchNoInvokeID(c) ==
  /\ reader = "read"
  /\ link # "closed"
  /\ c \in owed
  /\ owed' = owed \ {c}
  /\ reader' = "recv"
  /\ UNCHANGED <<callVars, writeVars, trackVars, sendMu, link, concludeOut, readerCtx, concludeCh, readerHeld, closeVars>>

\* The send on the channel that ends Tracker.Complete and Tracker.CancelAll.
ReaderDeliver(c) ==
  /\ reader \in {"deliver", "flush"}
  /\ readerHeld[c] # "empty"
  /\ chan[c] = "empty"
  /\ chan' = [chan EXCEPT ![c] = readerHeld[c]]
  /\ readerHeld' = [readerHeld EXCEPT ![c] = "empty"]
  /\ UNCHANGED <<pc, id, ctx, res, writeVars, trackVars, linkVars, readerCtx, concludeCh, reader, closeVars>>

ReaderDelivered ==
  /\ reader \in {"deliver", "flush"}
  /\ readerHeld = NoEntries
  /\ reader' = IF reader = "deliver" THEN "recv" ELSE "exit"
  /\ UNCHANGED <<callVars, writeVars, trackVars, linkVars, readerCtx, concludeCh, readerHeld, closeVars>>

\* dispatchUnconfirmed runs the report handler on the reader goroutine; an
\* undecodable report, an answer with a foreign ID and any other PDU are dropped.
DispatchUnconfirmed ==
  /\ reader = "read"
  /\ link = "up"
  /\ reader' \in {"handler", "recv"}
  /\ UNCHANGED <<callVars, writeVars, trackVars, linkVars, readerCtx, concludeCh, readerHeld, closeVars>>

HandlerReturns ==
  /\ reader = "handler"
  /\ reader' = "recv"
  /\ UNCHANGED <<callVars, writeVars, trackVars, linkVars, readerCtx, concludeCh, readerHeld, closeVars>>

\* ConcludeResponse and ConcludeError signal conclude and end the loop
\* without stopReader.
ReceiveConclude ==
  /\ reader = "read"
  /\ link # "closed"
  /\ concludeOut
  /\ concludeCh' = TRUE
  /\ reader' = "exit"
  /\ UNCHANGED <<callVars, writeVars, trackVars, linkVars, readerCtx, readerHeld, closeVars>>

\* Tracker.CancelAll swaps the map under the lock; the entries it took out.
TakeAll(err) ==
  [c \in Calls |-> IF \E i \in IDs : pending[i] = c THEN err ELSE "empty"]

StopReader ==
  /\ reader = "stop"
  /\ readerHeld' = TakeAll("closed")
  /\ pending' = [i \in IDs |-> "none"]
  /\ reader' = "flush"
  /\ UNCHANGED <<callVars, writeVars, nextID, linkVars, readerCtx, concludeCh, closeVars>>

\* The deferred close(readerDone).
ReaderExit ==
  /\ reader = "exit"
  /\ reader' = "done"
  /\ UNCHANGED <<callVars, writeVars, trackVars, linkVars, readerCtx, concludeCh, readerHeld, closeVars>>

-----------------------------------------------------------------------------
(* Close and Abort.  The first call sets closed and runs; every later one  *)
(* returns nil without touching the state.                                 *)

CloserStays == UNCHANGED <<closed, mode, closeCtx, timer, closeRes>>

Close ==
  /\ "close" \in Ends
  /\ ~closed
  /\ closed' = TRUE
  /\ mode' = "close"
  /\ closer' = "cancel"
  /\ UNCHANGED <<callVars, writeVars, trackVars, linkVars, readerVars, closeCtx, closerHeld, timer, closeRes>>

Abort ==
  /\ "abort" \in Ends
  /\ ~closed
  /\ closed' = TRUE
  /\ mode' = "abort"
  /\ closer' = "lock"
  /\ timer' = "armed"
  /\ UNCHANGED <<callVars, writeVars, trackVars, linkVars, readerVars, closeCtx, closerHeld, closeRes>>

CloseCancelAll ==
  /\ closer = "cancel"
  /\ closerHeld' = TakeAll("closed")
  /\ pending' = [i \in IDs |-> "none"]
  /\ closer' = "flush"
  /\ UNCHANGED <<callVars, writeVars, nextID, linkVars, readerVars>>
  /\ CloserStays

CloserDeliver(c) ==
  /\ closer = "flush"
  /\ closerHeld[c] # "empty"
  /\ chan[c] = "empty"
  /\ chan' = [chan EXCEPT ![c] = closerHeld[c]]
  /\ closerHeld' = [closerHeld EXCEPT ![c] = "empty"]
  /\ UNCHANGED <<pc, id, ctx, res, writeVars, trackVars, linkVars, readerVars, closer>>
  /\ CloserStays

CloserDelivered ==
  /\ closer = "flush"
  /\ closerHeld = NoEntries
  /\ closer' = IF mode = "close" THEN "lock" ELSE "stop"
  /\ UNCHANGED <<callVars, writeVars, trackVars, linkVars, readerVars, closerHeld>>
  /\ CloserStays

\* The ConcludeRequest (Close) or the ABRT (Abort) has failed or is written.
\* Abort then stops its timer, in vain if the AfterFunc has started.
WriteReturns(ok) ==
  /\ closer' = CASE mode = "abort" -> "cancel"
                 [] mode = "close" /\ ok -> "await"
                 [] OTHER -> "stop"
  /\ closeRes' = IF mode = "close" /\ ~ok THEN "err" ELSE closeRes
  /\ timer' = IF closeCtx = "live" THEN "off" ELSE timer
  /\ UNCHANGED <<callVars, writeVars, trackVars, owed, readerVars, closed, mode, closeCtx, closerHeld>>

\* sendMu.Lock in conclude and in Abort, bounded by no context; Send then
\* refuses a closed transport and an ended context.
CloserLock ==
  /\ closer = "lock"
  /\ SendMuFree
  /\ \/ /\ link = "closed" \/ closeCtx # "live"
        /\ WriteReturns(FALSE)
        /\ UNCHANGED sendMu
     \/ /\ link # "closed" /\ closeCtx = "live"
        /\ sendMu' = "closer"
        /\ closer' = "write"
        /\ UNCHANGED <<callVars, writeVars, trackVars, owed, readerVars, closerHeld>>
        /\ CloserStays
  /\ UNCHANGED <<link, concludeOut>>

CloserWritten ==
  /\ closer = "write"
  /\ link # "closed"
  /\ sendMu' = "nobody"
  /\ concludeOut' = (mode = "close" /\ link = "up")
  /\ WriteReturns(TRUE)
  /\ UNCHANGED link

\* A write in progress fails with the transport, or when the deadline of
\* its context passes, which costs the connection; cancellation does not
\* interrupt it.
CloserWriteFails ==
  /\ closer = "write"
  /\ \/ link # "up" /\ UNCHANGED link
     \/ link = "up" /\ closeCtx = "expired" /\ link' = "broken"
  /\ sendMu' = "nobody"
  /\ WriteReturns(FALSE)
  /\ UNCHANGED concludeOut

\* The select of conclude; when the reader has exited, concludeCh is
\* looked at once more.
NoConclude == reader = "done" /\ ~concludeCh

ConcludeReturns_Mutant ==
  /\ closer = "await"
  /\ closer' = "stop"
  /\ \/ concludeCh /\ closeRes' = "nil" /\ concludeCh' = FALSE
     \/ NoConclude /\ closeRes' = "eof" /\ UNCHANGED concludeCh
  /\ UNCHANGED <<callVars, writeVars, trackVars, linkVars, readerCtx, reader, readerHeld,
                 closed, mode, closeCtx, closerHeld, timer>>
ConcludeReturns ==
  /\ closer = "await"
  /\ closer' = "stop"
  /\ \/ concludeCh /\ closeRes' = "nil" /\ concludeCh' = FALSE
     \/ closeCtx # "live" /\ closeRes' = "err" /\ UNCHANGED concludeCh
     \/ NoConclude /\ closeRes' = "eof" /\ UNCHANGED concludeCh
  /\ UNCHANGED <<callVars, writeVars, trackVars, linkVars, readerCtx, reader, readerHeld,
                 closed, mode, closeCtx, closerHeld, timer>>

ReaderCancel ==
  /\ closer = "stop"
  /\ readerCtx' = "done"
  /\ closer' = "join"
  /\ UNCHANGED <<callVars, writeVars, trackVars, linkVars, concludeCh, reader, readerHeld, closerHeld>>
  /\ CloserStays

\* <-readerDone, then the transport is closed and Close or Abort returns.
CloserReturns ==
  /\ closer = "join"
  /\ reader = "done"
  /\ link' = "closed"
  /\ closer' = "return"
  /\ UNCHANGED <<callVars, writeVars, trackVars, sendMu, owed, concludeOut, readerVars, closerHeld>>
  /\ CloserStays

\* Abort's AfterFunc closes the transport when the context ends.
AbortTimer ==
  /\ timer = "armed"
  /\ closeCtx # "live"
  /\ link' = "closed"
  /\ timer' = "off"
  /\ UNCHANGED <<callVars, writeVars, trackVars, sendMu, owed, concludeOut, readerVars,
                 closed, closer, mode, closeCtx, closerHeld, closeRes>>

-----------------------------------------------------------------------------
(* The environment *)

CtxEnds(c) ==
  /\ ctx[c] = "live"
  /\ pc[c] \notin {"idle", "return"}
  /\ ctx' = [ctx EXCEPT ![c] = "done"]
  /\ UNCHANGED <<pc, id, chan, res, writeVars, trackVars, linkVars, readerVars, closeVars>>

CloseCtxEnds ==
  /\ closeCtx = "live"
  /\ closer \notin {"idle", "return"}
  /\ closeCtx' \in {"cancelled", "expired"}
  /\ UNCHANGED <<callVars, writeVars, trackVars, linkVars, readerVars, closed, closer, mode, closerHeld, timer, closeRes>>

LinkBreaks ==
  /\ link = "up"
  /\ link' = "broken"
  /\ UNCHANGED <<callVars, writeVars, trackVars, sendMu, owed, concludeOut, readerVars, closeVars>>

\* Nothing is left to do once every goroutine has returned.
Terminated ==
  /\ closer \in {"idle", "return"}
  /\ reader = "done"
  /\ \A c \in Calls : pc[c] = "return" /\ wpc[c] \in {"none", "exit"}
  /\ UNCHANGED vars

-----------------------------------------------------------------------------

Caller(c) ==
  \/ NextID(c) \/ CheckClosed(c) \/ AllocateWithID(c) \/ SendReturns(c) \/ SendCtxDone(c)
  \/ WaitResponse(c) \/ WaitCtxDone(c) \/ WaitReaderDone(c) \/ Cancel(c)

Writer(c) == SendLock(c) \/ SendWritten(c) \/ SendFailed(c)

\* What the reader does by itself, and what it does when the peer sends.
ReaderStep ==
  \/ Receive \/ ReceiveFails \/ ReaderDelivered \/ StopReader \/ ReaderExit
  \/ \E c \in Calls : ReaderDeliver(c)

PeerSends ==
  \/ ReceiveUnusable \/ DispatchUnconfirmed \/ ReceiveConclude
  \/ \E c \in Calls : DispatchConfirmed(c) \/ DispatchNoInvokeID(c)

CloserStep ==
  \/ CloseCancelAll \/ CloserDelivered \/ CloserLock \/ CloserWriteFails
  \/ ConcludeReturns \/ ReaderCancel \/ CloserReturns
  \/ \E c \in Calls : CloserDeliver(c)

Environment == CloseCtxEnds \/ LinkBreaks \/ \E c \in Calls : CtxEnds(c)

Next ==
  \/ \E c \in Calls : Caller(c) \/ Writer(c)
  \/ ReaderStep \/ PeerSends \/ HandlerReturns
  \/ Close \/ Abort \/ CloserStep \/ CloserWritten \/ AbortTimer
  \/ Environment \/ Terminated

Spec == Init /\ [][Next]_vars

(***************************************************************************)
(* Fairness.  Every goroutine of the client that can step does: a caller   *)
(* that has begun, the writer when it gets the mutex or when the transport *)
(* has failed, the reader on its own steps, the closer, and the AfterFunc. *)
(* A report handler is assumed to return ("Handlers should not block",     *)
(* RACE_NOTES.md).  The peer owes nothing: no write need complete, no      *)
(* answer need come, and no context need end.  sendMu is a Go mutex,       *)
(* which serves waiters in turn; as the writers are finitely many, weak    *)
(* fairness says enough.                                                   *)
(***************************************************************************)
Fairness ==
  /\ \A c \in Calls : /\ WF_vars(pc[c] # "idle" /\ Caller(c))
                      /\ WF_vars(SendLock(c) \/ SendFailed(c))
  /\ WF_vars(ReaderStep)
  /\ WF_vars(HandlerReturns)
  /\ WF_vars(CloserStep)
  /\ WF_vars(AbortTimer)

FairSpec == Spec /\ Fairness

-----------------------------------------------------------------------------
(* Safety *)

\* The entry of call c is registered in the tracker.
Registered(c) == \E i \in IDs : pending[i] = c

\* At most one PDU is being written to the transport at any time, whether
\* by a detached request write or by Close and Abort (sendMu).
WriteMutex ==
  /\ \A c, d \in Calls : wpc[c] = "write" /\ wpc[d] = "write" => c = d
  /\ \A c \in Calls : ~(wpc[c] = "write" /\ closer = "write")

(***************************************************************************)
(* The response channel of a call is sent to exactly once, whoever gets    *)
(* there first: Complete by the reader, Cancel by a caller, or CancelAll   *)
(* by the reader, Close or Abort.  The right to send is in one place, the  *)
(* tracker or one goroutine, and is gone once the channel is full, so no   *)
(* send blocks (the channel has one slot); and until the caller returns it *)
(* is not lost.                                                            *)
(***************************************************************************)
ExactlyOneDelivery ==
  \A c \in Calls :
    /\ Registered(c) => readerHeld[c] = "empty" /\ closerHeld[c] = "empty" /\ chan[c] = "empty"
    /\ readerHeld[c] # "empty" => closerHeld[c] = "empty" /\ chan[c] = "empty"
    /\ closerHeld[c] # "empty" => chan[c] = "empty"
    /\ pc[c] \in {"send", "wait"} =>
         \/ Registered(c)
         \/ readerHeld[c] # "empty"
         \/ closerHeld[c] # "empty"
         \/ chan[c] # "empty"

\* A call only ever gets the answer to a request with its own invoke ID.
AnswerMatches ==
  \A c, d \in Calls :
    d \in {readerHeld[c], closerHeld[c], chan[c], res[c]} => id[c] = id[d]

\* A request whose caller gave up before its write started is never
\* written, not even in part.
AbandonedNeverWritten ==
  \A c \in Calls : state[c] = "abandoned" => wpc[c] # "write" /\ c \notin owed

\* A call that has returned leaves no entry in the tracker, so its ID is
\* free for reuse after the counter wraps.
NoLeakedEntry ==
  \A c \in Calls : Registered(c) => pc[c] \in {"send", "wait", "cancel"}

\* A caller told that the reader is gone has not missed an answer that the
\* reader delivered just before exiting (the inner select of doConfirmed).
AnswerNotLost ==
  \A c \in Calls : res[c] = "closed" /\ done[c] = "nil" => chan[c] \notin Calls

\* Close reports "connection closed before conclude response" only if no
\* conclude response was read (the inner select of conclude).
ConcludeNotLost == closeRes = "eof" => ~concludeCh

\* Neither is lost when the reader exits at the same time.
NotLostAtExit == AnswerNotLost /\ ConcludeNotLost

\* The state is of its types, and the transport is written by one goroutine at
\* a time, never for a request that was given up before its write.
WritesInv == TypeOK /\ WriteMutex /\ AbandonedNeverWritten

-----------------------------------------------------------------------------
(* Liveness, under FairSpec *)

Active(c) == pc[c] \notin {"idle", "return"}

\* Abort returns once its context has ended, even behind a stalled write.
AbortReturns == (mode = "abort" /\ closeCtx # "live") ~> (closer = "return")

\* Close returns once the deadline of its context has passed, whatever the
\* peer does, unless a request write that the peer stalls keeps sendMu: that
\* write runs under context.WithoutCancel and Close waits for it.
CloseReturns ==
  []<>(\A c \in Calls : wpc[c] # "write") => ((mode = "close" /\ closeCtx = "expired") ~> (closer = "return"))

\* Both ways to end an association return.
EndReturns == AbortReturns /\ CloseReturns

\* What ends a call: its context, the loss of its connection, and the return of
\* Close or Abort, although the call may have registered after CancelAll.
Ended(c) == ctx[c] = "done" \/ link # "up" \/ closer = "return"

\* Each of them makes the call return, whatever the peer, the other calls and a
\* stalled write do.
CallsEnd == \A c \in Calls : (Active(c) /\ Ended(c)) ~> (pc[c] = "return")

=============================================================================
