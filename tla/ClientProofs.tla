---------------------------- MODULE ClientProofs ----------------------------
(***************************************************************************)
(* Proofs about one client association, for any number of calls and any    *)
(* width of the invoke ID.  The inductive invariant has four parts.        *)
(* TypeOK and Control follow each goroutine's control points; Slots says   *)
(* who holds the right to send on a response channel; Answers relates the  *)
(* answers under way to the requests they answer.                          *)
(***************************************************************************)
EXTENDS Client, TLAPS

\* A leaf that names no prover is tried with Z3, with Zenon, and with Z3 for longer.
USE SMT, Zenon, SMTT(20)

\* Call c has not been registered yet.
Unbegun(c) == pc[c] \in {"idle", "begin", "register"}

\* sendMu is held by whoever writes; the control points of a caller, of its
\* writer and of Close agree.
Control ==
  /\ ~closed => closer = "idle"
  /\ closeRes = "eof" => reader = "done" /\ ~concludeCh
  /\ closer = "write" => sendMu = "closer"
  /\ \A c \in Calls :
       /\ pc[c] = "cancel" => res[c] \in {"closed", "ctx"}
       /\ pc[c] = "send" => wpc[c] # "none"
       /\ pc[c] = "wait" => wpc[c] = "exit" /\ done[c] = "nil"
       /\ Unbegun(c) => wpc[c] = "none" /\ res[c] = "none"
       /\ wpc[c] = "none" => state[c] = "pending"
       /\ wpc[c] = "write" => state[c] = "writing" /\ sendMu = c
       /\ wpc[c] # "exit" => done[c] = "empty"
       /\ c \in owed => state[c] = "writing" /\ wpc[c] = "exit"

\* The right to send on the channel of c is in the tracker, with the reader or
\* with Close, or it has been used.
Slots ==
  /\ \A c \in Calls : \A i \in IDs : pending[i] = c =>
       /\ id[c] = i
       /\ pc[c] \in {"send", "wait", "cancel"}
       /\ chan[c] = "empty" /\ readerHeld[c] = "empty" /\ closerHeld[c] = "empty"
  /\ \A c \in Calls :
       /\ Unbegun(c) => chan[c] = "empty" /\ readerHeld[c] = "empty" /\ closerHeld[c] = "empty"
       /\ readerHeld[c] # "empty" => closerHeld[c] = "empty" /\ chan[c] = "empty"
       /\ closerHeld[c] # "empty" => chan[c] = "empty"
       /\ pc[c] \in {"send", "wait"} =>
            \/ pending[id[c]] = c
            \/ readerHeld[c] # "empty" \/ closerHeld[c] # "empty" \/ chan[c] # "empty"
       /\ reader \notin {"deliver", "flush"} => readerHeld[c] = "empty"
       /\ closer # "flush" => closerHeld[c] = "empty"

\* An answer under way to c was given to a request with the same ID; a caller
\* told of the reader's exit was not answered.
Answers ==
  /\ \A c, d \in Calls :
       d \in {readerHeld[c], chan[c], res[c]} => id[c] = id[d] /\ pc[d] # "idle"
  /\ \A c \in Calls :
       /\ closerHeld[c] \notin Calls
       /\ res[c] = "closed" => wpc[c] \in {"none", "exit"}
       /\ res[c] = "closed" /\ done[c] = "nil" =>
            chan[c] \notin Calls /\ (reader = "done" \/ chan[c] # "empty")

IInv == TypeOK /\ Control /\ Slots /\ Answers

-----------------------------------------------------------------------------
(* Each part of the invariant is preserved *)

\* Moving call c to a control point after NextID, with a result or without.
LEMMA GotoType ==
  ASSUME CallType, NEW c \in Calls, id[c] \in IDs, 
         NEW at \in {"begin", "register", "send", "wait", "cancel", "return"},
         \/ Goto(c, at)
         \/ \E r \in Result : Leave(c, at, r),
         UNCHANGED <<id, ctx>>, chan' \in [Calls -> Payload \cup {"empty"}]
  PROVE  CallType'
<1>1. pc' = [pc EXCEPT ![c] = at]
  BY DEF Goto, Leave
<1>2. res' \in [Calls -> Result \cup {"none"}]
  BY DEF Goto, Leave, CallType
<1> QED
  BY Zenon, <1>1, <1>2 DEF CallType

\* The callers keep their types: Cancel relays the error of its own call.
LEMMA CallTypeStep == TypeOK /\ Control /\ [Next]_vars => CallType'
<1> SUFFICES ASSUME TypeOK, Control, [Next]_vars PROVE CallType'
  OBVIOUS
<1> USE CallsAssumption, MaxIDAssumption DEF TypeOK, callVars
<1>1. ASSUME NEW c \in Calls, Caller(c) PROVE CallType'
  <2>1. CASE NextID(c)
    BY <2>1 DEF NextID, After, Goto, CallType, TrackType, IDs
  <2>2. pc[c] # "idle" => id[c] \in IDs
    BY DEF CallType
  <2>3. chan' = chan => chan' \in [Calls -> Payload \cup {"empty"}]
    BY DEF CallType
  <2>4. {"closed", "ctx", "dup"} \subseteq Result
    BY DEF Result, Payload
  <2>5. CASE CheckClosed(c)
    BY <2>2, <2>3, <2>4, <2>5, GotoType DEF CheckClosed
  <2>6. CASE AllocateWithID(c)
    BY <2>2, <2>3, <2>4, <2>6, GotoType DEF AllocateWithID
  <2>7. CASE SendReturns(c) \/ SendCtxDone(c)
    BY <2>2, <2>3, <2>4, <2>7, GotoType DEF SendReturns, SendCtxDone
  <2>8. CASE WaitResponse(c)
    <3>1. chan[c] \in Result
      BY <2>8 DEF WaitResponse, CallType, Result
    <3> QED
      BY <2>2, <2>3, <2>8, <3>1, GotoType DEF WaitResponse
  <2>9. CASE WaitCtxDone(c) \/ WaitReaderDone(c)
    BY <2>2, <2>3, <2>4, <2>9, GotoType DEF WaitCtxDone, WaitReaderDone
  <2>10. CASE Cancel(c)
    <3>1. res[c] \in {"closed", "ctx"}
      BY <2>10 DEF Cancel, Control
    <3>2. chan' \in [Calls -> Payload \cup {"empty"}]
      BY <2>10, <3>1 DEF Cancel, CallType, Payload
    <3> QED
      BY <2>2, <2>4, <2>10, <3>1, <3>2, GotoType DEF Cancel
  <2> QED
    BY <1>1, <2>1, <2>5, <2>6, <2>7, <2>8, <2>9, <2>10 DEF Caller
<1>2. ASSUME NEW c \in Calls, ReaderDeliver(c) PROVE CallType'
  BY <1>2 DEF ReaderDeliver, CallType, ReaderType
<1>3. ASSUME NEW c \in Calls, CloserDeliver(c) PROVE CallType'
  BY <1>3 DEF CloserDeliver, CallType, CloseType
<1>4. ASSUME NEW c \in Calls, CtxEnds(c) PROVE CallType'
  BY <1>4 DEF CtxEnds, CallType
<1>5. CASE UNCHANGED callVars
  BY SMTT(20), <1>5 DEF CallType
<1> QED
  BY Zenon, <1>1, <1>2, <1>3, <1>4, <1>5 DEF Next, Writer, SendLock, SendWritten, SendFailed,
      ReaderStep, Receive, ReceiveFails, ReaderDelivered, StopReader, ReaderExit, PeerSends,
      HandlerReturns, ReceiveUnusable, DispatchUnconfirmed, ReceiveConclude, DispatchConfirmed,
      DispatchNoInvokeID, Close, Abort, AbortTimer, CloserStep, CloseCancelAll, CloserDelivered,
      CloserLock, CloserWriteFails, ConcludeReturns, ReaderCancel, CloserReturns, CloserWritten,
      WriteReturns, Environment, CloseCtxEnds, LinkBreaks, Terminated, vars

\* The tracker keeps its types: the counter stays within an invoke ID.
LEMMA TrackTypeStep == TypeOK /\ Control /\ [Next]_vars => TrackType'
<1> SUFFICES ASSUME TypeOK, Control, [Next]_vars PROVE TrackType'
  OBVIOUS
<1> USE MaxIDAssumption DEF TypeOK, trackVars
<1>1. ASSUME NEW c \in Calls, NextID(c) PROVE TrackType'
  BY <1>1 DEF NextID, After, TrackType
<1>2. ASSUME NEW c \in Calls, AllocateWithID(c) PROVE TrackType'
  <2>1. CASE UNCHANGED pending
    BY <1>2, <2>1 DEF AllocateWithID, TrackType
  <2>2. CASE pending' = [pending EXCEPT ![id[c]] = c]
    BY Zenon, <1>2, <2>2 DEF AllocateWithID, TrackType
  <2> QED
    BY <1>2, <2>1, <2>2 DEF AllocateWithID
<1>3. ASSUME NEW c \in Calls, Cancel(c) PROVE TrackType'
  BY <1>3 DEF Cancel, Delete, TrackType
<1>4. ASSUME NEW c \in Calls, DispatchConfirmed(c) PROVE TrackType'
  BY <1>4 DEF DispatchConfirmed, Delete, TrackType
<1>5. CASE StopReader \/ CloseCancelAll
  BY <1>5 DEF StopReader, CloseCancelAll, TrackType
<1>6. CASE UNCHANGED trackVars
  BY <1>6 DEF TrackType
<1> QED
  BY ZenonT(30), <1>1, <1>2, <1>3, <1>4, <1>5, <1>6 DEF Next, Caller, CheckClosed, SendReturns,
     SendCtxDone,
      WaitResponse, WaitCtxDone, WaitReaderDone, Writer, SendLock, SendWritten, SendFailed,
      ReaderStep, Receive, ReceiveFails, ReaderDelivered, ReaderDeliver, ReaderExit, PeerSends,
      HandlerReturns, ReceiveUnusable, DispatchUnconfirmed, ReceiveConclude, DispatchNoInvokeID,
      Close, Abort, AbortTimer, CloserStep, CloserDelivered, CloserDeliver, CloserLock,
      CloserWriteFails, ConcludeReturns, ReaderCancel, CloserReturns, CloserWritten,
      WriteReturns, Environment, CtxEnds, CloseCtxEnds, LinkBreaks, Terminated, vars

\* The reader keeps its types.
LEMMA ReaderTypeStep == TypeOK /\ [Next]_vars => ReaderType'
<1> SUFFICES ASSUME TypeOK, [Next]_vars PROVE ReaderType'
  OBVIOUS
<1> USE DEF TypeOK, readerVars
<1>1. ASSUME NEW c \in Calls, DispatchConfirmed(c) PROVE ReaderType'
  <2>1. readerHeld' \in [Calls -> Payload \cup {"empty"}]
    BY <1>1 DEF DispatchConfirmed, ReaderType, Payload
  <2>2. reader' \in {"recv", "deliver"} /\ UNCHANGED <<readerCtx, concludeCh>>
    BY <1>1 DEF DispatchConfirmed
  <2> QED
    BY <2>1, <2>2 DEF ReaderType
<1>2. CASE ReaderStep
  BY <1>2 DEF ReaderStep, Receive, ReceiveFails, ReaderDelivered, StopReader, ReaderExit,
              ReaderDeliver, TakeAll, ReaderType, Payload
<1>3. CASE ReceiveConclude
  BY <1>3 DEF ReceiveConclude, ReaderType
<1>4. CASE ReceiveUnusable \/ DispatchUnconfirmed \/ HandlerReturns
  BY <1>4 DEF ReceiveUnusable, DispatchUnconfirmed, HandlerReturns, ReaderType
<1>5. ASSUME NEW c \in Calls, DispatchNoInvokeID(c) PROVE ReaderType'
  BY <1>5 DEF DispatchNoInvokeID, ReaderType
<1>6. CASE ConcludeReturns
  BY ZenonT(30), <1>6 DEF ConcludeReturns, ReaderType
<1>7. CASE ReaderCancel
  BY <1>7 DEF ReaderCancel, ReaderType
<1>8. CASE UNCHANGED readerVars
  BY <1>8 DEF ReaderType
<1> QED
  BY ZenonT(30), <1>1, <1>2, <1>3, <1>4, <1>5, <1>6, <1>7, <1>8 DEF Next, Caller, NextID,
     CheckClosed,
      SendReturns, SendCtxDone, WaitResponse, WaitCtxDone, WaitReaderDone, Cancel,
      AllocateWithID, Writer, SendLock, SendWritten, SendFailed, PeerSends, Close, Abort,
      AbortTimer, CloserStep, CloseCancelAll, CloserDelivered, CloserDeliver, CloserLock,
      CloserWriteFails, CloserReturns, CloserWritten, WriteReturns, Environment, CtxEnds,
      CloseCtxEnds, LinkBreaks, Terminated, vars

\* The detached writes keep their types.
LEMMA WriteTypeStep == TypeOK /\ [Next]_vars => WriteType'
<1> SUFFICES ASSUME TypeOK, [Next]_vars PROVE WriteType'
  OBVIOUS
<1> USE CallsAssumption, MaxIDAssumption DEF TypeOK, WriteType, callVars, writeVars, trackVars,
    linkVars, readerVars, closeVars
<1>1. ASSUME NEW c \in Calls, Caller(c) PROVE WriteType'
  BY SMTT(30), <1>1 DEF Caller, NextID, CheckClosed, AllocateWithID, SendReturns, SendCtxDone,
      WaitResponse, WaitCtxDone, WaitReaderDone, Cancel, After, Goto, Leave, Abandon,
      NoResponse, Lookup, Delete
<1>2. ASSUME NEW c \in Calls, Writer(c) PROVE WriteType'
  BY <1>2 DEF Writer, SendLock, SendWritten, SendFailed, SendMuFree
<1>3. ASSUME ReaderStep PROVE WriteType'
  BY <1>3 DEF ReaderStep, Receive, ReceiveFails, ReaderDelivered, StopReader, ReaderExit,
      ReaderDeliver, TakeAll
<1>4. ASSUME PeerSends \/ HandlerReturns PROVE WriteType'
  BY <1>4 DEF PeerSends, HandlerReturns, ReceiveUnusable, DispatchUnconfirmed, ReceiveConclude,
      DispatchConfirmed, DispatchNoInvokeID, Lookup, Delete
<1>5. ASSUME Close \/ Abort \/ AbortTimer PROVE WriteType'
  BY <1>5 DEF Close, Abort, AbortTimer
<1>6. ASSUME CloserStep \/ CloserWritten PROVE WriteType'
  BY <1>6 DEF CloserStep, CloseCancelAll, CloserDelivered, CloserLock, CloserWriteFails,
      ConcludeReturns, ReaderCancel, CloserReturns, CloserDeliver, CloserWritten, SendMuFree,
      WriteReturns, CloserStays, TakeAll, NoConclude
<1>7. ASSUME Environment PROVE WriteType'
  BY <1>7 DEF Environment, CloseCtxEnds, LinkBreaks, CtxEnds
<1>8. CASE UNCHANGED vars
  BY <1>8 DEF vars
<1> QED
  BY Zenon, <1>1, <1>2, <1>3, <1>4, <1>5, <1>6, <1>7, <1>8 DEF Next, Terminated

\* The transport keeps its types.
LEMMA LinkTypeStep == TypeOK /\ [Next]_vars => LinkType'
<1> SUFFICES ASSUME TypeOK, [Next]_vars PROVE LinkType'
  OBVIOUS
<1> USE CallsAssumption, MaxIDAssumption DEF TypeOK, LinkType, callVars, writeVars, trackVars,
    linkVars, readerVars, closeVars
<1>1. ASSUME NEW c \in Calls, Caller(c) PROVE LinkType'
  BY <1>1 DEF Caller, NextID, CheckClosed, AllocateWithID, SendReturns, SendCtxDone,
      WaitResponse, WaitCtxDone, WaitReaderDone, Cancel, After, Goto, Leave, Abandon,
      NoResponse, Lookup, Delete
<1>2. ASSUME NEW c \in Calls, Writer(c) PROVE LinkType'
  BY <1>2 DEF Writer, SendLock, SendWritten, SendFailed, SendMuFree
<1>3. ASSUME ReaderStep PROVE LinkType'
  BY <1>3 DEF ReaderStep, Receive, ReceiveFails, ReaderDelivered, StopReader, ReaderExit,
      ReaderDeliver, TakeAll
<1>4. ASSUME PeerSends \/ HandlerReturns PROVE LinkType'
  BY <1>4 DEF PeerSends, HandlerReturns, ReceiveUnusable, DispatchUnconfirmed, ReceiveConclude,
      DispatchConfirmed, DispatchNoInvokeID, Lookup, Delete
<1>5. ASSUME Close \/ Abort \/ AbortTimer PROVE LinkType'
  BY <1>5 DEF Close, Abort, AbortTimer
<1>6. ASSUME CloserStep \/ CloserWritten PROVE LinkType'
  BY ZenonT(30), <1>6 DEF CloserStep, CloseCancelAll, CloserDelivered, CloserLock, CloserWriteFails,
      ConcludeReturns, ReaderCancel, CloserReturns, CloserDeliver, CloserWritten, SendMuFree,
      WriteReturns, CloserStays, TakeAll, NoConclude
<1>7. ASSUME Environment PROVE LinkType'
  BY <1>7 DEF Environment, CloseCtxEnds, LinkBreaks, CtxEnds
<1>8. CASE UNCHANGED vars
  BY <1>8 DEF vars
<1> QED
  BY Zenon, <1>1, <1>2, <1>3, <1>4, <1>5, <1>6, <1>7, <1>8 DEF Next, Terminated

\* Close and Abort keep their types.
LEMMA CloseTypeStep == TypeOK /\ [Next]_vars => CloseType'
<1> SUFFICES ASSUME TypeOK, [Next]_vars PROVE CloseType'
  OBVIOUS
<1> USE CallsAssumption, MaxIDAssumption DEF TypeOK, CloseType, Payload, callVars, writeVars,
    trackVars, linkVars, readerVars, closeVars
<1>1. ASSUME NEW c \in Calls, Caller(c) PROVE CloseType'
  <2>1. UNCHANGED <<closed, closer, mode, closeCtx, closerHeld, timer, closeRes>>
    <3> HIDE DEF TypeOK
    <3> QED
      BY <1>1 DEF Caller, NextID, CheckClosed, AllocateWithID, SendReturns, SendCtxDone,
          WaitResponse, WaitCtxDone, WaitReaderDone, Cancel
  <2> QED
    BY SMTT(20), SMTT(30), <2>1
<1>2. ASSUME NEW c \in Calls, Writer(c) PROVE CloseType'
  BY <1>2 DEF Writer, SendLock, SendWritten, SendFailed, SendMuFree
<1>3. ASSUME ReaderStep PROVE CloseType'
  BY <1>3 DEF ReaderStep, Receive, ReceiveFails, ReaderDelivered, StopReader, ReaderExit,
      ReaderDeliver, TakeAll
<1>4. ASSUME PeerSends \/ HandlerReturns PROVE CloseType'
  BY <1>4 DEF PeerSends, HandlerReturns, ReceiveUnusable, DispatchUnconfirmed, ReceiveConclude,
      DispatchConfirmed, DispatchNoInvokeID, Lookup, Delete
<1>5. ASSUME Close \/ Abort \/ AbortTimer PROVE CloseType'
  <2>1. CASE Close
    BY <2>1 DEF Close
  <2>2. CASE Abort
    BY <2>2 DEF Abort
  <2>3. CASE AbortTimer
    BY <2>3 DEF AbortTimer
  <2> QED
    BY <1>5, <2>1, <2>2, <2>3
<1>6. ASSUME CloserStep \/ CloserWritten PROVE CloseType'
  BY <1>6 DEF CloserStep, CloseCancelAll, CloserDelivered, CloserLock, CloserWriteFails,
      ConcludeReturns, ReaderCancel, CloserReturns, CloserDeliver, CloserWritten, SendMuFree,
      WriteReturns, CloserStays, TakeAll, NoConclude
<1>7. ASSUME Environment PROVE CloseType'
  BY <1>7 DEF Environment, CloseCtxEnds, LinkBreaks, CtxEnds
<1>8. CASE UNCHANGED vars
  BY <1>8 DEF vars
<1> QED
  BY <1>1, <1>2, <1>3, <1>4, <1>5, <1>6, <1>7, <1>8 DEF Next, Terminated

\* TypeOK is preserved, with the help of Control.
LEMMA TypeStep == TypeOK /\ Control /\ [Next]_vars => TypeOK'
BY SMTT(20), CallTypeStep, WriteTypeStep, TrackTypeStep, LinkTypeStep, ReaderTypeStep, CloseTypeStep
   DEF TypeOK

\* The control points stay consistent, and sendMu with whoever writes.
LEMMA ControlStep == TypeOK /\ Control /\ [Next]_vars => Control'
<1> SUFFICES ASSUME TypeOK, Control, [Next]_vars PROVE Control'
  BY SMTT(20)
<1> USE CallsAssumption, MaxIDAssumption DEF TypeOK, CallType, WriteType, TrackType, LinkType,
    ReaderType, CloseType, Control, Unbegun, callVars, writeVars, trackVars, linkVars,
    readerVars, closeVars
<1>1. ASSUME NEW c \in Calls, Caller(c) PROVE Control'
  <2>1. CASE NextID(c)
    BY <2>1 DEF NextID, After, Goto
  <2>2. CASE CheckClosed(c)
    BY <2>2 DEF CheckClosed, Goto, Leave
  <2>3. CASE AllocateWithID(c)
    BY SMTT(20), <2>3 DEF AllocateWithID, Goto, Leave
  <2>4. CASE SendReturns(c)
    BY SMTT(20), <2>4 DEF SendReturns, Goto, Leave
  <2>5. CASE SendCtxDone(c)
    BY <2>5 DEF SendCtxDone, Leave, Abandon
  <2>6. CASE WaitResponse(c)
    BY <2>6 DEF WaitResponse, Leave
  <2>7. CASE WaitCtxDone(c)
    BY <2>7 DEF WaitCtxDone, Leave
  <2>8. CASE WaitReaderDone(c)
    BY <2>8 DEF WaitReaderDone, Leave, NoResponse
  <2>9. CASE Cancel(c)
    BY SMTT(20), <2>9 DEF Cancel, Leave, Lookup, Delete
  <2> QED
    BY Zenon, <1>1, <2>1, <2>2, <2>3, <2>4, <2>5, <2>6, <2>7, <2>8, <2>9 DEF Caller
<1>2. ASSUME NEW c \in Calls, Writer(c) PROVE Control'
  BY SMTT(20), SMTT(30), <1>2 DEF Writer, SendLock, SendWritten, SendFailed, SendMuFree
<1>3. ASSUME ReaderStep PROVE Control'
  <2>1. CASE Receive
    BY <2>1 DEF Receive
  <2>2. CASE ReceiveFails
    BY <2>2 DEF ReceiveFails
  <2>3. CASE ReaderDelivered
    BY <2>3 DEF ReaderDelivered
  <2>4. CASE StopReader
    BY <2>4 DEF StopReader, TakeAll
  <2>5. CASE ReaderExit
    BY <2>5 DEF ReaderExit
  <2>6. ASSUME NEW c \in Calls, ReaderDeliver(c) PROVE Control'
    BY SMTT(20), <2>6 DEF ReaderDeliver
  <2> QED
    BY Zenon, <1>3, <2>1, <2>2, <2>3, <2>4, <2>5, <2>6 DEF ReaderStep
<1>4. ASSUME PeerSends \/ HandlerReturns PROVE Control'
  <2>1. CASE HandlerReturns
    BY SMTT(20), <2>1 DEF HandlerReturns
  <2>2. CASE ReceiveUnusable
    BY <2>2 DEF ReceiveUnusable
  <2>3. CASE DispatchUnconfirmed
    BY <2>3 DEF DispatchUnconfirmed
  <2>4. CASE ReceiveConclude
    BY SMTT(20), <2>4 DEF ReceiveConclude
  <2>5. ASSUME NEW c \in Calls, DispatchConfirmed(c) PROVE Control'
    BY SMTT(20), <2>5 DEF DispatchConfirmed, Lookup, Delete
  <2>6. ASSUME NEW c \in Calls, DispatchNoInvokeID(c) PROVE Control'
    BY SMTT(20), <2>6 DEF DispatchNoInvokeID
  <2> QED
    BY Zenon, <1>4, <2>1, <2>2, <2>3, <2>4, <2>5, <2>6 DEF PeerSends
<1>5. ASSUME Close \/ Abort \/ AbortTimer PROVE Control'
  BY SMTT(20), <1>5 DEF Close, Abort, AbortTimer
<1>6. ASSUME CloserStep \/ CloserWritten PROVE Control'
  <2>1. CASE CloseCancelAll
    BY SMTT(20), <2>1 DEF CloseCancelAll, TakeAll, CloserStays
  <2>2. CASE CloserDelivered
    BY <2>2 DEF CloserDelivered, CloserStays
  <2>3. CASE CloserLock
    BY <2>3 DEF CloserLock, SendMuFree, WriteReturns, CloserStays
  <2>4. CASE CloserWriteFails
    BY <2>4 DEF CloserWriteFails, WriteReturns
  <2>5. CASE ConcludeReturns
    BY <2>5 DEF ConcludeReturns, CloserStays, NoConclude
  <2>6. CASE ReaderCancel
    BY SMTT(20), <2>6 DEF ReaderCancel, CloserStays
  <2>7. CASE CloserReturns
    BY <2>7 DEF CloserReturns, CloserStays
  <2>8. CASE CloserWritten
    BY SMTT(20), <2>8 DEF CloserWritten, WriteReturns
  <2>9. ASSUME NEW c \in Calls, CloserDeliver(c) PROVE Control'
    BY SMTT(20), <2>9 DEF CloserDeliver, CloserStays
  <2> QED
    BY Zenon, <1>6, <2>1, <2>2, <2>3, <2>4, <2>5, <2>6, <2>7, <2>8, <2>9 DEF CloserStep
<1>7. ASSUME Environment PROVE Control'
  BY SMTT(20), <1>7 DEF Environment, CloseCtxEnds, LinkBreaks, CtxEnds
<1>8. CASE UNCHANGED vars
  BY <1>8 DEF vars
<1> QED
  BY ZenonT(30), <1>1, <1>2, <1>3, <1>4, <1>5, <1>6, <1>7, <1>8 DEF Next, Terminated

\* The right to send on a response channel is never copied and never lost.
LEMMA SlotStep == TypeOK /\ Control /\ Slots /\ [Next]_vars => Slots'
<1> SUFFICES ASSUME TypeOK, Control, Slots, [Next]_vars PROVE Slots'
  BY Zenon
<1> USE CallsAssumption, MaxIDAssumption DEF callVars, writeVars, trackVars, linkVars, readerVars,
    closeVars
<1>0. ASSUME UNCHANGED <<pc, id, chan, pending, readerHeld, closerHeld>>,
             reader \in {"deliver", "flush"} => reader' \in {"deliver", "flush"},
             closer = "flush" => closer' = "flush"
      PROVE Slots'
  BY <1>0 DEF Slots, Unbegun
<1>1. ASSUME NEW c \in Calls, Caller(c) PROVE Slots'
  <2>1. CASE NextID(c)
    BY <2>1 DEF NextID, After, Goto, Slots, Unbegun
  <2>2. CASE CheckClosed(c)
    BY SMTT(20), <2>2 DEF CheckClosed, Goto, Leave, TypeOK, CallType, Slots, Unbegun
  <2>3. CASE AllocateWithID(c)
    BY SMTT(20), <2>3 DEF AllocateWithID, Goto, Leave, TypeOK, CallType, TrackType, Slots, Unbegun
  <2>4. CASE SendReturns(c)
    BY SMTT(20), SMTT(30), <2>4 DEF SendReturns, Goto, Leave, TypeOK, CallType, Slots, Unbegun
  <2>5. CASE SendCtxDone(c)
    BY SMTT(20), <2>5 DEF SendCtxDone, Leave, Abandon, Slots, Unbegun
  <2>6. CASE WaitResponse(c)
    BY SMTT(20), <2>6 DEF WaitResponse, Leave, Slots, Unbegun
  <2>7. CASE WaitCtxDone(c)
    BY SMTT(20), <2>7 DEF WaitCtxDone, Leave, Slots, Unbegun
  <2>8. CASE WaitReaderDone(c)
    BY SMTT(20), SMTT(30), <2>8 DEF WaitReaderDone, Leave, NoResponse, Slots, Unbegun
  <2>9. CASE Cancel(c)
    BY <2>9 DEF Cancel, Leave, Lookup, Delete, TypeOK, CallType, TrackType, Control, Slots,
        Unbegun
  <2> QED
    BY SMTT(20), <1>1, <2>1, <2>2, <2>3, <2>4, <2>5, <2>6, <2>7, <2>8, <2>9 DEF Caller
<1>2. ASSUME NEW c \in Calls, Writer(c) PROVE Slots'
  <2>1. CASE SendLock(c)
    BY <1>0, <2>1 DEF SendLock, SendMuFree
  <2>2. CASE SendWritten(c)
    BY <1>0, <2>2 DEF SendWritten
  <2>3. CASE SendFailed(c)
    BY <1>0, <2>3 DEF SendFailed
  <2> QED
    BY <1>2, <2>1, <2>2, <2>3 DEF Writer
<1>3. ASSUME ReaderStep PROVE Slots'
  <2>1. CASE Receive
    BY <1>0, <2>1 DEF Receive
  <2>2. CASE ReceiveFails
    BY Zenon, <1>0, <2>2 DEF ReceiveFails
  <2>3. CASE ReaderDelivered
    BY SMTT(20), <2>3 DEF ReaderDelivered, Slots, Unbegun, NoEntries
  <2>4. CASE StopReader
    BY <2>4 DEF StopReader, TakeAll, TypeOK, CallType, Slots, Unbegun
  <2>5. CASE ReaderExit
    BY Zenon, <1>0, <2>5 DEF ReaderExit
  <2>6. ASSUME NEW c \in Calls, ReaderDeliver(c) PROVE Slots'
    BY <2>6 DEF ReaderDeliver, TypeOK, CallType, TrackType, ReaderType, Slots, Unbegun
  <2> QED
    BY <1>3, <2>1, <2>2, <2>3, <2>4, <2>5, <2>6 DEF ReaderStep
<1>4. ASSUME PeerSends \/ HandlerReturns PROVE Slots'
  <2>1. CASE HandlerReturns
    BY <1>0, <2>1 DEF HandlerReturns
  <2>2. CASE ReceiveUnusable
    BY <1>0, <2>2 DEF ReceiveUnusable
  <2>3. CASE DispatchUnconfirmed
    BY <1>0, <2>3 DEF DispatchUnconfirmed
  <2>4. CASE ReceiveConclude
    BY Zenon, <1>0, <2>4 DEF ReceiveConclude
  <2>5. ASSUME NEW c \in Calls, DispatchConfirmed(c) PROVE Slots'
    BY <2>5 DEF DispatchConfirmed, Lookup, Delete, TypeOK, CallType, TrackType, ReaderType,
        CloseType, Control, Slots, Unbegun
  <2>6. ASSUME NEW c \in Calls, DispatchNoInvokeID(c) PROVE Slots'
    BY Zenon, <1>0, <2>6 DEF DispatchNoInvokeID
  <2> QED
    BY <1>4, <2>1, <2>2, <2>3, <2>4, <2>5, <2>6 DEF PeerSends
<1>5. ASSUME Close \/ Abort \/ AbortTimer PROVE Slots'
  BY <1>0, <1>5 DEF Close, Abort, AbortTimer, Control
<1>6. ASSUME CloserStep \/ CloserWritten PROVE Slots'
  <2>1. CASE CloseCancelAll
    BY SMTT(20), <2>1 DEF CloseCancelAll, TakeAll, CloserStays, TypeOK, CallType, Slots, Unbegun
  <2>2. CASE CloserDelivered
    BY <2>2 DEF CloserDelivered, CloserStays, Slots, Unbegun, NoEntries
  <2>3. CASE CloserLock
    BY <1>0, <2>3 DEF CloserLock, SendMuFree, WriteReturns, CloserStays
  <2>4. CASE CloserWriteFails
    BY <1>0, <2>4 DEF CloserWriteFails, WriteReturns
  <2>5. CASE ConcludeReturns
    BY <1>0, <2>5 DEF ConcludeReturns, CloserStays, NoConclude
  <2>6. CASE ReaderCancel
    BY <1>0, <2>6 DEF ReaderCancel, CloserStays
  <2>7. CASE CloserReturns
    BY <1>0, <2>7 DEF CloserReturns, CloserStays
  <2>8. CASE CloserWritten
    BY Zenon, <1>0, <2>8 DEF CloserWritten, WriteReturns
  <2>9. ASSUME NEW c \in Calls, CloserDeliver(c) PROVE Slots'
    BY <2>9 DEF CloserDeliver, CloserStays, TypeOK, CallType, TrackType, CloseType, Slots,
        Unbegun
  <2> QED
    BY Zenon, <1>6, <2>1, <2>2, <2>3, <2>4, <2>5, <2>6, <2>7, <2>8, <2>9 DEF CloserStep
<1>7. ASSUME Environment PROVE Slots'
  BY <1>0, <1>7 DEF Environment, CloseCtxEnds, LinkBreaks, CtxEnds
<1>8. CASE UNCHANGED vars
  BY <1>0, <1>8 DEF vars
<1> QED
  BY <1>1, <1>2, <1>3, <1>4, <1>5, <1>6, <1>7, <1>8 DEF Next, Terminated

\* An answer reaches only a call with the invoke ID of the request it answers.
LEMMA AnswerStep == TypeOK /\ Control /\ Slots /\ Answers /\ [Next]_vars => Answers'
<1> SUFFICES ASSUME TypeOK, Control, Slots, Answers, [Next]_vars PROVE Answers'
  OBVIOUS
<1> USE CallsAssumption, MaxIDAssumption DEF callVars, writeVars, trackVars, linkVars, readerVars,
    closeVars
<1>0. ASSUME UNCHANGED <<pc, id, res, chan, wpc, done, readerHeld, closerHeld>>,
             reader = "done" => reader' = "done"
      PROVE Answers'
  BY <1>0 DEF Answers
<1>1. ASSUME NEW c \in Calls, Caller(c) PROVE Answers'
  <2>1. CASE NextID(c)
    BY SMTT(20), <2>1 DEF NextID, After, Goto, TypeOK, CallType, Control, Slots, Answers, Unbegun
  <2>2. CASE CheckClosed(c)
    BY SMTT(20), SMTT(30), <2>2 DEF CheckClosed, Goto, Leave, TypeOK, CallType, Control, Answers,
        Unbegun
  <2>3. CASE AllocateWithID(c)
    <3>0. pc[c] = "register" /\ UNCHANGED <<id, chan, done, reader, readerHeld, closerHeld>>
      BY <2>3 DEF AllocateWithID
    <3>1. CASE UNCHANGED wpc /\ \E r \in {"ctx", "dup"} : Leave(c, "return", r)
      BY SMTT(20), <3>0, <3>1 DEF Leave, TypeOK, CallType, Control, Answers, Unbegun
    <3>2. CASE wpc' = [wpc EXCEPT ![c] = "lock"] /\ Goto(c, "send")
      BY SMTT(20), <3>0, <3>2 DEF Goto, TypeOK, CallType, WriteType, Control, Answers, Unbegun
    <3> QED
      BY Zenon, <2>3, <3>1, <3>2 DEF AllocateWithID
  <2>4. CASE SendReturns(c)
    BY <2>4 DEF SendReturns, Goto, Leave, TypeOK, CallType, Control, Answers, Unbegun
  <2>5. CASE SendCtxDone(c)
    BY SMTT(20), <2>5 DEF SendCtxDone, Leave, Abandon, Answers, Unbegun
  <2>6. CASE WaitResponse(c)
    BY <2>6 DEF WaitResponse, Leave, Control, Answers, Unbegun
  <2>7. CASE WaitCtxDone(c)
    BY SMTT(20), <2>7 DEF WaitCtxDone, Leave, Answers, Unbegun
  <2>8. CASE WaitReaderDone(c)
    BY SMTT(20), SMTT(30), <2>8 DEF WaitReaderDone, Leave, NoResponse, Control, Answers, Unbegun
  <2>9. CASE Cancel(c)
    BY <2>9 DEF Cancel, Leave, Lookup, Delete, TypeOK, CallType, Control, Answers, Unbegun
  <2> QED
    BY Zenon, <1>1, <2>1, <2>2, <2>3, <2>4, <2>5, <2>6, <2>7, <2>8, <2>9 DEF Caller
<1>2. ASSUME NEW c \in Calls, Writer(c) PROVE Answers'
  <2>1. CASE SendLock(c)
    BY SMTT(20), <2>1 DEF SendLock, SendMuFree, TypeOK, CallType, WriteType, Answers, Unbegun
  <2>2. CASE SendWritten(c)
    BY <2>2 DEF SendWritten, Answers, Unbegun
  <2>3. CASE SendFailed(c)
    BY <2>3 DEF SendFailed, Answers, Unbegun
  <2> QED
    BY Zenon, <1>2, <2>1, <2>2, <2>3 DEF Writer
<1>3. ASSUME ReaderStep PROVE Answers'
  <2>1. CASE Receive
    BY <1>0, <2>1 DEF Receive
  <2>2. CASE ReceiveFails
    BY <1>0, <2>2 DEF ReceiveFails
  <2>3. CASE ReaderDelivered
    BY Zenon, <1>0, <2>3 DEF ReaderDelivered
  <2>4. CASE StopReader
    BY <2>4 DEF StopReader, TakeAll, Answers, Unbegun
  <2>5. CASE ReaderExit
    BY Zenon, <1>0, <2>5 DEF ReaderExit
  <2>6. ASSUME NEW c \in Calls, ReaderDeliver(c) PROVE Answers'
    BY <2>6 DEF ReaderDeliver, Answers, Unbegun
  <2> QED
    BY <1>3, <2>1, <2>2, <2>3, <2>4, <2>5, <2>6 DEF ReaderStep
<1>4. ASSUME PeerSends \/ HandlerReturns PROVE Answers'
  <2>1. CASE HandlerReturns
    BY <1>0, <2>1 DEF HandlerReturns
  <2>2. CASE ReceiveUnusable
    BY <1>0, <2>2 DEF ReceiveUnusable
  <2>3. CASE DispatchUnconfirmed
    BY <1>0, <2>3 DEF DispatchUnconfirmed
  <2>4. CASE ReceiveConclude
    BY <1>0, <2>4 DEF ReceiveConclude
  <2>5. ASSUME NEW c \in Calls, DispatchConfirmed(c) PROVE Answers'
    <3>1. CASE Lookup(id[c]) = "none"
      BY Zenon, <1>0, <2>5, <3>1 DEF DispatchConfirmed
    <3>2. CASE Lookup(id[c]) # "none"
      <4>1. id[c] \in IDs /\ pending[id[c]] \in Calls
        BY <2>5, <3>2 DEF DispatchConfirmed, Lookup, TypeOK, CallType, TrackType, LinkType, Control,
            Unbegun
      <4>2. PICK d \in Calls : d = pending[id[c]]
        BY SMTT(20), <4>1
      <4>3. id[d] = id[c] /\ chan[d] = "empty"
        BY SMTT(20), SMTT(30), <4>1, <4>2 DEF Slots
      <4>4. readerHeld' = [readerHeld EXCEPT ![d] = c] /\ reader = "read" /\ reader' = "deliver"
        BY ZenonT(30), <2>5, <3>2, <4>2 DEF DispatchConfirmed, Lookup
      <4>5. UNCHANGED <<pc, id, res, chan, wpc, done, closerHeld>>
        BY <2>5 DEF DispatchConfirmed
      <4>6. c \in owed
        BY Zenon, <2>5 DEF DispatchConfirmed
      <4>7. pc[c] # "idle"
        BY Zenon, <4>6 DEF Control, Unbegun
      <4> QED
        BY SMTT(20), SMTT(30), <4>3, <4>4, <4>5, <4>7 DEF Answers, TypeOK, ReaderType
    <3> QED
      BY <3>1, <3>2
  <2>6. ASSUME NEW c \in Calls, DispatchNoInvokeID(c) PROVE Answers'
    BY SMTT(20), <2>6 DEF DispatchNoInvokeID, Answers, Unbegun
  <2> QED
    BY <1>4, <2>1, <2>2, <2>3, <2>4, <2>5, <2>6 DEF PeerSends
<1>5. ASSUME Close \/ Abort \/ AbortTimer PROVE Answers'
  BY <1>0, <1>5 DEF Close, Abort, AbortTimer
<1>6. ASSUME CloserStep \/ CloserWritten PROVE Answers'
  <2>1. CASE CloseCancelAll
    BY <2>1 DEF CloseCancelAll, TakeAll, CloserStays, Answers, Unbegun
  <2>2. CASE CloserDelivered
    BY <1>0, <2>2 DEF CloserDelivered, CloserStays
  <2>3. CASE CloserLock
    BY <1>0, <2>3 DEF CloserLock, SendMuFree, WriteReturns, CloserStays
  <2>4. CASE CloserWriteFails
    BY Zenon, <1>0, <2>4 DEF CloserWriteFails, WriteReturns
  <2>5. CASE ConcludeReturns
    BY <1>0, <2>5 DEF ConcludeReturns, CloserStays, NoConclude
  <2>6. CASE ReaderCancel
    BY <1>0, <2>6 DEF ReaderCancel, CloserStays
  <2>7. CASE CloserReturns
    BY <1>0, <2>7 DEF CloserReturns, CloserStays
  <2>8. CASE CloserWritten
    BY Zenon, <1>0, <2>8 DEF CloserWritten, WriteReturns
  <2>9. ASSUME NEW c \in Calls, CloserDeliver(c) PROVE Answers'
    BY SMTT(20), <2>9 DEF CloserDeliver, CloserStays, Answers, Unbegun
  <2> QED
    BY Zenon, <1>6, <2>1, <2>2, <2>3, <2>4, <2>5, <2>6, <2>7, <2>8, <2>9 DEF CloserStep
<1>7. ASSUME Environment PROVE Answers'
  BY <1>0, <1>7 DEF Environment, CloseCtxEnds, LinkBreaks, CtxEnds
<1>8. CASE UNCHANGED vars
  BY <1>0, <1>8 DEF vars
<1> QED
  BY <1>1, <1>2, <1>3, <1>4, <1>5, <1>6, <1>7, <1>8 DEF Next, Terminated

\* A client that has just associated satisfies the invariant.
LEMMA InitIInv == Init => IInv
<1> SUFFICES ASSUME Init PROVE IInv
  OBVIOUS
<1> USE CallsAssumption, MaxIDAssumption DEF Init, NoEntries
<1>1. TypeOK
  <2>1. CallType /\ WriteType
    BY DEF CallType, WriteType
  <2>2. TrackType
    BY DEF TrackType
  <2>3. LinkType
    BY Zenon DEF LinkType
  <2>4. ReaderType /\ CloseType
    BY Zenon DEF ReaderType, CloseType
  <2> QED
    BY <2>1, <2>2, <2>3, <2>4 DEF TypeOK
<1>2. Control
  BY Zenon DEF Control, Unbegun
<1>3. Slots
  BY DEF Slots, Unbegun
<1>4. Answers
  BY DEF Answers
<1> QED
  BY <1>1, <1>2, <1>3, <1>4 DEF IInv

\* The invariant holds in every reachable state of the client.
LEMMA Inductive == Spec => []IInv
<1>1. IInv /\ [Next]_vars => IInv'
  BY TypeStep, ControlStep, SlotStep, AnswerStep DEF IInv
<1> QED
  BY InitIInv, <1>1, PTL DEF Spec

-----------------------------------------------------------------------------
(* The theorems *)

\* Type correctness of the client, and that NextID never hands out 0.
THEOREM TypeCorrect == Spec => []TypeOK
BY Inductive, PTL DEF IInv

\* sendMu keeps the detached request writes, the conclude and the abort PDU
\* apart on the transport.
THEOREM WritesExclusive == Spec => []WriteMutex
<1>1. IInv => WriteMutex
  BY SMTT(20), CallsAssumption DEF IInv, Control, WriteMutex
<1> QED
  BY <1>1, Inductive, PTL

\* Complete, Cancel and the CancelAlls of the reader, Close and Abort send
\* exactly once on each response channel, so none of them blocks.
THEOREM DeliveredOnce == Spec => []ExactlyOneDelivery
<1>1. IInv => ExactlyOneDelivery
  <2>1. IInv => \A c \in Calls : pc[c] # "idle" => id[c] \in IDs
    BY DEF IInv, TypeOK, CallType
  <2> QED
    BY ZenonT(30), <2>1 DEF IInv, Slots, Registered, ExactlyOneDelivery
<1> QED
  BY <1>1, Inductive, PTL

\* dispatchConfirmed never gives a call the answer to another invoke ID.
THEOREM AnswersMatch == Spec => []AnswerMatches
<1>1. IInv => AnswerMatches
  BY SMTT(20) DEF IInv, Answers, AnswerMatches
<1> QED
  BY <1>1, Inductive, PTL

\* As long as the counter has not wrapped onto an ID in use, each call gets
\* only the answer to its own request.
THEOREM OwnAnswer ==
  Spec => []((\A c, d \in Calls : id[c] = id[d] => c = d \/ id[c] = 0) =>
               \A c \in Calls : res[c] \in Calls => res[c] = c)
<1>1. IInv => ((\A c, d \in Calls : id[c] = id[d] => c = d \/ id[c] = 0) =>
                 \A c \in Calls : res[c] \in Calls => res[c] = c)
  <2> SUFFICES ASSUME IInv, \A c, d \in Calls : id[c] = id[d] => c = d \/ id[c] = 0,
                      NEW c \in Calls, NEW d \in Calls, res[c] = d
               PROVE c = d
    OBVIOUS
  <2>1. id[c] = id[d] /\ pc[d] # "idle"
    BY DEF IInv, Answers
  <2>2. id[d] # 0
    BY <2>1, MaxIDAssumption DEF IInv, TypeOK, CallType, IDs
  <2> QED
    BY Zenon, <2>1, <2>2
<1> QED
  BY <1>1, Inductive, PTL

\* A request whose write had not started when its caller gave up is skipped.
THEOREM AbandonedSkipped == Spec => []AbandonedNeverWritten
<1>1. IInv => AbandonedNeverWritten
  BY SMTT(20) DEF IInv, Control, AbandonedNeverWritten
<1> QED
  BY <1>1, Inductive, PTL

\* What goes out on the transport is well ordered and wanted, in states of
\* their types.
THEOREM WritesSafe == Spec => []WritesInv
BY TypeCorrect, WritesExclusive, AbandonedSkipped, PTL DEF WritesInv

\* No entry of the tracker outlives its call.
THEOREM EntriesReleased == Spec => []NoLeakedEntry
<1>1. IInv => NoLeakedEntry
  BY ZenonT(30) DEF IInv, Slots, NoLeakedEntry, Registered
<1> QED
  BY <1>1, Inductive, PTL

\* The inner selects of doConfirmed and conclude leave no answer behind.
THEOREM NothingLost == Spec => []NotLostAtExit
<1>1. IInv => NotLostAtExit
  BY DEF IInv, Control, Answers, NotLostAtExit, AnswerNotLost, ConcludeNotLost
<1> QED
  BY <1>1, Inductive, PTL

=============================================================================
