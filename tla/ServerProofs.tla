---------------------------- MODULE ServerProofs ----------------------------
(***************************************************************************)
(* Proofs about the associations of a server, for any set of connections,  *)
(* any number of requests and any choice of the application's operations.  *)
(* Besides the types the inductive invariant has three parts.  Locks says  *)
(* who holds sendMu and busy; Leaving follows Shutdown through the         *)
(* registry to the last association; Reports follows one Broadcast through *)
(* its snapshot and the detached writes it leaves behind.                  *)
(***************************************************************************)
EXTENDS Server, TLAPS

\* A leaf that names no prover is tried with Z3, with Zenon, and with Z3 for longer.
USE SMT, Zenon, SMTT(20)

\* sendMu and busy are held by exactly those whose control points say so; a
\* report is written only after the CompareAndSwap from pending.
Locked(k) ==
  /\ sp[k] = "write" <=> sendMu[k] = "serve"
  /\ w[k] = "write" <=> sendMu[k] = "report"
  /\ \A a \in Aborters : g[a][k] = "write" <=> sendMu[k] = a
  /\ w[k] = "write" => state[k] = "writing"
  /\ sp[k] = "dispatch" => busy[k] = "serve"
  /\ granted[k] /\ g["shutdown"][k] # "exit" => busy[k] = "shutdown"
  /\ g["shutdown"][k] \in {"none", "acquire"} => ~granted[k]

Locks == \A k \in Conns : Locked(k)

\* Every association in the registry when Shutdown took its copy has its
\* goroutine, none came later, and a goroutine exits only when its association
\* is closed.
Left(k) ==
  /\ shut = "idle" => g["shutdown"][k] = "none"
  /\ shutdown /\ k \in conns => g["shutdown"][k] # "none"
  /\ g["shutdown"][k] = "exit" => scClosed[k] \/ link[k] = "closed"
  /\ shut = "return" => g["shutdown"][k] \in {"none", "exit"}

Leaving == (shutdown <=> shut # "idle") /\ \A k \in Conns : Left(k)

\* A Broadcast starts at most one detached write per association, and goes on
\* from one only when it has finished, has failed with its transport, or need
\* not be made.
Reported(k) ==
  /\ bc = "idle" => w[k] = "none"
  /\ bc # "send" /\ k \in todo => w[k] = "none"
  /\ \A j \in todo : k \in todo /\ w[j] # "none" /\ w[k] # "none" => j = k
  /\ done[k] # "empty" => w[k] = "exit"
  /\ done[k] = "err" => link[k] # "up"
  /\ bctx = "live" /\ k \in snapshot \ todo => done[k] = "nil" \/ scClosed[k] \/ link[k] # "up"

Reports == (bc = "return" => todo = {}) /\ \A k \in Conns : Reported(k)

IInv == TypeOK /\ Locks /\ Leaving /\ Reports

-----------------------------------------------------------------------------
(* Each part of the invariant is preserved *)

\* The Serve goroutines keep their types.
LEMMA ServeTypeStep == TypeOK /\ [Next]_vars => ServeType'
<1> SUFFICES ASSUME TypeOK, [Next]_vars PROVE ServeType'
  OBVIOUS
<1> USE DEF TypeOK, serveVars
<1>1. ASSUME NEW k \in Conns, ServeStep(k) PROVE ServeType'
  BY ZenonT(30), <1>1 DEF ServeType, ServeStep, Start, RegisterConn, ReceiveFails, HandlerBegins,
     SendDataLock,
     SendDataCtxDone, SendDataFails, MarkClosed, UnregisterConn, Goto
<1>2. ASSUME NEW k \in Conns, PeerStep(k) \/ HandlerReturns(k) PROVE ServeType'
  <2>1. CASE ReceiveRequest(k)
    BY <2>1, MaxReqsAssumption DEF ServeType, ReceiveRequest, Goto
  <2>2. CASE ReceiveOther(k)
    BY <2>2, MaxReqsAssumption DEF ServeType, ReceiveOther, Goto
  <2>3. CASE SendDataWritten(k) \/ HandleRelease(k) \/ HandlerReturns(k)
    BY <2>3 DEF ServeType, SendDataWritten, HandleRelease, HandlerReturns, Goto
  <2>4. CASE AssociateSucceeds(k) \/ AssociateFails(k) \/ Refuse(k)
    BY <2>4 DEF ServeType, AssociateSucceeds, AssociateFails, Refuse, Goto
  <2> QED
    BY <1>2, <2>1, <2>2, <2>3, <2>4 DEF ServeType, PeerStep, ReportWritten, SendAbortReturns
<1>3. CASE Shutdown \/ ServeCtxEnds
  BY ZenonT(30), <1>3 DEF ServeType, Shutdown, ServeCtxEnds
<1>4. CASE UNCHANGED serveVars
  BY Zenon, <1>4 DEF ServeType
<1>5. ASSUME Broadcast \/ BroadcastStep \/ ShutdownReturns \/ ShutCtxEnds \/ BroadcastCtxEnds \/ Terminated
      PROVE  UNCHANGED serveVars
  BY Zenon, <1>5 DEF Broadcast, BroadcastStep, BroadcastNext, BroadcastReturns,
     SendUnconfirmedReturns, SendUnconfirmedCtxDone, ShutdownReturns, ShutCtxEnds,
     BroadcastCtxEnds, Terminated, vars
<1>6. ASSUME NEW k \in Conns, NEW a \in Aborters, AbortStep(a, k) \/ AbortTimeout(a, k)
      PROVE  UNCHANGED serveVars
  BY Zenon, <1>6 DEF AbortStep, AbortClosed, AbortOpen, SendAbortLock, CloseAborted, AbortTimeout
<1>7. ASSUME NEW k \in Conns, ShutdownStep(k) \/ AppAborts(k) PROVE UNCHANGED serveVars
  BY Zenon, <1>6, <1>7 DEF ShutdownStep, AcquireBusy, AcquireCtxDone, AppAborts, Aborters
<1>8. ASSUME NEW k \in Conns, SendReport(k) \/ ReportStep(k) \/ CancelServe(k) \/ LinkBreaks(k)
      PROVE  UNCHANGED serveVars
  BY Zenon, <1>8 DEF SendReport, ReportStep, ReportLock, ReportFails, CancelServe, LinkBreaks
<1>9. CASE UNCHANGED vars
  BY Zenon, <1>4, <1>9 DEF vars
<1> HIDE DEF serveVars, TypeOK
<1> QED
  BY Zenon, <1>1, <1>2, <1>3, <1>4, <1>5, <1>6, <1>7, <1>8, <1>9 DEF Next, Aborters

\* So do the locks and the transports.
LEMMA LockTypeStep == TypeOK /\ [Next]_vars => LockType'
<1> SUFFICES ASSUME TypeOK, [Next]_vars PROVE LockType'
  OBVIOUS
<1> USE DEF TypeOK, lockVars
<1>1. ASSUME NEW k \in Conns, ServeStep(k) \/ HandlerReturns(k) PROVE LockType'
  BY <1>1 DEF LockType, ServeStep, Start, RegisterConn, ReceiveFails, HandlerBegins, SendDataLock,
     SendDataCtxDone, SendDataFails, MarkClosed, UnregisterConn, HandlerReturns
<1>2. ASSUME NEW k \in Conns, PeerStep(k) PROVE LockType'
  BY <1>2 DEF LockType, PeerStep, ReceiveRequest, ReceiveOther, AssociateSucceeds, AssociateFails,
     Refuse, SendDataWritten, HandleRelease, ReportWritten, SendAbortReturns
<1>3. ASSUME NEW k \in Conns, NEW a \in Aborters, AbortStep(a, k) \/ AbortTimeout(a, k)
      PROVE  LockType'
  BY <1>3 DEF LockType, AbortStep, AbortClosed, AbortOpen, SendAbortLock, CloseAborted,
     AbortTimeout, ReleaseBusy
<1>4. ASSUME NEW k \in Conns, AcquireBusy(k) \/ ReportStep(k) \/ CancelServe(k) \/ LinkBreaks(k)
      PROVE  LockType'
  BY <1>4 DEF LockType, AcquireBusy, ReportStep, ReportLock, ReportFails, CancelServe, LinkBreaks
<1>5. CASE UNCHANGED lockVars
  BY SMTT(20), <1>5 DEF LockType
<1> QED
  BY <1>1, <1>2, <1>3, <1>4, <1>5 DEF Next, Aborters, ShutdownStep, AcquireCtxDone, AppAborts,
     SendReport, Shutdown, ShutdownReturns, Broadcast, BroadcastStep, BroadcastNext,
     BroadcastReturns, SendUnconfirmedReturns, SendUnconfirmedCtxDone, ServeCtxEnds, ShutCtxEnds,
     BroadcastCtxEnds, Terminated, vars

\* So do Shutdown and the aborts.
LEMMA ShutTypeStep == TypeOK /\ [Next]_vars => ShutType'
<1> SUFFICES ASSUME TypeOK, [Next]_vars PROVE ShutType'
  OBVIOUS
<1> USE DEF TypeOK, shutVars
<1>1. ASSUME NEW k \in Conns, NEW a \in Aborters,
             AbortStep(a, k) \/ AbortTimeout(a, k) \/ SendAbortReturns(a, k)
      PROVE  ShutType'
  BY <1>1 DEF ShutType, AbortStep, AbortClosed, AbortOpen, SendAbortLock, CloseAborted,
     AbortTimeout, SendAbortReturns
<1>2. ASSUME NEW k \in Conns, AcquireBusy(k) \/ AcquireCtxDone(k) \/ AppAborts(k) PROVE ShutType'
  <2>1. {"shutdown", "app"} \subseteq Aborters
    BY DEF Aborters
  <2>2. CASE AcquireBusy(k)
    BY <2>1, <2>2 DEF ShutType, AcquireBusy
  <2>3. CASE AcquireCtxDone(k)
    BY <2>1, <2>3 DEF ShutType, AcquireCtxDone
  <2>4. CASE AppAborts(k)
    BY <2>1, <2>4 DEF ShutType, AppAborts
  <2> QED
    BY <1>2, <2>2, <2>3, <2>4
<1>3. CASE Shutdown \/ ShutdownReturns \/ ShutCtxEnds
  BY <1>3 DEF ShutType, Shutdown, ShutdownReturns, ShutCtxEnds, Aborters
<1>4. CASE UNCHANGED shutVars
  BY <1>4 DEF ShutType
<1>5. ASSUME NEW k \in Conns, ServeStep(k) \/ HandlerReturns(k) PROVE UNCHANGED shutVars
  BY Zenon, <1>5 DEF ServeStep, Start, RegisterConn, ReceiveFails, HandlerBegins, SendDataLock,
     SendDataCtxDone, SendDataFails, MarkClosed, UnregisterConn, HandlerReturns
<1>6. ASSUME NEW k \in Conns, PeerStep(k) PROVE UNCHANGED shutVars \/ ShutType'
  BY Zenon, <1>1, <1>6 DEF PeerStep, AssociateSucceeds, AssociateFails, Refuse, ReceiveRequest,
     ReceiveOther, SendDataWritten, HandleRelease, ReportWritten
<1>7. ASSUME NEW k \in Conns, SendReport(k) \/ ReportStep(k) \/ CancelServe(k) \/ LinkBreaks(k)
      PROVE  UNCHANGED shutVars
  BY Zenon, <1>7 DEF SendReport, ReportStep, ReportLock, ReportFails, CancelServe, LinkBreaks
<1>8. ASSUME Broadcast \/ BroadcastStep \/ ServeCtxEnds \/ BroadcastCtxEnds \/ Terminated
      PROVE  UNCHANGED shutVars
  BY Zenon, <1>8 DEF Broadcast, BroadcastStep, BroadcastNext, BroadcastReturns,
     SendUnconfirmedReturns, SendUnconfirmedCtxDone, ServeCtxEnds, BroadcastCtxEnds, Terminated, vars
<1>9. CASE UNCHANGED vars
  BY Zenon, <1>4, <1>9 DEF vars
<1> HIDE DEF shutVars, TypeOK
<1> QED
  BY Zenon, <1>1, <1>2, <1>3, <1>4, <1>5, <1>6, <1>7, <1>8, <1>9 DEF Next, Aborters, ShutdownStep

\* So do Broadcast and the detached writes.
LEMMA ReportTypeStep == TypeOK /\ [Next]_vars => ReportType'
<1> SUFFICES ASSUME TypeOK, [Next]_vars PROVE ReportType'
  OBVIOUS
<1> USE DEF TypeOK, reportVars
<1>1. ASSUME NEW k \in Conns,
             ReportLock(k) \/ ReportWritten(k) \/ ReportFails(k) \/ BroadcastNext(k)
      PROVE  ReportType'
  BY <1>1 DEF ReportType, ReportLock, ReportWritten, ReportFails, BroadcastNext, Rest
<1>2. ASSUME NEW k \in Conns,
             SendReport(k) \/ SendUnconfirmedReturns(k) \/ SendUnconfirmedCtxDone(k)
      PROVE  ReportType'
  BY <1>2 DEF ReportType, SendReport, SendUnconfirmedReturns, SendUnconfirmedCtxDone, Abandon,
     AfterSend, Rest
<1>3. CASE Broadcast \/ BroadcastReturns \/ BroadcastCtxEnds
  BY <1>3 DEF ReportType, ServeType, Broadcast, BroadcastReturns, BroadcastCtxEnds
<1>4. CASE UNCHANGED reportVars
  BY <1>4 DEF ReportType
<1>5. ASSUME NEW k \in Conns, ServeStep(k) \/ HandlerReturns(k) PROVE ReportType'
  BY <1>4, <1>5 DEF ServeStep, Start, RegisterConn, ReceiveFails, HandlerBegins, SendDataLock,
     SendDataCtxDone, SendDataFails, MarkClosed, UnregisterConn, HandlerReturns
<1>6. ASSUME NEW k \in Conns, PeerStep(k) PROVE ReportType'
  BY <1>1, <1>4, <1>6 DEF PeerStep, AssociateSucceeds, AssociateFails, Refuse, ReceiveRequest,
     ReceiveOther, SendDataWritten, HandleRelease, SendAbortReturns
<1> QED
  BY ZenonT(30), <1>1, <1>2, <1>3, <1>4, <1>5, <1>6 DEF Next, ShutdownStep, AcquireBusy,
     AcquireCtxDone,
     AppAborts, AbortStep, AbortClosed, AbortOpen, SendAbortLock, CloseAborted, AbortTimeout,
     ReportStep, CancelServe, LinkBreaks, BroadcastStep, Shutdown, ShutdownReturns, ServeCtxEnds,
     ShutCtxEnds, Terminated, vars

\* The state keeps its types.
LEMMA TypeStep == TypeOK /\ [Next]_vars => TypeOK'
  BY SMTT(20), ServeTypeStep, LockTypeStep, ShutTypeStep, ReportTypeStep DEF TypeOK

-----------------------------------------------------------------------------

\* The holders of sendMu and of busy stay those whose control points say so.
LEMMA LocksStep == IInv /\ [Next]_vars => Locks'
<1> SUFFICES ASSUME IInv, [Next]_vars, NEW j \in Conns PROVE Locked(j)'
  BY DEF Locks
<1>0. Locked(j) /\ Left(j) /\ Reported(j)
  BY DEF IInv, Locks, Leaving, Reports
<1> DEFINE lockedVars == <<sp, sendMu, w, g, state, busy, granted>>
<1> USE DEF IInv, TypeOK, ServeType, LockType, ShutType, ReportType, serveVars, lockVars, shutVars, reportVars
<1>1. ASSUME NEW k \in Conns, ServeStep(k) \/ HandlerReturns(k) PROVE Locked(j)'
  <2>1. CASE Start(k) \/ RegisterConn(k) \/ ReceiveFails(k) \/ SendDataCtxDone(k)
    BY <1>0, <2>1 DEF Locked, Start, RegisterConn, ReceiveFails, SendDataCtxDone, Goto
  <2>2. CASE HandlerBegins(k) \/ HandlerReturns(k)
    BY <1>0, <2>2 DEF Locked, HandlerBegins, HandlerBusy, HandlerReturns, Goto
  <2>3. CASE SendDataLock(k)
    BY <1>0, <2>3 DEF Locked, SendDataLock, SendMuFree, Goto, Aborters
  <2>4. CASE SendDataFails(k)
    BY <1>0, <2>4 DEF Locked, SendDataFails, Goto, Aborters
  <2>5. CASE MarkClosed(k) \/ UnregisterConn(k)
    BY <1>0, <2>5 DEF Locked, MarkClosed, UnregisterConn, Goto
  <2> QED
    BY <1>1, <2>1, <2>2, <2>3, <2>4, <2>5 DEF ServeStep
<1>2. ASSUME NEW k \in Conns, PeerStep(k) PROVE Locked(j)'
  <2>1. CASE AssociateSucceeds(k) \/ AssociateFails(k) \/ Refuse(k) \/ HandleRelease(k)
    BY <1>0, <2>1 DEF Locked, AssociateSucceeds, AssociateFails, Refuse, HandleRelease, Goto
  <2>2. CASE ReceiveRequest(k) \/ ReceiveOther(k)
    BY <1>0, <2>2 DEF Locked, ReceiveRequest, ReceiveOther, Goto
  <2>3. CASE SendDataWritten(k)
    BY <1>0, <2>3 DEF Locked, SendDataWritten, Goto, Aborters
  <2>4. CASE ReportWritten(k)
    BY <1>0, <2>4 DEF Locked, ReportWritten, Aborters
  <2>5. CASE \E a \in Aborters : SendAbortReturns(a, k)
    BY <1>0, <2>5 DEF Locked, SendAbortReturns, Aborters
  <2> QED
    BY <1>2, <2>1, <2>2, <2>3, <2>4, <2>5 DEF PeerStep
<1>3. ASSUME NEW k \in Conns, NEW a \in Aborters, AbortStep(a, k) PROVE Locked(j)'
  <2>1. CASE AbortClosed(a, k)
    BY <1>0, <2>1 DEF Locked, AbortClosed, ReleaseBusy, Aborters
  <2>2. CASE AbortOpen(a, k)
    BY <1>0, <2>2 DEF Locked, AbortOpen, Aborters
  <2>3. CASE SendAbortLock(a, k)
    BY <1>0, <2>3 DEF Locked, SendAbortLock, SendMuFree, Aborters
  <2>4. CASE CloseAborted(a, k)
    BY <1>0, <2>4 DEF Locked, CloseAborted, ReleaseBusy, Aborters
  <2> QED
    BY <1>3, <2>1, <2>2, <2>3, <2>4 DEF AbortStep
<1>4. ASSUME NEW k \in Conns, AcquireBusy(k) \/ AcquireCtxDone(k) \/ AppAborts(k) PROVE Locked(j)'
  <2>1. CASE AcquireBusy(k)
    BY <1>0, <2>1 DEF Locked, AcquireBusy, Aborters
  <2>2. CASE AcquireCtxDone(k)
    BY <1>0, <2>2 DEF Locked, AcquireCtxDone, Aborters
  <2>3. CASE AppAborts(k)
    BY <1>0, <2>3 DEF Locked, AppAborts, Aborters
  <2> QED
    BY <1>4, <2>1, <2>2, <2>3
<1>5. CASE Shutdown
  BY <1>0, <1>5 DEF Locked, Left, Shutdown, Aborters
<1>6. ASSUME NEW k \in Conns, ReportStep(k) PROVE Locked(j)'
  <2>1. CASE ReportLock(k)
    BY <1>0, <2>1 DEF Locked, ReportLock, SendMuFree, Aborters
  <2>2. CASE ReportFails(k)
    BY <1>0, <2>2 DEF Locked, ReportFails, Aborters
  <2> QED
    BY <1>6, <2>1, <2>2 DEF ReportStep
<1>7. CASE BroadcastStep
  <2>1. ASSUME NEW k \in Conns, BroadcastNext(k) PROVE Locked(j)'
    BY <1>0, <2>1 DEF Locked, Reported, BroadcastNext
  <2>2. ASSUME NEW k \in Conns, SendUnconfirmedCtxDone(k) PROVE Locked(j)'
    BY <1>0, <2>2 DEF Locked, SendUnconfirmedCtxDone, Abandon
  <2>3. CASE BroadcastReturns \/ \E k \in Conns : SendUnconfirmedReturns(k)
    BY <1>0, <2>3 DEF Locked, BroadcastReturns, SendUnconfirmedReturns
  <2> QED
    BY <1>7, <2>1, <2>2, <2>3 DEF BroadcastStep
<1>8. CASE UNCHANGED lockedVars
  BY SMTT(20), <1>0, <1>8 DEF Locked
<1> QED
  BY ZenonT(30), <1>1, <1>2, <1>3, <1>4, <1>5, <1>6, <1>7, <1>8 DEF Next, Aborters, ShutdownStep,
     AbortTimeout,
     SendReport, CancelServe, LinkBreaks, Broadcast, ShutdownReturns, ServeCtxEnds, ShutCtxEnds,
     BroadcastCtxEnds, Terminated, vars

\* Shutdown forgets no association.
LEMMA LeavingStep == IInv /\ [Next]_vars => Leaving'
<1> SUFFICES ASSUME IInv, [Next]_vars PROVE Leaving'
  OBVIOUS
<1>0. TypeOK /\ Leaving
  BY DEF IInv
<1> DEFINE leavingVars == <<shutdown, shut, conns, g, scClosed, link>>
<1> USE DEF TypeOK, ServeType, LockType, ShutType, serveVars, lockVars, shutVars
<1>1. ASSUME NEW k \in Conns, ServeStep(k) PROVE Leaving'
  <2>1. CASE RegisterConn(k)
    BY <1>0, <2>1 DEF Leaving, Left, RegisterConn, Admitted
  <2>2. CASE MarkClosed(k) \/ UnregisterConn(k)
    BY SMTT(20), <1>0, <2>2 DEF Leaving, Left, MarkClosed, UnregisterConn
  <2> QED
    BY <1>0, <1>1, <2>1, <2>2 DEF Leaving, Left, ServeStep, Start, ReceiveFails, HandlerBegins,
       SendDataLock, SendDataCtxDone, SendDataFails
<1>2. ASSUME NEW k \in Conns, PeerStep(k) PROVE Leaving'
  <2>1. CASE AssociateSucceeds(k) \/ AssociateFails(k) \/ Refuse(k)
    BY <1>0, <2>1 DEF Leaving, Left, AssociateSucceeds, AssociateFails, Refuse
  <2>2. CASE \E a \in Aborters : SendAbortReturns(a, k)
    BY <1>0, <2>2 DEF Leaving, Left, SendAbortReturns, Aborters
  <2> QED
    BY <1>0, <1>2, <2>1, <2>2 DEF Leaving, Left, PeerStep, ReceiveRequest, ReceiveOther,
       SendDataWritten, HandleRelease, ReportWritten
<1>3. ASSUME NEW k \in Conns, NEW a \in Aborters, AbortStep(a, k) \/ AbortTimeout(a, k) PROVE Leaving'
  <2>1. CASE AbortClosed(a, k) \/ AbortOpen(a, k) \/ SendAbortLock(a, k)
    BY <1>0, <2>1 DEF Leaving, Left, AbortClosed, AbortOpen, SendAbortLock, Aborters
  <2>2. CASE CloseAborted(a, k) \/ AbortTimeout(a, k)
    BY <1>0, <2>2 DEF Leaving, Left, CloseAborted, AbortTimeout, Aborters
  <2> QED
    BY SMTT(20), <1>3, <2>1, <2>2 DEF AbortStep
<1>4. ASSUME NEW k \in Conns, AcquireBusy(k) \/ AcquireCtxDone(k) \/ AppAborts(k) PROVE Leaving'
  BY <1>0, <1>4 DEF Leaving, Left, AcquireBusy, AcquireCtxDone, AppAborts, Aborters
<1>5. CASE Shutdown
  BY <1>0, <1>5 DEF Leaving, Left, Shutdown, Aborted, Aborters
<1>6. ASSUME NEW k \in Conns, CancelServe(k) \/ LinkBreaks(k) PROVE Leaving'
  BY <1>0, <1>6 DEF Leaving, Left, CancelServe, LinkBreaks
<1>7. CASE ShutdownReturns
  BY <1>0, <1>7 DEF Leaving, Left, ShutdownReturns
<1>8. CASE UNCHANGED leavingVars
  BY SMTT(20), <1>0, <1>8 DEF Leaving, Left
<1> QED
  BY ZenonT(30), <1>1, <1>2, <1>3, <1>4, <1>5, <1>6, <1>7, <1>8 DEF Next, Aborters, ShutdownStep,
     HandlerReturns, SendReport, ReportStep, ReportLock, ReportFails, Broadcast, BroadcastStep,
     BroadcastNext, BroadcastReturns, SendUnconfirmedReturns, SendUnconfirmedCtxDone,
     ServeCtxEnds, ShutCtxEnds, BroadcastCtxEnds, Terminated, vars

\* A Broadcast leaves no association of its snapshot out.
LEMMA ReportsStep == IInv /\ [Next]_vars => Reports'
<1> SUFFICES ASSUME IInv, [Next]_vars PROVE Reports'
  OBVIOUS
<1>0. TypeOK /\ Reports
  BY DEF IInv
<1> DEFINE reportedVars == <<scClosed, link, reportVars>>
<1> USE DEF TypeOK, ServeType, LockType, ReportType, serveVars, lockVars, reportVars
<1>1. ASSUME NEW k \in Conns, BroadcastNext(k) PROVE Reports'
  BY <1>0, <1>1 DEF Reports, Reported, BroadcastNext, Rest
<1>2. ASSUME NEW k \in Conns, SendUnconfirmedReturns(k) PROVE Reports'
  BY <1>0, <1>2 DEF Reports, Reported, SendUnconfirmedReturns, AfterSend, Rest
<1>3. ASSUME NEW k \in Conns, SendUnconfirmedCtxDone(k) PROVE Reports'
  BY <1>0, <1>3 DEF Reports, Reported, SendUnconfirmedCtxDone, Rest
<1>4. ASSUME NEW k \in Conns, ReportLock(k) PROVE Reports'
  BY <1>0, <1>4 DEF Reports, Reported, ReportLock
<1>5. ASSUME NEW k \in Conns, ReportWritten(k) \/ ReportFails(k) PROVE Reports'
  BY SMTT(20), <1>0, <1>5 DEF Reports, Reported, ReportWritten, ReportFails
<1>6. CASE Broadcast \/ BroadcastReturns \/ BroadcastCtxEnds \/ \E k \in Conns : SendReport(k)
  BY <1>0, <1>6 DEF Reports, Reported, Broadcast, BroadcastReturns, BroadcastCtxEnds, SendReport
<1>7. ASSUME UNCHANGED reportVars,
             \A k \in Conns : (scClosed[k] => scClosed'[k]) /\ (link[k] # "up" => link'[k] # "up")
      PROVE  Reports'
  BY <1>0, <1>7 DEF Reports, Reported
<1>8. ASSUME NEW k \in Conns, MarkClosed(k) \/ UnregisterConn(k) PROVE Reports'
  BY <1>0, <1>7, <1>8 DEF MarkClosed, UnregisterConn
<1>9. ASSUME NEW k \in Conns, AssociateSucceeds(k) \/ AssociateFails(k) \/ Refuse(k) PROVE Reports'
  BY <1>0, <1>7, <1>9 DEF AssociateSucceeds, AssociateFails, Refuse
<1>10. ASSUME NEW k \in Conns, CancelServe(k) \/ LinkBreaks(k)
                               \/ \E a \in Aborters : CloseAborted(a, k) \/ AbortTimeout(a, k)
       PROVE  Reports'
  BY <1>0, <1>7, <1>10 DEF CancelServe, LinkBreaks, CloseAborted, AbortTimeout
<1>11. CASE UNCHANGED reportedVars
  BY SMTT(20), <1>7, <1>11
<1>12. ASSUME NEW k \in Conns, ServeStep(k) \/ PeerStep(k) \/ HandlerReturns(k) PROVE Reports'
  BY ZenonT(30), <1>5, <1>8, <1>9, <1>11, <1>12 DEF ServeStep, Start, RegisterConn, ReceiveFails,
     HandlerBegins,
     SendDataLock, SendDataCtxDone, SendDataFails, HandlerReturns, PeerStep, ReceiveRequest,
     ReceiveOther, SendDataWritten, HandleRelease, SendAbortReturns
<1>13. ASSUME NEW k \in Conns, AcquireBusy(k) \/ AcquireCtxDone(k) \/ AppAborts(k)
       PROVE  UNCHANGED reportedVars
  BY Zenon, <1>13 DEF AcquireBusy, AcquireCtxDone, AppAborts
<1>14. ASSUME NEW k \in Conns, NEW a \in Aborters, AbortStep(a, k) \/ AbortTimeout(a, k)
       PROVE  Reports'
  BY Zenon, <1>10, <1>11, <1>14 DEF AbortStep, AbortClosed, AbortOpen, SendAbortLock
<1>15. ASSUME Shutdown \/ ShutdownReturns \/ ServeCtxEnds \/ ShutCtxEnds \/ Terminated \/ UNCHANGED vars
       PROVE  UNCHANGED reportedVars
  BY Zenon, <1>15 DEF Shutdown, ShutdownReturns, ServeCtxEnds, ShutCtxEnds, Terminated, vars, shutVars
<1> HIDE DEF reportedVars, TypeOK, ServeType, LockType, ReportType
<1> QED
  BY Zenon, <1>1, <1>2, <1>3, <1>4, <1>5, <1>6, <1>10, <1>11, <1>12, <1>13, <1>14, <1>15
     DEF Next, Aborters, ShutdownStep, ReportStep, BroadcastStep

-----------------------------------------------------------------------------

\* The initial state satisfies the invariant.
LEMMA InitIInv == Init => IInv
<1> SUFFICES ASSUME Init PROVE IInv
  OBVIOUS
<1>1. ServeType
  <2>1. 0 \in 0 .. MaxReqs
    BY MaxReqsAssumption
  <2>2. sp \in [Conns -> {"start"}] /\ out \in [Conns -> {"none"}] /\ reqs \in [Conns -> {0}]
    BY DEF Init
  <2> QED
    BY Zenon, <2>1, <2>2 DEF Init, ServeType
<1>2. LockType /\ ReportType
  BY DEF Init, LockType, ReportType
<1>3. ShutType
  BY DEF Init, ShutType
<1>4. Locks /\ Leaving /\ Reports
  BY DEF Init, Locks, Locked, Leaving, Left, Reports, Reported, Aborters
<1> QED
  BY <1>1, <1>2, <1>3, <1>4 DEF IInv, TypeOK

\* The invariant holds of every behaviour of the server.
LEMMA Inductive == Spec => []IInv
<1>1. IInv /\ [Next]_vars => IInv'
  <2> SUFFICES ASSUME IInv, [Next]_vars PROVE IInv'
    OBVIOUS
  <2>1. TypeOK'
    BY TypeStep DEF IInv
  <2> QED
    BY <2>1, LocksStep, LeavingStep, ReportsStep DEF IInv
<1> QED
  BY <1>1, InitIInv, PTL DEF Spec

\* Answers, reports and aborts never overlap on a transport, and a report that
\* its caller gave up before the write began is never written.
THEOREM WritesSafe == Spec => []WritesInv
<1>1. IInv => WritesInv
  <2> SUFFICES ASSUME IInv PROVE WritesInv
    OBVIOUS
  <2>1. TypeOK /\ Locks
    BY DEF IInv
  <2>2. ASSUME NEW k \in Conns PROVE Writing(k) = {sendMu[k]} \ {"nobody"}
    BY <2>1 DEF Locks, Locked, Writing, TypeOK, LockType, Aborters
  <2>3. AbandonedNeverWritten
    BY <2>1 DEF Locks, Locked, AbandonedNeverWritten
  <2> QED
    BY <2>1, <2>2, <2>3 DEF WritesInv, WriteMutex
<1> QED
  BY <1>1, Inductive, PTL

\* Shutdown aborts no association whose handler runs, unless its context has
\* ended, and when it has returned no association is left that could receive
\* another request, however late it registered.
THEOREM ShutdownSafe == Spec => []ShutdownInv
<1>1. IInv => ShutdownInv
  <2> SUFFICES ASSUME IInv PROVE ShutdownInv
    OBVIOUS
  <2>1. HandlerFinishes
    BY DEF IInv, Locks, Locked, HandlerFinishes
  <2>2. NoneLeftServing
    BY DEF IInv, Leaving, Left, NoneLeftServing
  <2> QED
    BY <2>1, <2>2 DEF ShutdownInv
<1> QED
  BY <1>1, Inductive, PTL

\* A Broadcast whose context lives to its end has written its report on every
\* association of its snapshot that is neither closed nor failed.
THEOREM BroadcastComplete == Spec => []BroadcastReachesAll
<1>1. IInv => BroadcastReachesAll
  BY Zenon DEF IInv, Reports, Reported, BroadcastReachesAll, TypeOK, ReportType
<1> QED
  BY <1>1, Inductive, PTL

=============================================================================
