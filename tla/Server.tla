------------------------------- MODULE Server -------------------------------
(***************************************************************************)
(* The server's associations: Server.Serve and serverconn.Conn.Serve for   *)
(* each connection, the unsolicited sends of Broadcast with their detached *)
(* writes, Server.Shutdown with one aborting goroutine per association,    *)
(* and the context of ListenAndServe.                                      *)
(*                                                                         *)
(* The environment: a peer associates or not, sends requests, releases,    *)
(* concludes, stalls a write for ever or drops the link; a service handler *)
(* may take for ever.                                                      *)
(***************************************************************************)
EXTENDS Naturals

CONSTANTS Conns,    \* the accepted connections
          MaxReqs,  \* bound: requests a peer sends on one association
          Ops       \* what the application does, each at most once

ASSUME MaxReqsAssumption == MaxReqs \in Nat
ASSUME OpsAssumption == Ops \subseteq {"shutdown", "abort", "broadcast", "report", "cancel"}

\* Who aborts an association: Shutdown, or the application by Abort.
Aborters == {"shutdown", "app"}

VARIABLES
  shutdown, conns, \* Server.shutdown, Server.conns (under connsMu)
  serveCtx,        \* the context of ListenAndServe and every Serve
  sp,              \* per connection: control point of its Serve goroutine
  out,             \* per connection: what that goroutine is sending
  reqs,            \* per connection: requests received
  scClosed,        \* per connection: ServerConn.closed
  busy,            \* per connection: holder of the one-slot semaphore busy
  sendMu,          \* per connection: holder of serverconn.Conn.sendMu
  link,            \* per connection: transport "up", "broken" or "closed"
  shut, shutCtx,   \* control point and context of Shutdown
  g,               \* per aborter and connection: control point of its abort
  granted,         \* per connection: Shutdown took busy
  bc, bctx,        \* control point and context of Broadcast
  snapshot, todo,  \* its snapshot of conns and what is left of it
  w, state, done   \* per connection: detached write of SendUnconfirmed

serveVars  == <<shutdown, conns, serveCtx, sp, out, reqs, scClosed>>
lockVars   == <<busy, sendMu, link>>
shutVars   == <<shut, shutCtx, g, granted>>
reportVars == <<bc, bctx, snapshot, todo, w, state, done>>
vars == <<serveVars, lockVars, shutVars, reportVars>>

\* Type correctness of the server's state.
ServeType ==
  /\ shutdown \in BOOLEAN
  /\ conns \in SUBSET Conns
  /\ serveCtx \in {"live", "done"}
  /\ sp \in [Conns -> {"start", "associate", "register", "refuse", "recv", "handle", "dispatch",
                       "respond", "write", "release", "cleanup", "unregister", "end"}]
  /\ out \in [Conns -> {"none", "answer", "reject", "conclude"}]
  /\ reqs \in [Conns -> 0 .. MaxReqs]
  /\ scClosed \in [Conns -> BOOLEAN]

LockType ==
  /\ busy \in [Conns -> {"free", "serve", "shutdown"}]
  /\ sendMu \in [Conns -> {"nobody", "serve", "report"} \cup Aborters]
  /\ link \in [Conns -> {"up", "broken", "closed"}]

ShutType ==
  /\ shut \in {"idle", "wait", "return"}
  /\ shutCtx \in {"live", "done"}
  /\ g \in [Aborters -> [Conns -> {"none", "acquire", "abort", "lock", "write", "close", "exit"}]]
  /\ granted \in [Conns -> BOOLEAN]

ReportType ==
  /\ bc \in {"idle", "next", "send", "return"}
  /\ bctx \in {"live", "done"}
  /\ snapshot \in SUBSET Conns
  /\ todo \in SUBSET snapshot
  /\ w \in [Conns -> {"none", "lock", "write", "exit"}]
  /\ state \in [Conns -> {"pending", "writing", "abandoned"}]
  /\ done \in [Conns -> {"empty", "nil", "err"}]

TypeOK == ServeType /\ LockType /\ ShutType /\ ReportType

Init ==
  /\ shutdown = FALSE
  /\ conns = {}
  /\ serveCtx = "live"
  /\ sp = [k \in Conns |-> "start"]
  /\ out = [k \in Conns |-> "none"]
  /\ reqs = [k \in Conns |-> 0]
  /\ scClosed = [k \in Conns |-> FALSE]
  /\ busy = [k \in Conns |-> "free"]
  /\ sendMu = [k \in Conns |-> "nobody"]
  /\ link = [k \in Conns |-> "up"]
  /\ shut = "idle"
  /\ shutCtx = "live"
  /\ g = [a \in Aborters |-> [k \in Conns |-> "none"]]
  /\ granted = [k \in Conns |-> FALSE]
  /\ bc = "idle"
  /\ bctx = "live"
  /\ snapshot = {}
  /\ todo = {}
  /\ w = [k \in Conns |-> "none"]
  /\ state = [k \in Conns |-> "pending"]
  /\ done = [k \in Conns |-> "empty"]

Goto(k, at) == sp' = [sp EXCEPT ![k] = at]

-----------------------------------------------------------------------------
(* Server.Serve, one goroutine per connection *)

\* isShutdown, before the association is received.
Start(k) ==
  /\ sp[k] = "start"
  /\ Goto(k, IF shutdown THEN "end" ELSE "associate")
  /\ UNCHANGED <<shutdown, conns, serveCtx, out, reqs, scClosed, lockVars, shutVars, reportVars>>

\* associate: the AARQ is received, accepted and answered, or it fails: the
\* peer sends garbage or is rejected, the transport fails, or the association
\* timeout closes the transport, which it may still do after the answer.
AssociateSucceeds(k) ==
  /\ sp[k] = "associate"
  /\ link[k] # "closed"
  /\ Goto(k, "register")
  /\ link' \in {link, [link EXCEPT ![k] = "closed"]}
  /\ UNCHANGED <<shutdown, conns, serveCtx, out, reqs, scClosed, busy, sendMu, shutVars, reportVars>>

AssociateFails(k) ==
  /\ sp[k] = "associate"
  /\ Goto(k, "end")
  /\ link' = [link EXCEPT ![k] = "closed"]
  /\ UNCHANGED <<shutdown, conns, serveCtx, out, reqs, scClosed, busy, sendMu, shutVars, reportVars>>

\* registerConn looks at shutdown again, under the lock of the registry.
Admitted_Mutant == TRUE
Admitted == ~shutdown

RegisterConn(k) ==
  /\ sp[k] = "register"
  /\ \/ /\ Admitted
        /\ conns' = conns \cup {k}
        /\ Goto(k, "recv")
     \/ /\ ~Admitted
        /\ Goto(k, "refuse")
        /\ UNCHANGED conns
  /\ UNCHANGED <<shutdown, serveCtx, out, reqs, scClosed, lockVars, shutVars, reportVars>>

\* The sc.Abort of a connection that came too late: ABRT, then close.
\* Nothing but the transport and the context of Serve bounds the write.
Refuse(k) ==
  /\ sp[k] = "refuse"
  /\ Goto(k, "end")
  /\ link' = [link EXCEPT ![k] = "closed"]
  /\ UNCHANGED <<shutdown, conns, serveCtx, out, reqs, scClosed, busy, sendMu, shutVars, reportVars>>

ReceiveFails(k) ==
  /\ sp[k] = "recv"
  /\ link[k] # "up" \/ serveCtx = "done"
  /\ Goto(k, "cleanup")
  /\ UNCHANGED <<shutdown, conns, serveCtx, out, reqs, scClosed, lockVars, shutVars, reportVars>>

\* A PDU arrives: a confirmed request; a malformed request or a cancel
\* request, answered at once; a conclude request; a session FINISH; or an
\* ABORT or undecodable data, which end Serve.  Oversize, malformed and
\* unexpected PDUs are dropped without a step.
ReceiveRequest(k) ==
  /\ sp[k] = "recv"
  /\ link[k] # "closed"
  /\ reqs[k] < MaxReqs
  /\ reqs' = [reqs EXCEPT ![k] = @ + 1]
  /\ Goto(k, "handle")
  /\ UNCHANGED <<shutdown, conns, serveCtx, out, scClosed, lockVars, shutVars, reportVars>>

ReceiveOther(k) ==
  /\ sp[k] = "recv"
  /\ link[k] # "closed"
  /\ \/ /\ reqs[k] < MaxReqs
        /\ reqs' = [reqs EXCEPT ![k] = @ + 1]
        /\ out' = [out EXCEPT ![k] = "reject"]
        /\ Goto(k, "respond")
     \/ /\ out' = [out EXCEPT ![k] = "conclude"]
        /\ Goto(k, "respond")
        /\ UNCHANGED reqs
     \/ /\ sp' \in {[sp EXCEPT ![k] = "release"], [sp EXCEPT ![k] = "cleanup"]}
        /\ UNCHANGED <<reqs, out>>
  /\ UNCHANGED <<shutdown, conns, serveCtx, scClosed, lockVars, shutVars, reportVars>>

\* Server.handler takes busy, runs dispatch and gives busy back; only then
\* does handleConfirmedRequest send the answer.
HandlerBusy(k) == busy[k] = "free"

HandlerBegins(k) ==
  /\ sp[k] = "handle"
  /\ HandlerBusy(k)
  /\ busy' = [busy EXCEPT ![k] = "serve"]
  /\ Goto(k, "dispatch")
  /\ UNCHANGED <<shutdown, conns, serveCtx, out, reqs, scClosed, sendMu, link, shutVars, reportVars>>

HandlerReturns(k) ==
  /\ sp[k] = "dispatch"
  /\ busy' = [busy EXCEPT ![k] = "free"]
  /\ out' = [out EXCEPT ![k] = "answer"]
  /\ Goto(k, "respond")
  /\ UNCHANGED <<shutdown, conns, serveCtx, reqs, scClosed, sendMu, link, shutVars, reportVars>>

\* sendData
SendMuFree_Mutant(k) == TRUE
SendMuFree(k) == sendMu[k] = "nobody"

SendDataLock(k) ==
  /\ sp[k] = "respond"
  /\ SendMuFree(k)
  /\ serveCtx = "live"
  /\ sendMu' = [sendMu EXCEPT ![k] = "serve"]
  /\ Goto(k, "write")
  /\ UNCHANGED <<shutdown, conns, serveCtx, out, reqs, scClosed, busy, link, shutVars, reportVars>>

\* A write that has not begun when the context ends is not begun.
SendDataCtxDone(k) ==
  /\ sp[k] = "respond"
  /\ SendMuFree(k)
  /\ serveCtx = "done"
  /\ Goto(k, "cleanup")
  /\ UNCHANGED <<shutdown, conns, serveCtx, out, reqs, scClosed, lockVars, shutVars, reportVars>>

SendDataWritten(k) ==
  /\ sp[k] = "write"
  /\ link[k] # "closed"
  /\ sendMu' = [sendMu EXCEPT ![k] = "nobody"]
  /\ Goto(k, IF out[k] = "conclude" THEN "cleanup" ELSE "recv")
  /\ out' = [out EXCEPT ![k] = "none"]
  /\ UNCHANGED <<shutdown, conns, serveCtx, reqs, scClosed, busy, link, shutVars, reportVars>>

SendDataFails(k) ==
  /\ sp[k] = "write"
  /\ link[k] # "up"
  /\ sendMu' = [sendMu EXCEPT ![k] = "nobody"]
  /\ Goto(k, "cleanup")
  /\ UNCHANGED <<shutdown, conns, serveCtx, out, reqs, scClosed, busy, link, shutVars, reportVars>>

\* handleRelease answers the FINISH without sendMu; either way Serve ends.
HandleRelease(k) ==
  /\ sp[k] = "release"
  /\ Goto(k, "cleanup")
  /\ UNCHANGED <<shutdown, conns, serveCtx, out, reqs, scClosed, lockVars, shutVars, reportVars>>

\* The deferred closeAll and unregisterConn: closed is set under sc.mu, then
\* the registry entry is deleted; ListenAndServe closes the transport.
MarkClosed(k) ==
  /\ sp[k] = "cleanup"
  /\ scClosed' = [scClosed EXCEPT ![k] = TRUE]
  /\ Goto(k, "unregister")
  /\ UNCHANGED <<shutdown, conns, serveCtx, out, reqs, lockVars, shutVars, reportVars>>

UnregisterConn(k) ==
  /\ sp[k] = "unregister"
  /\ conns' = conns \ {k}
  /\ Goto(k, "end")
  /\ link' = [link EXCEPT ![k] = "closed"]
  /\ UNCHANGED <<shutdown, serveCtx, out, reqs, scClosed, busy, sendMu, shutVars, reportVars>>

-----------------------------------------------------------------------------
(* Shutdown, and ServerConn.Abort called by it or by the application *)

\* The flag is set and the registry copied in one critical section.
Aborted == conns

Shutdown ==
  /\ "shutdown" \in Ops
  /\ shut = "idle"
  /\ shutdown' = TRUE
  /\ g' = [g EXCEPT !["shutdown"] = [k \in Conns |-> IF k \in Aborted THEN "acquire" ELSE "none"]]
  /\ shut' = "wait"
  /\ UNCHANGED <<conns, serveCtx, sp, out, reqs, scClosed, lockVars, shutCtx, granted, reportVars>>

\* The select of Shutdown's goroutine for an association: it is idle, or the
\* context has ended.
AcquireBusy(k) ==
  /\ g["shutdown"][k] = "acquire"
  /\ busy[k] = "free"
  /\ busy' = [busy EXCEPT ![k] = "shutdown"]
  /\ granted' = [granted EXCEPT ![k] = TRUE]
  /\ g' = [g EXCEPT !["shutdown"][k] = "abort"]
  /\ UNCHANGED <<serveVars, sendMu, link, shut, shutCtx, reportVars>>

AcquireCtxDone(k) ==
  /\ g["shutdown"][k] = "acquire"
  /\ shutCtx = "done"
  /\ g' = [g EXCEPT !["shutdown"][k] = "abort"]
  /\ UNCHANGED <<serveVars, lockVars, shut, shutCtx, granted, reportVars>>

AppAborts(k) ==
  /\ "abort" \in Ops
  /\ k \in conns
  /\ \A j \in Conns : g["app"][j] = "none"
  /\ g' = [g EXCEPT !["app"][k] = "abort"]
  /\ UNCHANGED <<serveVars, lockVars, shut, shutCtx, granted, reportVars>>

\* Shutdown's goroutine gives busy back when its Abort has returned.
ReleaseBusy(a, k) ==
  busy' = [busy EXCEPT ![k] = IF a = "shutdown" /\ granted[k] THEN "free" ELSE @]

AbortClosed(a, k) ==
  /\ g[a][k] = "abort"
  /\ scClosed[k]
  /\ g' = [g EXCEPT ![a][k] = "exit"]
  /\ ReleaseBusy(a, k)
  /\ UNCHANGED <<serveVars, sendMu, link, shut, shutCtx, granted, reportVars>>

AbortOpen(a, k) ==
  /\ g[a][k] = "abort"
  /\ ~scClosed[k]
  /\ g' = [g EXCEPT ![a][k] = "lock"]
  /\ UNCHANGED <<serveVars, lockVars, shut, shutCtx, granted, reportVars>>

SendAbortLock(a, k) ==
  /\ g[a][k] = "lock"
  /\ SendMuFree(k)
  /\ sendMu' = [sendMu EXCEPT ![k] = a]
  /\ g' = [g EXCEPT ![a][k] = "write"]
  /\ UNCHANGED <<serveVars, busy, link, shut, shutCtx, granted, reportVars>>

\* The ABRT is written or its write fails, and the transport is closed.
SendAbortReturns(a, k) ==
  /\ g[a][k] = "write"
  /\ sendMu' = [sendMu EXCEPT ![k] = "nobody"]
  /\ g' = [g EXCEPT ![a][k] = "close"]
  /\ UNCHANGED <<serveVars, busy, link, shut, shutCtx, granted, reportVars>>

CloseAborted(a, k) ==
  /\ g[a][k] = "close"
  /\ link' = [link EXCEPT ![k] = "closed"]
  /\ g' = [g EXCEPT ![a][k] = "exit"]
  /\ ReleaseBusy(a, k)
  /\ UNCHANGED <<serveVars, sendMu, shut, shutCtx, granted, reportVars>>

\* The AfterFunc of Abort: once its context has ended (one second after it
\* began, in Shutdown) the transport is closed, whoever holds sendMu.
AbortTimeout(a, k) ==
  /\ g[a][k] \in {"lock", "write"}
  /\ link[k] # "closed"
  /\ link' = [link EXCEPT ![k] = "closed"]
  /\ UNCHANGED <<serveVars, busy, sendMu, shutVars, reportVars>>

ShutdownReturns ==
  /\ shut = "wait"
  /\ \A k \in Conns : g["shutdown"][k] \in {"none", "exit"}
  /\ shut' = "return"
  /\ UNCHANGED <<serveVars, lockVars, shutCtx, g, granted, reportVars>>

-----------------------------------------------------------------------------
(* Broadcast and SendUnconfirmed *)

Broadcast ==
  /\ "broadcast" \in Ops
  /\ bc = "idle"
  /\ snapshot' = conns
  /\ todo' = conns
  /\ bc' = "next"
  /\ UNCHANGED <<serveVars, lockVars, shutVars, bctx, w, state, done>>

\* SendInformationReport and SendUnsolicitedStatus on one association.
SendReport(k) ==
  /\ "report" \in Ops
  /\ bc = "idle"
  /\ k \in conns
  /\ snapshot' = {k}
  /\ todo' = {k}
  /\ bc' = "next"
  /\ UNCHANGED <<serveVars, lockVars, shutVars, bctx, w, state, done>>

\* The range over the snapshot, not over the registry, which may change.
Rest(k) == todo \ {k}

\* The next association of the snapshot: skipped when closed or when the
\* context has ended, else its detached write is started.
BroadcastNext(k) ==
  /\ bc = "next"
  /\ k \in todo
  /\ \/ /\ scClosed[k] \/ bctx = "done"
        /\ todo' = Rest(k)
        /\ UNCHANGED <<bc, w>>
     \/ /\ ~scClosed[k] /\ bctx = "live"
        /\ w' = [w EXCEPT ![k] = "lock"]
        /\ bc' = "send"
        /\ UNCHANGED todo
  /\ UNCHANGED <<serveVars, lockVars, shutVars, bctx, snapshot, state, done>>

\* SendUnconfirmed returns; an error is logged and the loop goes on.
AfterSend_Mutant(k) == IF done[k] = "err" THEN "return" ELSE "next"
AfterSend(k) == "next"

SendUnconfirmedReturns(k) ==
  /\ bc = "send"
  /\ k \in todo
  /\ w[k] # "none"
  /\ done[k] # "empty"
  /\ todo' = Rest(k)
  /\ bc' = AfterSend(k)
  /\ UNCHANGED <<serveVars, lockVars, shutVars, bctx, snapshot, w, state, done>>

\* The caller gives up: CompareAndSwap(pending, abandoned).
Abandon(k) == state' = [state EXCEPT ![k] = IF @ = "pending" THEN "abandoned" ELSE @]

SendUnconfirmedCtxDone(k) ==
  /\ bc = "send"
  /\ k \in todo
  /\ w[k] # "none"
  /\ bctx = "done"
  /\ Abandon(k)
  /\ todo' = Rest(k)
  /\ bc' = "next"
  /\ UNCHANGED <<serveVars, lockVars, shutVars, bctx, snapshot, w, done>>

BroadcastReturns ==
  /\ bc = "next"
  /\ todo = {}
  /\ bc' = "return"
  /\ UNCHANGED <<serveVars, lockVars, shutVars, bctx, snapshot, todo, w, state, done>>

\* The detached write of one report; a failure leaves the transport alone.
ReportLock(k) ==
  /\ w[k] = "lock"
  /\ SendMuFree(k)
  /\ \/ /\ state[k] = "pending"
        /\ state' = [state EXCEPT ![k] = "writing"]
        /\ sendMu' = [sendMu EXCEPT ![k] = "report"]
        /\ w' = [w EXCEPT ![k] = "write"]
        /\ UNCHANGED done
     \/ /\ state[k] # "pending"
        /\ done' = [done EXCEPT ![k] = "nil"]
        /\ w' = [w EXCEPT ![k] = "exit"]
        /\ UNCHANGED <<state, sendMu>>
  /\ UNCHANGED <<serveVars, busy, link, shutVars, bc, bctx, snapshot, todo>>

ReportWritten(k) ==
  /\ w[k] = "write"
  /\ link[k] # "closed"
  /\ done' = [done EXCEPT ![k] = "nil"]
  /\ w' = [w EXCEPT ![k] = "exit"]
  /\ sendMu' = [sendMu EXCEPT ![k] = "nobody"]
  /\ UNCHANGED <<serveVars, busy, link, shutVars, bc, bctx, snapshot, todo, state>>

ReportFails(k) ==
  /\ w[k] = "write"
  /\ link[k] # "up"
  /\ done' = [done EXCEPT ![k] = "err"]
  /\ w' = [w EXCEPT ![k] = "exit"]
  /\ sendMu' = [sendMu EXCEPT ![k] = "nobody"]
  /\ UNCHANGED <<serveVars, busy, link, shutVars, bc, bctx, snapshot, todo, state>>

-----------------------------------------------------------------------------
(* The environment *)

\* Serve's AfterFunc closes the transport once ListenAndServe is cancelled.
CancelServe_Mutant(k) == FALSE
CancelServe(k) ==
  /\ serveCtx = "done"
  /\ sp[k] \notin {"start", "end"}
  /\ link[k] # "closed"
  /\ link' = [link EXCEPT ![k] = "closed"]
  /\ UNCHANGED <<serveVars, busy, sendMu, shutVars, reportVars>>

ServeCtxEnds ==
  /\ "cancel" \in Ops
  /\ serveCtx = "live"
  /\ serveCtx' = "done"
  /\ UNCHANGED <<shutdown, conns, sp, out, reqs, scClosed, lockVars, shutVars, reportVars>>

ShutCtxEnds ==
  /\ shut = "wait"
  /\ shutCtx = "live"
  /\ shutCtx' = "done"
  /\ UNCHANGED <<serveVars, lockVars, shut, g, granted, reportVars>>

BroadcastCtxEnds ==
  /\ bc \notin {"idle", "return"}
  /\ bctx = "live"
  /\ bctx' = "done"
  /\ UNCHANGED <<serveVars, lockVars, shutVars, bc, snapshot, todo, w, state, done>>

LinkBreaks(k) ==
  /\ link[k] = "up"
  /\ link' = [link EXCEPT ![k] = "broken"]
  /\ UNCHANGED <<serveVars, busy, sendMu, shutVars, reportVars>>

\* Everything has come to rest: no operation is under way.
Terminated ==
  /\ shut # "wait" /\ bc \in {"idle", "return"}
  /\ \A k \in Conns : /\ sp[k] = "end" /\ w[k] \in {"none", "exit"}
                      /\ g["app"][k] \in {"none", "exit"}
  /\ UNCHANGED vars

-----------------------------------------------------------------------------

ServeStep(k) ==
  \/ Start(k) \/ RegisterConn(k) \/ ReceiveFails(k) \/ HandlerBegins(k) \/ SendDataLock(k)
  \/ SendDataCtxDone(k) \/ SendDataFails(k) \/ MarkClosed(k) \/ UnregisterConn(k)

\* Steps that wait for the peer, which may stall.
PeerStep(k) ==
  \/ AssociateSucceeds(k) \/ AssociateFails(k) \/ Refuse(k) \/ ReceiveRequest(k)
  \/ ReceiveOther(k) \/ SendDataWritten(k) \/ HandleRelease(k) \/ ReportWritten(k)
  \/ \E a \in Aborters : SendAbortReturns(a, k)

AbortStep(a, k) == AbortClosed(a, k) \/ AbortOpen(a, k) \/ SendAbortLock(a, k) \/ CloseAborted(a, k)

ShutdownStep(k) ==
  AcquireBusy(k) \/ AcquireCtxDone(k) \/ AbortStep("shutdown", k) \/ AbortTimeout("shutdown", k)

ReportStep(k) == ReportLock(k) \/ ReportFails(k)

BroadcastStep ==
  \/ BroadcastReturns
  \/ \E k \in Conns : BroadcastNext(k) \/ SendUnconfirmedReturns(k) \/ SendUnconfirmedCtxDone(k)

Next ==
  \/ Shutdown \/ ShutdownReturns \/ Broadcast \/ BroadcastStep
  \/ ServeCtxEnds \/ ShutCtxEnds \/ BroadcastCtxEnds \/ Terminated
  \/ \E k \in Conns :
       \/ ServeStep(k) \/ PeerStep(k) \/ HandlerReturns(k)
       \/ ShutdownStep(k) \/ AppAborts(k) \/ AbortStep("app", k) \/ AbortTimeout("app", k)
       \/ SendReport(k) \/ ReportStep(k)
       \/ CancelServe(k) \/ LinkBreaks(k)

Spec == Init /\ [][Next]_vars

(***************************************************************************)
(* Fairness: every goroutine takes the steps it can take by itself, timers *)
(* fire, and I/O on a transport that is closed returns.  Nothing is        *)
(* assumed of a peer whose link is up, nor of the service handlers.        *)
(***************************************************************************)
Fairness ==
  /\ \A k \in Conns : /\ WF_vars(ServeStep(k))
                      /\ WF_vars(ShutdownStep(k))
                      /\ WF_vars(AbortStep("app", k))
                      /\ WF_vars(ReportStep(k))
                      /\ WF_vars(CancelServe(k))
                      /\ WF_vars(link[k] # "up" /\ PeerStep(k))
  /\ WF_vars(ShutdownReturns)
  /\ WF_vars(BroadcastStep)

FairSpec == Spec /\ Fairness

-----------------------------------------------------------------------------
(* Safety *)

\* Everything written through sendMu: the answers of Serve, the detached
\* reports, the ABRT of Shutdown and of the application.
Writing(k) ==
  (IF sp[k] = "write" THEN {"serve"} ELSE {}) \cup (IF w[k] = "write" THEN {"report"} ELSE {})
  \cup {a \in Aborters : g[a][k] = "write"}

\* Answers, reports and aborts never overlap on a transport: the one writer
\* is the holder of serverconn.Conn.sendMu.
WriteMutex == \A k \in Conns : Writing(k) = {sendMu[k]} \ {"nobody"}

\* Shutdown does not abort an association whose handler is running, unless
\* its context has ended first (Shutdown holds busy while it aborts).
HandlerFinishes ==
  \A k \in Conns :
    granted[k] /\ g["shutdown"][k] \in {"abort", "lock", "write", "close"} => sp[k] # "dispatch"

\* Once Shutdown has returned, no association is left that could receive
\* another request, however late it registered.
NoneLeftServing ==
  shut = "return" => \A k \in Conns : k \in conns /\ ~scClosed[k] => link[k] = "closed"

\* A broadcast that ran to its end with a live context has written its report
\* on every association of its snapshot that is not closed and whose own
\* transport has not failed: a failed one does not stop the others.
BroadcastReachesAll ==
  bc = "return" /\ bctx = "live" =>
    \A k \in snapshot : done[k] = "nil" \/ scClosed[k] \/ link[k] # "up"

\* A report that was given up before its write began is never written.
AbandonedNeverWritten == \A k \in Conns : state[k] = "abandoned" => w[k] # "write"

\* The state is of its types, and every write on a transport is alone on it
\* and still wanted.
WritesInv == TypeOK /\ WriteMutex /\ AbandonedNeverWritten

\* Shutdown waits for running handlers and forgets no association.
ShutdownInv == HandlerFinishes /\ NoneLeftServing

-----------------------------------------------------------------------------
(* Liveness, under FairSpec *)

\* Shutdown returns once its context has ended, in spite of stuck handlers
\* and stalled writes.
ShutdownEnds == (shut = "wait" /\ shutCtx = "done") ~> (shut = "return")

\* Broadcast returns once its context has ended, in spite of stalled peers.
BroadcastEnds == (bc # "idle" /\ bctx = "done") ~> (bc = "return")

\* So the context of the application bounds both of its calls.
CallsEnd == ShutdownEnds /\ BroadcastEnds

\* Cancelling ListenAndServe ends every Serve that is not inside a service
\* handler, whatever its peer or a stalled report does (the authenticator is
\* taken to honour its context).
CancelEndsServe ==
  \A k \in Conns : (serveCtx = "done" /\ sp[k] # "start") ~> (sp[k] \in {"end", "dispatch"})

\* Whatever peers and handlers do, what the application bounds by a context
\* ends with it: Shutdown, Broadcast, and the Serves of ListenAndServe.
ContextsBound == CallsEnd /\ CancelEndsServe

=============================================================================
