------------------------------ MODULE Listener ------------------------------
(***************************************************************************)
(* The ISO listener and the accept loop of the server: acceptLoop takes    *)
(* connections from the network and starts a handshake for each, at most   *)
(* MaxPending at a time; a timer bounds every handshake; ListenAndServe    *)
(* takes the finished transports from Accept and serves them; and Shutdown *)
(* or the end of the context closes the listener.                          *)
(*                                                                         *)
(* The timer of a handshake is a context.AfterFunc: it starts at one step  *)
(* and moves the deadline of the connection into the past at a later one,  *)
(* by which time the handshake may be over.                                *)
(***************************************************************************)
EXTENDS Naturals, FiniteSets

CONSTANTS Conns,       \* connections of peers
          MaxPending   \* maxPendingHandshakes

VARIABLES
  timeout,          \* option: FALSE when WithHandshakeTimeout is negative
  lp, err,          \* acceptLoop: control point, Listener.err
  closed, lnClosed, \* Listener.closed is closed, the net.Listener is
  pending,          \* tokens in Listener.pending
  cp,               \* per connection: control point of its handshake
  timer,            \* per connection: the AfterFunc
  deadline,         \* per connection: its deadline
  ap,               \* control point of ListenAndServe
  ctx, shutdown,    \* its context, Server.shutdown
  closing           \* Shutdown found the listener and is to close it

loopVars  == <<lp, err>>
closeVars == <<closed, lnClosed>>
connVars  == <<pending, cp, timer, deadline>>
serveVars == <<ap, ctx, shutdown, closing>>
vars == <<timeout, loopVars, closeVars, connVars, serveVars>>

\* Where the handshake goroutine of a connection is running.
InHandshake == {"handshake", "stop", "clear", "offer"}

\* Type correctness of the listener and of ListenAndServe.
TypeOK ==
  /\ timeout \in BOOLEAN
  /\ lp \in {"off", "accept", "backoff", "slot", "stopped"}
  /\ err \in {"none", "closed", "temporary", "fatal"}
  /\ closed \in BOOLEAN /\ lnClosed \in BOOLEAN
  /\ pending \in 0 .. MaxPending
  /\ cp \in [Conns -> {"out", "backlog", "accepted", "served", "closed"} \cup InHandshake]
  /\ timer \in [Conns -> {"armed", "fired", "stopped"}]
  /\ deadline \in [Conns -> {"armed", "past", "none"}]
  /\ ap \in {"start", "accept", "deferred", "returned"}
  /\ ctx \in {"live", "done"}
  /\ shutdown \in BOOLEAN /\ closing \in BOOLEAN

Init ==
  /\ timeout \in BOOLEAN
  /\ lp = "off" /\ err = "none"
  /\ closed = FALSE /\ lnClosed = FALSE
  /\ pending = 0
  /\ cp = [c \in Conns |-> "out"]
  /\ timer = [c \in Conns |-> "armed"]
  /\ deadline = [c \in Conns |-> "armed"]
  /\ ap = "start" /\ ctx = "live"
  /\ shutdown = FALSE /\ closing = FALSE

Goto(c, at) == cp' = [cp EXCEPT ![c] = at]

-----------------------------------------------------------------------------
(* acceptLoop *)

\* A peer connects: the kernel queues the connection.
Connect(c) ==
  /\ cp[c] = "out"
  /\ ~lnClosed
  /\ Goto(c, "backlog")
  /\ UNCHANGED <<timeout, loopVars, closeVars, pending, timer, deadline, serveVars>>

LoopAccept(c) ==
  /\ lp = "accept" /\ ~lnClosed
  /\ cp[c] = "backlog"
  /\ Goto(c, "accepted")
  /\ lp' = "slot"
  /\ UNCHANGED <<timeout, err, closeVars, pending, timer, deadline, serveVars>>

LoopStops(e) ==
  /\ lp' = "stopped"
  /\ err' = e

\* net.Listener.Accept fails: closed, out of resources, or for good.
LoopFails ==
  /\ lp = "accept"
  /\ \/ lnClosed /\ LoopStops("closed")
     \/ ~lnClosed /\ lp' = "backoff" /\ UNCHANGED err
     \/ ~lnClosed /\ LoopStops("fatal")
  /\ UNCHANGED <<timeout, closeVars, connVars, serveVars>>

Backoff ==
  /\ lp = "backoff"
  /\ \/ lp' = "accept" /\ UNCHANGED err
     \/ closed /\ LoopStops("temporary")
  /\ UNCHANGED <<timeout, closeVars, connVars, serveVars>>

\* The semaphore of handshakes: one more, or one less.
Acquire == pending < MaxPending /\ pending' = pending + 1
Release == pending' = pending - 1

\* A slot is free: the handshake goroutine starts; or the listener is closed.
TakeSlot(c) ==
  /\ lp = "slot" /\ cp[c] = "accepted"
  /\ \/ /\ Acquire
        /\ Goto(c, "handshake")
        /\ lp' = "accept" /\ UNCHANGED err
     \/ /\ closed
        /\ Goto(c, "closed")
        /\ LoopStops("closed")
        /\ UNCHANGED pending
  /\ UNCHANGED <<timeout, closeVars, timer, deadline, serveVars>>

-----------------------------------------------------------------------------
(* handshake *)

\* The context of a handshake ends: its timeout, or the cancel that follows
\* the closing of the listener.  AfterFunc starts its function.
Ends_Mutant == closed
Ends == timeout \/ closed

TimerFires(c) ==
  /\ cp[c] \in {"handshake", "stop"}
  /\ timer[c] = "armed"
  /\ Ends
  /\ timer' = [timer EXCEPT ![c] = "fired"]
  /\ UNCHANGED <<timeout, loopVars, closeVars, pending, cp, deadline, serveVars>>

\* The function of AfterFunc unblocks reads, whenever it gets to run.
MoveDeadline(c) ==
  /\ timer[c] = "fired" /\ deadline[c] # "past"
  /\ deadline' = [deadline EXCEPT ![c] = "past"]
  /\ UNCHANGED <<timeout, loopVars, closeVars, pending, cp, timer, serveVars>>

HandshakeCompletes(c) ==
  /\ cp[c] = "handshake" /\ deadline[c] # "past"
  /\ Goto(c, "stop")
  /\ UNCHANGED <<timeout, loopVars, closeVars, pending, timer, deadline, serveVars>>

\* The peer breaks the handshake off, or makes it fail.
HandshakeFails(c) ==
  /\ cp[c] = "handshake" /\ deadline[c] # "past"
  /\ Goto(c, "closed")
  /\ Release
  /\ UNCHANGED <<timeout, loopVars, closeVars, timer, deadline, serveVars>>

HandshakeTimesOut(c) ==
  /\ cp[c] = "handshake" /\ deadline[c] = "past"
  /\ Goto(c, "closed")
  /\ Release
  /\ UNCHANGED <<timeout, loopVars, closeVars, timer, deadline, serveVars>>

\* stop(): TRUE when it came before the function was started.
Stopped_Mutant(c) == TRUE
Stopped(c) == timer[c] = "armed"

StopTimer(c) ==
  /\ cp[c] = "stop"
  /\ \/ /\ Stopped(c)
        /\ timer' = [timer EXCEPT ![c] = IF @ = "armed" THEN "stopped" ELSE @]
        /\ Goto(c, "clear")
        /\ UNCHANGED pending
     \/ /\ ~Stopped(c)
        /\ Goto(c, "closed")
        /\ Release
        /\ UNCHANGED timer
  /\ UNCHANGED <<timeout, loopVars, closeVars, deadline, serveVars>>

ClearDeadline(c) ==
  /\ cp[c] = "clear"
  /\ deadline' = [deadline EXCEPT ![c] = "none"]
  /\ Goto(c, "offer")
  /\ UNCHANGED <<timeout, loopVars, closeVars, pending, timer, serveVars>>

\* Accept takes the transport and ListenAndServe starts a Serve for it.
HandOver(c) ==
  /\ cp[c] = "offer" /\ ap = "accept"
  /\ Goto(c, "served")
  /\ Release
  /\ UNCHANGED <<timeout, loopVars, closeVars, timer, deadline, serveVars>>

Withdrawn == closed

Withdraw(c) ==
  /\ cp[c] = "offer"
  /\ Withdrawn
  /\ Goto(c, "closed")
  /\ Release
  /\ UNCHANGED <<timeout, loopVars, closeVars, timer, deadline, serveVars>>

\* Serve returns, and the deferred Close runs.
ServeReturns(c) ==
  /\ cp[c] = "served"
  /\ Goto(c, "closed")
  /\ UNCHANGED <<timeout, loopVars, closeVars, pending, timer, deadline, serveVars>>

-----------------------------------------------------------------------------
(* ListenAndServe, Shutdown and Close *)

\* Refused after Shutdown; else registered, and Accept starts acceptLoop.
ListenAndServe ==
  /\ ap = "start"
  /\ \/ shutdown /\ ap' = "deferred" /\ UNCHANGED lp
     \/ ~shutdown /\ ap' = "accept" /\ lp' = "accept"
  /\ UNCHANGED <<timeout, err, closeVars, connVars, ctx, shutdown, closing>>

AcceptCtxDone ==
  /\ ap = "accept" /\ ctx = "done"
  /\ ap' = "deferred"
  /\ UNCHANGED <<timeout, loopVars, closeVars, connVars, ctx, shutdown, closing>>

\* Accept fails with err; a temporary one is retried.
AcceptFails ==
  /\ ap = "accept" /\ lp = "stopped"
  /\ ctx = "done" \/ shutdown \/ err # "temporary"
  /\ ap' = "deferred"
  /\ UNCHANGED <<timeout, loopVars, closeVars, connVars, ctx, shutdown, closing>>

Shutdown ==
  /\ ~shutdown
  /\ shutdown' = TRUE
  /\ closing' = (ap = "accept")
  /\ UNCHANGED <<timeout, loopVars, closeVars, connVars, ap, ctx>>

\* Listener.Close, by Shutdown or by the deferred call of ListenAndServe.
Close ==
  /\ closing \/ ap = "deferred"
  /\ ~closed
  /\ closed' = TRUE
  /\ UNCHANGED <<timeout, lnClosed, loopVars, connVars, serveVars>>

LnClose_Mutant == UNCHANGED lnClosed
LnClose == lnClosed' = TRUE

CloseListener ==
  /\ closed /\ ~lnClosed
  /\ LnClose
  /\ UNCHANGED <<timeout, closed, loopVars, connVars, serveVars>>

ListenAndServeReturns ==
  /\ ap = "deferred" /\ lnClosed
  /\ ap' = "returned"
  /\ UNCHANGED <<timeout, loopVars, closeVars, connVars, ctx, shutdown, closing>>

CtxEnds ==
  /\ ctx = "live"
  /\ ctx' = "done"
  /\ UNCHANGED <<timeout, loopVars, closeVars, connVars, ap, shutdown, closing>>

-----------------------------------------------------------------------------

Terminated ==
  /\ ap = "returned" /\ lp \in {"off", "stopped"}
  /\ \A c \in Conns : cp[c] \in {"out", "backlog", "closed"}
  /\ UNCHANGED vars

Loop == LoopFails \/ Backoff \/ \E c \in Conns : TakeSlot(c)
Handshake(c) ==
  \/ HandshakeTimesOut(c) \/ StopTimer(c) \/ ClearDeadline(c)
  \/ HandOver(c) \/ Withdraw(c)
Serving == ListenAndServe \/ AcceptCtxDone \/ AcceptFails \/ Close \/ CloseListener \/ ListenAndServeReturns

Next ==
  \/ Loop \/ Serving \/ Shutdown \/ CtxEnds \/ Terminated
  \/ \E c \in Conns :
       \/ Connect(c) \/ LoopAccept(c) \/ Handshake(c)
       \/ TimerFires(c) \/ MoveDeadline(c)
       \/ HandshakeCompletes(c) \/ HandshakeFails(c) \/ ServeReturns(c)

Spec == Init /\ [][Next]_vars

(***************************************************************************)
(* Fairness: goroutines and timers run, and Accept of the network returns  *)
(* what is queued, in the end, in spite of temporary errors.  Nothing says *)
(* that a peer completes or breaks off its handshake, that Serve returns   *)
(* or that anybody shuts the server down.                                  *)
(***************************************************************************)
Fairness ==
  /\ WF_vars(Serving)
  /\ WF_vars(LoopFails /\ lnClosed) /\ WF_vars(Backoff)
  /\ WF_vars(\E c \in Conns : TakeSlot(c))
  /\ \A c \in Conns :
       /\ SF_vars(LoopAccept(c))
       /\ WF_vars(Handshake(c))
       /\ WF_vars(TimerFires(c))
       /\ WF_vars(MoveDeadline(c))

FairSpec == Spec /\ Fairness

-----------------------------------------------------------------------------

\* The semaphore counts the handshake goroutines, on every way out of them,
\* and the bound of maxPendingHandshakes is kept.
SlotsAccounted ==
  /\ pending = Cardinality({c \in Conns : cp[c] \in InHandshake})
  /\ pending <= MaxPending

\* The state is of its types, and slots are accounted for.
SlotsInv == TypeOK /\ SlotsAccounted

\* A transport that Accept returns has no deadline, and a handshake timer
\* that fired late never gives it one.
NoDeadlineLeft == \A c \in Conns : cp[c] \in {"offer", "served"} => deadline[c] = "none"

\* Slots and deadlines are as the transports need them.
TransportsInv == SlotsInv /\ NoDeadlineLeft

\* "A peer that connects and stays silent never blocks other connections":
\* with a handshake timeout, every queued connection is served or closed,
\* unless the listener ends.
SilentPeersDoNotBlock ==
  \A c \in Conns : timeout /\ cp[c] = "backlog" ~> (cp[c] \in {"served", "closed"} \/ closed \/ lp = "stopped")

\* Close ends the accept loop and closes "any connection still handshaking
\* or waiting for Accept".
CloseReleases ==
  closed ~> /\ lp \in {"off", "stopped"}
            /\ \A c \in Conns : cp[c] \notin InHandshake \cup {"accepted"}

\* ListenAndServe returns after Shutdown or the end of its context, also when
\* Shutdown comes before it, or during a temporary error of Accept.
ListenAndServeEnds == (shutdown \/ ctx = "done") ~> (ap = "returned")

\* So whatever is waiting in the listener ends with it.
ClosingEnds == CloseReleases /\ ListenAndServeEnds

=============================================================================
