----------------------------- MODULE MCServices -----------------------------
(***************************************************************************)
(* Model checking of parts of the server, each on its own: the Listener,   *)
(* and the services that answer with more than one PDU, FitList, NameList  *)
(* and Files.  part says which one a behaviour is about; the variables of  *)
(* the others rest.                                                        *)
(***************************************************************************)
EXTENDS FitList

CONSTANTS Names, Static, Clients, Listers, PageSize, MaxNames,  \* NameList
          Calls, Chunks,                                        \* Files
          Conns, MaxPending                                     \* Listener

VARIABLES part,
  scope, nvls, heap, len, lp, token, page, more, all, stable, seen, torn,    \* NameList
  up, served, dp, ctx, no, frsmID, reply, data, queue, nextID, entries, open, closes, \* Files
  timeout, loop, err, closed, lnClosed, pending, cp, timer, deadline, ap, serveCtx, shutdown,
  closing                                                                             \* Listener

N == INSTANCE NameList
F == INSTANCE Files WITH answer <- reply
L == INSTANCE Listener WITH lp <- loop, ctx <- serveCtx

\* What NameList, Files and Listener take for granted of their constants.
ASSUME NamesAssumption == Names \subseteq Nat \ {0} /\ Static \subseteq Names
ASSUME PagesAssumption == PageSize \in Nat \ {0} /\ MaxNames \in Nat
ASSUME ClientsAssumption == "domain" \notin Clients /\ Listers \subseteq Clients
ASSUME ChunksAssumption == Chunks \in Nat \ {0}
ASSUME MaxPendingAssumption == MaxPending \in Nat \ {0}

namesVars == <<scope, nvls, heap, len, lp, token, page, more, all, stable, seen, torn>>
filesVars == <<up, served, dp, ctx, no, frsmID, reply, data, queue, nextID, entries, open, closes>>

listenerVars ==
  <<timeout, loop, err, closed, lnClosed, pending, cp, timer, deadline, ap, serveCtx, shutdown, closing>>

FitListRests ==
  /\ n = 0 /\ budget = 0 /\ full = 0 /\ size = [i \in 1 .. MaxN |-> 0]
  /\ answer = [kind |-> "none", k |-> 0]
  /\ pc = "done" /\ lo = 1 /\ hi = 0 /\ best = 0

ServicesInit ==
  /\ N!Init /\ F!Init /\ L!Init
  /\ part \in {"fitlist", "names", "files", "listener"}
  /\ IF part = "fitlist" THEN Init ELSE FitListRests
  /\ part # "names" => scope = "domain"
  /\ part # "listener" => timeout = TRUE

FitListStep == part = "fitlist" /\ Next /\ UNCHANGED <<part, namesVars, filesVars, listenerVars>>
NamesStep == part = "names" /\ N!Next /\ UNCHANGED <<part, vars, filesVars, listenerVars>>
FilesStep == part = "files" /\ F!Next /\ UNCHANGED <<part, vars, namesVars, listenerVars>>
ListenerStep == part = "listener" /\ L!Next /\ UNCHANGED <<part, vars, namesVars, filesVars>>

ServicesNext == FitListStep \/ NamesStep \/ FilesStep \/ ListenerStep

\* The fairness that FitList, Files and Listener state, for the part that runs.
Transferring == part = "files"
Listening == part = "listener"
ServicesFairness ==
  /\ WF_vars(EncodeAll \/ EncodePrefix \/ Return)
  /\ WF_filesVars(Transferring /\ F!ServerStep)
  /\ \A c \in Calls : WF_filesVars(Transferring /\ F!CallStep(c))
  /\ WF_listenerVars(Listening /\ L!Serving)
  /\ WF_listenerVars(Listening /\ L!LoopFails /\ lnClosed)
  /\ WF_listenerVars(Listening /\ L!Backoff)
  /\ WF_listenerVars(Listening /\ \E c \in Conns : L!TakeSlot(c))
  /\ \A c \in Conns :
       /\ SF_listenerVars(Listening /\ L!LoopAccept(c))
       /\ WF_listenerVars(Listening /\ L!Handshake(c))
       /\ WF_listenerVars(Listening /\ L!TimerFires(c))
       /\ WF_listenerVars(Listening /\ L!MoveDeadline(c))

ServicesSpec ==
  /\ ServicesInit
  /\ [][ServicesNext]_<<part, vars, namesVars, filesVars, listenerVars>>
  /\ ServicesFairness

-----------------------------------------------------------------------------

\* The index of a scope is sorted and equals the map, and an enumeration in
\* the registry returns names in order, none twice and none that never was.
NamesExact == part = "names" => N!IndexInv /\ N!ListExact

\* An enumeration returns every list that was defined throughout it, unless
\* the index moved while a page of it was encoded.
NamesCovered == part = "names" => N!ListCovers

\* Downloads that succeed are exact, the provider's open files are those of
\* the table, and none is closed twice.
FilesExact == F!HandlesInv /\ F!DownloadExact

\* What was begun ends: the search of fitList, for every list and budget, and
\* every open file, by its DownloadFile or when the association ends.
ServicesEnd == Ends /\ F!DownloadCloses /\ F!EndCloses

\* The semaphore counts the handshakes on every way out of them, and no
\* transport that Accept returned carries a deadline.
TransportsInv == L!TransportsInv

\* "A peer that connects and stays silent never blocks other connections."
SilentPeersDoNotBlock == L!SilentPeersDoNotBlock

\* Close ends the accept loop and every handshake, and ListenAndServe returns
\* after Shutdown or the end of its context.
ClosingEnds == L!ClosingEnds

=============================================================================
