----------------------------- MODULE MCSession -----------------------------
(***************************************************************************)
(* Model checking of the stations of a session, one after the other in the *)
(* program and each on its own here: Dial, over policies with and without  *)
(* their defaults; Negotiation; Variables, with the requests of            *)
(* MCVariables; and the Broadcast of Server over two associations.  part   *)
(* says which one a behaviour is about; the variables of the others rest.  *)
(***************************************************************************)
EXTENDS Negotiation, MCVariables, TLC

CONSTANTS Conns,    \* the connections of Broadcast, interchangeable
          Requests  \* of Variables

VARIABLES part,
  policy, tls, dp, attempt, open, ctx, lastErr, delays, result,  \* Dial
  value, hp, request, current, results,                          \* Variables
  shutdown, conns, serveCtx, sp, out, reqs, scClosed, busy, sendMu, link, shut, shutCtx, g,
  granted, bc, bctx, snapshot, todo, w, state, done              \* Server

MCPolicies ==
  [attempts : {-1, 0, 1, 4}, initial : {0, 2, 12}, max : {0, 9}, multiplier : {0, 1, 3}]

D == INSTANCE Dial
       WITH Policies <- MCPolicies, DefaultInitial <- 1, DefaultMax <- 30, AttemptBound <- 5
V == INSTANCE Variables
       WITH Assocs <- {"a1", "a2"}, Paths <- MCPaths, Type <- MCType,
            Initial <- MCInitial, Names <- {"x"}, req <- request
S == INSTANCE Server WITH MaxReqs <- 0, Ops <- {"broadcast", "abort"}

\* What Dial and Variables take for granted of their constants.
ASSUME PoliciesAssumption ==
  \A p \in MCPolicies : {p.attempts, p.initial, p.max, p.multiplier} \subseteq Int
ASSUME RequestsAssumption ==
  \A a \in DOMAIN Requests : \A r \in Requests[a] :
    r.kind \in {"read", "write"} /\ r.items # <<>>
ASSUME InitialAssumption == Compatible(MCType, MCInitial)

dialVars == <<policy, tls, dp, attempt, open, ctx, lastErr, delays, result>>
variablesVars == <<value, hp, request, current, results>>
serverVars ==
  <<shutdown, conns, serveCtx, sp, out, reqs, scClosed, busy, sendMu, link, shut, shutCtx, g,
    granted, bc, bctx, snapshot, todo, w, state, done>>

ConnSymmetry == Permutations(Conns)

Resting == "-"
DialRests ==
  /\ policy = Resting /\ tls = Resting /\ dp = Resting /\ attempt = Resting /\ open = Resting
  /\ ctx = Resting /\ lastErr = Resting /\ delays = Resting /\ result = Resting
NegotiationRests ==
  /\ opts = Unset /\ foreign = TRUE /\ stage = "new" /\ conn = Unset
  /\ req = Unset /\ resp = Unset /\ client = Unset /\ call = "idle" /\ wire = Idle

SessionInit ==
  /\ V!Init /\ S!Init
  /\ \/ part = "dial" /\ D!Init /\ NegotiationRests
     \/ part = "negotiation" /\ DialRests /\ Init
     \/ part \in {"variables", "broadcast"} /\ DialRests /\ NegotiationRests

DialStep == part = "dial" /\ D!Next /\ UNCHANGED <<part, vars, variablesVars, serverVars>>
NegotiationStep == part = "negotiation" /\ Next /\ UNCHANGED <<part, dialVars, variablesVars, serverVars>>
VariablesStep == part = "variables" /\ V!Next /\ UNCHANGED <<part, vars, dialVars, serverVars>>
BroadcastStep == part = "broadcast" /\ S!Next /\ UNCHANGED <<part, vars, dialVars, variablesVars>>

\* An association that has been negotiated may stay idle.
Idles == part = "negotiation" /\ UNCHANGED <<part, vars, dialVars, variablesVars, serverVars>>

SessionNext == DialStep \/ NegotiationStep \/ VariablesStep \/ BroadcastStep \/ Idles

SessionSpec == SessionInit /\ [][SessionNext]_<<part, vars, dialVars, variablesVars, serverVars>>

-----------------------------------------------------------------------------

\* Dial: no connection outlives its attempt, a permanent error and the number
\* of attempts end the retries, and the delays grow up to MaxBackoff.
DialKept == part = "dial" => D!ConnectionsInv /\ D!PolicyKept

\* Read and Write: a part of a variable becomes unreadable only by a write
\* whose value is compared with no type, or two levels or more above it, since
\* a patch checks types one level deep.
PathsKept == V!PathsKept

\* Read and Write: the handlers keep their types, an answer has one result per
\* item in the order of the items, and a read along the path of an accepted
\* write returns what was written.
ResultsTrue == []V!TypeOK /\ V!Answered /\ V!ReadBack

\* Read and Write: an accepted write changes only what its path names, in the
\* variable of its own association.
OthersKept == V!OthersKept

\* Broadcast: with a live context it writes its report on every association
\* of its snapshot that is neither closed nor failed.
BroadcastReachesAll == S!BroadcastReachesAll

\* Retry: "ctx's error, joined with the last error, when ctx ended the
\* retries" (retry.go).
LastErrorJoined == part = "dial" => D!LastErrorJoined

\* Read: "the server ensures no concurrent mutation occurs during the read
\* handler call" (OWNERSHIP.md).
NoWriteDuringRead == V!NoWriteDuringRead

=============================================================================
