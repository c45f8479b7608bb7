-------------------------------- MODULE Dial --------------------------------
(***************************************************************************)
(* Dial with a retry policy: an attempt connects, handshakes and           *)
(* associates; between attempts Retry waits for a growing delay, and the   *)
(* context of the caller ends the whole at any time.                       *)
(*                                                                         *)
(* Delays are in units of which no bound is reached: MaxBackoff times the  *)
(* multiplier fits the 64 bits of time.Duration.                           *)
(***************************************************************************)
EXTENDS Integers, FiniteSets

CONSTANTS Policies,        \* [attempts, initial, max, multiplier]: RetryPolicy
          DefaultInitial, DefaultMax,  \* 100ms and 30s
          AttemptBound     \* bound: attempts explored

VARIABLES
  policy, tls,  \* the policy, and whether a TLS configuration is set
  dp,           \* control point of the attempt and of Retry
  attempt,      \* number of the attempt
  open,         \* connections that are open
  ctx,          \* the context of Dial
  lastErr,      \* error of the last attempt
  delays,       \* history: the backoff of every wait so far, before jitter
  result        \* what Dial returns

options == <<policy, tls>>
vars == <<options, dp, attempt, open, ctx, lastErr, delays, result>>

Stages == {"dial", "tls", "cotp", "associate"}
Errors == {"none", "transient", "permanent"}

\* Type correctness: one connection at most is open at any time.
TypeOK ==
  /\ policy \in Policies /\ tls \in BOOLEAN
  /\ dp \in {"start", "wait", "returned"} \cup Stages
  /\ attempt \in 1 .. AttemptBound
  /\ open \subseteq 1 .. AttemptBound /\ Cardinality(open) <= 1
  /\ ctx \in {"live", "done"}
  /\ lastErr \in Errors
  /\ \A i \in DOMAIN delays : delays[i] \in Nat
  /\ result \in {"none", "client", "error", "ctx", "joined"}

Init ==
  /\ policy \in Policies /\ tls \in BOOLEAN
  /\ dp = "start"
  /\ attempt = 1
  /\ open = {}
  /\ ctx = "live"
  /\ lastErr = "none"
  /\ delays = [i \in {} |-> 0]
  /\ result = "none"

Return(r) ==
  /\ dp' = "returned"
  /\ result' = r

-----------------------------------------------------------------------------

\* The defaults of a policy.
InitialBackoff == IF policy.initial <= 0 THEN DefaultInitial ELSE policy.initial
MaxBackoff == IF policy.max <= 0 THEN DefaultMax ELSE policy.max
Multiplier == IF policy.multiplier < 1 THEN 2 ELSE policy.multiplier

\* The delay after a number of failed attempts: the loop multiplies while it
\* is below the maximum, which caps the last product too.
Uncapped[i \in 1 .. AttemptBound] ==
  IF i = 1 THEN InitialBackoff
  ELSE IF Uncapped[i - 1] < MaxBackoff THEN Uncapped[i - 1] * Multiplier
  ELSE Uncapped[i - 1]
Backoff(i) == IF Uncapped[i] <= MaxBackoff THEN Uncapped[i] ELSE MaxBackoff

\* Retry looks at the context and calls the attempt.
AttemptBegins ==
  /\ dp = "start"
  /\ \/ ctx = "done" /\ Return("ctx")
     \/ ctx = "live" /\ dp' = "dial" /\ UNCHANGED result
  /\ UNCHANGED <<attempt, open, ctx, lastErr, delays>>

\* Retry stops: no attempts left, or an error that another cannot fix.
GivesUp_Mutant(e) == (policy.attempts >= 0 /\ attempt > policy.attempts) \/ e = "permanent"
GivesUp(e) ==
  \/ policy.attempts >= 0 /\ attempt >= (IF policy.attempts > 1 THEN policy.attempts ELSE 1)
  \/ e = "permanent"

\* The context that interrupts the wait.
Interrupted == ctx = "done"

\* An attempt fails at one of its stages.
Fails(e) ==
  /\ lastErr' = e
  /\ \/ GivesUp(e) /\ Return("error") /\ UNCHANGED delays
     \/ /\ ~GivesUp(e)
        /\ dp' = "wait"
        /\ delays' = [i \in 1 .. attempt |-> IF i = attempt THEN Backoff(attempt) ELSE delays[i]]
        /\ UNCHANGED result
  /\ UNCHANGED <<attempt, ctx>>

AttemptErrors == {"transient", "permanent"}

TcpConnects ==
  /\ dp = "dial"
  /\ open' = open \cup {attempt}
  /\ dp' = IF tls THEN "tls" ELSE "cotp"
  /\ UNCHANGED <<attempt, ctx, lastErr, delays, result>>

TcpFails ==
  /\ dp = "dial"
  /\ \E e \in AttemptErrors : Fails(e)
  /\ UNCHANGED open

TlsSucceeds ==
  /\ dp = "tls"
  /\ dp' = "cotp"
  /\ UNCHANGED <<attempt, open, ctx, lastErr, delays, result>>

CloseConn == open' = open \ {attempt}

\* dialOnce closes the connection when TLS fails, cotp.Connect itself when it
\* fails.
HandshakeFails ==
  /\ dp \in {"tls", "cotp"}
  /\ \E e \in AttemptErrors : Fails(e)
  /\ CloseConn

CotpConnects ==
  /\ dp = "cotp"
  /\ dp' = "associate"
  /\ UNCHANGED <<attempt, open, ctx, lastErr, delays, result>>

\* newClient: the association is established and the client returned.
Associates ==
  /\ dp = "associate"
  /\ Return("client")
  /\ UNCHANGED <<attempt, open, ctx, lastErr, delays>>

\* Or it is not, and the connection is closed.
AssociateFails ==
  /\ dp = "associate"
  /\ \E e \in AttemptErrors : Fails(e)
  /\ CloseConn

\* The wait of Retry: the delay passes, or the context ends.
WaitElapses ==
  /\ dp = "wait" /\ attempt < AttemptBound
  /\ attempt' = attempt + 1
  /\ dp' = "start"
  /\ UNCHANGED <<open, ctx, lastErr, delays, result>>

WaitCtxDone ==
  /\ dp = "wait" /\ Interrupted
  /\ Return("joined")
  /\ UNCHANGED <<attempt, open, ctx, lastErr, delays>>

CtxEnds ==
  /\ ctx = "live"
  /\ ctx' = "done"
  /\ UNCHANGED <<dp, attempt, open, lastErr, delays, result>>

-----------------------------------------------------------------------------

Terminated == dp = "returned" /\ UNCHANGED vars

Step ==
  \/ AttemptBegins \/ TcpConnects \/ TcpFails \/ TlsSucceeds \/ HandshakeFails
  \/ CotpConnects \/ Associates \/ AssociateFails
  \/ WaitElapses \/ WaitCtxDone \/ CtxEnds

Next == (Step /\ UNCHANGED options) \/ Terminated

Spec == Init /\ [][Next]_vars

-----------------------------------------------------------------------------

\* No connection outlives its attempt: none is open while Retry waits or when
\* Dial has failed, and a client has the connection of the last attempt.
NoLeakedConnection ==
  /\ dp \in {"start", "dial", "wait"} => open = {}
  /\ dp = "returned" => open = IF result = "client" THEN {attempt} ELSE {}

\* The state is of its types, and connections are accounted for.
ConnectionsInv == TypeOK /\ NoLeakedConnection

\* Retry's comment: it returns "ctx's error, joined with the last error, when
\* ctx ended the retries", so the error of an attempt is not dropped.
LastErrorJoined == result = "ctx" => lastErr = "none"

\* The policy is kept: a permanent error ends the attempts, so does their
\* number, where 0 stands for one and less for no limit, and the delays never
\* shrink from one wait to the next and never exceed MaxBackoff.
PolicyKept ==
  /\ lastErr = "permanent" => dp = "returned"
  /\ policy.attempts >= 0 => attempt <= policy.attempts \/ attempt = 1
  /\ \A i, j \in DOMAIN delays : i <= j => delays[i] <= delays[j] /\ delays[j] <= MaxBackoff

=============================================================================
