---------------------------- MODULE SessionProofs ----------------------------
(***************************************************************************)
(* Proofs about setting up a session: the association parameters that two  *)
(* ends agree on, the attempts and waits of Dial, and the handshakes of    *)
(* the listener, for every choice of options, sizes and policies and any   *)
(* number of connections.  Each of the three has an invariant of its own;  *)
(* they share no state.                                                    *)
(***************************************************************************)
EXTENDS Negotiation, FiniteSetTheorems, Induction, TLAPS

\* A leaf that names no prover is tried with Z3, with Zenon, and with Z3 for longer.
USE SMT, Zenon, SMTT(20)

-----------------------------------------------------------------------------
(* The association parameters *)

\* What the server keeps is what it sent, and lies within the proposal.
Sent ==
    stage \in {"answered", "associated", "lost"} /\ ~foreign =>
        /\ resp = conn
        /\ conn.pdu >= MinPdu
        /\ conn.calling <= req.calling /\ conn.called <= req.called

\* A PDU is on its way only between two associated go-mms ends.
OnTheWire == wire.kind # "none" => Associated /\ ~foreign

IInv == TypeOK /\ Sent /\ OnTheWire /\ Agreed /\ Usable /\ AnswersFit

\* Options with their defaults are proposals: no field is zero.
LEMMA DefaultsPositive == \A o \in Options : WithDefaults(o) \in Proposals
<1>1. \A v \in Nat, d \in Nat \ {0} : OrElse(v, d) \in Nat \ {0}
  BY DEF OrElse
<1>2. ASSUME NEW o \in Options PROVE WithDefaults(o) \in Proposals
  <2>1. o.pdu \in Nat /\ o.calling \in Nat /\ o.called \in Nat /\ o.nesting \in Nat
    BY Zenon, OptionsAssumption DEF Options
  <2> QED
    BY SMTT(20), <1>1, <2>1, DefaultsAssumption DEF WithDefaults, Proposals
<1> QED
  BY <1>2

\* The server's choice is positive, above the floor and within the proposal.
LEMMA NegotiateBounds ==
  ASSUME NEW own \in Proposals, NEW r \in Proposals
  PROVE  /\ Negotiate(own, r) \in Proposals
         /\ Negotiate(own, r).pdu >= MinPdu
         /\ Negotiate(own, r).calling <= r.calling
         /\ Negotiate(own, r).called <= r.called
  BY SizesAssumption DEF Proposals, Negotiate, ClampMin, Least

\* The client's values, from any answer, are usable.
LEMMA AppliedUsable ==
  ASSUME NEW r \in Proposals, NEW a \in Params
  PROVE  /\ Applied(r, a) \in Params
         /\ Applied(r, a).calling \in 1 .. r.calling
         /\ Applied(r, a).called \in 1 .. r.called
         /\ Applied(r, a).pdu > 0 /\ Applied(r, a).nesting > 0
  BY DEF Proposals, Params, Applied, OrElse, Least

\* An answer within the proposal is taken over unchanged.
LEMMA AppliedSame ==
  ASSUME NEW r \in Proposals, NEW a \in Proposals,
         a.calling <= r.calling, a.called <= r.called
  PROVE  Applied(r, a) = a
<1>1. /\ OrElse(a.pdu, r.pdu) = a.pdu
      /\ OrElse(a.nesting, r.nesting) = a.nesting
      /\ OrElse(Least(r.calling, a.calling), 1) = a.calling
      /\ OrElse(Least(r.called, a.called), 1) = a.called
  BY DEF Proposals, OrElse, Least
<1> QED
  BY <1>1 DEF Applied, Proposals

LEMMA ProposalsAreParams == Proposals \subseteq Params /\ Unset \in Params
  BY DEF Proposals, Params, Unset

LEMMA OptionsAreParams == Options \subseteq Params
  BY Zenon, OptionsAssumption DEF Options, Params

LEMMA InitIInv == Init => IInv
<1> SUFFICES ASSUME Init PROVE IInv
  OBVIOUS
<1>1. TypeOK
  BY DefaultsPositive, ProposalsAreParams DEF Init, TypeOK, Stages, Kinds, Idle
<1>2. Sent /\ OnTheWire /\ Agreed /\ Usable /\ AnswersFit
  BY DEF Init, Sent, OnTheWire, Agreed, Usable, AnswersFit, Associated, Idle
<1> QED
  BY <1>1, <1>2 DEF IInv

\* Every step keeps the invariant.
LEMMA NextIInv == IInv /\ [Next]_vars => IInv'
<1> SUFFICES ASSUME IInv, [Next]_vars PROVE IInv'
  OBVIOUS
<1> USE DEF IInv
<1> DEFINE Facts == /\ Sent' /\ OnTheWire' /\ Agreed' /\ Usable' /\ AnswersFit'
<1>1. CASE Initiate
  <2>1. TypeOK'
    BY <1>1, DefaultsPositive DEF Initiate, TypeOK, Stages
  <2>2. Facts
    BY <1>1 DEF Initiate, TypeOK, Sent, OnTheWire, Agreed, Usable, AnswersFit, Associated
  <2> QED  BY <2>1, <2>2
<1>2. CASE AcceptAssociation
  <2>1. req \in Proposals /\ conn \in Proposals
    BY <1>2 DEF AcceptAssociation, TypeOK
  <2>2. /\ conn' \in Proposals /\ conn'.pdu >= MinPdu
        /\ conn'.calling <= req.calling /\ conn'.called <= req.called
    BY <1>2, <2>1, NegotiateBounds DEF AcceptAssociation
  <2>3. TypeOK'
    BY <1>2, <2>2, ProposalsAreParams DEF AcceptAssociation, TypeOK, Stages
  <2>4. Facts
    BY <1>2, <2>2
    DEF AcceptAssociation, Sent, OnTheWire, Agreed, Usable, AnswersFit, Associated
  <2> QED  BY <2>3, <2>4
<1>3. ASSUME NEW r \in Options, ForeignAnswer(r) PROVE IInv'
  <2>1. TypeOK'
    BY <1>3, OptionsAreParams DEF ForeignAnswer, TypeOK, Stages
  <2>2. Facts
    BY <1>3 DEF ForeignAnswer, Sent, OnTheWire, Agreed, Usable, AnswersFit, Associated
  <2> QED  BY <2>1, <2>2
<1>4. CASE ApplyNegotiatedParams
  <2>1. req \in Proposals /\ resp \in Params
    BY <1>4 DEF ApplyNegotiatedParams, TypeOK
  <2>2. /\ client' \in Params
        /\ client'.calling \in 1 .. req.calling
        /\ client'.called \in 1 .. req.called
        /\ client'.pdu > 0 /\ client'.nesting > 0
    BY <1>4, <2>1, AppliedUsable DEF ApplyNegotiatedParams
  <2>3. ~foreign => client' = conn
    BY <1>4, <2>1, AppliedSame DEF ApplyNegotiatedParams, Sent, TypeOK
  <2>4. TypeOK'
    BY <1>4, <2>2 DEF ApplyNegotiatedParams, TypeOK, Stages
  <2>5. Facts
    BY <1>4, <2>2, <2>3
    DEF ApplyNegotiatedParams, Sent, OnTheWire, Agreed, Usable, AnswersFit, Associated
  <2> QED  BY <2>4, <2>5
<1>5. CASE InvalidVersion
  <2>1. client' \in Params
    BY <1>5, AppliedUsable DEF InvalidVersion, TypeOK
  <2>2. TypeOK'
    BY <1>5, <2>1 DEF InvalidVersion, TypeOK, Stages
  <2>3. Facts
    BY <1>5 DEF InvalidVersion, Sent, OnTheWire, Agreed, Usable, AnswersFit, Associated
  <2> QED  BY <2>2, <2>3
<1>6. ASSUME NEW n \in Sizes, SendConfirmed(n) \/ SendUnconfirmed(n) PROVE IInv'
  <2>1. TypeOK'
    BY <1>6, SizesAssumption DEF SendConfirmed, SendUnconfirmed, TypeOK, Kinds
  <2>2. Facts
    BY <1>6 DEF SendConfirmed, SendUnconfirmed, Sent, OnTheWire, Agreed, Usable,
                AnswersFit, Associated
  <2> QED  BY <2>1, <2>2
<1>7. CASE SkipOversize
  <2>1. TypeOK'
    BY <1>7 DEF SkipOversize, TypeOK, Kinds, Idle
  <2>2. Facts
    BY <1>7 DEF SkipOversize, Sent, OnTheWire, Agreed, Usable, AnswersFit, Associated, Idle
  <2> QED  BY <2>1, <2>2
<1>8. ASSUME NEW n \in Sizes, HandleConfirmedRequest(n) PROVE IInv'
  <2>1. Associated /\ ~foreign /\ client = conn /\ conn.pdu >= MinPdu /\ conn.pdu \in Nat
    BY <1>8 DEF HandleConfirmedRequest, OnTheWire, Agreed, Sent, Associated, TypeOK, Proposals
  <2>2. Answer(n) \in Nat /\ Answer(n) <= client.pdu
    BY <2>1, SizesAssumption DEF Answer
  <2>3. TypeOK'
    BY <1>8, <2>2 DEF HandleConfirmedRequest, TypeOK, Kinds
  <2>4. stage # "lost"
    BY <1>8 DEF HandleConfirmedRequest, AnswersFit
  <2>5. Facts
    BY <1>8, <2>1, <2>2, <2>4
    DEF HandleConfirmedRequest, Sent, OnTheWire, Agreed, Usable, AnswersFit, Associated
  <2> QED  BY <2>3, <2>5
<1>9. CASE RejectOversize
  <2>1. TypeOK'
    BY <1>9 DEF RejectOversize, TypeOK, Stages
  <2>2. wire.kind = "report"
    BY <1>9 DEF RejectOversize, ToClient, AnswersFit, TypeOK, Params
  <2>3. Facts
    BY <1>9, <2>2
    DEF RejectOversize, Sent, OnTheWire, Agreed, Usable, AnswersFit, Associated
  <2> QED  BY <2>1, <2>3
<1>10. CASE Deliver
  <2>1. TypeOK'
    BY <1>10 DEF Deliver, TypeOK, Kinds, Idle
  <2>2. Facts
    BY <1>10 DEF Deliver, Sent, OnTheWire, Agreed, Usable, AnswersFit, Associated, Idle
  <2> QED  BY <2>1, <2>2
<1>11. CASE CallTimesOut
  <2>1. TypeOK'
    BY <1>11 DEF CallTimesOut, TypeOK
  <2>2. Facts
    BY <1>11 DEF CallTimesOut, Sent, OnTheWire, Agreed, Usable, AnswersFit, Associated
  <2> QED  BY <2>1, <2>2
<1>12. CASE UNCHANGED vars
  <2>1. TypeOK'
    BY <1>12 DEF vars, TypeOK
  <2>2. Facts
    BY <1>12 DEF vars, Sent, OnTheWire, Agreed, Usable, AnswersFit, Associated
  <2> QED  BY <2>1, <2>2
<1> QED
  BY <1>1, <1>2, <1>3, <1>4, <1>5, <1>6, <1>7, <1>8, <1>9, <1>10, <1>11, <1>12 DEF Next

LEMMA Invariance == Spec => []IInv
  BY InitIInv, NextIInv, PTL DEF Spec

\* Two go-mms ends work with the same four values once associated: the
\* rules of Conn.negotiate and applyNegotiatedParams give one result.
THEOREM EndsAgree == Spec => []Agreed
<1>1. IInv => Agreed
  BY DEF IInv
<1> QED
  BY Invariance, <1>1, PTL

\* applyNegotiatedParams leaves usable values whatever the server answers.
THEOREM ClientUsable == Spec => []Usable
<1>1. IInv => Usable
  BY DEF IInv
<1> QED
  BY Invariance, <1>1, PTL

\* What the two ends keep after associating is the same at both and usable
\* (Conn.negotiate, applyNegotiatedParams).
THEOREM NegotiatedSafe == Spec => []Negotiated
<1>1. IInv => Negotiated
  BY DEF IInv, Negotiated
<1> QED
  BY Invariance, <1>1, PTL

\* No response makes checkPDUSize end the association: Conn answers with a
\* ServiceError in place of a large response, and minPDUSize leaves room
\* for it.
THEOREM ResponsesFit == Spec => []AnswersFit
<1>1. IInv => AnswersFit
  BY DEF IInv
<1> QED
  BY Invariance, <1>1, PTL

-----------------------------------------------------------------------------
(* Dial: for any policies and defaults.  The backoffs are followed through *)
(* the loop of RetryPolicy.Backoff by induction.                           *)

CONSTANTS Policies, DefaultInitial, DefaultMax, AttemptBound
VARIABLES policy, tls, dp, attempt, open, ctx, lastErr, delays, result
D == INSTANCE Dial

\* What is assumed of the policies and the defaults of Dial
DialConstants ==
  /\ \A p \in Policies : /\ p.attempts \in Int /\ p.initial \in Int
                         /\ p.max \in Int /\ p.multiplier \in Int
  /\ DefaultInitial \in Nat \ {0} /\ DefaultMax \in Nat \ {0} /\ AttemptBound \in Nat \ {0}

\* One round of the loop of Backoff
Round(d) == IF d < D!MaxBackoff THEN d * D!Multiplier ELSE d

\* A recursion over the rounds of Backoff has a solution,
LEMMA UncappedExists ==
  ASSUME NEW m \in Nat
  PROVE  \E f : f = [k \in 1 .. m |-> IF k = 1 THEN D!InitialBackoff ELSE Round(f[k - 1])]
<1> DEFINE Is(f, b) == f = [k \in 1 .. b |-> IF k = 1 THEN D!InitialBackoff ELSE Round(f[k - 1])]
           T == {b \in Nat : \E f : Is(f, b)}
<1>1. 0 \in T
  <2>1. Is([k \in 1 .. 0 |-> 0], 0)
    OBVIOUS
  <2> HIDE DEF Is
  <2> QED
    BY <2>1
<1>2. ASSUME NEW b \in T PROVE b + 1 \in T
  <2>1. PICK f : Is(f, b)
    BY <1>2
  <2> DEFINE g == [k \in 1 .. b + 1 |->
                     IF k = b + 1 THEN IF b = 0 THEN D!InitialBackoff ELSE Round(f[b]) ELSE f[k]]
  <2>2. Is(g, b + 1)
    <3>1. ASSUME NEW k \in 1 .. b + 1
          PROVE  g[k] = IF k = 1 THEN D!InitialBackoff ELSE Round(g[k - 1])
      BY <2>1
    <3> QED
      BY <3>1
  <2> HIDE DEF Is, g
  <2> QED
    BY <2>2
<1> HIDE DEF T
<1>3. T = Nat
  BY <1>1, <1>2, SetInduction, Zenon DEF T
<1> QED
  BY <1>3, Zenon DEF T

\* so that Uncapped follows its definition.
LEMMA UncappedIs ==
  ASSUME AttemptBound \in Nat
  PROVE  D!Uncapped = [k \in 1 .. AttemptBound |->
                         IF k = 1 THEN D!InitialBackoff ELSE Round(D!Uncapped[k - 1])]
<1>1. \E f : f = [k \in 1 .. AttemptBound |-> IF k = 1 THEN D!InitialBackoff ELSE Round(f[k - 1])]
  BY UncappedExists, Zenon
<1>2. D!Uncapped = CHOOSE f : f = [k \in 1 .. AttemptBound |->
                                     IF k = 1 THEN D!InitialBackoff ELSE Round(f[k - 1])]
  BY Zenon DEF D!Uncapped, Round
<1> QED
  BY <1>1, <1>2, Zenon

\* A positive factor makes nothing smaller.
LEMMA Grows ==
  ASSUME NEW d \in Nat \ {0}, NEW m \in Nat \ {0}
  PROVE  d * m \in Nat \ {0} /\ d <= d * m
  OBVIOUS

\* The settings of a policy are what a policy may hold.
Settings == /\ D!InitialBackoff \in Nat \ {0} /\ D!MaxBackoff \in Nat \ {0}
            /\ D!Multiplier \in Nat \ {0}

LEMMA SettingsHold ==
  ASSUME DialConstants, policy \in Policies
  PROVE  Settings
  BY DEF DialConstants, Settings, D!InitialBackoff, D!MaxBackoff, D!Multiplier

\* The delay never shrinks from one attempt to the next.
LEMMA UncappedGrows ==
  ASSUME Settings, AttemptBound \in Nat
  PROVE  \A i, j \in 1 .. AttemptBound :
           /\ D!Uncapped[j] \in Nat \ {0}
           /\ i <= j => D!Uncapped[i] <= D!Uncapped[j]
<1> DEFINE U == D!Uncapped
           Good(k) == U[k] \in Nat \ {0} /\ \A i \in 1 .. k : U[i] \in Nat \ {0} /\ U[i] <= U[k]
           T == {k \in Nat : k + 1 <= AttemptBound => Good(k + 1)}
<1>1. \A k \in 1 .. AttemptBound : U[k] = IF k = 1 THEN D!InitialBackoff ELSE Round(U[k - 1])
  BY UncappedIs
<1> HIDE DEF U
<1>2. 0 \in T
  BY <1>1 DEF Settings
<1>3. ASSUME NEW k \in T PROVE k + 1 \in T
  <2> SUFFICES ASSUME k + 2 \in 1 .. AttemptBound PROVE Good(k + 2)
    BY <1>3
  <2>1. Good(k + 1) /\ k \in Nat
    BY <1>3
  <2>2. U[k + 2] = Round(U[k + 1])
    BY <1>1, <2>1
  <2>3. U[k + 2] \in Nat \ {0} /\ U[k + 1] <= U[k + 2]
    BY <2>1, <2>2, Grows DEF Settings, Round
  <2>4. ASSUME NEW i \in 1 .. k + 2 PROVE U[i] \in Nat \ {0} /\ U[i] <= U[k + 2]
    <3>1. CASE i = k + 2
      BY <2>3, <3>1
    <3>2. CASE i \in 1 .. k + 1
      <4>1. U[i] <= U[k + 1] /\ U[i] \in Nat \ {0}
        BY <2>1, <3>2
      <4> QED
        BY <2>3, <4>1
    <3> QED
      BY <2>1, <3>1, <3>2
  <2> QED
    BY <2>3, <2>4
<1> HIDE DEF Good
<1>4. T = Nat
  <2> HIDE DEF T
  <2>1. T \subseteq Nat
    BY DEF T
  <2> QED
    BY <1>2, <1>3, <2>1, SetInduction, Zenon
<1>5. ASSUME NEW k \in 1 .. AttemptBound PROVE Good(k)
  <2>1. k - 1 \in Nat /\ (k - 1) + 1 = k /\ k <= AttemptBound
    OBVIOUS
  <2>2. (k - 1) + 1 <= AttemptBound => Good((k - 1) + 1)
    BY <1>4, <2>1, Zenon
  <2> QED
    BY <2>1, <2>2
<1> QED
  BY <1>5 DEF Good, U

\* The backoffs never shrink and never exceed MaxBackoff.
LEMMA BackoffGrows ==
  ASSUME Settings, AttemptBound \in Nat
  PROVE  \A i, j \in 1 .. AttemptBound :
           /\ D!Backoff(j) \in Nat /\ D!Backoff(j) <= D!MaxBackoff
           /\ i <= j => D!Backoff(i) <= D!Backoff(j)
<1>1. \A i, j \in 1 .. AttemptBound :
        D!Uncapped[j] \in Nat \ {0} /\ (i <= j => D!Uncapped[i] <= D!Uncapped[j])
  BY UncappedGrows
<1> QED
  BY <1>1 DEF D!Backoff, Settings

\* The invariant of Dial: the connection of an attempt is open from the
\* connect to the end of the attempt, the waits so far had the backoffs of
\* their attempts, and Retry waits only when it has not given up.
DialType ==
  /\ policy \in Policies /\ tls \in BOOLEAN
  /\ dp \in {"start", "wait", "returned"} \cup D!Stages
  /\ attempt \in 1 .. AttemptBound
  /\ ctx \in {"live", "done"} /\ lastErr \in D!Errors
  /\ result \in {"none", "client", "error", "ctx", "joined"}

Connection ==
  open = IF dp \in {"tls", "cotp", "associate"} \/ (dp = "returned" /\ result = "client")
         THEN {attempt} ELSE {}

Waits ==
  /\ DOMAIN delays \in {1 .. attempt - 1, 1 .. attempt}
  /\ dp = "wait" => DOMAIN delays = 1 .. attempt
  /\ dp \notin {"wait", "returned"} => DOMAIN delays = 1 .. attempt - 1
  /\ \A i \in DOMAIN delays : delays[i] = D!Backoff(i)

Limits ==
  /\ lastErr = "permanent" => dp = "returned"
  /\ dp = "wait" => ~ D!GivesUp(lastErr)
  /\ policy.attempts >= 0 => attempt <= policy.attempts \/ attempt = 1

DialInv == DialType /\ Connection /\ Waits /\ Limits

-----------------------------------------------------------------------------

LEMMA DialInitially ==
  ASSUME DialConstants, D!Init
  PROVE  DialInv
<1>1. DialType /\ Connection
  BY DEF DialConstants, D!Init, DialType, Connection, D!Errors
<1>2. Waits
  <2>1. DOMAIN delays = {} /\ 1 .. attempt - 1 = {}
    BY DEF D!Init
  <2> QED
    BY <2>1 DEF Waits, D!Init
<1>3. Limits
  BY DEF D!Init, Limits
<1> QED
  BY <1>1, <1>2, <1>3 DEF DialInv

\* The backoffs are those of the policy, which never changes.
LEMMA SameBackoff ==
  ASSUME UNCHANGED D!options
  PROVE  \A i : D!Backoff(i)' = D!Backoff(i)
<1>1. /\ D!InitialBackoff' = D!InitialBackoff /\ D!MaxBackoff' = D!MaxBackoff
      /\ D!Multiplier' = D!Multiplier
  BY Zenon DEF D!options, D!InitialBackoff, D!MaxBackoff, D!Multiplier
<1>2. D!Uncapped' = D!Uncapped
  BY <1>1, Zenon DEF D!Uncapped
<1> QED
  BY <1>1, <1>2, Zenon DEF D!Backoff

\* A failed attempt: Retry gives up, or waits.
LEMMA FailStep ==
  ASSUME DialConstants, DialInv, UNCHANGED D!options, dp \in D!Stages,
         NEW e \in D!AttemptErrors, D!Fails(e), open' = {}
  PROVE  DialInv'
<1> USE DEF D!options, D!AttemptErrors, D!Stages, D!Errors
<1>0. /\ attempt \in Nat /\ 1 <= attempt /\ attempt' = attempt /\ DOMAIN delays = 1 .. attempt - 1
  BY DEF DialConstants, DialInv, DialType, Waits, D!Fails
<1>1. DialType' /\ Connection'
  BY DEF DialInv, DialType, Connection, D!Fails, D!Return
<1>2. Waits'
  <2>1. CASE UNCHANGED delays /\ dp' = "returned"
    BY <1>0, <2>1, SameBackoff DEF DialInv, Waits
  <2>2. CASE delays' = [i \in 1 .. attempt |->
                          IF i = attempt THEN D!Backoff(attempt) ELSE delays[i]] /\ dp' = "wait"
    <3>1. DOMAIN delays' = 1 .. attempt
      BY <2>2
    <3>2. ASSUME NEW i \in 1 .. attempt PROVE delays'[i] = D!Backoff(i)
      BY <1>0, <2>2 DEF DialInv, Waits
    <3> QED
      BY <1>0, <2>2, <3>1, <3>2, SameBackoff DEF Waits
  <2> QED
    BY <2>1, <2>2 DEF D!Fails, D!Return
<1>3. Limits'
  BY <1>0 DEF DialInv, Limits, D!Fails, D!Return, D!GivesUp
<1> QED
  BY <1>1, <1>2, <1>3 DEF DialInv

\* Any other step.
LEMMA DialInductive ==
  ASSUME DialConstants, DialInv, [D!Next]_(D!vars)
  PROVE  DialInv'
<1> USE DEF D!options, D!Stages, D!Errors
<1>0. CASE UNCHANGED D!vars
  <2>1. UNCHANGED D!options
    BY <1>0 DEF D!vars
  <2>2. Waits'
    BY <1>0, <2>1, SameBackoff DEF D!vars, DialInv, Waits
  <2> QED
    BY <1>0, <2>2 DEF D!vars, DialInv, DialType, Connection, Limits, D!GivesUp
<1> SUFFICES ASSUME D!Step, UNCHANGED D!options PROVE DialInv'
  BY <1>0 DEF D!Next, D!Terminated
<1>1. attempt \in Nat /\ attempt \in 1 .. AttemptBound /\ AttemptBound \in Nat
  BY DEF DialConstants, DialInv, DialType
\* A step that starts no wait and stays in its attempt keeps the delays.
<1>2. ASSUME UNCHANGED <<attempt, delays>>,
             dp' = dp \/ dp' = "returned" \/ {dp, dp'} \cap {"wait", "returned"} = {}
      PROVE  Waits'
  BY <1>2, SameBackoff, Zenon DEF DialInv, Waits
<1>3. ASSUME D!AttemptBegins PROVE DialInv'
  BY <1>2, <1>3 DEF D!AttemptBegins, D!Return, DialInv, DialType, Connection, Limits, D!GivesUp
<1>4. ASSUME D!TcpConnects PROVE DialInv'
  BY <1>2, <1>4 DEF D!TcpConnects, DialInv, DialType, Connection, Limits, D!GivesUp
<1>5. ASSUME D!TcpFails PROVE DialInv'
  <2>1. PICK e \in D!AttemptErrors : D!Fails(e)
    BY <1>5 DEF D!TcpFails
  <2>2. open' = {} /\ dp \in D!Stages
    BY <1>5 DEF D!TcpFails, DialInv, Connection
  <2> QED
    BY <2>1, <2>2, FailStep
<1>6. ASSUME D!TlsSucceeds PROVE DialInv'
  BY <1>2, <1>6 DEF D!TlsSucceeds, DialInv, DialType, Connection, Limits, D!GivesUp
<1>7. ASSUME D!HandshakeFails \/ D!AssociateFails PROVE DialInv'
  <2>1. PICK e \in D!AttemptErrors : D!Fails(e)
    BY <1>7 DEF D!HandshakeFails, D!AssociateFails
  <2>2. open' = {} /\ dp \in D!Stages
    BY <1>7 DEF D!HandshakeFails, D!AssociateFails, D!CloseConn, DialInv, Connection
  <2> QED
    BY <2>1, <2>2, FailStep
<1>8. ASSUME D!CotpConnects PROVE DialInv'
  BY <1>2, <1>8 DEF D!CotpConnects, DialInv, DialType, Connection, Limits, D!GivesUp
<1>9. ASSUME D!Associates PROVE DialInv'
  BY <1>2, <1>9 DEF D!Associates, D!Return, DialInv, DialType, Connection, Limits, D!GivesUp
<1>10. ASSUME D!WaitElapses PROVE DialInv'
  <2>1. Waits'
    <3>1. attempt' - 1 = attempt /\ DOMAIN delays = 1 .. attempt
      BY <1>1, <1>10 DEF D!WaitElapses, DialInv, Waits
    <3> QED
      BY <1>10, <3>1, SameBackoff DEF D!WaitElapses, DialInv, Waits
  <2>2. Limits'
    BY <1>1, <1>10 DEF D!WaitElapses, DialInv, DialType, Limits, D!GivesUp, DialConstants
  <2> QED
    BY <1>1, <1>10, <2>1, <2>2 DEF D!WaitElapses, DialInv, DialType, Connection
<1>11. ASSUME D!WaitCtxDone PROVE DialInv'
  BY <1>2, <1>11 DEF D!WaitCtxDone, D!Return, DialInv, DialType, Connection, Limits, D!GivesUp
<1>12. ASSUME D!CtxEnds PROVE DialInv'
  BY <1>2, <1>12 DEF D!CtxEnds, DialInv, DialType, Connection, Limits, D!GivesUp
<1> QED
  BY <1>3, <1>4, <1>5, <1>6, <1>7, <1>8, <1>9, <1>10, <1>11, <1>12 DEF D!Step

LEMMA DialConsequences ==
  ASSUME DialConstants, DialInv
  PROVE  D!ConnectionsInv /\ D!PolicyKept
<1>1. attempt \in 1 .. AttemptBound /\ AttemptBound \in Nat /\ attempt \in Nat
  BY DEF DialConstants, DialInv, DialType
<1>2. \A i, j \in 1 .. AttemptBound :
        /\ D!Backoff(j) \in Nat /\ D!Backoff(j) <= D!MaxBackoff
        /\ i <= j => D!Backoff(i) <= D!Backoff(j)
  <2>1. Settings
    BY SettingsHold DEF DialInv, DialType
  <2> QED
    BY <1>1, <2>1, BackoffGrows
<1>3. DOMAIN delays \subseteq 1 .. AttemptBound
  BY <1>1 DEF DialInv, Waits
<1>4. \A i, j \in DOMAIN delays :
        delays[i] \in Nat /\ (i <= j => delays[i] <= delays[j] /\ delays[j] <= D!MaxBackoff)
  BY <1>2, <1>3 DEF DialInv, Waits
<1>5. Cardinality(open) <= 1
  <2>1. Cardinality({}) = 0 /\ Cardinality({attempt}) = 1
    BY FS_EmptySet, FS_Singleton, Zenon
  <2>2. open = {} \/ open = {attempt}
    BY DEF DialInv, Connection
  <2> QED
    BY <2>1, <2>2
<1>6. D!TypeOK
  <2>1. open \subseteq 1 .. AttemptBound
    BY <1>1, Zenon DEF DialInv, Connection
  <2>2. D!Cardinality(open) <= 1
    BY <1>5, Zenon DEF D!Cardinality, Cardinality
  <2> QED
    BY <1>4, <2>1, <2>2, Zenon DEF DialInv, DialType, D!TypeOK
<1>7. D!NoLeakedConnection
  BY DEF DialInv, Connection, D!NoLeakedConnection
<1> QED
  BY <1>4, <1>6, <1>7 DEF DialInv, Limits, D!ConnectionsInv, D!PolicyKept

\* For every policy: no connection outlives its attempt, whichever stage it
\* fails at, and a client has the connection of the last attempt.
THEOREM ConnectionsKept ==
  ASSUME DialConstants
  PROVE  D!Spec => []D!ConnectionsInv
<1>1. D!Init => DialInv
  BY DialInitially
<1>2. DialInv /\ [D!Next]_(D!vars) => DialInv'
  BY DialInductive
<1>3. DialInv => D!ConnectionsInv
  BY DialConsequences
<1> QED
  BY <1>1, <1>2, <1>3, PTL DEF D!Spec

\* For every policy: a permanent error and the number of attempts end the
\* retries, and the delays never shrink and never exceed MaxBackoff.
THEOREM PolicyHolds ==
  ASSUME DialConstants
  PROVE  D!Spec => []D!PolicyKept
<1>1. D!Init => DialInv
  BY DialInitially
<1>2. DialInv /\ [D!Next]_(D!vars) => DialInv'
  BY DialInductive
<1>3. DialInv => D!PolicyKept
  BY DialConsequences
<1> QED
  BY <1>1, <1>2, <1>3, PTL DEF D!Spec

-----------------------------------------------------------------------------
(* The listener: for any number of connections and any bound on the        *)
(* pending handshakes.  The number of tokens in Listener.pending is the    *)
(* number of handshake goroutines, so no way out of one gives back a token *)
(* it has not got; and the timer of a connection that left its handshake   *)
(* was stopped before it fired, so nothing moves the deadline of a         *)
(* transport that Accept returned.                                         *)

CONSTANTS Conns, MaxPending
VARIABLES timeout, lp, err, closed, lnClosed, pending, cp, timer, deadline, ap, serveCtx,
          shutdown, closing
L == INSTANCE Listener WITH ctx <- serveCtx

\* What the proofs take for granted of the constants.
ListenConstants == IsFiniteSet(Conns) /\ MaxPending \in Nat

Handshaking == {c \in Conns : cp[c] \in L!InHandshake}

\* Once the AfterFunc of a connection is stopped it never runs, and a
\* connection past "stop" has a stopped one.
TimersStopped ==
  \A c \in Conns : /\ cp[c] \in {"clear", "offer", "served"} => timer[c] = "stopped"
                   /\ cp[c] \in {"offer", "served"} => deadline[c] = "none"

ListenInv == L!TypeOK /\ pending = Cardinality(Handshaking) /\ TimersStopped

-----------------------------------------------------------------------------

\* A connection enters its handshake, leaves it, or stays on its side: the
\* number of handshakes grows by one, shrinks by one, or is the same.
LEMMA HandshakeCount ==
  ASSUME ListenConstants, L!TypeOK, NEW c \in Conns, NEW at, L!Goto(c, at)
  PROVE  /\ Cardinality(Handshaking) \in Nat
         /\ cp[c] \notin L!InHandshake /\ at \in L!InHandshake =>
              Cardinality(Handshaking)' = Cardinality(Handshaking) + 1
         /\ cp[c] \in L!InHandshake /\ at \notin L!InHandshake =>
              /\ Cardinality(Handshaking)' = Cardinality(Handshaking) - 1
              /\ Cardinality(Handshaking) > 0
         /\ (cp[c] \in L!InHandshake <=> at \in L!InHandshake) =>
              Cardinality(Handshaking)' = Cardinality(Handshaking)
<1>1. IsFiniteSet(Handshaking)
  BY FS_Subset DEF ListenConstants, Handshaking
<1>2. Cardinality(Handshaking) \in Nat
  BY <1>1, FS_CardinalityType
<1>3. CASE cp[c] \notin L!InHandshake /\ at \in L!InHandshake
  <2>1. Handshaking' = Handshaking \cup {c} /\ c \notin Handshaking
    BY <1>3 DEF Handshaking, L!Goto, L!TypeOK
  <2> QED
    BY Zenon, <1>1, <1>2, <1>3, <2>1, FS_AddElement
<1>4. CASE cp[c] \in L!InHandshake /\ at \notin L!InHandshake
  <2>1. Handshaking' = Handshaking \ {c} /\ c \in Handshaking
    BY <1>4 DEF Handshaking, L!Goto, L!TypeOK
  <2>2. Cardinality(Handshaking) # 0
    BY <1>1, <2>1, FS_EmptySet
  <2> QED
    <3>1. Cardinality(Handshaking \ {c}) = Cardinality(Handshaking) - 1
      BY Zenon, <1>1, <2>1, FS_RemoveElement
    <3> QED
      BY <1>2, <1>4, <2>1, <2>2, <3>1
<1>5. CASE cp[c] \in L!InHandshake <=> at \in L!InHandshake
  <2>1. Handshaking' = Handshaking
    BY <1>5 DEF Handshaking, L!Goto, L!TypeOK
  <2> QED
    BY <1>2, <1>5, <2>1
<1> QED
  BY <1>2, <1>3, <1>4, <1>5

\* The invariant holds when the listener is created.
LEMMA ListenInitially ==
  ASSUME ListenConstants, L!Init
  PROVE  ListenInv
<1>1. L!TypeOK
  <2>1. 0 \in 0 .. MaxPending
    BY DEF ListenConstants
  <2>2. cp \in [Conns -> {"out", "backlog", "accepted", "served", "closed"} \cup L!InHandshake]
    BY DEF L!Init
  <2> QED
    BY Zenon, <2>1, <2>2 DEF L!Init, L!TypeOK
<1>2. Handshaking = {}
  BY DEF L!Init, Handshaking, L!InHandshake
<1> QED
  BY <1>1, <1>2, FS_EmptySet DEF L!Init, ListenInv, TimersStopped

\* Every step of the accept loop, of a handshake, of ListenAndServe or of
\* Shutdown preserves it.
LEMMA ListenInductive ==
  ASSUME ListenConstants, ListenInv, [L!Next]_(L!vars)
  PROVE  ListenInv'
<1> USE DEF L!loopVars, L!closeVars, L!connVars, L!serveVars
<1>0. L!TypeOK /\ TimersStopped /\ pending = Cardinality(Handshaking)
  BY DEF ListenInv
<1>1. ASSUME NEW c \in Conns, L!Connect(c) \/ L!LoopAccept(c) \/ L!HandshakeCompletes(c)
               \/ L!ServeReturns(c)
      PROVE  ListenInv'
  <2>1. PICK at \in {"backlog", "accepted", "stop", "closed"} :
          L!Goto(c, at) /\ (cp[c] \in L!InHandshake <=> at \in L!InHandshake)
    BY <1>1 DEF L!Connect, L!LoopAccept, L!HandshakeCompletes, L!ServeReturns, L!InHandshake
  <2>2. L!TypeOK'
    BY <1>0, <1>1, <2>1 DEF L!TypeOK, L!Connect, L!LoopAccept, L!HandshakeCompletes,
       L!ServeReturns, L!Goto,
       L!InHandshake
  <2>3. TimersStopped'
    BY <1>0, <1>1, <2>1 DEF L!TypeOK, TimersStopped, L!Connect, L!LoopAccept,
       L!HandshakeCompletes,
       L!ServeReturns, L!Goto
  <2>4. UNCHANGED pending
    BY <1>1 DEF L!Connect, L!LoopAccept, L!HandshakeCompletes, L!ServeReturns
  <2> QED
    BY <1>0, <2>1, <2>2, <2>3, <2>4, HandshakeCount DEF ListenInv
<1>2. ASSUME NEW c \in Conns, L!TakeSlot(c) PROVE ListenInv'
  <2>1. CASE L!Acquire /\ L!Goto(c, "handshake") /\ lp' = "accept" /\ UNCHANGED err
    <3>1. Cardinality(Handshaking)' = Cardinality(Handshaking) + 1
      BY <1>0, <1>2, <2>1, HandshakeCount DEF L!TakeSlot, L!InHandshake
    <3>2. L!TypeOK'
      BY <1>0, <1>2, <2>1 DEF ListenConstants, L!TypeOK, L!TakeSlot, L!Acquire, L!Goto,
         L!InHandshake
    <3>3. TimersStopped'
      BY <1>0, <1>2, <2>1 DEF L!TypeOK, TimersStopped, L!TakeSlot, L!Goto
    <3> QED
      BY <1>0, <2>1, <3>1, <3>2, <3>3 DEF ListenInv, L!Acquire
  <2>2. CASE closed /\ L!Goto(c, "closed") /\ L!LoopStops("closed") /\ UNCHANGED pending
    <3>1. Cardinality(Handshaking)' = Cardinality(Handshaking)
      BY <1>0, <1>2, <2>2, HandshakeCount DEF L!TakeSlot, L!InHandshake
    <3>2. L!TypeOK'
      BY <1>0, <1>2, <2>2 DEF L!TypeOK, L!TakeSlot, L!LoopStops, L!Goto, L!InHandshake
    <3>3. TimersStopped'
      BY <1>0, <1>2, <2>2 DEF L!TypeOK, TimersStopped, L!TakeSlot, L!Goto
    <3> QED
      BY <1>0, <2>2, <3>1, <3>2, <3>3 DEF ListenInv
  <2> QED
    BY <1>2, <2>1, <2>2 DEF L!TakeSlot
<1>3. ASSUME NEW c \in Conns, NEW at \in {"served", "closed"}, cp[c] \in L!InHandshake,
             at = "served" => cp[c] = "offer",
             L!Goto(c, at), L!Release,
             UNCHANGED <<timeout, L!loopVars, L!closeVars, timer, deadline, L!serveVars>>
      PROVE  ListenInv'
  <2>1. Cardinality(Handshaking)' = Cardinality(Handshaking) - 1 /\ Cardinality(Handshaking) > 0
    BY <1>0, <1>3, HandshakeCount DEF L!InHandshake
  <2>2. L!TypeOK'
    BY <1>0, <1>3, <2>1 DEF ListenConstants, L!TypeOK, L!Release, L!Goto, L!InHandshake
  <2>3. TimersStopped'
    BY <1>0, <1>3 DEF L!TypeOK, TimersStopped, L!Goto
  <2> QED
    BY <1>0, <1>3, <2>1, <2>2, <2>3 DEF ListenInv, L!Release
<1>4. ASSUME NEW c \in Conns,
             L!HandshakeFails(c) \/ L!HandshakeTimesOut(c) \/ L!HandOver(c) \/ L!Withdraw(c)
      PROVE  ListenInv'
  BY <1>3, <1>4 DEF L!HandshakeFails, L!HandshakeTimesOut, L!HandOver, L!Withdraw, L!InHandshake
<1>5. ASSUME NEW c \in Conns, L!StopTimer(c) PROVE ListenInv'
  <2>1. CASE L!Stopped(c)
    <3>1. L!Goto(c, "clear") /\ timer' = [timer EXCEPT ![c] = "stopped"] /\ UNCHANGED pending
      BY <1>5, <2>1 DEF L!StopTimer, L!Stopped
    <3>2. Cardinality(Handshaking)' = Cardinality(Handshaking)
      BY <1>0, <1>5, <3>1, HandshakeCount DEF L!StopTimer, L!InHandshake
    <3>3. L!TypeOK'
      BY <1>0, <1>5, <3>1 DEF L!TypeOK, L!StopTimer, L!Goto, L!InHandshake
    <3>4. TimersStopped'
      BY <1>0, <1>5, <3>1 DEF L!TypeOK, TimersStopped, L!StopTimer, L!Goto
    <3> QED
      BY <1>0, <3>1, <3>2, <3>3, <3>4 DEF ListenInv
  <2> QED
    BY <1>3, <1>5, <2>1 DEF L!StopTimer, L!InHandshake
<1>6. ASSUME NEW c \in Conns, L!ClearDeadline(c) PROVE ListenInv'
  <2>1. Cardinality(Handshaking)' = Cardinality(Handshaking)
    BY <1>0, <1>6, HandshakeCount DEF L!ClearDeadline, L!InHandshake
  <2>2. L!TypeOK'
    BY <1>0, <1>6 DEF L!TypeOK, L!ClearDeadline, L!Goto, L!InHandshake
  <2>3. TimersStopped'
    BY <1>0, <1>6 DEF L!TypeOK, TimersStopped, L!ClearDeadline, L!Goto
  <2> QED
    BY <1>0, <1>6, <2>1, <2>2, <2>3 DEF ListenInv, L!ClearDeadline
<1>7. ASSUME NEW c \in Conns, L!TimerFires(c) \/ L!MoveDeadline(c) PROVE ListenInv'
  <2>1. L!TypeOK'
    BY <1>0, <1>7 DEF L!TypeOK, L!TimerFires, L!MoveDeadline
  <2>2. TimersStopped'
    BY <1>0, <1>7 DEF L!TypeOK, TimersStopped, L!TimerFires, L!MoveDeadline
  <2>3. UNCHANGED <<pending, cp>>
    BY <1>7 DEF L!TimerFires, L!MoveDeadline
  <2> QED
    BY <1>0, <2>1, <2>2, <2>3 DEF ListenInv, Handshaking
<1>8. ASSUME L!TypeOK', UNCHANGED L!connVars PROVE ListenInv'
  BY <1>0, <1>8 DEF ListenInv, TimersStopped, Handshaking
<1>9. CASE L!LoopFails \/ L!Backoff
  BY <1>0, <1>8, <1>9 DEF L!TypeOK, L!LoopFails, L!Backoff, L!LoopStops
<1>10. CASE L!Serving \/ L!Shutdown \/ L!CtxEnds
  <2>1. CASE L!ListenAndServe \/ L!AcceptCtxDone \/ L!AcceptFails \/ L!ListenAndServeReturns
    BY <1>0, <1>8, <2>1 DEF L!TypeOK, L!ListenAndServe, L!AcceptCtxDone, L!AcceptFails,
       L!ListenAndServeReturns
  <2>2. CASE L!Close \/ L!CloseListener
    <3>1. closed' \in BOOLEAN /\ lnClosed' \in BOOLEAN
      BY <1>0, <2>2, Zenon DEF L!TypeOK, L!Close, L!CloseListener, L!LnClose
    <3>2. UNCHANGED <<timeout, L!loopVars, L!connVars, L!serveVars>>
      BY <2>2 DEF L!Close, L!CloseListener
    <3>3. L!TypeOK'
      BY <1>0, <3>1, <3>2 DEF L!TypeOK
    <3> QED
      BY <1>8, <3>2, <3>3
  <2>3. CASE L!Shutdown \/ L!CtxEnds
    <3>1. shutdown' \in BOOLEAN /\ closing' \in BOOLEAN
      BY <1>0, <2>3, Zenon DEF L!TypeOK, L!Shutdown, L!CtxEnds
    <3>2. UNCHANGED <<timeout, L!loopVars, L!closeVars, L!connVars, ap>>
          /\ serveCtx' \in {"live", "done"}
      BY <1>0, <2>3 DEF L!TypeOK, L!Shutdown, L!CtxEnds
    <3>3. L!TypeOK'
      BY <1>0, <3>1, <3>2 DEF L!TypeOK
    <3> QED
      BY <1>8, <3>2, <3>3
  <2> QED
    BY <1>10, <2>1, <2>2, <2>3 DEF L!Serving
<1>11. CASE UNCHANGED L!vars
  BY <1>0, <1>8, <1>11 DEF L!TypeOK, L!vars
<1> QED
  BY <1>1, <1>2, <1>4, <1>5, <1>6, <1>7, <1>9, <1>10, <1>11
     DEF L!Next, L!Loop, L!Handshake, L!Terminated

\* The semaphore counts the handshake goroutines on every way out of them and
\* never exceeds maxPendingHandshakes; a transport that Accept returned has no
\* deadline, and a timer that fires late never gives it one.
THEOREM TransportsSafe ==
  ASSUME ListenConstants
  PROVE  L!Spec => []L!TransportsInv
<1>1. ListenInv => L!TransportsInv
  BY DEF ListenInv, L!TypeOK, L!TransportsInv, L!SlotsInv, L!SlotsAccounted, L!NoDeadlineLeft,
     TimersStopped,
     Handshaking, Cardinality, L!Cardinality
<1>2. L!Init => ListenInv
  BY ListenInitially
<1>3. ListenInv /\ [L!Next]_(L!vars) => ListenInv'
  BY ListenInductive
<1> QED
  BY <1>1, <1>2, <1>3, PTL DEF L!Spec

=============================================================================
