---------------------------- MODULE Negotiation ----------------------------
(***************************************************************************)
(* Association parameters and the PDU size.                                *)
(*                                                                         *)
(* A client proposes a PDU size, two outstanding-call counts and a nesting *)
(* level (DefaultInitiateRequest); the server answers with its own choice  *)
(* (Conn.negotiate) and keeps it; the client derives its values from the   *)
(* answer (applyNegotiatedParams).  After that both ends compare the size  *)
(* of every PDU with their own copy of the negotiated size: the server     *)
(* skips a larger request and answers with a ServiceError in place of a    *)
(* larger response, the client ends the association when a larger PDU      *)
(* arrives.                                                                *)
(*                                                                         *)
(* A PDU is its size.  The server is a go-mms server or, when foreign is   *)
(* TRUE, another implementation, of which only its Initiate answer is      *)
(* modelled: any values, 0 standing for an absent optional field.  Not     *)
(* modelled: the parameter CBB and the services bit string, which are      *)
(* echoed.                                                                 *)
(***************************************************************************)
EXTENDS Integers

CONSTANTS
    PduOptions,     \* configured MaxPDUSize values, 0 for "not set"
    CountOptions,   \* configured counts and nesting levels, 0 for "not set"
    DefaultPdu,     \* 65000
    DefaultCount,   \* 5
    DefaultNesting, \* 10
    MinPdu,         \* minPDUSize, 128
    ErrorSize,      \* largest encoding of a confirmed ServiceError
    Sizes           \* sizes of encoded requests, responses and reports

ASSUME OptionsAssumption ==
    /\ PduOptions \subseteq Nat
    /\ CountOptions \subseteq Nat

ASSUME DefaultsAssumption ==
    /\ DefaultPdu \in Nat \ {0}
    /\ DefaultCount \in Nat \ {0}
    /\ DefaultNesting \in Nat \ {0}

ASSUME SizesAssumption ==
    /\ Sizes \subseteq Nat
    /\ ErrorSize \in Nat
    /\ MinPdu \in Nat \ {0}
    /\ ErrorSize <= MinPdu

Params == [pdu : Nat, calling : Nat, called : Nat, nesting : Nat]
Proposals == [pdu : Nat \ {0}, calling : Nat \ {0},
              called : Nat \ {0}, nesting : Nat \ {0}]
Options == [pdu : PduOptions, calling : CountOptions,
            called : CountOptions, nesting : CountOptions]

Unset == [pdu |-> 0, calling |-> 0, called |-> 0, nesting |-> 0]
Idle == [kind |-> "none", size |-> 0]

VARIABLES
    opts,      \* MMSOptions of the client
    foreign,   \* the server is not a go-mms server
    stage,     \* of the association
    req,       \* the Initiate request
    conn,      \* Conn.mmsOpts: configured, then negotiated, values
    resp,      \* the Initiate response
    client,    \* the negotiated fields of Client
    call,      \* the confirmed request of the client: idle, sent or skipped
    wire       \* the PDU on its way to the receiver: its kind and size

vars == <<opts, foreign, stage, req, conn, resp, client, call, wire>>

Least(a, b) == IF a < b THEN a ELSE b
ClampMin(v, low) == IF v < low THEN low ELSE v
OrElse(v, default) == IF v <= 0 THEN default ELSE v

-----------------------------------------------------------------------------

(* DefaultInitiateRequest and ServerMMSOptions.withDefaults *)
WithDefaults(o) ==
    [pdu     |-> OrElse(o.pdu, DefaultPdu),
     calling |-> OrElse(o.calling, DefaultCount),
     called  |-> OrElse(o.called, DefaultCount),
     nesting |-> OrElse(o.nesting, DefaultNesting)]

Init ==
    /\ opts \in Options
    /\ foreign \in BOOLEAN
    /\ stage = "new"
    /\ IF foreign THEN conn = Unset
                  ELSE \E o \in Options : conn = WithDefaults(o)
    /\ req = Unset /\ resp = Unset /\ client = Unset
    /\ call = "idle"
    /\ wire = Idle

(* Client.associate, up to the send of the Initiate request *)
Initiate ==
    /\ stage = "new"
    /\ stage' = "requested"
    /\ req' = WithDefaults(opts)
    /\ UNCHANGED <<opts, foreign, conn, resp, client, call, wire>>

(* Conn.negotiate *)
Negotiate(own, r) ==
    [pdu     |-> ClampMin(Least(own.pdu, r.pdu), MinPdu),
     calling |-> ClampMin(Least(own.calling, r.calling), 1),
     called  |-> ClampMin(Least(own.called, r.called), 1),
     nesting |-> ClampMin(Least(own.nesting, r.nesting), 1)]

AcceptAssociation_Mutant ==
    /\ stage = "requested" /\ ~foreign
    /\ stage' = "answered"
    /\ resp' = Negotiate(conn, req)
    /\ UNCHANGED <<opts, foreign, req, conn, client, call, wire>>

(* Conn.AcceptAssociation: the values are sent, then kept *)
AcceptAssociation ==
    /\ stage = "requested" /\ ~foreign
    /\ stage' = "answered"
    /\ resp' = Negotiate(conn, req)
    /\ conn' = Negotiate(conn, req)
    /\ UNCHANGED <<opts, foreign, req, client, call, wire>>

(* The answer of another implementation *)
ForeignAnswer(r) ==
    /\ stage = "requested" /\ foreign
    /\ stage' = "answered"
    /\ resp' = r
    /\ UNCHANGED <<opts, foreign, req, conn, client, call, wire>>

(* Client.applyNegotiatedParams: the values of an answer with a valid version *)
Applied(r, a) ==
    [pdu     |-> OrElse(a.pdu, r.pdu),
     calling |-> OrElse(Least(r.calling, a.calling), 1),
     called  |-> OrElse(Least(r.called, a.called), 1),
     nesting |-> OrElse(a.nesting, r.nesting)]

ApplyNegotiatedParams ==
    /\ stage = "answered"
    /\ stage' = "associated"
    /\ client' = Applied(req, resp)
    /\ UNCHANGED <<opts, foreign, req, conn, resp, call, wire>>

(* NegotiatedVersion <= 0: ErrNegotiationFailed.  A go-mms server answers 1. *)
InvalidVersion ==
    /\ stage = "answered" /\ foreign
    /\ stage' = "failed"
    /\ client' = Applied(req, resp)
    /\ UNCHANGED <<opts, foreign, req, conn, resp, call, wire>>

-----------------------------------------------------------------------------
(* Client.sendConfirmed: nothing compares a request with the negotiated size *)
SendConfirmed(n) ==
    /\ stage = "associated" /\ ~foreign
    /\ call = "idle" /\ wire = Idle
    /\ call' = "sent"
    /\ wire' = [kind |-> "request", size |-> n]
    /\ UNCHANGED <<opts, foreign, stage, req, conn, resp, client>>

(* Conn.Serve: a request above the negotiated size is skipped, unanswered *)
SkipOversize ==
    /\ wire.kind = "request" /\ wire.size > conn.pdu
    /\ call' = "skipped"
    /\ wire' = Idle
    /\ UNCHANGED <<opts, foreign, stage, req, conn, resp, client>>

Answer_Mutant(n) == n

(* Conn.handleConfirmedRequest: a response that does not fit is replaced *)
Answer(n) == IF n > conn.pdu THEN ErrorSize ELSE n

HandleConfirmedRequest(n) ==
    /\ wire.kind = "request" /\ wire.size <= conn.pdu
    /\ wire' = [kind |-> "response", size |-> Answer(n)]
    /\ UNCHANGED <<opts, foreign, stage, req, conn, resp, client, call>>

(* Conn.SendUnconfirmed: sent whatever its size *)
SendUnconfirmed(n) ==
    /\ stage = "associated" /\ ~foreign
    /\ wire = Idle
    /\ wire' = [kind |-> "report", size |-> n]
    /\ UNCHANGED <<opts, foreign, stage, req, conn, resp, client, call>>

ToClient == wire.kind \in {"response", "report"}

(* Client.readerLoop: checkPDUSize fails and the association ends *)
RejectOversize ==
    /\ stage = "associated" /\ ToClient
    /\ wire.size > client.pdu
    /\ stage' = "lost"
    /\ UNCHANGED <<opts, foreign, req, conn, resp, client, call, wire>>

(* Client.readerLoop: the PDU is dispatched; a response ends the call *)
Deliver ==
    /\ stage = "associated" /\ ToClient
    /\ wire.size <= client.pdu
    /\ call' = IF wire.kind = "response" THEN "idle" ELSE call
    /\ wire' = Idle
    /\ UNCHANGED <<opts, foreign, stage, req, conn, resp, client>>

(* The context of a call whose request was skipped ends *)
CallTimesOut ==
    /\ stage = "associated" /\ call = "skipped"
    /\ call' = "idle"
    /\ UNCHANGED <<opts, foreign, stage, req, conn, resp, client, wire>>

Next ==
    \/ Initiate
    \/ AcceptAssociation
    \/ \E r \in Options : ForeignAnswer(r)
    \/ ApplyNegotiatedParams
    \/ InvalidVersion
    \/ \E n \in Sizes : SendConfirmed(n)
    \/ SkipOversize
    \/ \E n \in Sizes : HandleConfirmedRequest(n)
    \/ \E n \in Sizes : SendUnconfirmed(n)
    \/ RejectOversize
    \/ Deliver
    \/ CallTimesOut

Spec == Init /\ [][Next]_vars

-----------------------------------------------------------------------------
Stages == {"new", "requested", "answered", "associated", "failed", "lost"}
Kinds == {"none", "request", "response", "report"}

(* Every variable has its type: a request proposes only positive values,   *)
(* whatever options are left at zero.                                      *)
TypeOK ==
    /\ opts \in Options
    /\ foreign \in BOOLEAN
    /\ stage \in Stages
    /\ IF stage = "new" THEN req = Unset ELSE req \in Proposals
    /\ IF foreign THEN conn = Unset ELSE conn \in Proposals
    /\ resp \in Params /\ client \in Params
    /\ call \in {"idle", "sent", "skipped"}
    /\ wire \in [kind : Kinds, size : Nat]

Associated == stage \in {"associated", "lost"}

(* Two go-mms ends that have associated work with the same four values,    *)
(* although AcceptAssociation and applyNegotiatedParams derive them by     *)
(* different rules from different inputs.                                  *)
Agreed == Associated /\ ~foreign => client = conn

(* Whatever a server answers, applyNegotiatedParams leaves a client whose  *)
(* outstanding-call counts are at least 1 and at most what it proposed,    *)
(* and whose size and nesting limits are set.                              *)
Usable ==
    Associated =>
        /\ client.calling \in 1 .. req.calling
        /\ client.called \in 1 .. req.called
        /\ client.pdu > 0 /\ client.nesting > 0

\* What an association runs on is agreed by its ends and usable.
Negotiated == Agreed /\ Usable

(* No response of the server, the ServiceError sent in place of a large    *)
(* one included, ends the association in checkPDUSize: only a report can.  *)
AnswersFit ==
    /\ wire.kind = "response" => wire.size <= client.pdu
    /\ stage = "lost" => wire.kind = "report"

=============================================================================
