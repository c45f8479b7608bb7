----------------------------- MODULE BerStream -----------------------------
(***************************************************************************)
(* A message on its way through the codec: it is encoded, and its octets   *)
(* reach ber_decode in pieces, each a few octets or all that is left.      *)
(* After each piece the decoder is called with the octets it has not       *)
(* consumed and the structure it has built so far.                         *)
(***************************************************************************)
EXTENDS Ber

CONSTANTS
    Grammar,        \* the dissector's types
    Type,           \* the type being exchanged
    Pdus,           \* its values the model tries
    MaxPiece        \* the most octets a piece has that is not the last

Wireshark == INSTANCE Dissector

VARIABLES
    pdu,            \* the value sent
    octets,         \* its encoding
    fed,            \* how many octets have arrived
    taken,          \* how many of them the decoder has consumed
    tree,           \* the structure it is building
    verdict         \* what the decoder said last

vars == <<pdu, octets, fed, taken, tree, verdict>>

Init ==
    /\ pdu \in Pdus
    /\ \E indefinite \in BOOLEAN : octets = Encode(Type, pdu, 0, 0, indefinite)
    /\ fed = 0
    /\ taken = 0
    /\ tree = Absent
    /\ verdict = "WMORE"

\* k more octets arrive
ber_decode(k) ==
    /\ verdict = "WMORE"
    /\ fed + k <= Len(octets)
    /\ fed' = fed + k
    /\ \E r \in {Decode(octets, taken + 1, fed + k - taken, Type, tree, 0)} :
           /\ taken' = taken + r.used
           /\ tree' = r.st
           /\ verdict' = r.code
    /\ UNCHANGED <<pdu, octets>>

\* A few octets, or all that is left
Next == \E k \in 1 .. MaxPiece \cup {Len(octets) - fed} : ber_decode(k)

Spec == Init /\ [][Next]_vars
-----------------------------------------------------------------------------
(***************************************************************************)
(* No part of a message is mistaken for the message or for a bad one:      *)
(* ber_decode asks for more until the last octet is there, and never       *)
(* consumes an octet that has not arrived.                                 *)
(***************************************************************************)
WantsMore ==
    /\ fed < Len(octets) => verdict = "WMORE"
    /\ taken <= fed

(***************************************************************************)
(* However the octets are cut (Next), the decoder accepts the whole        *)
(* message, consumes all of it, and has built the value that was encoded:  *)
(* the one that is read when the message is there at once.                 *)
(***************************************************************************)
RoundTrip ==
    fed = Len(octets) => /\ verdict = "OK"
                         /\ taken = fed
                         /\ ValueOf(tree) = pdu
                         /\ Whole(Type, octets, ElementAt(octets, 1, fed + 1), 0) = pdu \/ octets[2] = 128

(***************************************************************************)
(* What the stack's DER encoder sends is a message of the MMS grammar: the *)
(* Wireshark dissector reads every octet of it as one MMSpdu, and so the   *)
(* stack's type tables and the dissector's are the same protocol, but for  *)
(* the few alternatives of Undissected, which the dissector does not know. *)
(***************************************************************************)
Dissected ==
    fed = 0 =>
        (Wireshark!dissect_mms(Encode(Type, pdu, 0, 0, FALSE)) <=> ~Uses(Type, pdu))
=============================================================================
