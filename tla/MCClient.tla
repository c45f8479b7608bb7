------------------------------ MODULE MCClient ------------------------------
(***************************************************************************)
(* Model checking of Client.  Calls are interchangeable for safety.  For   *)
(* liveness a behaviour is either two calls on an association that nobody  *)
(* ends, of which First begins first, or that one call against Close and   *)
(* Abort.                                                                  *)
(***************************************************************************)
EXTENDS Client, TLC

CONSTANT First

VARIABLE plan

CallSymmetry == Permutations(Calls)

Planned ==
  /\ plan = "calls" => mode' = "none" /\ (pc'[First] = "idle" => \A c \in Calls : pc'[c] = "idle")
  /\ plan = "ends" => \A c \in Calls \ {First} : pc'[c] = "idle"

\* The other call never begins: everything that did has come to rest.
Rests ==
  /\ plan = "ends" /\ closer \in {"idle", "return"} /\ reader = "done"
  /\ pc[First] = "return" /\ wpc[First] \in {"none", "exit"}
  /\ UNCHANGED <<vars, plan>>

SafetyInit == Init /\ plan = "any"
SafetySpec == SafetyInit /\ [][Next /\ UNCHANGED plan]_<<vars, plan>>

LiveInit == Init /\ plan \in {"calls", "ends"}
LiveSpec ==
  /\ LiveInit
  /\ [][(Next /\ Planned /\ UNCHANGED plan) \/ Rests]_<<vars, plan>>
  /\ Fairness

=============================================================================
