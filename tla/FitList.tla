------------------------------- MODULE FitList -------------------------------
(***************************************************************************)
(* fitList of the server: the complete encoding first, then a bisection    *)
(* for the longest prefix that fits the negotiated PDU size.  It answers   *)
(* GetNameList, FileDirectory and ReadJournal.                             *)
(*                                                                         *)
(* An encoding is its length: size[k] for the first k elements, marked as  *)
(* truncated, and full for all of them.                                    *)
(***************************************************************************)
EXTENDS Integers

CONSTANTS MaxN, MaxSize  \* bounds: elements of a list, octets of an encoding

ASSUME MaxNAssumption == MaxN \in Nat
ASSUME MaxSizeAssumption == MaxSize \in Nat

VARIABLES
  n, budget, full, size,  \* the arguments: list, budget and encodings
  pc, lo, hi,             \* control point and bounds of the search
  best,                   \* elements of the best encoding so far, 0 when nil
  answer                  \* what fitList returns

args == <<n, budget, full, size>>
vars == <<args, pc, lo, hi, best, answer>>

LP == INSTANCE LongestPrefix
        WITH n <- n, budget <- budget, full <- full, size <- size, answer <- answer

Init ==
  /\ LP!Init
  /\ pc = "full"
  /\ lo = 1 /\ hi = n - 1
  /\ best = 0

\* The complete list, when it fits.
EncodeAll ==
  /\ pc = "full"
  /\ \/ /\ full <= budget
        /\ answer' = LP!All
        /\ pc' = "done"
     \/ /\ full > budget
        /\ pc' = "loop"
        /\ UNCHANGED answer
  /\ UNCHANGED <<args, lo, hi, best>>

Mid == (lo + hi) \div 2

\* The half of the search that is left after one encoding.
Upper == Mid + 1
Lower_Mutant == Mid - 2
Lower == Mid - 1

EncodePrefix ==
  /\ pc = "loop"
  /\ lo <= hi
  /\ \/ /\ size[Mid] <= budget
        /\ best' = Mid
        /\ lo' = Upper
        /\ UNCHANGED hi
     \/ /\ size[Mid] > budget
        /\ hi' = Lower
        /\ UNCHANGED <<lo, best>>
  /\ UNCHANGED <<args, pc, answer>>

\* An encoding fails, the complete one or that of a prefix.
EncodeFails ==
  /\ pc = "full" \/ (pc = "loop" /\ lo <= hi)
  /\ answer' = LP!Failed
  /\ pc' = "done"
  /\ UNCHANGED <<args, lo, hi, best>>

Result == IF best = 0 THEN LP!TooLarge ELSE LP!Prefix(best)

Return ==
  /\ pc = "loop"
  /\ lo > hi
  /\ answer' = Result
  /\ pc' = "done"
  /\ UNCHANGED <<args, lo, hi, best>>

Terminated == pc = "done" /\ UNCHANGED vars

Next == EncodeAll \/ EncodePrefix \/ EncodeFails \/ Return \/ Terminated

Spec == Init /\ [][Next]_vars

\* A handler runs to its end.
FairSpec == Spec /\ WF_vars(EncodeAll \/ EncodePrefix \/ Return)

-----------------------------------------------------------------------------

\* The bisection keeps the longest prefix between best and the upper bound:
\* everything up to best fits, everything beyond hi does not.
Bracketed ==
  pc = "loop" =>
    /\ best = lo - 1 /\ lo <= n + 1 /\ hi <= n - 1 /\ (lo <= hi + 1 \/ n = 0)
    /\ best # 0 => LP!Fits(best)
    /\ \A k \in hi + 1 .. n - 1 : size[k] > budget

\* fitList implements its promise: the longest prefix that fits, an error
\* only when not even one element does.
Implements == LP!Spec

\* The search ends, for every list and budget.
Ends == <>(pc = "done")

=============================================================================
