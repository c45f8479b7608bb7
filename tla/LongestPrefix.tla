---------------------------- MODULE LongestPrefix ----------------------------
(***************************************************************************)
(* What fitList promises: of a list of n elements it answers with all of   *)
(* them when they fit the budget of a response, else with the longest      *)
(* prefix that does, else with an error; the error of an encoding is its   *)
(* own error.  One step decides.                                           *)
(***************************************************************************)
EXTENDS Integers

CONSTANTS MaxN, MaxSize  \* bounds: elements of a list, octets of an encoding

VARIABLES n, budget, full, size, answer

\* An encoding grows with the number of elements; the complete list, without
\* moreFollows, has an encoding of its own.
Growing == {s \in [1 .. MaxN -> 0 .. MaxSize] :
              \A i, j \in 1 .. MaxN : i <= j => s[i] <= s[j]}

Init ==
  /\ n \in 0 .. MaxN
  /\ budget \in 0 .. MaxSize
  /\ full \in 0 .. MaxSize
  /\ size \in Growing
  /\ answer = [kind |-> "none", k |-> 0]

All == [kind |-> "full", k |-> n]
Prefix(k) == [kind |-> "prefix", k |-> k]
TooLarge == [kind |-> "toolarge", k |-> 0]
Failed == [kind |-> "failed", k |-> 0]

Fits(k) == k \in 1 .. n - 1 /\ size[k] <= budget

Decides(a) ==
  \/ a = Failed
  \/ full <= budget /\ a = All
  \/ full > budget /\ (\A k \in 1 .. n - 1 : size[k] > budget) /\ a = TooLarge
  \/ full > budget /\ \E k \in 1 .. n - 1 :
       Fits(k) /\ (\A j \in k + 1 .. n - 1 : size[j] > budget) /\ a = Prefix(k)

Fit ==
  /\ answer.kind = "none"
  /\ Decides(answer')
  /\ UNCHANGED <<n, budget, full, size>>

Spec == Init /\ [][Fit]_<<n, budget, full, size, answer>>

=============================================================================
