---------------------------- MODULE ServiceProofs ----------------------------
(***************************************************************************)
(* Proofs about answering requests.                                        *)
(*                                                                         *)
(* fitList implements LongestPrefix, for lists and encodings of any size.  *)
(* The invariant is the bracket of the bisection; the encodings are known  *)
(* to grow, so one that does not fit rules out all longer ones.            *)
(*                                                                         *)
(* Read and Write, for any number of associations, any requests and any    *)
(* type.  What a patch does to a value is followed along its path, and     *)
(* along another path beside it, by induction on the depth (ReadsBack,     *)
(* OthersKeep); the invariant of the handlers then says that a patch is    *)
(* made to what the variable still holds, when no other association can    *)
(* write it.                                                               *)
(***************************************************************************)
EXTENDS FitList, Sequences, Induction, TLAPS

\* A leaf that names no prover is tried with Z3, with Zenon, and with Z3 for longer.
USE SMT, Zenon, SMTT(20)

-----------------------------------------------------------------------------
(* fitList *)

\* The arguments never change, and the encodings grow.
Args ==
  /\ n \in 0 .. MaxN
  /\ budget \in 0 .. MaxSize /\ full \in 0 .. MaxSize
  /\ size \in [1 .. MaxN -> 0 .. MaxSize]
  /\ \A i, j \in 1 .. MaxN : i <= j => size[i] <= size[j]

\* The search: its bounds, and what is known of the encodings outside them.
Search ==
  /\ pc \in {"full", "loop", "done"}
  /\ pc # "done" => /\ lo \in Nat /\ 1 <= lo /\ hi \in Int /\ hi <= n - 1
                    /\ lo <= hi + 1 \/ (n = 0 /\ lo = 1 /\ hi = -1)
                    /\ best = lo - 1
                    /\ best # 0 => LP!Fits(best)
                    /\ \A k \in hi + 1 .. n - 1 : size[k] > budget
                    /\ answer = [kind |-> "none", k |-> 0]
  /\ pc = "loop" => full > budget

IInv == Args /\ Search

\* The midpoint is between the bounds.
LEMMA MidBetween ==
  ASSUME lo \in Int, hi \in Int, lo <= hi
  PROVE  Mid \in Int /\ lo <= Mid /\ Mid <= hi
  BY DEF Mid

\* The search starts with an empty prefix.
LEMMA InitIInv == Init => IInv
  BY MaxNAssumption DEF Init, IInv, Args, Search, LP!Init, LP!Growing

\* One encoding keeps the bracket.
LEMMA EncodePrefixIInv ==
  ASSUME IInv, EncodePrefix
  PROVE  IInv'
<1> USE DEF IInv
<1>1. Args'
  BY DEF Args, EncodePrefix, args
<1>2. lo \in Int /\ hi \in Int /\ lo <= hi /\ 1 <= lo /\ hi <= n - 1 /\ n \in Int
  BY MaxNAssumption DEF Args, Search, EncodePrefix
<1>3. Mid \in Int /\ lo <= Mid /\ Mid <= hi
  BY <1>2, MidBetween
<1>4. Mid \in 1 .. n - 1 /\ Mid \in 1 .. MaxN
  BY <1>2, <1>3, MaxNAssumption DEF Args
<1>5. UNCHANGED <<n, budget, full, size, pc, answer>> /\ pc = "loop"
  BY DEF EncodePrefix, args
<1>6. CASE size[Mid] <= budget /\ best' = Mid /\ lo' = Mid + 1 /\ hi' = hi
  <2>1. LP!Fits(best)'
    BY <1>4, <1>5, <1>6 DEF LP!Fits
  <2>2. \A k \in hi' + 1 .. n' - 1 : size'[k] > budget'
    BY <1>5, <1>6 DEF Search
  <2>3. lo' \in Nat /\ 1 <= lo' /\ hi' \in Int /\ hi' <= n' - 1 /\ lo' <= hi' + 1 /\ best' = lo' - 1
    BY <1>2, <1>3, <1>5, <1>6
  <2> QED
    BY Zenon, <1>1, <1>5, <2>1, <2>2, <2>3 DEF Search
<1>7. CASE size[Mid] > budget /\ hi' = Mid - 1 /\ lo' = lo /\ best' = best
  <2>1. ASSUME NEW k \in hi' + 1 .. n' - 1
        PROVE  size'[k] > budget'
    <3>1. k \in 1 .. MaxN /\ Mid <= k
      BY <1>2, <1>3, <1>5, <1>7, MaxNAssumption DEF Args
    <3>2. size[Mid] <= size[k] /\ size[Mid] \in Int /\ size[k] \in Int /\ budget \in Int
      BY <3>1, <1>4, MaxSizeAssumption DEF Args
    <3> QED
      BY <3>2, <1>5, <1>7
  <2>2. lo' \in Nat /\ 1 <= lo' /\ hi' \in Int /\ hi' <= n' - 1 /\ lo' <= hi' + 1 /\ best' = lo' - 1
    BY <1>2, <1>3, <1>5, <1>7 DEF Search
  <2>3. best' # 0 => LP!Fits(best)'
    BY <1>5, <1>7 DEF Search, LP!Fits
  <2> QED
    BY Zenon, <1>1, <1>5, <2>1, <2>2, <2>3 DEF Search
<1> QED
  BY <1>6, <1>7 DEF EncodePrefix, Upper, Lower

\* Every step of encodeGetNameListResult keeps the invariant.
LEMMA NextIInv == IInv /\ [Next]_vars => IInv'
<1> SUFFICES ASSUME IInv, [Next]_vars PROVE IInv'
  OBVIOUS
<1>1. CASE EncodeAll
  BY <1>1 DEF EncodeAll, IInv, Args, Search, args, LP!Fits
<1>2. CASE EncodePrefix
  BY <1>2, EncodePrefixIInv
<1>3. CASE Return \/ EncodeFails
  BY Zenon, <1>3 DEF Return, EncodeFails, IInv, Args, Search, args
<1>4. CASE UNCHANGED vars
  BY <1>4 DEF IInv, Args, Search, vars, args, LP!Fits
<1> QED
  BY <1>1, <1>2, <1>3, <1>4 DEF Next, Terminated

\* When the bounds have crossed, best is the longest prefix that fits.
LEMMA ReturnDecides ==
  ASSUME IInv, Return
  PROVE  LP!Decides(Result)
<1> USE DEF IInv
<1>1. full > budget /\ lo > hi /\ lo \in Nat /\ hi \in Int /\ n \in Int /\ best = lo - 1
  BY MaxNAssumption DEF Return, Search, Args
<1>2. \A k \in hi + 1 .. n - 1 : size[k] > budget
  BY DEF Return, Search
<1>3. lo = hi + 1 \/ (n = 0 /\ lo = 1)
  BY <1>1 DEF Return, Search
<1>4. CASE best = 0
  <2>1. \A k \in 1 .. n - 1 : size[k] > budget
    BY <1>1, <1>2, <1>3, <1>4
  <2> QED
    BY <1>1, <1>4, <2>1 DEF Result, LP!Decides
<1>5. CASE best # 0
  <2>1. LP!Fits(best)
    BY <1>5 DEF Return, Search
  <2>2. \A j \in best + 1 .. n - 1 : size[j] > budget
    BY <1>1, <1>2, <1>3, <1>5
  <2> QED
    BY <1>1, <1>5, <2>1, <2>2 DEF Result, LP!Decides, LP!Fits
<1> QED
  BY <1>4, <1>5

-----------------------------------------------------------------------------

\* The bisection of fitList keeps the longest prefix that fits within its
\* bounds, so that every encoding it asks for is one of the list's.
THEOREM BoundsKept == Spec => []Bracketed
<1>1. IInv => Bracketed
  BY MaxNAssumption DEF IInv, Args, Search, Bracketed
<1> QED
  BY InitIInv, NextIInv, <1>1, PTL DEF Spec

\* fitList refines LongestPrefix: it answers with the longest prefix that fits
\* the budget, and with the error of no room only when not even one element does.
THEOREM FitsLongest == Spec => Implements
<1>1. Init => LP!Init
  BY DEF Init
<1>2. IInv /\ [Next]_vars => [LP!Fit]_<<n, budget, full, size, answer>>
  <2> SUFFICES ASSUME IInv, [Next]_vars PROVE [LP!Fit]_<<n, budget, full, size, answer>>
    OBVIOUS
  <2>1. CASE EncodeAll
    BY <2>1 DEF EncodeAll, IInv, Search, args, LP!Fit, LP!Decides
  <2>2. CASE EncodePrefix
    BY <2>2 DEF EncodePrefix, args
  <2>3. CASE Return
    <3>1. LP!Decides(answer')
      BY <2>3, ReturnDecides DEF Return
    <3>2. answer.kind = "none" /\ UNCHANGED <<n, budget, full, size>>
      BY <2>3 DEF Return, IInv, Search, args
    <3> QED
      BY <3>1, <3>2 DEF LP!Fit
  <2>4. CASE EncodeFails
    BY <2>4 DEF EncodeFails, IInv, Search, args, LP!Fit, LP!Decides
  <2>5. CASE UNCHANGED vars
    BY <2>5 DEF vars, args
  <2> QED
    BY <2>1, <2>2, <2>3, <2>4, <2>5 DEF Next, Terminated
<1> QED
  BY InitIInv, NextIInv, <1>1, <1>2, PTL DEF Spec, Implements, LP!Spec

-----------------------------------------------------------------------------
(* Alternate access *)

CONSTANTS Assocs, Requests, Paths, Type, Initial, Names
VARIABLES value, hp, req, current, results
V == INSTANCE Variables

\* The parts of a value along the first m selectors of a path
PartsOf(f, val, ts, path, m) ==
  f = [k \in 0 .. m |-> IF k = 0 THEN [val |-> val, ts |-> ts] ELSE V!SelectOne(f[k - 1], path[k])]

\* The recursion has a solution,
LEMMA PartsExist ==
  ASSUME NEW val, NEW ts, NEW path, NEW m \in Nat
  PROVE  \E f : PartsOf(f, val, ts, path, m)
<1> DEFINE T == {b \in Nat : \E f : PartsOf(f, val, ts, path, b)}
<1>1. 0 \in T
  <2>1. PartsOf([k \in 0 .. 0 |-> [val |-> val, ts |-> ts]], val, ts, path, 0)
    BY DEF PartsOf
  <2> QED
    BY <2>1
<1>2. ASSUME NEW b \in T PROVE b + 1 \in T
  <2>1. PICK f : PartsOf(f, val, ts, path, b)
    BY <1>2
  <2> DEFINE g == [k \in 0 .. b + 1 |-> IF k = b + 1 THEN V!SelectOne(f[b], path[k]) ELSE f[k]]
  <2>2. PartsOf(g, val, ts, path, b + 1)
    <3>1. ASSUME NEW k \in 0 .. b + 1
          PROVE  g[k] = IF k = 0 THEN [val |-> val, ts |-> ts] ELSE V!SelectOne(g[k - 1], path[k])
      BY <2>1 DEF PartsOf
    <3> QED
      BY <3>1 DEF PartsOf
  <2> HIDE DEF g
  <2> QED
    BY <2>2
<1> HIDE DEF T
<1>3. T = Nat
  BY <1>1, <1>2, SetInduction, Zenon DEF T
<1> QED
  BY <1>3, Zenon DEF T

\* so that Parts follows its definition.
LEMMA PartsAre ==
  ASSUME NEW val, NEW ts, NEW path, Len(path) \in Nat
  PROVE  PartsOf(V!Parts(val, ts, path), val, ts, path, Len(path))
<1>1. \E f : PartsOf(f, val, ts, path, Len(path))
  BY PartsExist, Zenon
<1>2. V!Parts(val, ts, path) =
        CHOOSE f : f = [k \in 0 .. Len(path) |->
                         IF k = 0 THEN [val |-> val, ts |-> ts] ELSE V!SelectOne(f[k - 1], path[k])]
  BY Zenon DEF V!Parts
<1> QED
  BY <1>1, <1>2, Zenon DEF PartsOf

\* The same for the patched parts, from the last one outwards
PatchesOf(f, val, ts, path, w, m) ==
  f = [k \in 0 .. m |->
        IF k = 0 THEN w
        ELSE V!PatchOne(V!Parts(val, ts, path)[Len(path) - k], path[Len(path) - k + 1],
                        f[k - 1], k = 1)]

\* The recursion of a patch has a solution,
LEMMA PatchesExist ==
  ASSUME NEW val, NEW ts, NEW path, NEW w, NEW m \in Nat
  PROVE  \E f : PatchesOf(f, val, ts, path, w, m)
<1> DEFINE After(x, k) ==
             V!PatchOne(V!Parts(val, ts, path)[Len(path) - k], path[Len(path) - k + 1], x, k = 1)
           Is(f, b) == f = [k \in 0 .. b |-> IF k = 0 THEN w ELSE After(f[k - 1], k)]
           T == {b \in Nat : \E f : Is(f, b)}
<1> HIDE DEF After
<1>1. 0 \in T
  <2>1. Is([k \in 0 .. 0 |-> w], 0)
    OBVIOUS
  <2> HIDE DEF Is
  <2> QED
    BY <2>1
<1>2. ASSUME NEW b \in T PROVE b + 1 \in T
  <2>1. PICK f : Is(f, b)
    BY <1>2
  <2> DEFINE g == [k \in 0 .. b + 1 |-> IF k = b + 1 THEN After(f[b], k) ELSE f[k]]
  <2>2. Is(g, b + 1)
    <3>1. ASSUME NEW k \in 0 .. b + 1 PROVE g[k] = IF k = 0 THEN w ELSE After(g[k - 1], k)
      BY <2>1
    <3> QED
      BY <3>1
  <2> HIDE DEF Is, g
  <2> QED
    BY <2>2
<1> HIDE DEF T
<1>3. T = Nat
  BY <1>1, <1>2, SetInduction, Zenon DEF T
<1> QED
  BY <1>3, Zenon DEF T, After, PatchesOf

\* so that Patches follows its definition;
LEMMA PatchesAre ==
  ASSUME NEW val, NEW ts, NEW path, NEW w, Len(path) \in Nat
  PROVE  PatchesOf(V!Patches(val, ts, path, w), val, ts, path, w, Len(path))
<1>1. \E f : PatchesOf(f, val, ts, path, w, Len(path))
  BY PatchesExist, Zenon
<1>2. V!Patches(val, ts, path, w) = CHOOSE f : PatchesOf(f, val, ts, path, w, Len(path))
  BY Zenon DEF V!Patches, PatchesOf
<1> QED
  BY <1>1, <1>2, Zenon

\* and for the types of the elements that two paths have in common.
Shorter(p, q) == IF Len(p) <= Len(q) THEN Len(p) ELSE Len(q)
BothName(u, p, q, k) ==
  {V!Below(u, i) : i \in V!Positions(u, p[k]) \cap V!Positions(u, q[k])}
CommonOf(f, t, p, q, m) ==
  f = [k \in 0 .. m |-> IF k = 0 THEN {t} ELSE UNION {BothName(u, p, q, k) : u \in f[k - 1]}]

\* which has a solution,
LEMMA CommonExists ==
  ASSUME NEW t, NEW p, NEW q, NEW m \in Nat
  PROVE  \E f : CommonOf(f, t, p, q, m)
<1> DEFINE Base == {t}
           After(x, k) == UNION {BothName(u, p, q, k) : u \in x}
           Is(f, b) == f = [k \in 0 .. b |-> IF k = 0 THEN Base ELSE After(f[k - 1], k)]
           T == {b \in Nat : \E f : Is(f, b)}
<1> HIDE DEF Base, After
<1>1. 0 \in T
  <2>1. Is([k \in 0 .. 0 |-> Base], 0)
    OBVIOUS
  <2> HIDE DEF Is
  <2> QED
    BY <2>1
<1>2. ASSUME NEW b \in T PROVE b + 1 \in T
  <2>1. PICK f : Is(f, b)
    BY <1>2
  <2> DEFINE g == [k \in 0 .. b + 1 |-> IF k = b + 1 THEN After(f[b], k) ELSE f[k]]
  <2>2. Is(g, b + 1)
    <3>1. ASSUME NEW k \in 0 .. b + 1 PROVE g[k] = IF k = 0 THEN Base ELSE After(g[k - 1], k)
      BY <2>1
    <3> QED
      BY <3>1
  <2> HIDE DEF Is, g
  <2> QED
    BY <2>2
<1> HIDE DEF T
<1>3. T = Nat
  BY <1>1, <1>2, SetInduction, Zenon DEF T
<1> QED
  BY <1>3, Zenon DEF T, Base, After, CommonOf

\* so that Common follows its definition.
LEMMA CommonIs ==
  ASSUME NEW t, NEW p, NEW q, Len(p) \in Nat, Len(q) \in Nat
  PROVE  CommonOf(V!Common(t, p, q), t, p, q, Shorter(p, q))
<1>0. Shorter(p, q) \in Nat
  BY DEF Shorter
<1>1. \E f : CommonOf(f, t, p, q, Shorter(p, q))
  BY <1>0, CommonExists, Zenon
<1>2. V!Common(t, p, q) = CHOOSE f : CommonOf(f, t, p, q, Shorter(p, q))
  BY Zenon DEF V!Common, CommonOf, Shorter, BothName
<1> QED
  BY <1>1, <1>2, Zenon

-----------------------------------------------------------------------------

\* Two containers of the same kind and with as many elements.
Alike(v, x) == V!HasElements(v) /\ x.t = v.t /\ DOMAIN x.es = DOMAIN v.es

\* A selector names the same element in both.
LEMMA AlikeSame ==
  ASSUME NEW v, NEW x, Alike(v, x)
  PROVE  /\ \A ts, sel : V!ElementOf(x, ts, sel) = V!ElementOf(v, ts, sel)
         /\ \A ts, i : V!ChildType(x, ts, i) = V!ChildType(v, ts, i)
         /\ \A sel : V!InRange(x, sel) = V!InRange(v, sel)
<1>1. V!HasElements(x) = V!HasElements(v) /\ x.t = v.t
  BY Zenon DEF Alike, V!HasElements
<1>2. ASSUME NEW ts, NEW sel PROVE V!ElementOf(x, ts, sel) = V!ElementOf(v, ts, sel)
  BY <1>1, Zenon DEF Alike, V!ElementOf
<1>3. ASSUME NEW ts, NEW i PROVE V!ChildType(x, ts, i) = V!ChildType(v, ts, i)
  BY <1>1, Zenon DEF V!ChildType
<1>4. ASSUME NEW sel PROVE V!InRange(x, sel) = V!InRange(v, sel)
  BY <1>1, Zenon DEF Alike, V!InRange
<1> QED
  BY <1>2, <1>3, <1>4, Zenon

\* A patch that applies makes a container like the one it patches: one
\* element is the new one, or those of a range are.
LEMMA PatchOneMakes ==
  ASSUME NEW at, NEW sel, NEW child, NEW last, V!PatchOne(at, sel, child, last) # V!Nil
  PROVE  LET x == V!PatchOne(at, sel, child, last)
             i == V!ElementOf(at.val, at.ts, sel)
         IN  /\ Alike(at.val, x) /\ x = [t |-> x.t, es |-> x.es]
             /\ sel.kind # "range" =>
                  /\ i # 0 /\ i \in DOMAIN at.val.es /\ child # V!Nil
                  /\ x.es[i] = child
                  /\ \A j \in DOMAIN at.val.es : j # i => x.es[j] = at.val.es[j]
             /\ sel.kind = "range" =>
                  /\ last /\ V!InRange(at.val, sel)
                  /\ child.t = "array" /\ DOMAIN child.es = 1 .. sel.n
                  /\ \A j \in DOMAIN at.val.es :
                       x.es[j] = IF V!Replaced(sel, j) THEN child.es[j - sel.low] ELSE at.val.es[j]
<1> DEFINE x == V!PatchOne(at, sel, child, last)
           i == V!ElementOf(at.val, at.ts, sel)
<1>1. CASE sel.kind = "range"
  <2>1. last /\ x = V!PatchRange(at.val, sel, child) /\ x # V!Nil
    BY <1>1, Zenon DEF V!PatchOne
  <2>2. /\ V!InRange(at.val, sel) /\ child.t = "array" /\ DOMAIN child.es = 1 .. sel.n
        /\ x = V!Array([j \in DOMAIN at.val.es |->
                          IF V!Replaced(sel, j) THEN child.es[j - sel.low] ELSE at.val.es[j]])
    BY <2>1, Zenon DEF V!PatchRange
  <2> HIDE DEF x
  <2>3. at.val.t = "array"
    BY <2>2, Zenon DEF V!InRange
  <2>4. /\ x.t = "array" /\ x = [t |-> x.t, es |-> x.es]
        /\ x.es = [j \in DOMAIN at.val.es |->
                     IF V!Replaced(sel, j) THEN child.es[j - sel.low] ELSE at.val.es[j]]
    BY <2>2 DEF V!Array
  <2>5. /\ DOMAIN x.es = DOMAIN at.val.es
        /\ \A j \in DOMAIN at.val.es :
             x.es[j] = IF V!Replaced(sel, j) THEN child.es[j - sel.low] ELSE at.val.es[j]
    BY <2>4, Zenon
  <2>6. Alike(at.val, x)
    BY <2>3, <2>4, <2>5, Zenon DEF Alike, V!HasElements
  <2> QED
    BY <1>1, <2>1, <2>2, <2>4, <2>5, <2>6, Zenon DEF x
<1>2. CASE sel.kind # "range"
  <2>1. i # 0 /\ child # V!Nil /\ x = V!PatchElement(at.val, i, child)
    BY <1>2, Zenon DEF V!PatchOne
  <2>2. V!HasElements(at.val) /\ i \in DOMAIN at.val.es
    BY <2>1, Zenon DEF V!ElementOf
  <2> HIDE DEF x, i
  <2> QED
    BY <1>2, <2>1, <2>2 DEF Alike, V!PatchElement, x, i
<1> QED
  BY <1>1, <1>2

\* What is asked of a path: a finite number of selectors, ranges of numbers.
IsPath(path) ==
  /\ Len(path) \in Nat
  /\ \A k \in 1 .. Len(path) :
       path[k].kind = "range" => path[k].low \in Nat /\ path[k].n \in Nat

\* What is asked of a value that is written: an array is its elements.
IsValue(w) == w.t = "array" => w = V!Array(w.es) /\ w.es = [i \in DOMAIN w.es |-> w.es[i]]

\* The parts of a value along a path and their patches, step by step.
LEMMA PartSteps ==
  ASSUME NEW val, NEW ts, NEW path, IsPath(path)
  PROVE  /\ V!Parts(val, ts, path)[0] = [val |-> val, ts |-> ts]
         /\ \A k \in 0 .. Len(path) - 1 :
              V!Parts(val, ts, path)[k + 1] = V!SelectOne(V!Parts(val, ts, path)[k], path[k + 1])
<1> DEFINE f == V!Parts(val, ts, path)
<1>1. Len(path) \in Nat
  BY DEF IsPath
<1>2. PartsOf(f, val, ts, path, Len(path))
  BY <1>1, PartsAre, Zenon
<1> HIDE DEF f
<1>3. \A k \in 0 .. Len(path) :
        f[k] = IF k = 0 THEN [val |-> val, ts |-> ts] ELSE V!SelectOne(f[k - 1], path[k])
  BY <1>2, Zenon DEF PartsOf
<1>4. f[0] = [val |-> val, ts |-> ts]
  BY <1>1, <1>3
<1>5. ASSUME NEW k \in 0 .. Len(path) - 1 PROVE f[k + 1] = V!SelectOne(f[k], path[k + 1])
  <2>1. k + 1 \in 0 .. Len(path) /\ k + 1 # 0 /\ (k + 1) - 1 = k
    BY <1>1
  <2> QED
    BY <1>3, <2>1, Zenon
<1> QED
  BY <1>4, <1>5, Zenon DEF f

\* and of the patches from the last one outwards: the container at depth k
\* with the part at depth k + 1 put in.
LEMMA PatchSteps ==
  ASSUME NEW val, NEW ts, NEW path, NEW w, IsPath(path)
  PROVE  LET d == Len(path)
             new == V!Patches(val, ts, path, w)
         IN  /\ new[0] = w
             /\ \A k \in 0 .. d - 1 :
                  new[d - k] = V!PatchOne(V!Parts(val, ts, path)[k], path[k + 1],
                                          new[d - (k + 1)], d - k = 1)
<1> DEFINE d == Len(path)
           new == V!Patches(val, ts, path, w)
           at == V!Parts(val, ts, path)
<1>1. d \in Nat
  BY DEF IsPath
<1>2. PatchesOf(new, val, ts, path, w, d)
  BY <1>1, PatchesAre, Zenon
<1> HIDE DEF new, at
<1>3. \A k \in 0 .. d :
        new[k] = IF k = 0 THEN w
                 ELSE V!PatchOne(at[d - k], path[d - k + 1], new[k - 1], k = 1)
  BY <1>2, Zenon DEF PatchesOf, at
<1> HIDE DEF d
<1>4. new[0] = w
  BY <1>1, <1>3
<1>5. ASSUME NEW k \in 0 .. d - 1
      PROVE  new[d - k] = V!PatchOne(at[k], path[k + 1], new[d - (k + 1)], d - k = 1)
  <2>1. d - k \in 0 .. d /\ d - k # 0 /\ d - (d - k) = k /\ (d - k) - 1 = d - (k + 1)
    BY <1>1
  <2> QED
    BY <1>3, <2>1, Zenon
<1> QED
  BY <1>4, <1>5, Zenon DEF new, at, d

\* The selector of a patch selects the new part in the patched container.
LEMMA SelectPatched ==
  ASSUME NEW at, NEW sel, NEW child, NEW last, V!PatchOne(at, sel, child, last) # V!Nil,
         last => IsValue(child),
         sel.kind = "range" => sel.low \in Nat /\ sel.n \in Nat
  PROVE  V!SelectOne([val |-> V!PatchOne(at, sel, child, last), ts |-> at.ts], sel)
           = [val |-> child, ts |-> V!SelectOne(at, sel).ts]
<1> DEFINE x == V!PatchOne(at, sel, child, last)
           i == V!ElementOf(at.val, at.ts, sel)
           xt == [val |-> x, ts |-> at.ts]
<1>1. Alike(at.val, x)
  BY PatchOneMakes, Zenon
<1>2. CASE sel.kind # "range"
  <2>1. i # 0 /\ x.es[i] = child
    BY <1>2, PatchOneMakes
  <2>2. V!ElementOf(x, at.ts, sel) = i /\ V!ChildType(x, at.ts, i) = V!ChildType(at.val, at.ts, i)
    BY <1>1, AlikeSame
  <2> HIDE DEF x, i
  <2>3. xt.val = x /\ xt.ts = at.ts
    OBVIOUS
  <2> HIDE DEF xt
  <2>4. V!SelectOne(xt, sel) = [val |-> child, ts |-> V!ChildType(at.val, at.ts, i)]
    BY <1>2, <2>1, <2>2, <2>3, Zenon DEF V!SelectOne
  <2>5. V!SelectOne(at, sel) = [val |-> at.val.es[i], ts |-> V!ChildType(at.val, at.ts, i)]
    BY <1>2, <2>1, Zenon DEF V!SelectOne, i
  <2>6. V!SelectOne(at, sel).ts = V!ChildType(at.val, at.ts, i)
    BY <2>5
  <2> QED
    BY <2>4, <2>6, Zenon DEF xt, x
<1>3. CASE sel.kind = "range"
  <2>1. /\ last /\ V!InRange(at.val, sel) /\ child.t = "array" /\ DOMAIN child.es = 1 .. sel.n
        /\ \A j \in DOMAIN at.val.es :
             x.es[j] = IF V!Replaced(sel, j) THEN child.es[j - sel.low] ELSE at.val.es[j]
    BY <1>3, PatchOneMakes
  <2>2. V!InRange(x, sel)
    BY <1>1, <2>1, AlikeSame, Zenon
  <2> HIDE DEF x
  <2>3. ASSUME NEW j \in 1 .. sel.n PROVE x.es[sel.low + j] = child.es[j]
    <3>1. /\ sel.low + j \in sel.low .. V!RangeEnd(sel) /\ sel.low + j # 0
          /\ V!Replaced(sel, sel.low + j) /\ (sel.low + j) - sel.low = j
      BY <1>3 DEF V!RangeEnd, V!Replaced
    <3>2. sel.low + j \in DOMAIN at.val.es
      BY <2>1, <3>1, Zenon DEF V!InRange
    <3> QED
      BY <2>1, <3>1, <3>2, Zenon
  <2>4. V!Slice(x.es, sel) = child.es
    <3>1. child.es = [j \in 1 .. sel.n |-> child.es[j]]
      BY <2>1, Zenon DEF IsValue
    <3> QED
      BY <2>3, <3>1 DEF V!Slice
  <2>5. V!Array(V!Slice(x.es, sel)) = child
    BY <2>1, <2>4, Zenon DEF IsValue
  <2>6. xt.val = x
    OBVIOUS
  <2> HIDE DEF xt
  <2>7. V!SelectOne(xt, sel) = [val |-> child, ts |-> V!Nil]
    BY <1>3, <2>2, <2>5, <2>6, Zenon DEF V!SelectOne
  <2>8. V!SelectOne(at, sel).ts = V!Nil
    BY <1>3 DEF V!SelectOne
  <2> QED
    BY <2>7, <2>8, Zenon DEF xt, x
<1> QED
  BY <1>2, <1>3, Zenon

\* A read along the path of a write returns what was written, however deep
\* the path.
LEMMA ReadsBack ==
  ASSUME NEW val, NEW ts, NEW path, NEW w, IsPath(path), IsValue(w),
         V!Patch(val, ts, path, w) # V!Nil
  PROVE  V!Select(V!Patch(val, ts, path, w), ts, path) = w
<1> DEFINE d == Len(path)
           new == V!Patches(val, ts, path, w)
           at == V!Parts(val, ts, path)
           patched == V!Patch(val, ts, path, w)
           bt == V!Parts(patched, ts, path)
           Good(k) == bt[k] = [val |-> new[d - k], ts |-> at[k].ts] /\ (k < d => new[d - k] # V!Nil)
           T == {k \in Nat : k <= d => Good(k)}
<1>0. d \in Nat
  BY DEF IsPath
<1>1. patched = new[d] /\ V!Select(patched, ts, path) = bt[d].val
  BY Zenon DEF V!Patch, V!Select
<1>2. /\ new[0] = w
      /\ \A k \in 0 .. d - 1 :
           new[d - k] = V!PatchOne(at[k], path[k + 1], new[d - (k + 1)], d - k = 1)
  BY PatchSteps
<1>3. /\ at[0] = [val |-> val, ts |-> ts]
      /\ \A k \in 0 .. d - 1 : at[k + 1] = V!SelectOne(at[k], path[k + 1])
  BY PartSteps
<1>4. /\ bt[0] = [val |-> patched, ts |-> ts]
      /\ \A k \in 0 .. d - 1 : bt[k + 1] = V!SelectOne(bt[k], path[k + 1])
  BY PartSteps
<1>5. /\ patched # V!Nil
      /\ \A k \in 1 .. d : path[k].kind = "range" => path[k].low \in Nat /\ path[k].n \in Nat
  BY Zenon DEF IsPath
<1> HIDE DEF d, new, at, patched, bt
<1>6. 0 \in T
  <2>1. d - 0 = d
    BY <1>0
  <2> QED
    BY <1>1, <1>3, <1>4, <1>5, <2>1
<1>7. ASSUME NEW k \in T PROVE k + 1 \in T
  <2> SUFFICES ASSUME k + 1 <= d PROVE Good(k + 1)
    BY <1>7
  <2>1. k \in Nat /\ k \in 0 .. d - 1 /\ k + 1 \in 1 .. d /\ k < d /\ k <= d
    BY <1>0, <1>7
  <2>2. Good(k)
    BY <1>7, <2>1
  <2> DEFINE child == new[d - (k + 1)]
             sel == path[k + 1]
             last == (d - k = 1)
  <2>3. new[d - k] = V!PatchOne(at[k], sel, child, last) /\ new[d - k] # V!Nil
    BY <1>2, <2>1, <2>2, Zenon
  <2>4. last => IsValue(child)
    BY <1>0, <1>2, <2>1
  <2>5. V!SelectOne([val |-> new[d - k], ts |-> at[k].ts], sel)
          = [val |-> child, ts |-> V!SelectOne(at[k], sel).ts]
    <3>1. V!PatchOne(at[k], sel, child, last) # V!Nil
      BY <2>3, Zenon
    <3>2. sel.kind = "range" => sel.low \in Nat /\ sel.n \in Nat
      BY <1>5, <2>1, Zenon
    <3> HIDE DEF child, sel, last
    <3>3. V!SelectOne([val |-> V!PatchOne(at[k], sel, child, last), ts |-> at[k].ts], sel)
            = [val |-> child, ts |-> V!SelectOne(at[k], sel).ts]
      BY <2>4, <3>1, <3>2, SelectPatched
    <3> QED
      BY <2>3, <3>3, Zenon
  <2>6. bt[k + 1] = [val |-> child, ts |-> at[k + 1].ts]
    BY <1>3, <1>4, <2>1, <2>2, <2>5, Zenon
  <2>7. ASSUME k + 1 < d PROVE child # V!Nil
    <3>1. ~ last
      BY <1>0, <2>1, <2>7
    <3> HIDE DEF child, sel, last
    <3> QED
      BY <2>3, <3>1, Zenon DEF V!PatchOne
  <2> QED
    BY <2>6, <2>7, Zenon
<1> HIDE DEF Good
<1>8. T = Nat
  <2> HIDE DEF T
  <2>1. T \subseteq Nat
    BY DEF T
  <2> QED
    BY <1>6, <1>7, <2>1, SetInduction, Zenon
<1>9. Good(d)
  BY <1>0, <1>8
<1>10. d - d = 0
  BY <1>0
<1> QED
  BY <1>1, <1>2, <1>9, <1>10 DEF Good, patched

-----------------------------------------------------------------------------

\* The element that a selector names is one of its positions in the type, and
\* the type of the element is the one below it, where types are known.
LEMMA ElementPositions ==
  ASSUME NEW v, NEW ts, NEW u, NEW sel, ts \in {u, V!Nil}, V!ElementOf(v, ts, sel) # 0
  PROVE  LET i == V!ElementOf(v, ts, sel)
         IN  /\ i \in DOMAIN v.es /\ i \in V!Positions(u, sel)
             /\ V!ChildType(v, ts, i) \in {V!Below(u, i), V!Nil}
<1> DEFINE i == V!ElementOf(v, ts, sel)
<1>0. V!Nil.t = "nil"
  BY DEF V!Nil
<1>1. i # 0 /\ i \in DOMAIN v.es
  BY Zenon DEF V!ElementOf
<1>2. ASSUME sel.kind = "component", v.t = "structure" PROVE i \in V!Positions(u, sel)
  <2>1. i = V!ResolveComponent(ts, sel.name)
    BY <1>1, <1>2 DEF V!ElementOf
  <2> HIDE DEF i
  <2>2. ts.t = "structure" /\ i \in {j \in DOMAIN ts.names : ts.names[j] = sel.name}
    BY <1>1, <2>1, Zenon DEF V!ResolveComponent
  <2>3. ts = u
    BY <1>0, <2>2
  <2>4. V!Positions(u, sel) = {j \in DOMAIN u.names : u.names[j] = sel.name}
    BY <1>2, <2>2, <2>3 DEF V!Positions
  <2> QED
    BY <2>2, <2>3, <2>4, Zenon
<1>3. ASSUME sel.kind = "index" PROVE i \in V!Positions(u, sel)
  <2>1. i = sel.i + 1
    BY <1>1, <1>3 DEF V!ElementOf, V!Position
  <2>2. V!Positions(u, sel) = {sel.i + 1}
    BY <1>3 DEF V!Positions
  <2> QED
    BY <2>1, <2>2, Zenon
<1>4. i \in V!Positions(u, sel)
  <2>1. (sel.kind = "component" /\ v.t = "structure") \/ sel.kind = "index"
    BY <1>1 DEF V!ElementOf
  <2> QED
    BY <1>2, <1>3, <2>1
<1>5. V!ChildType(v, ts, i) \in {V!Below(u, i), V!Nil}
  <2> HIDE DEF i
  <2>1. CASE v.t = "structure" /\ ts.t = "structure" /\ i \in DOMAIN ts.es
    <3>1. V!ChildType(v, ts, i) = ts.es[i] /\ ts = u
      BY <1>0, <2>1 DEF V!ChildType
    <3>2. V!Below(u, i) = u.es[i]
      BY <2>1, <3>1 DEF V!Below
    <3> QED
      BY <3>1, <3>2
  <2>2. CASE v.t = "array" /\ ts.t = "array"
    <3>1. V!ChildType(v, ts, i) = ts.elem /\ ts = u
      BY <1>0, <2>2 DEF V!ChildType
    <3>2. V!Below(u, i) = u.elem
      BY <2>2, <3>1 DEF V!Below
    <3> QED
      BY <3>1, <3>2
  <2>3. CASE /\ ~ (v.t = "structure" /\ ts.t = "structure" /\ i \in DOMAIN ts.es)
             /\ ~ (v.t = "array" /\ ts.t = "array")
    BY <2>3 DEF V!ChildType
  <2> QED
    BY <2>1, <2>2, <2>3
<1> QED
  BY <1>1, <1>4, <1>5

\* A selector with the numbers of a range
IsSelector(sel) == sel.kind = "range" => sel.low \in Nat /\ sel.n \in Nat

\* Two selectors for elements of a type, which meet only where none is a range
Meet(u, ps, qs, i) == i \in V!Positions(u, ps) /\ i \in V!Positions(u, qs)
NoRangeMeets(u, ps, qs) == (\E i : Meet(u, ps, qs, i)) => ps.kind # "range" /\ qs.kind # "range"

\* One level of a patch, seen along another path: the other selector names the
\* same as before, or the element that is patched, which both then have in
\* common.
OtherSees(at, ps, qs, child, last, u) ==
  LET a == V!SelectOne(at, qs)
      b == V!SelectOne([val |-> V!PatchOne(at, ps, child, last), ts |-> at.ts], qs)
  IN  \/ b = a
      \/ /\ a = V!SelectOne(at, ps) /\ b = [val |-> child, ts |-> a.ts]
         /\ ~ last => child # V!Nil
         /\ \E i : Meet(u, ps, qs, i) /\ a.ts \in {V!Below(u, i), V!Nil}

\* A patch that applies is seen so.
LEMMA OneLevel ==
  ASSUME NEW at, NEW ps, NEW qs, NEW child, NEW last, NEW u,
         V!PatchOne(at, ps, child, last) # V!Nil, at.ts \in {u, V!Nil},
         IsSelector(ps), IsSelector(qs), NoRangeMeets(u, ps, qs)
  PROVE  OtherSees(at, ps, qs, child, last, u)
<1> USE DEF IsSelector, Meet, NoRangeMeets, OtherSees
<1> DEFINE x == V!PatchOne(at, ps, child, last)
           xt == [val |-> x, ts |-> at.ts]
           i == V!ElementOf(at.val, at.ts, ps)
           j == V!ElementOf(at.val, at.ts, qs)
           a == V!SelectOne(at, qs)
           b == V!SelectOne(xt, qs)
           es == at.val.es
<1>1. xt.val = x /\ xt.ts = at.ts
  OBVIOUS
<1>2. Alike(at.val, x)
  BY PatchOneMakes
<1>3. ps.kind # "range" =>
        /\ i # 0 /\ i \in DOMAIN es
        /\ x.es[i] = child /\ \A k \in DOMAIN es : k # i => x.es[k] = es[k]
  BY PatchOneMakes
<1>4. ps.kind = "range" =>
        \A k \in DOMAIN es : x.es[k] = IF V!Replaced(ps, k) THEN child.es[k - ps.low] ELSE es[k]
  BY PatchOneMakes
<1>5. ~ last => child # V!Nil
  BY Zenon DEF V!PatchOne
<1> HIDE DEF x
<1>6. /\ V!ElementOf(x, at.ts, qs) = j
      /\ V!ChildType(x, at.ts, j) = V!ChildType(at.val, at.ts, j)
      /\ V!InRange(x, qs) = V!InRange(at.val, qs)
  BY <1>2, AlikeSame
<1> HIDE DEF xt
\* What the patch changed is at a position of its selector.
<1>7. ASSUME NEW k \in DOMAIN es, x.es[k] # es[k] PROVE k \in V!Positions(u, ps)
  <2>1. CASE ps.kind # "range"
    <3>1. k = i
      BY <1>3, <1>7, <2>1, Zenon
    <3> QED
      BY <1>3, <2>1, <3>1, ElementPositions
  <2>2. CASE ps.kind = "range"
    <3>1. V!Replaced(ps, k)
      BY <1>4, <1>7, <2>2, Zenon
    <3>2. V!Positions(u, ps) = ps.low + 1 .. ps.low + ps.n
      BY <2>2 DEF V!Positions
    <3> QED
      BY <3>1, <3>2, Zenon DEF V!Replaced, V!RangeEnd
  <2> QED
    BY <2>1, <2>2
<1>8. CASE qs.kind = "range"
  <2>1. V!Positions(u, qs) = qs.low + 1 .. qs.low + qs.n
    BY <1>8 DEF V!Positions
  <2>2. ASSUME V!InRange(at.val, qs) PROVE V!Slice(x.es, qs) = V!Slice(es, qs)
    <3>1. ASSUME NEW k \in 1 .. qs.n PROVE x.es[qs.low + k] = es[qs.low + k]
      <4>1. /\ qs.low + k \in qs.low .. V!RangeEnd(qs) /\ qs.low + k # 0
            /\ qs.low + k \in qs.low + 1 .. qs.low + qs.n
        BY <1>8 DEF V!RangeEnd
      <4>2. qs.low + k \in DOMAIN es
        BY <2>2, <4>1, Zenon DEF V!InRange
      <4> QED
        BY <1>7, <1>8, <2>1, <4>1, <4>2, Zenon
    <3> QED
      BY <3>1, Zenon DEF V!Slice
  <2>3. b = a
    BY <1>1, <1>6, <1>8, <2>2, Zenon DEF V!SelectOne
  <2> QED
    BY <2>3, Zenon DEF xt, x
<1>9. CASE qs.kind # "range"
  <2>1. CASE j = 0
    <3>1. b = a
      BY <1>1, <1>6, <1>9, <2>1, Zenon DEF V!SelectOne
    <3> QED
      BY <3>1, Zenon DEF xt, x
  <2>2. CASE j # 0
    <3>1. /\ j \in DOMAIN es /\ j \in V!Positions(u, qs)
          /\ V!ChildType(at.val, at.ts, j) \in {V!Below(u, j), V!Nil}
      BY <2>2, ElementPositions
    <3>2. /\ a = [val |-> es[j], ts |-> V!ChildType(at.val, at.ts, j)]
          /\ b = [val |-> x.es[j], ts |-> V!ChildType(at.val, at.ts, j)]
      BY <1>1, <1>6, <1>9, <2>2, Zenon DEF V!SelectOne
    <3>3. CASE x.es[j] = es[j]
      <4>1. b = a
        BY <3>2, <3>3, Zenon
      <4> QED
        BY <4>1, Zenon DEF xt, x
    <3>4. CASE x.es[j] # es[j]
      <4>1. j \in V!Positions(u, ps)
        BY <1>7, <3>1, <3>4, Zenon
      <4>2. ps.kind # "range"
        BY <3>1, <4>1, Zenon
      <4>3. j = i /\ x.es[j] = child
        BY <1>3, <3>1, <3>4, <4>2, Zenon
      <4>4. a = V!SelectOne(at, ps)
        BY <2>2, <3>2, <4>2, <4>3, Zenon DEF V!SelectOne
      <4>5. a.ts = V!ChildType(at.val, at.ts, j)
        BY <3>2
      <4>6. b = [val |-> child, ts |-> a.ts]
        BY <3>2, <4>3, <4>5, Zenon
      <4> QED
        BY <1>5, <3>1, <4>1, <4>4, <4>5, <4>6, Zenon DEF xt, x
    <3> QED
      BY <3>3, <3>4
  <2> QED
    BY <2>1, <2>2
<1> QED
  BY <1>8, <1>9

\* A write leaves what another path names, unless the two overlap, however
\* deep they are.
LEMMA OthersKeep ==
  ASSUME NEW val, NEW ts, NEW p, NEW q, NEW w, IsPath(p), IsPath(q),
         V!Patch(val, ts, p, w) # V!Nil, ~ V!Overlap(ts, p, q)
  PROVE  V!Select(V!Patch(val, ts, p, w), ts, q) = V!Select(val, ts, q)
<1> DEFINE d == Len(p)
           e == Len(q)
           m == Shorter(p, q)
           new == V!Patches(val, ts, p, w)
           patched == V!Patch(val, ts, p, w)
           at == V!Parts(val, ts, p)
           aq == V!Parts(val, ts, q)
           bq == V!Parts(patched, ts, q)
           common == V!Common(ts, p, q)
           Joint(k) == /\ aq[k] = at[k] /\ bq[k] = [val |-> new[d - k], ts |-> at[k].ts]
                       /\ k < d => new[d - k] # V!Nil
                       /\ \E u \in common[k] : at[k].ts \in {u, V!Nil}
           Good(k) == bq[k] = aq[k] \/ Joint(k)
           T == {k \in Nat : k <= m => Good(k)}
           S == {k \in Nat : k <= e /\ m <= k => bq[k] = aq[k]}
<1>0. d \in Nat /\ e \in Nat /\ m \in Nat /\ m <= d /\ m <= e /\ (m = d \/ m = e)
  BY DEF IsPath, Shorter
<1>1. patched = new[d] /\ V!Select(patched, ts, q) = bq[e].val /\ V!Select(val, ts, q) = aq[e].val
  BY Zenon DEF V!Patch, V!Select
<1>2. \A k \in 0 .. d - 1 : new[d - k] = V!PatchOne(at[k], p[k + 1], new[d - (k + 1)], d - k = 1)
  BY PatchSteps
<1>3. /\ at[0] = [val |-> val, ts |-> ts]
      /\ \A k \in 0 .. d - 1 : at[k + 1] = V!SelectOne(at[k], p[k + 1])
  BY PartSteps
<1>4. /\ aq[0] = [val |-> val, ts |-> ts] /\ bq[0] = [val |-> patched, ts |-> ts]
      /\ \A k \in 0 .. e - 1 : /\ aq[k + 1] = V!SelectOne(aq[k], q[k + 1])
                               /\ bq[k + 1] = V!SelectOne(bq[k], q[k + 1])
  BY PartSteps
<1>5. /\ \A k \in 1 .. d : p[k].kind = "range" => p[k].low \in Nat /\ p[k].n \in Nat
      /\ \A k \in 1 .. e : q[k].kind = "range" => q[k].low \in Nat /\ q[k].n \in Nat
  BY Zenon DEF IsPath
<1>6. CommonOf(common, ts, p, q, m)
  BY <1>0, CommonIs
<1>7. \A k \in 0 .. m : common[k] # {} =>
        k # d /\ k # e /\ (k > 0 => p[k].kind # "range" /\ q[k].kind # "range")
  <2> SUFFICES ASSUME NEW k \in 0 .. m, common[k] # {}
               PROVE  k # d /\ k # e /\ (k > 0 => p[k].kind # "range" /\ q[k].kind # "range")
    OBVIOUS
  <2>1. k \in (0 .. Len(p)) \cap (0 .. Len(q))
    BY <1>0
  <2> QED
    BY <2>1, Zenon DEF V!Overlap
<1> HIDE DEF common
<1>8. common[0] = {ts}
  BY <1>0, <1>6 DEF CommonOf
<1>9. ASSUME NEW k \in 0 .. m - 1, NEW u \in common[k], NEW i,
             i \in V!Positions(u, p[k + 1]), i \in V!Positions(u, q[k + 1])
      PROVE  V!Below(u, i) \in common[k + 1]
  <2>1. k + 1 \in 0 .. m /\ k + 1 # 0 /\ (k + 1) - 1 = k
    BY <1>0
  <2>2. common[k + 1] = UNION {BothName(y, p, q, k + 1) : y \in common[k]}
    BY <1>6, <2>1, Zenon DEF CommonOf
  <2>3. V!Below(u, i) \in BothName(u, p, q, k + 1)
    BY <1>9, Zenon DEF BothName
  <2> QED
    BY <2>2, <2>3, Zenon
<1>10. patched # V!Nil
  OBVIOUS
<1> HIDE DEF d, e, m, new, patched, at, aq, bq
<1>11. 0 \in T
  <2>1. d - 0 = d
    BY <1>0
  <2>2. Joint(0)
    BY <1>1, <1>3, <1>4, <1>8, <1>10, <2>1
  <2> QED
    BY <2>2
<1>12. ASSUME NEW k \in T PROVE k + 1 \in T
  <2> SUFFICES ASSUME k + 1 <= m PROVE Good(k + 1)
    BY <1>12
  <2>1. /\ k \in Nat /\ k \in 0 .. m - 1 /\ k \in 0 .. d - 1 /\ k \in 0 .. e - 1
        /\ k + 1 \in 1 .. d /\ k + 1 \in 1 .. e /\ k + 1 \in 0 .. m /\ k + 1 > 0 /\ k < d
    BY <1>0, <1>12
  <2>2. Good(k)
    BY <1>0, <1>12, <2>1
  <2>3. CASE bq[k] = aq[k]
    BY <1>4, <2>1, <2>3, Zenon
  <2>4. CASE Joint(k)
    <3> DEFINE child == new[d - (k + 1)]
               ps == p[k + 1]
               qs == q[k + 1]
               last == (d - k = 1)
    <3>1. PICK u \in common[k] : at[k].ts \in {u, V!Nil}
      BY <2>4
    <3>2. new[d - k] = V!PatchOne(at[k], ps, child, last) /\ new[d - k] # V!Nil
      BY <1>2, <2>1, <2>4, Zenon
    <3>3. IsSelector(ps) /\ IsSelector(qs)
      BY <1>5, <2>1, Zenon DEF IsSelector
    <3>4. ASSUME NEW i, Meet(u, ps, qs, i)
          PROVE  /\ ps.kind # "range" /\ qs.kind # "range"
                 /\ V!Below(u, i) \in common[k + 1]
      BY <1>7, <1>9, <2>1, <3>4, Zenon DEF Meet
    <3>5. aq[k + 1] = V!SelectOne(at[k], qs) /\ at[k + 1] = V!SelectOne(at[k], ps)
      BY <1>3, <1>4, <2>1, <2>4, Zenon
    <3>6. bq[k + 1] = V!SelectOne([val |-> V!PatchOne(at[k], ps, child, last), ts |-> at[k].ts], qs)
      <4>1. bq[k + 1] = V!SelectOne(bq[k], qs)
        BY <1>4, <2>1
      <4>2. bq[k] = [val |-> new[d - k], ts |-> at[k].ts]
        BY <2>4
      <4> QED
        BY <4>1, <4>2, <3>2, Zenon
    <3>7. last \/ k + 1 < d
      BY <1>0, <2>1
    <3>8. k + 1 < d => ~ last
      BY <1>0, <2>1
    <3> HIDE DEF child, ps, qs, last
    <3>9. OtherSees(at[k], ps, qs, child, last, u)
      <4>1. V!PatchOne(at[k], ps, child, last) # V!Nil
        BY <3>2, Zenon
      <4>2. NoRangeMeets(u, ps, qs)
        BY <3>4, Zenon DEF NoRangeMeets
      <4> QED
        BY <3>1, <3>3, <4>1, <4>2, OneLevel, Zenon
    <3>10. \/ bq[k + 1] = aq[k + 1]
           \/ /\ aq[k + 1] = at[k + 1] /\ bq[k + 1] = [val |-> child, ts |-> at[k + 1].ts]
              /\ ~ last => child # V!Nil
              /\ \E i : Meet(u, ps, qs, i) /\ at[k + 1].ts \in {V!Below(u, i), V!Nil}
      BY <3>5, <3>6, <3>9, Zenon DEF OtherSees
    <3> QED
      BY <3>4, <3>8, <3>10, Zenon DEF child
  <2> QED
    BY <2>2, <2>3, <2>4
<1> HIDE DEF Good
<1>13. T = Nat
  <2> HIDE DEF T
  <2>1. T \subseteq Nat
    BY DEF T
  <2> QED
    BY <1>11, <1>12, <2>1, SetInduction, Zenon
<1>14. bq[m] = aq[m]
  <2>1. Good(m)
    BY <1>0, <1>13
  <2>2. ~ Joint(m)
    BY <1>0, <1>7
  <2> QED
    BY <2>1, <2>2, Zenon DEF Good
\* From there on the two are the same.
<1>15. 0 \in S
  BY <1>0, <1>14
<1>16. ASSUME NEW k \in S PROVE k + 1 \in S
  <2> SUFFICES ASSUME k + 1 <= e, m <= k + 1 PROVE bq[k + 1] = aq[k + 1]
    BY <1>16
  <2>1. CASE k + 1 = m
    BY <1>14, <2>1
  <2>2. CASE m <= k
    BY <1>0, <1>4, <1>16, <2>2
  <2> QED
    BY <1>0, <1>16, <2>1, <2>2
<1>17. S = Nat
  <2> HIDE DEF S
  <2>1. S \subseteq Nat
    BY DEF S
  <2> QED
    BY <1>15, <1>16, <2>1, SetInduction, Zenon
<1>18. bq[e] = aq[e]
  BY <1>0, <1>17
<1> QED
  BY <1>1, <1>18, Zenon DEF patched

-----------------------------------------------------------------------------
(* The handlers of Read and Write *)

\* What is assumed of the associations, their requests and the paths
VariablesConstants ==
  /\ "domain" \notin Assocs
  /\ \A q \in Paths : IsPath(q)
  /\ \A a \in Assocs : \A r \in Requests[a] :
       /\ Len(r.items) \in Nat /\ Len(r.values) \in Nat
       /\ \A i \in 1 .. Len(r.items) :
            IsPath(r.items[i].path) /\ r.items[i].scope \in {"association", "domain"}
       /\ \A i \in 1 .. Len(r.values) : IsValue(r.values[i])

\* A result that may stand for an item
ResultFits(a, i) ==
  /\ results[a][i].kind = "success" => req[a].kind = "write" /\ i <= Len(req[a].values)
  /\ results[a][i].kind = "data" => req[a].kind = "read"
  /\ req[a].items[i].name \notin Names => results[a][i] = V!Error

\* A handler has a result for every item it is past,
ItemsInv(a) ==
  /\ req[a] \in Requests[a] \cup {V!NoRequest}
  /\ hp[a] = "idle" => req[a] = V!NoRequest
  /\ \E S : results[a] \in Seq(S)
  /\ Len(results[a]) <= Len(req[a].items)
  /\ \A i \in 1 .. Len(results[a]) : ResultFits(a, i)

\* calls back for an item that has a variable, and writes a patch that applies
AtItem(a) ==
  /\ V!I(a) <= Len(req[a].items) /\ V!Item(a).name \in Names
  /\ req[a].kind = "write" => V!I(a) <= Len(req[a].values)
CallsInv(a) ==
  /\ hp[a] \in {"reading", "writing"} \/ current[a] # V!Nil => AtItem(a)
  /\ hp[a] = "writing" => /\ req[a].kind = "write" /\ V!Patched(a) # V!Nil
                          /\ V!Item(a).path # <<>> => current[a] # V!Nil

\* to what is still the value, when the variable is the association's own.
OwnInv(a) ==
  current[a] # V!Nil /\ V!Item(a).scope = "association" => current[a] = value[V!Var(a)]

VariablesInv ==
  /\ DOMAIN value = V!Keys /\ hp \in [Assocs -> {"idle", "item", "reading", "writing"}]
  /\ DOMAIN req = Assocs /\ DOMAIN current = Assocs /\ DOMAIN results = Assocs
  /\ \A a \in Assocs : ItemsInv(a) /\ CallsInv(a) /\ OwnInv(a)

\* No request has come yet.
LEMMA VariablesInitially ==
  ASSUME VariablesConstants, V!Init
  PROVE  VariablesInv
<1> USE DEF V!Init
<1>1. ASSUME NEW a \in Assocs PROVE ItemsInv(a) /\ CallsInv(a) /\ OwnInv(a)
  <2>1. req[a] = V!NoRequest /\ hp[a] = "idle" /\ current[a] = V!Nil /\ results[a] = <<>>
    OBVIOUS
  <2>2. results[a] \in Seq({}) /\ Len(results[a]) = 0 /\ Len(req[a].items) = 0
    BY <2>1 DEF V!NoRequest
  <2>3. ItemsInv(a)
    BY <2>1, <2>2 DEF ItemsInv
  <2> QED
    BY <2>1, <2>3 DEF CallsInv, OwnInv
<1> QED
  BY <1>1 DEF VariablesInv

\* The numbers of a handler: its requests are finite, and so are its results.
LEMMA Counts ==
  ASSUME VariablesConstants, NEW a \in Assocs, ItemsInv(a)
  PROVE  /\ Len(req[a].items) \in Nat /\ Len(req[a].values) \in Nat
         /\ Len(results[a]) \in Nat /\ V!I(a) = Len(results[a]) + 1
         /\ \A i \in 1 .. Len(req[a].items) :
              IsPath(req[a].items[i].path) /\ req[a].items[i].scope \in {"association", "domain"}
         /\ \A i \in 1 .. Len(req[a].values) : IsValue(req[a].values[i])
<1>1. Len(results[a]) \in Nat /\ V!I(a) = Len(results[a]) + 1
  BY DEF ItemsInv, V!I
<1>2. CASE req[a] \in Requests[a]
  BY <1>1, <1>2 DEF VariablesConstants
<1>3. CASE req[a] = V!NoRequest
  BY <1>1, <1>3 DEF V!NoRequest
<1> QED
  BY <1>2, <1>3 DEF ItemsInv

\* What a step of one association leaves alone of another.
LEMMA OtherRests ==
  ASSUME VariablesConstants, VariablesInv, NEW a \in Assocs, NEW b \in Assocs, a # b,
         hp'[b] = hp[b], req'[b] = req[b], current'[b] = current[b], results'[b] = results[b],
         \A name \in Names : value'[<<b, name>>] = value[<<b, name>>]
  PROVE  ItemsInv(b)' /\ CallsInv(b)' /\ OwnInv(b)'
<1>1. /\ V!I(b)' = V!I(b) /\ V!Item(b)' = V!Item(b)
      /\ V!Var(b)' = V!Var(b) /\ V!Patched(b)' = V!Patched(b)
  BY Zenon DEF V!I, V!Item, V!Var, V!Patched
<1>2. ItemsInv(b) /\ CallsInv(b) /\ OwnInv(b)
  BY DEF VariablesInv
<1>3. ItemsInv(b)'
  <2>1. \A i : ResultFits(b, i)' = ResultFits(b, i)
    BY Zenon DEF ResultFits
  <2> QED
    BY <1>2, <2>1, Zenon DEF ItemsInv
<1>4. CallsInv(b)'
  <2>1. AtItem(b)' = AtItem(b)
    BY <1>1, Zenon DEF AtItem
  <2> QED
    BY <1>1, <1>2, <2>1, Zenon DEF CallsInv
<1>5. OwnInv(b)'
  <2> SUFFICES ASSUME current[b] # V!Nil, V!Item(b).scope = "association"
               PROVE  current[b] = value'[V!Var(b)]
    BY <1>1, Zenon DEF OwnInv
  <2>1. V!Item(b).name \in Names /\ V!Var(b) = <<b, V!Item(b).name>>
    BY <1>2, Zenon DEF CallsInv, AtItem, V!Var, V!Key
  <2> QED
    BY <1>2, <2>1, Zenon DEF OwnInv
<1> QED
  BY <1>3, <1>4, <1>5

\* A step of one association
StepOf(a) ==
  /\ DOMAIN value' = V!Keys /\ hp' \in [Assocs -> {"idle", "item", "reading", "writing"}]
  /\ DOMAIN req' = Assocs /\ DOMAIN current' = Assocs /\ DOMAIN results' = Assocs
  /\ \A b \in Assocs \ {a} :
       /\ hp'[b] = hp[b] /\ req'[b] = req[b] /\ current'[b] = current[b] /\ results'[b] = results[b]
       /\ \A name \in Names : value'[<<b, name>>] = value[<<b, name>>]

\* keeps the invariant when it keeps it for that association.
LEMMA StepKeeps ==
  ASSUME VariablesConstants, VariablesInv, NEW a \in Assocs, StepOf(a),
         ItemsInv(a)', CallsInv(a)', OwnInv(a)'
  PROVE  VariablesInv'
<1>1. ASSUME NEW b \in Assocs, a # b PROVE ItemsInv(b)' /\ CallsInv(b)' /\ OwnInv(b)'
  BY <1>1, OtherRests, Zenon DEF StepOf
<1>2. \A b \in Assocs : ItemsInv(b)' /\ CallsInv(b)' /\ OwnInv(b)'
  BY <1>1, Zenon
<1> QED
  BY <1>2, Zenon DEF StepOf, VariablesInv

\* Append adds a result behind the others.
LEMMA Appends ==
  ASSUME NEW S, NEW s \in Seq(S), NEW x
  PROVE  /\ Append(s, x) \in Seq(S \cup {x})
         /\ Len(s) \in Nat /\ Len(Append(s, x)) = Len(s) + 1
         /\ \A i \in 1 .. Len(s) : Append(s, x)[i] = s[i]
         /\ Append(s, x)[Len(s) + 1] = x
<1>1. s \in Seq(S \cup {x}) /\ x \in S \cup {x}
  OBVIOUS
<1> QED
  BY <1>1

\* The result of the item a handler is at: it goes to the next one.
LEMMA AnswersStep ==
  ASSUME VariablesConstants, VariablesInv, NEW a \in Assocs, NEW x,
         V!Answers(a, x), UNCHANGED req, StepOf(a), hp'[a] = "item", hp[a] # "idle",
         V!I(a) <= Len(req[a].items),
         x.kind = "success" => req[a].kind = "write" /\ V!I(a) <= Len(req[a].values),
         x.kind = "data" => req[a].kind = "read",
         V!Item(a).name \notin Names => x = V!Error
  PROVE  VariablesInv'
<1>0. ItemsInv(a)
  BY DEF VariablesInv
<1>1. /\ Len(results[a]) \in Nat /\ V!I(a) = Len(results[a]) + 1 /\ Len(req[a].items) \in Nat
  BY <1>0, Counts
<1>2. results'[a] = Append(results[a], x) /\ current'[a] = V!Nil /\ req' = req
  BY Zenon DEF V!Answers, VariablesInv
<1>3. /\ \E S : results'[a] \in Seq(S)
      /\ Len(results'[a]) = Len(results[a]) + 1
      /\ \A i \in 1 .. Len(results[a]) : results'[a][i] = results[a][i]
      /\ results'[a][Len(results[a]) + 1] = x
  <2>1. PICK S : results[a] \in Seq(S)
    BY <1>0, Zenon DEF ItemsInv
  <2> DEFINE s == results[a]
  <2>2. s \in Seq(S)
    BY <2>1
  <2> HIDE DEF s
  <2>3. /\ Append(s, x) \in Seq(S \cup {x})
        /\ Len(s) \in Nat /\ Len(Append(s, x)) = Len(s) + 1
        /\ \A i \in 1 .. Len(s) : Append(s, x)[i] = s[i]
        /\ Append(s, x)[Len(s) + 1] = x
    BY <2>2, Appends
  <2> QED
    BY <1>2, <2>3, Zenon DEF s
<1>4. ASSUME NEW i \in 1 .. Len(results'[a]) PROVE ResultFits(a, i)'
  <2>1. CASE i \in 1 .. Len(results[a])
    BY <1>0, <1>2, <1>3, <2>1, Zenon DEF ItemsInv, ResultFits
  <2>2. CASE i = Len(results[a]) + 1
    <3>1. results'[a][i] = x /\ i = V!I(a) /\ req'[a] = req[a] /\ req[a].items[i] = V!Item(a)
      BY <1>1, <1>2, <1>3, <2>2, Zenon DEF V!Item
    <3> QED
      BY <3>1, Zenon DEF ResultFits
  <2> QED
    BY <1>1, <1>3, <2>1, <2>2
<1>5. ItemsInv(a)'
  <2>1. Len(results'[a]) <= Len(req[a].items)
    BY <1>1, <1>3
  <2> QED
    BY <1>0, <1>2, <1>3, <1>4, <2>1 DEF ItemsInv
<1>6. CallsInv(a)' /\ OwnInv(a)'
  BY <1>2 DEF CallsInv, OwnInv
<1> QED
  BY <1>5, <1>6, StepKeeps

\* A step that changes only what is an association's own is a step of it.
LEMMA IsStepOf ==
  ASSUME VariablesInv, NEW a \in Assocs,
         DOMAIN value' = V!Keys,
         \A b \in Assocs \ {a} : \A name \in Names : value'[<<b, name>>] = value[<<b, name>>],
         hp' = hp \/ \E h \in {"idle", "item", "reading", "writing"} : hp' = [hp EXCEPT ![a] = h],
         req' = req \/ \E r : req' = [req EXCEPT ![a] = r],
         current' = current \/ \E c : current' = [current EXCEPT ![a] = c],
         results' = results \/ \E s : results' = [results EXCEPT ![a] = s]
  PROVE  StepOf(a)
<1>1. /\ hp' \in [Assocs -> {"idle", "item", "reading", "writing"}]
      /\ \A b \in Assocs \ {a} : hp'[b] = hp[b]
  BY DEF VariablesInv
<1>2. DOMAIN req' = Assocs /\ \A b \in Assocs \ {a} : req'[b] = req[b]
  BY Zenon DEF VariablesInv
<1>3. DOMAIN current' = Assocs /\ \A b \in Assocs \ {a} : current'[b] = current[b]
  BY Zenon DEF VariablesInv
<1>4. DOMAIN results' = Assocs /\ \A b \in Assocs \ {a} : results'[b] = results[b]
  BY Zenon DEF VariablesInv
<1> QED
  BY <1>1, <1>2, <1>3, <1>4, Zenon DEF StepOf

\* The variable of an item that has one
LEMMA VarIs ==
  ASSUME VariablesConstants, VariablesInv, NEW a \in Assocs, AtItem(a)
  PROVE  /\ V!I(a) \in 1 .. Len(req[a].items) /\ IsPath(V!Item(a).path)
         /\ V!Var(a) \in V!Keys
         /\ V!Var(a) = IF V!Item(a).scope = "association" THEN <<a, V!Item(a).name>>
                       ELSE <<"domain", V!Item(a).name>>
<1>0. ItemsInv(a)
  BY DEF VariablesInv
<1>1. V!I(a) \in 1 .. Len(req[a].items)
  BY <1>0, Counts DEF AtItem
<1>2. IsPath(V!Item(a).path) /\ V!Item(a).scope \in {"association", "domain"}
  BY <1>0, <1>1, Counts DEF V!Item
<1>3. V!Var(a) = IF V!Item(a).scope = "association" THEN <<a, V!Item(a).name>>
                 ELSE <<"domain", V!Item(a).name>>
  BY <1>2, Zenon DEF V!Var, V!Key
<1>4. V!Var(a) \in V!Keys
  BY <1>2, <1>3 DEF V!Keys, AtItem
<1> QED
  BY <1>1, <1>2, <1>3, <1>4

\* A request is dispatched, and answered.
LEMMA RequestStep ==
  ASSUME VariablesConstants, VariablesInv, NEW a \in Assocs,
         (\E r \in Requests[a] : V!Dispatch(a, r)) \/ V!Answer(a)
  PROVE  VariablesInv'
<1>0. ItemsInv(a) /\ CallsInv(a)
  BY DEF VariablesInv
<1>1. /\ results'[a] = <<>> /\ current'[a] = V!Nil
      /\ req'[a] \in Requests[a] \cup {V!NoRequest}
      /\ hp'[a] \in {"idle", "item"} /\ (hp'[a] = "idle" => req'[a] = V!NoRequest)
  <2>1. current[a] = V!Nil
    <3> SUFFICES ASSUME AtItem(a) PROVE FALSE
      BY <1>0, Zenon DEF CallsInv
    <3>1. V!I(a) <= Len(req[a].items) /\ V!I(a) \in Nat /\ V!I(a) # 0 /\ Len(req[a].items) \in Nat
      BY <1>0, Counts DEF AtItem
    <3>2. CASE V!Answer(a)
      BY <3>1, <3>2 DEF V!Answer, V!Answerable
    <3>3. CASE hp[a] = "idle"
      BY <1>0, <3>1, <3>3 DEF ItemsInv, V!NoRequest
    <3> QED
      BY <3>2, <3>3 DEF V!Dispatch
  <2> QED
    BY <2>1 DEF VariablesInv, V!Dispatch, V!Answer
<1>2. StepOf(a)
  <2>1. UNCHANGED <<value, current>>
    BY DEF V!Dispatch, V!Answer
  <2>2. \E h \in {"idle", "item", "reading", "writing"} : hp' = [hp EXCEPT ![a] = h]
    BY DEF V!Dispatch, V!Answer
  <2>3. (\E r : req' = [req EXCEPT ![a] = r]) /\ (\E s : results' = [results EXCEPT ![a] = s])
    BY DEF V!Dispatch, V!Answer
  <2> QED
    BY <2>1, <2>2, <2>3, IsStepOf, Zenon DEF VariablesInv
<1>3. ItemsInv(a)'
  <2>1. Len(results'[a]) = 0 /\ results'[a] \in Seq({})
    BY <1>1
  <2>2. Len(req'[a].items) \in Nat
    <3>1. CASE req'[a] \in Requests[a]
      BY <3>1, Zenon DEF VariablesConstants
    <3>2. CASE req'[a] = V!NoRequest
      BY <3>2 DEF V!NoRequest
    <3> QED
      BY <1>1, <3>1, <3>2
  <2> QED
    BY <1>1, <2>1, <2>2 DEF ItemsInv
<1>4. CallsInv(a)' /\ OwnInv(a)'
  BY <1>1 DEF CallsInv, OwnInv
<1> QED
  BY <1>2, <1>3, <1>4, StepKeeps

\* The callbacks and the results of the items.
LEMMA ItemStep ==
  ASSUME VariablesConstants, VariablesInv, NEW a \in Assocs,
         \/ V!MissingItem(a) \/ V!ReadBegins(a) \/ V!ReadReturns(a) \/ V!ReadFails(a)
         \/ V!WriteBegins(a) \/ V!WriteReturns(a) \/ V!WriteFails(a)
  PROVE  VariablesInv'
<1>0. ItemsInv(a) /\ CallsInv(a) /\ OwnInv(a) /\ a \in DOMAIN hp /\ a \in DOMAIN current
  BY DEF VariablesInv
<1>1. /\ Len(req[a].items) \in Nat /\ Len(req[a].values) \in Nat
      /\ Len(results[a]) \in Nat /\ V!I(a) = Len(results[a]) + 1
  BY <1>0, Counts
<1>2. ASSUME hp' = hp \/ (\E h \in {"item", "reading", "writing"} : hp' = [hp EXCEPT ![a] = h]),
             current' = current \/ (\E c : current' = [current EXCEPT ![a] = c]),
             results' = results \/ (\E s : results' = [results EXCEPT ![a] = s]),
             UNCHANGED <<value, req>>
      PROVE  StepOf(a)
  BY <1>2, IsStepOf, Zenon DEF VariablesInv
\* A step that answers, and leaves the values alone.
<1>3. ASSUME NEW x, V!Answers(a, x), UNCHANGED <<value, req>>, hp[a] # "idle",
             (hp' = hp /\ hp[a] = "item") \/ hp' = [hp EXCEPT ![a] = "item"],
             V!I(a) <= Len(req[a].items), x.kind # "success",
             x.kind = "data" => req[a].kind = "read",
             V!Item(a).name \notin Names => x = V!Error
      PROVE  VariablesInv'
  <2>1. hp'[a] = "item"
    BY <1>0, <1>3, Zenon
  <2>2. StepOf(a)
    BY <1>2, <1>3, Zenon DEF V!Answers
  <2> QED
    BY <1>3, <2>1, <2>2, AnswersStep, Zenon
<1>4. V!Error.kind = "error" /\ V!Success.kind = "success" /\ \A y : V!Data(y).kind = "data"
  BY DEF V!Error, V!Success, V!Data
\* A step that answers nothing and stays at its item.
<1>5. ASSUME UNCHANGED <<value, req, results>>, StepOf(a), AtItem(a), hp'[a] # "idle",
             current'[a] = current[a] \/ current'[a] = value[V!Var(a)],
             hp'[a] = "writing" => /\ req[a].kind = "write" /\ V!Patched(a)' # V!Nil
                                   /\ V!Item(a).path # <<>> => current'[a] # V!Nil
      PROVE  VariablesInv'
  <2>1. V!I(a)' = V!I(a) /\ V!Item(a)' = V!Item(a) /\ V!Var(a)' = V!Var(a)
    BY <1>5, Zenon DEF V!I, V!Item, V!Var
  <2>2. ItemsInv(a)'
    <3>1. \A i : ResultFits(a, i)' = ResultFits(a, i)
      BY <1>5, Zenon DEF ResultFits
    <3> QED
      BY <1>0, <1>5, <3>1, Zenon DEF ItemsInv
  <2>3. CallsInv(a)'
    <3>1. AtItem(a)'
      BY <1>5, <2>1, Zenon DEF AtItem
    <3> QED
      BY <1>5, <2>1, <3>1, Zenon DEF CallsInv
  <2>4. OwnInv(a)'
    BY <1>0, <1>5, <2>1, Zenon DEF OwnInv
  <2> QED
    BY <1>5, <2>2, <2>3, <2>4, StepKeeps, Zenon
<1>6. CASE V!MissingItem(a)
  BY <1>3, <1>4, <1>6, Zenon DEF V!MissingItem, V!Pending
<1>7. CASE V!ReadBegins(a)
  <2>1. AtItem(a)
    BY <1>7, Zenon DEF V!ReadBegins, V!Served, V!Pending, AtItem
  <2>2. hp'[a] = "reading" /\ UNCHANGED <<value, req, current, results>>
    BY <1>0, <1>7, Zenon DEF V!ReadBegins
  <2>3. StepOf(a)
    BY <1>2, <1>7, Zenon DEF V!ReadBegins
  <2> QED
    BY <1>5, <2>1, <2>2, <2>3
<1>8. ASSUME hp[a] = "reading" PROVE AtItem(a) /\ hp[a] # "idle"
  BY <1>0, <1>8, Zenon DEF CallsInv
<1>9. CASE V!ReadFails(a)
  BY <1>3, <1>4, <1>8, <1>9, Zenon DEF V!ReadFails, AtItem
<1>10. CASE V!ReadReturns(a)
  <2>1. AtItem(a) /\ hp[a] # "idle"
    BY <1>8, <1>10, Zenon DEF V!ReadReturns
  <2>2. CASE req[a].kind = "read"
    <3>1. PICK y \in {V!Error, V!Data(V!Select(value[V!Var(a)], Type, V!Item(a).path))} :
            V!Answers(a, y)
      BY <1>10, <2>2 DEF V!ReadReturns
    <3>2. y.kind # "success"
      BY <1>4
    <3> QED
      BY <1>3, <1>10, <2>1, <2>2, <3>1, <3>2, Zenon DEF V!ReadReturns, AtItem
  <2>3. CASE req[a].kind = "write"
    <3>1. /\ current' = [current EXCEPT ![a] = value[V!Var(a)]] /\ hp' = [hp EXCEPT ![a] = "item"]
          /\ UNCHANGED <<value, req, results>>
      BY <1>10, <2>3 DEF V!ReadReturns
    <3>2. current'[a] = value[V!Var(a)] /\ hp'[a] = "item"
      BY <1>0, <3>1, Zenon
    <3>3. StepOf(a)
      BY <1>2, <3>1, Zenon
    <3> QED
      BY <1>5, <2>1, <3>1, <3>2, <3>3
  <2> QED
    BY <1>10, <2>2, <2>3, Zenon DEF V!ReadReturns
<1>11. CASE V!WriteBegins(a)
  <2>1. AtItem(a) /\ hp[a] = "item"
    BY <1>11, Zenon DEF V!WriteBegins, V!Served, V!Pending, AtItem
  <2>2. CASE V!Patched(a) # V!Nil
    <3>1. hp' = [hp EXCEPT ![a] = "writing"] /\ UNCHANGED <<value, req, current, results>>
      BY <1>11, <2>2, Zenon DEF V!WriteBegins
    <3>2. hp'[a] = "writing" /\ V!Patched(a)' = V!Patched(a)
      BY <1>0, <3>1, Zenon DEF V!Patched, V!Item, V!I
    <3>3. StepOf(a)
      BY <1>2, <3>1, Zenon
    <3>4. req[a].kind = "write" /\ (V!Item(a).path # <<>> => current'[a] # V!Nil)
      BY <1>11, <3>1, Zenon DEF V!WriteBegins
    <3> QED
      BY <1>5, <2>1, <2>2, <3>1, <3>2, <3>3, <3>4
  <2>3. CASE V!Patched(a) = V!Nil
    BY <1>3, <1>4, <1>11, <2>1, <2>3, Zenon DEF V!WriteBegins, AtItem
  <2> QED
    BY <2>2, <2>3
<1>12. ASSUME hp[a] = "writing" PROVE AtItem(a) /\ hp[a] # "idle" /\ req[a].kind = "write"
  BY <1>0, <1>12, Zenon DEF CallsInv
<1>13. CASE V!WriteFails(a)
  BY <1>3, <1>4, <1>12, <1>13, Zenon DEF V!WriteFails, AtItem
<1>14. CASE V!WriteReturns(a)
  <2>1. AtItem(a) /\ hp[a] # "idle" /\ req[a].kind = "write"
    BY <1>12, <1>14, Zenon DEF V!WriteReturns
  <2>2. /\ value' = [value EXCEPT ![V!Var(a)] = V!Patched(a)]
        /\ UNCHANGED req /\ hp' = [hp EXCEPT ![a] = "item"]
    BY <1>14, Zenon DEF V!WriteReturns
  <2>3. DOMAIN value' = V!Keys
    BY <2>2, Zenon DEF VariablesInv
  <2>4. ASSUME NEW b \in Assocs \ {a}, NEW name \in Names
        PROVE  value'[<<b, name>>] = value[<<b, name>>]
    <3>1. <<b, name>> \in V!Keys /\ b # "domain"
      BY DEF V!Keys, VariablesConstants
    <3>2. <<b, name>> # V!Var(a)
      BY <2>1, <3>1, VarIs
    <3> QED
      BY <2>2, <3>1, <3>2 DEF VariablesInv
  <2>5. StepOf(a)
    BY <1>14, <2>2, <2>3, <2>4, IsStepOf, Zenon DEF V!WriteReturns, V!Answers
  <2>6. hp'[a] = "item"
    BY <1>0, <2>2, Zenon
  <2>7. V!Answers(a, V!Success)
    BY <1>14, Zenon DEF V!WriteReturns
  <2> QED
    BY <1>4, <2>1, <2>2, <2>5, <2>6, <2>7, AnswersStep, Zenon DEF AtItem
<1> QED
  BY <1>6, <1>7, <1>9, <1>10, <1>11, <1>13, <1>14

\* Every step of a handler keeps the invariant.
LEMMA VariablesInductive ==
  ASSUME VariablesConstants, VariablesInv, [V!Next]_(V!vars)
  PROVE  VariablesInv'
<1>1. CASE V!Next
  BY <1>1, RequestStep, ItemStep DEF V!Next
<1>2. CASE UNCHANGED V!vars
  <2>1. UNCHANGED <<value, hp, req, current, results>>
    BY <1>2, Zenon DEF V!vars
  <2>2. ASSUME NEW a \in Assocs PROVE ItemsInv(a)' /\ CallsInv(a)' /\ OwnInv(a)'
    BY <2>1, Zenon DEF VariablesInv, ItemsInv, ResultFits, CallsInv, AtItem, OwnInv, V!I, V!Item,
       V!Var, V!Patched
  <2> QED
    BY <2>1, <2>2, Zenon DEF VariablesInv, V!Keys
<1> QED
  BY <1>1, <1>2

\* A path without selectors overlaps every other.
LEMMA EmptyOverlaps ==
  ASSUME NEW t, NEW q, IsPath(q)
  PROVE  V!Overlap(t, <<>>, q)
<1>1. Len(<<>>) = 0 /\ Len(q) \in Nat
  BY DEF IsPath
<1>2. CommonOf(V!Common(t, <<>>, q), t, <<>>, q, Shorter(<<>>, q)) /\ Shorter(<<>>, q) = 0
  BY <1>1, CommonIs DEF Shorter
<1>3. V!Common(t, <<>>, q)[0] = {t}
  BY <1>2 DEF CommonOf
<1>4. 0 \in (0 .. Len(<<>>)) \cap (0 .. Len(q)) /\ {t} # {}
  BY <1>1
<1> QED
  BY <1>1, <1>3, <1>4, Zenon DEF V!Overlap

\* What a write callback that returns has done
LEMMA Writes ==
  ASSUME VariablesConstants, VariablesInv, NEW a \in Assocs, V!WriteReturns(a)
  PROVE  /\ AtItem(a) /\ IsPath(V!Item(a).path) /\ V!Patched(a) # V!Nil
         /\ IsValue(req[a].values[V!I(a)])
         /\ V!Item(a).path # <<>> => current[a] # V!Nil
         /\ \A k \in V!Keys : value'[k] = IF k = V!Var(a) THEN V!Patched(a) ELSE value[k]
         /\ V!Var(a) \in V!Keys
<1>1. ItemsInv(a) /\ CallsInv(a) /\ hp[a] = "writing"
  BY Zenon DEF VariablesInv, V!WriteReturns
<1>2. /\ AtItem(a) /\ req[a].kind = "write" /\ V!Patched(a) # V!Nil
      /\ V!Item(a).path # <<>> => current[a] # V!Nil
  BY <1>1, Zenon DEF CallsInv
<1>3. IsPath(V!Item(a).path) /\ V!Var(a) \in V!Keys
  BY <1>2, VarIs
<1>4. IsValue(req[a].values[V!I(a)])
  <2>1. V!I(a) \in 1 .. Len(req[a].values)
    BY <1>1, <1>2, Counts DEF AtItem
  <2> QED
    BY <1>1, <2>1, Counts
<1>5. value' = [value EXCEPT ![V!Var(a)] = V!Patched(a)] /\ DOMAIN value = V!Keys
  BY Zenon DEF V!WriteReturns, VariablesInv
<1> QED
  BY <1>2, <1>3, <1>4, <1>5

\* Every answer has one result per item, in the order of the items and of the
\* kind of the request, whatever items fail.
THEOREM AnsweredInOrder ==
  ASSUME VariablesConstants
  PROVE  V!Spec => V!Answered
<1> DEFINE Right == \A a \in Assocs : V!Answer(a) =>
             /\ Len(results[a]) = Len(req[a].items)
             /\ \A i \in DOMAIN results[a] :
                  /\ results[a][i].kind = "success" =>
                       req[a].kind = "write" /\ i <= Len(req[a].values)
                  /\ results[a][i].kind = "data" => req[a].kind = "read"
                  /\ req[a].items[i].name \notin Names => results[a][i] = V!Error
<1>1. VariablesInv => Right
  <2> SUFFICES ASSUME VariablesInv, NEW a \in Assocs, V!Answer(a)
               PROVE  /\ Len(results[a]) = Len(req[a].items)
                      /\ \A i \in DOMAIN results[a] : ResultFits(a, i)
    BY Zenon DEF ResultFits
  <2>1. ItemsInv(a)
    BY DEF VariablesInv
  <2>2. Len(results[a]) = Len(req[a].items)
    BY <2>1, Counts DEF ItemsInv, V!Answer, V!Answerable
  <2>3. DOMAIN results[a] = 1 .. Len(results[a])
    BY <2>1 DEF ItemsInv
  <2> QED
    BY <2>1, <2>2, <2>3 DEF ItemsInv
<1>2. V!Init => VariablesInv
  BY VariablesInitially
<1>3. VariablesInv /\ [V!Next]_(V!vars) => VariablesInv'
  BY VariablesInductive
<1> QED
  BY <1>1, <1>2, <1>3, PTL DEF V!Spec, V!Answered

\* A read along the path of an accepted write returns what was written, for
\* every type and for paths of any depth.
THEOREM WritesReadBack ==
  ASSUME VariablesConstants
  PROVE  V!Spec => V!ReadBack
<1> DEFINE Right == \A a \in Assocs : V!WriteReturns(a) =>
             V!Select(value'[V!Var(a)], Type, V!Item(a).path) = req[a].values[V!I(a)]
<1>1. VariablesInv => Right
  <2> SUFFICES ASSUME VariablesInv, NEW a \in Assocs, V!WriteReturns(a)
               PROVE  V!Select(value'[V!Var(a)], Type, V!Item(a).path) = req[a].values[V!I(a)]
    OBVIOUS
  <2>1. /\ IsPath(V!Item(a).path) /\ IsValue(req[a].values[V!I(a)]) /\ V!Patched(a) # V!Nil
        /\ value'[V!Var(a)] = V!Patched(a)
    BY Writes
  <2> DEFINE p == V!Item(a).path
             w == req[a].values[V!I(a)]
             c == current[a]
  <2>2. V!Patched(a) = V!Patch(c, Type, p, w)
    BY Zenon DEF V!Patched
  <2>3. V!Select(V!Patch(c, Type, p, w), Type, p) = w
    <3>1. IsPath(p) /\ IsValue(w) /\ V!Patch(c, Type, p, w) # V!Nil
      BY <2>1, <2>2, Zenon
    <3> HIDE DEF p, w, c
    <3> QED
      BY <3>1, ReadsBack
  <2> QED
    BY <2>1, <2>2, <2>3, Zenon
<1>2. V!Init => VariablesInv
  BY VariablesInitially
<1>3. VariablesInv /\ [V!Next]_(V!vars) => VariablesInv'
  BY VariablesInductive
<1> QED
  BY <1>1, <1>2, <1>3, PTL DEF V!Spec, V!ReadBack

\* An accepted write changes only what its path names in the variable of its
\* own association, although it writes the whole variable, for every type and
\* for paths of any depth.
THEOREM WritesKeepOthers ==
  ASSUME VariablesConstants
  PROVE  V!Spec => V!OthersKept
<1> DEFINE Right == \A a \in Assocs : V!WriteReturns(a) =>
             \A k \in V!Keys, q \in Paths :
               k[1] # "domain" /\ (k = V!Var(a) => ~ V!Overlap(Type, V!Item(a).path, q)) =>
                 V!Select(value'[k], Type, q) = V!Select(value[k], Type, q)
<1>1. VariablesInv => Right
  <2> SUFFICES ASSUME VariablesInv, NEW a \in Assocs, V!WriteReturns(a),
                      NEW k \in V!Keys, NEW q \in Paths, k[1] # "domain",
                      k = V!Var(a) => ~ V!Overlap(Type, V!Item(a).path, q)
               PROVE  V!Select(value'[k], Type, q) = V!Select(value[k], Type, q)
    BY Zenon
  <2>0. IsPath(q)
    BY DEF VariablesConstants
  <2>1. /\ AtItem(a) /\ IsPath(V!Item(a).path) /\ V!Patched(a) # V!Nil
        /\ V!Item(a).path # <<>> => current[a] # V!Nil
        /\ value'[k] = IF k = V!Var(a) THEN V!Patched(a) ELSE value[k]
    BY Writes
  <2>2. CASE k # V!Var(a)
    BY <2>1, <2>2, Zenon
  <2>3. CASE k = V!Var(a)
    <3>1. V!Item(a).scope = "association"
      BY <2>1, <2>3, VarIs
    <3>2. V!Item(a).path # <<>>
      BY <2>0, <2>3, EmptyOverlaps, Zenon
    <3>3. current[a] = value[k]
      BY <2>1, <2>3, <3>1, <3>2, Zenon DEF VariablesInv, OwnInv
    <3>4. V!Select(V!Patched(a), Type, q) = V!Select(current[a], Type, q)
      <4> DEFINE p == V!Item(a).path
                 w == req[a].values[V!I(a)]
                 c == current[a]
      <4>1. V!Patched(a) = V!Patch(c, Type, p, w)
        BY Zenon DEF V!Patched
      <4>2. IsPath(p) /\ V!Patch(c, Type, p, w) # V!Nil /\ ~ V!Overlap(Type, p, q)
        BY <2>1, <2>3, <4>1, Zenon
      <4> HIDE DEF p, w, c
      <4>3. V!Select(V!Patch(c, Type, p, w), Type, q) = V!Select(c, Type, q)
        BY <2>0, <4>2, OthersKeep
      <4> QED
        BY <4>1, <4>3, Zenon DEF c
    <3> QED
      BY <2>1, <2>3, <3>3, <3>4, Zenon
  <2> QED
    BY <2>2, <2>3
<1>2. V!Init => VariablesInv
  BY VariablesInitially
<1>3. VariablesInv /\ [V!Next]_(V!vars) => VariablesInv'
  BY VariablesInductive
<1> QED
  BY <1>1, <1>2, <1>3, PTL DEF V!Spec, V!OthersKept

=============================================================================
