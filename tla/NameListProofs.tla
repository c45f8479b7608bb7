--------------------------- MODULE NameListProofs ---------------------------
(***************************************************************************)
(* Proofs about the named variable lists and their enumeration, for any    *)
(* number of names, clients and pages.  The index is followed through its  *)
(* arrays: what an insertion, a deletion and the deletion of a scope leave *)
(* in them (MovedHolds, RemovedHolds, LeftHolds, the last by induction     *)
(* over the loop).  The invariant then says of an enumeration whose pages  *)
(* were not torn that the names up to its token have been collected        *)
(* (Gathered) and that the page being encoded is the one paginate would    *)
(* cut out now (Cut).                                                      *)
(***************************************************************************)
EXTENDS NameList, FiniteSetTheorems, Induction, TLAPS

\* A leaf that names no prover is tried with Z3, with Zenon, and with Z3 for longer.
USE SMT, Zenon, SMTT(20)

\* What is assumed of the constants
Constants ==
  /\ Names \subseteq Nat \ {0} /\ Static \subseteq Names
  /\ PageSize \in Nat \ {0} /\ MaxNames \in Nat
  /\ "domain" \notin Clients /\ Listers \subseteq Clients

Cells == Names \cup {0}
Sorted(a, k) == \A i, j \in 1 .. k : i < j => a[i] < a[j]
Entries(a, k) == {a[i] : i \in 1 .. k}

\* a is an array that holds a sorted index of k names.
Holds(a, k) ==
  /\ a \in Seq(Cells) /\ k \in 0 .. Len(a)
  /\ Sorted(a, k) /\ Entries(a, k) \subseteq Names

\* No cell that held a name is cleared.
Keeps(a, b) == \A i \in 1 .. Len(a) : a[i] \in Names => b[i] \in Names

-----------------------------------------------------------------------------
(* The operations on the index *)

\* The position SearchStrings finds is between the smaller names and the others.
LEMMA SearchFinds ==
  ASSUME Constants, Holds(array, len), NEW n \in Names
  PROVE  /\ Search(n) \in 0 .. len
         /\ \A i \in 1 .. len : i <= Search(n) <=> array[i] < n
<1> DEFINE T == {i \in 1 .. len : ~ (array[i] < n)} \cup {len + 1}
<1>0. len \in Nat /\ n \in Nat /\ \A i \in 1 .. len : array[i] \in Nat
  <2>1. \A i \in 1 .. len : array[i] \in Names
    BY Zenon DEF Holds, Entries
  <2>2. len \in Nat /\ n \in Nat /\ Names \subseteq Nat
    BY DEF Constants, Holds
  <2> QED
    BY <2>1, <2>2, Zenon
<1>1. PICK x \in T : \A y \in T : x <= y
  <2>1. T \subseteq Nat /\ T # {}
    BY <1>0
  <2> HIDE DEF T
  <2> QED
    BY <2>1, LeastNumber, Zenon
<1>2. x \in 1 .. len + 1
  BY <1>0, <1>1
<1>3. \A i \in 1 .. len : i < x => array[i] < n
  BY <1>0, <1>1, <1>2
<1>4. \A i \in 1 .. len : x <= i => ~ (array[i] < n)
  <2> SUFFICES ASSUME NEW i \in 1 .. len, x <= i PROVE ~ (array[i] < n)
    OBVIOUS
  <2>1. x \in 1 .. len /\ ~ (array[x] < n)
    BY <1>0, <1>1, <1>2
  <2>2. x = i \/ array[x] < array[i]
    BY <1>2, <2>1 DEF Holds, Sorted
  <2> QED
    BY <1>0, <2>1, <2>2
<1>5. {i \in 1 .. len : array[i] < n} = 1 .. x - 1
  BY <1>0, <1>2, <1>3, <1>4
<1>6. Search(n) = x - 1
  <2>1. 1 \in Int /\ x - 1 \in Int /\ x - 1 \in Nat
    BY <1>0, <1>2
  <2>2. Cardinality(1 .. x - 1) = IF 1 > x - 1 THEN 0 ELSE x - 1 - 1 + 1
    BY <2>1, FS_Interval, Zenon
  <2>3. Search(n) = Cardinality(1 .. x - 1)
    BY <1>5, Zenon DEF Search
  <2> QED
    BY <2>1, <2>2, <2>3
<1> QED
  BY <1>0, <1>2, <1>3, <1>4, <1>6

\* removeFromSorted leaves a sorted index without the name, and no cell in front of its end loses
\* its name.
LEMMA RemovedHolds ==
  ASSUME Constants, NEW o, Holds(o.array, o.len), NEW n
  PROVE  LET r == Removed(o, n)
         IN  /\ Holds(r.array, r.len) /\ Len(r.array) = Len(o.array)
             /\ Entries(r.array, r.len) = Entries(o.array, o.len) \ {n}
             /\ Keeps(o.array, r.array)
<1> DEFINE r == Removed(o, n)
           a == o.array
           k == o.len
<1>0. k \in 0 .. Len(a) /\ Len(a) \in Nat /\ DOMAIN a = 1 .. Len(a) /\ a \in Seq(Cells)
      /\ \A i \in 1 .. k : a[i] \in Names
  BY DEF Holds, Entries
<1>1. CASE \A i \in 1 .. k : a[i] # n
  <2>1. r = o
    BY <1>1 DEF Removed
  <2> QED
    BY <1>1, <2>1, <1>0 DEF Entries, Keeps
<1>2. CASE \E i \in 1 .. k : a[i] = n
  <2> DEFINE at == CHOOSE i \in 1 .. k : a[i] = n
             b == [i \in 1 .. Len(a) |-> IF at <= i /\ i < k THEN a[i + 1] ELSE a[i]]
  <2>1. at \in 1 .. k /\ a[at] = n
    BY <1>2
  <2>2. r = [array |-> b, len |-> k - 1]
    BY <1>0, <1>2 DEF Removed
  <2> HIDE DEF at, a, k, r
  <2>3. \A i \in 1 .. Len(a) : b[i] = IF at <= i /\ i < k THEN a[i + 1] ELSE a[i]
    OBVIOUS
  <2>4. b \in Seq(Cells) /\ Len(b) = Len(a)
    <3>1. \A i \in 1 .. Len(a) : b[i] \in Cells
      BY <1>0, <2>1, <2>3
    <3> QED
      BY <1>0, <3>1
  <2>5. Sorted(b, k - 1)
    <3>1. Sorted(a, k)
      BY DEF Holds, a, k
    <3> SUFFICES ASSUME NEW i \in 1 .. k - 1, NEW j \in 1 .. k - 1, i < j PROVE b[i] < b[j]
      BY DEF Sorted
    <3>2. b[i] = (IF at <= i THEN a[i + 1] ELSE a[i]) /\ b[j] = (IF at <= j THEN a[j + 1] ELSE a[j])
      BY <1>0, <2>1, <2>3
    <3> QED
      BY <1>0, <2>1, <3>1, <3>2 DEF Sorted
  <2>6. Entries(b, k - 1) = Entries(a, k) \ {n}
    <3>1. ASSUME NEW i \in 1 .. k - 1 PROVE b[i] \in Entries(a, k) /\ b[i] # n
      <4>1. b[i] = (IF at <= i THEN a[i + 1] ELSE a[i])
        BY <1>0, <2>1, <2>3
      <4>2. Sorted(a, k) /\ \A h \in 1 .. k : a[h] \in Nat
        BY <1>0, Zenon DEF Holds, a, k, Constants
      <4>3. (at < i + 1 => a[at] < a[i + 1]) /\ (i < at => a[i] < a[at])
        BY <1>0, <2>1, <4>2 DEF Sorted
      <4>4. b[i] # n
        BY <1>0, <2>1, <4>1, <4>2, <4>3
      <4> QED
        BY <1>0, <2>1, <4>1, <4>4 DEF Entries
    <3>2. ASSUME NEW i \in 1 .. k, a[i] # n PROVE a[i] \in Entries(b, k - 1)
      <4>1. CASE i < at
        <5>1. i \in 1 .. k - 1 /\ b[i] = a[i]
          BY <1>0, <2>1, <2>3, <4>1
        <5> HIDE DEF b
        <5> QED
          BY <5>1 DEF Entries
      <4>2. CASE at < i
        <5>1. i - 1 \in 1 .. k - 1 /\ b[i - 1] = a[i]
          BY <1>0, <2>1, <2>3, <4>2
        <5> HIDE DEF b
        <5> QED
          BY <5>1 DEF Entries
      <4> QED
        BY <2>1, <3>2, <4>1, <4>2
    <3> HIDE DEF b
    <3> QED
      BY <3>1, <3>2 DEF Entries
  <2>7. Keeps(a, b)
    BY <1>0, <2>1, <2>3 DEF Keeps
  <2>8. Entries(a, k) \subseteq Names
    BY DEF Holds, a, k
  <2> HIDE DEF b
  <2>9. Holds(b, k - 1)
    BY <1>0, <2>1, <2>4, <2>5, <2>6, <2>8 DEF Holds
  <2> QED
    BY <2>2, <2>4, <2>6, <2>7, <2>9 DEF r, a, k
<1> QED
  BY <1>1, <1>2

\* One round of the loop that deletes a scope
Round(o, k) == IF array[k] \in nvls \ Static THEN Removed(o, array[k]) ELSE o

\* The loop that deletes a scope is defined for every number of rounds,
LEMMA LeftExists ==
  ASSUME NEW m \in Nat
  PROVE  \E f : f = [k \in 0 .. m |-> IF k = 0 THEN order ELSE Round(f[k - 1], k)]
<1> DEFINE Is(f, n) == f = [k \in 0 .. n |-> IF k = 0 THEN order ELSE Round(f[k - 1], k)]
           T == {n \in Nat : \E f : Is(f, n)}
<1>1. 0 \in T
  <2>1. Is([k \in 0 .. 0 |-> order], 0)
    OBVIOUS
  <2> HIDE DEF Is
  <2> QED
    BY <2>1
<1>2. ASSUME NEW n \in T PROVE n + 1 \in T
  <2>1. PICK f : Is(f, n)
    BY <1>2
  <2> DEFINE g == [k \in 0 .. n + 1 |-> IF k = n + 1 THEN Round(f[n], n + 1) ELSE f[k]]
  <2>2. Is(g, n + 1)
    <3>1. ASSUME NEW k \in 0 .. n + 1 PROVE g[k] = IF k = 0 THEN order ELSE Round(g[k - 1], k)
      BY <2>1
    <3> QED
      BY <3>1
  <2> HIDE DEF Is, g
  <2> QED
    BY <2>2
<1> HIDE DEF T
<1>3. T = Nat
  BY <1>1, <1>2, SetInduction, Zenon DEF T
<1> QED
  BY <1>3 DEF T

\* so that Left follows its definition.
LEMMA LeftIs ==
  ASSUME len \in Nat
  PROVE  Left = [k \in 0 .. len |-> IF k = 0 THEN order ELSE Round(Left[k - 1], k)]
<1>1. \E f : f = [k \in 0 .. len |-> IF k = 0 THEN order ELSE Round(f[k - 1], k)]
  BY LeftExists, Zenon
<1>2. Left = CHOOSE f : f = [k \in 0 .. len |-> IF k = 0 THEN order ELSE Round(f[k - 1], k)]
  BY Zenon DEF Left, Round
<1> QED
  BY <1>1, <1>2, Zenon

\* The deletion of a scope leaves a sorted index of the names that cannot be deleted.
LEMMA LeftHolds ==
  ASSUME Constants, Holds(array, len), Entries(array, len) = nvls
  PROVE  LET r == Left[len]
         IN  /\ Holds(r.array, r.len) /\ Len(r.array) = Len(array)
             /\ Entries(r.array, r.len) = nvls \cap Static
             /\ Keeps(array, r.array)
<1> DEFINE Good(k) == /\ Holds(Left[k].array, Left[k].len)
                      /\ Len(Left[k].array) = Len(array)
                      /\ Entries(Left[k].array, Left[k].len) = nvls \ (Entries(array, k) \ Static)
                      /\ Keeps(array, Left[k].array)
           T == {k \in Nat : k <= len => Good(k)}
<1>0. len \in Nat /\ Len(array) \in Nat
  BY DEF Holds
<1>1. Left[0] = order /\ \A k \in 1 .. len : Left[k] = Round(Left[k - 1], k)
  BY <1>0, LeftIs
<1>2. 0 \in T
  <2>1. Left[0].array = array /\ Left[0].len = len
    BY <1>1 DEF order
  <2>2. Entries(array, 0) = {} /\ Keeps(array, array)
    BY DEF Entries, Keeps
  <2>3. Good(0)
    BY <2>1, <2>2
  <2> HIDE DEF Good
  <2> QED
    BY <2>3
<1>3. ASSUME NEW j \in T PROVE j + 1 \in T
  <2> DEFINE k == j + 1
             x == array[k]
  <2>0. k \in Nat /\ j \in Nat
    BY <1>3
  <2> SUFFICES ASSUME k <= len PROVE Good(k)
    BY <2>0
  <2>1. Good(j) /\ k \in 1 .. len
    BY <1>0, <1>3, <2>0
  <2>2. Left[k] = Round(Left[j], k)
    BY <1>1, <2>0, <2>1
  <2>3. Entries(array, k) = Entries(array, j) \cup {x}
    <3>1. 1 .. k = (1 .. j) \cup {k}
      BY <2>0
    <3> QED
      BY <3>1 DEF Entries
  <2>4. x \in nvls
    BY <2>1, Zenon DEF Entries
  <2> HIDE DEF k, x
  <2>5. CASE x \in Static
    <3>1. Left[k] = Left[j]
      BY <2>2, <2>5, Zenon DEF Round, x
    <3>2. Entries(array, k) \ Static = Entries(array, j) \ Static
      BY <2>3, <2>5, Zenon
    <3> QED
      BY <2>1, <3>1, <3>2, Zenon
  <2>6. CASE x \notin Static
    <3>1. Left[k] = Removed(Left[j], x)
      BY <2>2, <2>4, <2>6, Zenon DEF Round, x
    <3>2. /\ Holds(Left[k].array, Left[k].len) /\ Len(Left[k].array) = Len(Left[j].array)
          /\ Entries(Left[k].array, Left[k].len) = Entries(Left[j].array, Left[j].len) \ {x}
          /\ Keeps(Left[j].array, Left[k].array)
      BY <2>1, <3>1, RemovedHolds, Zenon
    <3>3. nvls \ (Entries(array, k) \ Static) = (nvls \ (Entries(array, j) \ Static)) \ {x}
      BY <2>3, <2>6, Zenon
    <3>4. Keeps(array, Left[k].array)
      BY <2>1, <3>2, Zenon DEF Keeps
    <3> QED
      BY <2>1, <3>2, <3>3, <3>4, Zenon
  <2> QED
    BY <2>5, <2>6
<1> HIDE DEF Good
<1>4. T = Nat
  <2> HIDE DEF T
  <2>1. T \subseteq Nat
    BY DEF T
  <2> QED
    BY <1>2, <1>3, <2>1, SetInduction, Zenon
<1>5. Good(len)
  BY <1>0, <1>4
<1>6. nvls \ (Entries(array, len) \ Static) = nvls \cap Static
  OBVIOUS
<1> QED
  BY <1>5, <1>6, Zenon DEF Good

\* slices.Insert: cell i after n is put in at p, in an array with room for k + 1 names
MovedCell(a, k, n, p, i) ==
  IF i = p THEN n
  ELSE IF p < i /\ i <= k + 1 THEN a[i - 1]
  ELSE IF i <= Len(a) THEN a[i] ELSE 0

\* The array after an insertion holds names and free cells.
LEMMA MovedCells ==
  ASSUME Constants, NEW a, NEW k, Holds(a, k), NEW n \in Names, NEW p \in 1 .. k + 1, NEW size \in Nat
  PROVE  LET b == [i \in 1 .. size |-> MovedCell(a, k, n, p, i)]
         IN  b \in Seq(Cells) /\ Len(b) = size /\ \A i \in 1 .. size : b[i] = MovedCell(a, k, n, p, i)
<1> DEFINE b == [i \in 1 .. size |-> MovedCell(a, k, n, p, i)]
<1>0. a \in Seq(Cells) /\ Len(a) \in Nat /\ k \in 0 .. Len(a) /\ \A i \in 1 .. Len(a) : a[i] \in Cells
  BY DEF Holds
<1>1. \A i \in 1 .. size : b[i] = MovedCell(a, k, n, p, i)
  OBVIOUS
<1>2. ASSUME NEW i \in 1 .. size PROVE b[i] \in Cells
  <2>1. p < i /\ i <= k + 1 => i - 1 \in 1 .. Len(a)
    BY <1>0
  <2>2. i <= Len(a) => i \in 1 .. Len(a)
    BY <1>0
  <2> QED
    BY <1>0, <1>1, <2>1, <2>2, Zenon DEF Cells, MovedCell
<1>3. b \in [1 .. size -> Cells]
  BY <1>2
<1> QED
  BY <1>1, <1>3

\* InsertSorted puts a name into its place in a sorted index.
LEMMA MovedHolds ==
  ASSUME Constants, NEW a, NEW k, Holds(a, k), NEW n \in Names, n \notin Entries(a, k),
         NEW p \in 1 .. k + 1, \A i \in 1 .. k : i < p <=> a[i] < n,
         NEW size \in Nat, k + 1 <= size, Len(a) <= size,
         NEW b \in Seq(Cells), Len(b) = size, \A i \in 1 .. size : b[i] = MovedCell(a, k, n, p, i)
  PROVE  /\ Holds(b, k + 1)
         /\ Entries(b, k + 1) = Entries(a, k) \cup {n}
         /\ Keeps(a, b)
<1>0. Len(a) \in Nat /\ k \in 0 .. Len(a) /\ Names \subseteq Nat /\ n \in Nat
  BY DEF Holds, Constants
<1>1. \A i \in 1 .. k : a[i] \in Names /\ a[i] # n
  BY Zenon DEF Holds, Entries
<1>5. ASSUME NEW i \in 1 .. k + 1
      PROVE  /\ i < p => i \in 1 .. k /\ b[i] = a[i]
             /\ i = p => b[i] = n
             /\ i > p => i - 1 \in 1 .. k /\ b[i] = a[i - 1]
  BY <1>0 DEF MovedCell
<1>6. Sorted(b, k + 1)
  <2> SUFFICES ASSUME NEW i \in 1 .. k + 1, NEW j \in 1 .. k + 1, i < j PROVE b[i] < b[j]
    BY Zenon DEF Sorted
  <2>1. \A g, h \in 1 .. k : g < h => a[g] < a[h]
    BY DEF Holds, Sorted
  <2>2. ASSUME NEW h \in 1 .. k PROVE a[h] \in Nat /\ (~ (h < p) => n < a[h])
    <3>1. a[h] \in Nat /\ a[h] # n /\ (h < p <=> a[h] < n)
      BY <1>0, <1>1, Zenon
    <3> QED
      BY <1>0, <3>1
  <2>3. CASE j < p
    <3>1. i \in 1 .. k /\ j \in 1 .. k /\ b[i] = a[i] /\ b[j] = a[j]
      BY <1>5, <2>3
    <3> QED
      BY <2>1, <3>1, Zenon
  <2>4. CASE j = p
    <3>1. i \in 1 .. k /\ b[i] = a[i] /\ b[j] = n /\ i < p
      BY <1>5, <2>4
    <3> QED
      BY <3>1
  <2>5. CASE j > p /\ i < p
    <3>1. i \in 1 .. k /\ j - 1 \in 1 .. k /\ b[i] = a[i] /\ b[j] = a[j - 1] /\ ~ (j - 1 < p)
      BY <1>0, <1>5, <2>5
    <3> QED
      BY <1>0, <2>2, <2>5, <3>1
  <2>6. CASE i = p
    <3>1. j - 1 \in 1 .. k /\ b[i] = n /\ b[j] = a[j - 1] /\ ~ (j - 1 < p)
      BY <1>0, <1>5, <2>6
    <3> QED
      BY <2>2, <3>1
  <2>7. CASE i > p
    <3>1. i - 1 \in 1 .. k /\ j - 1 \in 1 .. k /\ i - 1 < j - 1 /\ b[i] = a[i - 1] /\ b[j] = a[j - 1]
      BY <1>0, <1>5, <2>7
    <3> QED
      BY <2>1, <3>1
  <2> QED
    BY <1>0, <2>3, <2>4, <2>5, <2>6, <2>7
<1>7. Entries(b, k + 1) = Entries(a, k) \cup {n}
  <2>1. ASSUME NEW i \in 1 .. k + 1 PROVE b[i] \in Entries(a, k) \cup {n}
    <3>1. i < p \/ i = p \/ i > p
      BY <1>0
    <3> QED
      BY <1>5, <3>1, Zenon DEF Entries
  <2>2. ASSUME NEW i \in 1 .. k PROVE a[i] \in Entries(b, k + 1)
    <3>1. i < p => i \in 1 .. k + 1 /\ b[i] = a[i]
      BY <1>0, <1>5
    <3>2. ~ (i < p) => i + 1 \in 1 .. k + 1 /\ b[i + 1] = a[i]
      <4> SUFFICES ASSUME ~ (i < p) PROVE i + 1 \in 1 .. k + 1 /\ b[i + 1] = a[i]
        OBVIOUS
      <4>1. i + 1 \in 1 .. k + 1 /\ i + 1 > p /\ (i + 1) - 1 = i
        BY <1>0
      <4> QED
        BY <1>5, <4>1
    <3> QED
      BY <3>1, <3>2, Zenon DEF Entries
  <2>3. n \in Entries(b, k + 1)
    BY <1>5, Zenon DEF Entries
  <2> QED
    BY <2>1, <2>2, <2>3, Zenon DEF Entries
<1>8. Keeps(a, b)
  <2> SUFFICES ASSUME NEW i \in 1 .. Len(a), a[i] \in Names PROVE b[i] \in Names
    BY Zenon DEF Keeps
  <2>1. i \in 1 .. size /\ (p < i /\ i <= k + 1 => i - 1 \in 1 .. k) /\ i <= Len(a)
    BY <1>0
  <2> QED
    BY <1>1, <2>1, Zenon DEF MovedCell
<1>9. Entries(b, k + 1) \subseteq Names
  BY <1>7, Zenon DEF Holds
<1> QED
  BY <1>0, <1>6, <1>7, <1>8, <1>9 DEF Holds

\* The arrays stay, and pages of them stay pages of names.
HeapKeeps ==
  \A h \in DOMAIN heap : /\ h \in DOMAIN heap'
                         /\ Len(heap'[h]) = Len(heap[h])
                         /\ Keeps(heap[h], heap'[h])

HeapType == heap \in Seq(Seq(Cells)) /\ heap # <<>>

\* The current array is one of the heap.
LEMMA Arrays ==
  ASSUME HeapType
  PROVE  /\ Len(heap) \in Nat \ {0} /\ DOMAIN heap = 1 .. Len(heap)
         /\ array = heap[Len(heap)] /\ array \in Seq(Cells)
         /\ \A h \in DOMAIN heap : heap[h] \in Seq(Cells)
BY DEF HeapType, array

\* Keeps is reflexive.
LEMMA KeepsSame ==
  ASSUME NEW a PROVE Keeps(a, a)
BY DEF Keeps

\* Overwriting the current array keeps the other ones.
LEMMA InPlace ==
  ASSUME HeapType, NEW b \in Seq(Cells), Len(b) = Len(array), Keeps(array, b),
         heap' = [heap EXCEPT ![Len(heap)] = b]
  PROVE  HeapType' /\ array' = b /\ HeapKeeps
<1>1. /\ Len(heap) \in Nat \ {0} /\ DOMAIN heap = 1 .. Len(heap)
      /\ array = heap[Len(heap)] /\ array \in Seq(Cells)
  BY Arrays
<1>2. heap' \in Seq(Seq(Cells)) /\ Len(heap') = Len(heap) /\ heap' # <<>>
  BY <1>1 DEF HeapType
<1>3. heap'[Len(heap)] = b /\ \A h \in DOMAIN heap : h # Len(heap) => heap'[h] = heap[h]
  BY <1>1 DEF HeapType
<1>4. HeapKeeps
  <2>1. DOMAIN heap' = DOMAIN heap
    BY <1>1
  <2> QED
    BY <1>1, <1>3, <2>1, KeepsSame, Zenon DEF HeapKeeps
<1> QED
  BY <1>1, <1>2, <1>3, <1>4 DEF HeapType, array

\* An insertion, in place or in a larger array, keeps the index sorted and all arrays.
LEMMA InsertHolds ==
  ASSUME Constants, HeapType, Holds(array, len), NEW n \in Names, n \notin Entries(array, len),
         InsertSorted(n)
  PROVE  /\ HeapType' /\ Holds(array', len')
         /\ Entries(array', len') = Entries(array, len) \cup {n}
         /\ HeapKeeps
<1> DEFINE at == InsertPos(n) + 1
           cap == Len(array)
           moved(size) == [i \in 1 .. size |-> MovedCell(array, len, n, at, i)]
<1>0. len \in 0 .. cap /\ cap \in Nat
  BY DEF Holds
<1>1. at \in 1 .. len + 1 /\ \A i \in 1 .. len : i < at <=> array[i] < n
  <2>1. /\ Search(n) \in 0 .. len
        /\ \A i \in 1 .. len : i <= Search(n) <=> array[i] < n
    BY SearchFinds
  <2> QED
    BY <1>0, <2>1 DEF InsertPos
<1>2. len' = len + 1
  BY DEF InsertSorted
<1> HIDE DEF at
<1>3. ASSUME NEW size \in Nat, len + 1 <= size, cap <= size
      PROVE  LET b == moved(size)
             IN  /\ Holds(b, len + 1) /\ Len(b) = size
                 /\ Entries(b, len + 1) = Entries(array, len) \cup {n}
                 /\ Keeps(array, b)
  <2> DEFINE b == moved(size)
  <2>1. /\ b \in Seq(Cells) /\ Len(b) = size
        /\ \A i \in 1 .. size : b[i] = MovedCell(array, len, n, at, i)
    BY <1>1, MovedCells
  <2> HIDE DEF b
  <2> QED
    BY <1>1, <1>3, <2>1, MovedHolds
<1>4. CASE len < cap
  <2> DEFINE b == moved(cap)
  <2>1. heap' = [heap EXCEPT ![Len(heap)] = b]
    BY <1>4, Zenon DEF InsertSorted, MovedCell, at
  <2>2. len + 1 <= cap /\ cap <= cap
    BY <1>0, <1>4
  <2> HIDE DEF b
  <2>3. /\ Holds(b, len + 1) /\ Len(b) = cap
        /\ Entries(b, len + 1) = Entries(array, len) \cup {n}
        /\ Keeps(array, b)
    BY <1>0, <1>3, <2>2, Zenon DEF b
  <2>4. HeapType' /\ array' = b /\ HeapKeeps
    BY <2>1, <2>3, InPlace, Zenon DEF Holds
  <2> QED
    BY <1>2, <2>3, <2>4, Zenon
<1>5. CASE ~ (len < cap)
  <2> DEFINE size == IF cap = 0 THEN 1 ELSE 2 * cap
             b == moved(size)
  <2>1. heap' = Append(heap, b)
    BY <1>5, Zenon DEF InsertSorted, MovedCell, at
  <2>2. size \in Nat /\ len + 1 <= size /\ cap <= size
    BY <1>0, <1>5
  <2> HIDE DEF b
  <2>3. /\ Holds(b, len + 1)
        /\ Entries(b, len + 1) = Entries(array, len) \cup {n}
    BY <1>3, <2>2, Zenon DEF b
  <2>4. b \in Seq(Cells)
    BY <2>3 DEF Holds
  <2>5. HeapType' /\ array' = b
    BY <2>1, <2>4 DEF HeapType, array
  <2>6. HeapKeeps
    <3>1. \A h \in DOMAIN heap : h \in DOMAIN heap' /\ heap'[h] = heap[h]
      BY <2>1, <2>4 DEF HeapType
    <3> QED
      BY <3>1, KeepsSame, Zenon DEF HeapKeeps
  <2> QED
    BY <1>2, <2>3, <2>5, <2>6, Zenon
<1> QED
  BY <1>4, <1>5

-----------------------------------------------------------------------------
(* The invariant *)

Points == {"idle", "ask", "encode", "done", "stalled"}

ScopeInv ==
  /\ scope \in Clients \cup {"domain"} /\ nvls \subseteq Names
  /\ HeapType
  /\ Holds(array, len) /\ Entries(array, len) = nvls

\* A page lies in its array, and on names: also one that was cut out before the index
\* moved on.
InRange(p) ==
  /\ p \in [arr : Nat, lo : Nat \ {0}, hi : Nat]
  /\ p.arr \in DOMAIN heap
  /\ p.lo <= p.hi + 1 /\ p.hi <= Len(heap[p.arr])
  /\ \A i \in p.lo .. p.hi : heap[p.arr][i] \in Names

\* The lists of an association concern its own client only.
PagesInv ==
  /\ page = [c \in Clients |-> page[c]]
  /\ \A c \in Clients : InRange(page[c])
  /\ \A c \in Clients : scope \notin {"domain", c} => lp[c] = "idle" /\ page[c] = Slice(1, 1, 0)

CallsType ==
  /\ lp \in [Clients -> Points]
  /\ token \in [Clients -> Cells]
  /\ more \in [Clients -> BOOLEAN]
  /\ all \in [Clients -> Seq(Names)]

HistoryInv ==
  /\ stable \in [Clients -> SUBSET Names] /\ seen \in [Clients -> SUBSET Names]
  /\ torn \in [Clients -> BOOLEAN]
  /\ \A c \in Clients : /\ stable[c] \subseteq nvls /\ stable[c] \subseteq seen[c]
                        /\ lp[c] \in {"ask", "encode"} => nvls \subseteq seen[c]

\* The names up to the token have been collected; in the registry, only those.
Gathered(c) ==
  /\ \A x \in stable[c] : x <= token[c] => x \in Range(all[c])
  /\ scope = "domain" => /\ Ascending(all[c]) /\ Range(all[c]) \subseteq seen[c]
                         /\ \A x \in Range(all[c]) : x <= token[c]

\* The page is still the one that paginate would cut out.
Cut(c) ==
  LET start == StartAfter(token[c])
  IN  /\ page[c] = Slice(Len(heap), start + 1, IF len - start > PageSize THEN start + PageSize ELSE len)
      /\ more[c] = (len - start > PageSize)

Complete(c) ==
  /\ stable[c] \subseteq Range(all[c])
  /\ scope = "domain" => Ascending(all[c]) /\ Range(all[c]) \subseteq seen[c]

ListInv ==
  \A c \in Clients :
    /\ lp[c] = "idle" => token[c] = 0 /\ all[c] = <<>>
    /\ ~torn[c] => /\ lp[c] # "stalled"
                   /\ lp[c] \in {"ask", "encode"} => Gathered(c)
                   /\ lp[c] = "encode" => Cut(c)
                   /\ lp[c] = "done" => Complete(c)

Inv == ScopeInv /\ PagesInv /\ CallsType /\ HistoryInv /\ ListInv

\* The invariant holds at first.
LEMMA Initially ==
  ASSUME Constants, Init
  PROVE  Inv
<1>1. HeapType /\ array = <<>> /\ Len(heap) = 1
  BY DEF Init, HeapType, array
<1>2. Holds(array, len) /\ Entries(array, len) = {}
  BY <1>1 DEF Init, Holds, Entries, Sorted
<1>3. ScopeInv
  BY <1>1, <1>2, Zenon DEF Init, ScopeInv
<1>4. PagesInv
  <2>1. InRange(Slice(1, 1, 0))
    BY <1>1 DEF InRange, Slice, HeapType
  <2> QED
    BY <2>1, Zenon DEF Init, PagesInv
<1>5. CallsType /\ HistoryInv
  BY DEF Init, CallsType, HistoryInv, Points, Cells
<1>6. ListInv
  BY Zenon DEF Init, ListInv
<1> QED
  BY <1>3, <1>4, <1>5, <1>6 DEF Inv

\* What a change of the index does to the enumerations under way
LEMMA IndexMoves ==
  ASSUME Constants, Inv, ScopeInv', HeapKeeps, Observe, UNCHANGED <<scope, listVars>>
  PROVE  Inv'
<1>0. ScopeInv /\ PagesInv /\ CallsType /\ HistoryInv /\ ListInv
  BY DEF Inv
<1>1. scope' = scope /\ lp' = lp /\ token' = token /\ page' = page /\ more' = more /\ all' = all
  BY DEF listVars
<1>2. PagesInv'
  <2>1. ASSUME NEW c \in Clients PROVE InRange(page[c])'
    <3> DEFINE p == page[c]
    <3>1. p' = p /\ InRange(p)
      BY <1>0, <1>1 DEF PagesInv
    <3> HIDE DEF p
    <3>2. p.arr \in DOMAIN heap' /\ Len(heap'[p.arr]) = Len(heap[p.arr]) /\ Keeps(heap[p.arr], heap'[p.arr])
      BY <3>1, Zenon DEF InRange, HeapKeeps
    <3>3. \A i \in p.lo .. p.hi : i \in 1 .. Len(heap[p.arr])
      <4>1. heap[p.arr] \in Seq(Cells)
        BY <1>0, <3>1, Arrays, Zenon DEF ScopeInv, InRange
      <4> QED
        BY <3>1, <4>1 DEF InRange
    <3>4. \A i \in p.lo .. p.hi : heap'[p.arr][i] \in Names
      BY <3>1, <3>2, <3>3, Zenon DEF InRange, Keeps
    <3>5. InRange(p)'
      BY <3>1, <3>2, <3>4, Zenon DEF InRange
    <3> QED
      BY <3>5 DEF p
  <2> QED
    BY <1>0, <1>1, <2>1, Zenon DEF PagesInv
<1>3. CallsType'
  BY <1>0, <1>1, Zenon DEF CallsType
<1>4. HistoryInv'
  <2>1. nvls' \subseteq Names
    BY DEF ScopeInv
  <2>2. stable' \in [Clients -> SUBSET Names]
    BY <1>0, <2>1 DEF Observe, HistoryInv
  <2>3. seen' \in [Clients -> SUBSET Names]
    BY <1>0, <2>1 DEF Observe, HistoryInv
  <2>4. torn' \in [Clients -> BOOLEAN]
    BY <1>0, Zenon DEF Observe, HistoryInv
  <2>5. ASSUME NEW c \in Clients
        PROVE  /\ stable'[c] \subseteq nvls' /\ stable'[c] \subseteq seen'[c]
               /\ lp'[c] \in {"ask", "encode"} => nvls' \subseteq seen'[c]
    <3>1. stable'[c] = stable[c] \cap nvls'
      BY Zenon DEF Observe
    <3>2. seen'[c] = IF lp[c] \in {"ask", "encode"} THEN seen[c] \cup nvls' ELSE seen[c]
      BY Zenon DEF Observe
    <3>3. stable[c] \subseteq seen[c]
      BY <1>0, Zenon DEF HistoryInv
    <3> QED
      BY <1>1, <3>1, <3>2, <3>3, Zenon
  <2> QED
    BY <2>2, <2>3, <2>4, <2>5, Zenon DEF HistoryInv
<1>5. ListInv'
  <2> SUFFICES ASSUME NEW c \in Clients
               PROVE  /\ lp'[c] = "idle" => token'[c] = 0 /\ all'[c] = <<>>
                      /\ ~torn'[c] => /\ lp'[c] # "stalled"
                                      /\ lp'[c] \in {"ask", "encode"} => Gathered(c)'
                                      /\ lp'[c] = "encode" => Cut(c)'
                                      /\ lp'[c] = "done" => Complete(c)'
    BY Zenon DEF ListInv
  <2>1. lp[c] = "idle" => token[c] = 0 /\ all[c] = <<>>
    BY <1>0, Zenon DEF ListInv
  <2> SUFFICES ASSUME ~torn'[c]
               PROVE  /\ lp[c] # "stalled" /\ lp[c] # "encode"
                      /\ lp[c] = "ask" => Gathered(c)'
                      /\ lp[c] = "done" => Complete(c)'
    BY <1>1, <2>1, Zenon
  <2>2. ~torn[c] /\ lp[c] # "encode"
    BY Zenon DEF Observe
  <2>3. lp[c] # "stalled" /\ (lp[c] = "ask" => Gathered(c)) /\ (lp[c] = "done" => Complete(c))
    BY <1>0, <2>2, Zenon DEF ListInv
  <2>4. stable'[c] \subseteq stable[c] /\ seen[c] \subseteq seen'[c]
    BY Zenon DEF Observe
  <2>5. lp[c] = "ask" => Gathered(c)'
    BY <1>1, <2>3, <2>4, Zenon DEF Gathered
  <2>6. lp[c] = "done" => Complete(c)'
    BY <1>1, <2>3, <2>4, Zenon DEF Complete
  <2> QED
    BY <2>2, <2>3, <2>5, <2>6, Zenon
<1> QED
  BY <1>2, <1>3, <1>4, <1>5 DEF Inv

\* Registration and DefineNamedVariableList keep the invariant.
LEMMA DefineStep ==
  ASSUME Constants, Inv, NEW n \in Names, DefineNVL(n)
  PROVE  Inv'
<1>0. ScopeInv
  BY DEF Inv
<1>1. /\ n \notin Entries(array, len) /\ nvls' = nvls \cup {n} /\ InsertSorted(n) /\ Observe
      /\ UNCHANGED <<scope, listVars>>
  BY <1>0 DEF ScopeInv, DefineNVL
<1>2. /\ HeapType' /\ Holds(array', len')
      /\ Entries(array', len') = Entries(array, len) \cup {n}
      /\ HeapKeeps
  BY <1>0, <1>1, InsertHolds, Zenon DEF ScopeInv
<1>3. ScopeInv'
  <2>1. scope' = scope /\ nvls' \subseteq Names
    BY <1>0, <1>1, Zenon DEF ScopeInv
  <2> QED
    BY <1>0, <1>1, <1>2, <2>1, Zenon DEF ScopeInv, Holds, Sorted, Entries
<1> QED
  BY <1>1, <1>2, <1>3, IndexMoves, Zenon

\* So does a deletion in the array of the index:
LEMMA ShrinkStep ==
  ASSUME Constants, Inv, NEW o, Holds(o.array, o.len), Len(o.array) = Len(array), Keeps(array, o.array),
         nvls' = Entries(o.array, o.len), Shrink(o), Observe, UNCHANGED <<scope, listVars>>
  PROVE  Inv'
<1>0. ScopeInv
  BY DEF Inv
<1>1. HeapType' /\ array' = o.array /\ HeapKeeps
  <2>1. heap' = [heap EXCEPT ![Len(heap)] = o.array]
    BY DEF Shrink
  <2> QED
    BY <1>0, <2>1, InPlace, Zenon DEF Holds, ScopeInv
<1>2. len' = o.len /\ scope' = scope
  BY DEF Shrink
<1>3. ScopeInv'
  <2>1. Holds(array', len') /\ Entries(array', len') = nvls' /\ nvls' \subseteq Names
    BY <1>1, <1>2, Zenon DEF Holds
  <2> QED
    BY <1>0, <1>1, <1>2, <2>1, Zenon DEF ScopeInv
<1> QED
  BY <1>1, <1>3, IndexMoves, Zenon

\* of one list,
LEMMA DeleteStep ==
  ASSUME Constants, Inv, NEW c \in Clients, NEW n \in Names, HandleDeleteNVL(c, n)
  PROVE  Inv'
<1> DEFINE o == Removed(order, n)
<1>0. ScopeInv
  BY DEF Inv
<1>1. order.array = array /\ order.len = len
  BY DEF order
<1>2. /\ Holds(o.array, o.len) /\ Len(o.array) = Len(array)
      /\ Entries(o.array, o.len) = nvls \ {n} /\ Keeps(array, o.array)
  <2>1. Holds(order.array, order.len) /\ Entries(order.array, order.len) = nvls
    BY <1>0, <1>1, Zenon DEF ScopeInv
  <2> HIDE DEF o
  <2> QED
    BY <1>1, <2>1, RemovedHolds, Zenon DEF o
<1>3. nvls' = nvls \ {n} /\ Shrink(o) /\ Observe /\ UNCHANGED <<scope, listVars>>
  BY Zenon DEF HandleDeleteNVL
<1> HIDE DEF o
<1> QED
  BY <1>2, <1>3, ShrinkStep, Zenon

\* of all lists of a scope,
LEMMA DeleteAllStep ==
  ASSUME Constants, Inv, NEW c \in Clients, HandleDeleteAll(c)
  PROVE  Inv'
<1> DEFINE o == Left[len]
<1>0. ScopeInv
  BY DEF Inv
<1>1. /\ Holds(o.array, o.len) /\ Len(o.array) = Len(array)
      /\ Entries(o.array, o.len) = nvls \cap Static /\ Keeps(array, o.array)
  BY <1>0, LeftHolds, Zenon DEF ScopeInv
<1>2. nvls' = nvls \cap Static /\ Shrink(o) /\ Observe /\ UNCHANGED <<scope, listVars>>
  BY Zenon DEF HandleDeleteAll
<1> HIDE DEF o
<1> QED
  BY <1>1, <1>2, ShrinkStep, Zenon

\* and of the lists of an association, which gives up the index itself.
LEMMA DeleteOwnStep ==
  ASSUME Constants, Inv, NEW c \in Clients, HandleDeleteOwn(c)
  PROVE  Inv'
<1>0. ScopeInv /\ PagesInv /\ CallsType /\ HistoryInv /\ ListInv
  BY DEF Inv
<1>1. /\ scope = c /\ lp[c] # "encode" /\ nvls' = {} /\ heap' = << <<>> >> /\ len' = 0
      /\ page' = [page EXCEPT ![c] = Slice(1, 1, 0)] /\ Observe
      /\ scope' = scope /\ lp' = lp /\ token' = token /\ more' = more /\ all' = all
  BY Zenon DEF HandleDeleteOwn, Serving
<1>2. HeapType' /\ array' = <<>> /\ Len(heap') = 1 /\ DOMAIN heap' = {1} /\ heap'[1] = <<>>
  BY <1>1 DEF HeapType, array
<1>3. ScopeInv'
  <2>1. Holds(array', len') /\ Entries(array', len') = {}
    BY <1>1, <1>2 DEF Holds, Entries, Sorted
  <2> QED
    BY <1>0, <1>1, <1>2, <2>1, Zenon DEF ScopeInv
<1>4. PagesInv'
  <2>1. InRange(Slice(1, 1, 0))'
    BY <1>2 DEF InRange, Slice
  <2>2. ASSUME NEW d \in Clients PROVE page'[d] = Slice(1, 1, 0) /\ (d # c => lp[d] = "idle")
    <3>1. d # c => scope \notin {"domain", d}
      BY <1>1, Zenon DEF Constants
    <3> QED
      BY <1>0, <1>1, <3>1, Zenon DEF PagesInv
  <2>3. page' = [d \in Clients |-> page'[d]]
    BY <1>0, <1>1 DEF PagesInv
  <2>4. Slice(1, 1, 0)' = Slice(1, 1, 0)
    BY DEF Slice
  <2>5. \A d \in Clients : InRange(page[d])'
    BY <2>1, <2>2, <2>4, Zenon DEF InRange
  <2> QED
    BY <1>1, <2>2, <2>3, <2>4, <2>5, Zenon DEF PagesInv
<1>5. CallsType'
  BY <1>0, <1>1, Zenon DEF CallsType
<1>6. HistoryInv'
  <2>1. \A d \in Clients : stable'[d] = {}
    BY <1>1, Zenon DEF Observe
  <2>2. stable' \in [Clients -> SUBSET Names]
    BY <1>1 DEF Observe
  <2>3. seen' \in [Clients -> SUBSET Names]
    BY <1>0, <1>1 DEF Observe, HistoryInv
  <2>4. torn' \in [Clients -> BOOLEAN]
    BY <1>0, <1>1, Zenon DEF Observe, HistoryInv
  <2> QED
    BY <1>1, <2>1, <2>2, <2>3, <2>4, Zenon DEF HistoryInv
<1>7. ListInv'
  <2> SUFFICES ASSUME NEW d \in Clients
               PROVE  /\ lp'[d] = "idle" => token'[d] = 0 /\ all'[d] = <<>>
                      /\ ~torn'[d] => /\ lp'[d] # "stalled"
                                      /\ lp'[d] \in {"ask", "encode"} => Gathered(d)'
                                      /\ lp'[d] = "encode" => Cut(d)'
                                      /\ lp'[d] = "done" => Complete(d)'
    BY Zenon DEF ListInv
  <2>1. scope # "domain" /\ stable'[d] = {}
    BY <1>1, Zenon DEF Constants, Observe
  <2>2. ~torn'[d] => ~torn[d] /\ lp[d] # "encode"
    BY <1>1, Zenon DEF Observe
  <2>3. Gathered(d)' /\ Complete(d)'
    BY <1>1, <2>1, Zenon DEF Gathered, Complete
  <2> QED
    BY <1>0, <1>1, <2>2, <2>3, Zenon DEF ListInv
<1> QED
  BY <1>3, <1>4, <1>5, <1>6, <1>7 DEF Inv

\* A step of the enumeration of one client leaves the others' as they were.
LEMMA OthersList ==
  ASSUME Inv, NEW c \in Clients, NEW d \in Clients, d # c, UNCHANGED modelVars,
         lp'[d] = lp[d], token'[d] = token[d], page'[d] = page[d], more'[d] = more[d], all'[d] = all[d],
         stable'[d] = stable[d], seen'[d] = seen[d], torn'[d] = torn[d]
  PROVE  /\ lp'[d] = "idle" => token'[d] = 0 /\ all'[d] = <<>>
         /\ ~torn'[d] => /\ lp'[d] # "stalled"
                         /\ lp'[d] \in {"ask", "encode"} => Gathered(d)'
                         /\ lp'[d] = "encode" => Cut(d)'
                         /\ lp'[d] = "done" => Complete(d)'
<1>1. scope' = scope /\ nvls' = nvls /\ heap' = heap /\ len' = len
  BY DEF modelVars
<1>2. Gathered(d)' = Gathered(d)
  BY <1>1, Zenon DEF Gathered
<1>3. Complete(d)' = Complete(d)
  BY <1>1, Zenon DEF Complete
<1>4. StartAfter(token[d])' = StartAfter(token[d])
  BY <1>1, Zenon DEF StartAfter, NotFound, Search, index, array
<1>5. Cut(d)' = Cut(d)
  BY <1>1, <1>4, Zenon DEF Cut
<1> QED
  BY <1>2, <1>3, <1>5, Zenon DEF Inv, ListInv

\* The enumeration only reads the index.
LEMMA ScopeRests ==
  ASSUME ScopeInv, UNCHANGED modelVars
  PROVE  ScopeInv'
<1>1. scope' = scope /\ nvls' = nvls /\ heap' = heap /\ len' = len /\ array' = array
  BY DEF modelVars, array
<1> QED
  BY <1>1, Zenon DEF ScopeInv, HeapType

\* GetNameListAll starts with an empty token.
LEMMA CallStep ==
  ASSUME Constants, Inv, NEW c \in Clients, GetNameListAll(c)
  PROVE  Inv'
<1>0. ScopeInv /\ PagesInv /\ CallsType /\ HistoryInv /\ ListInv
  BY DEF Inv
<1>1. /\ lp[c] = "idle" /\ scope \in {"domain", c}
      /\ lp' = [lp EXCEPT ![c] = "ask"]
      /\ stable' = [stable EXCEPT ![c] = nvls] /\ seen' = [seen EXCEPT ![c] = nvls]
      /\ UNCHANGED modelVars
      /\ token' = token /\ page' = page /\ more' = more /\ all' = all /\ torn' = torn
  BY Zenon DEF GetNameListAll, Serving
<1>2. scope' = scope /\ nvls' = nvls /\ heap' = heap /\ len' = len
  BY <1>1 DEF modelVars
<1>3. /\ lp'[c] = "ask" /\ stable'[c] = nvls /\ seen'[c] = nvls
      /\ \A d \in Clients : d # c => lp'[d] = lp[d] /\ stable'[d] = stable[d] /\ seen'[d] = seen[d]
  BY <1>0, <1>1 DEF CallsType, HistoryInv
<1>4. ScopeInv'
  BY <1>0, <1>1, ScopeRests
<1>5. PagesInv'
  <2>1. \A d \in Clients : InRange(page[d])'
    BY <1>0, <1>1, <1>2, Zenon DEF PagesInv, InRange
  <2>2. \A d \in Clients : scope \notin {"domain", d} => d # c
    BY <1>1, Zenon
  <2> QED
    BY <1>0, <1>1, <1>2, <1>3, <2>1, <2>2, Zenon DEF PagesInv
<1>6. CallsType'
  BY <1>0, <1>1 DEF CallsType, Points
<1>7. HistoryInv'
  <2>1. stable' \in [Clients -> SUBSET Names] /\ seen' \in [Clients -> SUBSET Names]
    BY <1>0, <1>1 DEF ScopeInv, HistoryInv
  <2> QED
    BY <1>0, <1>1, <1>2, <1>3, <2>1, Zenon DEF HistoryInv
<1>8. ListInv'
  <2>1. token[c] = 0 /\ all[c] = <<>>
    BY <1>0, <1>1, Zenon DEF ListInv
  <2>2. Gathered(c)'
    <3>1. \A x \in nvls : ~ (x <= 0)
      BY <1>0 DEF ScopeInv, Constants
    <3>2. Ascending(<<>>) /\ Range(<<>>) = {}
      BY DEF Ascending, Range
    <3> QED
      BY <1>1, <1>2, <1>3, <2>1, <3>1, <3>2, Zenon DEF Gathered
  <2>3. lp'[c] # "idle" /\ lp'[c] # "stalled" /\ lp'[c] # "encode" /\ lp'[c] # "done"
    BY <1>3
  <2> QED
    BY <1>1, <1>3, <2>2, <2>3, OthersList, Zenon DEF ListInv
<1> QED
  BY <1>4, <1>5, <1>6, <1>7, <1>8 DEF Inv

\* Where paginate starts: what comes before is not after the token, what follows is not the
\* token, and in the registry it is after it.
LEMMA StartIs ==
  ASSUME Constants, ScopeInv, NEW t \in Cells
  PROVE  LET s == StartAfter(t)
         IN  /\ s \in 0 .. len
             /\ \A i \in 1 .. s : array[i] <= t
             /\ \A i \in s + 1 .. len : array[i] # t /\ (scope = "domain" => t < array[i])
<1> DEFINE s == StartAfter(t)
<1>0. /\ len \in 0 .. Len(array) /\ Len(array) \in Nat /\ array \in Seq(Cells)
      /\ \A i \in 1 .. len : array[i] \in Names
      /\ Names \subseteq Nat \ {0}
  <2>1. array \in Seq(Cells) /\ len \in 0 .. Len(array) /\ Len(array) \in Nat
    BY DEF ScopeInv, Holds
  <2>2. \A i \in 1 .. len : array[i] \in Names
    BY Zenon DEF ScopeInv, Holds, Entries
  <2> QED
    BY <2>1, <2>2, Zenon DEF Constants
<1>1. CASE t = 0
  <2>1. s = 0
    BY <1>1 DEF StartAfter
  <2>2. \A n \in Names : n # 0 /\ 0 < n
    BY <1>0
  <2>3. \A i \in 1 .. len : array[i] # t /\ t < array[i]
    BY <1>0, <1>1, <2>2, Zenon
  <2>4. 0 \in 0 .. len /\ 1 .. 0 = {} /\ 0 + 1 = 1
    BY <1>0
  <2> HIDE DEF s
  <2> QED
    BY <2>1, <2>3, <2>4, Zenon DEF s
<1>2. CASE t # 0
  <2>0. t \in Names /\ t \in Nat
    BY <1>0, <1>2 DEF Cells
  <2>1. Search(t) \in 0 .. len /\ \A i \in 1 .. len : i <= Search(t) <=> array[i] < t
    BY <2>0, SearchFinds DEF ScopeInv
  <2>2. Range(index) = Entries(array, len)
    <3>1. Len(index) = len /\ DOMAIN index = 1 .. len /\ \A i \in 1 .. len : index[i] = array[i]
      BY <1>0 DEF index
    <3> QED
      BY <3>1, Zenon DEF Range, Entries
  <2> HIDE DEF s
  <2>3. CASE t \in Range(index)
    <3>1. s = Search(t) + 1
      BY <1>2, <2>3 DEF StartAfter, s
    <3>2. PICK k \in 1 .. len : array[k] = t
      BY <2>2, <2>3, Zenon DEF Entries
    <3>3. \A i, j \in 1 .. len : i < j => array[i] < array[j]
      BY DEF ScopeInv, Holds, Sorted
    <3>4. \A i \in 1 .. len : array[i] < t <=> i < k
      <4> SUFFICES ASSUME NEW i \in 1 .. len PROVE array[i] < t <=> i < k
        OBVIOUS
      <4>1. array[i] \in Nat /\ (i < k => array[i] < array[k]) /\ (k < i => array[k] < array[i])
        BY <1>0, <3>3, Zenon
      <4> QED
        BY <1>0, <2>0, <3>2, <4>1
    <3>5. Search(t) = k - 1
      <4>1. ~ (k <= Search(t))
        BY <2>0, <2>1, <3>2
      <4>2. k - 1 \in 1 .. len => k - 1 <= Search(t)
        BY <1>0, <2>1, <3>2, <3>4
      <4> QED
        BY <1>0, <2>1, <3>2, <4>1, <4>2
    <3>6. s = k
      BY <3>1, <3>2, <3>5
    <3>7. \A i \in 1 .. len : array[i] \in Nat /\ (i < k => array[i] < t) /\ (k < i => t < array[i])
      BY <1>0, <3>2, <3>3, Zenon
    <3> QED
      BY <1>0, <2>0, <3>2, <3>6, <3>7 DEF s
  <2>4. CASE t \notin Range(index)
    <3>1. s = IF scope = "domain" THEN Search(t) ELSE 0
      BY <1>2, <2>4 DEF StartAfter, NotFound, s
    <3>2. \A i \in 1 .. len : array[i] # t /\ array[i] \in Nat
      BY <1>0, <2>2, <2>4, Zenon DEF Entries
    <3> QED
      BY <1>0, <2>0, <2>1, <3>1, <3>2 DEF s
  <2> QED
    BY <2>3, <2>4 DEF s
<1> QED
  BY <1>1, <1>2

\* paginate cuts out a page of names.
LEMMA PageStep ==
  ASSUME Constants, Inv, NEW c \in Clients, Paginate(c)
  PROVE  Inv'
<1> DEFINE start == StartAfter(token[c])
           p == Slice(Len(heap), start + 1, IF len - start > PageSize THEN start + PageSize ELSE len)
<1>0. ScopeInv /\ PagesInv /\ CallsType /\ HistoryInv /\ ListInv
  BY DEF Inv
<1>1. /\ lp[c] = "ask"
      /\ more' = [more EXCEPT ![c] = len - start > PageSize]
      /\ page' = [page EXCEPT ![c] = p]
      /\ lp' = [lp EXCEPT ![c] = "encode"]
      /\ UNCHANGED modelVars
      /\ token' = token /\ all' = all /\ stable' = stable /\ seen' = seen /\ torn' = torn
  BY DEF Paginate, histVars
<1>2. scope' = scope /\ nvls' = nvls /\ heap' = heap /\ len' = len
  BY <1>1 DEF modelVars
<1>3. start \in 0 .. len
  BY <1>0, StartIs, Zenon DEF CallsType
<1>4. InRange(p)
  <2>1. /\ Len(heap) \in Nat /\ Len(heap) \in DOMAIN heap /\ array = heap[Len(heap)]
        /\ len \in 0 .. Len(array) /\ Len(array) \in Nat
    BY <1>0, Arrays DEF ScopeInv, Holds
  <2>2. \A i \in 1 .. len : array[i] \in Names
    BY <1>0, Zenon DEF ScopeInv, Holds, Entries
  <2> HIDE DEF start
  <2>3. /\ p.arr = Len(heap) /\ p.lo = start + 1
        /\ p.hi \in Nat /\ start <= p.hi /\ p.hi <= len
        /\ p \in [arr : Nat, lo : Nat \ {0}, hi : Nat]
    BY <1>3, <2>1 DEF Slice, Constants
  <2>4. p.lo .. p.hi \subseteq 1 .. len
    BY <1>3, <2>1, <2>3
  <2> HIDE DEF p
  <2>5. p.lo <= p.hi + 1 /\ p.hi <= Len(heap[p.arr])
    BY <1>3, <2>1, <2>3
  <2> QED
    BY <2>1, <2>2, <2>3, <2>4, <2>5, Zenon DEF InRange
<1> HIDE DEF start, p
<1>5. /\ lp'[c] = "encode" /\ page'[c] = p /\ more'[c] = (len - start > PageSize)
      /\ \A d \in Clients : d # c => lp'[d] = lp[d] /\ page'[d] = page[d] /\ more'[d] = more[d]
  BY <1>0, <1>1, Zenon DEF CallsType, PagesInv
<1>6. ScopeInv'
  BY <1>0, <1>1, ScopeRests
<1>7. PagesInv'
  <2>1. page' = [d \in Clients |-> page'[d]]
    BY <1>0, <1>1 DEF PagesInv
  <2>2. \A d \in Clients : InRange(page'[d])
    BY <1>0, <1>4, <1>5, Zenon DEF PagesInv
  <2>3. \A d \in Clients : InRange(page[d])'
    BY <1>2, <2>2, Zenon DEF InRange
  <2>4. \A d \in Clients : scope \notin {"domain", d} => d # c
    BY <1>0, <1>1, Zenon DEF PagesInv
  <2> QED
    BY <1>0, <1>2, <1>5, <2>1, <2>3, <2>4, Zenon DEF PagesInv
<1>8. CallsType'
  <2>1. (len - start > PageSize) \in BOOLEAN
    OBVIOUS
  <2> QED
    BY <1>0, <1>1, <2>1 DEF CallsType, Points
<1>9. HistoryInv'
  BY <1>0, <1>1, <1>2, <1>5, Zenon DEF HistoryInv
<1>10. ListInv'
  <2>1. ~torn[c] => Gathered(c)'
    BY <1>0, <1>1, <1>2, Zenon DEF ListInv, Gathered
  <2>2. Cut(c)'
    <3>1. StartAfter(token[c])' = start
      BY <1>1, <1>2, Zenon DEF StartAfter, NotFound, Search, index, array, start
    <3> QED
      BY <1>2, <1>5, <3>1, Zenon DEF Cut, p
  <2>3. lp'[c] # "idle" /\ lp'[c] # "stalled" /\ lp'[c] # "done"
    BY <1>5
  <2> QED
    BY <1>1, <1>5, <2>1, <2>2, <2>3, OthersList, Zenon DEF ListInv
<1> QED
  BY <1>6, <1>7, <1>8, <1>9, <1>10 DEF Inv

\* What is in a page of a sorted index.
LEMMA PageNames ==
  ASSUME NEW a, a \in Seq(Cells), NEW k \in 0 .. Len(a), Sorted(a, k), Entries(a, k) \subseteq Names,
         NEW lo \in Nat \ {0}, NEW hi \in Nat, lo <= hi + 1, hi <= k
  PROVE  LET names == SubSeq(a, lo, hi)
         IN  /\ Ascending(names)
             /\ Range(names) = {a[i] : i \in lo .. hi}
             /\ lo <= hi => names # <<>> /\ names[Len(names)] = a[hi]
<1> DEFINE names == SubSeq(a, lo, hi)
<1>0. Len(a) \in Nat /\ k \in Nat
  OBVIOUS
<1>1. /\ Len(names) = hi - lo + 1 /\ DOMAIN names = 1 .. hi - lo + 1
      /\ \A i \in 1 .. hi - lo + 1 : names[i] = a[lo + i - 1]
  BY <1>0
<1> HIDE DEF names
<1>2. Ascending(names)
  <2> SUFFICES ASSUME NEW i \in 1 .. hi - lo + 1, NEW j \in 1 .. hi - lo + 1, i < j PROVE names[i] < names[j]
    BY <1>1, Zenon DEF Ascending
  <2>1. lo + i - 1 \in 1 .. k /\ lo + j - 1 \in 1 .. k /\ lo + i - 1 < lo + j - 1
    BY <1>0
  <2>2. a[lo + i - 1] < a[lo + j - 1]
    BY <2>1, Zenon DEF Sorted
  <2> QED
    BY <1>1, <2>2, Zenon
<1>3. Range(names) = {a[i] : i \in lo .. hi}
  <2>1. ASSUME NEW i \in lo .. hi PROVE a[i] \in Range(names)
    <3>1. i - lo + 1 \in 1 .. hi - lo + 1 /\ lo + (i - lo + 1) - 1 = i
      OBVIOUS
    <3>2. names[i - lo + 1] = a[i]
      BY <1>1, <3>1
    <3> QED
      BY <1>1, <3>1, <3>2, Zenon DEF Range
  <2>2. ASSUME NEW j \in 1 .. hi - lo + 1 PROVE names[j] \in {a[i] : i \in lo .. hi}
    <3>1. lo + j - 1 \in lo .. hi
      OBVIOUS
    <3> QED
      BY <1>1, <3>1, Zenon
  <2> QED
    BY <1>1, <2>1, <2>2, Zenon DEF Range
<1>4. ASSUME lo <= hi PROVE names # <<>> /\ names[Len(names)] = a[hi]
  <2>1. hi - lo + 1 \in 1 .. hi - lo + 1 /\ lo + (hi - lo + 1) - 1 = hi /\ hi - lo + 1 # 0
    BY <1>4
  <2>2. names[Len(names)] = a[hi]
    BY <1>1, <2>1
  <2>3. names # <<>>
    BY <1>1, <2>1
  <2> QED
    BY <2>2, <2>3
<1> QED
  BY <1>2, <1>3, <1>4, Zenon DEF names

\* What is in the names collected after one more page.
LEMMA Joined ==
  ASSUME Names \subseteq Nat, NEW s \in Seq(Names), NEW t \in Seq(Names)
  PROVE  /\ Range(s \o t) = Range(s) \cup Range(t)
         /\ Ascending(s) /\ Ascending(t) /\ (\A x \in Range(s), y \in Range(t) : x < y) => Ascending(s \o t)
<1>0. /\ Len(s) \in Nat /\ Len(t) \in Nat /\ DOMAIN s = 1 .. Len(s) /\ DOMAIN t = 1 .. Len(t)
      /\ DOMAIN (s \o t) = 1 .. Len(s) + Len(t)
  OBVIOUS
<1>1. \A i \in 1 .. Len(s) + Len(t) : (s \o t)[i] = IF i <= Len(s) THEN s[i] ELSE t[i - Len(s)]
  OBVIOUS
<1> DEFINE u == s \o t
<1>2. DOMAIN u = 1 .. Len(s) + Len(t)
      /\ \A i \in 1 .. Len(s) + Len(t) : u[i] = IF i <= Len(s) THEN s[i] ELSE t[i - Len(s)]
  BY <1>0, <1>1
<1> HIDE DEF u
<1>3. Range(u) = Range(s) \cup Range(t)
  <2>1. ASSUME NEW i \in DOMAIN s PROVE s[i] \in Range(u)
    <3>1. i \in DOMAIN u /\ u[i] = s[i]
      BY <1>0, <1>2
    <3> QED
      BY <3>1, Zenon DEF Range
  <2>2. ASSUME NEW i \in DOMAIN t PROVE t[i] \in Range(u)
    <3>1. Len(s) + i \in DOMAIN u /\ u[Len(s) + i] = t[i]
      BY <1>0, <1>2
    <3> QED
      BY <3>1, Zenon DEF Range
  <2>3. ASSUME NEW i \in DOMAIN u PROVE u[i] \in Range(s) \cup Range(t)
    <3>1. i <= Len(s) => i \in DOMAIN s /\ u[i] = s[i]
      BY <1>0, <1>2
    <3>2. ~ (i <= Len(s)) => i - Len(s) \in DOMAIN t /\ u[i] = t[i - Len(s)]
      BY <1>0, <1>2
    <3> QED
      BY <3>1, <3>2, Zenon DEF Range
  <2> QED
    BY <2>1, <2>2, <2>3, Zenon DEF Range
<1>4. ASSUME Ascending(s), Ascending(t), \A x \in Range(s), y \in Range(t) : x < y PROVE Ascending(u)
  <2> SUFFICES ASSUME NEW i \in DOMAIN u, NEW j \in DOMAIN u, i < j PROVE u[i] < u[j]
    BY Zenon DEF Ascending
  <2>1. CASE j <= Len(s)
    <3>1. i \in DOMAIN s /\ j \in DOMAIN s /\ u[i] = s[i] /\ u[j] = s[j]
      BY <1>0, <1>2, <2>1
    <3> QED
      BY <1>4, <3>1, Zenon DEF Ascending
  <2>2. CASE i <= Len(s) /\ ~ (j <= Len(s))
    <3>1. i \in DOMAIN s /\ j - Len(s) \in DOMAIN t /\ u[i] = s[i] /\ u[j] = t[j - Len(s)]
      BY <1>0, <1>2, <2>2
    <3>2. s[i] \in Range(s) /\ t[j - Len(s)] \in Range(t)
      BY <3>1, Zenon DEF Range
    <3> QED
      BY <1>4, <3>1, <3>2, Zenon
  <2>3. CASE ~ (i <= Len(s))
    <3>1. /\ i - Len(s) \in DOMAIN t /\ j - Len(s) \in DOMAIN t /\ i - Len(s) < j - Len(s)
          /\ u[i] = t[i - Len(s)] /\ u[j] = t[j - Len(s)]
      BY <1>0, <1>2, <2>3
    <3> QED
      BY <1>4, <3>1, Zenon DEF Ascending
  <2> QED
    BY <2>1, <2>2, <2>3
<1> QED
  BY <1>3, <1>4, Zenon DEF u

\* What a page that was not torn adds to what was collected before
LEMMA PageAdds ==
  ASSUME Constants, Inv, NEW c \in Clients, lp[c] = "encode", ~torn[c]
  PROVE  LET names == SubSeq(heap[page[c].arr], page[c].lo, page[c].hi)
             hi == page[c].hi
         IN  /\ \A x \in stable[c] : x \in Range(all[c] \o names) \/ (more[c] /\ \E i \in hi + 1 .. len : x = array[i])
             /\ more[c] => /\ names # <<>> /\ hi \in 1 .. len
                           /\ names[Len(names)] = array[hi] /\ array[hi] # token[c]
             /\ scope = "domain" =>
                  /\ Ascending(all[c] \o names) /\ Range(all[c] \o names) \subseteq seen[c]
                  /\ more[c] => \A x \in Range(all[c] \o names) : x <= array[hi]
<1> DEFINE names == SubSeq(heap[page[c].arr], page[c].lo, page[c].hi)
           hi == page[c].hi
           start == StartAfter(token[c])
           t == token[c]
<1>0. ScopeInv /\ PagesInv /\ CallsType /\ HistoryInv /\ Gathered(c) /\ Cut(c)
  BY Zenon DEF Inv, ListInv
<1>1. /\ len \in 0 .. Len(array) /\ Len(array) \in Nat /\ array \in Seq(Cells)
      /\ Names \subseteq Nat \ {0} /\ array = heap[Len(heap)]
      /\ PageSize \in Nat \ {0}
  BY <1>0, Arrays DEF ScopeInv, Holds, Constants
<1>2. nvls = Entries(array, len) /\ Sorted(array, len) /\ Entries(array, len) \subseteq Names
      /\ nvls \subseteq seen[c] /\ stable[c] \subseteq nvls
  BY <1>0, Zenon DEF ScopeInv, Holds, HistoryInv
<1>3. \A i \in 1 .. len : array[i] \in nvls /\ array[i] \in Nat
  BY <1>1, <1>2, Zenon DEF Entries
<1>4. t \in Cells /\ all[c] \in Seq(Names) /\ t \in Nat
  <2>1. t \in Cells /\ all[c] \in Seq(Names)
    BY <1>0, Zenon DEF CallsType
  <2> HIDE DEF t
  <2> QED
    BY <1>1, <2>1 DEF Cells
<1>5. /\ start \in 0 .. len
      /\ \A i \in 1 .. start : array[i] <= t
      /\ \A i \in start + 1 .. len : array[i] # t /\ (scope = "domain" => t < array[i])
  BY <1>0, <1>4, StartIs, Zenon
<1> HIDE DEF start
<1>6. /\ page[c].arr = Len(heap) /\ page[c].lo = start + 1
      /\ hi = IF len - start > PageSize THEN start + PageSize ELSE len
      /\ more[c] = (len - start > PageSize)
  BY <1>0 DEF Cut, Slice, start
<1>7. /\ hi \in Nat /\ start <= hi /\ hi <= len
      /\ ~more[c] => hi = len
      /\ more[c] => hi \in start + 1 .. len
  <2> HIDE DEF hi
  <2>1. ASSUME len - start > PageSize, hi = start + PageSize
        PROVE  hi \in Nat /\ start <= hi /\ hi <= len /\ hi \in start + 1 .. len
    BY <1>1, <1>5, <2>1
  <2>2. len \in Nat /\ start <= len /\ len <= len
    BY <1>1, <1>5
  <2> QED
    BY <1>6, <2>1, <2>2, Zenon
<1>8. names = SubSeq(array, start + 1, hi)
  BY <1>1, <1>6
<1> HIDE DEF names, hi, t
<1>9. /\ Ascending(names)
      /\ Range(names) = {array[i] : i \in start + 1 .. hi}
      /\ start + 1 <= hi => names # <<>> /\ names[Len(names)] = array[hi]
  <2>1. start + 1 \in Nat \ {0} /\ start + 1 <= hi + 1
    BY <1>1, <1>5, <1>7
  <2>2. LET b == SubSeq(array, start + 1, hi)
        IN  /\ Ascending(b)
            /\ Range(b) = {array[i] : i \in start + 1 .. hi}
            /\ start + 1 <= hi => b # <<>> /\ b[Len(b)] = array[hi]
    <3>1. /\ array \in Seq(Cells) /\ len \in 0 .. Len(array) /\ Sorted(array, len)
          /\ Entries(array, len) \subseteq Names /\ hi \in Nat /\ hi <= len
      BY <1>1, <1>2, <1>7, Zenon
    <3> QED
      BY <2>1, <3>1, PageNames, Zenon
  <2> QED
    BY <1>8, <2>2, Zenon
<1>10. names \in Seq(Names)
  <2>1. \A i \in start + 1 .. hi : array[i] \in Names
    BY <1>1, <1>2, <1>3, <1>5, <1>7
  <2> QED
    BY <1>1, <1>5, <1>7, <1>8, <2>1
<1>11. Range(all[c] \o names) = Range(all[c]) \cup Range(names)
  BY <1>1, <1>4, <1>10, Joined
<1>12. ASSUME NEW x \in stable[c]
       PROVE  x \in Range(all[c] \o names) \/ (more[c] /\ \E i \in hi + 1 .. len : x = array[i])
  <2>1. PICK i \in 1 .. len : x = array[i]
    BY <1>2, Zenon DEF Entries
  <2>2. CASE i \in 1 .. start
    <3>1. x <= t
      BY <1>5, <2>1, <2>2, Zenon
    <3> QED
      BY <1>0, <1>11, <3>1, Zenon DEF Gathered, t
  <2>3. CASE i \in start + 1 .. hi
    BY <1>9, <1>11, <2>1, <2>3, Zenon
  <2>4. CASE i \in hi + 1 .. len
    <3>1. more[c]
      BY <1>1, <1>7, <2>4
    <3> QED
      BY <2>1, <2>4, <3>1, Zenon
  <2>5. i \in 1 .. start \/ i \in start + 1 .. hi \/ i \in hi + 1 .. len
    BY <1>1, <1>5, <1>7
  <2> QED
    BY <2>2, <2>3, <2>4, <2>5
<1>13. ASSUME more[c]
       PROVE  names # <<>> /\ hi \in 1 .. len /\ names[Len(names)] = array[hi] /\ array[hi] # t
  <2>1. hi \in start + 1 .. len /\ start + 1 <= hi /\ hi \in 1 .. len
    BY <1>1, <1>5, <1>7, <1>13
  <2> QED
    BY <1>5, <1>9, <2>1, Zenon
<1>14. ASSUME scope = "domain"
       PROVE  /\ Ascending(all[c] \o names) /\ Range(all[c] \o names) \subseteq seen[c]
              /\ more[c] => \A x \in Range(all[c] \o names) : x <= array[hi]
  <2>1. \A i \in start + 1 .. hi : i \in 1 .. len /\ i \in start + 1 .. len
    BY <1>1, <1>5, <1>7
  <2>2. Ascending(all[c]) /\ Range(all[c]) \subseteq seen[c] /\ \A x \in Range(all[c]) : x <= t
    BY <1>0, <1>14, Zenon DEF Gathered, t
  <2>3. \A y \in Range(names) : y \in nvls /\ y \in Nat /\ t < y
    BY <1>3, <1>5, <1>9, <1>14, <2>1, Zenon
  <2>4. \A x \in Range(all[c]) : x \in Nat
    <3>1. \A i \in DOMAIN all[c] : all[c][i] \in Names
      BY <1>4
    <3> QED
      BY <1>1, <3>1, Zenon DEF Range
  <2>5. \A x \in Range(all[c]), y \in Range(names) : x < y
    BY <1>4, <2>2, <2>3, <2>4
  <2>6. Ascending(all[c] \o names)
    BY <1>1, <1>4, <1>9, <1>10, <2>2, <2>5, Joined
  <2>7. Range(all[c] \o names) \subseteq seen[c]
    BY <1>2, <1>11, <2>2, <2>3, Zenon
  <2>8. ASSUME more[c], NEW x \in Range(all[c] \o names) PROVE x <= array[hi]
    <3>1. hi \in start + 1 .. hi /\ hi \in 1 .. len
      BY <1>1, <1>5, <1>7, <2>8
    <3>2. array[hi] \in Range(names) /\ array[hi] \in Nat
      BY <1>3, <1>9, <3>1, Zenon
    <3>3. CASE x \in Range(all[c])
      <4>1. x < array[hi] /\ x \in Nat
        BY <2>4, <2>5, <3>2, <3>3, Zenon
      <4> QED
        BY <3>2, <4>1
    <3>4. CASE x \in Range(names)
      <4>1. PICK i \in start + 1 .. hi : x = array[i]
        BY <1>9, <3>4, Zenon
      <4>2. i \in 1 .. len /\ (i = hi \/ i < hi)
        BY <1>1, <1>5, <1>7, <4>1
      <4>3. x = array[hi] \/ x < array[hi]
        BY <1>2, <3>1, <4>1, <4>2, Zenon DEF Sorted
      <4> QED
        BY <1>3, <3>2, <4>1, <4>2, <4>3
    <3> QED
      BY <1>11, <3>3, <3>4, Zenon
  <2> QED
    BY <2>6, <2>7, <2>8, Zenon
<1> QED
  BY <1>12, <1>13, <1>14, Zenon DEF names, hi, t

\* Taking a page keeps the invariant: the enumeration ends, or goes on after its last name.
LEMMA EncodeStep ==
  ASSUME Constants, Inv, NEW c \in Clients, Encode(c)
  PROVE  Inv'
<1> DEFINE names == SubSeq(heap[page[c].arr], page[c].lo, page[c].hi)
           hi == page[c].hi
<1>0. ScopeInv /\ PagesInv /\ CallsType /\ HistoryInv /\ ListInv
  BY DEF Inv
<1>1. /\ lp[c] = "encode"
      /\ all' = [all EXCEPT ![c] = all[c] \o names]
      /\ \/ /\ ~more[c] \/ names = <<>>
            /\ lp' = [lp EXCEPT ![c] = "done"]
            /\ token' = token
         \/ /\ more[c] /\ names # <<>>
            /\ lp' = [lp EXCEPT ![c] = IF names[Len(names)] = token[c] THEN "stalled" ELSE "ask"]
            /\ token' = [token EXCEPT ![c] = names[Len(names)]]
      /\ UNCHANGED modelVars
      /\ page' = page /\ more' = more /\ stable' = stable /\ seen' = seen /\ torn' = torn
  BY Zenon DEF Encode, histVars
<1> HIDE DEF names
<1>2. scope' = scope /\ nvls' = nvls /\ heap' = heap /\ len' = len
  BY <1>1 DEF modelVars
<1>3. names \in Seq(Names)
  <2> DEFINE p == page[c]
             a == heap[p.arr]
  <2>1. InRange(p)
    BY <1>0, Zenon DEF PagesInv
  <2>2. a \in Seq(Cells)
    BY <1>0, <2>1, Arrays, Zenon DEF ScopeInv, InRange
  <2>3. /\ p.lo \in Nat \ {0} /\ p.hi \in Nat /\ p.lo <= p.hi + 1 /\ p.hi <= Len(a)
        /\ \A i \in p.lo .. p.hi : a[i] \in Names
    BY <2>1 DEF InRange
  <2> HIDE DEF p, a
  <2>4. SubSeq(a, p.lo, p.hi) \in Seq(Names)
    BY <2>2, <2>3
  <2> QED
    BY <2>4 DEF p, a, names
<1>4. \A d \in Clients : d # c => lp'[d] = lp[d] /\ token'[d] = token[d] /\ all'[d] = all[d]
  BY <1>0, <1>1, Zenon DEF CallsType
<1>5. ScopeInv'
  BY <1>0, <1>1, ScopeRests
<1>6. PagesInv'
  <2>1. \A d \in Clients : InRange(page[d])'
    BY <1>0, <1>1, <1>2, Zenon DEF PagesInv, InRange
  <2>2. \A d \in Clients : scope \notin {"domain", d} => d # c
    BY <1>0, <1>1, Zenon DEF PagesInv
  <2> QED
    BY <1>0, <1>1, <1>2, <1>4, <2>1, <2>2, Zenon DEF PagesInv
<1>7. names # <<>> => names[Len(names)] \in Names
  BY <1>3
<1>8. /\ all'[c] = all[c] \o names
      /\ \/ (~more[c] \/ names = <<>>) /\ lp'[c] = "done" /\ token'[c] = token[c]
         \/ /\ more[c] /\ names # <<>> /\ token'[c] = names[Len(names)]
            /\ lp'[c] = IF names[Len(names)] = token[c] THEN "stalled" ELSE "ask"
  BY <1>0, <1>1, Zenon DEF CallsType
<1>9. CallsType'
  <2>1. all' \in [Clients -> Seq(Names)]
    <3>1. all[c] \o names \in Seq(Names)
      BY <1>0, <1>3 DEF CallsType
    <3> QED
      BY <1>0, <1>1, <3>1 DEF CallsType
  <2>2. lp' \in [Clients -> Points]
    BY <1>0, <1>1, Zenon DEF CallsType, Points
  <2>3. token' \in [Clients -> Cells]
    BY <1>0, <1>1, <1>7, Zenon DEF CallsType, Cells
  <2> QED
    BY <1>0, <1>1, <2>1, <2>2, <2>3 DEF CallsType
<1>10. HistoryInv'
  BY <1>0, <1>1, <1>2, <1>4, <1>8, Zenon DEF HistoryInv
<1>11. ASSUME ~torn[c]
       PROVE  /\ lp'[c] = "ask" => Gathered(c)'
              /\ lp'[c] = "done" => Complete(c)'
              /\ lp'[c] # "stalled"
  <2>1. /\ \A x \in stable[c] : x \in Range(all'[c]) \/ (more[c] /\ \E i \in hi + 1 .. len : x = array[i])
        /\ more[c] => /\ names # <<>> /\ hi \in 1 .. len
                      /\ names[Len(names)] = array[hi] /\ array[hi] # token[c]
        /\ scope = "domain" =>
             /\ Ascending(all'[c]) /\ Range(all'[c]) \subseteq seen[c]
             /\ more[c] => \A x \in Range(all'[c]) : x <= array[hi]
    BY <1>1, <1>8, <1>11, PageAdds, Zenon DEF names
  <2> HIDE DEF hi
  <2>2. CASE ~more[c]
    <3>1. lp'[c] = "done" /\ Complete(c)'
      BY <1>1, <1>2, <1>8, <2>1, <2>2, Zenon DEF Complete
    <3> QED
      BY <3>1
  <2>3. CASE more[c]
    <3>1. lp'[c] = "ask" /\ token'[c] = array[hi]
      BY <1>8, <2>1, <2>3, Zenon
    <3>2. ASSUME NEW x \in stable[c], x <= array[hi] PROVE x \in Range(all'[c])
      <4> SUFFICES ASSUME NEW i \in hi + 1 .. len, x = array[i] PROVE FALSE
        BY <2>1, <3>2, Zenon
      <4>1. hi \in 1 .. len /\ len \in Nat
        BY <1>0, <2>1, <2>3 DEF ScopeInv, Holds
      <4>2. i \in 1 .. len /\ hi < i
        BY <4>1
      <4>3. array[hi] < array[i]
        BY <1>0, <4>1, <4>2, Zenon DEF ScopeInv, Holds, Sorted
      <4>4. array[hi] \in Nat /\ array[i] \in Nat
        <5>1. array[hi] \in Names /\ array[i] \in Names
          BY <1>0, <4>1, <4>2, Zenon DEF ScopeInv, Holds, Entries
        <5> QED
          BY <5>1, Zenon DEF Constants
      <4> QED
        BY <3>2, <4>3, <4>4
    <3>3. Gathered(c)'
      BY <1>1, <1>2, <2>1, <2>3, <3>1, <3>2, Zenon DEF Gathered
    <3> QED
      BY <3>1, <3>3
  <2> QED
    BY <2>2, <2>3
<1>12. ListInv'
  <2>1. lp'[c] # "idle" /\ lp'[c] # "encode"
    BY <1>8
  <2> QED
    BY <1>1, <1>4, <1>11, <2>1, OthersList, Zenon DEF ListInv
<1> QED
  BY <1>5, <1>6, <1>9, <1>10, <1>12 DEF Inv

\* Every step keeps the invariant.
LEMMA Inductive ==
  ASSUME Constants, Inv, [Next]_vars
  PROVE  Inv'
<1>1. ASSUME NEW n \in Names, RegisterNamedVariableList(n) PROVE Inv'
  BY <1>1, DefineStep DEF RegisterNamedVariableList
<1>2. ASSUME NEW c \in Clients, NEW n \in Names, HandleDefineNVL(c, n) PROVE Inv'
  BY <1>2, DefineStep DEF HandleDefineNVL
<1>3. ASSUME NEW c \in Clients, NEW n \in Names, HandleDeleteNVL(c, n) PROVE Inv'
  BY <1>3, DeleteStep, Zenon
<1>4. ASSUME NEW c \in Clients, HandleDeleteAll(c) PROVE Inv'
  BY <1>4, DeleteAllStep, Zenon
<1>5. ASSUME NEW c \in Clients, HandleDeleteOwn(c) PROVE Inv'
  BY <1>5, DeleteOwnStep, Zenon
<1>6. ASSUME NEW c \in Clients, GetNameListAll(c) PROVE Inv'
  BY <1>6, CallStep, Zenon
<1>7. ASSUME NEW c \in Clients, Paginate(c) PROVE Inv'
  BY <1>7, PageStep, Zenon
<1>8. ASSUME NEW c \in Clients, Encode(c) PROVE Inv'
  BY <1>8, EncodeStep, Zenon
<1>9. CASE UNCHANGED vars
  <2>1. UNCHANGED modelVars /\ UNCHANGED listVars /\ UNCHANGED histVars
    BY <1>9 DEF vars
  <2>2. /\ scope' = scope /\ nvls' = nvls /\ heap' = heap /\ len' = len
        /\ lp' = lp /\ token' = token /\ page' = page /\ more' = more /\ all' = all
        /\ stable' = stable /\ seen' = seen /\ torn' = torn
    BY <2>1 DEF modelVars, listVars, histVars
  <2>3. ScopeInv'
    BY <2>1, ScopeRests, Zenon DEF Inv
  <2>4. PagesInv'
    BY <2>2, Zenon DEF Inv, PagesInv, InRange
  <2>5. CallsType' /\ HistoryInv'
    BY <2>2, Zenon DEF Inv, CallsType, HistoryInv
  <2>6. ListInv'
    BY <2>2, Zenon DEF Inv, ListInv, Gathered, Cut, Complete, StartAfter, NotFound, Search, index, array
  <2> QED
    BY <2>3, <2>4, <2>5, <2>6, Zenon DEF Inv
<1> QED
  BY <1>1, <1>2, <1>3, <1>4, <1>5, <1>6, <1>7, <1>8, <1>9, Zenon DEF Next

\* The invariant implies what is claimed of the index,
LEMMA IndexHolds ==
  ASSUME Inv
  PROVE  IndexInv
<1>0. ScopeInv /\ PagesInv /\ CallsType /\ HistoryInv
  BY DEF Inv
<1>1. array \in Seq(Cells) /\ len \in 0 .. Len(array) /\ Sorted(array, len) /\ Entries(array, len) = nvls
  BY <1>0 DEF ScopeInv, Holds
<1>2. Len(index) = len /\ DOMAIN index = 1 .. len /\ \A i \in 1 .. len : index[i] = array[i]
  BY <1>1 DEF index
<1>3. IndexMatches
  BY <1>1, <1>2, Zenon DEF IndexMatches, Ascending, Sorted, Range, Entries
<1>4. heap # <<>> /\ \A n \in DOMAIN heap : \A i \in DOMAIN heap[n] : heap[n][i] \in Names \cup {0}
  BY <1>0, Arrays DEF ScopeInv, HeapType, Cells
<1>5. ASSUME NEW c \in Clients
      PROVE  /\ page[c].arr \in DOMAIN heap /\ page[c].lo \in 1 .. page[c].hi + 1
             /\ page[c].hi <= Len(heap[page[c].arr])
  <2>1. InRange(page[c])
    BY <1>0, Zenon DEF PagesInv
  <2> QED
    BY <2>1 DEF InRange
<1>6. ASSUME NEW c \in Clients PROVE Range(all[c]) \subseteq Names
  <2>1. all[c] \in Seq(Names)
    BY <1>0, Zenon DEF CallsType
  <2>2. \A i \in DOMAIN all[c] : all[c][i] \in Names
    BY <2>1
  <2> QED
    BY <2>2, Zenon DEF Range
<1>7. TypeOK
  BY <1>0, <1>1, <1>4, <1>5, <1>6, Zenon DEF TypeOK, ScopeInv, CallsType, HistoryInv, Points, Cells
<1> QED
  BY <1>3, <1>7 DEF IndexInv

\* and of an enumeration.
LEMMA ListsHold ==
  ASSUME Inv
  PROVE  ListCovers /\ ListExact
BY Zenon DEF Inv, ListInv, Complete, ListCovers, ListExact

-----------------------------------------------------------------------------

\* After every sequence of definitions and deletions in shared arrays, the index of a scope
\* is sorted and lists exactly the objects of the map, and every page of paginate, also one
\* that is being encoded while the index changes, lies in its array and on names.
THEOREM IndexRight ==
  ASSUME Constants
  PROVE  Spec => []IndexInv
BY IndexHolds, Initially, Inductive, PTL DEF Spec

\* GetNameListAll returns every list that was defined throughout the enumeration, although
\* others come and go between its pages, and never stops at a page it takes for a repetition:
\* unless another association changed the index while a page was encoded.
THEOREM ListsCovered ==
  ASSUME Constants
  PROVE  Spec => []ListCovers
BY ListsHold, Initially, Inductive, PTL DEF Spec

\* In the registry it returns the names in sorted order, none twice, and none that was not
\* defined at some time during the enumeration, with the same exception.
THEOREM ListsExact ==
  ASSUME Constants
  PROVE  Spec => []ListExact
BY ListsHold, Initially, Inductive, PTL DEF Spec
=============================================================================
