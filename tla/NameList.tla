------------------------------ MODULE NameList ------------------------------
(***************************************************************************)
(* The named variable lists of one scope of the server's object model and  *)
(* their enumeration: DefineNVL, DeleteNVL and the deletion of a whole     *)
(* scope on the registry; GetNameList, whose page is a Go slice of the     *)
(* registry's own index, cut out under the lock and encoded after it; and  *)
(* the paging loop of GetNameListAll in the client.                        *)
(*                                                                         *)
(* A Go slice is a length and a reference to an array.  heap holds every   *)
(* array the index ever had, the current one last: inserting moves to a    *)
(* larger array only when the current one is full, and deleting moves the  *)
(* rest down in place, so a page taken before may change under its reader. *)
(***************************************************************************)
EXTENDS Naturals, Sequences, FiniteSets, Functions

CONSTANTS Names,     \* names, as numbers in their sorted order
          Static,    \* those the application registers, not deletable
          Clients,   \* associations, each with its client
          Listers,   \* those that enumerate; enumerations only read
          PageSize,  \* names that fit one answer (fitList)
          MaxNames   \* bound: names collected before the last page

VARIABLES
  scope,      \* "domain" (or VMD), in the registry, or the client whose own lists they are
  nvls,       \* Registry.nvls: the lists that are defined
  heap,       \* the arrays of the index, the current one last
  len,        \* length of the index
  lp,         \* per client: control point of GetNameListAll
  token,      \* per client: ContinueAfter, 0 when empty
  page, more, \* per client: NameListResult while the handler encodes it
  all,        \* per client: the names collected
  stable,     \* per client: names defined throughout the enumeration so far
  seen,       \* per client: names defined at some time during it
  torn        \* per client: the index changed while a page of it was encoded

modelVars == <<scope, nvls, heap, len>>
listVars  == <<lp, token, page, more, all>>
histVars  == <<stable, seen, torn>>
vars == <<modelVars, listVars, histVars>>

array == heap[Len(heap)]
index == SubSeq(array, 1, len)

Slice(n, lo, hi) == [arr |-> n, lo |-> lo, hi |-> hi]

\* Type correctness: the index and every page of paginate are in the range
\* of their arrays (a slice expression out of range would panic).
TypeOK ==
  /\ scope \in Clients \cup {"domain"}
  /\ torn \in [Clients -> BOOLEAN]
  /\ nvls \subseteq Names
  /\ heap # <<>>
  /\ \A n \in DOMAIN heap : \A i \in DOMAIN heap[n] : heap[n][i] \in Names \cup {0}
  /\ len \in 0 .. Len(array)
  /\ lp \in [Clients -> {"idle", "ask", "encode", "done", "stalled"}]
  /\ token \in [Clients -> Names \cup {0}]
  /\ \A c \in Clients : /\ page[c].arr \in DOMAIN heap
                        /\ page[c].lo \in 1 .. page[c].hi + 1
                        /\ page[c].hi <= Len(heap[page[c].arr])
  /\ more \in [Clients -> BOOLEAN]
  /\ \A c \in Clients : /\ Range(all[c]) \subseteq Names
                        /\ stable[c] \subseteq seen[c]
                        /\ seen[c] \subseteq Names

Init ==
  /\ scope \in Clients \cup {"domain"}
  /\ nvls = {}
  /\ heap = << <<>> >>
  /\ len = 0
  /\ lp = [c \in Clients |-> "idle"]
  /\ token = [c \in Clients |-> 0]
  /\ page = [c \in Clients |-> Slice(1, 1, 0)]
  /\ more = [c \in Clients |-> FALSE]
  /\ all = [c \in Clients |-> <<>>]
  /\ stable = [c \in Clients |-> {}]
  /\ seen = [c \in Clients |-> {}]
  /\ torn = [c \in Clients |-> FALSE]

-----------------------------------------------------------------------------
(* The registry *)

\* Where SearchStrings and BinarySearch find a name: the entries before it.
Search(n) == Cardinality({i \in 1 .. len : array[i] < n})

\* InsertSorted: slices.Insert at the sorted position, in place while the
\* array has room.
InsertPos(n) == Search(n)

InsertSorted(n) ==
  LET at == InsertPos(n) + 1
      cap == Len(array)
      moved(size) == [i \in 1 .. size |-> IF i = at THEN n
                                          ELSE IF at < i /\ i <= len + 1 THEN array[i - 1]
                                          ELSE IF i <= cap THEN array[i] ELSE 0]
  IN  /\ heap' = IF len < cap THEN [heap EXCEPT ![Len(heap)] = moved(cap)]
                 ELSE Append(heap, moved(IF cap = 0 THEN 1 ELSE 2 * cap))
      /\ len' = len + 1

\* removeFromSorted: append(sorted[:i], sorted[i+1:]...), always in place.
Removed_Mutant(o, n) == o
Removed(o, n) ==
  IF \A i \in 1 .. o.len : o.array[i] # n THEN o
  ELSE LET at == CHOOSE i \in 1 .. o.len : o.array[i] = n
       IN  [array |-> [i \in DOMAIN o.array |->
                         IF at <= i /\ i < o.len THEN o.array[i + 1] ELSE o.array[i]],
            len |-> o.len - 1]

order == [array |-> array, len |-> len]

\* The loop of DeleteAllDomainNVLs and DeleteAllVMDNVLs over a copy of the
\* index: what is left of it after k names.
Left[k \in 0 .. len] ==
  IF k = 0 THEN order
  ELSE IF array[k] \in nvls \ Static THEN Removed(Left[k - 1], array[k])
  ELSE Left[k - 1]

\* The index is cut down in its own array.
Shrink(o) ==
  /\ heap' = [heap EXCEPT ![Len(heap)] = o.array]
  /\ len' = o.len

\* What the enumerations under way have seen defined.
Observe ==
  /\ stable' = [c \in Clients |-> stable[c] \cap nvls']
  /\ seen' = [c \in Clients |-> IF lp[c] \in {"ask", "encode"} THEN seen[c] \cup nvls' ELSE seen[c]]
  /\ torn' = [c \in Clients |-> torn[c] \/ lp[c] = "encode"]

DefineNVL(n) ==
  /\ n \notin nvls
  /\ nvls' = nvls \cup {n}
  /\ InsertSorted(n)
  /\ Observe
  /\ UNCHANGED <<scope, listVars>>

\* RegisterNamedVariableList, by the application at any time.
RegisterNamedVariableList(n) ==
  /\ n \in Static /\ scope = "domain"
  /\ DefineNVL(n)

\* The Serve loop of an association handles one request at a time: none
\* while it is encoding a page.  Its client reaches the registry and the
\* lists of its own association.
Serving(c) == lp[c] # "encode" /\ scope \in {"domain", c}

HandleDefineNVL(c, n) ==
  /\ Serving(c)
  /\ n \notin Static
  /\ DefineNVL(n)

HandleDeleteNVL(c, n) ==
  /\ Serving(c)
  /\ n \in nvls \ Static
  /\ nvls' = nvls \ {n}
  /\ Shrink(Removed(order, n))
  /\ Observe
  /\ UNCHANGED <<scope, listVars>>

\* DeleteAllDomainNVLs, DeleteAllVMDNVLs: the deletable ones, in order.
HandleDeleteAll(c) ==
  /\ Serving(c)
  /\ scope = "domain" /\ ~(nvls \subseteq Static)
  /\ nvls' = nvls \cap Static
  /\ Shrink(Left[len])
  /\ Observe
  /\ UNCHANGED <<scope, listVars>>

\* deleteAllAssocNVLs drops the index; no page of the client is in use.
HandleDeleteOwn(c) ==
  /\ Serving(c)
  /\ scope = c /\ nvls # {}
  /\ nvls' = {}
  /\ heap' = << <<>> >> /\ len' = 0
  /\ page' = [page EXCEPT ![c] = Slice(1, 1, 0)]
  /\ Observe
  /\ UNCHANGED <<scope, lp, token, more, all>>

-----------------------------------------------------------------------------
(* GetNameList *)

\* Where paginate starts: after the token, or, when the token is no longer
\* in the index, where it would be; the lists of an association start over.
NotFound_Mutant(t) == Search(t) + 1
NotFound(t) == IF scope = "domain" THEN Search(t) ELSE 0

StartAfter(t) == IF t = 0 THEN 0 ELSE IF t \in Range(index) THEN Search(t) + 1 ELSE NotFound(t)

\* The handler cuts the page out of the index, under the lock of the registry.
Paginate(c) ==
  LET start == StartAfter(token[c])
  IN  /\ lp[c] = "ask"
      /\ Len(all[c]) <= MaxNames
      /\ more' = [more EXCEPT ![c] = len - start > PageSize]
      /\ page' = [page EXCEPT ![c] =
                    Slice(Len(heap), start + 1, IF len - start > PageSize THEN start + PageSize ELSE len)]
      /\ lp' = [lp EXCEPT ![c] = "encode"]
      /\ UNCHANGED <<modelVars, token, all, histVars>>

\* The lock is released; the page is encoded and answered, and the loop of
\* GetNameListAll takes it: the end, another page, or a stalled server.
Encode(c) ==
  LET names == SubSeq(heap[page[c].arr], page[c].lo, page[c].hi)
      last == names[Len(names)]
  IN  /\ lp[c] = "encode"
      /\ all' = [all EXCEPT ![c] = @ \o names]
      /\ \/ /\ ~more[c] \/ names = <<>>
            /\ lp' = [lp EXCEPT ![c] = "done"]
            /\ UNCHANGED token
         \/ /\ more[c] /\ names # <<>>
            /\ lp' = [lp EXCEPT ![c] = IF last = token[c] THEN "stalled" ELSE "ask"]
            /\ token' = [token EXCEPT ![c] = last]
      /\ UNCHANGED <<modelVars, page, more, histVars>>

\* GetNameListAll is called.
GetNameListAll(c) ==
  /\ c \in Listers /\ lp[c] = "idle" /\ Serving(c)
  /\ lp' = [lp EXCEPT ![c] = "ask"]
  /\ stable' = [stable EXCEPT ![c] = nvls]
  /\ seen' = [seen EXCEPT ![c] = nvls]
  /\ UNCHANGED <<modelVars, token, page, more, all, torn>>

-----------------------------------------------------------------------------

Next ==
  \/ \E n \in Names : RegisterNamedVariableList(n)
  \/ \E c \in Clients :
       \/ \E n \in Names : HandleDefineNVL(c, n) \/ HandleDeleteNVL(c, n)
       \/ HandleDeleteAll(c) \/ HandleDeleteOwn(c) \/ GetNameListAll(c) \/ Paginate(c) \/ Encode(c)

Spec == Init /\ [][Next]_vars

-----------------------------------------------------------------------------

Ascending(s) == \A i, j \in DOMAIN s : i < j => s[i] < s[j]

\* The index of a scope is sorted and lists exactly the objects of the map,
\* after every sequence of insertions and deletions in shared arrays.
IndexMatches == Ascending(index) /\ Range(index) = nvls

\* The state is of its types, pages in the range of their arrays, and the
\* index is right.
IndexInv == TypeOK /\ IndexMatches

\* An enumeration is not taken for a stalled one, and returns every list that
\* was defined throughout it, although others, the one it continues after
\* included, come and go between pages; unless another association changes
\* the index while a page is encoded: then handleGetNameList encodes an array
\* that moves, and may miss a list.
ListCovers ==
  \A c \in Clients : ~torn[c] =>
    /\ lp[c] # "stalled"
    /\ lp[c] = "done" => stable[c] \subseteq Range(all[c])

\* In the registry it returns no name twice, in sorted order, and none that
\* never existed, with the same exception.
ListExact ==
  \A c \in Clients : lp[c] = "done" /\ ~torn[c] /\ scope = "domain" =>
    Ascending(all[c]) /\ Range(all[c]) \subseteq seen[c]

=============================================================================
