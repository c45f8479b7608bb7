------------------------------ MODULE AltAccess ------------------------------
(***************************************************************************)
(* Alternate access: reading and replacing the part of a value that a      *)
(* chain of selectors names (applyAlternateAccessRead and -Write).         *)
(*                                                                         *)
(* A value is a leaf with a type and a content, or a structure or an array *)
(* with elements; a type is its counterpart.  Nil stands for Go's nil of   *)
(* both: no value on a wrong path, no type where none is known.            *)
(***************************************************************************)
EXTENDS Naturals, Sequences

Nil == [t |-> "nil"]
Leaf(t, v) == [t |-> t, v |-> v]
Structure(es) == [t |-> "structure", es |-> es]
Array(es) == [t |-> "array", es |-> es]

Component(name) == [kind |-> "component", name |-> name]
Index(i) == [kind |-> "index", i |-> i]
IndexRange(low, n) == [kind |-> "range", low |-> low, n |-> n]

HasElements(x) == x.t \in {"structure", "array"}

\* resolveComponentIndex: 0 when there is no such component.
ResolveComponent(ts, name) ==
  LET first == {i \in DOMAIN ts.names :
                  ts.names[i] = name /\ \A j \in 1 .. i - 1 : ts.names[j] # name}
  IN  IF ts.t = "structure" /\ first # {} THEN CHOOSE i \in first : TRUE ELSE 0

\* Selectors count from 0, sequences from 1.
Position(i) == i + 1

\* The element a selector names in a value: 0 when it names none.
ElementOf(val, ts, sel) ==
  LET i == CASE sel.kind = "component" /\ val.t = "structure" -> ResolveComponent(ts, sel.name)
             [] sel.kind = "index" /\ HasElements(val) -> Position(sel.i)
             [] OTHER -> 0
  IN  IF HasElements(val) /\ i \in DOMAIN val.es THEN i ELSE 0

ChildType(val, ts, i) ==
  CASE val.t = "structure" /\ ts.t = "structure" /\ i \in DOMAIN ts.es -> ts.es[i]
    [] val.t = "array" /\ ts.t = "array" -> ts.elem
    [] OTHER -> Nil

\* The elements of an index range, and whether an array has them: its end must
\* not exceed the length, for an empty range too.
RangeEnd(sel) == sel.low + sel.n
InRange(val, sel) == val.t = "array" /\ sel.low .. RangeEnd(sel) \subseteq DOMAIN val.es \cup {0}
Slice(es, sel) == [i \in 1 .. sel.n |-> es[sel.low + i]]

SelectOne(at, sel) ==
  LET i == ElementOf(at.val, at.ts, sel)
  IN  IF sel.kind = "range"
      THEN [val |-> IF InRange(at.val, sel) THEN Array(Slice(at.val.es, sel)) ELSE Nil, ts |-> Nil]
      ELSE IF i = 0 THEN [val |-> Nil, ts |-> Nil]
      ELSE [val |-> at.val.es[i], ts |-> ChildType(at.val, at.ts, i)]

\* What the selectors of a path name, one after the other: a part of the value
\* and its type.
Parts(val, ts, path) ==
  LET part[k \in 0 .. Len(path)] ==
        IF k = 0 THEN [val |-> val, ts |-> ts] ELSE SelectOne(part[k - 1], path[k])
  IN  part

\* applyAlternateAccessRead
Select(val, ts, path) == Parts(val, ts, path)[Len(path)].val

\* TypeSpec.ShallowCompatible, which is not asked where no type is known.
Compatible_Mutant(ts, w) == TRUE
Compatible(ts, w) ==
  \/ ts = Nil
  \/ /\ w.t = ts.t
     /\ ts.t = "structure" => Len(w.es) = Len(ts.es)
     /\ ts.t = "array" => Len(w.es) = ts.count

Replaced_Mutant(sel, i) == i \in sel.low + 1 .. RangeEnd(sel) - 1
Replaced(sel, i) == i \in sel.low + 1 .. RangeEnd(sel)

\* patchRange: as many elements as it names.
PatchRange(val, sel, w) ==
  IF InRange(val, sel) /\ w.t = "array" /\ DOMAIN w.es = 1 .. sel.n
  THEN Array([i \in DOMAIN val.es |-> IF Replaced(sel, i) THEN w.es[i - sel.low] ELSE val.es[i]])
  ELSE Nil

\* patchComponent and patchIndex: the value with one element replaced.
PatchElement(val, i, child) == [t |-> val.t, es |-> [val.es EXCEPT ![i] = child]]

\* patchValue at one selector: the value with the new child that the selectors
\* after it made.  A range is the last selector; the last one compares types.
PatchOne(at, sel, child, last) ==
  LET i == ElementOf(at.val, at.ts, sel)
  IN  IF sel.kind = "range" THEN IF last THEN PatchRange(at.val, sel, child) ELSE Nil
      ELSE IF i = 0 \/ child = Nil THEN Nil
      ELSE IF last /\ ~Compatible(ChildType(at.val, at.ts, i), child) THEN Nil
      ELSE PatchElement(at.val, i, child)

\* The value and its parts along a path with the last part replaced, from the
\* last one outwards.
Patches(val, ts, path, w) ==
  LET n == Len(path)
      new[k \in 0 .. n] ==
        IF k = 0 THEN w
        ELSE PatchOne(Parts(val, ts, path)[n - k], path[n - k + 1], new[k - 1], k = 1)
  IN  new

\* applyAlternateAccessWrite: the value with the selected part replaced.
Patch(val, ts, path, w) == Patches(val, ts, path, w)[Len(path)]

=============================================================================
