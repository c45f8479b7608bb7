----------------------------- MODULE MmsDevice -----------------------------
(***************************************************************************)
(* The data model of the C library's server: the types of its variables    *)
(* (common/mms_type_spec.c), the values it holds for them (the value       *)
(* cache, server/mms_value_cache.c), and how a value takes over another    *)
(* one (MmsValue_update).                                                  *)
(*                                                                         *)
(* A domain is a record: its variables, its cache (a function from names   *)
(* of variables to values), its lists of variables, and its journals.      *)
(* Sizes are those MmsValue_newDefaultValue gives the values of a type,    *)
(* and are taken from the type wherever a value keeps them.                *)
(***************************************************************************)
EXTENDS MmsValues

NoPath == <<0>>

Child(spec, name) == SelectInSeq(spec.elements, LAMBDA e : e.name = name)

\* The type at an index of an array or of a structure
ElementSpec(spec, i) == IF spec.type = "ARRAY" THEN spec.elements[1] ELSE spec.elements[i]

RECURSIVE MmsVariableSpecification_getNamedVariableRecursive(_, _),
          MmsVariableSpecification_getChildValue(_, _, _),
          MmsVariableSpecification_isValueOfType(_, _), MmsValue_newDefaultValue(_),
          MmsValue_equalTypes(_, _), MmsValue_update(_, _, _),
          updateStructuredComponent(_, _, _, _), ValueAt(_, _), SpecAt(_, _), Replace(_, _, _)

\* Arrays are stepped over: the name of a component of its elements follows the array's.
MmsVariableSpecification_getNamedVariableRecursive(v, name) ==
    LET i == FirstDollar(name)
        k == Child(v, IF i = 0 THEN name ELSE Before(name, i))
    IN  IF v.type = "ARRAY" THEN MmsVariableSpecification_getNamedVariableRecursive(v.elements[1], name)
        ELSE IF v.type # "STRUCTURE" \/ k = 0 THEN NoSpec
        ELSE IF i = 0 THEN v.elements[k]
        ELSE IF v.elements[k].type \in {"STRUCTURE", "ARRAY"}
        THEN MmsVariableSpecification_getNamedVariableRecursive(v.elements[k], Behind(name, i))
        ELSE NoSpec

Dot == 46
directChildStrLen(id) ==
    LET i == SelectInSeq(id, LAMBDA o : o \in {Dollar, Dot})
    IN  IF i = 0 THEN Len(id) ELSE i - 1

\* Where a component of a value is: the indices that lead to it, or NoPath.  An array is never
\* stepped into.
MmsVariableSpecification_getChildValue(spec, value, id) ==
    LET n == directChildStrLen(id)
        k == Child(spec, SubSeq(id, 1, n))
        rest == MmsVariableSpecification_getChildValue(spec.elements[k], value.elements[k],
                                                       SubSeq(id, n + 2, Len(id)))
    IN  IF \/ spec.type # "STRUCTURE" \/ value.type # "STRUCTURE"
           \/ Len(spec.elements) # Len(value.elements)
           \/ k = 0
        THEN NoPath
        ELSE IF n = Len(id) THEN <<k>>
        ELSE IF rest = NoPath THEN NoPath ELSE <<k>> \o rest

MmsVariableSpecification_isValueOfType(spec, v) ==
    /\ spec.type = v.type
    /\ CASE v.type \in {"ARRAY", "STRUCTURE"} ->
              /\ Len(v.elements) = (IF v.type = "ARRAY" THEN spec.n ELSE Len(spec.elements))
              /\ \A i \in DOMAIN v.elements :
                    MmsVariableSpecification_isValueOfType(ElementSpec(spec, i), v.elements[i])
         [] v.type = "BIT_STRING" -> spec.n = v.n \/ spec.n < 0
         [] v.type = "FLOAT" -> spec.n = v.n /\ spec.width = v.octets[1]
         [] v.type = "BINARY_TIME" -> spec.n = Len(v.octets)
         [] OTHER -> TRUE

Magnitude(n) == IF n < 0 THEN -n ELSE n
Zeros(n) == [i \in 1 .. n |-> 0]

MmsValue_newDefaultValue(spec) ==
    CASE spec.type = "STRUCTURE" ->
           Val("STRUCTURE", 0, <<>>, [i \in DOMAIN spec.elements |-> MmsValue_newDefaultValue(spec.elements[i])])
      [] spec.type = "ARRAY" ->
           Val("ARRAY", 0, <<>>, [i \in 1 .. spec.n |-> MmsValue_newDefaultValue(spec.elements[1])])
      [] spec.type \in {"INTEGER", "UNSIGNED"} -> OfOctets(spec.type, <<0>>)
      [] spec.type = "FLOAT" -> Val("FLOAT", spec.n, <<spec.width>> \o Zeros(spec.n \div 8), <<>>)
      [] spec.type = "BIT_STRING" ->
           Val("BIT_STRING", Magnitude(spec.n), Zeros(ByteSize(Magnitude(spec.n))), <<>>)
      [] spec.type = "OCTET_STRING" -> OfOctets("OCTET_STRING", Zeros(IF spec.n < 0 THEN 0 ELSE spec.n))
      [] spec.type = "UTC_TIME" -> OfOctets("UTC_TIME", Zeros(8))
      [] spec.type = "BINARY_TIME" -> OfOctets("BINARY_TIME", Zeros(IF spec.n = 4 THEN 4 ELSE 6))
      [] OTHER -> Val(spec.type, 0, <<>>, <<>>)

MmsValue_equalTypes(v, w) ==
    /\ v # NoValue /\ w # NoValue /\ v.type = w.type
    /\ v.type \in {"ARRAY", "STRUCTURE"} =>
          /\ Len(v.elements) = Len(w.elements)
          /\ \A i \in DOMAIN v.elements : MmsValue_equalTypes(v.elements[i], w.elements[i])

\* No element, NoValue, when there is none at this index (counted from 0)
MmsValue_getElement(v, index) ==
    IF v.type \in {"ARRAY", "STRUCTURE"} /\ index >= 0 /\ index < Len(v.elements)
    THEN v.elements[index + 1] ELSE NoValue
-----------------------------------------------------------------------------
(***************************************************************************)
(* MmsValue_update(self, update): what self is afterwards, and whether the *)
(* call says that it went well.  A structure is updated element by         *)
(* element, and stays half updated when one of them cannot be.             *)
(***************************************************************************)
Outcome(ok, value) == [ok |-> ok, value |-> value]

\* The octets a value of this type has room for
MaxIntegerSize(spec) == IF spec.n <= 32 THEN 5 ELSE 9

Bit(octets, i) == (octets[i \div 8 + 1] \div 2 ^ (7 - (i % 8))) % 2

\* The bits both strings have are copied, the others stay.
CopyBits(self, update) ==
    LET New(i) == IF i < update.n /\ i < self.n THEN Bit(update.octets, i) ELSE Bit(self.octets, i)
    IN  [o \in DOMAIN self.octets |->
           FoldLeft(LAMBDA sum, k : 2 * sum + New(8 * (o - 1) + k - 1), 0, [k \in 1 .. 8 |-> k])]

updateStructuredComponent_Mutant(spec, self, update, i) ==
    IF i > Len(self.elements) THEN Outcome(TRUE, self)
    ELSE LET u == MmsValue_update(ElementSpec(spec, i), self.elements[i], update.elements[1])
             now == [self EXCEPT !.elements[i] = u.value]
         IN  IF u.ok THEN updateStructuredComponent(spec, now, update, i + 1) ELSE Outcome(FALSE, now)

updateStructuredComponent(spec, self, update, i) ==
    IF i > Len(self.elements) THEN Outcome(TRUE, self)
    ELSE LET u == MmsValue_update(ElementSpec(spec, i), self.elements[i], update.elements[i])
             now == [self EXCEPT !.elements[i] = u.value]
         IN  IF u.ok THEN updateStructuredComponent(spec, now, update, i + 1) ELSE Outcome(FALSE, now)

MmsValue_update(spec, self, update) ==
    LET Taken == Outcome(TRUE, update)
        Refused == Outcome(FALSE, self)
    IN  IF self.type # update.type THEN Refused
        ELSE CASE self.type \in {"STRUCTURE", "ARRAY"} ->
                    IF Len(self.elements) # Len(update.elements) THEN Refused
                    ELSE updateStructuredComponent(spec, self, update, 1)
               [] self.type = "FLOAT" -> IF self.n = update.n THEN Taken ELSE Refused
               [] self.type \in {"INTEGER", "UNSIGNED"} ->
                    IF Len(update.octets) <= MaxIntegerSize(spec) THEN Taken ELSE Refused
               [] self.type = "OCTET_STRING" ->
                    IF Len(update.octets) <= Magnitude(spec.n) THEN Taken ELSE Refused
               [] self.type = "BIT_STRING" ->
                    Outcome(TRUE, IF self.n = update.n THEN update
                                  ELSE [self EXCEPT !.octets = CopyBits(self, update)])
               [] OTHER -> Taken
-----------------------------------------------------------------------------
(***************************************************************************)
(* Finding a variable and its value.  What a lookup in the cache gives is  *)
(* a place, a cached entry and the indices of a value in it, since that is *)
(* what a write changes.                                                   *)
(***************************************************************************)
Place(entry, path) == [entry |-> entry, path |-> path]
NoPlace == Place(NULL, NoPath)

ValueAt(v, path) == IF path = <<>> THEN v ELSE ValueAt(v.elements[Head(path)], Tail(path))
SpecAt(spec, path) == IF path = <<>> THEN spec ELSE SpecAt(ElementSpec(spec, Head(path)), Tail(path))
Replace(v, path, w) ==
    IF path = <<>> THEN w
    ELSE [v EXCEPT !.elements[Head(path)] = Replace(v.elements[Head(path)], Tail(path), w)]

MmsDomain_getNamedVariable(d, name) ==
    LET i == FirstDollar(name)
        k == SelectInSeq(d.variables, LAMBDA v : v.name = (IF i = 0 THEN name ELSE Before(name, i)))
    IN  IF k = 0 THEN NoSpec
        ELSE IF i = 0 THEN d.variables[k]
        ELSE MmsVariableSpecification_getNamedVariableRecursive(d.variables[k], Behind(name, i))

\* A separator in front of a name does not separate anything.
getParentSubString(id) ==
    LET i == SelectLastInSeq(id, LAMBDA o : o = Dollar)
    IN  IF i > 1 THEN Before(id, i) ELSE NULL

getChildSubString(id, parent) == SubSeq(id, Len(parent) + 2, Len(id))

RECURSIVE searchCacheForValue(_, _, _), searchCacheForValueEx(_, _, _, _, _)
searchCacheForValue(d, id, parent) ==
    LET At(path) == IF path = NoPath THEN NoPlace ELSE Place(parent, path)
    IN  IF parent = NULL THEN NoPlace
        ELSE IF parent \notin DOMAIN d.cache THEN searchCacheForValue(d, id, getParentSubString(parent))
        ELSE At(MmsVariableSpecification_getChildValue(
                    MmsDomain_getNamedVariable(d, parent), d.cache[parent], getChildSubString(id, parent)))

MmsValueCache_lookupValue(d, id) ==
    IF id \in DOMAIN d.cache THEN Place(id, <<>>)
    ELSE searchCacheForValue(d, id, getParentSubString(id))

\* The element of an array, or a component of it.  Where there is no such element or component
\* the place is that of the array.
ElementPlace(d, parent, path, index, component) ==
    LET array == ValueAt(d.cache[parent], path)
        spec == SpecAt(MmsDomain_getNamedVariable(d, parent), path)
        element == MmsValue_getElement(array, index)
        inside == MmsVariableSpecification_getChildValue(spec.elements[1], element, component)
    IN  IF index = -1 \/ array.type # "ARRAY" \/ element = NoValue THEN Place(parent, path)
        ELSE IF component = NULL THEN Place(parent, Append(path, index + 1))
        ELSE Place(parent, IF inside = NoPath THEN path ELSE Append(path, index + 1) \o inside)

searchCacheForValueEx(d, id, parent, index, component) ==
    LET path == MmsVariableSpecification_getChildValue(
                    MmsDomain_getNamedVariable(d, parent), d.cache[parent], getChildSubString(id, parent))
    IN  IF parent = NULL THEN NoPlace
        ELSE IF parent \notin DOMAIN d.cache
        THEN searchCacheForValueEx(d, id, getParentSubString(parent), index, component)
        ELSE IF path = NoPath THEN NoPlace ELSE ElementPlace(d, parent, path, index, component)

\* An entry of the array's own name is given as it is, whatever the index and the component.
MmsValueCache_lookupValueEx(d, id, index, component) ==
    IF id \in DOMAIN d.cache THEN Place(id, <<>>)
    ELSE searchCacheForValueEx(d, id, getParentSubString(id), index, component)

\* A new entry; names that are not variables of the domain are ignored.
MmsValueCache_insertValue(d, id, value) ==
    IF MmsDomain_getNamedVariable(d, id) = NoSpec THEN d
    ELSE [d EXCEPT !.cache = (id :> value) @@ d.cache]

mmsServer_getValue(d, name) ==
    LET At(place) == IF place = NoPlace THEN NoValue ELSE ValueAt(d.cache[place.entry], place.path)
    IN  At(MmsValueCache_lookupValue(d, name))

mmsServer_getNamedVariableListWithName(lists, name) ==
    LET i == SelectInSeq(lists, LAMBDA l : l.name = name)
    IN  IF i = 0 THEN NoList ELSE lists[i]

\* What a message adds to the values it carries, as the code reckons
PduOverhead == 27
=============================================================================
