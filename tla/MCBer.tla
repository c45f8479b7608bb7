------------------------------- MODULE MCBer -------------------------------
(***************************************************************************)
(* Values of every type for the model checker: every alternative of every  *)
(* CHOICE, every optional member present and absent, lists of none, one    *)
(* and two items, and the extremes of the ranged integers.                 *)
(***************************************************************************)
EXTENDS BerStream

CONSTANT Nesting        \* how deep a recursive type is nested in itself

Packet == INSTANCE MmsGrammar
MCGrammar == Packet!WiresharkGrammar

\* The types that contain themselves
Recursive == {"Data", "TypeSpecification", "AlternateAccessSelection", "VariableSpecification"}

Numbers(type, td) ==
    CASE td.kind = "INTEGER" -> {<<5>>, IF td.range = <<>> THEN <<255, 1>> ELSE <<0, 200>>}
      [] td.kind = "NativeInteger" ->
           IF td.range = <<>> THEN {<<-1>>, <<300>>} ELSE {<<td.range[1]>>, <<td.range[2]>>}
      [] td.kind = "BOOLEAN" -> {<<0>>, <<1>>}
      [] td.kind = "NULL" -> {<<0>>}
      [] td.kind = "OCTET_STRING" ->
           CASE type = "TimeOfDay" -> {[i \in 1..n |-> i] : n \in {4, 6}}
             [] type = "UtcTime" -> {[i \in 1..8 |-> i]}
             [] OTHER -> {<<>>, <<65, 66>>}
      [] td.kind = "BIT_STRING" -> {<<0>>, <<3, 160>>}

Empty == Node(<<>>, <<>>)
Some(S) == CHOOSE v \in S : v # Empty \/ S = {Empty}

\* Home[t]: the type in which t is first met, going down from Type.  All values of t are
\* tried there; elsewhere t has one value.
Below(types) == UNION {{m.type : m \in Range(asn_DEF[t].elements)} : t \in types}

RECURSIVE Homes(_, _)
Homes(home, types) ==
    LET new == Below(types) \ ({Type} \cup DOMAIN home)
    IN  IF new = {} THEN home
        ELSE Homes([t \in new |-> CHOOSE o \in types : t \in Below({o})] @@ home, new)

Home == Homes(<<>>, {Type})

RECURSIVE Values(_, _)
Values(type, depth) ==
    LET td == asn_DEF[type]
        deeper == IF type \in Recursive THEN depth - 1 ELSE depth
        Of(m) == LET vs == Values(m.type, deeper)
                 IN  CASE m.range # <<>> -> {Node(<<m.range[i]>>, <<>>) : i \in 1..2}
                       [] m.range = <<>> /\ vs # {} /\ Home[m.type] # type -> {Some(vs)}
                       [] OTHER -> vs
        each == [i \in DOMAIN td.elements |-> Of(td.elements[i])]
        opt == {i \in DOMAIN td.elements : td.elements[i].optional > 0}
        full == Node(<<>>, [i \in DOMAIN td.elements |->
                              IF each[i] = {} THEN Absent ELSE Some(each[i])])
        bare == [full EXCEPT !.c = [i \in DOMAIN @ |-> IF i \in opt THEN Absent ELSE @[i]]]
        items == each[1]
    IN  CASE type \in Recursive /\ depth = 0 -> {}
          [] ~(type \in Recursive /\ depth = 0) /\ td.kind = "SEQUENCE" ->
               IF \E i \in DOMAIN each \ opt : each[i] = {} THEN {}
               ELSE {full, bare}
                    \cup UNION {{[full EXCEPT !.c[i] = v] : v \in each[i]} : i \in DOMAIN each}
                    \cup {[full EXCEPT !.c[i] = Absent] : i \in opt}
          [] ~(type \in Recursive /\ depth = 0) /\ td.kind = "CHOICE" ->
               UNION {{Node(<<i>>, <<v>>) : v \in each[i]} : i \in DOMAIN each}
          [] ~(type \in Recursive /\ depth = 0) /\ td.kind = "SEQUENCE_OF" ->
               {Empty} \cup {Node(<<>>, <<v>>) : v \in items}
               \cup (IF items = {} THEN {} ELSE {Node(<<>>, <<Some(items), v>>) : v \in items})
          [] OTHER -> {Node(n, <<>>) : n \in Numbers(type, td)}

MCPdus == Values(Type, Nesting)
=============================================================================
