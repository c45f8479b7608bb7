---------------------------- MODULE MCExchange ----------------------------
(***************************************************************************)
(* MmsExchange on a small device: two domains, a variable of the same name *)
(* in both, a structure with an array held as one value, a structure held  *)
(* by its components, one value of each further type, and lists of         *)
(* variables in one domain; in the other one, variables without a value.   *)
(***************************************************************************)
EXTENDS MmsExchange

\* Domains, variables, components and lists, named by a letter
D == <<68>>
G == <<71>>
I == <<73>>
C == <<67>>
P == <<80>>
T == <<84>>
B == <<66>>
x == <<120>>
a == <<97>>
v == <<118>>
q == <<113>>
l == <<108>>
m == <<109>>
L == <<76>>
K == <<75>>
M == <<77>>
U == <<85>>
Q == <<81>>
R == <<82>>
W == <<87>>
o == <<111>>
Long(letter) == [i \in 1 .. 20 |-> letter]

IntegerSpec(name) == VariableSpec(name, "INTEGER", 32, 0, <<>>)
ElementsSpec ==
    VariableSpec(a, "ARRAY", 2, 0,
        <<VariableSpec(NULL, "STRUCTURE", 0, 0, <<IntegerSpec(v), VariableSpec(q, "BIT_STRING", 3, 0, <<>>)>>)>>)
CSpec == VariableSpec(C, "STRUCTURE", 0, 0, <<IntegerSpec(x), ElementsSpec>>)
PSpec == VariableSpec(P, "STRUCTURE", 0, 0,
             <<VariableSpec(l, "VISIBLE_STRING", 5, 0, <<>>), VariableSpec(m, "BOOLEAN", 0, 0, <<>>)>>)
TSpec == VariableSpec(T, "STRUCTURE", 0, 0,
             <<VariableSpec(<<98>>, "BINARY_TIME", 6, 0, <<>>), VariableSpec(<<102>>, "FLOAT", 32, 8, <<>>),
               VariableSpec(<<110>>, "UNSIGNED", 16, 0, <<>>), VariableSpec(o, "OCTET_STRING", 4, 0, <<>>),
               VariableSpec(<<117>>, "UTC_TIME", 0, 0, <<>>)>>)

ASpec == VariableSpec(B, "ARRAY", 2, 0, <<IntegerSpec(NULL)>>)

\* A structure the device has half of, an array it has not, and a bit string of 127 octets
QSpec == VariableSpec(Q, "STRUCTURE", 0, 0, <<IntegerSpec(l), VariableSpec(m, "BOOLEAN", 0, 0, <<>>)>>)
RSpec == [ASpec EXCEPT !.name = R]
WSpec == VariableSpec(W, "BIT_STRING", 1016, 0, <<>>)
WValue == Val("BIT_STRING", 1016, Zeros(127), <<>>)

Integer(octets) == OfOctets("INTEGER", octets)
Bits(octet) == Val("BIT_STRING", 3, <<octet>>, <<>>)
Bool(n) == Val("BOOLEAN", n, <<>>, <<>>)
Text(octets) == OfOctets("VISIBLE_STRING", octets)
Struct(elements) == Val("STRUCTURE", 0, <<>>, elements)
ArrayOf(elements) == Val("ARRAY", 0, <<>>, elements)
Element(k, octet) == Struct(<<Integer(k), Bits(octet)>>)
CValue(n, k, octet) == Struct(<<Integer(n), ArrayOf(<<Element(k, octet), Element(<<3>>, 160)>>)>>)
TValue == Struct(<<OfOctets("BINARY_TIME", <<0, 1, 2, 3, 4, 5>>), Val("FLOAT", 32, <<8, 65, 32, 0, 0>>, <<>>),
                   OfOctets("UNSIGNED", <<0, 200>>), OfOctets("OCTET_STRING", <<1, 255>>),
                   OfOctets("UTC_TIME", <<1, 2, 3, 4, 5, 6, 7, 8>>)>>)

TValue2 == Struct(<<OfOctets("BINARY_TIME", <<0, 1, 2, 3, 4, 6>>), Val("FLOAT", 32, <<8, 65, 32, 0, 1>>, <<>>),
                    OfOctets("UNSIGNED", <<1, 2>>), OfOctets("OCTET_STRING", <<>>),
                    OfOctets("UTC_TIME", <<1, 2, 3, 4, 5, 6, 7, 9>>)>>)

\* Values that are of the type but have no room: six octets for an integer, five for T$o
Wide == Integer(<<1, 0, 0, 0, 0, 0>>)
TWide == [TValue2 EXCEPT !.elements[4] = OfOctets("OCTET_STRING", <<1, 2, 3, 4, 5>>)]

In(name, child) == name \o <<Dollar>> \o child
ListMember(domain, item, index, component) == [domain |-> domain, item |-> item, index |-> index, component |-> component]

MCDevice ==
    [domains |-> (D :> [variables |-> <<IntegerSpec(I), ASpec, CSpec, PSpec, TSpec>>,
                        cache |-> (I :> Integer(<<1>>) @@ B :> ArrayOf(<<Integer(<<1>>), Integer(<<2>>)>>)
                                     @@ C :> CValue(<<1>>, <<2>>, 64)
                                     @@ (P \o <<Dollar>> \o l) :> Text(<<104, 105>>)
                                     @@ (P \o <<Dollar>> \o m) :> Bool(0) @@ T :> TValue),
                        lists |-> <<VariableList(M, FALSE, <<ListMember(D, I, -1, NULL)>>)>>
                                     \o [i \in 1 .. 2 |-> VariableList(Long(74 + i), TRUE, <<ListMember(D, I, -1, NULL)>>)]
                                     \o <<VariableList(U, FALSE, <<ListMember(D, In(C, a), 1, <<90>>), ListMember(D, I, -1, NULL)>>)>>,
                        journals |-> <<>>]
                  @@ G :> [variables |-> <<IntegerSpec(I), QSpec, RSpec, WSpec>>,
                           cache |-> (I :> Integer(<<7>>) @@ In(Q, m) :> Bool(0) @@ W :> WValue), lists |-> <<>>,
                           journals |-> <<<<74>>>>]),
     lists |-> <<>>, association |-> <<>>,
     agreed |-> [maxPduSize |-> MaximumPduSize, calling |-> 0, called |-> 0, nesting |-> 0, cbc |-> 0],
     identity |-> [vendor |-> <<118, 101>>, model |-> <<109>>, revision |-> <<49>>],
     status |-> [logical |-> 0, physical |-> 0]]

Plain(op, domain, item) == Call(op, domain, item, -1, NULL, <<>>, <<>>)
Writing(op, domain, item, index, component, value) == Call(op, domain, item, index, component, <<>>, <<value>>)

ReadCalls ==
    {Call("initiate", NULL, NULL, n, NULL, <<>>, <<>>) : n \in {30, 55, 300}}
    \cup {Plain(op, NULL, NULL) : op \in {"conclude", "identify", "domain", "associationLists", "namedVariableList"}}
    \cup {Call("status", NULL, NULL, n, NULL, <<>>, <<>>) : n \in {0, 1}}
    \cup {Plain(op, n, NULL) : op \in {"namedVariable", "namedVariableList", "journal"}, n \in {D, G, <<90>>}}
    \cup {Plain(op, D, n) : op \in {"read", "type"}, n \in {I, C, P, T, In(C, x), In(C, a), In(P, l), In(P, q), <<90>>}}
    \cup {Plain("read", G, n) : n \in {I, Q, In(Q, l), In(Q, m), R, W}}
    \cup {Call("readComponent", D, n[1], -1, n[2], <<>>, <<>>) : n \in {<<C, x>>, <<P, m>>, <<C, q>>}}
    \cup {Call("readElement", D, In(C, a), i, NULL, <<>>, <<>>) : i \in {0, 1}}
    \cup {Call("readElementComponent", D, In(C, a), i, n, <<>>, <<>>) : i \in {0, 1}, n \in {v, q}}
    \cup {Call("readElements", D, In(C, a), 0, NULL, <<1, 2>>, <<>>)}
    \cup {Call("readMultiple", D, NULL, -1, NULL, n, <<>>) : n \in {<<I>>, <<In(P, m), I, In(C, a)>>, <<I, <<90>>>>}}
    \cup {Call("readMultiple", G, NULL, -1, NULL, n, <<>>) : n \in {<<R>>, <<Q, I>>, <<I, R, In(Q, m)>>, <<I, W>>}}

WriteCalls ==
    {Writing("write", D, I, -1, NULL, value) : value \in {Integer(<<5>>), Integer(<<1, 0, 0, 0>>), Bool(1), Integer(<<>>), Wide}}
    \cup {Writing("write", G, I, -1, NULL, Integer(<<5>>)), Writing("write", <<90>>, I, -1, NULL, Integer(<<5>>))}
    \cup {Writing("write", D, In(C, x), -1, NULL, Integer(<<6>>)), Writing("write", D, C, -1, NULL, CValue(<<9>>, <<8>>, 32)),
          Writing("write", D, In(C, a), -1, NULL, ArrayOf(<<Element(<<4>>, 0), Element(<<5>>, 32)>>)),
          Writing("write", D, In(P, m), -1, NULL, Bool(1)), Writing("write", D, In(P, l), -1, NULL, Text(<<104>>)),
          Writing("write", D, P, -1, NULL, Struct(<<Text(<<>>), Bool(1)>>)), Writing("write", D, T, -1, NULL, TValue2),
          Writing("write", D, <<90>>, -1, NULL, Integer(<<5>>)), Writing("write", D, T, -1, NULL, TWide),
          Writing("write", D, In(T, o), -1, NULL, OfOctets("OCTET_STRING", <<1, 2, 3, 4, 5>>))}
    \cup {Writing("write", G, In(Q, m), -1, NULL, Bool(1)), Writing("write", G, In(Q, l), -1, NULL, Integer(<<5>>)),
          Writing("write", G, Q, -1, NULL, Struct(<<Integer(<<5>>), Bool(1)>>))}
    \cup {Writing("writeComponent", D, C, -1, x, Integer(<<6>>)), Writing("writeComponent", D, P, -1, m, Bool(1))}
    \cup {Writing("writeElement", D, In(C, a), i, NULL, Element(<<4>>, 32)) : i \in {0, 1, 2}}
    \cup {Writing("writeElementComponent", D, In(C, a), 1, v, Integer(<<4>>)),
          Writing("writeElementComponent", D, In(C, a), 0, q, Bits(32))}
    \cup {Call("writeMultiple", D, NULL, -1, NULL, <<I, In(P, m), In(C, x)>>, <<Integer(<<2>>), Bool(1), Integer(<<3>>)>>),
          Call("writeMultiple", D, NULL, -1, NULL, <<I, <<90>>, I>>, <<Integer(<<2>>), Bool(1), Integer(<<3>>)>>),
          Call("writeMultiple", D, NULL, -1, NULL, [i \in 1 .. 13 |-> <<90>>], [i \in 1 .. 13 |-> Bool(1)])}
    \cup {Call("writeList", D, M, -1, NULL, <<>>, <<value>>) : value \in {Integer(<<2>>), Wide}}
    \cup {Call("writeList", D, U, -1, NULL, <<>>,
               <<ArrayOf(<<Element(<<4>>, 0), Element(<<5>>, 32)>>), Integer(<<2>>)>>)}

ElementCalls ==
    {Writing("writeElement", D, B, 1, NULL, value) : value \in {Integer(<<4>>), ArrayOf(<<Integer(<<8>>), Integer(<<9>>)>>)}}
    \cup {Writing("writeElement", D, In(C, a), 1, NULL, Struct(<<Wide, Bits(32)>>)),
          Writing("writeElementComponent", D, In(C, a), 1, v, Bool(1))}
    \cup {Call("writeElements", D, B, 0, NULL, <<1, 2>>, <<ArrayOf(<<Integer(<<4>>), value>>)>>) :
            value \in {Integer(<<5>>), Bool(1), Wide}}
    \cup {Call("writeElements", D, In(C, a), 0, NULL, <<1, 2>>,
               <<ArrayOf(<<Element(<<4>>, 0), Struct(<<Integer(<<5>>), Bool(1)>>)>>)>>)}

ListCalls ==
    {Call("define", n[1], n[2], -1, NULL, n[3], <<>>) :
        n \in {<<D, L, <<ListMember(D, I, -1, NULL), ListMember(G, I, -1, NULL)>>>>,
               <<D, L, <<ListMember(D, In(C, a), 1, v), ListMember(D, P, -1, NULL), ListMember(D, C, -1, NULL)>>>>,
               <<D, K, <<ListMember(D, <<90>>, -1, NULL)>>>>, <<<<90>>, K, <<ListMember(D, I, -1, NULL)>>>>,
               <<NULL, K, <<ListMember(D, I, -1, NULL)>>>>, <<NULL, L, <<ListMember(D, <<90>>, -1, NULL)>>>>}}
    \cup {Call("defineForAssociation", NULL, K, -1, NULL, <<ListMember(D, In(P, m), -1, NULL), ListMember(D, B, 0, NULL)>>, <<>>)}
    \cup {Call(op, d, n, -1, NULL, <<>>, <<>>) : op \in {"delete", "directory"}, d \in {D, NULL}, n \in {M, L, K}}
    \cup {Call(op, NULL, K, -1, NULL, <<>>, <<>>) :
             op \in {"deleteOfAssociation", "associationDirectory", "readAssociationList"}}
    \cup {Call("readList", D, n, i, NULL, <<>>, <<>>) : n \in {M, L, U}, i \in {0, 1}}

OtherCalls ==
    {Call("fileOpen", NULL, [i \in 1 .. n |-> 70], 1, NULL, <<>>, <<>>) : n \in {1, 115, 119, 127, 128}}
    \cup {Call(op, NULL, NULL, 200, NULL, <<>>, <<>>) : op \in {"fileRead", "fileClose"}}
    \cup {Call("fileDelete", NULL, x, 0, NULL, <<>>, <<>>)}
    \cup {Call(op, NULL, [i \in 1 .. n |-> 70], 0, a, <<>>, <<>>) :
             op \in {"fileRename", "obtainFile", "fileDirectory"}, n \in {1, 125}}
    \cup {Call(op, G, [i \in 1 .. n |-> 74], 0, NULL, <<<<0, 0, 0, 0, 0, 1>>, <<0, 0, 0, 0, 0, 2>>>>, <<>>) :
             op \in {"journalRange", "journalAfter"}, n \in {1, 95, 105}}

MCCalls == ReadCalls \cup WriteCalls \cup ElementCalls \cup ListCalls \cup OtherCalls

MCReports ==
    {Call("reportVariable", NULL, n, -1, NULL, <<>>, <<value>>) :
        n \in {I, [i \in 1 .. 120 |-> 73]}, value \in {Integer(<<1>>), CValue(<<1>>, <<2>>, 64), WValue}}
    \cup {Call("reportList", NULL, M, -1, NULL, <<>>, <<Integer(<<1>>), Bool(1), TValue>>)}
    \cup {Call("reportVariables", NULL, NULL, -1, NULL, [i \in DOMAIN domains |-> [domain |-> domains[i], item |-> I]],
                [i \in DOMAIN domains |-> Integer(<<i>>)]) : domains \in {<<D>>, <<NULL>>, <<D, G>>, <<D, NULL>>}}
    \cup {Call("reportVariables", NULL, NULL, -1, NULL,
               <<[domain |-> D, item |-> In(C, a)], [domain |-> D, item |-> In(C, x)], [domain |-> G, item |-> I]>>,
               [i \in 1 .. 3 |-> Integer(<<i>>)])}

MCChanges ==
    {Call("setValue", D, I, -1, NULL, <<>>, <<Integer(<<77>>)>>)}
    \cup {Call("dropList", D, Long(n), -1, NULL, <<>>, <<>>) : n \in {75, 76}}
    \cup {Call("addList", D, <<n>>, -1, NULL, <<ListMember(D, I, -1, NULL)>>, <<>>) : n \in {74, 78}}
=============================================================================
