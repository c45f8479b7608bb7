----------------------------- MODULE MCVariables -----------------------------
(***************************************************************************)
(* The types, values and requests with which Variables is model checked.   *)
(* Variables are structures of an integer, an array of three integers and  *)
(* a structure with a structure in it.  The first client writes right and  *)
(* wrong values along the paths of its own variable, among them values of  *)
(* another shape that the server accepts: for the whole variable, and with *)
(* a wrong component inside a right structure.  It also sends requests     *)
(* with items that do not exist, lack a value or have a wrong one; the     *)
(* second writes to its own variable of the same name.                     *)
(***************************************************************************)
EXTENDS AltAccess

IntType == [t |-> "int"]
MCType ==
  [t |-> "structure", names |-> <<"a", "b", "c">>,
   es |-> << IntType,
             [t |-> "array", count |-> 3, elem |-> IntType],
             [t |-> "structure", names |-> <<"d", "e">>,
              es |-> <<IntType, [t |-> "structure", names |-> <<"f">>, es |-> <<IntType>>]>>] >>]

Zero == Leaf("int", 0)
One == Leaf("int", 1)
MCInitial == Structure(<<Zero, Array(<<Zero, Zero, Zero>>), Structure(<<Zero, Structure(<<Zero>>)>>)>>)

MCPaths ==
  { <<Component("a")>>, <<Index(0)>>, <<Component("b")>>, <<Component("c")>>,
    <<Component("b"), Index(0)>>, <<Component("b"), Index(2)>>, <<Component("b"), Index(3)>>,
    <<Component("b"), IndexRange(0, 2)>>, <<Index(1), IndexRange(1, 2)>>,
    <<Component("b"), IndexRange(2, 2)>>, <<Component("b"), IndexRange(1, 2), Index(0)>>,
    <<Component("b"), Component("d")>>,
    <<Component("c"), Component("d")>>, <<Index(2), Index(1)>>, <<Component("d")>>,
    <<Component("c"), Component("e"), Component("f")>>, <<Component("c"), Component("e"), Index(0)>> }

\* What is written where: a value of the right type to most paths, and of a
\* wrong type or length to some.
TwoInts == Array(<<One, Zero>>)
Singles ==
  { <<Component("a")>>, <<Component("b")>>, <<Component("d")>>, <<Component("b"), Component("d")>>,
    <<Component("b"), Index(0)>>, <<Component("b"), Index(2)>>, <<Component("b"), Index(3)>>,
    <<Component("b"), IndexRange(0, 2)>>, <<Component("b"), IndexRange(1, 2), Index(0)>>,
    <<Component("c"), Component("d")>>, <<Component("c"), Component("e"), Component("f")>> }
Written ==
  (Singles \X {One}) \cup
  ({ <<Component("a")>>, <<Component("b"), Index(0)>>, <<Index(2), Index(1)>> } \X {Leaf("bool", 1)}) \cup
  ({ <<Component("b")>>, <<Component("b"), IndexRange(0, 2)>>, <<Index(1), IndexRange(1, 2)>>,
     <<Component("b"), IndexRange(2, 2)>> } \X {TwoInts, Array(<<One, One, Zero>>)}) \cup
  ({ <<Component("b")>>, <<Component("c")>> } \X {Structure(<<One, Zero>>)}) \cup
  { <<<<Component("c")>>, Structure(<<One, Structure(<<Zero>>)>>)>>,
    <<<<Component("c"), Component("e")>>, Structure(<<Zero>>)>> }

Of(scope, name, path) == [scope |-> scope, name |-> name, path |-> path]
Own(path) == Of("association", "x", path)
Shared(path) == Of("domain", "x", path)
None == Of("association", "none", <<>>)
Read(items) == [kind |-> "read", items |-> items, values |-> <<>>]
WriteOf(items, values) == [kind |-> "write", items |-> items, values |-> values]

Mixed ==
  { Read(<<Shared(<<Component("d")>>), None, Own(<<Component("b")>>)>>),
    WriteOf(<<Own(<<Component("a")>>), None, Own(<<Component("b"), Index(1)>>)>>, <<One, One, One>>),
    WriteOf(<<Own(<<Component("a")>>), Own(<<Component("b")>>)>>, <<Leaf("bool", 1)>>),
    WriteOf(<<Own(<<>>)>>, <<MCInitial>>),
    WriteOf(<<Own(<<>>)>>, <<Structure(<<Zero, One>>)>>) }

MCRequests ==
  [a1 |-> Mixed \cup {WriteOf(<<Own(pw[1])>>, <<pw[2]>>) : pw \in Written},
   a2 |-> {WriteOf(<<Own(<<Component("a")>>)>>, <<One>>)}]

\* A read and a write of the shared variable.
SharedRequests == [a1 |-> {Read(<<Shared(<<>>)>>)}, a2 |-> {WriteOf(<<Shared(<<>>)>>, <<MCInitial>>)}]

=============================================================================
