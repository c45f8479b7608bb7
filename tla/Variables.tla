------------------------------ MODULE Variables ------------------------------
(***************************************************************************)
(* Read and Write on the server: the associations handle one request each  *)
(* at a time, item after item, under the read lock of the server, which    *)
(* they share.  The callbacks of a variable are the application's; the     *)
(* model's application keeps a value in memory and may refuse an access.   *)
(*                                                                         *)
(* A request names variables, or a named variable list that is resolved to *)
(* its members when the request starts (one that does not exist refuses    *)
(* the request as a whole, and is left out).  An item may select a part of *)
(* its variable; a write to a part reads, patches and writes the whole.    *)
(***************************************************************************)
EXTENDS AltAccess

CONSTANTS Assocs,    \* associations
          Requests,  \* per association: [kind, items, values], what its client may ask
          Paths,     \* selector chains of interest
          Type,      \* TypeSpec of every variable
          Initial,   \* value of every variable at first
          Names      \* names of variables, which have both callbacks

VARIABLES
  value,    \* the application: variable -> value
  hp, req,  \* per association: control point and request of the handler
  current,  \* per association: the value a partial write has read
  results   \* per association: results so far

vars == <<value, hp, req, current, results>>

\* lookupVariable: the shared variables, and the association's own.
Key_Mutant(a, item) == <<item.scope, item.name>>
Key(a, item) == IF item.scope = "association" THEN <<a, item.name>> ELSE <<item.scope, item.name>>

Keys == (Assocs \cup {"association", "domain"}) \X Names
NoRequest == [kind |-> "none", items |-> <<>>, values |-> <<>>]

\* The item a handler is at, and its variable.
I(a) == Len(results[a]) + 1
Item(a) == req[a].items[I(a)]
Var(a) == Key(a, Item(a))
Pending(a) == hp[a] = "item" /\ I(a) <= Len(req[a].items)

\* Type correctness of handlers: no more results than items, and a value read
\* for every partial write.
TypeOK ==
  /\ DOMAIN value = Keys
  /\ hp \in [Assocs -> {"idle", "item", "reading", "writing"}]
  /\ \A a \in Assocs :
       /\ req[a] \in Requests[a] \cup {NoRequest}
       /\ Len(results[a]) <= Len(req[a].items)
       /\ hp[a] = "writing" /\ Item(a).path # <<>> => current[a] # Nil

Init ==
  /\ value = [k \in Keys |-> Initial]
  /\ hp = [a \in Assocs |-> "idle"]
  /\ req = [a \in Assocs |-> NoRequest]
  /\ current = [a \in Assocs |-> Nil]
  /\ results = [a \in Assocs |-> <<>>]

-----------------------------------------------------------------------------

\* dispatch: handleRead or handleWrite starts.
Dispatch(a, r) ==
  /\ hp[a] = "idle"
  /\ hp' = [hp EXCEPT ![a] = "item"]
  /\ req' = [req EXCEPT ![a] = r]
  /\ results' = [results EXCEPT ![a] = <<>>]
  /\ UNCHANGED <<value, current>>

\* The result of an item; the next one follows.
Answers(a, x) ==
  /\ results' = [results EXCEPT ![a] = Append(@, x)]
  /\ current' = [current EXCEPT ![a] = Nil]

Error == [kind |-> "error"]
Data(x) == [kind |-> "data", val |-> x]
Success == [kind |-> "success"]

\* An item that calls nothing: no such variable or none with the callback,
\* or no value for it.
MissingItem(a) ==
  /\ Pending(a)
  /\ \/ Item(a).name \notin Names
     \/ req[a].kind = "write" /\ I(a) > Len(req[a].values)
  /\ Answers(a, Error)
  /\ UNCHANGED <<value, hp, req>>

Served(a) ==
  /\ Pending(a)
  /\ Item(a).name \in Names
  /\ req[a].kind = "write" => I(a) <= Len(req[a].values)

\* The read callback is called: by a read, and by a write to a part.
ReadBegins(a) ==
  /\ Served(a)
  /\ req[a].kind = "read" \/ Item(a).path # <<>>
  /\ current[a] = Nil
  /\ hp' = [hp EXCEPT ![a] = "reading"]
  /\ UNCHANGED <<value, req, current, results>>

\* It returns; a read answers with the part it selects, a write goes on.
ReadReturns(a) ==
  LET part == Select(value[Var(a)], Type, Item(a).path)
  IN  /\ hp[a] = "reading"
      /\ hp' = [hp EXCEPT ![a] = "item"]
      /\ \/ req[a].kind = "read" /\ Answers(a, IF part = Nil THEN Error ELSE Data(part))
         \/ /\ req[a].kind = "write"
            /\ current' = [current EXCEPT ![a] = value[Var(a)]]
            /\ UNCHANGED results
      /\ UNCHANGED <<value, req>>

\* It fails, or returns what cannot be encoded: an error for this item only.
ReadFails(a) ==
  /\ hp[a] = "reading"
  /\ hp' = [hp EXCEPT ![a] = "item"]
  /\ Answers(a, Error)
  /\ UNCHANGED <<value, req>>

Patched(a) == Patch(current[a], Type, Item(a).path, req[a].values[I(a)])

\* The write callback is called, unless the patch does not apply.
WriteBegins(a) ==
  /\ Served(a) /\ req[a].kind = "write"
  /\ Item(a).path # <<>> => current[a] # Nil
  /\ \/ Patched(a) # Nil /\ hp' = [hp EXCEPT ![a] = "writing"] /\ UNCHANGED <<current, results>>
     \/ Patched(a) = Nil /\ Answers(a, Error) /\ UNCHANGED hp
  /\ UNCHANGED <<value, req>>

\* It returns: the application has the new value.
WriteReturns(a) ==
  LET p == Patched(a)
  IN  /\ hp[a] = "writing"
      /\ hp' = [hp EXCEPT ![a] = "item"]
      /\ value' = [value EXCEPT ![Var(a)] = p]
      /\ Answers(a, Success)
      /\ UNCHANGED req

WriteFails(a) ==
  /\ hp[a] = "writing"
  /\ hp' = [hp EXCEPT ![a] = "item"]
  /\ Answers(a, Error)
  /\ UNCHANGED <<value, req>>

\* The answer is sent, and the next request can come.
Answerable(a) == hp[a] = "item" /\ I(a) > Len(req[a].items)

Answer(a) ==
  /\ Answerable(a)
  /\ hp' = [hp EXCEPT ![a] = "idle"]
  /\ req' = [req EXCEPT ![a] = NoRequest]
  /\ results' = [results EXCEPT ![a] = <<>>]
  /\ UNCHANGED <<value, current>>

-----------------------------------------------------------------------------

Next ==
  \E a \in Assocs :
    \/ \E r \in Requests[a] : Dispatch(a, r)
    \/ MissingItem(a) \/ ReadBegins(a) \/ ReadReturns(a) \/ ReadFails(a)
    \/ WriteBegins(a) \/ WriteReturns(a) \/ WriteFails(a) \/ Answer(a)

Spec == Init /\ [][Next]_vars

-----------------------------------------------------------------------------

\* An answer has one result per item, in the order of the items: data for the
\* items of a read, success or an error for those of a write, and an error
\* where there is no variable, although other items fail.
Answered ==
  [][\A a \in Assocs : Answer(a) =>
       /\ Len(results[a]) = Len(req[a].items)
       /\ \A i \in DOMAIN results[a] :
            /\ results[a][i].kind = "success" => req[a].kind = "write" /\ i <= Len(req[a].values)
            /\ results[a][i].kind = "data" => req[a].kind = "read"
            /\ req[a].items[i].name \notin Names => results[a][i] = Error]_vars

\* A read along the path of an accepted write returns what was written.
ReadBack ==
  [][\A a \in Assocs : WriteReturns(a) =>
       Select(value'[Var(a)], Type, Item(a).path) = req[a].values[I(a)]]_vars

\* The elements that a selector names in a container of the type, from the
\* names and the order of the type alone.
Positions(t, sel) ==
  CASE sel.kind = "component" /\ t.t = "structure" -> {i \in DOMAIN t.names : t.names[i] = sel.name}
    [] sel.kind = "index" -> {sel.i + 1}
    [] sel.kind = "range" -> sel.low + 1 .. sel.low + sel.n
    [] OTHER -> {}

\* The type of an element.
Below(t, i) ==
  CASE t.t = "array" -> t.elem
    [] t.t = "structure" /\ i \in DOMAIN t.es -> t.es[i]
    [] OTHER -> Nil

\* The types of the elements that both paths name, level after level.
Common(t, p, q) ==
  LET m == IF Len(p) <= Len(q) THEN Len(p) ELSE Len(q)
      common[k \in 0 .. m] ==
        IF k = 0 THEN {t}
        ELSE UNION {{Below(u, i) : i \in Positions(u, p[k]) \cap Positions(u, q[k])} :
                    u \in common[k - 1]}
  IN  common

\* Two paths name parts that overlap: the same elements at every level that
\* both have, or down to a range, after which an index counts from its start.
Overlap(t, p, q) ==
  \E k \in (0 .. Len(p)) \cap (0 .. Len(q)) :
    /\ Common(t, p, q)[k] # {}
    /\ \/ k = Len(p) \/ k = Len(q)
       \/ k > 0 /\ "range" \in {p[k].kind, q[k].kind}

\* An accepted write changes only what its path names, by component, index or
\* range, of its own variable: it takes back no earlier write to another part
\* although it writes the whole, and it reaches no other association.  (Two
\* associations that write parts of one shared variable can lose a write.)
OthersKept ==
  [][\A a \in Assocs : WriteReturns(a) =>
       \A k \in Keys, q \in Paths :
         k[1] # "domain" /\ (k = Var(a) => ~Overlap(Type, Item(a).path, q)) =>
           Select(value'[k], Type, q) = Select(value[k], Type, q)]_vars

\* OWNERSHIP.md: "the server ensures no concurrent mutation occurs during the
\* read handler call": no write callback of the same variable overlaps it.
NoWriteDuringRead ==
  \A a, b \in Assocs :
    hp[a] = "reading" /\ req[a].kind = "read" /\ hp[b] = "writing" => Var(a) # Var(b)

\* The type that a written value is compared with: none for a whole variable,
\* for a range, and where the value has not the shape of its type any more.
CheckedType(val, p) ==
  IF p = <<>> \/ p[Len(p)].kind = "range" THEN Nil ELSE Parts(val, Type, p)[Len(p)].ts

\* What could be read at first stays readable, whatever is written to it or
\* around it, except that ShallowCompatible looks one level deep: a part is
\* lost only to a write of its own variable, and only when what was written
\* is compared with no type or the part lies two levels or more below it.
\* (For a variable that two associations write, see OthersKept.)
PathsKept ==
  [][\A a \in Assocs : WriteReturns(a) =>
       \A k \in Keys, q \in Paths :
         /\ k[1] # "domain"
         /\ Select(Initial, Type, q) # Nil
         /\ Select(value[k], Type, q) # Nil
         /\ Select(value'[k], Type, q) = Nil
         => /\ k = Var(a)
            /\ \/ CheckedType(current[a], Item(a).path) = Nil
               \/ Len(Item(a).path) + 1 < Len(q)]_vars

=============================================================================
