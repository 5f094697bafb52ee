---- MODULE Planner ----
(***************************************************************************)
(* Gateway.ExecutePlanned (planner.go): an operation is cut into fetches,  *)
(* one per subgraph and selection set, and run depth first; what each      *)
(* fetch brings is merged into one tree, from which the response is shaped *)
(* by the original operation.  Every field is planned for itself, also     *)
(* where it repeats the response key of another.                           *)
(*                                                                         *)
(* A fetch <<m, s>> is the part of node m's selection set that subgraph s  *)
(* resolves; a root fetch when m is 0, and an entity fetch otherwise.      *)
(***************************************************************************)
EXTENDS FederatedQuery

VARIABLES
  phase,            \* "plan", "run", "done" or "rejected"
  todo,             \* the calls under way and to come, the next one first
  data,             \* the merged tree: positions to "value" or "null"
  added,            \* the injected keys in it: <<place, indices, key>>
  calls,            \* history: the calls of reference resolvers
  errors,           \* the places that pe.errors reports
  response          \* the shaped data

vars == <<op, answers, phase, todo, data, added, calls, errors, response>>

----------------------------------------------------------------------------
(* The plan.                                                               *)

\* The fetch whose selection a node belongs to.
FetchOf ==
  LET fetch[n \in Nodes] ==
        IF op[n].parent = 0 \/ Crosses(n) THEN <<op[n].parent, Home(n)>>
                                          ELSE fetch[op[n].parent]
  IN  fetch

\* The members of a set in an order.
Sorted(S, Before(_, _)) ==
  CHOOSE s \in [1..Cardinality(S) -> S] :
    \A i, j \in 1..Cardinality(S) : i < j => Before(s[i], s[j])

\* A field's flattens come before those of a later field, and a selection
\* set's own after those of its fields; fetches of one set as first seen.
FirstSeen(f) == Min({c \in Kids(f[1]) : Home(c) = f[2]})
Precedes(f, g) ==
  \/ f[1] = g[1] /\ FirstSeen(f) < FirstSeen(g)
  \/ f[1] # g[1] /\ g[1] \in Above(f[1])
  \/ f[1] < g[1] /\ f[1] \notin Above(g[1])

RootFetches == Sorted({<<0, Home(n)>> : n \in Kids(0)}, Precedes)

\* The entity fetches that follow a fetch: those on objects it selects.
Flattens(f) ==
  Sorted(UNION {{<<m, s>> : s \in Across(m)} :
                        m \in {n \in Nodes : FetchOf[n] = f}}, Precedes)

KeysOf(f) == Keys[f[2]][TypeOf(f[1])]

SelectedAnywhere(m) == {op[c].key : c \in Kids(m)}

\* The response keys that the subgraph of node m itself selects on it.
Selected(m) == {op[c].key : c \in {k \in Kids(m) : ~Crosses(k)}}

\* The key fields added to the selection set of node m.
Injected(m) == (UNION {KeysOf(<<m, s>>) : s \in Across(m)}) \ Selected(m)

Plannable ==
  \A m \in {n \in Nodes : Across(n) # {}} :
    /\ \A s \in Across(m) : TypeOf(m) \in DOMAIN Keys[s]
    /\ Injected(m) \subseteq Has[Home(m)][TypeOf(m)]

Init ==
  /\ op \in Operations
  /\ answers \in Faulty
  /\ phase = "plan"
  /\ todo = << >>
  /\ data = << >>
  /\ added = {}
  /\ calls = << >>
  /\ errors = {}
  /\ response = << >>

\* The calls of executeSelection and of applyFlatten.
Call(do, f, o) == [do |-> do, fetch |-> f, at |-> o]
Selections(f, objects) == [i \in DOMAIN objects |-> Call("select", f, objects[i])]
FlattensOf(f, o) == [i \in DOMAIN Flattens(f) |-> Call("flatten", Flattens(f)[i], o)]

Plan ==
  /\ phase = "plan"
  /\ Plannable
  /\ phase' = "run"
  /\ todo' = [i \in DOMAIN RootFetches |-> Call("select", RootFetches[i], Root)]
  /\ UNCHANGED <<op, answers, data, added, calls, errors, response>>

Reject ==
  /\ phase = "plan"
  /\ ~Plannable
  /\ phase' = "rejected"
  /\ UNCHANGED <<op, answers, todo, data, added, calls, errors, response>>

----------------------------------------------------------------------------
(* The execution of the plan.                                              *)

\* A directive leaves node c out of a fetch, or one above it in the fetch.
SkippedIn(f, c) == \E m \in Above(c) \ {0} : FetchOf[m] = f /\ op[m].skip

\* The nodes that the executor collects for a fetch, merged by place.
Collected(f) == {c \in Nodes : FetchOf[c] = f /\ ~SkippedIn(f, c)}

\* The positions that the executor completes for a fetch at an object.
Completes(f, o) ==
  {p \in Positions :
     /\ Below(o, p) /\ p # o
     /\ \E c \in Collected(f) : Place(c) = p[1]
     /\ \A q \in Between(o, p) : AnswerAt(q) = "ok"}

Completed(p) == IF AnswerAt(p) = "ok" THEN "value" ELSE "null"

\* The injected keys of the objects among them.
AddsKeys(f, new) ==
  UNION {{<<p[1], p[2], k>> : p \in {q \in ObjectsOf(m) \cap new : AnswerAt(q) = "ok"},
                              k \in Injected(m)} : m \in Collected(f)}

\* deepMerge puts the new list in the place of the one that is there.
Lost(new, p) == \E q \in new : q \notin ObjectsOf(q[1]) /\ Below(q, p)

\* A fetch's selection is executed and merged; its own flattens follow.
Select ==
  /\ todo # << >>
  /\ Head(todo).do = "select"
  /\ LET f == Head(todo).fetch
         o == Head(todo).at
         new == Completes(f, o)
         kept == {p \in DOMAIN data : ~Lost(new, p)}
     IN  /\ data' = [p \in new \cup kept |-> IF p \in new THEN Completed(p) ELSE data[p]]
         /\ added' = AddsKeys(f, new) \cup {x \in added : ~Lost(new, <<x[1], x[2]>>)}
         /\ errors' = errors \cup {p \in new : AnswerAt(p) = "error"}
         /\ todo' = FlattensOf(f, o) \o Tail(todo)
  /\ UNCHANGED <<op, answers, phase, calls, response>>

InTheWholeTree(m, o) == {p \in ObjectsOf(m) : p \in DOMAIN data /\ data[p] = "value"}

\* The objects found at a flatten's path.
AtPath(m, o) ==
  {p \in ObjectsOf(m) : Below(o, p) /\ p \in DOMAIN data /\ data[p] = "value"}

\* The tree holds key k at o because it was injected there.
Holds(o, k) == <<o[1], o[2], k>> \in added

\* The fields whose values an object of the tree holds under a response key.
HeldUnder(o, k) ==
  LET fetched == {c \in Places : /\ Place(op[c].parent) = o[1] /\ op[c].key = k
                                 /\ <<c, o[2]>> \in DOMAIN data}
  IN  IF fetched # {} THEN {op[c].field : c \in fetched} ELSE {x \in {k} : Holds(o, x)}

Earlier(p, q) ==
  \E j \in DOMAIN p[2] : /\ p[2][j] < q[2][j]
                         /\ SubSeq(p[2], 1, j - 1) = SubSeq(q[2], 1, j - 1)

\* Objects without a key in their map are passed over.
Represented(f, o) ==
  {p \in AtPath(f[1], o) : \A k \in KeysOf(f) : HeldUnder(p, k) # {}}

ResolvesToNil(f, p) == EntityAnswer(p, f[2]) # "error"

\* A representation with another field's value identifies no entity.
Resolves(f, p) ==
  /\ \A k \in KeysOf(f) : k \in HeldUnder(p, k)
  /\ EntityAnswer(p, f[2]) = "ok"

\* The reference resolver is called for each entity, or once for all.
Requests(f, targets) ==
  IF targets = << >> THEN << >>
  ELSE IF <<f[2], TypeOf(f[1])>> \in Batched
         THEN <<[fetch |-> f, objects |-> ToSet(targets)]>>
         ELSE [i \in DOMAIN targets |-> [fetch |-> f, objects |-> {targets[i]}]]

Flatten ==
  /\ todo # << >>
  /\ Head(todo).do = "flatten"
  /\ LET f == Head(todo).fetch
         targets == Sorted(Represented(f, Head(todo).at), Earlier)
         resolved == Sorted({p \in ToSet(targets) : Resolves(f, p)}, Earlier)
     IN  /\ calls' = calls \o Requests(f, targets)
         /\ errors' = errors \cup {<<p[1], p[2], f[2]>> : p \in
                                    {t \in ToSet(targets) : EntityAnswer(t, f[2]) = "error"}}
         /\ todo' = Selections(f, resolved) \o Tail(todo)
  /\ UNCHANGED <<op, answers, phase, data, added, response>>

----------------------------------------------------------------------------
(* The response.                                                           *)

\* What the merged object holds under the field's response key; a key that
\* was injected under another field's name is a stray value.
Shown(p) ==
  LET n == p[1]
  IN  IF p \in DOMAIN data THEN data[p]
      ELSE IF ~Holds(Parent(p), op[n].key) THEN "null"
      ELSE IF op[n].field = op[n].key THEN "value" ELSE "stray"

LastOfItsKey(n) ==
  \A m \in Above(n) \ {0} : \A c \in Kids(op[m].parent) : op[c].key = op[m].key => c <= m

\* Of the fields of one response key the last that no directive leaves out
\* is shaped, with its own selection alone.
Wins(n) ==
  \A m \in Above(n) \ {0} :
    /\ ~op[m].skip
    /\ \A c \in Kids(op[m].parent) : op[c].key = op[m].key /\ c > m => op[c].skip

Shape ==
  /\ phase = "run"
  /\ todo = << >>
  /\ phase' = "done"
  /\ response' =
       [p \in {q \in Positions : /\ \E n \in Nodes : Place(n) = q[1] /\ Wins(n)
                                /\ \A a \in Between(Root, q) : Shown(a) = "value"} |-> Shown(p)]
  /\ UNCHANGED <<op, answers, todo, data, added, calls, errors>>

Next == Plan \/ Reject \/ Select \/ Flatten \/ Shape
Spec == Init /\ [][Next]_vars

----------------------------------------------------------------------------
(* Properties.                                                             *)

\* What Gateway.Execute answers for the operation, and how far the planner is.
Execute == INSTANCE FederatedResponse WITH
  state <- CASE phase = "done" -> "answered" [] phase = "rejected" -> "refused"
             [] OTHER -> "pending",
  shown <- response,
  failed <- IF phase = "done" THEN errors ELSE {}

Direct == INSTANCE FederatedResponse WITH
  state <- CASE Unrepeated /\ phase = "done" -> "answered"
             [] Unrepeated /\ phase = "rejected" -> "refused" [] OTHER -> "pending",
  shown <- IF Unrepeated THEN response ELSE << >>,
  failed <- IF Unrepeated /\ phase = "done" THEN errors ELSE {}

\* A planned operation that repeats no response key answers what
\* Gateway.Execute answers for it, data and errors, whatever the subgraphs
\* answer (planner_test.go:65-90), and is rejected exactly when some entity
\* cannot be reached (planner.go:259, 340).
MatchesDirect == Direct!Spec

\* ExecutePlanned "is an alternative to Gateway.Execute" (planner.go:414), of
\* which its tests compare the data (planner_test.go:65-90).  Not where a
\* response key is repeated: shapeInto keeps the last field's selection alone
\* (planner.go:687).
AlternativeToExecute ==
  phase = "done" => response = Execute!Data

\* Also then nothing is shown that Gateway.Execute leaves out, and each value
\* is the one that it gives or null: what a skipped field fetched, or replaced
\* in the tree (planner.go:633), is not in the answer.
NothingInvented ==
  phase = "done" =>
    LET answer == Execute!Data
    IN  \A p \in DOMAIN response :
          p \in DOMAIN answer /\ response[p] \in {answer[p], "null"}

\* No fetch of the plan asks for an object twice, although flattens at several
\* depths walk the same tree and fields that repeat a response key make a
\* fetch each (planner.go:180-187, 525-602).
EachFetchAsksOnce ==
  \A i, j \in DOMAIN calls :
    calls[i].fetch = calls[j].fetch /\ calls[i].objects \cap calls[j].objects # {} => i = j

\* The parent fetch injects the key fields that representations are built
\* from (README.md:198): each object a flatten finds holds its own keys when
\* the flatten begins, unless a directive left the parent's selection out and
\* another field of the same response key brought the object.
KeysInjected ==
  todo # << >> /\ Head(todo).do = "flatten" /\ ~Skipped(Head(todo).fetch[1]) =>
    \A p \in AtPath(Head(todo).fetch[1], Head(todo).at) :
      \A k \in KeysOf(Head(todo).fetch) : HeldUnder(p, k) = {k}

----------------------------------------------------------------------------
(* The inductive invariants                                                *)

Fetches == {<<op[c].parent, Home(c)>> : c \in Nodes}
EntityFetches == UNION {{<<m, s>> : s \in Across(m)} : m \in Nodes}

Calls == [do : {"select", "flatten"}, fetch : Fetches, at : {Root} \cup Positions]
Requested ==
  {r \in [fetch : EntityFetches, objects : SUBSET Positions] :
     r.objects \subseteq ObjectsOf(r.fetch[1])}

\* Every variable that the order of the calls depends on stays in its range.
CallsTypeOK ==
  /\ op \in Operations
  /\ phase \in {"plan", "run", "done", "rejected"}
  /\ todo \in Seq(Calls)
  /\ \A i \in DOMAIN todo : todo[i].do = "flatten" => todo[i].fetch \in EntityFetches
  /\ calls \in Seq(Requested)
  /\ phase = "plan" => todo = << >> /\ calls = << >>

\* The fetches that lead to node m's objects.
Lineage(m) == {FetchOf[a] : a \in Above(m) \ {0}}

\* Call c, or one that it leads to, may ask fetch f for object p.
MayAsk(c, f, p) ==
  /\ Below(c.at, p)
  /\ (c.do = "flatten" /\ c.fetch = f) \/ c.fetch \in Lineage(f[1])

\* At most one call under way or to come may ask for an object, and none may
\* once it has been asked for.
AskedByOne ==
  \A f \in EntityFetches : \A p \in ObjectsOf(f[1]) :
    /\ \A i, j \in DOMAIN todo : MayAsk(todo[i], f, p) /\ MayAsk(todo[j], f, p) => i = j
    /\ \A i \in DOMAIN calls : \A j \in DOMAIN todo :
         calls[i].fetch = f /\ p \in calls[i].objects => ~MayAsk(todo[j], f, p)

CallsInv == CallsTypeOK /\ AskedByOne /\ EachFetchAsksOnce

\* The merged tree holds every field that an object's own subgraph resolves,
\* and the keys injected there.
TreeInv ==
  /\ DOMAIN data \subseteq Positions
  /\ \A p \in DOMAIN data : data[p] = "value" /\ p \in ObjectsOf(p[1]) =>
       /\ \A c \in Kids(p[1]) : ~Crosses(c) /\ ~op[c].skip => <<c, p[2]>> \in DOMAIN data
       /\ \A k \in Injected(p[1]) : Holds(p, k)
  /\ \A x \in added : x[3] \in Injected(x[1])
  /\ todo # << >> => Plannable

\* No response key is repeated, and where a representation needs a key, no field
\* is selected under that response key that is another one or that a directive
\* may leave out.
PlainKeys ==
  /\ Unrepeated
  /\ Plannable => \A f \in EntityFetches : \A c \in Kids(f[1]) :
       op[c].key \in KeysOf(f) => op[c].field = op[c].key /\ ~op[c].skip

\* Every fetch that leads to a position answers, and every value on the way.
Fetched(p) ==
  /\ ~Skipped(p[1])
  /\ \A q \in Between(Root, p) : AnswerAt(q) = "ok"
  /\ \A a \in Above(p[1]) \ {0} :
       Crosses(a) => EntityAnswer(Parent(<<a, p[2]>>), Home(a)) = "ok"

Present(o) == Fetched(o) /\ AnswerAt(o) = "ok"

\* Fetch f is to be made at o.
Begun(f, o) ==
  IF f[1] = 0 THEN o = Root
  ELSE o \in ObjectsOf(f[1]) /\ Present(o) /\ EntityAnswer(o, f[2]) = "ok"

\* Call c, or one that it leads to, may bring the value at p.
MayBring(c, p) == Below(c.at, p) /\ c.fetch \in Lineage(p[1])

\* A fetch is to be made at an object, and a flatten follows its fetch.
Due(c, d) ==
  IF c.do = "select" THEN Begun(c.fetch, c.at)
  ELSE LET f == FetchOf[c.fetch[1]]
       IN  /\ Begun(f, c.at)
           /\ \A p \in Positions :
                Fetched(p) /\ FetchOf[p[1]] = f /\ Below(c.at, p) => p \in DOMAIN d

\* At most one call may bring a value, and none what is there: no list of the
\* tree is replaced.
Fresh(t, d) ==
  \A p \in Positions :
    /\ \A i, j \in DOMAIN t : MayBring(t[i], p) /\ MayBring(t[j], p) => i = j
    /\ p \in DOMAIN d => \A i \in DOMAIN t : ~MayBring(t[i], p)

InTime(t, d) == \A i \in DOMAIN t : Due(t[i], d)

\* Tree d and errors e are of what was fetched.
Merged(d, e) ==
  /\ \A p \in DOMAIN d :
       Fetched(p) /\ d[p] = Completed(p) /\ (AnswerAt(p) = "error" => p \in e)
  /\ \A x \in e :
       \/ x \in DOMAIN d /\ AnswerAt(x) = "error"
       \/ x \in EntityPlaces /\ AnswerAt(x) = "error" /\ Present(<<x[1], x[2]>>)

\* Calls t bring what is not in them.
Rest(t, d, e) ==
  /\ \A p \in Positions : Fetched(p) =>
       p \in DOMAIN d \/ \E i \in DOMAIN t : MayBring(t[i], p)
  /\ \A x \in EntityPlaces : AnswerAt(x) = "error" /\ Present(<<x[1], x[2]>>) =>
       x \in e \/ \E i \in DOMAIN t : MayAsk(t[i], <<x[1], x[3]>>, <<x[1], x[2]>>)

MergeInv ==
  /\ answers \in Faulty
  /\ phase = "plan" => data = << >> /\ errors = {}
  /\ phase = "run" => Plannable /\ Rest(todo, data, errors)
  /\ Fresh(todo, data)
  /\ InTime(todo, data)
  /\ Merged(data, errors)

\* A field of an object of another subgraph that the object carries.
CarriedAcross(n) ==
  Crosses(n) /\ op[n].field \in Has[Home(op[n].parent)][TypeOf(op[n].parent)]

\* Where the planner and direct execution agree: no response key is repeated, keys
\* are plain fields that the objects carry, and each entity is asked for something
\* else as well.
Comparable ==
  /\ PlainKeys
  /\ Plannable =>
       /\ \A f \in EntityFetches :
            /\ KeysOf(f) \cap Selected(f[1]) \subseteq Has[Home(f[1])][TypeOf(f[1])]
            /\ \E c \in Kids(f[1]) : /\ Crosses(c) /\ Home(c) = f[2]
                                     /\ ~CarriedAcross(c) /\ ~op[c].skip
       /\ \A c \in Nodes : CarriedAcross(c) =>
            /\ op[c].key \in Injected(op[c].parent) /\ op[c].field = op[c].key
            /\ IsKey(c) /\ Kids(c) = {}
====
