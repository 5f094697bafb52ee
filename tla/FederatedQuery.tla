---- MODULE FederatedQuery ----
(***************************************************************************)
(* An operation over a composed supergraph and what the subgraphs' code    *)
(* answers: the part that Gateway.Execute and the query planner share.     *)
(*                                                                         *)
(* A node is a field of the operation as it is written, after its          *)
(* fragments are expanded; nodes are numbered in document order, and 0 is  *)
(* the operation.  Fields may repeat a response key.  A response has one   *)
(* place for them, which has the number of the first.  A position <<n, i>> *)
(* is a value at place n of the response, where i picks an item of each    *)
(* list around it; the value of a list field itself has one index less     *)
(* than its items.                                                         *)
(***************************************************************************)
EXTENDS Naturals, SequencesExt

CONSTANTS
  Owner,            \* Owner[t][f]: the subgraph that owns field f of type t
  Keys,             \* Keys[s][t]: the key fields of entity t of subgraph s
  Has,              \* Has[s][t]: the key fields that objects of s carry
  Batched,          \* the <<s, t>> whose entities have a BatchResolver
  Operations,       \* the operations a client may send
  Items,            \* bound: how many items a list has
  MaxFaults         \* bound: how many answers are not "ok"

\* The nodes above each node of an operation, and itself.
Ancestors(o) ==
  LET up[n \in 0..Len(o)] == IF n = 0 THEN {0} ELSE {n} \cup up[o[n].parent]
  IN  up

\* The place of a node's parent in the response.
ParentPlace(o, n) == IF o[n].parent = 0 THEN 0 ELSE o[o[n].parent].place

\* A field of a place that several nodes name holds a key only under its name.
KeyNames == UNION {UNION {Has[s][t] : t \in DOMAIN Has[s]} : s \in DOMAIN Has}

\* In document order a field's parent is the field before it or lies above that.
\* Fields that repeat a response key are of one field (GraphQL's rule for fields
\* that merge, which Validate leaves to the client).
ASSUME QueryAssumption ==
  /\ Items \in Nat
  /\ \A o \in Operations : \A n \in DOMAIN o :
       o[n].parent \in 0..(n - 1) /\ o[n].parent \in Ancestors(o)[n - 1]
  /\ \A o \in Operations : o \in Seq(Range(o))
  /\ \A o \in Operations : \A m, n \in DOMAIN o :
       /\ o[n].place \in 1..n /\ o[o[n].place].place = o[n].place
       /\ o[m].place = o[n].place <=>
            o[m].key = o[n].key /\ ParentPlace(o, m) = ParentPlace(o, n)
       /\ o[m].place = o[n].place =>
            o[m].field = o[n].field /\ o[m].type = o[n].type /\ o[m].list = o[n].list
       /\ o[m].place = n /\ m # n => \A c \in DOMAIN o :
            ParentPlace(o, c) = n /\ o[c].key \in KeyNames => o[c].field = o[c].key

VARIABLES
  op,               \* the operation: a sequence of nodes
  answers           \* what user code answers, where it is not "ok"

Nodes == 1..Len(op)
Root == <<0, << >> >>

Above(n) == Ancestors(op)[n]

Place(n) == IF n = 0 THEN 0 ELSE op[n].place
Places == {n \in Nodes : Place(n) = n}

\* No two fields of one object have the same response key.
Unrepeated == Places = Nodes

Kids(m) == {c \in Nodes : op[c].parent = m}
TypeOf(n) == IF n = 0 THEN "Query" ELSE op[n].type

\* The subgraph that resolves a node.
Home(n) == Owner[TypeOf(op[n].parent)][op[n].field]

\* A field of an object that another subgraph resolved.
Crosses(n) == op[n].parent # 0 /\ Home(n) # Home(op[n].parent)

\* The subgraphs that own fields selected on the objects of node m.
Across(m) == {Home(c) : c \in {k \in Kids(m) : Crosses(k)}}

\* Each is asked for an entity, by key fields that the object carries.
Federated ==
  \A n \in Nodes : Crosses(n) =>
    LET m == op[n].parent
    IN  /\ TypeOf(m) \in DOMAIN Keys[Home(n)]
        /\ Keys[Home(n)][TypeOf(m)] \subseteq Has[Home(m)][TypeOf(m)]

\* @skip or @include leaves the node out, or one above it.
Skipped(n) == \E m \in Above(n) \ {0} : op[m].skip

\* Every field of the operation that would have the place is left out.
LeftOut(n) == \A c \in Nodes : Place(c) = n => Skipped(c)

----------------------------------------------------------------------------

Lists(n) == Cardinality({m \in Above(n) \ {0} : op[m].list})

Indices(n) ==
  UNION {[1..k -> 1..Items] :
           k \in IF op[n].list THEN {Lists(n) - 1, Lists(n)} ELSE {Lists(n)}}

Positions == UNION {{<<n, i>> : i \in Indices(n)} : n \in Places}

\* The values of node m that are objects.
ObjectsOf(m) == {p \in Positions : p[1] = Place(m) /\ Len(p[2]) = Lists(p[1])}

\* q is p or lies below it.
Below(p, q) == p[1] \in {Place(n) : n \in Above(q[1])} /\ IsPrefix(p[2], q[2])

\* The positions strictly between an object and a position below it.
Between(o, p) == {q \in Positions : Below(o, q) /\ Below(q, p) /\ q \notin {o, p}}

\* The object that the value at p is a field of.
Parent(p) ==
  LET m == Place(op[p[1]].parent)
  IN  IF m = 0 THEN Root ELSE <<m, SubSeq(p[2], 1, Lists(m))>>

----------------------------------------------------------------------------
(* User code: the resolver or the value of a subgraph's field at each      *)
(* position, and each subgraph's reference resolver at each object.        *)

IsKey(n) == \E s \in DOMAIN Has : \E t \in DOMAIN Has[s] : op[n].field \in Has[s][t]

\* Keys are never null: they identify the object.
FieldPlaces == {p \in Positions : ~IsKey(p[1])}
EntityPlaces ==
  UNION {{<<o[1], o[2], s>> : o \in ObjectsOf(m), s \in Across(m)} : m \in Nodes}

\* A BatchResolver has no error for one entity: it answers nil.
FaultsAt(x) ==
  IF Len(x) = 3 /\ <<x[3], TypeOf(x[1])>> \in Batched THEN {"null"} ELSE {"null", "error"}

FaultyPlaces ==
  {{}} \cup {ToSet(t) : t \in [1..MaxFaults -> FieldPlaces \cup EntityPlaces]}

Faulty ==
  {a \in UNION {[D -> {"null", "error"}] : D \in FaultyPlaces} :
     \A x \in DOMAIN a : a[x] \in FaultsAt(x)}

AnswerAt(x) == IF x \in DOMAIN answers THEN answers[x] ELSE "ok"
EntityAnswer(o, s) == AnswerAt(<<o[1], o[2], s>>)
====
