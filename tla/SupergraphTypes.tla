---- MODULE SupergraphTypes ----
(***************************************************************************)
(* The collection of a supergraph's types: which of a name's objects, the  *)
(* merged one or a subgraph's own, the schema ends up with.                *)
(***************************************************************************)
EXTENDS TypeCollection, MergedTypes

CONSTANT Parts      \* Parts[s]: the subgraphs that a supergraph s is made of

IsComposed(s) == <<Query, Merged>> \in Pending(System[s].roots)
InSupergraph == IsComposed(schema)

IsCopy(t) == t[2] # Merged /\ KindOf[t[1]] = "object"
IsAbstract(t) == KindOf[t[1]] \in {"interface", "union"}

\* A schema whose query type is merged is composed of its parts; the
\* introspection types are no subgraph's and refer to built-in ones only.
ASSUME SupergraphAssumption ==
  /\ TypeObjects \subseteq Types
  /\ \A t \in BuiltIns : ~IsCopy(t)
  /\ \A s \in Schemas : \A t \in Types \ TypeObjects : References(s, t) \subseteq BuiltIns
  /\ \A s \in Schemas : IsComposed(s) =>
       LET g == Composed(Parts[s])
       IN  /\ Parts[s] \in [1..N -> Subgraph]
           /\ System[s].roots = g.roots
           /\ \A t \in TypeObjects :
                System[s].listed[t] = g.listed[t] /\ System[s].fields[t] = g.fields[t]

\* An interface's field, a union or a subgraph's own object leads to t.
LedToByCopies(t) == \E u \in Kept : t \in Refs(u) /\ (IsAbstract(u) \/ IsCopy(u))

\* A subgraph's own object takes a name in the supergraph, and hides the object
\* merged from all subgraphs, only where an interface's field or a union leads
\* to it, directly or through such an object: compose rewrites all references
\* of the merged objects, inside lists and non-nulls too (gateway.go:148-163).
HiddenByAbstractOnly ==
  pc = "done" /\ InSupergraph => \A t \in Kept : IsCopy(t) => LedToByCopies(t)

----------------------------------------------------------------------------
(* The inductive invariant                                                 *)

\* Of what is kept or still to be visited, each copy is led to so.
CopiesLedTo ==
  InSupergraph =>
    /\ \A t \in Kept : IsCopy(t) => LedToByCopies(t)
    /\ \A i \in DOMAIN calls : \A t \in Pending(calls[i]) : IsCopy(t) => LedToByCopies(t)
====
