---- MODULE MergedTypes ----
(***************************************************************************)
(* The type system that Gateway.compose hands to NewSchema                 *)
(* (gateway.go:85-163, 225-249): a copy of each object type, merged from   *)
(* the subgraphs' types of that name, whose references are rewritten, and  *)
(* the first subgraph's enums and interfaces.  A type is a pair of its     *)
(* name and its place: a subgraph, or 0 for what is merged or shared.      *)
(***************************************************************************)
EXTENDS Naturals, Sequences, Functions

CONSTANTS
  N,                \* the number of subgraphs
  TypeNames,
  Fields,           \* names of fields
  KindOf,           \* the kind of the types of a name
  Query,            \* the name of the query type
  None              \* no field

ASSUME MergedTypesAssumption ==
  /\ N \in Nat \ {0}
  /\ KindOf \in [TypeNames -> {"object", "interface", "union", "enum", "scalar"}]
  /\ None \notin TypeNames

\* A subgraph's types: what each lists (an object's interfaces, a union's
\* members) and what its fields return, lists and non-nulls seen through.
Subgraph ==
  {g \in [listed : [TypeNames -> Seq(TypeNames)],
          fields : [TypeNames -> [Fields -> TypeNames \cup {None}]]] :
     \A n \in TypeNames :
       /\ KindOf[n] = "object" =>
            \A i \in DOMAIN g.listed[n] : KindOf[g.listed[n][i]] = "interface"
       /\ KindOf[n] \in {"enum", "scalar"} =>
            g.listed[n] = << >> /\ \A f \in Fields : g.fields[n][f] = None}

Merged == 0
Named(kind) == {n \in TypeNames : KindOf[n] = kind}
MergedObjects == Named("object")

\* The scalars are the same objects in every subgraph.
In(n, s) == <<n, IF KindOf[n] = "scalar" THEN Merged ELSE s>>

TypeObjects == {In(n, s) : n \in TypeNames, s \in 1..N} \cup {<<n, Merged>> : n \in MergedObjects}

KeepsReference(t) == t
RewriteTypeRef(t) == IF KindOf[t[1]] = "object" THEN <<t[1], Merged>> ELSE t

\* The subgraph whose definition of a field the merged type holds: the first
\* that declares it.  External fields are Composition's subject.
Definer(subgraphs, n, f) ==
  CHOOSE s \in 1..N : /\ subgraphs[s].fields[n][f] # None
                      /\ \A r \in 1..(s - 1) : subgraphs[r].fields[n][f] = None

Declared(subgraphs, n) == {f \in Fields : \E s \in 1..N : subgraphs[s].fields[n][f] # None}

FieldsOf(subgraphs, t) ==
  IF t[2] = Merged THEN Declared(subgraphs, t[1])
                   ELSE {f \in Fields : subgraphs[t[2]].fields[t[1]][f] # None}

FieldType(subgraphs, t, f) ==
  IF t[2] = Merged
  THEN LET s == Definer(subgraphs, t[1], f)
       IN  RewriteTypeRef(In(subgraphs[s].fields[t[1]][f], s))
  ELSE In(subgraphs[t[2]].fields[t[1]][f], t[2])

\* What the objects list stays in their subgraph; a merged one has the list
\* of the first.
ListedIn(subgraphs, n, s) ==
  [i \in DOMAIN subgraphs[s].listed[n] |-> In(subgraphs[s].listed[n][i], s)]

TypesOf(subgraphs, roots) ==
  [roots |-> roots,
   listed |-> [t \in TypeObjects |-> ListedIn(subgraphs, t[1], IF t[2] = Merged THEN 1 ELSE t[2])],
   fields |-> [t \in TypeObjects |->
                 {FieldType(subgraphs, t, f) : f \in FieldsOf(subgraphs, t)}]]

\* A schema of a subgraph's types, and the supergraph's: the query type first,
\* then the other objects, the enums and the interfaces.  A gateway's subgraphs
\* list all their types, so that each is in the map compose reads.
OwnTypes(subgraphs, s) == TypesOf(subgraphs, << {In(Query, s)} >>)

Composed(subgraphs) ==
  TypesOf(subgraphs,
    << {<<Query, Merged>>},
       {<<n, Merged>> : n \in MergedObjects \ {Query}},
       {In(n, 1) : n \in Named("enum")},
       {In(n, 1) : n \in Named("interface")} >>)
====
