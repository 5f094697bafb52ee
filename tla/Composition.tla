---- MODULE Composition ----
(***************************************************************************)
(* Gateway.compose (gateway.go:84-253): subgraph by subgraph in their      *)
(* order, type by type and field by field in the orders in which Go visits *)
(* the maps, the schemas are merged; then the merged schema is validated,  *)
(* its fields are given resolvers and its root types are found.            *)
(***************************************************************************)
EXTENDS Subgraphs

VARIABLES
  phase,            \* "merge", "validate", "wire", "cycles", "roots",
                    \* "accepted" or "rejected"
  current,          \* the subgraph being merged
  types,            \* its types that the range has not visited yet
  merging,          \* the type whose fields are being merged, a set of <= 1
  fields,           \* its fields that the range has not visited yet
  definition,       \* mergedObjects: whose definition a field takes, or 0
  owner,            \* fieldOwner: the subgraph that resolves a field, or 0
  resolver,         \* "nil", "own" (the definition's), "entity" (the owner's
                    \* reference resolver) or "root" (wireRootResolvers')
  queryType, mutationType

vars == <<subgraphs, phase, current, types, merging, fields, definition,
          owner, resolver, queryType, mutationType>>

everywhere(x) == [t \in Types |-> [f \in Fields |-> x]]

Init ==
  /\ subgraphs \in Gateways
  /\ phase = "merge"
  /\ current = 1
  /\ types = TypesOf(1)
  /\ merging = {}
  /\ fields = {}
  /\ definition = everywhere(0)
  /\ owner = everywhere(0)
  /\ resolver = everywhere("nil")
  /\ queryType = None
  /\ mutationType = None

----------------------------------------------------------------------------
(* Phase 1: field ownership and the merged types.                          *)

MergeType(t) ==
  /\ phase = "merge"
  /\ merging = {}
  /\ t \in types
  /\ types' = types \ {t}
  /\ merging' = {t}
  /\ fields' = FieldsOf(current, t)
  /\ UNCHANGED <<subgraphs, phase, current, definition, owner, resolver,
                 queryType, mutationType>>

IsPlaceholder(t, f) ==
  definition[t][f] # 0 /\ ~Owns(definition[t][f], t, f)

\* An external field is added only where there is none; a field of the
\* subgraph's own wins over a placeholder.
TakesFirstDeclared(t, f) == definition[t][f] = 0
Takes(t, f) ==
  \/ definition[t][f] = 0
  \/ IsPlaceholder(t, f) /\ Owns(current, t, f)

BecomesOwner(t, f) == Owns(current, t, f) /\ owner[t][f] = 0

Defined(t, f) == [definition EXCEPT ![t][f] = current]

FieldsAfter(f) == fields \ {f}

MergeField(t, f) ==
  /\ phase = "merge"
  /\ t \in merging
  /\ f \in fields
  /\ fields' = FieldsAfter(f)
  /\ definition' = IF Takes(t, f) THEN Defined(t, f) ELSE definition
  /\ owner' = IF BecomesOwner(t, f) THEN [owner EXCEPT ![t][f] = current]
              ELSE owner
  /\ UNCHANGED <<subgraphs, phase, current, types, merging, resolver,
                 queryType, mutationType>>

TypeMerged ==
  /\ phase = "merge"
  /\ merging # {}
  /\ fields = {}
  /\ merging' = {}
  /\ UNCHANGED <<subgraphs, phase, current, types, fields, definition, owner,
                 resolver, queryType, mutationType>>

SubgraphMerged ==
  /\ phase = "merge"
  /\ merging = {}
  /\ types = {}
  /\ \/ /\ current < N
        /\ current' = current + 1
        /\ types' = TypesOf(current + 1)
        /\ UNCHANGED phase
     \/ /\ current = N
        /\ phase' = "validate"
        /\ UNCHANGED <<current, types>>
  /\ UNCHANGED <<subgraphs, merging, fields, definition, owner, resolver,
                 queryType, mutationType>>

----------------------------------------------------------------------------

\* Phase 2b, with the resolvers that the definitions carry over from phase 2.
Carried(t, f) ==
  IF definition[t][f] # 0 /\ DefinitionIn(definition, t, f).resolve
  THEN "own" ELSE "nil"

Validate ==
  /\ phase = "validate"
  /\ resolver' = [t \in Types |-> [f \in Fields |-> Carried(t, f)]]
  /\ phase' = IF MetadataKnown(definition) THEN "wire" ELSE "rejected"
  /\ UNCHANGED <<subgraphs, current, types, merging, fields, definition,
                 owner, queryType, mutationType>>

\* Phase 3: a field of an entity that its owner resolves.
CrossesEntity(t, f) ==
  owner[t][f] # 0 /\ t \in subgraphs[owner[t][f]].entities

Wire ==
  /\ phase = "wire"
  /\ resolver' = [t \in Types |-> [f \in Fields |->
                    IF CrossesEntity(t, f) THEN "entity" ELSE resolver[t][f]]]
  /\ phase' = "cycles"
  /\ UNCHANGED <<subgraphs, current, types, merging, fields, definition,
                 owner, queryType, mutationType>>

\* Phase 4: see EntityCycles for the search.
DetectCycles ==
  /\ phase = "cycles"
  /\ phase' = IF EntitiesAcyclic(definition) THEN "roots" ELSE "rejected"
  /\ UNCHANGED <<subgraphs, current, types, merging, fields, definition,
                 owner, resolver, queryType, mutationType>>

\* Phase 5: the last subgraph's query type, the last mutation type there is.
LastQuery == subgraphs[N].query

WithMutation == {s \in 1..N : subgraphs[s].mutation # None}

LastMutation ==
  IF WithMutation = {} THEN None
  ELSE subgraphs[CHOOSE s \in WithMutation : \A r \in WithMutation : r <= s].mutation

\* wireRootResolvers: the resolver of the owner's root type.
WiresFrom(root, t, f) ==
  /\ root # None
  /\ Declares(owner[t][f], root, f)
  /\ subgraphs[owner[t][f]].fields[root][f].resolve

RootWired(t, f) ==
  /\ owner[t][f] # 0
  /\ resolver[t][f] = "nil"
  /\ \/ t = LastQuery /\ WiresFrom(subgraphs[owner[t][f]].query, t, f)
     \/ t = LastMutation /\ WiresFrom(subgraphs[owner[t][f]].mutation, t, f)

BuildRoots ==
  /\ phase = "roots"
  /\ queryType' = LastQuery
  /\ mutationType' = LastMutation
  /\ resolver' = [t \in Types |-> [f \in Fields |->
                    IF RootWired(t, f) THEN "root" ELSE resolver[t][f]]]
  /\ phase' = "accepted"
  /\ UNCHANGED <<subgraphs, current, types, merging, fields, definition, owner>>

Next ==
  \/ \E t \in Types : MergeType(t) \/ \E f \in Fields : MergeField(t, f)
  \/ TypeMerged
  \/ SubgraphMerged
  \/ Validate
  \/ Wire
  \/ DetectCycles
  \/ BuildRoots

Spec == Init /\ [][Next]_vars

----------------------------------------------------------------------------

\* Every variable of compose stays in its range (gateway.go:85-250).
TypeOK ==
  /\ subgraphs \in Gateways
  /\ phase \in {"merge", "validate", "wire", "cycles", "roots", "accepted", "rejected"}
  /\ current \in 1..N
  /\ types \in SUBSET Types
  /\ merging \in SUBSET Types
  /\ fields \in SUBSET Fields
  /\ definition \in [Types -> [Fields -> 0..N]]
  /\ owner \in [Types -> [Fields -> 0..N]]
  /\ resolver \in [Types -> [Fields -> {"nil", "own", "entity", "root"}]]
  /\ queryType \in Types \cup {None}
  /\ mutationType \in Types \cup {None}

\* The subgraph that resolves a field is the one whose definition of it the
\* queries are validated against, at any time (gateway.go:98-130).
OwnerDefines ==
  \A t \in Types : \A f \in Fields :
    owner[t][f] # 0 => definition[t][f] = owner[t][f] /\ Owns(owner[t][f], t, f)

\* Subgraphs with root types of the same names, and one mutation type.
SameRoots ==
  \A g \in Gateways : \A s \in 1..N :
    /\ g[s].query = g[1].query
    /\ g[s].mutation # None => \A r \in 1..N : g[r].mutation \in {None, g[s].mutation}

\* In whatever order the maps are visited, composing yields the supergraph of
\* Supergraph, or fails when that is not valid (gateway.go:85-253).
Abstract == INSTANCE Supergraph WITH
  status <- CASE phase = "accepted" -> "composed"
              [] phase = "rejected" -> "refused"
              [] OTHER -> "composing",
  schema <- IF phase = "accepted"
            THEN [definition |-> definition, owner |-> owner,
                  resolver |-> resolver, query |-> queryType]
            ELSE None

ComposesSupergraph == Abstract!Spec

----------------------------------------------------------------------------
(* The inductive strengthening.                                            *)

\* The declarations that have been merged.
Seen(t, f) ==
  {s \in 1..N :
     /\ Declares(s, t, f)
     /\ \/ phase # "merge"
        \/ s < current
        \/ s = current /\ t \notin types /\ (t \in merging => f \notin fields)}

SeenOwned(t, f) == {s \in Seen(t, f) : Owns(s, t, f)}

IsFirst(d, S) == d \in S /\ \A s \in S : d <= s

\* A field's owner is the first of those seen, and so is its definition.
OwnerIsFirst ==
  \A t \in Types : \A f \in Fields :
    IF SeenOwned(t, f) = {} THEN owner[t][f] = 0
    ELSE IsFirst(owner[t][f], SeenOwned(t, f))

DefinitionIsFirst ==
  \A t \in Types : \A f \in Fields :
    IF SeenOwned(t, f) # {} THEN definition[t][f] = owner[t][f]
    ELSE IF Seen(t, f) # {} THEN IsFirst(definition[t][f], Seen(t, f))
    ELSE definition[t][f] = 0

\* What is left of the maps.
LeftToMerge ==
  phase = "merge" =>
    /\ types \subseteq TypesOf(current)
    /\ \A t \in merging : t \notin types /\ fields \subseteq FieldsOf(current, t)
    /\ \A t, u \in merging : t = u

\* What has been decided and wired.
Decided ==
  /\ phase \in {"wire", "cycles", "roots", "accepted"} => MetadataKnown(definition)
  /\ phase \in {"roots", "accepted"} => EntitiesAcyclic(definition)
  /\ phase = "rejected" => ~(MetadataKnown(definition) /\ EntitiesAcyclic(definition))
  /\ phase = "wire" =>
       \A t \in Types : \A f \in Fields : resolver[t][f] = Carried(t, f)
  /\ phase \in {"cycles", "roots"} \/ (phase = "accepted" /\ SameRoots) =>
       \A t \in Types : \A f \in Fields :
         resolver[t][f] = IF CrossesEntity(t, f) THEN "entity" ELSE Carried(t, f)
  /\ phase = "accepted" => queryType = LastQuery

IndInv ==
  TypeOK /\ OwnerIsFirst /\ DefinitionIsFirst /\ LeftToMerge /\ Decided
====
