---- MODULE Subgraphs ----
(***************************************************************************)
(* What the subgraphs of a gateway declare (federation.go:48-61): the      *)
(* fields of the object types in their schemas, the entities they resolve  *)
(* and their root types.  Types, fields and resolvers are names.           *)
(***************************************************************************)
EXTENDS Naturals

CONSTANTS
  N,                \* the number of subgraphs
  Types,            \* names of object types, the root types among them
  Fields,           \* names of fields
  Leaf,             \* any type of a field that is not an object type
  None,             \* no definition, no type
  Gateways          \* the sequences of subgraphs a gateway may be built from

Definition ==
  [external : BOOLEAN, requires : SUBSET Fields, provides : SUBSET Fields,
   returns : Types \cup {Leaf}, resolve : BOOLEAN]

Subgraph ==
  [fields : [Types -> [Fields -> Definition \cup {None}]],
   entities : SUBSET Types,
   query : Types,
   mutation : Types \cup {None}]

\* NewGateway refuses an empty list of subgraphs (gateway.go:28-30).
ASSUME SubgraphsAssumption ==
  /\ N \in Nat \ {0}
  /\ Gateways \subseteq [1..N -> Subgraph]
  /\ None \notin Definition

VARIABLE subgraphs

Declares(s, t, f) == subgraphs[s].fields[t][f] # None
Owns(s, t, f) == Declares(s, t, f) /\ ~subgraphs[s].fields[t][f].external

FieldsOf(s, t) == {f \in Fields : Declares(s, t, f)}
TypesOf(s) == {t \in Types : FieldsOf(s, t) # {}}

EntityTypes == UNION {subgraphs[s].entities : s \in 1..N}

----------------------------------------------------------------------------
(* A merged schema names, for each field, the subgraph whose definition it *)
(* takes, or 0 for none: def[t][f].                                        *)

DefinitionIn(def, t, f) == subgraphs[def[t][f]].fields[t][f]
FieldsIn(def, t) == {f \in Fields : def[t][f] # 0}

\* validateFederationMetadata.
RequiresKnown(def, t, f) ==
  DefinitionIn(def, t, f).requires \subseteq FieldsIn(def, t)

ProvidesKnown(def, t, f) ==
  LET d == DefinitionIn(def, t, f)
  IN  d.provides # {} =>
        d.returns # Leaf /\ d.provides \subseteq FieldsIn(def, d.returns)

MetadataKnown(def) ==
  \A t \in Types : \A f \in FieldsIn(def, t) :
    RequiresKnown(def, t, f) /\ ProvidesKnown(def, t, f)

\* The graph of detectEntityCycles.
EntityRefs(def, t) ==
  IF t \in EntityTypes
  THEN {DefinitionIn(def, t, f).returns : f \in FieldsIn(def, t)}
         \cap (EntityTypes \ {t})
  ELSE {}

\* In every set of types, one refers to none of the set.
EntitiesAcyclic(def) ==
  \A S \in SUBSET Types : S # {} => \E t \in S : EntityRefs(def, t) \cap S = {}
====
