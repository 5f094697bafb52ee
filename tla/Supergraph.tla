---- MODULE Supergraph ----
(***************************************************************************)
(* What composing subgraphs promises, whatever the order in which Go's     *)
(* maps are visited: each field of the supergraph is defined and resolved  *)
(* by the first subgraph that owns it, and composition fails exactly when  *)
(* the merged schema is not valid.                                         *)
(***************************************************************************)
EXTENDS Subgraphs

VARIABLES
  status,           \* "composing", "composed" or "refused"
  schema            \* the supergraph, None until it is composed

vars == <<subgraphs, status, schema>>

First(S) == CHOOSE s \in S : \A r \in S : s <= r

Owners(t, f) == {s \in 1..N : Owns(s, t, f)}
Declarers(t, f) == {s \in 1..N : Declares(s, t, f)}

\* The first subgraph that owns the field, 0 when none does.
Owner(t, f) == IF Owners(t, f) = {} THEN 0 ELSE First(Owners(t, f))

\* A placeholder defines the field only when no subgraph owns it.
Provider(t, f) ==
  IF Owners(t, f) # {} THEN First(Owners(t, f))
  ELSE IF Declarers(t, f) # {} THEN First(Declarers(t, f)) ELSE 0

Providers == [t \in Types |-> [f \in Fields |-> Provider(t, f)]]

\* A field of an entity that its owner resolves is fetched from the owner.
Resolver(t, f) ==
  IF Provider(t, f) = 0 THEN "nil"
  ELSE IF Owner(t, f) # 0 /\ t \in subgraphs[Owner(t, f)].entities THEN "entity"
  ELSE IF DefinitionIn(Providers, t, f).resolve THEN "own" ELSE "nil"

Merged ==
  [definition |-> Providers,
   owner |-> [t \in Types |-> [f \in Fields |-> Owner(t, f)]],
   resolver |-> [t \in Types |-> [f \in Fields |-> Resolver(t, f)]],
   query |-> subgraphs[1].query]

Valid == MetadataKnown(Providers) /\ EntitiesAcyclic(Providers)

Init ==
  /\ subgraphs \in Gateways
  /\ status = "composing"
  /\ schema = None

Compose ==
  /\ status = "composing"
  /\ Valid
  /\ status' = "composed"
  /\ schema' = Merged
  /\ UNCHANGED subgraphs

Refuse ==
  /\ status = "composing"
  /\ ~Valid
  /\ status' = "refused"
  /\ UNCHANGED <<subgraphs, schema>>

Spec == Init /\ [][Compose \/ Refuse]_vars
====
