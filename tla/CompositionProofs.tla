---- MODULE CompositionProofs ----
(* Proofs about Composition, for any number of subgraphs and whatever they *)
(* declare: the merge does not depend on the order in which the maps are   *)
(* visited.                                                                *)
EXTENDS Composition, TLAPS, WellFoundedInduction, NaturalsInduction

\* A nonempty set of natural numbers has a least element.
LEMMA Least ==
  ASSUME NEW S \in SUBSET Nat, S # {}
  PROVE  \E n \in S : \A m \in S : n <= m
<1>1. \E n \in S : \A m \in S : ~(<<m, n>> \in OpToRel(<, Nat))
  BY NatLessThanWellFounded, WFMin
<1>2. \A m, n \in Nat : m < n => <<m, n>> \in OpToRel(<, Nat)
  BY DEF OpToRel
<1>3. PICK n \in S : \A m \in S : ~(m < n)
  BY <1>1, <1>2
<1> QED
  BY <1>3

\* A nonempty set of subgraphs has a last one.
LEMMA Last ==
  ASSUME NEW S \in SUBSET (1..N), S # {}
  PROVE  \E n \in S : \A m \in S : m <= n
<1> DEFINE T == {k \in 0..N : N - k \in S}
<1>1. N \in Nat
  BY SubgraphsAssumption
<1>2. T \in SUBSET Nat /\ T # {}
  <2>1. PICK s \in S : s \in 1..N
    OBVIOUS
  <2>2. N - s \in 0..N /\ N - (N - s) = s
    BY <2>1, <1>1
  <2>3. N - s \in T
    BY <2>1, <2>2
  <2>4. T \in SUBSET Nat
    BY <1>1
  <2> QED
    BY <2>3, <2>4
<1>3. PICK k \in T : \A j \in T : k <= j
  BY <1>2, Least
<1>4. \A m \in S : N - m \in T /\ m \in 1..N
  BY <1>1
<1>5. N - k \in S /\ k \in 0..N
  OBVIOUS
<1> HIDE DEF T
<1>6. \A m \in S : m <= N - k
  BY <1>1, <1>3, <1>4, <1>5
<1> QED
  BY <1>5, <1>6

\* The last subgraph with a mutation type is one that has it.
LEMMA LastMutationIs ==
  ASSUME WithMutation # {}
  PROVE  \E s \in 1..N : subgraphs[s].mutation # None /\ LastMutation = subgraphs[s].mutation
<1>1. WithMutation \in SUBSET (1..N)
  BY DEF WithMutation
<1>2. \E s \in WithMutation : \A r \in WithMutation : r <= s
  BY <1>1, Last
<1> DEFINE l == CHOOSE s \in WithMutation : \A r \in WithMutation : r <= s
<1>3. l \in WithMutation
  BY <1>2
<1>4. LastMutation = subgraphs[l].mutation
  BY DEF LastMutation
<1> HIDE DEF l
<1> QED
  BY <1>3, <1>4 DEF WithMutation

\* What a subgraph declares.
LEMMA Declared ==
  ASSUME TypeOK, NEW s \in 1..N
  PROVE  /\ subgraphs[s] \in Subgraph
         /\ subgraphs[s].query \in Types
         /\ subgraphs[s].mutation \in Types \cup {None}
         /\ \A t \in Types : FieldsOf(s, t) \in SUBSET Fields
         /\ TypesOf(s) \in SUBSET Types
<1>1. subgraphs[s] \in Subgraph
  BY SubgraphsAssumption DEF TypeOK
<1> QED
  BY <1>1 DEF Subgraph, FieldsOf, TypesOf

\* A step that merges no field keeps the merge as it is.
LEMMA SameMerge ==
  ASSUME OwnerIsFirst, DefinitionIsFirst,
         UNCHANGED <<subgraphs, definition, owner>>,
         \A t \in Types : \A f \in Fields : Seen(t, f)' = Seen(t, f)
  PROVE  OwnerIsFirst' /\ DefinitionIsFirst'
<1>1. \A t \in Types : \A f \in Fields : SeenOwned(t, f)' = SeenOwned(t, f)
  BY DEF SeenOwned, Owns, Declares
<1>2. OwnerIsFirst'
  BY <1>1 DEF OwnerIsFirst, IsFirst
<1>3. DefinitionIsFirst'
  BY <1>1 DEF DefinitionIsFirst, IsFirst
<1> QED
  BY <1>2, <1>3

\* While merging, nothing has been decided.
LEMMA UndecidedInMerge ==
  ASSUME phase' \in {"merge", "validate"} PROVE Decided'
BY DEF Decided

\* Each action keeps the strengthened invariant.
LEMMA MergeTypeStep ==
  ASSUME IndInv, NEW t \in Types, MergeType(t) PROVE IndInv'
<1>1. /\ phase = "merge" /\ merging = {} /\ t \in types
      /\ types' = types \ {t} /\ merging' = {t} /\ fields' = FieldsOf(current, t)
      /\ UNCHANGED <<subgraphs, phase, current, definition, owner, resolver,
                     queryType, mutationType>>
  BY DEF MergeType
<1>2. TypeOK'
  BY <1>1, Declared DEF IndInv, TypeOK
<1>3. ASSUME NEW u \in Types, NEW f \in Fields PROVE Seen(u, f)' = Seen(u, f)
  BY <1>1, <1>3 DEF Seen, FieldsOf, Declares
<1>4. LeftToMerge'
  BY <1>1 DEF IndInv, LeftToMerge, FieldsOf, TypesOf, Declares
<1> QED
  BY <1>1, <1>2, <1>3, <1>4, SameMerge, UndecidedInMerge DEF IndInv

LEMMA TypeMergedStep ==
  ASSUME IndInv, TypeMerged PROVE IndInv'
<1>1. /\ phase = "merge" /\ merging # {} /\ fields = {} /\ merging' = {}
      /\ UNCHANGED <<subgraphs, phase, current, types, fields, definition, owner,
                     resolver, queryType, mutationType>>
  BY DEF TypeMerged
<1>2. TypeOK'
  BY <1>1 DEF IndInv, TypeOK
<1>3. ASSUME NEW u \in Types, NEW f \in Fields PROVE Seen(u, f)' = Seen(u, f)
  BY <1>1, <1>3 DEF Seen, Declares
<1>4. LeftToMerge'
  BY <1>1 DEF IndInv, LeftToMerge, TypesOf, FieldsOf, Declares
<1> QED
  BY <1>1, <1>2, <1>3, <1>4, SameMerge, UndecidedInMerge DEF IndInv

LEMMA SubgraphMergedStep ==
  ASSUME IndInv, SubgraphMerged PROVE IndInv'
<1>1. /\ phase = "merge" /\ merging = {} /\ types = {}
      /\ UNCHANGED <<subgraphs, merging, fields, definition, owner, resolver,
                     queryType, mutationType>>
  BY DEF SubgraphMerged
<1>2. N \in Nat /\ current \in 1..N
  BY SubgraphsAssumption DEF IndInv, TypeOK
<1>3. CASE /\ current < N /\ current' = current + 1
           /\ types' = TypesOf(current + 1) /\ UNCHANGED phase
  <2>1. current + 1 \in 1..N /\ TypesOf(current + 1) \in SUBSET Types
    BY <1>2, <1>3, Declared DEF IndInv
  <2>2. TypeOK'
    BY <1>1, <1>3, <2>1 DEF IndInv, TypeOK
  <2>3. ASSUME NEW u \in Types, NEW f \in Fields PROVE Seen(u, f)' = Seen(u, f)
    <3>1. \A s \in 1..N : s < current + 1 <=> s < current \/ s = current
      BY <1>2
    <3>2. u \notin TypesOf(current + 1) => ~Declares(current + 1, u, f)
      BY DEF TypesOf, FieldsOf
    <3> QED
      BY <1>1, <1>3, <3>1, <3>2 DEF Seen, Declares
  <2>4. LeftToMerge'
    BY <1>1, <1>3 DEF LeftToMerge, TypesOf, FieldsOf, Declares
  <2> QED
    BY <1>1, <1>3, <2>2, <2>3, <2>4, SameMerge, UndecidedInMerge DEF IndInv
<1>4. CASE current = N /\ phase' = "validate" /\ UNCHANGED <<current, types>>
  <2>1. TypeOK' /\ LeftToMerge'
    BY <1>1, <1>4 DEF IndInv, TypeOK, LeftToMerge
  <2>2. ASSUME NEW u \in Types, NEW f \in Fields PROVE Seen(u, f)' = Seen(u, f)
    <3>1. \A s \in 1..N : s < current \/ s = current
      BY <1>2, <1>4
    <3> QED
      BY <1>1, <1>4, <3>1 DEF Seen, Declares
  <2> QED
    BY <1>1, <1>4, <2>1, <2>2, SameMerge, UndecidedInMerge DEF IndInv
<1> QED
  BY <1>3, <1>4 DEF SubgraphMerged

\* The field that is merged: its subgraph comes after all those seen.
LEMMA MergeFieldStep ==
  ASSUME IndInv, NEW t \in Types, NEW f \in Fields, MergeField(t, f) PROVE IndInv'
<1>1. /\ phase = "merge" /\ t \in merging /\ f \in fields
      /\ fields' = fields \ {f}
      /\ definition' = IF Takes(t, f) THEN [definition EXCEPT ![t][f] = current]
                       ELSE definition
      /\ owner' = IF BecomesOwner(t, f) THEN [owner EXCEPT ![t][f] = current] ELSE owner
      /\ UNCHANGED <<subgraphs, phase, current, types, merging, resolver,
                     queryType, mutationType>>
  BY DEF MergeField, FieldsAfter, Defined
<1>2. /\ N \in Nat /\ current \in 1..N /\ current \in 0..N
      /\ definition \in [Types -> [Fields -> 0..N]]
      /\ owner \in [Types -> [Fields -> 0..N]]
  BY SubgraphsAssumption DEF IndInv, TypeOK
<1>3. Declares(current, t, f) /\ t \notin types /\ merging = {t}
  BY <1>1 DEF IndInv, LeftToMerge, FieldsOf
<1>4. /\ definition' \in [Types -> [Fields -> 0..N]]
      /\ owner' \in [Types -> [Fields -> 0..N]]
  BY <1>1, <1>2
<1>5. TypeOK'
  BY <1>1, <1>4 DEF IndInv, TypeOK
<1>6. LeftToMerge'
  BY <1>1 DEF IndInv, LeftToMerge, TypesOf, FieldsOf, Declares
<1>7. ASSUME NEW u \in Types, NEW g \in Fields, ~(u = t /\ g = f)
      PROVE  /\ Seen(u, g)' = Seen(u, g) /\ SeenOwned(u, g)' = SeenOwned(u, g)
             /\ definition'[u][g] = definition[u][g]
             /\ owner'[u][g] = owner[u][g]
  <2>1. Seen(u, g)' = Seen(u, g)
    BY <1>1, <1>3, <1>7 DEF Seen, Declares
  <2>2. SeenOwned(u, g)' = SeenOwned(u, g)
    BY <1>1, <2>1 DEF SeenOwned, Owns, Declares
  <2> QED
    BY <2>1, <2>2, <1>1, <1>2, <1>7
<1>8. /\ Seen(t, f)' = Seen(t, f) \cup {current}
      /\ \A s \in Seen(t, f) : s < current /\ s \in 1..N
  BY <1>1, <1>2, <1>3 DEF Seen, Declares
<1>9. SeenOwned(t, f)' = IF Owns(current, t, f) THEN SeenOwned(t, f) \cup {current}
                         ELSE SeenOwned(t, f)
  BY <1>1, <1>8 DEF SeenOwned, Owns, Declares
<1>10. SeenOwned(t, f) \subseteq Seen(t, f)
  BY DEF SeenOwned
<1>11. /\ IF SeenOwned(t, f) = {} THEN owner[t][f] = 0
          ELSE IsFirst(owner[t][f], SeenOwned(t, f))
       /\ IF SeenOwned(t, f) # {} THEN definition[t][f] = owner[t][f]
          ELSE IF Seen(t, f) # {} THEN IsFirst(definition[t][f], Seen(t, f))
          ELSE definition[t][f] = 0
  BY DEF IndInv, OwnerIsFirst, DefinitionIsFirst
<1>12. SeenOwned(t, f) = {} <=> owner[t][f] = 0
  BY <1>8, <1>10, <1>11 DEF IsFirst
<1>13. Seen(t, f) = {} <=> definition[t][f] = 0
  BY <1>8, <1>10, <1>11, <1>12 DEF IsFirst
<1>14. /\ definition'[t][f] = IF Takes(t, f) THEN current ELSE definition[t][f]
       /\ owner'[t][f] = IF BecomesOwner(t, f) THEN current ELSE owner[t][f]
  BY <1>1, <1>2
<1>15. BecomesOwner(t, f) <=> Owns(current, t, f) /\ SeenOwned(t, f) = {}
  BY <1>12 DEF BecomesOwner
<1>16. Takes(t, f) <=> \/ Seen(t, f) = {}
                       \/ Owns(current, t, f) /\ SeenOwned(t, f) = {}
  <2>1. CASE SeenOwned(t, f) # {}
    <3>1. definition[t][f] \in SeenOwned(t, f)
      BY <2>1, <1>11 DEF IsFirst
    <3>2. Owns(definition[t][f], t, f)
      BY <3>1 DEF SeenOwned
    <3> QED
      BY <2>1, <3>1, <3>2, <1>10, <1>13 DEF Takes, IsPlaceholder
  <2>2. CASE SeenOwned(t, f) = {} /\ Seen(t, f) # {}
    <3>1. definition[t][f] \in Seen(t, f)
      BY <2>2, <1>11 DEF IsFirst
    <3>2. ~Owns(definition[t][f], t, f)
      BY <2>2, <3>1 DEF SeenOwned
    <3> QED
      BY <2>2, <3>1, <3>2, <1>13 DEF Takes, IsPlaceholder
  <2>3. CASE Seen(t, f) = {}
    BY <2>3, <1>13, <1>10 DEF Takes
  <2> QED
    BY <2>1, <2>2, <2>3, <1>10
<1>17. IF SeenOwned(t, f)' = {} THEN owner'[t][f] = 0
       ELSE IsFirst(owner'[t][f], SeenOwned(t, f)')
  BY <1>2, <1>8, <1>9, <1>10, <1>11, <1>14, <1>15 DEF IsFirst
<1>18. IF SeenOwned(t, f)' # {} THEN definition'[t][f] = owner'[t][f]
       ELSE IF Seen(t, f)' # {} THEN IsFirst(definition'[t][f], Seen(t, f)')
       ELSE definition'[t][f] = 0
  <2>1. CASE Owns(current, t, f)
    BY <2>1, <1>2, <1>8, <1>9, <1>10, <1>11, <1>14, <1>15, <1>16
  <2>2. CASE ~Owns(current, t, f) /\ SeenOwned(t, f) # {}
    BY <2>2, <1>2, <1>8, <1>9, <1>10, <1>11, <1>14, <1>15, <1>16
  <2>3. CASE ~Owns(current, t, f) /\ SeenOwned(t, f) = {} /\ Seen(t, f) # {}
    <3>1. definition'[t][f] = definition[t][f] /\ IsFirst(definition[t][f], Seen(t, f))
      BY <2>3, <1>11, <1>14, <1>16
    <3>2. definition[t][f] <= current
      BY <3>1, <1>8, <1>2 DEF IsFirst
    <3> QED
      BY <2>3, <3>1, <3>2, <1>8, <1>9 DEF IsFirst
  <2>4. CASE ~Owns(current, t, f) /\ SeenOwned(t, f) = {} /\ Seen(t, f) = {}
    <3>1. definition'[t][f] = current /\ Seen(t, f)' = {current}
      BY <2>4, <1>8, <1>14, <1>16
    <3> QED
      BY <2>4, <3>1, <1>2, <1>9 DEF IsFirst
  <2> QED
    BY <2>1, <2>2, <2>3, <2>4
<1>19. OwnerIsFirst'
  BY <1>7, <1>17 DEF IndInv, OwnerIsFirst, IsFirst
<1>20. DefinitionIsFirst'
  BY <1>7, <1>18 DEF IndInv, DefinitionIsFirst, IsFirst
<1> QED
  BY <1>1, <1>5, <1>6, <1>19, <1>20, UndecidedInMerge DEF IndInv

\* What the later phases have in common.
LEMMA SameDecisions ==
  ASSUME UNCHANGED <<subgraphs, definition, owner>>
  PROVE  /\ MetadataKnown(definition)' <=> MetadataKnown(definition)
         /\ EntitiesAcyclic(definition)' <=> EntitiesAcyclic(definition)
         /\ \A t \in Types : \A f \in Fields :
              /\ CrossesEntity(t, f)' = CrossesEntity(t, f)
              /\ Carried(t, f)' = Carried(t, f)
<1>1. MetadataKnown(definition)' <=> MetadataKnown(definition)
  BY DEF MetadataKnown, RequiresKnown, ProvidesKnown, DefinitionIn, FieldsIn
<1>2. \A t \in Types : EntityRefs(definition, t)' = EntityRefs(definition, t)
  BY DEF EntityRefs, EntityTypes, DefinitionIn, FieldsIn
<1>3. EntitiesAcyclic(definition)' <=> EntitiesAcyclic(definition)
  BY <1>2 DEF EntitiesAcyclic
<1> QED
  BY <1>1, <1>3 DEF CrossesEntity, Carried, DefinitionIn

LEMMA ValidateStep ==
  ASSUME IndInv, Validate PROVE IndInv'
<1>1. /\ phase = "validate"
      /\ resolver' = [t \in Types |-> [f \in Fields |-> Carried(t, f)]]
      /\ phase' = IF MetadataKnown(definition) THEN "wire" ELSE "rejected"
      /\ UNCHANGED <<subgraphs, current, types, merging, fields, definition,
                     owner, queryType, mutationType>>
  BY DEF Validate
<1>2. \A t \in Types : \A f \in Fields : Carried(t, f) \in {"nil", "own"}
  BY DEF Carried
<1>3. resolver' \in [Types -> [Fields -> {"nil", "own", "entity", "root"}]]
  BY <1>1, <1>2
<1>4. TypeOK' /\ LeftToMerge'
  BY <1>1, <1>3 DEF IndInv, TypeOK, LeftToMerge
<1>5. \A t \in Types : \A f \in Fields : Seen(t, f)' = Seen(t, f)
  BY <1>1 DEF Seen, Declares
<1>6. Decided'
  BY <1>1, SameDecisions DEF Decided
<1> QED
  BY <1>1, <1>4, <1>5, <1>6, SameMerge DEF IndInv

LEMMA WireStep ==
  ASSUME IndInv, Wire PROVE IndInv'
<1>1. /\ phase = "wire" /\ phase' = "cycles"
      /\ resolver' = [t \in Types |-> [f \in Fields |->
                        IF CrossesEntity(t, f) THEN "entity" ELSE resolver[t][f]]]
      /\ UNCHANGED <<subgraphs, current, types, merging, fields, definition,
                     owner, queryType, mutationType>>
  BY DEF Wire
<1>2. resolver' \in [Types -> [Fields -> {"nil", "own", "entity", "root"}]]
  BY <1>1 DEF IndInv, TypeOK
<1>3. TypeOK' /\ LeftToMerge'
  BY <1>1, <1>2 DEF IndInv, TypeOK, LeftToMerge
<1>4. \A t \in Types : \A f \in Fields : Seen(t, f)' = Seen(t, f)
  BY <1>1 DEF Seen, Declares
<1>5. \A t \in Types : \A f \in Fields :
        resolver'[t][f] = IF CrossesEntity(t, f) THEN "entity" ELSE Carried(t, f)
  BY <1>1 DEF IndInv, Decided
<1>6. Decided'
  BY <1>1, <1>5, SameDecisions DEF IndInv, Decided
<1> QED
  BY <1>1, <1>3, <1>4, <1>6, SameMerge DEF IndInv

LEMMA DetectCyclesStep ==
  ASSUME IndInv, DetectCycles PROVE IndInv'
<1>1. /\ phase = "cycles"
      /\ phase' = IF EntitiesAcyclic(definition) THEN "roots" ELSE "rejected"
      /\ UNCHANGED <<subgraphs, current, types, merging, fields, definition,
                     owner, resolver, queryType, mutationType>>
  BY DEF DetectCycles
<1>2. TypeOK' /\ LeftToMerge'
  BY <1>1 DEF IndInv, TypeOK, LeftToMerge
<1>3. \A t \in Types : \A f \in Fields : Seen(t, f)' = Seen(t, f)
  BY <1>1 DEF Seen, Declares
<1>4. Decided'
  BY <1>1, SameDecisions DEF IndInv, Decided
<1> QED
  BY <1>1, <1>2, <1>3, <1>4, SameMerge DEF IndInv

\* Where the root types agree, they are those of any subgraph.
LEMMA Roots ==
  ASSUME SameRoots, TypeOK, NEW s \in 1..N
  PROVE  /\ subgraphs[s].query = LastQuery
         /\ subgraphs[s].mutation # None => subgraphs[s].mutation = LastMutation
<1>1. subgraphs \in Gateways /\ N \in 1..N /\ 1 \in 1..N
  BY SubgraphsAssumption DEF TypeOK
<1>2. subgraphs[s].query = LastQuery
  BY <1>1 DEF SameRoots, LastQuery
<1>3. ASSUME subgraphs[s].mutation # None
      PROVE  subgraphs[s].mutation = LastMutation
  <2>1. WithMutation # {}
    BY <1>3 DEF WithMutation
  <2>2. PICK r \in 1..N : subgraphs[r].mutation # None /\ LastMutation = subgraphs[r].mutation
    BY <2>1, LastMutationIs
  <2> QED
    BY <1>1, <1>3, <2>2 DEF SameRoots
<1> QED
  BY <1>2, <1>3

\* The owner of a field is where its definition comes from.
LEMMA OwnersDefine ==
  ASSUME IndInv PROVE OwnerDefines
<1> SUFFICES ASSUME NEW t \in Types, NEW f \in Fields, owner[t][f] # 0
             PROVE  definition[t][f] = owner[t][f] /\ Owns(owner[t][f], t, f)
  BY DEF OwnerDefines
<1>1. SeenOwned(t, f) # {} /\ owner[t][f] \in SeenOwned(t, f)
  BY DEF IndInv, OwnerIsFirst, IsFirst
<1>2. definition[t][f] = owner[t][f]
  BY <1>1 DEF IndInv, DefinitionIsFirst
<1> QED
  BY <1>1, <1>2 DEF SeenOwned

\* An owner without a resolver for a root field has none to give, so that
\* wireRootResolvers changes nothing.
LEMMA RootsWired ==
  ASSUME SameRoots, IndInv, phase = "roots", NEW t \in Types, NEW f \in Fields
  PROVE  ~RootWired(t, f)
<1> SUFFICES ASSUME RootWired(t, f) PROVE FALSE
  OBVIOUS
<1>1. /\ owner[t][f] # 0 /\ resolver[t][f] = "nil"
      /\ \/ t = LastQuery /\ WiresFrom(subgraphs[owner[t][f]].query, t, f)
         \/ t = LastMutation /\ WiresFrom(subgraphs[owner[t][f]].mutation, t, f)
  BY DEF RootWired
<1>2. owner[t][f] \in 1..N /\ definition[t][f] = owner[t][f]
  BY <1>1, OwnersDefine, SubgraphsAssumption DEF IndInv, TypeOK, OwnerDefines
<1>3. ~subgraphs[owner[t][f]].fields[t][f].resolve
  <2>1. Carried(t, f) = "nil"
    BY <1>1 DEF IndInv, Decided
  <2> QED
    BY <2>1, <1>1, <1>2 DEF Carried, DefinitionIn
<1>4. TypeOK
  BY DEF IndInv
<1>5. CASE t = LastQuery /\ WiresFrom(subgraphs[owner[t][f]].query, t, f)
  BY <1>2, <1>3, <1>4, <1>5, Roots DEF WiresFrom
<1>6. CASE t = LastMutation /\ WiresFrom(subgraphs[owner[t][f]].mutation, t, f)
  BY <1>2, <1>3, <1>4, <1>6, Roots DEF WiresFrom
<1> QED
  BY <1>1, <1>5, <1>6

LEMMA BuildRootsStep ==
  ASSUME IndInv, BuildRoots PROVE IndInv'
<1>1. /\ phase = "roots" /\ phase' = "accepted"
      /\ queryType' = LastQuery /\ mutationType' = LastMutation
      /\ resolver' = [t \in Types |-> [f \in Fields |->
                        IF RootWired(t, f) THEN "root" ELSE resolver[t][f]]]
      /\ UNCHANGED <<subgraphs, current, types, merging, fields, definition, owner>>
  BY DEF BuildRoots
<1>2. LastQuery \in Types /\ LastMutation \in Types \cup {None}
  <2>1. LastQuery \in Types
    BY Declared, SubgraphsAssumption DEF IndInv, LastQuery
  <2>2. CASE WithMutation = {}
    BY <2>1, <2>2 DEF LastMutation
  <2>3. CASE WithMutation # {}
    BY <2>1, <2>3, LastMutationIs, Declared DEF IndInv
  <2> QED
    BY <2>2, <2>3
<1>3. resolver' \in [Types -> [Fields -> {"nil", "own", "entity", "root"}]]
  BY <1>1 DEF IndInv, TypeOK
<1>4. TypeOK' /\ LeftToMerge'
  BY <1>1, <1>2, <1>3 DEF IndInv, TypeOK, LeftToMerge
<1>5. \A t \in Types : \A f \in Fields : Seen(t, f)' = Seen(t, f)
  BY <1>1 DEF Seen, Declares
<1>6. SameRoots => \A t \in Types : \A f \in Fields : resolver'[t][f] = resolver[t][f]
  BY <1>1, RootsWired
<1>7. LastQuery' = LastQuery
  BY <1>1 DEF LastQuery
<1>8. Decided'
  BY <1>1, <1>6, <1>7, SameDecisions DEF IndInv, Decided
<1> QED
  BY <1>1, <1>4, <1>5, <1>8, SameMerge DEF IndInv

LEMMA InitInv == Init => IndInv
<1> SUFFICES ASSUME Init PROVE IndInv
  OBVIOUS
<1>1. /\ subgraphs \in Gateways /\ phase = "merge" /\ current = 1
      /\ types = TypesOf(1) /\ merging = {} /\ fields = {}
      /\ definition = [t \in Types |-> [f \in Fields |-> 0]]
      /\ owner = [t \in Types |-> [f \in Fields |-> 0]]
      /\ resolver = [t \in Types |-> [f \in Fields |-> "nil"]]
      /\ queryType = None /\ mutationType = None
  BY DEF Init, everywhere
<1>2. N \in Nat \ {0} /\ 1 \in 1..N
  BY SubgraphsAssumption
<1>3. TypesOf(1) \in SUBSET Types
  BY DEF TypesOf
<1>4. TypeOK
  BY <1>1, <1>2, <1>3 DEF TypeOK
<1>5. \A t \in Types : \A f \in Fields : Seen(t, f) = {} /\ SeenOwned(t, f) = {}
  BY <1>1, <1>2 DEF Seen, SeenOwned, TypesOf, FieldsOf
<1>6. OwnerIsFirst /\ DefinitionIsFirst
  BY <1>1, <1>5 DEF OwnerIsFirst, DefinitionIsFirst
<1> QED
  BY <1>1, <1>4, <1>6 DEF IndInv, LeftToMerge, Decided

\* The strengthened invariant holds in every reachable state of compose
\* (gateway.go:85-253).
THEOREM Inductive == Spec => []IndInv
<1>1. IndInv /\ [Next]_vars => IndInv'
  <2> SUFFICES ASSUME IndInv, [Next]_vars PROVE IndInv'
    OBVIOUS
  <2>1. ASSUME NEW t \in Types, MergeType(t) PROVE IndInv'
    BY <2>1, MergeTypeStep
  <2>2. ASSUME NEW t \in Types, NEW f \in Fields, MergeField(t, f) PROVE IndInv'
    BY <2>2, MergeFieldStep
  <2>3. CASE TypeMerged
    BY <2>3, TypeMergedStep
  <2>4. CASE SubgraphMerged
    BY <2>4, SubgraphMergedStep
  <2>5. CASE Validate
    BY <2>5, ValidateStep
  <2>6. CASE Wire
    BY <2>6, WireStep
  <2>7. CASE DetectCycles
    BY <2>7, DetectCyclesStep
  <2>8. CASE BuildRoots
    BY <2>8, BuildRootsStep
  <2>9. CASE UNCHANGED vars
    <3>1. TypeOK' /\ LeftToMerge'
      BY <2>9 DEF vars, IndInv, TypeOK, LeftToMerge, TypesOf, FieldsOf, Declares
    <3>2. \A t \in Types : \A f \in Fields : Seen(t, f)' = Seen(t, f)
      BY <2>9 DEF vars, Seen, Declares
    <3>3. Decided'
      BY <2>9, SameDecisions DEF vars, IndInv, Decided, LastQuery
    <3> QED
      BY <2>9, <3>1, <3>2, <3>3, SameMerge DEF vars, IndInv
  <2> QED
    BY <2>1, <2>2, <2>3, <2>4, <2>5, <2>6, <2>7, <2>8, <2>9 DEF Next
<1> QED
  BY InitInv, <1>1, PTL DEF Spec

\* Every variable of compose stays in its range (gateway.go:85-250).
THEOREM TypeCorrect == Spec => []TypeOK
<1>1. IndInv => TypeOK
  BY DEF IndInv
<1> QED
  BY Inductive, <1>1, PTL

\* For any subgraphs and any order of the maps, the subgraph that resolves a
\* field is the one that defines it in the supergraph (gateway.go:98-130).
THEOREM OwnersDefineFields == Spec => []OwnerDefines
<1>1. IndInv => OwnerDefines
  BY OwnersDefine
<1> QED
  BY Inductive, <1>1, PTL

----------------------------------------------------------------------------
(* compose implements Supergraph.                                          *)

LEMMA FirstIs ==
  ASSUME NEW S \in SUBSET (1..N), NEW d, IsFirst(d, S)
  PROVE  Abstract!First(S) = d
<1>1. d \in S /\ \A s \in S : d <= s
  BY DEF IsFirst
<1>2. \A s \in S : s \in Int
  BY SubgraphsAssumption
<1>3. \A s \in S : (\A r \in S : s <= r) => s = d
  BY <1>1, <1>2
<1> QED
  BY <1>1, <1>3 DEF Abstract!First

\* The decisions of the two specifications are the same.
LEMMA SameValidity ==
  ASSUME NEW def
  PROVE  /\ Abstract!MetadataKnown(def) <=> MetadataKnown(def)
         /\ Abstract!EntitiesAcyclic(def) <=> EntitiesAcyclic(def)
<1>1. Abstract!MetadataKnown(def) <=> MetadataKnown(def)
  BY DEF Abstract!MetadataKnown, Abstract!RequiresKnown, Abstract!ProvidesKnown,
     Abstract!DefinitionIn, Abstract!FieldsIn, MetadataKnown, RequiresKnown,
     ProvidesKnown, DefinitionIn, FieldsIn
<1>2. \A t \in Types : Abstract!EntityRefs(def, t) = EntityRefs(def, t)
  BY DEF Abstract!EntityRefs, Abstract!EntityTypes, Abstract!DefinitionIn,
     Abstract!FieldsIn, EntityRefs, EntityTypes, DefinitionIn, FieldsIn
<1>3. Abstract!EntitiesAcyclic(def) <=> EntitiesAcyclic(def)
  BY <1>2 DEF Abstract!EntitiesAcyclic, EntitiesAcyclic
<1> QED
  BY <1>1, <1>3

\* When every subgraph is merged, the merge is the one promised.
LEMMA MergedIs ==
  ASSUME IndInv, phase # "merge"
  PROVE  /\ definition = Abstract!Providers
         /\ owner = [t \in Types |-> [f \in Fields |-> Abstract!Owner(t, f)]]
<1>1. ASSUME NEW t \in Types, NEW f \in Fields
      PROVE  /\ definition[t][f] = Abstract!Provider(t, f)
             /\ owner[t][f] = Abstract!Owner(t, f)
  <2>1. /\ Seen(t, f) = Abstract!Declarers(t, f)
        /\ SeenOwned(t, f) = Abstract!Owners(t, f)
    BY DEF Seen, SeenOwned, Owns, Declares, Abstract!Declarers, Abstract!Owners,
       Abstract!Owns, Abstract!Declares
  <2>2. Seen(t, f) \in SUBSET (1..N) /\ SeenOwned(t, f) \in SUBSET (1..N)
    BY DEF Seen, SeenOwned
  <2>3. /\ IF SeenOwned(t, f) = {} THEN owner[t][f] = 0
           ELSE IsFirst(owner[t][f], SeenOwned(t, f))
        /\ IF SeenOwned(t, f) # {} THEN definition[t][f] = owner[t][f]
           ELSE IF Seen(t, f) # {} THEN IsFirst(definition[t][f], Seen(t, f))
           ELSE definition[t][f] = 0
    BY DEF IndInv, OwnerIsFirst, DefinitionIsFirst
  <2> QED
    BY <2>1, <2>2, <2>3, FirstIs DEF Abstract!Provider, Abstract!Owner
<1>2. /\ definition \in [Types -> [Fields -> 0..N]]
      /\ owner \in [Types -> [Fields -> 0..N]]
  BY DEF IndInv, TypeOK
<1>3. definition = [t \in Types |-> [f \in Fields |-> Abstract!Provider(t, f)]]
  BY <1>1, <1>2
<1>4. owner = [t \in Types |-> [f \in Fields |-> Abstract!Owner(t, f)]]
  BY <1>1, <1>2
<1> QED
  BY <1>3, <1>4 DEF Abstract!Providers

\* The schema that BuildRoots completes is the supergraph promised.
LEMMA BuildsMerged ==
  ASSUME SameRoots, IndInv, BuildRoots
  PROVE  [definition |-> definition', owner |-> owner', resolver |-> resolver',
          query |-> queryType'] = Abstract!Merged
<1>1. /\ phase = "roots" /\ queryType' = LastQuery
      /\ resolver' = [t \in Types |-> [f \in Fields |->
                        IF RootWired(t, f) THEN "root" ELSE resolver[t][f]]]
      /\ UNCHANGED <<subgraphs, definition, owner>>
  BY DEF BuildRoots
<1>2. /\ definition = Abstract!Providers
      /\ owner = [t \in Types |-> [f \in Fields |-> Abstract!Owner(t, f)]]
  BY <1>1, MergedIs
<1>3. queryType' = subgraphs[1].query
  BY <1>1, Roots, SubgraphsAssumption DEF IndInv
<1>4. ASSUME NEW t \in Types, NEW f \in Fields
      PROVE  resolver'[t][f] = Abstract!Resolver(t, f)
  <2>1. resolver'[t][f] = IF CrossesEntity(t, f) THEN "entity" ELSE Carried(t, f)
    BY <1>1, RootsWired DEF IndInv, Decided
  <2>2. /\ owner[t][f] = Abstract!Owner(t, f)
        /\ definition[t][f] = Abstract!Provider(t, f)
    BY <1>2 DEF Abstract!Providers
  <2>3. owner[t][f] # 0 => definition[t][f] # 0
    BY OwnersDefine DEF OwnerDefines
  <2> QED
    BY <1>2, <2>1, <2>2, <2>3 DEF CrossesEntity, Carried, DefinitionIn,
       Abstract!Resolver, Abstract!DefinitionIn
<1>5. resolver' = [t \in Types |-> [f \in Fields |-> Abstract!Resolver(t, f)]]
  BY <1>1, <1>4
<1> QED
  BY <1>1, <1>2, <1>3, <1>5 DEF Abstract!Merged

\* Whatever the subgraphs and the order in which the maps are visited,
\* composing yields the supergraph of Supergraph, or fails when that is not
\* valid, for subgraphs whose root types have the same names
\* (gateway.go:85-253).
THEOREM Implements == SameRoots => (Spec => ComposesSupergraph)
<1> SUFFICES ASSUME SameRoots PROVE Spec => ComposesSupergraph
  OBVIOUS
<1> DEFINE status == CASE phase = "accepted" -> "composed"
                       [] phase = "rejected" -> "refused"
                       [] OTHER -> "composing"
           schema == IF phase = "accepted"
                     THEN [definition |-> definition, owner |-> owner,
                           resolver |-> resolver, query |-> queryType]
                     ELSE None
<1>1. Init => Abstract!Init
  BY DEF Init, Abstract!Init
<1>2. ASSUME IndInv, [Next]_vars
      PROVE  [Abstract!Compose \/ Abstract!Refuse]_(Abstract!vars)
  <2>1. CASE UNCHANGED <<subgraphs, phase, definition, owner, resolver, queryType>>
    BY <2>1 DEF Abstract!vars
  <2>2. CASE /\ subgraphs' = subgraphs
             /\ phase \notin {"accepted", "rejected"}
             /\ phase' \notin {"accepted", "rejected"}
    BY <2>2 DEF Abstract!vars
  <2>3. ASSUME NEW t \in Types, MergeType(t) PROVE UNCHANGED Abstract!vars
    BY <2>3 DEF MergeType, Abstract!vars
  <2>4. ASSUME NEW t \in Types, NEW f \in Fields, MergeField(t, f)
        PROVE  UNCHANGED Abstract!vars
    BY <2>4 DEF MergeField, Abstract!vars
  <2>5. CASE TypeMerged \/ SubgraphMerged \/ Wire
    BY <2>2, <2>5 DEF TypeMerged, SubgraphMerged, Wire
  <2>6. CASE Validate
    <3>1. CASE MetadataKnown(definition)
      BY <2>2, <2>6, <3>1 DEF Validate
    <3>2. CASE ~MetadataKnown(definition)
      <4>1. phase = "validate" /\ phase' = "rejected" /\ subgraphs' = subgraphs
        BY <2>6, <3>2 DEF Validate
      <4>2. ~Abstract!Valid
        BY <1>2, <3>2, <4>1, MergedIs, SameValidity DEF Abstract!Valid
      <4> QED
        BY <4>1, <4>2 DEF Abstract!Refuse
    <3> QED
      BY <3>1, <3>2
  <2>7. CASE DetectCycles
    <3>1. CASE EntitiesAcyclic(definition)
      BY <2>2, <2>7, <3>1 DEF DetectCycles
    <3>2. CASE ~EntitiesAcyclic(definition)
      <4>1. phase = "cycles" /\ phase' = "rejected" /\ subgraphs' = subgraphs
        BY <2>7, <3>2 DEF DetectCycles
      <4>2. ~Abstract!Valid
        BY <1>2, <3>2, <4>1, MergedIs, SameValidity DEF Abstract!Valid
      <4> QED
        BY <4>1, <4>2 DEF Abstract!Refuse
    <3> QED
      BY <3>1, <3>2
  <2>8. CASE BuildRoots
    <3>1. phase = "roots" /\ phase' = "accepted" /\ subgraphs' = subgraphs
      BY <2>8 DEF BuildRoots
    <3>2. Abstract!Valid
      BY <3>1, MergedIs, SameValidity, <1>2 DEF IndInv, Decided, Abstract!Valid
    <3>3. schema' = Abstract!Merged
      BY <3>1, <2>8, <1>2, BuildsMerged
    <3> QED
      BY <3>1, <3>2, <3>3 DEF Abstract!Compose
  <2>9. CASE UNCHANGED vars
    BY <2>1, <2>9 DEF vars
  <2> QED
    BY <1>2, <2>3, <2>4, <2>5, <2>6, <2>7, <2>8, <2>9 DEF Next
<1> QED
  BY Inductive, <1>1, <1>2, PTL DEF Spec, ComposesSupergraph, Abstract!Spec
====
