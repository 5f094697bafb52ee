---- MODULE TypeCollection ----
(***************************************************************************)
(* NewSchema (schema.go:24-143): it collects, from the root types, every   *)
(* type that can be reached into a map by name.  Types are Go objects: two *)
(* of them may have one name, and then the first that is reached is in the *)
(* map and the other one's own references are never followed.  Fields and  *)
(* arguments are in Go maps, which a range visits in any order.            *)
(***************************************************************************)
EXTENDS Naturals, Sequences, Functions

CONSTANTS
  Types,            \* type objects; lists and non-nulls are seen through
  Names,
  NameOf,           \* NameOf[t]: the name of type t
  Objects,          \* the object types, whose list is of interfaces
  BuiltIns,         \* scalars and introspection types, which are always added
  Schemas,          \* the schemas that a program may make, and of each one
  System,           \* its types: System[s], a record as below
  Closure           \* Closure[s], a set of types to compare with

\* A type refers to a list of types (an object's interfaces, a union's
\* members) and then, by its fields and their arguments, to a set.  The roots
\* are given in stages too: query, mutation, subscription, and the rest.
TypeSystem ==
  [roots : Seq(SUBSET Types),
   listed : [Types -> Seq(Types)],
   fields : [Types -> SUBSET Types]]

References(s, t) == System[s].fields[t] \cup Range(System[s].listed[t])

ASSUME TypeCollectionAssumption ==
  /\ NameOf \in [Types -> Names]
  /\ Objects \subseteq Types
  /\ BuiltIns \subseteq Types
  /\ \A t, u \in BuiltIns : NameOf[t] = NameOf[u] => t = u
  /\ System \in [Schemas -> TypeSystem]
  /\ Closure \in [Schemas -> SUBSET Types]
  /\ \A s \in Schemas : \A t \in BuiltIns : References(s, t) \subseteq BuiltIns

VARIABLES
  schema,           \* the schema being made
  pc,               \* "collect", "implement" or "done"
  calls,            \* for each call of collectTypes under way, outermost first,
                    \* the stages of types it has still to visit
  typeMap,          \* typeMap[n]: the type of name n, a set of at most one
  implementations   \* implementations[n]: the objects that implement n

vars == <<schema, pc, calls, typeMap, implementations>>

Refs(t) == References(schema, t)
Known(n) == typeMap[n] # {}
Kept == UNION Range(typeMap)

\* What a call has still to visit.
Pending(stages) == UNION Range(stages)
Top == calls[Len(calls)]

\* t is in the first stage that is not empty.
IsNext(t) ==
  \E i \in DOMAIN Top : t \in Top[i] /\ \A j \in DOMAIN Top : j < i => Top[j] = {}

StaysAt(t) == Top
After(t) == [i \in DOMAIN Top |-> Top[i] \ {t}]

Listed(t) == System[schema].listed[t]
FieldsOnly(t) == << System[schema].fields[t] >>
Stages(t) == Append([i \in DOMAIN Listed(t) |-> {Listed(t)[i]}], System[schema].fields[t])

Roots == System[schema].roots

QueryCall == << << Roots[1] >> >>
RootCall == << Roots >>

Init ==
  /\ schema \in Schemas
  /\ pc = "collect"
  /\ calls = RootCall
  /\ typeMap = [n \in Names |-> {}]
  /\ implementations = [n \in Names |-> {}]

\* A type whose name is taken, by itself or by another type, is passed over.
Skip(t) ==
  /\ calls # << >>
  /\ IsNext(t)
  /\ Known(NameOf[t])
  /\ calls' = [calls EXCEPT ![Len(calls)] = After(t)]
  /\ UNCHANGED <<schema, pc, typeMap, implementations>>

Collect(t) ==
  /\ calls # << >>
  /\ IsNext(t)
  /\ ~Known(NameOf[t])
  /\ typeMap' = [typeMap EXCEPT ![NameOf[t]] = {t}]
  /\ calls' = Append([calls EXCEPT ![Len(calls)] = After(t)], Stages(t))
  /\ UNCHANGED <<schema, pc, implementations>>

Return ==
  /\ calls # << >>
  /\ Pending(Top) = {}
  /\ calls' = SubSeq(calls, 1, Len(calls) - 1)
  /\ UNCHANGED <<schema, pc, typeMap, implementations>>

\* The built-in scalars and the introspection types, where no type of the
\* program has their name.
BuiltInsNamed(n) == {t \in BuiltIns : NameOf[t] = n}

AddBuiltIns ==
  /\ pc = "collect"
  /\ calls = << >>
  /\ pc' = "implement"
  /\ typeMap' = [n \in Names |-> IF Known(n) THEN typeMap[n] ELSE BuiltInsNamed(n)]
  /\ UNCHANGED <<schema, calls, implementations>>

Implements(t, n) == t \in Objects /\ \E i \in Range(Listed(t)) : NameOf[i] = n

BuildImplementations ==
  /\ pc = "implement"
  /\ pc' = "done"
  /\ implementations' = [n \in Names |-> {t \in Kept : Implements(t, n)}]
  /\ UNCHANGED <<schema, calls, typeMap>>

Next ==
  \/ \E t \in Types : Skip(t) \/ Collect(t)
  \/ Return
  \/ AddBuiltIns
  \/ BuildImplementations

Spec == Init /\ [][Next]_vars

----------------------------------------------------------------------------
(* Properties                                                              *)

\* Every variable stays in its range, and a name has at most one type, of that
\* name (schema.go:149-194).
TypeOK ==
  /\ schema \in Schemas
  /\ pc \in {"collect", "implement", "done"}
  /\ calls \in Seq(Seq(SUBSET Types))
  /\ typeMap \in [Names -> SUBSET Types]
  /\ \A n \in Names : \A s, t \in typeMap[n] : NameOf[s] = n /\ s = t
  /\ implementations \in [Names -> SUBSET Types]

\* Whatever type is in the schema's map, the names of the types that it refers
\* to are in the map too, though collectTypes stops at each name it has seen
\* (schema.go:161-164): a query can go from any type on to a known one.
ClosedUnderReferences ==
  pc = "done" => \A t \in Kept : \A r \in Refs(t) : Known(NameOf[r])

\* A set of types that has the roots and everything its types refer to.
IsClosed(S) ==
  /\ Pending(Roots) \subseteq S
  /\ \A t \in S : Refs(t) \subseteq S

UniqueNames(S) == \A s, t \in S : NameOf[s] = NameOf[t] => s = t

\* The map holds no type that the roots do not lead to and, as long as no two
\* types that they lead to share a name, all that they do: the order of the
\* maps does not matter (schema.go:46-55).
CollectsReachable ==
  LET S == Closure[schema]
  IN  pc = "done" /\ IsClosed(S) =>
        /\ Kept \ BuiltIns \subseteq S
        /\ UniqueNames(S \cup BuiltIns) => IsClosed(Kept)

----------------------------------------------------------------------------
(* The inductive invariant                                                 *)

\* The name of type r is taken, or a call under way has r still to visit.
Seen(r) == Known(NameOf[r]) \/ \E i \in DOMAIN calls : r \in Pending(calls[i])

NothingMissed ==
  /\ \A r \in Pending(Roots) : Seen(r)
  /\ \A t \in Kept : \A r \in Refs(t) : Seen(r)

OnlyLedTo ==
  IsClosed(Closure[schema]) =>
    /\ Kept \ BuiltIns \subseteq Closure[schema]
    /\ \A i \in DOMAIN calls : Pending(calls[i]) \subseteq Closure[schema]

IndInv == TypeOK /\ NothingMissed /\ OnlyLedTo /\ (pc # "collect" => calls = << >>)
====
