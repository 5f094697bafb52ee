---- MODULE Introspection ----
(***************************************************************************)
(* The answers to __schema and __type (executor.go:603-976), built from a  *)
(* schema's type map.  One builder serves one answer: it describes a type  *)
(* in full where it meets it first, inside the description under way, and  *)
(* refers to it by its name wherever it meets it again.                    *)
(***************************************************************************)
EXTENDS TypeCollection, FiniteSets

CONSTANTS
  Members,          \* Members[s][t]: the types that a description of t holds, in
                    \* the order of its text: the arguments of a field, in any
                    \* order, and its type, field by field, then t's list
  SortedNames,
  OperationTypes,   \* OperationTypes[s]: query, mutation and subscription type
  DirectiveTypes,   \* the types of the arguments, directive by directive
  Whole,            \* the request for __schema
  Requests,         \* Whole, and names that __type is asked for
  NoRequest

\* The names are sorted keys of a map.
ASSUME IntrospectionAssumption ==
  /\ IsFiniteSet(Types)
  /\ Members \in [Schemas -> [Types -> Seq(SUBSET Types)]]
  /\ SortedNames \in Seq(Names) /\ Range(SortedNames) = Names /\ IsInjective(SortedNames)
  /\ OperationTypes \in [Schemas -> Seq(Types)]
  /\ DirectiveTypes \in Seq(SUBSET Types)
  /\ Requests \subseteq Names \cup {Whole}
  /\ NoRequest \notin Names \cup {Whole}

VARIABLES
  request,          \* what is asked, once the schema is made
  entries,          \* the parts of the answer still to build: of each one the
                    \* list it belongs to and the types it holds
  building,         \* for each call of buildTypeObj under way, the stages of
                    \* members it has still to visit
  visited,          \* the types this builder has met
  described,        \* history: the types described in full, in that order
  references        \* history: the entries of the list of types that only
                    \* refer to their type

answerVars == <<request, entries, building, visited, described, references>>

InitAnswer ==
  /\ request = NoRequest
  /\ entries = << >>
  /\ building = << >>
  /\ visited = {}
  /\ described = << >>
  /\ references = {}

Entry(list, types) == [list |-> list, types |-> types]

\* Every type of the map by its name, then the operations' types, then what
\* the directives' arguments are of.
SchemaEntries ==
     [i \in DOMAIN SortedNames |-> Entry("types", typeMap[SortedNames[i]])]
  \o [i \in DOMAIN OperationTypes[schema] |-> Entry("operations", {OperationTypes[schema][i]})]
  \o [i \in DOMAIN DirectiveTypes |-> Entry("directives", DirectiveTypes[i])]

\* A type that is not in the map is answered with null.
TypeEntries(n) == << Entry("type", typeMap[n]) >>

Ask(r) ==
  /\ pc = "done"
  /\ request = NoRequest
  /\ request' = r
  /\ entries' = IF r = Whole THEN SchemaEntries ELSE TypeEntries(r)
  /\ UNCHANGED <<building, visited, described, references>>

AllButLast(t) ==
  SubSeq(Members[schema][t], 1, Len(Members[schema][t]) - 1)
Description(t) == Members[schema][t]

NotMarked(t) == visited
Marked(t) == visited \cup {t}

\* The description of t begins below the calls under way.
Describe(t, calling) ==
  /\ t \notin visited
  /\ visited' = Marked(t)
  /\ described' = Append(described, t)
  /\ building' = Append(calling, Description(t))

Refer(t, calling) ==
  /\ t \in visited
  /\ building' = calling
  /\ UNCHANGED <<visited, described>>

BuildEntry(t) ==
  LET entry == Head(entries)
  IN  /\ building = << >>
      /\ entries # << >>
      /\ t \in entry.types
      /\ Describe(t, << >>) \/ Refer(t, << >>)
      /\ entries' = [entries EXCEPT ![1].types = @ \ {t}]
      /\ references' = IF entry.list = "types" /\ t \in visited
                       THEN references \cup {t} ELSE references
      /\ UNCHANGED request

EndEntry ==
  /\ building = << >>
  /\ entries # << >>
  /\ Head(entries).types = {}
  /\ entries' = Tail(entries)
  /\ UNCHANGED <<request, building, visited, described, references>>

Innermost == building[Len(building)]
IsNextMember(t) ==
  \E i \in DOMAIN Innermost :
    t \in Innermost[i] /\ \A j \in DOMAIN Innermost : j < i => Innermost[j] = {}
Passed(t) ==
  [building EXCEPT ![Len(building)] = [i \in DOMAIN Innermost |-> Innermost[i] \ {t}]]

BuildMember(t) ==
  /\ building # << >>
  /\ IsNextMember(t)
  /\ Describe(t, Passed(t)) \/ Refer(t, Passed(t))
  /\ UNCHANGED <<request, entries, references>>

EndDescription ==
  /\ building # << >>
  /\ Pending(Innermost) = {}
  /\ building' = SubSeq(building, 1, Len(building) - 1)
  /\ UNCHANGED <<request, entries, visited, described, references>>

Build ==
  \/ \E t \in Types : BuildEntry(t) \/ BuildMember(t)
  \/ EndEntry
  \/ EndDescription

AskedInit == Init /\ InitAnswer
Work == (Next /\ UNCHANGED answerVars) \/ (Build /\ UNCHANGED vars)
AskedNext ==
  \/ Work
  \/ (\E r \in Requests : Ask(r)) /\ UNCHANGED vars

\* Making a schema and answering are sequential calls; nobody needs to ask.
AskedSpec ==
  AskedInit /\ [][AskedNext]_<<vars, answerVars>> /\ WF_<<vars, answerVars>>(Work)

----------------------------------------------------------------------------
(* Properties                                                              *)

Complete == request # NoRequest /\ entries = << >> /\ building = << >>

\* The types that the answer is about.
Wanted == IF request = Whole THEN Kept ELSE typeMap[request]

\* Of one name there may be several types; each one that the answer meets is
\* described once, and the whole answer leaves out none of the map's, though it
\* may be inside another type's description, and __type always describes the
\* type it is asked for (executor.go:676-678, 777-789).
DescribesOnce ==
  /\ \A i, j \in DOMAIN described : described[i] = described[j] => i = j
  /\ Complete => Wanted \subseteq Range(described)

\* What the descriptions of a set of a schema's types lead to.
WithMembers(s, S) == S \cup UNION {Pending(Members[s][t]) : t \in S}
LedTo(s, S) ==
  LET led[k \in 0..Cardinality(Types)] == IF k = 0 THEN S ELSE WithMembers(s, led[k - 1])
  IN  led[Cardinality(Types)]

\* Whether an entry of the list of types describes its type does not depend on
\* the order of the maps: it does unless a type listed before it leads there
\* (executor.go:692-702).
ReferencesReached ==
  Complete /\ request = Whole =>
    \A i \in DOMAIN SortedNames : \A t \in typeMap[SortedNames[i]] :
      t \in references <=>
        t \in LedTo(schema, UNION {typeMap[SortedNames[j]] : j \in 1..(i - 1)})

\* A schema is made and a request for it answered, on types that refer to each
\* other in cycles too (schema.go:138, executor.go:676).
Ends == <>(pc = "done") /\ (request # NoRequest ~> Complete)

----------------------------------------------------------------------------
(* The inductive invariant                                                 *)

\* Every variable of the answer stays in its range.
AnswerTypeOK ==
  /\ request \in Requests \cup {NoRequest}
  /\ entries \in Seq([list : {"types", "operations", "directives", "type"}, types : SUBSET Types])
  /\ building \in Seq(Seq(SUBSET Types))
  /\ visited \subseteq Types
  /\ described \in Seq(Types)
  /\ references \subseteq Types

VisitedDescribed ==
  /\ visited = Range(described)
  /\ \A i, j \in DOMAIN described : described[i] = described[j] => i = j

\* The map stays as it is, and what is wanted is described or in an entry to come.
NothingLost ==
  request # NoRequest =>
    /\ pc = "done"
    /\ \A t \in Wanted : t \in visited \/ \E i \in DOMAIN entries : t \in entries[i].types

AnswerInv == IndInv /\ AnswerTypeOK /\ VisitedDescribed /\ NothingLost

\* Of the answer to __schema: how many entries have ended, and what each entry
\* has given so far.
Ended == Len(SchemaEntries) - Len(entries)
TakenFrom(i) ==
  IF i <= Ended THEN SchemaEntries[i].types
  ELSE IF i = Ended + 1 THEN SchemaEntries[i].types \ entries[1].types
  ELSE {}
Taken == UNION {TakenFrom(i) : i \in DOMAIN SchemaEntries}
TypesBefore(i) == UNION {SchemaEntries[j].types : j \in 1..(i - 1)}

\* What is left of the entries is their end; only the first of it is begun.
EntriesInOrder ==
  /\ Len(entries) <= Len(SchemaEntries)
  /\ \A k \in DOMAIN entries :
       /\ entries[k].list = SchemaEntries[Ended + k].list
       /\ entries[k].types \subseteq SchemaEntries[Ended + k].types
       /\ k # 1 => entries[k] = SchemaEntries[Ended + k]

\* What calls of buildTypeObj under way have still to come to.
ToVisit(under) == UNION {Pending(under[j]) : j \in DOMAIN under}
Building == ToVisit(building)

\* The types taken are visited, and of what they lead to everything is that no
\* description under way has still to come to.
VisitedLedTo ==
  /\ Taken \subseteq visited
  /\ visited \cup Building \subseteq LedTo(schema, Taken)
  /\ WithMembers(schema, visited) \subseteq visited \cup Building

ReferencesSoFar ==
  \A i \in DOMAIN SortedNames : \A t \in typeMap[SortedNames[i]] :
    t \in references <=> t \in TakenFrom(i) /\ t \in LedTo(schema, TypesBefore(i))

WholeInv ==
  /\ request = NoRequest =>
       entries = << >> /\ building = << >> /\ visited = {} /\ references = {}
  /\ request = Whole => EntriesInOrder /\ VisitedLedTo /\ ReferencesSoFar
====
