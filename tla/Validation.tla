---- MODULE Validation ----
(***************************************************************************)
(* A request: the rules a document must satisfy (validation.go), and its   *)
(* execution as far as it reads the document (executor.go): the operation, *)
(* the fragments, arguments and variables it looks up, and the types it    *)
(* meets.  A document is a sequence of nodes, its definitions and their    *)
(* selections in the order of the text; a selection names its parent:      *)
(*   [kind |-> "operation", name, sort, vars, dirs]                        *)
(*   [kind |-> "fragment", name, on, dirs]                                 *)
(*   [kind |-> "field", key, name, args, dirs, parent]                     *)
(*   [kind |-> "inline", on, dirs, parent]       (on = None: no condition) *)
(*   [kind |-> "spread", name, dirs, parent]                               *)
(* An argument is its name and the variables its value uses, a directive   *)
(* its name and the word or variable of its "if".  Lists and non-nulls are *)
(* seen through, as UnwrapType does.                                       *)
(***************************************************************************)
EXTENDS FragmentCycles, FiniteSets, SequencesExt

CONSTANTS
  None,
  Content,          \* Content[d]: the nodes of document d
  Kind,             \* the kind of each type in the schema's map
  Fields,           \* Fields[t][f]: the type of field f, and for each of its
                    \* arguments whether it is required
  Possible,         \* the objects a type may be at run time
  Roots,            \* the root type of each sort of operation there is
  Directives,       \* the directives the schema knows
  OperationNames,   \* names a request may ask for
  Variables         \* names of variables

VARIABLES
  pc,               \* "validate", "find", "execute", "done" or "rejected"
  violated,         \* the rules that reported an error
  operation,        \* the operation's node, 0 before it is found
  variables,        \* the coerced values
  pending,          \* the objects whose selections are to be executed
  object,           \* the one whose fields are being collected, or None
  unread,           \* its selections that collectFields has yet to look at: a
                    \* set for each call under way and each field merged
  entries,          \* the fields collected so far under each key
  spreadHere        \* the names of fragments collectFields has met

executionVars == <<operation, variables, pending, object, unread, entries, spreadHere>>
requestVars == <<pc, violated, executionVars>>

Known(t) == t \in DOMAIN Kind
IsComposite(t) == Kind[t] \in {"object", "interface", "union"}
IsLeaf(t) == Kind[t] = "leaf"
IsInput(t) == Kind[t] \in {"leaf", "input"}
Introspective == {"__typename", "__schema", "__type"}

\* What the interface or object promised says of a field, and what an object's
\* own field keeps of it.
Keeps(own, promised) ==
  /\ own.type \in {promised.type} \cup Possible[promised.type]
  /\ DOMAIN promised.args \subseteq DOMAIN own.args
  /\ \A a \in DOMAIN own.args :
       own.args[a] => a \in DOMAIN promised.args /\ promised.args[a]

\* The map has every type a field refers to; a type is one of its own possible
\* types if it is an object, and has some only if it is composite.  Nothing
\* checks it, but a schema's objects have what their interfaces promise.
ASSUME SchemaAssumption ==
  /\ None \notin DOMAIN Kind
  /\ \A t \in DOMAIN Kind :
       /\ Kind[t] \in {"object", "interface", "union", "leaf", "input"}
       /\ Possible[t] \subseteq {o \in DOMAIN Kind : Kind[o] = "object"}
       /\ Kind[t] = "object" => Possible[t] = {t}
       /\ ~IsComposite(t) => Possible[t] = {}
       /\ Kind[t] = "union" => DOMAIN Fields[t] = {}
       /\ \A f \in DOMAIN Fields[t] : Known(Fields[t][f].type)
       /\ Kind[t] = "interface" =>
            \A o \in Possible[t] : \A f \in DOMAIN Fields[t] :
              f \in DOMAIN Fields[o] /\ Keeps(Fields[o][f], Fields[t][f])
  /\ \A s \in DOMAIN Roots : Known(Roots[s]) /\ Kind[Roots[s]] = "object"

----------------------------------------------------------------------------
(* The document                                                            *)

NodesOf(text, kinds) == {n \in DOMAIN text : text[n].kind \in kinds}
DefinitionKinds == {"operation", "fragment"}
SelectionKinds == {"field", "inline", "spread"}

\* The nodes after m and before the next definition.
Following(text, m) ==
  {n \in DOMAIN text : n > m /\ \A k \in (m + 1)..n : text[k].kind \notin DefinitionKinds}

\* A map by name keeps the last of its name.
LastNamed(text, name) ==
  CHOOSE n \in NodesOf(text, {"fragment"}) :
    /\ text[n].name = name
    /\ \A m \in NodesOf(text, {"fragment"}) : text[m].name = name => m <= n

FragmentNames(text) == {text[n].name : n \in NodesOf(text, {"fragment"})}

\* The k-th of a set of numbers, and the spreads within the fragment of a name
\* in the order of its text.
Nth(S, k) == CHOOSE n \in S : Cardinality({m \in S : m <= n}) = k
FragmentSpreads(text, name) ==
  LET within == IF name \in FragmentNames(text)
                THEN Following(text, LastNamed(text, name)) \cap NodesOf(text, {"spread"})
                ELSE {}
  IN  [k \in 1..Cardinality(within) |-> text[Nth(within, k)].name]

ASSUME DocumentAssumption ==
  \A d \in Documents :
    LET text == Content[d]
    IN  /\ Defined[d] = FragmentNames(text)
        /\ \A n \in Names : Spreads[d][n] = FragmentSpreads(text, n)
        /\ Len(text) \in Nat /\ DOMAIN text = 1..Len(text)
        /\ DOMAIN text = NodesOf(text, DefinitionKinds \cup SelectionKinds)
        /\ \A n \in NodesOf(text, {"fragment", "spread"}) : text[n].name \in Names
        /\ \A n \in NodesOf(text, SelectionKinds) :
             /\ text[n].parent \in DOMAIN text \ NodesOf(text, {"spread"})
             /\ n \in Following(text, text[n].parent)

Text == Content[document]
Nodes == DOMAIN Text
OfKind(kind) == NodesOf(Text, {kind})
Operations == OfKind("operation")
Fragments == OfKind("fragment")
Selections == NodesOf(Text, SelectionKinds)
Kids(n) == {s \in Selections : Text[s].parent = n}
Within(definition) == Following(Text, definition)
Fragment(name) == LastNamed(Text, name)

\* The nodes of an operation and of fragments.
Spanned(o, names) == Within(o) \cup UNION {Within(Fragment(n)) : n \in names \cap DefinedHere}

RootType(o) == IF Text[o].sort \in DOMAIN Roots THEN Roots[Text[o].sort] ELSE None
DefinitionType(n) == IF Text[n].kind = "operation" THEN RootType(n) ELSE Text[n].on

\* The type, if any, under which the typed rules look at the selections of node
\* n, met under type t.  The rules about arguments go on with t under a
\* condition that is unknown.
Under(t, n, goesOn) ==
  CASE Text[n].kind = "field" /\ Text[n].name \in DOMAIN Fields[t] -> {Fields[t][Text[n].name].type}
    [] Text[n].kind = "inline" /\ Text[n].on = None -> {t}
    [] Text[n].kind = "inline" /\ Known(Text[n].on) -> {Text[n].on}
    [] Text[n].kind = "inline" /\ Text[n].on # None /\ ~Known(Text[n].on) /\ goesOn -> {t}
    [] OTHER -> {}

TypesAt(types, n, goesOn) ==
  IF Text[n].kind \in DefinitionKinds
  THEN {t \in {DefinitionType(n)} : Known(t)}
  ELSE UNION {Under(t, n, goesOn) : t \in types[Text[n].parent]}
TypesOf(goesOn) == LET types[n \in Nodes] == TypesAt(types, n, goesOn) IN types

\* The types under which a selection is met, and those that have the field.
TypesOver(s, goesOn) == TypesOf(goesOn)[Text[s].parent]
TypesWith(s, goesOn) ==
  {t \in TypesOver(s, goesOn) : Text[s].name \in DOMAIN Fields[t] \ Introspective}

\* The names of the fragments that an operation leads to by its spreads and
\* those of the fragments, if need be only by the spreads that are met: the names
\* that no closed set of names is without.
Closed(names, o, onlyMet) ==
  \A s \in Spanned(o, names) \cap OfKind("spread") :
    (onlyMet => TypesOver(s, TRUE) # {}) => Text[s].name \in names
LedTo(o, onlyMet) ==
  {n \in Names : ~\E names \in SUBSET (Names \ {n}) : Closed(names, o, onlyMet)}

ReachedBy(o) == LedTo(o, FALSE)
Executed(o) == Spanned(o, ReachedBy(o))

\* The rules about arguments start from the operations.
MetBy(o) == Spanned(o, LedTo(o, TRUE))
OwnSelections == UNION {Within(o) : o \in Operations}
MetByOperations == UNION {MetBy(o) : o \in Operations}

NamesOf(q) == {x.name : x \in Range(q)}
NamesDiffer(q) == \A i, j \in DOMAIN q : q[i].name = q[j].name => i = j
Distinct(S) == \A m, n \in S : Text[m].name = Text[n].name => m = n

----------------------------------------------------------------------------
(* The rules                                                               *)

UniqueOperationNames == Distinct({o \in Operations : Text[o].name # None})
LoneAnonymousOperation == \A o, p \in Operations : Text[o].name = None => p = o
KnownTypeNames ==
  /\ \A f \in Fragments : Known(Text[f].on)
  /\ \A s \in OfKind("inline") : Text[s].on # None => Known(Text[s].on)
FragmentsOnCompositeTypes ==
  \A f \in Fragments : Known(Text[f].on) => IsComposite(Text[f].on)
UniqueFragmentNames == Distinct(Fragments)
KnownFragmentNames == \A s \in OfKind("spread") : Text[s].name \in DefinedHere
NoUnusedFragments == DefinedHere \subseteq UNION {ReachedBy(o) : o \in Operations}
NoFragmentCycles == blamed = {}
FieldsOnCorrectType ==
  \A s \in OfKind("field") : \A t \in TypesOver(s, FALSE) :
    Text[s].name \in DOMAIN Fields[t] \cup Introspective
ScalarLeafs ==
  \A s \in OfKind("field") : \A t \in TypesWith(s, FALSE) :
    IsLeaf(Fields[t][Text[s].name].type) <=> Kids(s) = {}
KnownArgumentNames ==
  \A s \in MetByOperations \cap OfKind("field") : \A t \in TypesWith(s, TRUE) :
    NamesOf(Text[s].args) \subseteq DOMAIN Fields[t][Text[s].name].args
UniqueArgumentNames == \A s \in OfKind("field") : NamesDiffer(Text[s].args)
ProvidedRequiredArguments ==
  \A s \in MetByOperations \cap OfKind("field") : \A t \in TypesWith(s, TRUE) :
    LET args == Fields[t][Text[s].name].args
    IN  \A a \in DOMAIN args : args[a] => a \in NamesOf(Text[s].args)
UniqueVariableNames == \A o \in Operations : NamesDiffer(Text[o].vars)

\* The variables that the arguments of an operation's fields use.
UsesOf(S) == UNION {a.uses : a \in UNION {Range(Text[s].args) : s \in S \cap OfKind("field")}}
OwnVariables(o) == UsesOf(Within(o))
UsedVariables(o) == UsesOf(Executed(o))
NoUndefinedVariables == \A o \in Operations : UsedVariables(o) \subseteq NamesOf(Text[o].vars)
NoUnusedVariables == \A o \in Operations : NamesOf(Text[o].vars) \subseteq UsedVariables(o)

KnownDirectives == \A n \in Nodes : NamesOf(Text[n].dirs) \subseteq Directives
UniqueDirectivesPerLocation == \A n \in Nodes : NamesDiffer(Text[n].dirs)
VariablesAreInputTypes ==
  \A o \in Operations : \A v \in Range(Text[o].vars) : Known(v.type) => IsInput(v.type)

Report(rule, holds) == IF holds THEN {} ELSE {rule}
Broken ==
  Report("UniqueOperationNames", UniqueOperationNames)
  \cup Report("LoneAnonymousOperation", LoneAnonymousOperation)
  \cup Report("KnownTypeNames", KnownTypeNames)
  \cup Report("FragmentsOnCompositeTypes", FragmentsOnCompositeTypes)
  \cup Report("UniqueFragmentNames", UniqueFragmentNames)
  \cup Report("KnownFragmentNames", KnownFragmentNames)
  \cup Report("NoUnusedFragments", NoUnusedFragments)
  \cup Report("NoFragmentCycles", NoFragmentCycles)
  \cup Report("FieldsOnCorrectType", FieldsOnCorrectType)
  \cup Report("ScalarLeafs", ScalarLeafs)
  \cup Report("KnownArgumentNames", KnownArgumentNames)
  \cup Report("UniqueArgumentNames", UniqueArgumentNames)
  \cup Report("ProvidedRequiredArguments", ProvidedRequiredArguments)
  \cup Report("UniqueVariableNames", UniqueVariableNames)
  \cup Report("NoUndefinedVariables", NoUndefinedVariables)
  \cup Report("NoUnusedVariables", NoUnusedVariables)
  \cup Report("KnownDirectives", KnownDirectives)
  \cup Report("UniqueDirectivesPerLocation", UniqueDirectivesPerLocation)
  \cup Report("VariablesAreInputTypes", VariablesAreInputTypes)

----------------------------------------------------------------------------
(* Execution                                                               *)

\* The operation a request asks for: the only one, or the last of its name.
Found(name) ==
  {o \in Operations :
     IF name = None
     THEN Operations = {o}
     ELSE Text[o].name = name /\ \A p \in Operations : Text[p].name = name => p <= o}

\* What a request may give for a variable.
Inputs == {"true", "false", "null", "wrong", "absent"}
Coercible(v, input) ==
  /\ Known(v.type)
  /\ input # "wrong"
  /\ v.required => input \notin {"null", "absent"}
Coerced(o, inputs) ==
  [v \in {v \in NamesOf(Text[o].vars) : inputs[v] # "absent"} |-> inputs[v]]

\* The value of a directive's "if": a variable without a value has none.
Condition(x) == IF x \in DOMAIN variables THEN variables[x] ELSE x
Skipped(s) ==
  \E d \in Range(Text[s].dirs) : \/ d.name = "skip" /\ Condition(d.if) = "true"
                                 \/ d.name = "include" /\ Condition(d.if) = "false"

Applies(on, t) == on \in {None, t} \/ (Known(on) /\ t \in Possible[on])

\* The fields that answer under one key; only the first is resolved.
Entry(key) == IF key \in DOMAIN entries THEN entries[key] ELSE << >>
Mixes(entry) == \E i \in DOMAIN entry : Text[entry[i]].name # Text[entry[1]].name

\* The selections of an entry's fields; the last are looked at first.
SubSelections(entry) == [i \in 1..Len(entry) |-> Kids(entry[Len(entry) + 1 - i])]

\* The objects a field may resolve to.
Objects(entry) ==
  {[type |-> t, mixed |-> object.mixed \/ Mixes(entry), sels |-> SubSelections(entry)] :
     t \in IF /\ Text[entry[1]].name \in DOMAIN Fields[object.type] \ Introspective
              /\ \E i \in DOMAIN entry : Kids(entry[i]) # {}
           THEN Possible[Fields[object.type][Text[entry[1]].name].type]
           ELSE {}}

RequestInit ==
  /\ document \in Documents
  /\ InitSearch
  /\ pc = "validate"
  /\ violated = {}
  /\ operation = 0
  /\ variables = << >>
  /\ pending = {}
  /\ object = None
  /\ unread = << >>
  /\ entries = << >>
  /\ spreadHere = {}

SearchCycles ==
  /\ pc = "validate"
  /\ Search
  /\ UNCHANGED <<document, requestVars>>

Validate ==
  /\ pc = "validate"
  /\ ~searching
  /\ violated' = Broken
  /\ pc' = IF violated' = {} THEN "find" ELSE "rejected"
  /\ UNCHANGED <<document, searchVars, executionVars>>

\* Without an operation, or a value that fits its type for each of its
\* variables, the request is answered at once.
Fail(name, inputs) ==
  /\ pc = "find"
  /\ \A o \in Found(name) :
       \/ \E v \in Range(Text[o].vars) : ~Coercible(v, inputs[v.name])
       \/ RootType(o) = None
  /\ pc' = "done"
  /\ UNCHANGED <<document, searchVars, violated, executionVars>>

Begin(name, inputs) ==
  /\ pc = "find"
  /\ \E o \in Found(name) :
       /\ \A v \in Range(Text[o].vars) : Coercible(v, inputs[v.name])
       /\ RootType(o) # None
       /\ operation' = o
       /\ variables' = Coerced(o, inputs)
       /\ pending' = {[type |-> RootType(o), mixed |-> FALSE, sels |-> << Kids(o) >>]}
  /\ pc' = "execute"
  /\ UNCHANGED <<document, searchVars, violated, object, unread, entries, spreadHere>>

\* The fields of an object are collected: collectFields is called.
Collect(w) ==
  /\ pc = "execute"
  /\ object = None
  /\ object' = w
  /\ pending' = pending \ {w}
  /\ unread' = w.sels
  /\ UNCHANGED <<document, searchVars, pc, violated, operation, variables, entries, spreadHere>>

\* It looks at selection s next, of those that its call i has yet to look at.
LooksAt(i, s) ==
  /\ pc = "execute"
  /\ object # None
  /\ \A j \in DOMAIN unread : j > i => unread[j] = {}
  /\ \A x \in unread[i] : s <= x
  /\ UNCHANGED <<document, searchVars, pc, violated, operation, variables, pending, object>>
Rest(i, s) == [unread EXCEPT ![i] = @ \ {s}]

PassOver(i, s) ==
  /\ LooksAt(i, s)
  /\ Skipped(s)
  /\ unread' = Rest(i, s)
  /\ UNCHANGED <<entries, spreadHere>>

AddField(i, s) ==
  /\ LooksAt(i, s)
  /\ ~Skipped(s)
  /\ s \in OfKind("field")
  /\ unread' = Rest(i, s)
  /\ LET key == Text[s].key
     IN  entries' = [k \in DOMAIN entries \cup {key} |->
                       IF k = key THEN Append(Entry(k), s) ELSE Entry(k)]
  /\ UNCHANGED spreadHere

EnterInline(i, s) ==
  /\ LooksAt(i, s)
  /\ ~Skipped(s)
  /\ s \in OfKind("inline")
  /\ unread' = IF Applies(Text[s].on, object.type) THEN Append(Rest(i, s), Kids(s)) ELSE Rest(i, s)
  /\ UNCHANGED <<entries, spreadHere>>

\* A fragment is visited once.
EnterFragment(i, s) ==
  /\ LooksAt(i, s)
  /\ ~Skipped(s)
  /\ s \in OfKind("spread")
  /\ LET n == Text[s].name
     IN  /\ unread' = IF n \notin spreadHere /\ n \in DefinedHere /\ Applies(Text[Fragment(n)].on, object.type)
                      THEN Append(Rest(i, s), Kids(Fragment(n)))
                      ELSE Rest(i, s)
         /\ spreadHere' = spreadHere \cup {n}
  /\ UNCHANGED entries

CollectFields ==
  \E i \in DOMAIN unread : \E s \in unread[i] :
    PassOver(i, s) \/ AddField(i, s) \/ EnterInline(i, s) \/ EnterFragment(i, s)

\* Each field is resolved: to null, an object or a list of objects.
ResolveFields ==
  /\ pc = "execute"
  /\ object # None
  /\ \A i \in DOMAIN unread : unread[i] = {}
  /\ \E objects \in SUBSET UNION {Objects(entries[k]) : k \in DOMAIN entries} :
       pending' = pending \cup objects
  /\ object' = None
  /\ unread' = << >>
  /\ entries' = << >>
  /\ spreadHere' = {}
  /\ UNCHANGED <<document, searchVars, pc, violated, operation, variables>>

Answer ==
  /\ pc = "execute"
  /\ object = None
  /\ pending = {}
  /\ pc' = "done"
  /\ UNCHANGED <<document, searchVars, violated, executionVars>>

RequestNext ==
  \/ SearchCycles
  \/ Validate
  \/ \E name \in OperationNames \cup {None}, inputs \in [Variables -> Inputs] :
       Fail(name, inputs) \/ Begin(name, inputs)
  \/ \E w \in pending : Collect(w)
  \/ CollectFields
  \/ ResolveFields
  \/ Answer

\* Do runs in one goroutine, and a concurrent execution waits for all it starts.
RequestSpec ==
  /\ RequestInit
  /\ [][RequestNext]_<<document, searchVars, requestVars>>
  /\ WF_<<document, searchVars, requestVars>>(RequestNext)

----------------------------------------------------------------------------
(* Properties                                                              *)

Collected == UNION {Range(entries[k]) : k \in DOMAIN entries}

\* Whatever types the objects have at run time, and however the selections of
\* fields under one key are merged, a valid document asks an object only for
\* fields it has, with arguments they have and all they require, and selects
\* from composites only (validation.go:299-663).  Except below a key that names
\* two fields: no rule forbids it, and the first one's objects are then asked
\* for what the other's selection says (executor.go:347, 578-588).
WellTyped ==
  object # None /\ ~object.mixed =>
    \A s \in Collected :
      \/ Text[s].name \in Introspective
      \/ /\ Text[s].name \in DOMAIN Fields[object.type]
         /\ LET own == Fields[object.type][Text[s].name]
            IN  /\ NamesOf(Text[s].args) \subseteq DOMAIN own.args
                /\ \A a \in DOMAIN own.args : own.args[a] => a \in NamesOf(Text[s].args)
                /\ IsLeaf(own.type) <=> Kids(s) = {}

\* The operation, the fragments, the arguments and the variables that an
\* execution looks up by name have one definition each, although every map it
\* looks them up in would silently keep the last of several (executor.go:96,
\* values.go:276), or go on without one (executor.go:272).
NamesResolveOnce ==
  object # None =>
    /\ \A o \in Operations \ {operation} : Text[o].name \notin {None, Text[operation].name}
    /\ \A n \in spreadHere : Cardinality({f \in Fragments : Text[f].name = n}) = 1
    /\ \A s \in Collected :
         /\ NamesDiffer(Text[s].args)
         /\ \A v \in UsesOf({s}) :
              LET declared == Text[operation].vars
              IN  Cardinality({i \in DOMAIN declared : declared[i].name = v}) = 1

\* A request is rejected or answered, even if the data are cyclic: execution
\* follows the document, and the search for cycles of fragments keeps every
\* document finite (validation.go:240, executor.go:588).
RequestEnds == <>(pc \in {"rejected", "done"})

----------------------------------------------------------------------------
(* Why they hold: the inductive invariant                                  *)

\* Nothing is executed before the document is found valid.
Phases ==
  /\ pc \in {"validate", "find", "execute", "done", "rejected"}
  /\ pc \in {"find", "execute", "done"} => Broken = {}
  /\ pc = "execute" => operation \in Operations
  /\ pc # "execute" => pending = {} /\ object = None
  /\ object = None => entries = << >> /\ spreadHere = {}

\* Selection s was looked at by the rules if operation o asks an object of type
\* t for it: as one that o executes and, unless a key above it names two fields,
\* under a type that t may be.
Fits(o, s, t, mixed) ==
  /\ s \in Selections \cap Executed(o)
  /\ ~mixed =>
       /\ s \in MetBy(o)
       /\ TypesOver(s, FALSE) = TypesOver(s, TRUE)
       /\ \E u \in TypesOver(s, TRUE) : t \in Possible[u]

AllFit(o, sels, t, mixed) ==
  /\ mixed \in BOOLEAN
  /\ sels \in Seq(SUBSET Selections)
  /\ \A i \in DOMAIN sels : \A s \in sels[i] : Fits(o, s, t, mixed)

PendingFit == \A w \in pending : AllFit(operation, w.sels, w.type, w.mixed)
UnreadFit == object # None => AllFit(operation, unread, object.type, object.mixed)
EntriesFit ==
  object # None =>
    \A k \in DOMAIN entries :
      /\ entries[k] \in Seq(OfKind("field"))
      /\ entries[k] # << >>
      /\ \A i \in DOMAIN entries[k] : Fits(operation, entries[k][i], object.type, object.mixed)
SpreadsFit == spreadHere \subseteq DefinedHere

RequestInv ==
  /\ document \in Documents
  /\ Phases
  /\ PendingFit
  /\ UnreadFit
  /\ EntriesFit
  /\ SpreadsFit
====
