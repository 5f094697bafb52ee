# A verification project for gqlx

gqlx is a GraphQL engine in Go with a federation gateway: it parses and
validates a request, executes it serially or with a goroutine per field, runs
subscriptions, and composes several schemas into one supergraph whose fields are
resolved across subgraphs. This directory models its core in TLA+, checks the
models with TLC and proves theorems about them with TLAPS. `PROJECT.json` maps
every definition to the lines it translates.

## 1. The system

| Component (source) | State it keeps | Operations | What makes it correct |
|---|---|---|---|
| Subscription (`subscription.go`) | per subscription: `done`, `Results`, `sync.Once`, the source iterator's `closed` flag | `Subscribe`, `Cancel`, the pump goroutine, the two iterator adapters | order, no loss without a cancel, one close of each channel, release of everybody who waits |
| Executor (`executor.go` 1-600) | per request: the error list and its mutex; per selection set: a `WaitGroup` and two slices | `Execute`, `executeFields*`, `resolveField`, `complete*Value`, `addError` | the answer is a function of what resolvers answer; nothing outlives its parent; mutations stay serial |
| Entity resolution (`gateway.go` 371-430) | a cache entry inside each source object | the resolver closures composition creates | one fetch per object and subgraph; siblings see one entity |
| Composition (`gateway.go` 84-253, 345-369, 475-500; `federation.go`) | merged types, field owners, root types | `NewGateway`, `compose` | the result does not depend on the order of Go's maps; a field's owner is who defines it |
| Entity cycle search (`gateway.go` 255-343) | colors, parents, the DFS stack | `detectEntityCycles` | accepts no cycle, reports one that exists, ends |
| Query planner and plan executor (`planner.go`) | the plan tree; per run: errors and a mutex | `Plan`, `ExecutePlan`, flattening, shaping | a planned request answers what direct execution answers, nothing is asked for twice |
| Schema and types (`schema.go`, `types.go`; `gateway.go` 85-163, 433-466) | the type map, implementations | `NewSchema`, `collectTypes`, `rewriteTypeRef`, type predicates | every type that can be reached is in the map, closed under references, whatever the order |
| Validation (`validation.go`) | visited sets and paths of its traversals | `Validate`, 19 rules | what passes can be executed: fields exist, names resolve to one definition, fragments end |
| Values and scalars (`values.go`, `scalars.go`) | none | coercion of variables, arguments and results | a variable that does not fit stops the request; integer ranges |
| Parser and lexer (`parser.go`, `lexer.go`, `token.go`, `ast.go`) | the lexer's position; the parser's current token and its calls | `Parse`, `NextToken` | accepts the grammar and nothing else; returns |
| Introspection (`executor.go` 601-988) | per answer: the set of types met | `buildIntrospectionSchema`, `resolveIntrospectionType` | ends on recursive types, describes each once, leaves none out |
| Directives, errors, entry points (`directives.go`, `errors.go`, `graphql.go`) | none | constant tables, formatting, `Do` | |

Interactions. `Do` and `Gateway.Execute` call `Parse`, `Validate` and
`Executor.Execute` in a row. The gateway hands the executor a supergraph whose
resolvers are closures over the subgraphs, so the executor's goroutines and the
closures meet in the *source object*, a Go map that carries the entity cache. A
subscription uses the executor's `completeValue` once per event. The planner
keeps the executor for the work inside a subgraph and merges what comes back.

What is hard: goroutines per field with errors that travel up through their
parents (executor); four kinds of goroutine around two selects and a `Once`
(subscription); state cached in an object whose life nobody controls (entity
resolution); Go's random map order (composition, both cycle searches, `collectTypes`); errors
that a caller ignores (parser); rules that must add up to a document that can be executed (validation);
a tree that is cut apart, fetched in pieces and put together again (planner).
`PROJECT.json` lists the hazards line by line with the properties that cover them.

## 2. Modules

Every row of the table but the tables and formatting of the last one is modelled at least in part.

```
EventStream <------ Subscription ----- MCSubscription, SubscriptionProofs
ResponseTree <----- Response <-------- Executor --- MCExecutor, ExecutorProofs
                    EntityResolver --- MCEntityResolver, EntityResolverProofs
                    EntityCycles ----- MCEntityCycles, EntityCyclesProofs
Subgraphs <-------- Supergraph <------ Composition --- MCComposition, CompositionProofs
FederatedQuery <--- FederatedResponse <- Planner ----- MCPlanner, PlannerProofs
Grammar <---------- Parser (Lexer) --- MCParser
                    SupergraphTypes (TypeCollection, MergedTypes), Introspection (TypeCollection)
                                   --- MCTypeCollection, SchemaProofs
                    Validation (FragmentCycles) --- MCValidation, ValidationProofs
```

Parentheses name what a module extends. An arrow points to the abstract side: `EventStream`, `Response`, `Supergraph` and
`FederatedResponse` say what a component promises, and the module to their right is shown to
implement it by a refinement mapping (`INSTANCE ... WITH`). `Grammar` is the declarative
definition that `Parser`'s decisions are compared with.

### Subscription

`pc` is the pump goroutine (subscription.go:153-180) and follows its
statements: `next` tests the adapter's flag or `done`, `call` stands between that
test and a user's `Next`, `wait` is inside `reflect.Select` or the user's `Next`,
`complete` and `deliver` are lines 169-176, `closeIter` and `closeResults` the
deferred calls in their order. `cpc[c]` is a goroutine inside `Cancel`, `once` the
three states of `sync.Once` (a second caller waits while the first runs). `sent`
and `queued` are the source, which is user code: a channel of capacity `Cap`, whose
blocked sender counts as one more place, or an iterator. A select with two ready
cases is a choice between two actions. `Reject` stands for the twelve checks of
`Subscribe`; each one only returns an error. What `completeValue` makes of an
event (a value, a null, an error) is a choice; that computation is the
executor's. `received` and `late` are history variables.

`EventStream` says: events come out in order, each once; the stream may end with
one failure; it closes early only after a cancellation. The mapping takes
`received` for `out`, `done` for `canceled` and `resultsClosed` for `closed`.

### Executor

The positions of one response (fields, list items, and the root selection set as
position 0) form a constant tree in document order; `st[p]` says where the call or
goroutine that completes position `p` stands: `resolve` up to the nested selection
set, `lock` and `append` inside `addError`, `wait` in the loop or `wg.Wait`, `done`.
`plan` is what user code answers at each position, chosen in `Init`, so one state
graph contains every combination of answers. `Parallel(p)` decides
between `executeFieldsConcurrently` and the serial loops; `GivesUp` is the early
return of `completeListValue`. The append to the error list is split at its read
(`slot`), so that without the mutex errors would really be lost. A subscription
operation given to `Execute` runs like a query. `Reject` stands for the five
checks before anything runs.

`Response` defines data and errors as functions of `plan` alone (`ValueOf`,
`ReachedBy`): no order, no goroutine. `ResponseTree` holds what the two share: the
tree, when a position is at fault and what it completes to given its children.

Errors are positions: message and location are left out, and the code records at
most one error per position. Field collection (`collectFields`, fragments, `@skip`)
happens before execution and gives the tree; `Validation` models it.

### EntityResolver

One closure of `makeEntityFieldResolver` per request and field. `probe` reads the
source object (the fast path, the cache, the key fields), `resolver` is inside the
subgraph's reference resolver, `store` writes the cache. An entity is a pair: the
version of the subgraphs' data when it was built, and the representation it
was built from. `Change` is any mutation of that data. `Shared` says whether the
parent resolver returns a fresh object each time or one it keeps. A request calls
the resolvers of its fields one after the other, in any order, because
`Gateway.Execute` does not set `Concurrent`. A nil answer, an error and an answer that
is not a map are not cached, as in the code. The planner's own entity fetches are
another path (`Planner`).

### EntityCycles

The recursive `dfs` with its stack made explicit: `stack` holds the calls
under way, `left[t]` the neighbors that `t`'s range has still to visit, in any order.
`TraceBack` and `Reject` rebuild and reverse the path (302-316). `parent` is a set of
at most one type, the map's missing key being the empty set. `finished` is a history
variable: the order in which types became black, which the proof needs.

### Composition

`compose` phase by phase. Phase 1 is stepwise (subgraph, type, field) with the two
map ranges in any order: `definition[t][f]` is the subgraph whose definition the
merged type holds, `owner[t][f]` is `fieldOwner`. The later phases loop over maps
too, but each of their iterations writes an entry of its own and reads none that
another writes, so each phase is one action. The cycle search is used here by its
result (`EntitiesAcyclic`); `EntityCycles` shows that the search computes it.
Types, fields and resolvers are names; of enums, interfaces, arguments and
descriptions nothing is kept. `MergedTypes` below is narrower still: every subgraph declares every name there, where
the code takes the first subgraph that declares it. `rewriteTypeRef` is about pointers and belongs to `MergedTypes`. `NewSubgraph`'s checks of its own configuration are left out.

`Supergraph` says, in one step: each field is defined by the first subgraph that
owns it (or the first that declares it when nobody does), it is resolved by the
owner, and composition fails exactly when metadata or references are not valid.
It takes the first subgraph's query type, which is what the code does when the names agree.

### Planner

`FederatedQuery` is an operation (a tree of fields, `op`) and what the subgraphs'
code answers at each position of its response (`answers`: null or an error in at most
`MaxFaults` places, both chosen in `Init`). The fields are those of the text, after fragments;
several may have one response key, and `place` is then the number of the first of them. The executor merges them
(`collectFields`), the planner does not: it plans, fetches and shapes each by itself, so its plan is about nodes, while
what a fetch brings (`Collected`, which is the executor's work) and the positions are about places.
`Lost` is what a list that `deepMerge` puts in the place of another takes with it, `added` the keys that were injected into
the tree, `Wins` says which of the fields of one key `shapeInto` leaves in the response. `Planner` translates `planner.go`: a
fetch `<<m, s>>` is the part of node `m`'s selection set that subgraph `s` resolves, so
the plan is a function of the operation (`FetchOf`, `Flattens` with the order in
which they are appended, `Injected`) and the recursion of its execution is a stack of
calls (`todo`). `Sorted` gives such an order as a sequence, without recursion. `Select` is `executeSelection` with the merge; `Flatten` is
`applyFlatten` up to the loop over its targets: collecting objects below the current
one, building representations from what their maps hold *under the key's name*
(`HeldUnder`), and calling the reference resolver one by one or once for all. `Shape`
rebuilds the response from the operation. Errors are the places that report them.

`FederatedResponse` says what `Gateway.Execute` answers for the same operation and
answers, as a function: a field shows when everything above it does and one of the fields
of its place is not left out, and a field of another subgraph needs its entity unless the object carries it. It refuses
exactly the operations in which an entity cannot be reached. Both sides are
given the same answers: that a reference resolver and a batch resolver agree, and
that a subgraph's objects carry what its own resolvers need, is user code. `QueryAssumption` says that fields
that repeat a response key are the same field with the same arguments, which GraphQL demands and no rule of
validation.go checks, and that below them no other field takes a key's name: then one value stands under one key, whoever brought it.

Narrower than the code: a `BatchResolver` answers nil for single entities, but its error, which drops a
whole batch (planner.go:572-575), and an answer shorter than the batch are left out; errors are a set of the places
that report them, so the second report of a failure that two fetches meet is not counted.

### Parser, Lexer, Grammar

`Lexer` is `NextToken` as an operator on what is left of the source, a sequence of character
classes: the readers of names, numbers, strings and block strings with the place at which
each stops or reports an error. `Parser` makes the recursive descent's stack of calls explicit
(`calls`, what is still to be done, innermost first): a parse function is replaced by its body, a loop
by one item and itself. `Expect` and a syntax error return at once; `Skip` is an `advance` whose error
the code drops (`skip`, `parseValue`, the `[` of a list and others): the current token stays and the
parser goes on. The source is written while it is read, a lexeme at a time out of `Lexemes`, up to `MaxLexemes`;
`err` is `p.err`, which the code never reads. `MaxCalls` bounds the stack.

`Grammar` says with sets of token sequences what a sentence, a prefix of one and a lexeme are,
without lookahead or stack. As in the code, and unlike in the GraphQL specification, `{}` and `()` may be
empty. Left out: lines and columns, `blockStringValue`'s indentation, a block string
that ends with the source, the tree. The lexer reads `01` as two Ints.

### TypeCollection, MergedTypes, SupergraphTypes, Introspection

`TypeCollection` is `NewSchema`: types are objects with an identity and a name, which need not be unique.
`calls` is the stack of `collectTypes`, each call with the stages of types it has still to visit, one
stage after the other and each in any order (a range over a map of fields or arguments). Lists
and non-nulls are seen through, as the code does first. Nameless types are left out.

`MergedTypes` gives the type objects that `compose` creates: a copy of each object, merged from the
subgraphs and with rewritten references, beside the subgraphs' own objects, interfaces and unions, whose
references `rewriteTypeRef` leaves alone. `SupergraphTypes` instantiates the collection with them. A
merged object lists only the first subgraph's interfaces (gateway.go:132).

`Introspection` continues where `NewSchema` ends: `Ask` is `__schema` or `__type(name:)` on the
finished map; `building` is the stack of `buildTypeObj`, `visited` the builder's set. `Describe`
and `Refer` are the two outcomes of the test at executor.go:778. `Members` gives what a
description holds, field by field in alphabetical order, the arguments of one field in any order.

### FragmentCycles, Validation

`FragmentCycles` is `validateNoFragmentCycles` and `detectFragmentCycle` with the recursion as a stack. `visited`
is shared by all starts of the search, `path` belongs to one; a fragment that nobody defines stays on it, as in the code.

`Validation` takes a request from its document to its answer. A document is a sequence of nodes, its definitions
and selections in the order of the text, where each selection names its parent: what the code finds by descending is
then a set or a function of numbers (`Kids`, `Within`), and nothing is recursive but `TypesOf`, from a node to its
parent. After the search for cycles each of the other
rules is a predicate on the document, named like the code's, over the selections that its
traversal meets: under which types (`TypesOf`, a set, empty where the traversal does not come to), whether it
follows spreads (`LedTo`: the names that every set of names closed under the spreads it meets must have), and whether it goes
on under an unknown type condition (`goesOn`). `Found` and `Coercible` are the choice of the
operation and of the variables' values. `Collect` calls `collectFields` for an object, and `PassOver`, `AddField`,
`EnterInline` and `EnterFragment` are what one pass of its loop does: `unread` has a set of selections for each call under way and for each
field merged, the innermost last, and always the first of the last nonempty one is looked at. `ResolveFields` resolves what was collected; the
type of an object at run time and whether it is null are choices, within the schema: `ResolveType` is user code and taken to
answer a possible type, which executor.go:527-538 does not check. Fields of one key may have different names, which no rule
forbids; `WellTyped` exempts the objects below such a key. The order in which objects are executed is `Executor`'s
subject; here they wait in a set.

`SchemaAssumption` says that types refer to types of the map, and that objects have what their interfaces promise: the rules about
fields rest on it, and nothing in the code checks it. `DocumentAssumption` says how nodes are numbered, that
spreads have no selections, and how `FragmentCycles`' constants are read off the text.

## 3. Runs that pass

Every run turns deadlock checking off, because in every component the work ends:
a consumer is told that `Results` is closed, a request is answered, a composition
returns. That nothing stops earlier is what the liveness properties say.

| Run | Question | States |
|---|---|---|
| `subscription` | Does a subscription with two cancelers keep its promises in every interleaving, and release everybody? | 154,446 |
| `executor` | For `{ nodes: [Node!] { ... on User { id! friend { id } } } total! }`, query and mutation: does the response depend on the schedule, does `MaxDepth` cut where it should, is every request answered? | 199,752 |
| `entity_safety` | Two requests, three entity fields in two subgraphs, fresh source objects, changing data | 391,066 |
| `cycles` | All 4096 reference graphs on four entity types, in all visiting orders | 574,504 |
| `planner` | Does a planned operation answer what direct execution answers, and what becomes of repeated response keys? Eight operations, every two faults | 22,823 |
| `composition` | All ways to declare two fields in three subgraphs, and all mixes of metadata, entities and mutations, in all map orders | 38,601 |
| `parser` | Does `Parse` accept the grammar and nothing else, and return, with errors of the lexer that it drops? | 194,663 |
| `types` | What does a schema's type map hold, alone and composed of two subgraphs, and what does introspection answer? | 47,547 |
| `validation` | Can every document that passes be executed, whatever its variables and the types at run time? | 71,291 |

**`subscription`** checks `NoPanic` (a channel is closed once, though Cancel is
called by many), `AtMostOneLate` (after a `Cancel` has returned at most one more result
arrives: the code allows one, because both cases of a select may be ready, and the
pump's next test of `done` stops it), `CompleteUnlessCanceled` (closed early only by
a cancel), the refinement `ImplementsStream`, and the liveness
`CancelStops`, `EndIsSeen`, `CancelReturns` and `SenderReleased`. Bounds: `MaxEvents`
= 3 and `Cap` = 1 let the queue be empty, partly full and full with a blocked
sender, and an event wait behind the one being delivered; a fourth event repeats
a state of the pump. Two cancelers are needed and enough to race inside `Once`.
`CloseUnblocks` is TRUE: the user's iterator returns from `Next` when it is closed,
with EOF or with an error of its own; section 4 says what happens otherwise.

**`executor`** checks `Structured`, `SerialMutation`, `ErrorsOnce`, `Propagated`,
`OrderedErrors`, `DepthLimit`, `ImplementsResponse` and `Answered` (no goroutine waits for
ever). Its seven positions are a nullable list of two non-null items, of which
one has a non-null and a nullable field and an object deeper than `MaxDepth` = 1, beside a
non-null root field: the places where a failure stops, goes on, ends a
loop early, or meets another at the root. Every position may hold a value, a null or an
error, and every combination of them is an initial state.

**`entity_safety`** checks `NoRace`, `FetchedOnce` and `SiblingsAgree`.
Two fields share a subgraph and one is alone, one source carries all keys and
one lacks one, one field is in the source already: every branch of the closure fires.
Two versions of the data distinguish old from new. The two requests are
interchangeable (`SYMMETRY`; the run has no liveness property).

**`cycles`**: four types hold two disjoint cycles, a cycle with a tail, and a
diamond, the shapes in which a wrong color is noticed. `AcceptsOnlyAcyclic`,
`ReportsCycle` (the path is a walk that returns to its start), `Decides`.

**`composition`**: three subgraphs are the least with a first, a later and a last
owner; two fields are the least with which the order of a map's range differs.
`ComposesSupergraph` is the refinement of `Supergraph`.

**`planner`** checks `MatchesDirect` (the refinement of `FederatedResponse`, for the five operations that
repeat no response key), and for all eight `EachFetchAsksOnce`, `KeysInjected` and `NothingInvented`: what is
answered with repeated keys is part of what direct execution answers, with nulls for what was lost. Three operations repeat
response keys: at two depths, in lists that replace each other, across subgraphs, and beside a field that a directive leaves out. The operations contain a list inside a list with
an entity of an entity, an object that belongs to three subgraphs, a way back
to the first subgraph, an alias, a skipped field, a selected key of another
subgraph, and the two reasons to reject. Two items per list are the least that
have an order and a wrong neighbor; two faults are the least with which one
can hide another. No operation hides a key: `KeysInjected` does not reach planner.go:329's exceptions (section 4).

**`parser`** checks `ParsesTheGrammar` (accepted is a sentence, rejected begins none, as
long as the lexer reports nothing), `LongestLexeme`, and `Returns`. The seven openings lead
into every part of the syntax; four lexemes after an opening are enough to open a construct, fill it, close it
and see one token more; broken numbers and strings are errors the lexer gets past.
A character it does not get past is in the run `parser_lexical_error` only.

**`types`**: one subgraph, or two that share objects, an interface, a union and an enum
whose references vary (312 type systems, cycles among them). `ClosedUnderReferences`
and `CollectsReachable` are about every schema, `HiddenByAbstractOnly` about
supergraphs. Each schema is then asked for `__schema`, an object or a union: `DescribesOnce`,
`ReferencesReached`, and `Ends` for both. `ReferencesReached` says what a client may not expect: an
entry of `__schema.types` is a bare name, with null fields, when a type listed before it leads there;
it also says that this does not depend on the order of the maps.

**`validation`**: about 4000 documents over a schema with objects that implement an interface, a
union, an input type, required and optional arguments. One family varies fragments (mutual, nested, unknown, unused,
on every kind of type), the other names (operations, variables, arguments, directives and
fragments used twice or not at all). Three fragments are enough for two cycles that share one. `FindsCycles`,
`WellTyped`, `NamesResolveOnce`, `RequestEnds`.

### Fairness

`Subscription!FairSpec`: weak fairness of the pump, of every goroutine inside
`Cancel`, and of a consumer that ranges over `Results`. Go's scheduler runs every
goroutine that can run, and a select with a ready case proceeds. Nothing makes anyone call
`Cancel`, makes a source emit or end, or keeps a consumer from leaving
(`Leave`); the properties hold without that. `Executor!FairSpec`: weak fairness per position;
`sync.Mutex` hands the lock to a waiter that has starved, and here each position
locks at most once. Resolvers are assumed to return. `EntityCycles`, `Parser` and `Validation` are one
sequential call each: weak fairness of `Next`. In `Introspection` it is weak fairness of `Work`, the two
calls, and not of `Ask`: nobody needs to ask. The other runs have no liveness property and no fairness.

## 4. Runs that find a disagreement

Each states what a comment or document of the repository says and shows what the
code does.

| Run | Comment or document | Code |
|---|---|---|
| `entity_requires` | "Include any fields required by @requires so the reference resolver can use them" (gateway.go:403) | the cache has no place for what the entity was built from: after a sibling, a field with `@requires` reads an entity built without |
| `parser_lexical_error` | the lexer's tests expect an error for `1.` or an open string (lexer_test.go:185-202), the parser's an error of `Parse` for what is no document (parser_test.go:281-283) | `p.err` is never read and a dozen advances drop the lexer's error: `{ ...a 1. }` is accepted as `{ ...a a }`, and on a character no token begins with, `[ ?` never returns |
| `planner_repeats` | `ExecutePlanned` "is an alternative to Gateway.Execute" (planner.go:414), compared by planner_test.go:65-90; README.md:245 lists what the planner does not cover, and not this | fields that repeat a response key are not merged: `{ user { name } user { id } }` shows only `id`, because `shapeInto` writes `result[key]` for each (planner.go:687), and of `{ user { orders { id } } user { orders { quantity } } }` the second list replaces the first (planner.go:633). The reference resolver of `orders` is asked twice, once by each of the two fetches |

Met while modelling, without a run of their own:

- Concurrent execution "is not used for mutations" (executor.go:196-197), but only a
  mutation's root fields are serial (`SerialMutation`): what is nested in them
  runs concurrently, because `ctx.concurrent` is set for mutations too (executor.go:77).
- `doneAwareIterator` "stops calling it once the subscription is canceled"
  (subscription.go:286-287), but `Cancel` may come between the test at 294 and the
  call at 299 (`CallUserNext` is an action of its own for that).
- "Variable ... is never used" (validation.go:768), beside `@skip` / `@include` with variables (README.md:13; bench_test.go:176-190
  has such a query): `collectUsedVariables` looks at fields' arguments only (`UsesOf`), so a variable that only a directive uses makes
  the request invalid, and an undefined one there is accepted.
- All entities of one path are resolved in one batch, to avoid N+1 (README.md:200): true of
  the first level. A flatten below an entity runs once for each of its parent's targets
  (planner.go:598-600), so a batch resolver of the second level is called once per parent.
- "Injected key fields and __typename never leak into the result" (planner.go:641-642): with
  `id: favorite { name }`, where another subgraph owns `favorite`, a null entity leaves the
  injected `id` under that response key and `shape` shows it.
- A key selected on an object whose subgraph does not own it crosses like any other
  field: the planner fetches an entity for a value it already has, and reports
  that entity's error, which direct execution does not.
- A planned selection drops the error that says a non-null field is null
  (planner.go:524), runs without `MaxDepth`, and passes no `@requires` fields
  (the last is documented, README.md:245).
- `formatCycle` appends the first type to a path that already ends with it: the
  cycle A → B → A is printed `A → B → A → A` (gateway.go:342).
- External fields "are placeholders owned by another subgraph" (gateway.go:105):
  when no subgraph owns one, composition accepts it and nobody resolves it.
- A nil entity, an error or an entity that is not a map is not cached
  (gateway.go:418, 428): each sibling field resolves again.
- `rewriteTypeRef` does not descend into interfaces and unions (gateway.go:433): their
  object types stay the subgraph's own, and `IsPossibleType` compares pointers. Which object takes a name in
  the supergraph's map, the merged one or a subgraph's, may depend on the order in which a map is visited
  (`HiddenByAbstractOnly` says how far it goes).
- `Results` "is closed when the source ends or Cancel is called" (subscription.go:36-37): not
  while a user's `Next` does not return, for which nothing but the user's `Close` can care
  (`CloseUnblocks` FALSE; `CancelStops` then fails).
- "the caller at a nullable boundary converts that into a JSON null" (executor.go:426-427), but
  `Subscribe` does not use `fieldError`: a failure below a nullable root field makes the whole data null.
- "Cache the resolved entity to avoid re-resolving for sibling fields" (gateway.go:422): with a source
  object that a resolver keeps, the cache answers later requests too, however old it is (`Shared`).
- The parent fetch injects `__typename` and the key fields (README.md:198), but a local field whose
  response key is a key's name counts as the key (planner.go:328): with `id: name` the representation
  carries the name, with `id @skip(if: true)` nothing, and the entity's fields become null without an error.
- "Build merged Query and Mutation types" (gateway.go:202): of query types with different names only
  the last one is kept.
- A fragment that only leads to a cycle is blamed for spreading itself, and so is a spread, met twice in one
  search, of a fragment that does not exist (validation.go:253-281).
- No rule compares the fields under one response key, a variable's type with its place, or a fragment's type with
  the types it can meet; a variable of an unknown type passes validation and fails in `CoerceVariableValues`.
  The sub-selections of introspection fields are never checked.
- `__schema` ignores type conditions and `includeDeprecated`, never lists an interface's possible types,
  and of one response key selected twice keeps the last (executor.go:620-673).

## 5. Proofs

Every theorem holds for all values of the constants that satisfy the named
assumption of its module (`SubscriptionAssumption`, `TreeAssumption`, ...); for `Subscription`
that means any number of cancelers and events and any capacity, for `Executor` any
response tree, for `Planner` any supergraph, operation, lists and faults. In most proof modules
`IndInv` is the strengthening: `Inductive` proves `Spec => []IndInv` with one step per action, and the
safety theorems follow from it; `PlannerProofs` has three strengthenings, one upon the other,
`SchemaProofs` one for each of its three subjects, and `ValidationProofs` one for the search and one for the request.

What the assumptions rest on in the code: nodes of an operation and positions of a response are numbered in
document order (`QueryAssumption`, `TreeAssumption`, `DocumentAssumption`); an object lists interfaces only, because
`ObjectType.Interfaces_` is a slice of `*InterfaceType`, and enums and scalars have no fields
(the sets of `MergedTypes`); introspection walks the sorted keys of a map, so every name occurs once
(`IntrospectionAssumption`); types are finitely many. A few theorems have a hypothesis of their own:
`~Shared`, `SameRoots`, `PlainKeys`, `Comparable`. The code guarantees none of the four; section 4 says what
happens without them. The instances that TLC checks satisfy them, but for the three operations of `planner` that repeat
response keys (`PlainKeys` and `Comparable` exclude them) and what the runs of section 4 are for. `StaysWellTyped` rests on the part of `SchemaAssumption`
that GraphQL demands of a schema and gqlx does not check: objects keep what their interfaces promise.

| Module | Theorems | Argument |
|---|---|---|
| `SubscriptionProofs` | `TypeCorrect`, `CancelNeverPanics`, `OneLateResult`, `NothingLost`, `ReleasedFirst`, `Inductive`, `Implements` | `PumpInv` relates what was emitted, taken and received at each `pc`; `CancelInv` says only one canceler is past `Once`; `LateInv` says the one late result is spent when the pump is at `next` again, where it must stop. `Implements` is the refinement of `EventStream`. |
| `ExecutorProofs` | `TypeCorrect`, `StructuredConcurrency`, `NullPropagation`, `NoLostError`, `MutationsSerial`, `DepthBounded`, `ErrorsInOrder`, `Inductive`, `ScheduleIndependent`, `Implements` | `OrderInv` gives each position's state from its parent's and its earlier siblings'; `MutexInv` says the holder's `slot` is the list's end. `ScheduleIndependent`: any assignment of values that satisfies the algorithm's equations agrees with what was computed at each finished position, so neither the schedule nor the mode has a say. `ErrorsInOrder` needs no strengthening: in serial mode the first position between a running one and its parent that is neither over nor idle would have such a parent too, so no position runs while a later one has begun. `Implements` is the refinement of `Response`. `ValueOf` and `ReachedBy` are recursive functions over a finite tree: that they exist and satisfy their equations is shown from the first position from which all equations can be satisfied, and from the first up to which they cannot. A finished position then has the value (`DoneAgrees`) and the execution has been where `ReachedBy` says (`OverIsReached`), so the data shown and the errors are `Response`'s (`DataIsShown`). |
| `EntityResolverProofs` | `TypeCorrect`, `SiblingsNeverRace`, `OneFetch`, `OneEntity`, `Inductive` | All assume `~Shared`, each naming it: with a shared source the properties fail. A fetch starts from an empty cache and nobody of the same object runs until it is stored. |
| `EntityCyclesProofs` | `TypeCorrect`, `AcceptsAcyclic`, `CycleIsReal`, `Inductive` | Gray types are the stack, each the parent of the next; a black type's references were blackened before it (`FinishOrder`). In a set of types the first to finish refers to none of the set, which is acyclicity without paths. `TraceInv` maps the path being rebuilt onto the stack. |
| `CompositionProofs` | `TypeCorrect`, `OwnersDefineFields`, `Implements`, `Inductive` | Among the declarations already seen, owner and definition are the first. `Implements` refines `Supergraph` under `SameRoots` (root types have the same names in all subgraphs); without it the code keeps the last. |
| `SchemaProofs`, types | `TypeCorrect`, `Closed`, `CollectsExactly`, `Inductive` | What a kept type refers to is known by name or still to be visited by a call under way (`NothingMissed`); nothing leaves a set that is closed (`OnlyLedTo`). Cycles, shared names and every order of the maps are covered. |
| `SchemaProofs`, supergraph | `HidesByAbstractOnly` | What a merged object, an enum or a scalar refers to was rewritten, so only an interface, a union or another subgraph's own object refers to a subgraph's own object (`CopiesReferredTo`, case by case over what `compose` builds). `CopiesLedTo` says so of what is kept and of what the calls have still to visit. Any number of subgraphs. |
| `SchemaProofs`, introspection | `AnswerTypeCorrect`, `EachDescribedOnce`, `AnswerInductive`, `WholeInductive`, `RefersWhereReached` | Once `NewSchema` is done its map stays. What was visited was described, and each type that is wanted is described or in an entry still to build. For `__schema`, `WholeInv` says that the entries are worked off in order, and that `visited` lies between the types taken so far and all they lead to (`LedTo`, the least closed set); when an entry begins the two are equal, hence an entry is a bare name exactly where an earlier one leads. |
| `PlannerProofs`, calls | `CallsInductive`, `AskedOnce` | The fetches that lead to a node are one line (`LineageFacts`), and objects over one position are nested (`OneOverOther`). So of the calls under way at most one may ever make a given fetch for a given object, and none may once it was made (`AskedByOne`); a call's successors divide its share. This holds for every operation; that two fetches ask for one object is possible only where a response key is repeated. |
| `PlannerProofs`, keys | `TreeInductive`, `HoldsItsKeys` | Where no response key is repeated, an object in the tree has every field that its own subgraph resolves, and its injected keys (`TreeInv`). Under `PlainKeys` (besides, no other field under a key's response key, no directive on it) these are the keys of every representation. |
| `PlannerProofs`, refinement | `MergeInductive`, `AnswersAsDirect` | `Fetched(p)` says, by the answers alone, that every value and entity on the way to `p` is there. `MergeInv`: the tree and the errors are of fetched positions only, and each fetched position that is missing lies on the line of a call to come (`Rest`). When no call is left the tree is exactly what was fetched. By the least position at which they differ, shaping then shows what `FederatedResponse` shows, and the errors are the same. The hypothesis is `Comparable`, which excludes repeated response keys: with them a later fetch replaces lists that an earlier one brought, and `Fresh`, that no call brings what is there, fails. |
| `ValidationProofs`, search | `TypeCorrect`, `Finds`, `RequestFinds`, `Inductive` | The fragments of `path` that are on the stack are one chain; a fragment that was left without blame spreads only such fragments, finished before it. A set of fragments each of which spreads another of the set would have a first to finish. `RequestFinds`: within a request nothing else touches the search. |
| `ValidationProofs`, execution | `RequestInductive`, `StaysWellTyped`, `ResolvesOnce`, `ExecutesAcyclic` | `Fits(o, s, t, mixed)`: operation `o` executes selection `s`, and unless a key above it names two fields, the rules met `s` from `o` under a type that `t` may be, and without an unknown condition above it. `RequestInv` says so of every selection still to be looked at, every collected field and every object still to be asked. It is kept step by step: a root's selections fit (`RootFits`); those of an inline fragment or a fragment that applies fit the same object (`InlineFits`, `SpreadFits`), because the rules take the condition for their type; those of a field fit the objects it resolves to (`FieldFits`), because an object's field keeps what the interface's promises (`Promised`). `LedToClosed` brings the rules into every fragment the execution enters. That what fits is allowed is then one rule each. |

The library's induction theorems cannot be instantiated here, but where a set is finite or ordered its least
element does their work: a recursive function is shown to exist, a sorted sequence to be unique and a
closure to be reached by looking at the first place where that fails (`FirstOf`, `LastExists`,
`UpExists`). Acyclicity is stated without paths (`every non-empty set of types has one that refers to
none of the set`) for the same reason.

`Comparable` asks, beside `PlainKeys` (and so no repeated response keys, for which section 4 shows that the planner answers less), that a selected key is carried by the object, that a field of another
subgraph which the object carries is a plain key without selections, and that an entity is asked for
at least one field that the object does not carry and no directive leaves out. Without the last, planner and
direct execution really differ: in `{ order { buyer { id } } }`, where another subgraph owns `id`, the
planner asks the reference resolver and reports its failure (planner.go:253-267), while direct
execution reads the value that the object carries (gateway.go:381-384). The data agree, the errors do not,
and planner_test.go:65-90 compares answers without errors. `EachFetchAsksOnce` needs no hypothesis.

Model-checked only: all liveness (`CancelStops`, `EndIsSeen`, `CancelReturns`,
`SenderReleased`, `Answered`, `Decides`, `Returns`, `Ends`, `RequestEnds`), which TLAPS does not reach here;
and `ParsesTheGrammar` and `LongestLexeme`, because `Parser` and `Grammar`
follow nested data by RECURSIVE operators, which no module with a proof may reach.

The type invariants of the modules with proofs (`TypeOK`) are proved as `TypeCorrect`, part of each
`IndInv`, and are not repeated in the runs.

## 6. Abstractions to keep in mind

- User code (resolvers, iterators, `Serialize`, reference resolvers) is a choice of outcomes.
  It returns, except in a source with `CloseUnblocks` FALSE. A panic in it is not modelled.
- Data are names. No message text, location or scalar value; arguments and variables only in `Validation`.
- A Go `range` over a map is a choice of the next key among those left.
- Each critical section of a mutex is one step where nothing else reads what it writes
  (the iterators' `closed` flag), and two where the point is the section (`addError`).

## 7. Plan

1. **Proofs**: a weaker `Comparable`, with the errors of carried keys set apart; `Parser` and `Grammar` over numbered
   tokens instead of sets of sequences, so that `ParsesTheGrammar` can be stated by recursive functions.
2. **Planner**: mutations with their regrouped root fields (planner.go:160), failing and short batches, abstract types.
3. **Composition of gateway and executor**: entity resolvers below a concurrent executor, which
   `Gateway.Execute` does not ask for today.

## Not modelled

- The coercion of lists, enums, input objects and literals (values.go) and of numbers and strings (scalars.go):
  functions of one value, without state or order, which their unit tests reach one by one. What they
  decide about a request (does a variable fit) is a choice in `Validation`.
- The tables of directive definitions, the formatting of errors and of default values, `Describe`, lines and columns.
- The tree of ast.go, which has the shape of the parser's calls, and the printing of the type predicates of types.go: each
  is one test, written where it is used.
- The selection of an introspection answer from the maps that were built (executor.go:620-674).
- What composition does with descriptions, enums' values and arguments: first come, nothing is compared.
