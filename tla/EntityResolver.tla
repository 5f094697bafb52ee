---- MODULE EntityResolver ----
(***************************************************************************)
(* Gateway.Execute's on-demand entity resolution (gateway.go:374-430): the *)
(* resolvers that composition puts on the fields of one entity type, run   *)
(* for the fields that requests select on the source object their parent   *)
(* field returned.  Several requests run at once; each calls the resolvers *)
(* of its sibling fields in turn, because Gateway.Execute does not ask the *)
(* executor for concurrency (gateway.go:75-81).                            *)
(*                                                                         *)
(* Subgraph resolvers are user code: they answer from data that mutations  *)
(* change, and an entity is what they built (the version of the data) and  *)
(* from what (the fields of the representation).                           *)
(***************************************************************************)
EXTENDS Naturals, FiniteSets

CONSTANTS
  Requests,         \* goroutines that call Gateway.Execute
  Fields,           \* the entity fields each of them selects
  Names,            \* names of fields the source object may carry
  Subgraphs,
  Owner,            \* Owner[f]: the subgraph whose resolver serves f
  Keys,             \* Keys[s]: the key fields of the entity in subgraph s
  Requires,         \* Requires[f]: the fields f declares with @requires
  Sources,          \* the sets of fields a source object may carry
  Shared,           \* the parent field returns one stored object every time
  MaxVersion        \* bound: changes of the subgraphs' data

ASSUME EntityAssumption ==
  /\ Fields \subseteq Names
  /\ Owner \in [Fields -> Subgraphs]
  /\ Keys \in [Subgraphs -> SUBSET Names]
  /\ Requires \in [Fields -> SUBSET Names]
  /\ Sources \subseteq SUBSET Names
  /\ Shared \in BOOLEAN
  /\ MaxVersion \in Nat

VARIABLES
  version,          \* version of the data the subgraphs answer from
  given,            \* given[o]: the fields of the source object o
  isMap,            \* isMap[o]: o is a map[string]interface{}
  cache,            \* cache[o][s]: the entity cached in o for s, a set of <= 1
  pc,               \* pc[r][f]: where f's resolver is
  held,             \* held[r][f]: the entity the resolver holds, a set of <= 1
  answer            \* answer[r][f]: what f's resolver returned

vars == <<version, given, isMap, cache, pc, held, answer>>
source == <<given, isMap>>

\* Fresh source: one object per request, named after it.
Objects == IF Shared THEN {"stored"} ELSE Requests
Object(r) == IF Shared THEN "stored" ELSE r

Entities == [ver : 0..MaxVersion, repr : SUBSET Names]
Stages == {"waiting", "probe", "resolver", "store", "done"}

\* The ways a resolver answers: with the source's own value, a value of an
\* entity, a property of a source or entity that is no map, null or an error.
Answers == [kind : {"none", "given", "plain", "null", "error"}]
           \cup [kind : {"value"}, from : Entities]
NoAnswer == [kind |-> "none"]

Init ==
  /\ version = 0
  /\ given \in [Objects -> Sources]
  /\ isMap \in [Objects -> BOOLEAN]
  /\ cache = [o \in Objects |-> [s \in Subgraphs |-> {}]]
  /\ pc = [r \in Requests |-> [f \in Fields |-> "waiting"]]
  /\ held = [r \in Requests |-> [f \in Fields |-> {}]]
  /\ answer = [r \in Requests |-> [f \in Fields |-> NoAnswer]]

Busy(r) == {f \in Fields : pc[r][f] \notin {"waiting", "done"}}

\* The executor calls the next resolver when the one before has returned.
InTurnConcurrent(r) == TRUE
InTurn(r) == Busy(r) = {}

Enter(r, f) ==
  /\ pc[r][f] = "waiting"
  /\ InTurn(r)
  /\ pc' = [pc EXCEPT ![r][f] = "probe"]
  /\ UNCHANGED <<version, source, cache, held, answer>>

Answer(r, f, a) ==
  /\ pc' = [pc EXCEPT ![r][f] = "done"]
  /\ answer' = [answer EXCEPT ![r][f] = a]

----------------------------------------------------------------------------
(* One resolver's reads of the source object.                              *)

\* A source that is no map: its property or struct field, without an entity.
ResolvePlain(r, f) ==
  /\ pc[r][f] = "probe"
  /\ ~isMap[Object(r)]
  /\ \E k \in {"plain", "null"} : Answer(r, f, [kind |-> k])
  /\ UNCHANGED <<version, source, cache, held>>

FastPath(r, f) ==
  /\ pc[r][f] = "probe"
  /\ isMap[Object(r)]
  /\ f \in given[Object(r)]
  /\ Answer(r, f, [kind |-> "given"])
  /\ UNCHANGED <<version, source, cache, held>>

\* What the source has cached for the subgraph of f.
CacheForgotten(r, f) == {}
Cached(r, f) == cache[Object(r)][Owner[f]]

CacheHit(r, f) ==
  /\ pc[r][f] = "probe"
  /\ isMap[Object(r)]
  /\ f \notin given[Object(r)]
  /\ \E e \in Cached(r, f) : Answer(r, f, [kind |-> "value", from |-> e])
  /\ UNCHANGED <<version, source, cache, held>>

MissingKey(r, f) ==
  /\ pc[r][f] = "probe"
  /\ isMap[Object(r)]
  /\ f \notin given[Object(r)]
  /\ Cached(r, f) = {}
  /\ ~(Keys[Owner[f]] \subseteq given[Object(r)])
  /\ Answer(r, f, [kind |-> "error"])
  /\ UNCHANGED <<version, source, cache, held>>

\* The representation: the key fields, and those fields of @requires that
\* the source happens to carry.
Representation(r, f) ==
  Keys[Owner[f]] \cup (Requires[f] \cap given[Object(r)])

CallResolver(r, f) ==
  /\ pc[r][f] = "probe"
  /\ isMap[Object(r)]
  /\ f \notin given[Object(r)]
  /\ Cached(r, f) = {}
  /\ Keys[Owner[f]] \subseteq given[Object(r)]
  /\ pc' = [pc EXCEPT ![r][f] = "resolver"]
  /\ UNCHANGED <<version, source, cache, held, answer>>

----------------------------------------------------------------------------
(* The subgraph's reference resolver answers.                              *)

\* An error, nil, or an entity that is no map: nothing is cached.
ReturnUncached(r, f) ==
  /\ pc[r][f] = "resolver"
  /\ \E k \in {"error", "null", "plain"} : Answer(r, f, [kind |-> k])
  /\ UNCHANGED <<version, source, cache, held>>

ReturnMap(r, f) ==
  /\ pc[r][f] = "resolver"
  /\ pc' = [pc EXCEPT ![r][f] = "store"]
  /\ held' = [held EXCEPT ![r][f] =
                {[ver |-> version, repr |-> Representation(r, f)]}]
  /\ UNCHANGED <<version, source, cache, answer>>

\* The entity is written into the source object for the sibling fields.
NotKept(r, f) == cache
Kept(r, f) == [cache EXCEPT ![Object(r)][Owner[f]] = held[r][f]]

StoreEntity(r, f) ==
  /\ pc[r][f] = "store"
  /\ cache' = Kept(r, f)
  /\ \E e \in held[r][f] : Answer(r, f, [kind |-> "value", from |-> e])
  /\ held' = [held EXCEPT ![r][f] = {}]
  /\ UNCHANGED <<version, source>>

\* A mutation, or anything else, changes the data the subgraphs answer from.
Change ==
  /\ version < MaxVersion
  /\ version' = version + 1
  /\ UNCHANGED <<source, cache, pc, held, answer>>

Resolver(r, f) ==
  \/ Enter(r, f)
  \/ ResolvePlain(r, f)
  \/ FastPath(r, f)
  \/ CacheHit(r, f)
  \/ MissingKey(r, f)
  \/ CallResolver(r, f)
  \/ ReturnUncached(r, f)
  \/ ReturnMap(r, f)
  \/ StoreEntity(r, f)

Next == Change \/ \E r \in Requests, f \in Fields : Resolver(r, f)

Spec == Init /\ [][Next]_vars

----------------------------------------------------------------------------

\* Every variable stays in its range (the values the resolver closure of
\* gateway.go:375-429 can hold or return).
TypeOK ==
  /\ version \in 0..MaxVersion
  /\ given \in [Objects -> Sources]
  /\ isMap \in [Objects -> BOOLEAN]
  /\ cache \in [Objects -> [Subgraphs -> SUBSET Entities]]
  /\ pc \in [Requests -> [Fields -> Stages]]
  /\ held \in [Requests -> [Fields -> SUBSET Entities]]
  /\ answer \in [Requests -> [Fields -> Answers]]

\* No resolver reads or writes a source object's map while another one
\* writes to it: Go maps are not safe for that (gateway.go:382-411, 424).
NoRace ==
  \A r, q \in Requests : \A f, g \in Fields :
    /\ <<r, f>> # <<q, g>>
    /\ Object(r) = Object(q)
    /\ isMap[Object(r)]
    /\ pc[r][f] = "store"
    => pc[q][g] \notin {"probe", "store"}

\* The calls under way that would put an entity of subgraph s into o.
Fetching(o, s) ==
  {t \in Requests \X Fields :
     /\ Object(t[1]) = o
     /\ Owner[t[2]] = s
     /\ pc[t[1]][t[2]] \in {"resolver", "store"}}

\* An entity is fetched once per object and subgraph: nobody fetches one
\* that is cached, or that a sibling is fetching (gateway.go:388-392, 422).
FetchedOnce ==
  \A o \in Objects, s \in Subgraphs :
    /\ cache[o][s] # {} => Fetching(o, s) = {}
    /\ \A t, u \in Fetching(o, s) : t = u

\* Sibling fields that a subgraph serves come from one entity, even when
\* the data changes between their resolvers (gateway.go:422-426).
SiblingsAgree ==
  \A r \in Requests : \A f, g \in Fields :
    /\ Owner[f] = Owner[g]
    /\ answer[r][f].kind = "value"
    /\ answer[r][g].kind = "value"
    => answer[r][f].from = answer[r][g].from

\* A field is answered from an entity whose resolver was given the fields
\* that the field's @requires names and the source carries
\* (gateway.go:403-411).
RequiredIncluded ==
  \A r \in Requests, f \in Fields :
    answer[r][f].kind = "value" =>
      Requires[f] \cap given[Object(r)] \subseteq answer[r][f].from.repr

----------------------------------------------------------------------------
(* The inductive strengthening.                                            *)

\* One resolver of a request runs at a time.
OneBusy ==
  \A r \in Requests : \A f, g \in Busy(r) : f = g

\* A resolver holds an entity exactly while it is about to store it.
HeldWhenStoring ==
  \A r \in Requests, f \in Fields :
    /\ held[r][f] # {} => pc[r][f] = "store"
    /\ \A e, d \in held[r][f] : e = d

\* Whoever fetches found nothing cached, and nobody has cached since.
FetchesWhenEmpty ==
  \A r \in Requests, f \in Fields :
    pc[r][f] \in {"resolver", "store"} => Cached(r, f) = {}

\* The cache holds at most one entity of a subgraph.
OneCached ==
  \A r \in Requests, f \in Fields : \A e, d \in Cached(r, f) : e = d

\* A value was answered from the entity that is in the cache.
AnsweredFromCache ==
  \A r \in Requests, f \in Fields :
    answer[r][f].kind = "value" => answer[r][f].from \in Cached(r, f)

IndInv ==
  /\ TypeOK
  /\ OneBusy
  /\ HeldWhenStoring
  /\ FetchesWhenEmpty
  /\ OneCached
  /\ AnsweredFromCache
====
