---- MODULE EntityResolverProofs ----
(* Proofs about EntityResolver: with a source object of its own, a request *)
(* resolves the entities of any number of fields, subgraphs and keys       *)
(* without a race, once each, and from one version of the data.            *)
EXTENDS EntityResolver, TLAPS

\* A request that has its own source object is that object's name.
LEMMA OwnObject ==
  ASSUME ~Shared PROVE Objects = Requests /\ \A r \in Requests : Object(r) = r
BY DEF Objects, Object

\* Every step keeps the variables in their ranges.
LEMMA TypeStep ==
  ASSUME ~Shared, IndInv, [Next]_vars PROVE TypeOK'
<1> USE EntityAssumption DEF IndInv, TypeOK, Object, Objects, source, Answer, Answers, Entities, Stages, Cached, Kept
<1>1. ASSUME NEW r \in Requests, NEW f \in Fields, Enter(r, f) PROVE TypeOK'
  BY <1>1 DEF Enter
<1>2. ASSUME NEW r \in Requests, NEW f \in Fields, ResolvePlain(r, f) PROVE TypeOK'
  BY <1>2 DEF ResolvePlain
<1>3. ASSUME NEW r \in Requests, NEW f \in Fields, FastPath(r, f) PROVE TypeOK'
  BY <1>3 DEF FastPath
<1>4. ASSUME NEW r \in Requests, NEW f \in Fields, CacheHit(r, f) PROVE TypeOK'
  BY <1>4 DEF CacheHit
<1>5. ASSUME NEW r \in Requests, NEW f \in Fields, MissingKey(r, f) PROVE TypeOK'
  BY <1>5 DEF MissingKey
<1>6. ASSUME NEW r \in Requests, NEW f \in Fields, CallResolver(r, f) PROVE TypeOK'
  BY <1>6 DEF CallResolver
<1>7. ASSUME NEW r \in Requests, NEW f \in Fields, ReturnUncached(r, f) PROVE TypeOK'
  BY <1>7 DEF ReturnUncached
<1>8. ASSUME NEW r \in Requests, NEW f \in Fields, ReturnMap(r, f) PROVE TypeOK'
  BY <1>8 DEF ReturnMap, Representation
<1>9. ASSUME NEW r \in Requests, NEW f \in Fields, StoreEntity(r, f) PROVE TypeOK'
  BY <1>9 DEF StoreEntity
<1>10. CASE Change
  BY <1>10 DEF Change
<1>11. CASE UNCHANGED vars
  BY <1>11 DEF vars
<1> QED
  BY <1>1, <1>2, <1>3, <1>4, <1>5, <1>6, <1>7, <1>8, <1>9, <1>10, <1>11
     DEF Next, Resolver

\* Every step keeps a request's resolvers one at a time.
LEMMA BusyStep ==
  ASSUME ~Shared, IndInv, [Next]_vars PROVE OneBusy'
<1> USE EntityAssumption DEF IndInv, TypeOK, OneBusy, Busy, source, Answer, Stages
<1>1. ASSUME NEW r \in Requests, NEW f \in Fields, Enter(r, f) PROVE OneBusy'
  BY <1>1 DEF Enter, InTurn
<1>2. ASSUME NEW r \in Requests, NEW f \in Fields, ResolvePlain(r, f) PROVE OneBusy'
  BY <1>2 DEF ResolvePlain
<1>3. ASSUME NEW r \in Requests, NEW f \in Fields, FastPath(r, f) PROVE OneBusy'
  BY <1>3 DEF FastPath
<1>4. ASSUME NEW r \in Requests, NEW f \in Fields, CacheHit(r, f) PROVE OneBusy'
  BY <1>4 DEF CacheHit
<1>5. ASSUME NEW r \in Requests, NEW f \in Fields, MissingKey(r, f) PROVE OneBusy'
  BY <1>5 DEF MissingKey
<1>6. ASSUME NEW r \in Requests, NEW f \in Fields, CallResolver(r, f) PROVE OneBusy'
  BY <1>6 DEF CallResolver
<1>7. ASSUME NEW r \in Requests, NEW f \in Fields, ReturnUncached(r, f) PROVE OneBusy'
  BY <1>7 DEF ReturnUncached
<1>8. ASSUME NEW r \in Requests, NEW f \in Fields, ReturnMap(r, f) PROVE OneBusy'
  BY <1>8 DEF ReturnMap
<1>9. ASSUME NEW r \in Requests, NEW f \in Fields, StoreEntity(r, f) PROVE OneBusy'
  BY <1>9 DEF StoreEntity
<1>10. CASE Change
  BY <1>10 DEF Change
<1>11. CASE UNCHANGED vars
  BY <1>11 DEF vars
<1> QED
  BY <1>1, <1>2, <1>3, <1>4, <1>5, <1>6, <1>7, <1>8, <1>9, <1>10, <1>11
     DEF Next, Resolver

\* Every step keeps entities in the hands of those who store them.
LEMMA HeldStep ==
  ASSUME ~Shared, IndInv, [Next]_vars PROVE HeldWhenStoring'
<1> USE EntityAssumption DEF IndInv, TypeOK, HeldWhenStoring, source, Answer, Stages
<1>1. ASSUME NEW r \in Requests, NEW f \in Fields, Enter(r, f) PROVE HeldWhenStoring'
  BY <1>1 DEF Enter
<1>2. ASSUME NEW r \in Requests, NEW f \in Fields, ResolvePlain(r, f) PROVE HeldWhenStoring'
  BY <1>2 DEF ResolvePlain
<1>3. ASSUME NEW r \in Requests, NEW f \in Fields, FastPath(r, f) PROVE HeldWhenStoring'
  BY <1>3 DEF FastPath
<1>4. ASSUME NEW r \in Requests, NEW f \in Fields, CacheHit(r, f) PROVE HeldWhenStoring'
  BY <1>4 DEF CacheHit
<1>5. ASSUME NEW r \in Requests, NEW f \in Fields, MissingKey(r, f) PROVE HeldWhenStoring'
  BY <1>5 DEF MissingKey
<1>6. ASSUME NEW r \in Requests, NEW f \in Fields, CallResolver(r, f) PROVE HeldWhenStoring'
  BY <1>6 DEF CallResolver
<1>7. ASSUME NEW r \in Requests, NEW f \in Fields, ReturnUncached(r, f) PROVE HeldWhenStoring'
  BY <1>7 DEF ReturnUncached
<1>8. ASSUME NEW r \in Requests, NEW f \in Fields, ReturnMap(r, f) PROVE HeldWhenStoring'
  BY <1>8 DEF ReturnMap
<1>9. ASSUME NEW r \in Requests, NEW f \in Fields, StoreEntity(r, f) PROVE HeldWhenStoring'
  BY <1>9 DEF StoreEntity
<1>10. CASE Change
  BY <1>10 DEF Change
<1>11. CASE UNCHANGED vars
  BY <1>11 DEF vars
<1> QED
  BY <1>1, <1>2, <1>3, <1>4, <1>5, <1>6, <1>7, <1>8, <1>9, <1>10, <1>11
     DEF Next, Resolver

\* Every step keeps the cache empty under those who fetch.
LEMMA EmptyStep ==
  ASSUME ~Shared, IndInv, [Next]_vars PROVE FetchesWhenEmpty'
<1> USE EntityAssumption DEF IndInv, TypeOK, OneBusy, Busy, HeldWhenStoring, FetchesWhenEmpty, Object, Objects, source, Answer, Stages, Cached, Kept
<1>1. ASSUME NEW r \in Requests, NEW f \in Fields, Enter(r, f) PROVE FetchesWhenEmpty'
  BY <1>1 DEF Enter
<1>2. ASSUME NEW r \in Requests, NEW f \in Fields, ResolvePlain(r, f) PROVE FetchesWhenEmpty'
  BY <1>2 DEF ResolvePlain
<1>3. ASSUME NEW r \in Requests, NEW f \in Fields, FastPath(r, f) PROVE FetchesWhenEmpty'
  BY <1>3 DEF FastPath
<1>4. ASSUME NEW r \in Requests, NEW f \in Fields, CacheHit(r, f) PROVE FetchesWhenEmpty'
  BY <1>4 DEF CacheHit
<1>5. ASSUME NEW r \in Requests, NEW f \in Fields, MissingKey(r, f) PROVE FetchesWhenEmpty'
  BY <1>5 DEF MissingKey
<1>6. ASSUME NEW r \in Requests, NEW f \in Fields, CallResolver(r, f) PROVE FetchesWhenEmpty'
  BY <1>6 DEF CallResolver
<1>7. ASSUME NEW r \in Requests, NEW f \in Fields, ReturnUncached(r, f) PROVE FetchesWhenEmpty'
  BY <1>7 DEF ReturnUncached
<1>8. ASSUME NEW r \in Requests, NEW f \in Fields, ReturnMap(r, f) PROVE FetchesWhenEmpty'
  BY <1>8 DEF ReturnMap
<1>9. ASSUME NEW r \in Requests, NEW f \in Fields, StoreEntity(r, f) PROVE FetchesWhenEmpty'
  <2>1. /\ pc \in [Requests -> [Fields -> Stages]]
        /\ cache \in [Requests -> [Subgraphs -> SUBSET Entities]]
        /\ pc[r][f] = "store"
        /\ pc' = [pc EXCEPT ![r][f] = "done"]
        /\ cache' = [cache EXCEPT ![r][Owner[f]] = held[r][f]]
    BY <1>9, OwnObject DEF StoreEntity
  <2>2. \A g \in Fields : g # f => pc[r][g] \in {"waiting", "done"}
    BY <2>1
  <2>3. \A q \in Requests, g \in Fields :
          pc'[q][g] \in {"resolver", "store"} =>
            q # r /\ pc'[q][g] = pc[q][g]
    BY <2>1, <2>2
  <2>4. \A q \in Requests, s \in Subgraphs : q # r => cache'[q][s] = cache[q][s]
    BY <2>1
  <2>5. \A q \in Requests, g \in Fields :
          pc[q][g] \in {"resolver", "store"} => cache[q][Owner[g]] = {}
    BY OwnObject
  <2> QED
    BY <2>3, <2>4, <2>5, OwnObject
<1>10. CASE Change
  BY <1>10 DEF Change
<1>11. CASE UNCHANGED vars
  BY <1>11 DEF vars
<1> QED
  BY <1>1, <1>2, <1>3, <1>4, <1>5, <1>6, <1>7, <1>8, <1>9, <1>10, <1>11
     DEF Next, Resolver

\* Every step keeps at most one entity of a subgraph in a cache.
LEMMA CachedStep ==
  ASSUME ~Shared, IndInv, [Next]_vars PROVE OneCached'
<1> USE OwnObject DEF IndInv, OneCached, Cached, source, Answer
<1>1. ASSUME NEW r \in Requests, NEW f \in Fields, Enter(r, f) PROVE OneCached'
  BY <1>1 DEF Enter
<1>2. ASSUME NEW r \in Requests, NEW f \in Fields, ResolvePlain(r, f) PROVE OneCached'
  BY <1>2 DEF ResolvePlain
<1>3. ASSUME NEW r \in Requests, NEW f \in Fields, FastPath(r, f) PROVE OneCached'
  BY <1>3 DEF FastPath
<1>4. ASSUME NEW r \in Requests, NEW f \in Fields, CacheHit(r, f) PROVE OneCached'
  BY <1>4 DEF CacheHit
<1>5. ASSUME NEW r \in Requests, NEW f \in Fields, MissingKey(r, f) PROVE OneCached'
  BY <1>5 DEF MissingKey
<1>6. ASSUME NEW r \in Requests, NEW f \in Fields, CallResolver(r, f) PROVE OneCached'
  BY <1>6 DEF CallResolver
<1>7. ASSUME NEW r \in Requests, NEW f \in Fields, ReturnUncached(r, f) PROVE OneCached'
  BY <1>7 DEF ReturnUncached
<1>8. ASSUME NEW r \in Requests, NEW f \in Fields, ReturnMap(r, f) PROVE OneCached'
  BY <1>8 DEF ReturnMap
<1>9. ASSUME NEW r \in Requests, NEW f \in Fields, StoreEntity(r, f) PROVE OneCached'
  <2>1. cache' = [cache EXCEPT ![r][Owner[f]] = held[r][f]]
    BY <1>9 DEF StoreEntity, Kept
  <2>2. cache \in [Requests -> [Subgraphs -> SUBSET Entities]]
    BY DEF TypeOK
  <2>3. \A e, d \in held[r][f] : e = d
    BY DEF HeldWhenStoring
  <2>4. \A q \in Requests, g \in Fields :
          cache'[q][Owner[g]] = held[r][f] \/ cache'[q][Owner[g]] = cache[q][Owner[g]]
    BY <2>1, <2>2, EntityAssumption
  <2> QED
    BY <2>3, <2>4
<1>10. CASE Change
  BY <1>10 DEF Change
<1>11. CASE UNCHANGED vars
  BY <1>11 DEF vars
<1> QED
  BY <1>1, <1>2, <1>3, <1>4, <1>5, <1>6, <1>7, <1>8, <1>9, <1>10, <1>11
     DEF Next, Resolver

\* Every step keeps the answered values those of the cache.
LEMMA AnswerStep ==
  ASSUME ~Shared, IndInv, [Next]_vars PROVE AnsweredFromCache'
<1> USE EntityAssumption DEF IndInv, TypeOK, AnsweredFromCache, Object, Objects, source, Answer, Cached
<1>1. ASSUME NEW r \in Requests, NEW f \in Fields, Enter(r, f) PROVE AnsweredFromCache'
  BY <1>1 DEF Enter
<1>2. ASSUME NEW r \in Requests, NEW f \in Fields, ResolvePlain(r, f) PROVE AnsweredFromCache'
  BY <1>2 DEF ResolvePlain
<1>3. ASSUME NEW r \in Requests, NEW f \in Fields, FastPath(r, f) PROVE AnsweredFromCache'
  BY <1>3 DEF FastPath
<1>4. ASSUME NEW r \in Requests, NEW f \in Fields, CacheHit(r, f) PROVE AnsweredFromCache'
  BY <1>4 DEF CacheHit
<1>5. ASSUME NEW r \in Requests, NEW f \in Fields, MissingKey(r, f) PROVE AnsweredFromCache'
  BY <1>5 DEF MissingKey
<1>6. ASSUME NEW r \in Requests, NEW f \in Fields, CallResolver(r, f) PROVE AnsweredFromCache'
  BY <1>6 DEF CallResolver
<1>7. ASSUME NEW r \in Requests, NEW f \in Fields, ReturnUncached(r, f) PROVE AnsweredFromCache'
  BY <1>7 DEF ReturnUncached
<1>8. ASSUME NEW r \in Requests, NEW f \in Fields, ReturnMap(r, f) PROVE AnsweredFromCache'
  BY <1>8 DEF ReturnMap
<1>9. ASSUME NEW r \in Requests, NEW f \in Fields, StoreEntity(r, f) PROVE AnsweredFromCache'
  BY <1>9 DEF StoreEntity, Kept, HeldWhenStoring, FetchesWhenEmpty
<1>10. CASE Change
  BY <1>10 DEF Change
<1>11. CASE UNCHANGED vars
  BY <1>11 DEF vars
<1> QED
  BY <1>1, <1>2, <1>3, <1>4, <1>5, <1>6, <1>7, <1>8, <1>9, <1>10, <1>11
     DEF Next, Resolver

\* The strengthened invariant holds initially.
LEMMA InitInv == ASSUME ~Shared, Init PROVE IndInv
<1> USE EntityAssumption DEF Init, Object, Objects, NoAnswer
<1>1. TypeOK
  BY DEF TypeOK, Answers, Stages, Entities
<1>2. OneBusy /\ HeldWhenStoring /\ FetchesWhenEmpty /\ OneCached
     /\ AnsweredFromCache
  BY DEF OneBusy, Busy, HeldWhenStoring, FetchesWhenEmpty, OneCached, AnsweredFromCache, Cached
<1> QED
  BY <1>1, <1>2 DEF IndInv

\* The strengthened invariant is inductive when no source object is shared.
THEOREM Inductive == ASSUME ~Shared PROVE Spec => []IndInv
<1>1. Init => IndInv
  BY InitInv
<1>2. IndInv /\ [Next]_vars => IndInv'
  BY TypeStep, BusyStep, HeldStep, EmptyStep, CachedStep, AnswerStep DEF IndInv
<1> QED
  BY <1>1, <1>2, PTL DEF Spec

\* Every variable stays in its range.
THEOREM TypeCorrect == ASSUME ~Shared PROVE Spec => []TypeOK
<1>1. IndInv => TypeOK
  BY DEF IndInv
<1> QED
  BY <1>1, Inductive, PTL

\* No two resolvers touch a source object's map while one writes to it.
THEOREM SiblingsNeverRace == ASSUME ~Shared PROVE Spec => []NoRace
<1>1. IndInv => NoRace
  BY EntityAssumption DEF IndInv, TypeOK, OneBusy, Busy, NoRace, Object
<1> QED
  BY <1>1, Inductive, PTL

\* An entity is fetched once per source object and subgraph.
THEOREM OneFetch == ASSUME ~Shared PROVE Spec => []FetchedOnce
<1>1. IndInv => FetchedOnce
  <2> SUFFICES ASSUME IndInv, NEW o \in Objects, NEW s \in Subgraphs,
                      NEW t \in Fetching(o, s), NEW u \in Fetching(o, s)
               PROVE  cache[o][s] = {} /\ t = u
    BY DEF FetchedOnce
  <2>1. /\ t \in Requests \X Fields /\ t[1] = o /\ Owner[t[2]] = s
        /\ pc[t[1]][t[2]] \in {"resolver", "store"}
    BY OwnObject DEF Fetching
  <2>2. /\ u \in Requests \X Fields /\ u[1] = o
        /\ pc[u[1]][u[2]] \in {"resolver", "store"}
    BY OwnObject DEF Fetching
  <2>3. t[2] = u[2]
    BY <2>1, <2>2 DEF IndInv, OneBusy, Busy
  <2>4. cache[o][s] = {}
    BY <2>1, OwnObject DEF IndInv, FetchesWhenEmpty, Cached
  <2> QED
    BY <2>1, <2>2, <2>3, <2>4
<1> QED
  BY <1>1, Inductive, PTL

\* Sibling fields of a subgraph are answered from one entity.
THEOREM OneEntity == ASSUME ~Shared PROVE Spec => []SiblingsAgree
<1>1. IndInv => SiblingsAgree
  <2> SUFFICES ASSUME IndInv, NEW r \in Requests,
                      NEW f \in Fields, NEW g \in Fields,
                      Owner[f] = Owner[g],
                      answer[r][f].kind = "value", answer[r][g].kind = "value"
               PROVE  answer[r][f].from = answer[r][g].from
    BY DEF SiblingsAgree
  <2>1. answer[r][f].from \in Cached(r, f) /\ answer[r][g].from \in Cached(r, g)
    BY DEF IndInv, AnsweredFromCache
  <2>2. Cached(r, f) = Cached(r, g)
    BY DEF Cached
  <2>3. \A e, d \in Cached(r, f) : e = d
    BY DEF IndInv, OneCached
  <2> QED
    BY <2>1, <2>2, <2>3
<1> QED
  BY <1>1, Inductive, PTL
====
