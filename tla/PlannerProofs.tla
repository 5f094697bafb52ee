---- MODULE PlannerProofs ----
(* Proofs about Planner, for any supergraph and answers.  Whatever the     *)
(* operation, no fetch of the plan asks a reference resolver twice for an  *)
(* object.  Where no response key is repeated each object holds the keys   *)
(* it is asked by, and the planner answers what direct execution does.     *)
EXTENDS Planner, TLAPS, FiniteSetTheorems, WellFoundedInduction

\* A nonempty set of numbers has a first one.
LEMMA FirstOf ==
  ASSUME NEW S \in SUBSET Nat, S # {}
  PROVE  \E p \in S : \A q \in S : p <= q
<1>1. \E p \in S : \A q \in S : ~(<<q, p>> \in OpToRel(<, Nat))
  BY NatLessThanWellFounded, WFMin
<1>2. \A p, q \in Nat : p < q => <<p, q>> \in OpToRel(<, Nat)
  BY DEF OpToRel
<1>3. PICK p \in S : \A q \in S : ~(q < p)
  BY <1>1, <1>2
<1> QED
  BY <1>3

----------------------------------------------------------------------------
(* The nodes of an operation in document order.                            *)

LEMMA OperationFacts ==
  ASSUME NEW o \in Operations
  PROVE  /\ Len(o) \in Nat /\ DOMAIN o = 1..Len(o)
         /\ \A n \in 1..Len(o) : /\ o[n].parent \in 0..(n - 1) /\ o[n].parent \in Nat
                                 /\ o[n].parent \in Ancestors(o)[n - 1]
<1>1. o \in Seq(Range(o))
  BY QueryAssumption
<1>2. Len(o) \in Nat /\ DOMAIN o = 1..Len(o)
  BY <1>1
<1> QED
  BY <1>2, QueryAssumption

\* f names what lies above each node up to n.
IsUp(f, o, n) == \A k \in 0..n : f[k] = IF k = 0 THEN {0} ELSE {k} \cup f[o[k].parent]

LEMMA UpExists ==
  ASSUME NEW o \in Operations, NEW n \in 0..Len(o)
  PROVE  \E f \in [0..n -> SUBSET Nat] : IsUp(f, o, n)
<1> DEFINE Fails == {m \in 0..Len(o) : ~\E f \in [0..m -> SUBSET Nat] : IsUp(f, o, m)}
<1> SUFFICES ASSUME Fails # {} PROVE FALSE
  OBVIOUS
<1>0. Len(o) \in Nat
  BY OperationFacts
<1>1. PICK m \in Fails : \A j \in Fails : m <= j
  <2>1. Fails \in SUBSET Nat
    BY <1>0
  <2> HIDE DEF Fails
  <2> QED
    BY <2>1, FirstOf
<1>2. CASE m = 0
  <2> DEFINE f == [k \in 0..0 |-> {0}]
  <2>1. f \in [0..0 -> SUBSET Nat] /\ IsUp(f, o, 0)
    BY DEF IsUp
  <2> HIDE DEF f
  <2> QED
    BY <1>1, <1>2, <2>1
<1>3. CASE m # 0
  <2>1. m \in 1..Len(o) /\ m \in Nat /\ m - 1 \in 0..Len(o) /\ m - 1 \notin Fails
    BY <1>0, <1>1, <1>3
  <2>2. PICK f \in [0..(m - 1) -> SUBSET Nat] : IsUp(f, o, m - 1)
    BY <2>1
  <2>3. \A k \in 1..m : o[k].parent \in 0..(k - 1)
    BY <1>0, <2>1, OperationFacts
  <2> DEFINE g == [k \in 0..m |-> IF k = m THEN {m} \cup f[o[m].parent] ELSE f[k]]
  <2>4. g \in [0..m -> SUBSET Nat]
    <3>1. f[o[m].parent] \in SUBSET Nat
      BY <2>1, <2>2, <2>3
    <3> QED
      BY <2>1, <2>2, <3>1
  <2>5. ASSUME NEW k \in 0..m
        PROVE  g[k] = IF k = 0 THEN {0} ELSE {k} \cup g[o[k].parent]
    <3>1. CASE k = m
      <4>1. o[m].parent \in 0..(m - 1)
        BY <2>1, <2>3
      <4> QED
        BY <1>3, <2>1, <3>1, <4>1
    <3>2. CASE k # m
      <4>1. k \in 0..(m - 1) /\ (k # 0 => o[k].parent \in 0..m /\ o[k].parent # m)
        BY <2>1, <2>3, <3>2
      <4> QED
        BY <2>2, <3>2, <4>1 DEF IsUp
    <3> QED
      BY <3>1, <3>2
  <2> HIDE DEF g
  <2>6. IsUp(g, o, m)
    BY <2>5 DEF IsUp
  <2> QED
    BY <1>1, <2>4, <2>6
<1> QED
  BY <1>2, <1>3

LEMMA AncestorsDefined ==
  ASSUME NEW o \in Operations
  PROVE  /\ Ancestors(o)[0] = {0}
         /\ \A n \in 1..Len(o) : Ancestors(o)[n] = {n} \cup Ancestors(o)[o[n].parent]
<1> DEFINE Eq(f, k) == IF k = 0 THEN {0} ELSE {k} \cup f[o[k].parent]
           F == CHOOSE f : f = [k \in 0..Len(o) |-> Eq(f, k)]
<1>1. Ancestors(o) = F
  BY DEF Ancestors
<1>2. Len(o) \in Nat
  BY OperationFacts
<1>3. PICK f \in [0..Len(o) -> SUBSET Nat] : IsUp(f, o, Len(o))
  BY <1>2, UpExists
<1>4. f = [k \in 0..Len(o) |-> Eq(f, k)]
  BY <1>3 DEF IsUp
<1> HIDE DEF Eq
<1>5. F = [k \in 0..Len(o) |-> Eq(F, k)]
  BY <1>4
<1>6. \A k \in 0..Len(o) : F[k] = Eq(F, k)
  BY <1>5
<1> HIDE DEF F
<1> QED
  BY <1>1, <1>2, <1>6 DEF Eq

\* What lies above a node is the node, the operation and nodes before it.
LEMMA AncestorsFirst ==
  ASSUME NEW o \in Operations, NEW n \in 0..Len(o)
  PROVE  Ancestors(o)[n] \subseteq 0..n /\ n \in Ancestors(o)[n] /\ 0 \in Ancestors(o)[n]
<1> DEFINE Sound(k) == Ancestors(o)[k] \subseteq 0..k /\ k \in Ancestors(o)[k] /\ 0 \in Ancestors(o)[k]
           Fails == {k \in 0..Len(o) : ~Sound(k)}
<1> SUFFICES ASSUME Fails # {} PROVE FALSE
  OBVIOUS
<1>0. Len(o) \in Nat
  BY OperationFacts
<1>1. PICK k \in Fails : \A j \in Fails : k <= j
  <2>1. Fails \in SUBSET Nat
    BY <1>0
  <2> HIDE DEF Fails
  <2> QED
    BY <2>1, FirstOf
<1>2. k \in 0..Len(o) /\ k \in Nat /\ ~Sound(k)
  BY <1>0, <1>1
<1>3. k # 0
  BY <1>2, AncestorsDefined
<1>4. o[k].parent \in 0..(k - 1)
  BY <1>0, <1>2, <1>3, OperationFacts
<1>5. Sound(o[k].parent)
  BY <1>0, <1>1, <1>2, <1>4
<1>6. Ancestors(o)[k] = {k} \cup Ancestors(o)[o[k].parent]
  BY <1>0, <1>2, <1>3, AncestorsDefined
<1> QED
  BY <1>2, <1>4, <1>5, <1>6

\* What lies above a node above another lies above that.
LEMMA AncestorsChain ==
  ASSUME NEW o \in Operations, NEW n \in 0..Len(o), NEW a \in Ancestors(o)[n]
  PROVE  Ancestors(o)[a] \subseteq Ancestors(o)[n]
<1> DEFINE Sound(k) == \A x \in Ancestors(o)[k] : Ancestors(o)[x] \subseteq Ancestors(o)[k]
           Fails == {k \in 0..Len(o) : ~Sound(k)}
<1> SUFFICES ASSUME Fails # {} PROVE FALSE
  OBVIOUS
<1>0. Len(o) \in Nat
  BY OperationFacts
<1>1. PICK k \in Fails : \A j \in Fails : k <= j
  <2>1. Fails \in SUBSET Nat
    BY <1>0
  <2> HIDE DEF Fails
  <2> QED
    BY <2>1, FirstOf
<1>2. k \in 0..Len(o) /\ k \in Nat /\ ~Sound(k)
  BY <1>0, <1>1
<1>3. k # 0
  BY <1>2, AncestorsDefined
<1>4. o[k].parent \in 0..(k - 1) /\ Ancestors(o)[k] = {k} \cup Ancestors(o)[o[k].parent]
  BY <1>0, <1>2, <1>3, OperationFacts, AncestorsDefined
<1>5. Sound(o[k].parent)
  BY <1>0, <1>1, <1>2, <1>4
<1> QED
  BY <1>2, <1>4, <1>5

\* The nodes below a node are those that follow it, up to some number: what is
\* above the last of a run of nodes, but not in the run, is above all of them.
LEMMA AncestorsBetween ==
  ASSUME NEW o \in Operations, NEW n \in 0..Len(o), NEW a \in Ancestors(o)[n],
         NEW b \in a..n
  PROVE  a \in Ancestors(o)[b]
<1> DEFINE Sound(k) == \A x \in Ancestors(o)[k] : \A y \in x..k : x \in Ancestors(o)[y]
           Fails == {k \in 0..Len(o) : ~Sound(k)}
<1>0. Len(o) \in Nat
  BY OperationFacts
<1>1. Fails = {}
  <2> SUFFICES ASSUME Fails # {} PROVE FALSE
    OBVIOUS
  <2>1. PICK k \in Fails : \A j \in Fails : k <= j
    <3>1. Fails \in SUBSET Nat
      BY <1>0
    <3> HIDE DEF Fails
    <3> QED
      BY <3>1, FirstOf
  <2>2. k \in 0..Len(o) /\ k \in Nat
    BY <1>0, <2>1
  <2>3. PICK x \in Ancestors(o)[k] : ~\A y \in x..k : x \in Ancestors(o)[y]
    BY <2>1
  <2>4. PICK y \in x..k : x \notin Ancestors(o)[y]
    BY <2>3
  <2>5. x \in 0..k /\ x # y
    BY <1>0, <2>2, <2>3, <2>4, AncestorsFirst
  <2>6. y # k /\ k # 0
    BY <2>2, <2>3, <2>5, <2>4
  <2>7. /\ k - 1 \in 0..Len(o) /\ k - 1 \in Nat
        /\ o[k].parent \in 0..(k - 1) /\ o[k].parent \in Ancestors(o)[k - 1]
        /\ Ancestors(o)[k] = {k} \cup Ancestors(o)[o[k].parent]
    BY <1>0, <2>2, <2>6, OperationFacts, AncestorsDefined
  <2>8. Sound(k - 1)
    BY <1>0, <2>1, <2>2, <2>7
  <2>9. x \in Ancestors(o)[o[k].parent]
    BY <2>2, <2>3, <2>5, <2>6, <2>7
  <2>10. x \in Ancestors(o)[k - 1]
    BY <2>7, <2>9, AncestorsChain
  <2> QED
    BY <2>2, <2>4, <2>5, <2>6, <2>7, <2>8, <2>10
<1> QED
  BY <1>1

----------------------------------------------------------------------------
(* Sets in an order.                                                       *)

IsOrder(R, S) ==
  /\ \A a \in S : <<a, a>> \notin R
  /\ \A a, b \in S : a = b \/ <<a, b>> \in R \/ <<b, a>> \in R
  /\ \A a, b, c \in S : <<a, b>> \in R /\ <<b, c>> \in R => <<a, c>> \in R

LEMMA SmallerSet ==
  ASSUME NEW S, IsFiniteSet(S), NEW x \in S
  PROVE  /\ IsFiniteSet(S \ {x}) /\ Cardinality(S) \in Nat /\ Cardinality(S) # 0
         /\ Cardinality(S \ {x}) = Cardinality(S) - 1
BY FS_RemoveElement, FS_CardinalityType, FS_EmptySet

LEMMA LastExists ==
  ASSUME NEW S, IsFiniteSet(S), S # {}, NEW R, IsOrder(R, S)
  PROVE  \E m \in S : \A x \in S : x = m \/ <<x, m>> \in R
<1> DEFINE Fails == {T \in SUBSET S : T # {} /\ ~\E m \in T : \A x \in T : x = m \/ <<x, m>> \in R}
           Sizes == {Cardinality(T) : T \in Fails}
<1> SUFFICES ASSUME Fails # {} PROVE FALSE
  OBVIOUS
<1>1. \A T \in SUBSET S : IsFiniteSet(T) /\ Cardinality(T) \in Nat
  BY FS_Subset, FS_CardinalityType
<1>2. PICK n \in Sizes : \A k \in Sizes : n <= k
  <2>1. Sizes \in SUBSET Nat /\ Sizes # {}
    BY <1>1
  <2> HIDE DEF Sizes
  <2> QED
    BY <2>1, FirstOf
<1>3. PICK T \in Fails : n = Cardinality(T)
  BY <1>2
<1>4. PICK x \in T : TRUE
  BY <1>3
<1> DEFINE U == T \ {x}
<1>5. U \in SUBSET S /\ Cardinality(U) = n - 1 /\ n \in Nat
  BY <1>1, <1>3, <1>4, SmallerSet
<1>6. U \notin Fails
  <2>1. ~(n <= n - 1)
    BY <1>5
  <2> QED
    BY <1>2, <1>5, <2>1
<1>7. CASE U = {}
  BY <1>3, <1>4, <1>7
<1>8. CASE U # {}
  <2>1. PICK m \in U : \A y \in U : y = m \/ <<y, m>> \in R
    BY <1>5, <1>6, <1>8
  <2>2. CASE <<x, m>> \in R
    <3>1. \A y \in T : y = m \/ <<y, m>> \in R
      BY <2>1, <2>2
    <3> QED
      BY <1>3, <2>1, <3>1
  <2>3. CASE <<m, x>> \in R
    <3>1. \A y \in T : y = x \/ <<y, x>> \in R
      BY <1>3, <1>4, <2>1, <2>3 DEF IsOrder
    <3> QED
      BY <1>3, <1>4, <3>1
  <2>4. x # m /\ x \in S /\ m \in S
    BY <1>3, <1>4, <2>1
  <2> QED
    BY <2>2, <2>3, <2>4 DEF IsOrder
<1> QED
  BY <1>7, <1>8

IsInOrder(s, R) == \A i, j \in DOMAIN s : i < j => <<s[i], s[j]>> \in R

LEMMA SortedExists ==
  ASSUME NEW S, IsFiniteSet(S), NEW R, IsOrder(R, S)
  PROVE  \E s \in [1..Cardinality(S) -> S] : IsInOrder(s, R)
<1> DEFINE Fails == {T \in SUBSET S : ~\E s \in [1..Cardinality(T) -> T] : IsInOrder(s, R)}
           Sizes == {Cardinality(T) : T \in Fails}
<1> SUFFICES ASSUME Fails # {} PROVE FALSE
  OBVIOUS
<1>1. \A T \in SUBSET S : IsFiniteSet(T) /\ Cardinality(T) \in Nat
  BY FS_Subset, FS_CardinalityType
<1>2. PICK n \in Sizes : \A k \in Sizes : n <= k
  <2>1. Sizes \in SUBSET Nat /\ Sizes # {}
    BY <1>1
  <2> HIDE DEF Sizes
  <2> QED
    BY <2>1, FirstOf
<1>3. PICK T \in Fails : n = Cardinality(T)
  BY <1>2
<1>4. T # {}
  <2> SUFFICES ASSUME T = {} PROVE FALSE
    OBVIOUS
  <2>1. Cardinality(T) = 0
    BY FS_EmptySet
  <2> DEFINE s == [i \in 1..0 |-> i]
  <2>2. s \in [1..0 -> {}] /\ IsInOrder(s, R)
    BY DEF IsInOrder
  <2> HIDE DEF s
  <2> QED
    BY <1>3, <2>1, <2>2
<1>5. PICK m \in T : \A x \in T : x = m \/ <<x, m>> \in R
  <2>1. IsOrder(R, T)
    BY <1>3 DEF IsOrder
  <2> QED
    BY <1>1, <1>3, <1>4, <2>1, LastExists
<1> DEFINE U == T \ {m}
<1>6. U \in SUBSET S /\ Cardinality(U) = n - 1 /\ n \in Nat /\ n # 0
  BY <1>1, <1>3, <1>5, SmallerSet
<1>7. U \notin Fails
  <2>1. ~(n <= n - 1)
    BY <1>6
  <2> QED
    BY <1>2, <1>6, <2>1
<1>8. PICK s \in [1..(n - 1) -> U] : IsInOrder(s, R)
  BY <1>6, <1>7
<1> DEFINE t == [i \in 1..n |-> IF i = n THEN m ELSE s[i]]
<1>9. t \in [1..n -> T]
  BY <1>5, <1>6, <1>8
<1>10. IsInOrder(t, R)
  <2> SUFFICES ASSUME NEW i \in 1..n, NEW j \in 1..n, i < j PROVE <<t[i], t[j]>> \in R
    BY DEF IsInOrder
  <2>1. i \in 1..(n - 1) /\ t[i] = s[i]
    BY <1>6
  <2>2. CASE j = n
    BY <1>5, <1>8, <2>1, <2>2
  <2>3. CASE j # n
    <3>1. j \in 1..(n - 1) /\ t[j] = s[j]
      BY <1>6, <2>3
    <3> QED
      BY <1>8, <2>1, <3>1 DEF IsInOrder
  <2> QED
    BY <2>2, <2>3
<1> HIDE DEF t
<1> QED
  BY <1>3, <1>9, <1>10

\* A sorted sequence has each member of the set once.
LEMMA SortedOnce ==
  ASSUME NEW S, IsFiniteSet(S), NEW R, IsOrder(R, S),
         NEW s \in [1..Cardinality(S) -> S], IsInOrder(s, R)
  PROVE  /\ s \in Seq(S) /\ DOMAIN s = 1..Cardinality(S)
         /\ \A i, j \in DOMAIN s : s[i] = s[j] => i = j
         /\ \A x \in S : \E i \in DOMAIN s : s[i] = x
<1>1. Cardinality(S) \in Nat /\ DOMAIN s = 1..Cardinality(S)
  BY FS_CardinalityType
<1>2. ASSUME NEW i \in DOMAIN s, NEW j \in DOMAIN s, s[i] = s[j] PROVE i = j
  <2>1. s[i] \in S /\ s[j] \in S /\ i \in Nat /\ j \in Nat
    BY <1>1
  <2>2. ~(i < j) /\ ~(j < i)
    BY <1>2, <2>1 DEF IsOrder, IsInOrder
  <2> QED
    BY <2>1, <2>2
<1>3. s \in Injection(1..Cardinality(S), S)
  BY <1>1, <1>2 DEF Injection, IsInjective
<1>4. s \in Surjection(1..Cardinality(S), S)
  <2>1. Cardinality(1..Cardinality(S)) = Cardinality(S)
    BY <1>1, FS_Interval
  <2> QED
    BY <1>3, <2>1, FS_Injection
<1> QED
  BY <1>1, <1>2, <1>4 DEF Surjection

----------------------------------------------------------------------------
(* The order of fetches and of objects.                                    *)

LEMMA NodeFacts ==
  ASSUME op \in Operations
  PROVE  /\ Len(op) \in Nat /\ Nodes = 1..Len(op) /\ IsFiniteSet(Nodes)
         /\ \A n \in Nodes : /\ n \in Nat /\ n # 0 /\ op[n].parent \in 0..Len(op)
                             /\ op[n].parent \in Nat /\ op[n].parent < n
                             /\ Above(n) = {n} \cup Above(op[n].parent)
         /\ Above(0) = {0}
         /\ \A n \in 0..Len(op) : Above(n) \subseteq 0..n /\ n \in Above(n) /\ 0 \in Above(n)
         /\ \A n \in 0..Len(op) : \A a \in Above(n) :
              a \in 0..Len(op) /\ a <= n /\ Above(a) \subseteq Above(n)
         /\ \A n \in 0..Len(op) : \A a \in Above(n) : \A b \in a..n : a \in Above(b)
<1>1. Len(op) \in Nat /\ Nodes = 1..Len(op) /\ IsFiniteSet(Nodes)
  BY OperationFacts, FS_Interval DEF Nodes
<1>2. \A n \in Nodes : /\ n \in Nat /\ n # 0 /\ op[n].parent \in 0..Len(op)
                       /\ op[n].parent \in Nat /\ op[n].parent < n
                       /\ Above(n) = {n} \cup Above(op[n].parent)
  BY <1>1, OperationFacts, AncestorsDefined DEF Above
<1>3. Above(0) = {0}
  BY AncestorsDefined DEF Above
<1>4. \A n \in 0..Len(op) : Above(n) \subseteq 0..n /\ n \in Above(n) /\ 0 \in Above(n)
  BY AncestorsFirst DEF Above
<1>5. \A n \in 0..Len(op) : \A a \in Above(n) :
        a \in 0..Len(op) /\ a <= n /\ Above(a) \subseteq Above(n)
  <2> SUFFICES ASSUME NEW n \in 0..Len(op), NEW a \in Above(n)
               PROVE  a \in 0..Len(op) /\ a <= n /\ Above(a) \subseteq Above(n)
    OBVIOUS
  <2>1. a \in 0..n
    BY <1>4
  <2>2. Above(a) \subseteq Above(n)
    BY AncestorsChain DEF Above
  <2> QED
    BY <1>1, <2>1, <2>2
<1>6. \A n \in 0..Len(op) : \A a \in Above(n) : \A b \in a..n : a \in Above(b)
  BY AncestorsBetween DEF Above
<1> QED
  BY <1>1, <1>2, <1>3, <1>4, <1>5, <1>6

LEMMA PlaceFacts ==
  ASSUME op \in Operations
  PROVE  /\ Place(0) = 0
         /\ \A n \in Nodes : /\ Place(n) \in Places /\ Place(n) \in Nodes
                             /\ Place(n) <= n /\ Place(Place(n)) = Place(n)
                             /\ Place(op[Place(n)].parent) = Place(op[n].parent)
         /\ \A n \in 0..Len(op) : Place(n) \in 0..Len(op) /\ Place(Place(n)) = Place(n)
         /\ Places \subseteq Nodes /\ \A n \in Places : Place(n) = n
<1>1. Len(op) \in Nat /\ Nodes = 1..Len(op) /\ DOMAIN op = 1..Len(op)
  BY OperationFacts DEF Nodes
<1>2. Place(0) = 0
  BY DEF Place
<1>3. ASSUME NEW n \in Nodes
      PROVE  /\ Place(n) \in Nodes /\ Place(n) <= n /\ Place(Place(n)) = Place(n)
             /\ Place(op[Place(n)].parent) = Place(op[n].parent)
  <2>1. Place(n) = op[n].place
    BY <1>1 DEF Place
  <2>2. op[n].place \in 1..n /\ op[op[n].place].place = op[n].place
    BY <1>1, QueryAssumption
  <2>3. Place(n) \in Nodes /\ Place(n) <= n
    BY <1>1, <2>1, <2>2
  <2>4. Place(Place(n)) = Place(n)
    BY <1>1, <2>1, <2>2, <2>3 DEF Place
  <2>5. ParentPlace(op, op[n].place) = ParentPlace(op, n)
    BY <1>1, <2>1, <2>2, <2>3, QueryAssumption
  <2> QED
    BY <2>1, <2>3, <2>4, <2>5 DEF ParentPlace, Place
<1>4. Places \subseteq Nodes /\ \A n \in Places : Place(n) = n
  BY DEF Places
<1>5. \A n \in Nodes : Place(n) \in Places
  BY <1>3 DEF Places
<1>6. ASSUME NEW n \in 0..Len(op)
      PROVE  Place(n) \in 0..Len(op) /\ Place(Place(n)) = Place(n)
  <2>1. CASE n = 0
    BY <1>1, <1>2, <2>1
  <2>2. CASE n # 0
    BY <1>1, <1>3, <2>2
  <2> QED
    BY <2>1, <2>2
<1> QED
  BY <1>2, <1>3, <1>4, <1>5, <1>6

PlacesAbove(n) == {Place(a) : a \in Above(n)}

\* Fields of one place lie below the same places.
LEMMA PlaceAbove ==
  ASSUME op \in Operations, NEW n \in 0..Len(op)
  PROVE  PlacesAbove(Place(n)) = PlacesAbove(n)
<1> DEFINE Fails == {k \in 0..Len(op) : PlacesAbove(Place(k)) # PlacesAbove(k)}
<1> SUFFICES ASSUME Fails # {} PROVE FALSE
  OBVIOUS
<1>1. PICK k \in Fails : \A j \in Fails : k <= j
  <2>1. Fails \in SUBSET Nat
    BY NodeFacts
  <2> HIDE DEF Fails
  <2> QED
    BY <2>1, FirstOf
<1>2. k \in 0..Len(op) /\ PlacesAbove(Place(k)) # PlacesAbove(k)
  BY <1>1
<1>3. k # 0
  BY <1>2, PlaceFacts
<1>4. k \in Nodes
  BY <1>2, <1>3, NodeFacts
<1> DEFINE l == Place(k)
           u == op[k].parent
           v == op[l].parent
<1>5. /\ l \in Nodes /\ l \in Nat /\ k \in Nat /\ l <= k /\ Place(l) = l /\ Place(v) = Place(u)
      /\ u \in 0..Len(op) /\ u \in Nat /\ u < k /\ Above(k) = {k} \cup Above(u)
      /\ v \in 0..Len(op) /\ v \in Nat /\ v < l /\ Above(l) = {l} \cup Above(v)
  BY <1>4, PlaceFacts, NodeFacts
<1> HIDE DEF l, u, v
<1>6. u \notin Fails /\ v \notin Fails
  BY <1>1, <1>5
<1>7. PlacesAbove(u) = PlacesAbove(v)
  BY <1>5, <1>6
<1>8. PlacesAbove(k) = {l} \cup PlacesAbove(u) /\ PlacesAbove(l) = {l} \cup PlacesAbove(v)
  BY <1>5 DEF PlacesAbove, l
<1> QED
  BY <1>2, <1>7, <1>8 DEF l

LEMMA FirstSeenType ==
  ASSUME op \in Operations, NEW f \in Fetches
  PROVE  /\ f[1] \in 0..Len(op) /\ f = <<f[1], f[2]>>
         /\ FirstSeen(f) \in Nat /\ Home(FirstSeen(f)) = f[2]
<1>1. PICK c \in Nodes : f = <<op[c].parent, Home(c)>>
  BY DEF Fetches
<1> DEFINE S == {d \in Kids(f[1]) : Home(d) = f[2]}
<1>2. c \in S /\ S \in SUBSET Nat
  BY <1>1, NodeFacts DEF Kids
<1>3. \E p \in S : \A q \in S : p <= q
  BY <1>2, FirstOf
<1>4. FirstSeen(f) = CHOOSE p \in S : \A q \in S : p <= q
  BY DEF FirstSeen, Min
<1>5. FirstSeen(f) \in S
  <2> HIDE DEF S
  <2> QED
    BY <1>3, <1>4
<1> QED
  BY <1>1, <1>2, <1>5, NodeFacts

\* Fetches of different nodes are in the order in which the nodes end.
LEMMA PrecedesOrder ==
  ASSUME op \in Operations, NEW S \in SUBSET Fetches
  PROVE  IsOrder({x \in S \X S : Precedes(x[1], x[2])}, S)
<1> DEFINE R == {x \in S \X S : Precedes(x[1], x[2])}
<1>1. \A f, g \in S : <<f, g>> \in R <=> Precedes(f, g)
  OBVIOUS
<1> HIDE DEF R
<1>2. \A f \in S : /\ f[1] \in 0..Len(op) /\ f[1] \in Nat /\ f = <<f[1], f[2]>>
                   /\ FirstSeen(f) \in Nat /\ Home(FirstSeen(f)) = f[2]
  BY FirstSeenType, NodeFacts
<1>3. ASSUME NEW f \in S PROVE ~Precedes(f, f)
  BY <1>2 DEF Precedes
<1>4. ASSUME NEW f \in S, NEW g \in S PROVE f = g \/ Precedes(f, g) \/ Precedes(g, f)
  <2>1. CASE f[1] = g[1]
    <3>1. f = g \/ FirstSeen(f) # FirstSeen(g)
      BY <1>2, <2>1
    <3> QED
      BY <1>2, <2>1, <3>1 DEF Precedes
  <2>2. CASE f[1] < g[1]
    BY <1>2, <2>2 DEF Precedes
  <2>3. CASE g[1] < f[1]
    BY <1>2, <2>3 DEF Precedes
  <2> QED
    BY <1>2, <2>1, <2>2, <2>3
<1>5. ASSUME NEW f \in S, NEW g \in S, NEW h \in S, Precedes(f, g), Precedes(g, h)
      PROVE  Precedes(f, h)
  <2> DEFINE a == f[1]
             b == g[1]
             c == h[1]
  <2>1. /\ a \in 0..Len(op) /\ b \in 0..Len(op) /\ c \in 0..Len(op)
        /\ a \in Nat /\ b \in Nat /\ c \in Nat
    BY <1>2
  <2>2. \A m, n \in 0..Len(op) : m \in Above(n) => m <= n
    BY NodeFacts
  <2>3. \A l, m, n \in 0..Len(op) : l \in Above(m) /\ m \in Above(n) => l \in Above(n)
    BY NodeFacts
  <2>4. \A l, m, n \in 0..Len(op) : l \in Above(n) /\ l <= m /\ m <= n => l \in Above(m)
    <3> SUFFICES ASSUME NEW l \in 0..Len(op), NEW m \in 0..Len(op), NEW n \in 0..Len(op),
                        l \in Above(n), l <= m, m <= n
                 PROVE  l \in Above(m)
      OBVIOUS
    <3>1. m \in l..n
      BY NodeFacts
    <3> QED
      BY <3>1, NodeFacts
  <2>5. \/ a = b /\ FirstSeen(f) < FirstSeen(g)
        \/ a # b /\ b \in Above(a)
        \/ a < b /\ a \notin Above(b)
    BY <1>5 DEF Precedes
  <2>6. \/ b = c /\ FirstSeen(g) < FirstSeen(h)
        \/ b # c /\ c \in Above(b)
        \/ b < c /\ b \notin Above(c)
    BY <1>5 DEF Precedes
  <2>7. \/ a = c /\ FirstSeen(f) < FirstSeen(h)
        \/ a # c /\ c \in Above(a)
        \/ a < c /\ a \notin Above(c)
    <3> HIDE DEF a, b, c
    <3>1. CASE a = b
      BY <1>2, <2>1, <2>5, <2>6, <3>1
    <3>2. CASE b = c
      BY <1>2, <2>1, <2>5, <2>6, <3>2
    <3>3. CASE a # b /\ b # c
      <4>1. CASE b \in Above(a) /\ c \in Above(b)
        BY <2>1, <2>2, <2>3, <3>3, <4>1
      <4>2. CASE b \in Above(a) /\ b < c /\ b \notin Above(c)
        BY <2>1, <2>2, <2>3, <2>4, <3>3, <4>2
      <4>3. CASE a < b /\ a \notin Above(b) /\ c \in Above(b)
        BY <2>1, <2>2, <2>3, <2>4, <3>3, <4>3
      <4>4. CASE a < b /\ a \notin Above(b) /\ b < c /\ b \notin Above(c)
        BY <2>1, <2>2, <2>3, <2>4, <3>3, <4>4
      <4> QED
        BY <2>5, <2>6, <3>3, <4>1, <4>2, <4>3, <4>4
    <3> QED
      BY <3>1, <3>2, <3>3
  <2> QED
    BY <2>7 DEF Precedes
<1> QED
  BY <1>1, <1>3, <1>4, <1>5 DEF IsOrder

LEMMA SortedFetches ==
  ASSUME op \in Operations, NEW S \in SUBSET Fetches
  PROVE  /\ Sorted(S, Precedes) \in Seq(S)
         /\ \A i, j \in DOMAIN Sorted(S, Precedes) :
              Sorted(S, Precedes)[i] = Sorted(S, Precedes)[j] => i = j
         /\ \A f \in S : \E i \in DOMAIN Sorted(S, Precedes) : Sorted(S, Precedes)[i] = f
<1> DEFINE R == {x \in S \X S : Precedes(x[1], x[2])}
           n == Cardinality(S)
           s == Sorted(S, Precedes)
<1>1. IsFiniteSet(S)
  <2> DEFINE F == [c \in Nodes |-> <<op[c].parent, Home(c)>>]
  <2>1. F \in Surjection(Nodes, Fetches)
    BY DEF Fetches, Surjection
  <2>2. IsFiniteSet(Fetches)
    <3> HIDE DEF F
    <3> QED
      BY <2>1, NodeFacts, FS_Surjection
  <2> QED
    BY <2>2, FS_Subset
<1>2. IsOrder(R, S)
  BY PrecedesOrder
<1>3. \A f, g \in S : <<f, g>> \in R <=> Precedes(f, g)
  OBVIOUS
<1> HIDE DEF R
<1>4. PICK t \in [1..n -> S] : IsInOrder(t, R)
  BY <1>1, <1>2, SortedExists
<1>5. \A i, j \in 1..n : i < j => Precedes(t[i], t[j])
  BY <1>3, <1>4 DEF IsInOrder
<1>6. s \in [1..n -> S] /\ \A i, j \in 1..n : i < j => Precedes(s[i], s[j])
  <2>1. s = CHOOSE u \in [1..n -> S] : \A i, j \in 1..n : i < j => Precedes(u[i], u[j])
    BY DEF Sorted
  <2> HIDE DEF s, n
  <2> QED
    BY <1>4, <1>5, <2>1
<1> HIDE DEF s
<1>7. IsInOrder(s, R)
  BY <1>3, <1>6 DEF IsInOrder
<1> QED
  BY <1>1, <1>2, <1>6, <1>7, SortedOnce DEF s

----------------------------------------------------------------------------
(* Positions.                                                              *)

LEMMA FiniteTuples ==
  ASSUME NEW T, IsFiniteSet(T), NEW n \in Nat
  PROVE  IsFiniteSet([1..n -> T])
<1> DEFINE Fails == {m \in Nat : ~IsFiniteSet([1..m -> T])}
<1> SUFFICES ASSUME Fails # {} PROVE FALSE
  OBVIOUS
<1>1. PICK m \in Fails : \A k \in Fails : m <= k
  <2>1. Fails \in SUBSET Nat
    OBVIOUS
  <2> HIDE DEF Fails
  <2> QED
    BY <2>1, FirstOf
<1>2. m # 0
  <2> SUFFICES ASSUME m = 0 PROVE FALSE
    OBVIOUS
  <2>1. [1..0 -> T] = {[i \in 1..0 |-> i]}
    <3> DEFINE e == [i \in 1..0 |-> i]
    <3>1. \A f \in [1..0 -> T] : f = e
      <4> SUFFICES ASSUME NEW f \in [1..0 -> T] PROVE f = e
        OBVIOUS
      <4>1. f = [i \in 1..0 |-> f[i]] /\ 1..0 = {}
        OBVIOUS
      <4> QED
        BY <4>1
    <3>2. e \in [1..0 -> T]
      OBVIOUS
    <3> HIDE DEF e
    <3>3. [1..0 -> T] = {e}
      BY <3>1, <3>2
    <3> QED
      BY <3>3 DEF e
  <2>2. IsFiniteSet({[i \in 1..0 |-> i]})
    BY FS_Singleton
  <2> QED
    BY <1>1, <2>1, <2>2
<1>3. IsFiniteSet([1..(m - 1) -> T]) /\ m \in Nat
  <2>1. m - 1 \in Nat /\ ~(m <= m - 1)
    BY <1>1, <1>2
  <2> QED
    BY <1>1, <2>1
<1> DEFINE P == [1..(m - 1) -> T] \X T
           F == [x \in P |-> [i \in 1..m |-> IF i = m THEN x[2] ELSE x[1][i]]]
<1>4. IsFiniteSet(P)
  BY <1>3, FS_Product
<1>5. F \in Surjection(P, [1..m -> T])
  <2>1. ASSUME NEW x \in P PROVE [i \in 1..m |-> IF i = m THEN x[2] ELSE x[1][i]] \in [1..m -> T]
    BY <1>3
  <2>2. ASSUME NEW g \in [1..m -> T] PROVE \E x \in P : F[x] = g
    <3> DEFINE h == [i \in 1..(m - 1) |-> g[i]]
               y == <<h, g[m]>>
    <3>1. m \in 1..m /\ \A i \in 1..(m - 1) : i \in 1..m
      BY <1>2, <1>3
    <3>2. y \in P
      BY <3>1
    <3>3. F[y] = [i \in 1..m |-> IF i = m THEN y[2] ELSE y[1][i]]
      BY <3>2
    <3>4. \A i \in 1..m : i = m \/ i \in 1..(m - 1)
      BY <1>3
    <3>5. [i \in 1..m |-> IF i = m THEN y[2] ELSE y[1][i]] = g
      BY <3>4
    <3> QED
      BY <3>2, <3>3, <3>5
  <2>3. F \in [P -> [1..m -> T]]
    BY <2>1
  <2> HIDE DEF F, P
  <2> QED
    BY <2>2, <2>3 DEF Surjection
<1>6. IsFiniteSet([1..m -> T])
  <2> HIDE DEF F, P
  <2> QED
    BY <1>4, <1>5, FS_Surjection
<1> QED
  BY <1>1, <1>6

LEMMA ListsType ==
  ASSUME op \in Operations, NEW n \in 0..Len(op)
  PROVE  Lists(n) \in Nat
<1>1. IsFiniteSet(0..Len(op))
  BY NodeFacts, FS_Interval
<1>2. {m \in Above(n) \ {0} : op[m].list} \in SUBSET (0..Len(op))
  BY NodeFacts
<1> QED
  BY <1>1, <1>2, FS_Subset, FS_CardinalityType DEF Lists

LEMMA PositionFacts ==
  ASSUME op \in Operations
  PROVE  /\ \A p \in Positions : /\ p = <<p[1], p[2]>> /\ p[1] \in Nodes
                                 /\ p[1] \in Places /\ Place(p[1]) = p[1]
                                 /\ p[2] \in Seq(Nat) /\ p[2] \in Indices(p[1])
         /\ IsFiniteSet(Positions)
<1> DEFINE Lengths(n) == IF op[n].list THEN {Lists(n) - 1, Lists(n)} ELSE {Lists(n)}
<1>1. ASSUME NEW n \in Nodes
      PROVE  /\ Lists(n) \in Nat /\ Lengths(n) \in SUBSET Int
             /\ Indices(n) = UNION {[1..k -> 1..Items] : k \in Lengths(n)}
  <2>1. Lists(n) \in Nat
    BY NodeFacts, ListsType
  <2> QED
    BY <2>1 DEF Indices
<1>2. \A k \in Int : [1..k -> 1..Items] \subseteq Seq(Nat) /\ IsFiniteSet([1..k -> 1..Items])
  <2> SUFFICES ASSUME NEW k \in Int
               PROVE  [1..k -> 1..Items] \subseteq Seq(Nat) /\ IsFiniteSet([1..k -> 1..Items])
    OBVIOUS
  <2> DEFINE l == IF k < 0 THEN 0 ELSE k
  <2>1. l \in Nat /\ 1..k = 1..l
    OBVIOUS
  <2> HIDE DEF l
  <2>2. IsFiniteSet(1..Items) /\ 1..Items \subseteq Nat
    BY QueryAssumption, FS_Interval
  <2>3. IsFiniteSet([1..l -> 1..Items])
    BY <2>1, <2>2, FiniteTuples
  <2>4. [1..l -> 1..Items] \subseteq Seq(Nat)
    BY <2>1, <2>2
  <2> QED
    BY <2>1, <2>3, <2>4
<1>3. ASSUME NEW n \in Nodes PROVE Indices(n) \subseteq Seq(Nat) /\ IsFiniteSet(Indices(n))
  <2>1. Indices(n) \subseteq Seq(Nat)
    BY <1>1, <1>2
  <2> DEFINE F == [k \in Lengths(n) |-> [1..k -> 1..Items]]
             L == {[1..k -> 1..Items] : k \in Lengths(n)}
  <2>2. IsFiniteSet(Lengths(n))
    <3>1. IsFiniteSet({Lists(n)}) /\ IsFiniteSet({Lists(n) - 1})
      BY FS_Singleton
    <3>2. IsFiniteSet({Lists(n)} \cup {Lists(n) - 1})
      BY <3>1, FS_Union
    <3>3. {Lists(n) - 1, Lists(n)} = {Lists(n)} \cup {Lists(n) - 1}
      OBVIOUS
    <3> QED
      BY <3>1, <3>2, <3>3
  <2> HIDE DEF Lengths
  <2>3. F \in Surjection(Lengths(n), L)
    BY DEF Surjection
  <2>4. IsFiniteSet(L)
    <3> HIDE DEF F, L
    <3> QED
      BY <2>2, <2>3, FS_Surjection
  <2>5. \A T \in L : IsFiniteSet(T)
    BY <1>1, <1>2
  <2>6. IsFiniteSet(UNION L)
    <3> HIDE DEF L
    <3> QED
      BY <2>4, <2>5, FS_UNION
  <2> QED
    BY <1>1, <2>1, <2>6
<1>4. \A p \in Positions : \E n \in Places : \E i \in Indices(n) : p = <<n, i>>
  BY DEF Positions
<1>5. IsFiniteSet(Positions)
  <2> DEFINE All == UNION {Indices(n) : n \in Nodes}
             L == {Indices(n) : n \in Nodes}
             F == [n \in Nodes |-> Indices(n)]
  <2>1. F \in Surjection(Nodes, L)
    BY DEF Surjection
  <2>2. IsFiniteSet(L)
    <3> HIDE DEF F, L
    <3> QED
      BY <2>1, NodeFacts, FS_Surjection
  <2>3. \A T \in L : IsFiniteSet(T)
    BY <1>3
  <2>4. IsFiniteSet(UNION L)
    <3> HIDE DEF L
    <3> QED
      BY <2>2, <2>3, FS_UNION
  <2>5. IsFiniteSet(Nodes \X All)
    <3>1. IsFiniteSet(All)
      BY <2>4
    <3> HIDE DEF All
    <3> QED
      BY <3>1, NodeFacts, FS_Product
  <2>6. Positions \in SUBSET (Nodes \X All)
    BY <1>4, PlaceFacts
  <2> QED
    BY <2>5, <2>6, FS_Subset
<1> QED
  BY <1>3, <1>4, <1>5, PlaceFacts

LEMMA PrefixIs ==
  ASSUME NEW s \in Seq(Nat), NEW t \in Seq(Nat)
  PROVE  IsPrefix(s, t) <=> Len(s) <= Len(t) /\ \A i \in 1..Len(s) : s[i] = t[i]
<1>1. CASE Len(s) <= Len(t)
  <2>1. /\ SubSeq(s, 1, Len(s)) = [i \in 1..Len(s) |-> s[i]]
        /\ SubSeq(t, 1, Len(s)) = [i \in 1..Len(s) |-> t[i]]
    BY <1>1
  <2> QED
    BY <1>1, <2>1 DEF IsPrefix
<1>2. CASE ~(Len(s) <= Len(t))
  BY <1>2 DEF IsPrefix
<1> QED
  BY <1>1, <1>2

LEMMA SameTuple ==
  ASSUME NEW s \in Seq(Nat), NEW t \in Seq(Nat), Len(s) = Len(t), \A i \in 1..Len(s) : s[i] = t[i]
  PROVE  s = t
OBVIOUS

\* What is below what is below a place is below the place.
LEMMA BelowChain ==
  ASSUME op \in Operations, NEW p, NEW q, NEW r,
         p[2] \in Seq(Nat), q[2] \in Seq(Nat), r[2] \in Seq(Nat),
         r[1] \in 0..Len(op), Below(p, q), Below(q, r)
  PROVE  Below(p, r)
<1>1. q[1] \in PlacesAbove(r[1]) /\ p[1] \in PlacesAbove(q[1])
  BY DEF Below, PlacesAbove
<1>2. p[1] \in PlacesAbove(r[1])
  <2>1. PICK b \in Above(r[1]) : q[1] = Place(b)
    BY <1>1 DEF PlacesAbove
  <2>2. b \in 0..Len(op) /\ Above(b) \subseteq Above(r[1])
    BY <2>1, NodeFacts
  <2>3. p[1] \in PlacesAbove(b)
    BY <1>1, <2>1, <2>2, PlaceAbove
  <2> QED
    BY <2>2, <2>3 DEF PlacesAbove
<1>3. IsPrefix(p[2], r[2])
  <2>1. /\ Len(p[2]) <= Len(q[2]) /\ \A i \in 1..Len(p[2]) : p[2][i] = q[2][i]
        /\ Len(q[2]) <= Len(r[2]) /\ \A i \in 1..Len(q[2]) : q[2][i] = r[2][i]
    BY PrefixIs DEF Below
  <2>2. Len(p[2]) \in Nat /\ Len(q[2]) \in Nat /\ Len(r[2]) \in Nat
    OBVIOUS
  <2>3. Len(p[2]) <= Len(r[2]) /\ \A i \in 1..Len(p[2]) : p[2][i] = r[2][i]
    BY <2>1, <2>2
  <2> QED
    BY <2>3, PrefixIs
<1> QED
  BY <1>2, <1>3 DEF Below, PlacesAbove

\* No place is below two objects of a node.
LEMMA OneAbove ==
  ASSUME op \in Operations, NEW m, NEW p \in ObjectsOf(m), NEW q \in ObjectsOf(m),
         NEW r \in Positions, Below(p, r), Below(q, r)
  PROVE  p = q
<1>1. /\ p = <<Place(m), p[2]>> /\ q = <<Place(m), q[2]>> /\ Len(p[2]) = Len(q[2])
      /\ p[2] \in Seq(Nat) /\ q[2] \in Seq(Nat) /\ r[2] \in Seq(Nat)
  BY PositionFacts DEF ObjectsOf
<1>2. /\ \A i \in 1..Len(p[2]) : p[2][i] = r[2][i]
      /\ \A i \in 1..Len(q[2]) : q[2][i] = r[2][i]
  BY <1>1, PrefixIs DEF Below
<1>3. p[2] = q[2]
  <2>1. \A i \in 1..Len(p[2]) : p[2][i] = q[2][i]
    BY <1>1, <1>2
  <2> QED
    BY <1>1, <2>1, SameTuple
<1> QED
  BY <1>1, <1>3

\* Objects of a node are in the order of their indices.
LEMMA EarlierOrder ==
  ASSUME op \in Operations, NEW m, NEW S \in SUBSET ObjectsOf(m)
  PROVE  IsOrder({x \in S \X S : Earlier(x[1], x[2])}, S)
<1> DEFINE R == {x \in S \X S : Earlier(x[1], x[2])}
<1>1. \A p, q \in S : <<p, q>> \in R <=> Earlier(p, q)
  OBVIOUS
<1> HIDE DEF R
<1>2. \A p \in S : /\ p = <<Place(m), p[2]>> /\ p[2] \in Seq(Nat)
                   /\ Len(p[2]) = Lists(Place(m)) /\ Lists(Place(m)) \in Nat
                   /\ DOMAIN p[2] = 1..Lists(Place(m))
                   /\ \A i \in 1..Lists(Place(m)) : p[2][i] \in Nat
  <2> SUFFICES ASSUME NEW p \in S
               PROVE  /\ p = <<Place(m), p[2]>> /\ p[2] \in Seq(Nat)
                      /\ Len(p[2]) = Lists(Place(m)) /\ Lists(Place(m)) \in Nat
                      /\ DOMAIN p[2] = 1..Lists(Place(m))
                      /\ \A i \in 1..Lists(Place(m)) : p[2][i] \in Nat
    OBVIOUS
  <2>1. p = <<Place(m), p[2]>> /\ p[2] \in Seq(Nat) /\ Len(p[2]) = Lists(Place(m))
    BY PositionFacts DEF ObjectsOf
  <2> QED
    BY <2>1
<1>3. ASSUME NEW p \in S, NEW q \in S
      PROVE  Earlier(p, q) <=> \E j \in 1..Lists(Place(m)) : /\ p[2][j] < q[2][j]
                                                            /\ \A i \in 1..(j - 1) : p[2][i] = q[2][i]
  <2>1. ASSUME NEW j \in 1..Lists(Place(m))
        PROVE  SubSeq(p[2], 1, j - 1) = SubSeq(q[2], 1, j - 1)
                 <=> \A i \in 1..(j - 1) : p[2][i] = q[2][i]
    <3>1. /\ SubSeq(p[2], 1, j - 1) = [i \in 1..(j - 1) |-> p[2][i]]
          /\ SubSeq(q[2], 1, j - 1) = [i \in 1..(j - 1) |-> q[2][i]]
      BY <1>2
    <3> QED
      BY <3>1
  <2> QED
    BY <1>2, <2>1 DEF Earlier
<1>4. ASSUME NEW p \in S PROVE ~Earlier(p, p)
  BY <1>2, <1>3
<1>5. ASSUME NEW p \in S, NEW q \in S, p # q PROVE Earlier(p, q) \/ Earlier(q, p)
  <2> DEFINE D == {j \in 1..Lists(Place(m)) : p[2][j] # q[2][j]}
  <2>1. D # {} /\ D \in SUBSET Nat
    <3>1. /\ p[2] \in Seq(Nat) /\ q[2] \in Seq(Nat) /\ p[2] # q[2]
          /\ Len(p[2]) = Lists(Place(m)) /\ Len(q[2]) = Lists(Place(m)) /\ Lists(Place(m)) \in Nat
      BY <1>2, <1>5
    <3>2. ~\A i \in 1..Lists(Place(m)) : p[2][i] = q[2][i]
      BY <3>1, SameTuple
    <3>3. PICK j \in 1..Lists(Place(m)) : p[2][j] # q[2][j]
      BY <3>2
    <3>4. j \in D
      BY <3>3
    <3>5. D \in SUBSET Nat
      BY <3>1
    <3> QED
      BY <3>4, <3>5
  <2>2. PICK j \in D : \A i \in D : j <= i
    <3> HIDE DEF D
    <3> QED
      BY <2>1, FirstOf
  <2>3. j \in 1..Lists(Place(m)) /\ \A i \in 1..(j - 1) : p[2][i] = q[2][i]
    BY <1>2, <2>2
  <2>4. p[2][j] < q[2][j] \/ q[2][j] < p[2][j]
    BY <1>2, <2>2
  <2> QED
    BY <1>3, <2>3, <2>4
<1>6. ASSUME NEW p \in S, NEW q \in S, NEW r \in S, Earlier(p, q), Earlier(q, r)
      PROVE  Earlier(p, r)
  <2>1. PICK j \in 1..Lists(Place(m)) : p[2][j] < q[2][j] /\ \A i \in 1..(j - 1) : p[2][i] = q[2][i]
    BY <1>3, <1>6
  <2>2. PICK k \in 1..Lists(Place(m)) : q[2][k] < r[2][k] /\ \A i \in 1..(k - 1) : q[2][i] = r[2][i]
    BY <1>3, <1>6
  <2>3. /\ p[2][j] \in Nat /\ q[2][j] \in Nat /\ r[2][j] \in Nat
        /\ p[2][k] \in Nat /\ q[2][k] \in Nat /\ r[2][k] \in Nat
        /\ j \in Nat /\ k \in Nat
    BY <1>2
  <2>4. CASE j <= k
    <3>1. p[2][j] < r[2][j]
      BY <2>1, <2>2, <2>3, <2>4
    <3>2. \A i \in 1..(j - 1) : p[2][i] = r[2][i]
      BY <2>1, <2>2, <2>3, <2>4
    <3> QED
      BY <1>3, <3>1, <3>2
  <2>5. CASE k < j
    <3>1. p[2][k] < r[2][k]
      BY <2>1, <2>2, <2>3, <2>5
    <3>2. \A i \in 1..(k - 1) : p[2][i] = r[2][i]
      BY <2>1, <2>2, <2>3, <2>5
    <3> QED
      BY <1>3, <3>1, <3>2
  <2> QED
    BY <2>3, <2>4, <2>5
<1> QED
  BY <1>1, <1>4, <1>5, <1>6 DEF IsOrder

LEMMA SortedObjects ==
  ASSUME op \in Operations, NEW m, NEW S \in SUBSET ObjectsOf(m)
  PROVE  /\ Sorted(S, Earlier) \in Seq(S)
         /\ \A i, j \in DOMAIN Sorted(S, Earlier) :
              Sorted(S, Earlier)[i] = Sorted(S, Earlier)[j] => i = j
         /\ \A f \in S : \E i \in DOMAIN Sorted(S, Earlier) : Sorted(S, Earlier)[i] = f
<1> DEFINE R == {x \in S \X S : Earlier(x[1], x[2])}
           n == Cardinality(S)
           s == Sorted(S, Earlier)
<1>1. IsFiniteSet(S)
  <2>1. S \in SUBSET Positions
    BY DEF ObjectsOf
  <2> QED
    BY <2>1, PositionFacts, FS_Subset
<1>2. IsOrder(R, S)
  BY EarlierOrder
<1>3. \A f, g \in S : <<f, g>> \in R <=> Earlier(f, g)
  OBVIOUS
<1> HIDE DEF R
<1>4. PICK t \in [1..n -> S] : IsInOrder(t, R)
  BY <1>1, <1>2, SortedExists
<1>5. \A i, j \in 1..n : i < j => Earlier(t[i], t[j])
  BY <1>3, <1>4 DEF IsInOrder
<1>6. s \in [1..n -> S] /\ \A i, j \in 1..n : i < j => Earlier(s[i], s[j])
  <2>1. s = CHOOSE u \in [1..n -> S] : \A i, j \in 1..n : i < j => Earlier(u[i], u[j])
    BY DEF Sorted
  <2> HIDE DEF s, n
  <2> QED
    BY <1>4, <1>5, <2>1
<1> HIDE DEF s
<1>7. IsInOrder(s, R)
  BY <1>3, <1>6 DEF IsInOrder
<1> QED
  BY <1>1, <1>2, <1>6, <1>7, SortedOnce DEF s

----------------------------------------------------------------------------
(* The fetches that lead to a fetch.                                       *)

\* f names the fetch of each node up to n.
Fetching(f, n) ==
  \A k \in 1..n : f[k] = IF op[k].parent = 0 \/ Crosses(k) THEN <<op[k].parent, Home(k)>>
                                                          ELSE f[op[k].parent]

LEMMA FetchingExists ==
  ASSUME op \in Operations, NEW n \in 0..Len(op)
  PROVE  \E f \in [1..n -> Fetches] : Fetching(f, n)
<1> DEFINE Fails == {m \in 0..Len(op) : ~\E f \in [1..m -> Fetches] : Fetching(f, m)}
<1> SUFFICES ASSUME Fails # {} PROVE FALSE
  OBVIOUS
<1>0. Len(op) \in Nat
  BY NodeFacts
<1>1. PICK m \in Fails : \A j \in Fails : m <= j
  <2>1. Fails \in SUBSET Nat
    BY <1>0
  <2> HIDE DEF Fails
  <2> QED
    BY <2>1, FirstOf
<1>2. CASE m = 0
  <2> DEFINE f == [k \in 1..0 |-> k]
  <2>1. f \in [1..0 -> Fetches] /\ Fetching(f, 0)
    BY DEF Fetching
  <2> HIDE DEF f
  <2> QED
    BY <1>1, <1>2, <2>1
<1>3. CASE m # 0
  <2>1. /\ m \in Nodes /\ m \in Nat /\ m \in 1..m /\ m - 1 \in 0..Len(op) /\ m - 1 \notin Fails
        /\ \A k \in 1..m : k \in Nodes /\ op[k].parent \in Nat /\ op[k].parent < k
    <3>1. m \in Nodes /\ m \in Nat /\ m \in 1..m /\ m - 1 \in 0..Len(op) /\ ~(m <= m - 1)
      BY <1>0, <1>1, <1>3, NodeFacts
    <3>2. m - 1 \notin Fails
      BY <1>1, <3>1
    <3>3. \A k \in 1..m : k \in Nodes
      BY <3>1, NodeFacts
    <3> QED
      BY <3>1, <3>2, <3>3, NodeFacts
  <2>2. PICK f \in [1..(m - 1) -> Fetches] : Fetching(f, m - 1)
    BY <2>1
  <2> DEFINE begun == <<op[m].parent, Home(m)>>
             new == IF op[m].parent = 0 \/ Crosses(m) THEN begun ELSE f[op[m].parent]
             g == [k \in 1..m |-> IF k = m THEN new ELSE f[k]]
  <2>3. g \in [1..m -> Fetches]
    <3>1. begun \in Fetches
      BY <2>1 DEF Fetches
    <3>2. op[m].parent # 0 => f[op[m].parent] \in Fetches
      BY <2>1, <2>2
    <3> QED
      BY <2>1, <2>2, <3>1, <3>2
  <2>4. ASSUME NEW k \in 1..m
        PROVE  g[k] = IF op[k].parent = 0 \/ Crosses(k) THEN <<op[k].parent, Home(k)>>
                                                       ELSE g[op[k].parent]
    <3>1. op[k].parent # 0 => op[k].parent \in 1..m /\ op[k].parent # m
      BY <2>1
    <3>2. CASE k = m
      BY <2>1, <3>1, <3>2
    <3>3. CASE k # m
      <4>1. k \in 1..(m - 1)
        BY <2>1, <3>3
      <4> QED
        BY <2>2, <3>1, <3>3, <4>1 DEF Fetching
    <3> QED
      BY <3>2, <3>3
  <2> HIDE DEF g
  <2>5. Fetching(g, m)
    BY <2>4 DEF Fetching
  <2> QED
    BY <1>1, <2>3, <2>5
<1> QED
  BY <1>2, <1>3

LEMMA FetchDefined ==
  ASSUME op \in Operations, NEW n \in Nodes
  PROVE  FetchOf[n] = IF op[n].parent = 0 \/ Crosses(n) THEN <<op[n].parent, Home(n)>>
                                                       ELSE FetchOf[op[n].parent]
<1> DEFINE Eq(f, k) == IF op[k].parent = 0 \/ Crosses(k) THEN <<op[k].parent, Home(k)>>
                                                        ELSE f[op[k].parent]
           F == CHOOSE f : f = [k \in Nodes |-> Eq(f, k)]
<1>1. FetchOf = F
  BY DEF FetchOf
<1>2. Nodes = 1..Len(op) /\ Len(op) \in 0..Len(op)
  BY NodeFacts
<1>3. PICK f \in [1..Len(op) -> Fetches] : Fetching(f, Len(op))
  BY <1>2, FetchingExists
<1>4. f = [k \in Nodes |-> Eq(f, k)]
  BY <1>2, <1>3 DEF Fetching
<1> HIDE DEF Eq
<1>5. F = [k \in Nodes |-> Eq(F, k)]
  BY <1>4
<1>6. F[n] = Eq(F, n)
  BY <1>5
<1> HIDE DEF F
<1> QED
  BY <1>1, <1>6 DEF Eq

\* A node's fetch begins above it, and what lies between its beginning and the
\* node belongs to it.
LEMMA FetchFacts ==
  ASSUME op \in Operations, NEW n \in Nodes
  PROVE  /\ FetchOf[n] \in Fetches
         /\ FetchOf[n][1] \in Above(op[n].parent)
         /\ \A a \in Above(n) \ {0} : FetchOf[a] = FetchOf[n] \/ a \in Above(FetchOf[n][1])
<1> DEFINE Sound(k) == /\ FetchOf[k] \in Fetches
                       /\ FetchOf[k][1] \in Above(op[k].parent)
                       /\ \A a \in Above(k) \ {0} : FetchOf[a] = FetchOf[k] \/ a \in Above(FetchOf[k][1])
           Fails == {k \in Nodes : ~Sound(k)}
<1> SUFFICES ASSUME Fails # {} PROVE FALSE
  OBVIOUS
<1>1. PICK k \in Fails : \A j \in Fails : k <= j
  <2>1. Fails \in SUBSET Nat
    BY NodeFacts
  <2> HIDE DEF Fails
  <2> QED
    BY <2>1, FirstOf
<1> DEFINE u == op[k].parent
<1>2. /\ k \in Nodes /\ k \in Nat /\ u \in 0..Len(op) /\ u \in Nat /\ u < k
      /\ Above(k) = {k} \cup Above(u) /\ ~Sound(k)
      /\ u \in Above(u) /\ u # 0 => u \in Nodes
  BY <1>1, NodeFacts
<1>3. CASE u = 0 \/ Crosses(k)
  <2>1. FetchOf[k] = <<u, Home(k)>>
    BY <1>2, <1>3, FetchDefined
  <2>2. FetchOf[k] \in Fetches
    BY <1>2, <2>1 DEF Fetches
  <2>3. FetchOf[k][1] = u
    BY <2>1
  <2> HIDE DEF u
  <2> QED
    BY <1>2, <2>2, <2>3, NodeFacts DEF u
<1>4. CASE ~(u = 0 \/ Crosses(k))
  <2>1. FetchOf[k] = FetchOf[u]
    BY <1>2, <1>4, FetchDefined
  <2>2. u \in Nodes /\ Sound(u)
    <3>1. u \in Nodes
      BY <1>2, <1>4, NodeFacts
    <3>2. ~(k <= u)
      BY <1>2
    <3> QED
      BY <1>1, <3>1, <3>2
  <2>3. Above(op[u].parent) \subseteq Above(u)
    BY <2>2, NodeFacts
  <2>4. FetchOf[k] \in Fetches /\ FetchOf[k][1] \in Above(u)
    BY <2>1, <2>2, <2>3
  <2>5. \A a \in Above(k) \ {0} : FetchOf[a] = FetchOf[k] \/ a \in Above(FetchOf[k][1])
    BY <1>2, <2>1, <2>2
  <2> QED
    BY <1>2, <2>4, <2>5
<1> QED
  BY <1>3, <1>4

LEMMA LineageFacts ==
  ASSUME op \in Operations, NEW m \in 0..Len(op), NEW f \in Lineage(m)
  PROVE  /\ f \in Fetches /\ f[1] \in 0..Len(op) /\ f[1] < m /\ f[1] \in Nat
         /\ Lineage(f[1]) \subseteq Lineage(m)
         /\ \A g \in Lineage(m) : f = g \/ f \in Lineage(g[1]) \/ g \in Lineage(f[1])
<1>1. PICK a \in Above(m) \ {0} : f = FetchOf[a]
  BY DEF Lineage
<1>2. /\ a \in Nodes /\ a \in 0..Len(op) /\ a \in Nat /\ a <= m /\ m \in Nat
      /\ Above(a) \subseteq Above(m)
      /\ op[a].parent \in 0..Len(op) /\ op[a].parent \in Nat /\ op[a].parent < a
      /\ Above(a) = {a} \cup Above(op[a].parent)
  BY <1>1, NodeFacts
<1>3. f \in Fetches /\ f[1] \in Above(op[a].parent)
  BY <1>1, <1>2, FetchFacts
<1>4. /\ f[1] \in 0..Len(op) /\ f[1] \in Nat /\ f[1] <= op[a].parent
      /\ f[1] \in Above(m) /\ Above(f[1]) \subseteq Above(m)
  BY <1>2, <1>3, NodeFacts
<1>5. Lineage(f[1]) \subseteq Lineage(m)
  BY <1>4 DEF Lineage
<1>6. ASSUME NEW g \in Lineage(m) PROVE f = g \/ f \in Lineage(g[1]) \/ g \in Lineage(f[1])
  <2>1. PICK b \in Above(m) \ {0} : g = FetchOf[b]
    BY DEF Lineage
  <2>2. b \in Nodes /\ b \in Nat /\ b <= m
    BY <2>1, NodeFacts
  <2>3. CASE a <= b
    <3>1. b \in a..m
      BY <1>2, <2>2, <2>3
    <3>2. a \in Above(b) \ {0}
      BY <1>1, <3>1, NodeFacts
    <3>3. FetchOf[a] = FetchOf[b] \/ a \in Above(FetchOf[b][1])
      BY <2>2, <3>2, FetchFacts
    <3> QED
      BY <1>1, <2>1, <3>3 DEF Lineage
  <2>4. CASE b <= a
    <3>1. a \in b..m
      BY <1>2, <2>2, <2>4
    <3>2. b \in Above(a) \ {0}
      BY <2>1, <3>1, NodeFacts
    <3>3. FetchOf[b] = FetchOf[a] \/ b \in Above(FetchOf[a][1])
      BY <1>2, <3>2, FetchFacts
    <3> QED
      BY <1>1, <2>1, <3>3 DEF Lineage
  <2> QED
    BY <1>2, <2>2, <2>3, <2>4
<1> QED
  BY <1>2, <1>3, <1>4, <1>5, <1>6

----------------------------------------------------------------------------
(* The calls.                                                              *)

LEMMA SameOperation ==
  ASSUME op' = op
  PROVE  /\ Nodes' = Nodes /\ Root' = Root /\ FetchOf' = FetchOf
         /\ \A n : /\ Above(n)' = Above(n) /\ Kids(n)' = Kids(n) /\ Home(n)' = Home(n)
                   /\ TypeOf(n)' = TypeOf(n) /\ Across(n)' = Across(n)
                   /\ Skipped(n)' = Skipped(n) /\ Lists(n)' = Lists(n)
                   /\ Place(n)' = Place(n) /\ ObjectsOf(n)' = ObjectsOf(n)
         /\ Positions' = Positions /\ Places' = Places /\ Unrepeated' = Unrepeated
         /\ \A p : Parent(p)' = Parent(p)
         /\ \A p, q : Below(p, q)' = Below(p, q)
         /\ Fetches' = Fetches /\ EntityFetches' = EntityFetches
         /\ \A n : Lineage(n)' = Lineage(n)
<1>1. Nodes' = Nodes /\ Root' = Root
  BY DEF Nodes, Root
<1>2. \A n : Above(n)' = Above(n)
  BY DEF Above
<1>3. \A n : Kids(n)' = Kids(n)
  BY <1>1 DEF Kids
<1>4. \A n : Home(n)' = Home(n) /\ TypeOf(n)' = TypeOf(n)
  BY DEF Home, TypeOf
<1>5. \A n : Across(n)' = Across(n) /\ (Crosses(n)' <=> Crosses(n))
  BY <1>3, <1>4 DEF Across, Crosses
<1>6. FetchOf' = FetchOf
  BY <1>1, <1>4, <1>5 DEF FetchOf
<1>7. \A n : (Skipped(n)' <=> Skipped(n)) /\ Lists(n)' = Lists(n)
  BY <1>2 DEF Skipped, Lists
<1>8. \A n : Indices(n)' = Indices(n)
  BY <1>7 DEF Indices
<1>13. \A n : Place(n)' = Place(n)
  BY DEF Place
<1>14. Places' = Places
  BY <1>1, <1>13 DEF Places
<1>15. Unrepeated' = Unrepeated
  BY <1>1, <1>14 DEF Unrepeated
<1>9. Positions' = Positions
  BY <1>8, <1>14 DEF Positions
<1>10. \A n : ObjectsOf(n)' = ObjectsOf(n)
  BY <1>7, <1>9, <1>13 DEF ObjectsOf
<1>16. \A p : Parent(p)' = Parent(p)
  BY <1>1, <1>7, <1>13 DEF Parent
<1>17. \A p, q : Below(p, q)' = Below(p, q)
  BY <1>2, <1>13 DEF Below
<1>11. Fetches' = Fetches /\ EntityFetches' = EntityFetches
  BY <1>1, <1>4, <1>5 DEF Fetches, EntityFetches
<1>12. \A n : Lineage(n)' = Lineage(n)
  BY <1>2, <1>6 DEF Lineage
<1> QED
  BY <1>1, <1>2, <1>3, <1>4, <1>5, <1>6, <1>7, <1>9, <1>10, <1>11, <1>12, <1>13, <1>14,
     <1>15, <1>16, <1>17

LEMMA EntityFetchFacts ==
  ASSUME op \in Operations
  PROVE  /\ EntityFetches \subseteq Fetches
         /\ \A f \in EntityFetches : f[1] \in Nodes /\ f[1] \in 0..Len(op) /\ f[1] \in Nat
         /\ \A m \in Nodes : \A s \in Across(m) : <<m, s>> \in EntityFetches
<1>1. ASSUME NEW m \in Nodes, NEW s \in Across(m)
      PROVE  <<m, s>> \in Fetches
  <2>1. PICK c \in Nodes : op[c].parent = m /\ s = Home(c)
    BY DEF Across, Kids
  <2> QED
    BY <2>1 DEF Fetches
<1> QED
  BY <1>1, NodeFacts DEF EntityFetches

\* Every place of an operation is below the operation.
LEMMA BelowRoot ==
  ASSUME op \in Operations, NEW p \in Positions
  PROVE  Below(Root, p)
<1>1. p[1] \in 0..Len(op) /\ p[2] \in Seq(Nat)
  BY PositionFacts, NodeFacts
<1>2. IsPrefix(<< >>, p[2])
  <2>1. << >> \in Seq(Nat) /\ Len(<< >>) = 0 /\ Len(p[2]) \in Nat
    BY <1>1
  <2>2. << >> \in Seq(Nat) /\ Len(<< >>) <= Len(p[2])
        /\ \A i \in 1..Len(<< >>) : << >>[i] = p[2][i]
    BY <2>1
  <2> QED
    BY <1>1, <2>2, PrefixIs
<1>3. Root[1] \in {Place(a) : a \in Above(p[1])}
  BY <1>1, NodeFacts, PlaceFacts DEF Root
<1> QED
  BY <1>2, <1>3 DEF Below, Root

\* AskedByOne of any calls to come and any calls made.
Exclusive(t, asked) ==
  \A f \in EntityFetches : \A p \in ObjectsOf(f[1]) :
    /\ \A i, j \in DOMAIN t : MayAsk(t[i], f, p) /\ MayAsk(t[j], f, p) => i = j
    /\ \A i \in DOMAIN asked : \A j \in DOMAIN t :
         asked[i].fetch = f /\ p \in asked[i].objects => ~MayAsk(t[j], f, p)

Once(asked) ==
  \A i, j \in DOMAIN asked :
    asked[i].fetch = asked[j].fetch /\ asked[i].objects \cap asked[j].objects # {} => i = j

LEMMA ExclusiveLater ==
  ASSUME op' = op
  PROVE  /\ AskedByOne <=> Exclusive(todo, calls)
         /\ AskedByOne' <=> Exclusive(todo', calls')
<1>1. \A n : ObjectsOf(n)' = ObjectsOf(n)
  BY SameOperation
<1>2. EntityFetches' = EntityFetches
  BY SameOperation
<1>3. \A i, f, p : MayAsk(todo[i], f, p)' <=> MayAsk(todo'[i], f, p)
  BY SameOperation DEF MayAsk, Below
<1>4. AskedByOne <=> Exclusive(todo, calls)
  BY DEF AskedByOne, Exclusive
<1>5. AskedByOne' <=> Exclusive(todo', calls')
  <2>1. ASSUME NEW f, NEW p
        PROVE  (/\ \A i, j \in DOMAIN todo : MayAsk(todo[i], f, p) /\ MayAsk(todo[j], f, p) => i = j
                /\ \A i \in DOMAIN calls : \A j \in DOMAIN todo :
                     calls[i].fetch = f /\ p \in calls[i].objects => ~MayAsk(todo[j], f, p))'
               <=> /\ \A i, j \in DOMAIN todo' : MayAsk(todo'[i], f, p) /\ MayAsk(todo'[j], f, p) => i = j
                   /\ \A i \in DOMAIN calls' : \A j \in DOMAIN todo' :
                        calls'[i].fetch = f /\ p \in calls'[i].objects => ~MayAsk(todo'[j], f, p)
    BY <1>3
  <2> QED
    BY <1>1, <1>2, <2>1 DEF AskedByOne, Exclusive
<1> QED
  BY <1>4, <1>5

\* A call may give way to calls that share out what it may ask for, less what it
\* asks for itself.
LEMMA HeadReplaced ==
  ASSUME NEW C, NEW t \in Seq(C), t # << >>, NEW new \in Seq(C),
         NEW asked \in Seq(Requested), NEW requests \in Seq(Requested),
         Exclusive(t, asked), Once(asked),
         \A f \in EntityFetches : \A p \in ObjectsOf(f[1]) :
           /\ \A i \in DOMAIN new : MayAsk(new[i], f, p) => MayAsk(Head(t), f, p)
           /\ \A i, j \in DOMAIN new : MayAsk(new[i], f, p) /\ MayAsk(new[j], f, p) => i = j
           /\ \A i \in DOMAIN requests :
                requests[i].fetch = f /\ p \in requests[i].objects =>
                  MayAsk(Head(t), f, p) /\ \A j \in DOMAIN new : ~MayAsk(new[j], f, p),
         Once(requests)
  PROVE  /\ Exclusive(new \o Tail(t), asked \o requests)
         /\ Once(asked \o requests)
         /\ asked \o requests \in Seq(Requested) /\ new \o Tail(t) \in Seq(C)
<1> DEFINE u == new \o Tail(t)
           made == asked \o requests
<1>1. /\ u \in Seq(C) /\ made \in Seq(Requested)
      /\ \A i \in DOMAIN u : \/ i \in DOMAIN new /\ u[i] = new[i]
                             \/ \E j \in DOMAIN t : j # 1 /\ j = i - Len(new) + 1 /\ u[i] = t[j]
      /\ \A i \in DOMAIN made : \/ i \in DOMAIN asked /\ made[i] = asked[i]
                                \/ \E j \in DOMAIN requests : i = j + Len(asked) /\ made[i] = requests[j]
      /\ 1 \in DOMAIN t /\ Head(t) = t[1]
      /\ DOMAIN u \subseteq Nat /\ DOMAIN t \subseteq Nat /\ Len(new) \in Nat /\ Len(asked) \in Nat
  <2>1. Tail(t) \in Seq(C) /\ Len(Tail(t)) = Len(t) - 1 /\ Len(t) \in Nat /\ Len(t) # 0
        /\ \A j \in 1..(Len(t) - 1) : Tail(t)[j] = t[j + 1]
    OBVIOUS
  <2>2. Len(new) \in Nat /\ Len(asked) \in Nat /\ Len(requests) \in Nat
    OBVIOUS
  <2>3. u \in Seq(C) /\ Len(u) = Len(new) + Len(t) - 1
    BY <2>1
  <2>4. ASSUME NEW i \in DOMAIN u
        PROVE  \/ i \in DOMAIN new /\ u[i] = new[i]
               \/ \E j \in DOMAIN t : j # 1 /\ j = i - Len(new) + 1 /\ u[i] = t[j]
    <3>1. i \in 1..(Len(new) + Len(t) - 1)
      BY <2>3
    <3>2. CASE i <= Len(new)
      BY <2>1, <3>1, <3>2
    <3>3. CASE ~(i <= Len(new))
      <4> DEFINE k == i - Len(new)
      <4>1. k \in 1..(Len(t) - 1)
        BY <2>1, <2>2, <3>1, <3>3
      <4>2. u[i] = Tail(t)[k]
        BY <2>1, <2>2, <3>1, <3>3
      <4>3. u[i] = t[k + 1] /\ k + 1 \in DOMAIN t /\ k + 1 # 1
        BY <2>1, <4>1, <4>2
      <4> QED
        BY <4>3
    <3> QED
      BY <3>2, <3>3
  <2>5. made \in Seq(Requested) /\ Len(made) = Len(asked) + Len(requests)
    OBVIOUS
  <2>6. ASSUME NEW i \in DOMAIN made
        PROVE  \/ i \in DOMAIN asked /\ made[i] = asked[i]
               \/ \E j \in DOMAIN requests : i = j + Len(asked) /\ made[i] = requests[j]
    <3>1. i \in 1..(Len(asked) + Len(requests))
      BY <2>5
    <3>2. CASE i <= Len(asked)
      BY <2>2, <3>1, <3>2
    <3>3. CASE ~(i <= Len(asked))
      <4> DEFINE k == i - Len(asked)
      <4>1. k \in 1..Len(requests) /\ i = k + Len(asked)
        BY <2>2, <3>1, <3>3
      <4>2. made[i] = requests[k]
        BY <2>2, <3>1, <3>3
      <4> QED
        BY <4>1, <4>2
    <3> QED
      BY <3>2, <3>3
  <2>7. DOMAIN u \subseteq Nat /\ DOMAIN t \subseteq Nat
    BY <2>1, <2>2, <2>3
  <2> QED
    BY <2>1, <2>2, <2>3, <2>4, <2>5, <2>6, <2>7
<1> HIDE DEF u, made
<1>2. ASSUME NEW f \in EntityFetches, NEW p \in ObjectsOf(f[1])
      PROVE  /\ \A i, j \in DOMAIN u : MayAsk(u[i], f, p) /\ MayAsk(u[j], f, p) => i = j
             /\ \A i \in DOMAIN made : \A j \in DOMAIN u :
                  made[i].fetch = f /\ p \in made[i].objects => ~MayAsk(u[j], f, p)
  <2>1. /\ \A i, j \in DOMAIN t : MayAsk(t[i], f, p) /\ MayAsk(t[j], f, p) => i = j
        /\ \A i \in DOMAIN asked : \A j \in DOMAIN t :
             asked[i].fetch = f /\ p \in asked[i].objects => ~MayAsk(t[j], f, p)
    BY DEF Exclusive
  <2>2. /\ \A i \in DOMAIN new : MayAsk(new[i], f, p) => MayAsk(t[1], f, p)
        /\ \A i, j \in DOMAIN new : MayAsk(new[i], f, p) /\ MayAsk(new[j], f, p) => i = j
        /\ \A i \in DOMAIN requests :
             requests[i].fetch = f /\ p \in requests[i].objects =>
               MayAsk(t[1], f, p) /\ \A j \in DOMAIN new : ~MayAsk(new[j], f, p)
    BY <1>1
  <2>3. \A i, j \in DOMAIN u : MayAsk(u[i], f, p) /\ MayAsk(u[j], f, p) => i = j
    <3> SUFFICES ASSUME NEW i \in DOMAIN u, NEW j \in DOMAIN u,
                        MayAsk(u[i], f, p), MayAsk(u[j], f, p)
                 PROVE  i = j
      OBVIOUS
    <3>1. CASE i \in DOMAIN new /\ u[i] = new[i] /\ j \in DOMAIN new /\ u[j] = new[j]
      BY <2>2, <3>1
    <3>2. ASSUME NEW a \in DOMAIN t, a # 1, u[i] = t[a], j \in DOMAIN new, u[j] = new[j]
          PROVE  FALSE
      BY <1>1, <2>1, <2>2, <3>2
    <3>3. ASSUME NEW a \in DOMAIN t, a # 1, u[j] = t[a], i \in DOMAIN new, u[i] = new[i]
          PROVE  FALSE
      BY <1>1, <2>1, <2>2, <3>3
    <3>4. ASSUME NEW a \in DOMAIN t, a = i - Len(new) + 1, u[i] = t[a],
                 NEW b \in DOMAIN t, b = j - Len(new) + 1, u[j] = t[b]
          PROVE  i = j
      <4>1. a = b
        BY <2>1, <3>4
      <4>2. i \in Nat /\ j \in Nat /\ a \in Nat /\ Len(new) \in Nat
        BY <1>1
      <4> QED
        BY <3>4, <4>1, <4>2
    <3> QED
      BY <1>1, <3>1, <3>2, <3>3, <3>4
  <2>4. ASSUME NEW i \in DOMAIN made, NEW j \in DOMAIN u, made[i].fetch = f, p \in made[i].objects
        PROVE  ~MayAsk(u[j], f, p)
    <3>1. CASE i \in DOMAIN asked /\ made[i] = asked[i]
      BY <1>1, <2>1, <2>2, <2>4, <3>1
    <3>2. ASSUME NEW k \in DOMAIN requests, made[i] = requests[k]
          PROVE  ~MayAsk(u[j], f, p)
      <4>1. MayAsk(t[1], f, p) /\ \A a \in DOMAIN new : ~MayAsk(new[a], f, p)
        BY <2>2, <2>4, <3>2
      <4>2. \A a \in DOMAIN t : a # 1 => ~MayAsk(t[a], f, p)
        BY <1>1, <2>1, <4>1
      <4> QED
        BY <1>1, <4>1, <4>2
    <3> QED
      BY <1>1, <3>1, <3>2
  <2> QED
    BY <2>3, <2>4
<1>3. Exclusive(u, made)
  BY <1>2 DEF Exclusive
<1>4. ASSUME NEW i \in DOMAIN made, NEW j \in DOMAIN made,
             made[i].fetch = made[j].fetch, NEW p \in made[i].objects \cap made[j].objects
      PROVE  i = j
  <2>1. made[i] \in Requested
    BY <1>1
  <2> DEFINE f == made[i].fetch
  <2>2. f \in EntityFetches /\ p \in ObjectsOf(f[1])
    BY <2>1 DEF Requested
  <2>3. \A a \in DOMAIN asked : asked[a].fetch = f /\ p \in asked[a].objects => ~MayAsk(t[1], f, p)
    BY <1>1, <2>2 DEF Exclusive
  <2>4. \A a \in DOMAIN requests :
          requests[a].fetch = f /\ p \in requests[a].objects => MayAsk(t[1], f, p)
    BY <1>1, <2>2
  <2>5. p \in made[i].objects /\ p \in made[j].objects /\ made[i].fetch = f /\ made[j].fetch = f
    BY <1>4
  <2> HIDE DEF f
  <2>6. ASSUME i \in DOMAIN asked, made[i] = asked[i], j \in DOMAIN asked, made[j] = asked[j]
        PROVE  i = j
    BY <2>5, <2>6 DEF Once
  <2>7. ASSUME NEW a \in DOMAIN requests, i = a + Len(asked), made[i] = requests[a],
               NEW b \in DOMAIN requests, j = b + Len(asked), made[j] = requests[b]
        PROVE  i = j
    <3>1. a = b
      BY <2>5, <2>7 DEF Once
    <3> QED
      BY <2>7, <3>1
  <2>8. ASSUME NEW a \in DOMAIN requests, NEW b \in DOMAIN asked,
               \/ made[i] = requests[a] /\ made[j] = asked[b]
               \/ made[j] = requests[a] /\ made[i] = asked[b]
        PROVE  FALSE
    BY <2>3, <2>4, <2>5, <2>8
  <2> QED
    BY <1>1, <2>6, <2>7, <2>8
<1>5. Once(made)
  BY <1>4 DEF Once
<1> QED
  BY <1>1, <1>3, <1>5 DEF u, made

\* The entity fetches that follow a fetch are distinct, and none leads to another.
LEMMA FlattensFacts ==
  ASSUME op \in Operations, NEW f \in Fetches
  PROVE  /\ Flattens(f) \in Seq(EntityFetches)
         /\ \A i, j \in DOMAIN Flattens(f) : Flattens(f)[i] = Flattens(f)[j] => i = j
         /\ \A i \in DOMAIN Flattens(f) : f \in Lineage(Flattens(f)[i][1])
         /\ \A i, j \in DOMAIN Flattens(f) : Flattens(f)[j] \notin Lineage(Flattens(f)[i][1])
<1> DEFINE S == UNION {{<<m, s>> : s \in Across(m)} : m \in {n \in Nodes : FetchOf[n] = f}}
<1>1. ASSUME NEW g \in S
      PROVE  g \in EntityFetches /\ g[1] \in Nodes /\ FetchOf[g[1]] = f
  <2>1. PICK m \in Nodes : FetchOf[m] = f /\ \E s \in Across(m) : g = <<m, s>>
    OBVIOUS
  <2> QED
    BY <2>1, EntityFetchFacts
<1>2. S \in SUBSET Fetches
  BY <1>1, EntityFetchFacts
<1>3. Flattens(f) = Sorted(S, Precedes)
  BY DEF Flattens
<1> HIDE DEF S
<1>4. /\ Flattens(f) \in Seq(S)
      /\ \A i, j \in DOMAIN Flattens(f) : Flattens(f)[i] = Flattens(f)[j] => i = j
  BY <1>2, <1>3, SortedFetches
<1>5. \A i \in DOMAIN Flattens(f) : Flattens(f)[i] \in S
  BY <1>4
<1>6. ASSUME NEW g \in S PROVE f \in Lineage(g[1])
  <2>1. g[1] \in Above(g[1]) \ {0}
    BY <1>1, NodeFacts
  <2> QED
    BY <1>1, <2>1 DEF Lineage
<1>7. ASSUME NEW g \in S, NEW h \in S, h \in Lineage(g[1]) PROVE FALSE
  <2>1. PICK a \in Above(g[1]) \ {0} : h = FetchOf[a]
    BY <1>7 DEF Lineage
  <2>2. h = f \/ a \in Above(f[1])
    BY <1>1, <2>1, FetchFacts
  <2>3. f[1] \in 0..Len(op)
    BY FirstSeenType
  <2>4. h = f \/ h \in Lineage(f[1])
    BY <2>1, <2>2 DEF Lineage
  <2>5. h[1] \in Nat /\ f[1] \in Nat /\ h[1] <= f[1]
    BY <1>1, <2>3, <2>4, LineageFacts, NodeFacts
  <2>6. h[1] \in 0..Len(op) /\ f[1] < h[1]
    BY <1>1, <1>6, NodeFacts, LineageFacts
  <2> QED
    BY <2>5, <2>6
<1> QED
  <2>1. Flattens(f) \in Seq(EntityFetches)
    BY <1>1, <1>4
  <2> QED
    BY <1>4, <1>5, <1>6, <1>7, <2>1

\* The first call names a fetch and an object above those it may ask for.
LEMMA HeadFacts ==
  ASSUME CallsTypeOK, todo # << >>
  PROVE  /\ todo \in Seq(Calls) /\ Head(todo) \in Calls
         /\ Head(todo).do = "flatten" => Head(todo).fetch \in EntityFetches
         /\ Head(todo).at[2] \in Seq(Nat)
         /\ phase # "plan"
<1>1. todo \in Seq(Calls) /\ Len(todo) \in Nat /\ Len(todo) # 0 /\ 1 \in DOMAIN todo /\ Head(todo) = todo[1]
  BY DEF CallsTypeOK, Calls
<1>2. Head(todo) \in Calls
  BY <1>1
<1>3. Head(todo).at[2] \in Seq(Nat)
  <2>1. Head(todo).at \in {Root} \cup Positions
    BY <1>2 DEF Calls
  <2>2. Root[2] \in Seq(Nat)
    BY DEF Root
  <2> QED
    BY <2>1, <2>2, PositionFacts DEF CallsTypeOK
<1> QED
  BY <1>1, <1>2, <1>3 DEF CallsTypeOK

\* What is in a sequence put before the tail of another.
LEMMA Joined ==
  ASSUME NEW C, NEW t \in Seq(C), t # << >>, NEW new \in Seq(C), NEW i \in DOMAIN (new \o Tail(t))
  PROVE  \/ i \in DOMAIN new /\ (new \o Tail(t))[i] = new[i]
         \/ \E j \in DOMAIN t : /\ (new \o Tail(t))[i] = t[j]
                               /\ j # 1 /\ j = i - Len(new) + 1
<1>1. Tail(t) \in Seq(C) /\ Len(Tail(t)) = Len(t) - 1 /\ Len(t) \in Nat /\ Len(t) # 0
      /\ \A j \in 1..(Len(t) - 1) : Tail(t)[j] = t[j + 1]
  OBVIOUS
<1>2. Len(new) \in Nat /\ i \in 1..(Len(new) + Len(t) - 1)
  BY <1>1
<1>3. CASE i <= Len(new)
  BY <1>1, <1>2, <1>3
<1>4. CASE ~(i <= Len(new))
  <2> DEFINE k == i - Len(new)
  <2>1. k \in 1..(Len(t) - 1)
    BY <1>1, <1>2, <1>4
  <2>2. (new \o Tail(t))[i] = Tail(t)[k]
    BY <1>1, <1>2, <1>4
  <2>3. (new \o Tail(t))[i] = t[k + 1] /\ k + 1 \in DOMAIN t /\ k + 1 # 1
    BY <1>1, <2>1, <2>2
  <2> QED
    BY <2>3
<1> QED
  BY <1>3, <1>4

\* The same of the calls to come and those made after a step.
LEMMA CallsLater ==
  ASSUME op' = op, op \in Operations, phase' \in {"run", "done", "rejected"},
         todo' \in Seq(Calls),
         \A i \in DOMAIN todo' : todo'[i].do = "flatten" => todo'[i].fetch \in EntityFetches,
         calls' \in Seq(Requested), Exclusive(todo', calls'), Once(calls')
  PROVE  CallsInv'
<1>1. /\ EntityFetches' = EntityFetches /\ Requested' = Requested /\ Calls' = Calls
  BY SameOperation DEF Requested, Calls
<1>2. CallsTypeOK'
  <2>1. /\ op' \in Operations
        /\ phase' \in {"plan", "run", "done", "rejected"}
        /\ todo' \in Seq(Calls')
        /\ \A i \in DOMAIN todo' : todo'[i].do = "flatten" => todo'[i].fetch \in EntityFetches'
        /\ calls' \in Seq(Requested')
        /\ phase' = "plan" => todo' = << >> /\ calls' = << >>
    BY <1>1
  <2> QED
    BY <2>1 DEF CallsTypeOK
<1>3. AskedByOne'
  BY ExclusiveLater
<1>4. EachFetchAsksOnce'
  BY DEF EachFetchAsksOnce, Once
<1> QED
  BY <1>2, <1>3, <1>4 DEF CallsInv

LEMMA PlanStep ==
  ASSUME CallsInv, Plan
  PROVE  CallsInv'
<1> USE DEF CallsInv
<1>1. op \in Operations /\ op' = op /\ phase' = "run" /\ calls' = << >>
  BY DEF Plan, CallsTypeOK
<1> DEFINE S == {<<0, Home(n)>> : n \in Kids(0)}
<1>2. S \in SUBSET Fetches
  BY DEF Fetches, Kids
<1>3. RootFetches = Sorted(S, Precedes)
  BY DEF RootFetches
<1>4. ASSUME NEW f \in S PROVE f[1] = 0
  OBVIOUS
<1> HIDE DEF S
<1>5. /\ RootFetches \in Seq(S)
      /\ \A i, j \in DOMAIN RootFetches : RootFetches[i] = RootFetches[j] => i = j
  BY <1>1, <1>2, <1>3, SortedFetches
<1> DEFINE new == [i \in DOMAIN RootFetches |-> Call("select", RootFetches[i], Root)]
<1>6. todo' = new
  BY DEF Plan
<1>7. ASSUME NEW i \in DOMAIN new
      PROVE  /\ new[i] \in Calls /\ new[i].do = "select" /\ new[i].fetch = RootFetches[i]
             /\ RootFetches[i] \in S
  <2>1. RootFetches[i] \in S /\ RootFetches[i] \in Fetches
    BY <1>2, <1>5
  <2> QED
    BY <2>1 DEF Call, Calls
<1>8. new \in Seq(Calls) /\ DOMAIN new = DOMAIN RootFetches
  <2>1. DOMAIN new = 1..Len(RootFetches) /\ Len(RootFetches) \in Nat
    BY <1>5
  <2> QED
    BY <1>7, <2>1
<1> HIDE DEF new
<1>9. ASSUME NEW f \in EntityFetches, NEW p \in ObjectsOf(f[1]), NEW i \in DOMAIN new,
             NEW j \in DOMAIN new, MayAsk(new[i], f, p), MayAsk(new[j], f, p)
      PROVE  i = j
  <2> DEFINE g == RootFetches[i]
             h == RootFetches[j]
  <2>1. g[1] = 0 /\ h[1] = 0 /\ g \in Lineage(f[1]) /\ h \in Lineage(f[1])
    BY <1>4, <1>7, <1>9 DEF MayAsk
  <2>2. f[1] \in 0..Len(op) /\ Lineage(0) = {}
    BY <1>1, EntityFetchFacts, NodeFacts DEF Lineage
  <2> HIDE DEF g, h
  <2>3. g = h \/ g \in Lineage(h[1]) \/ h \in Lineage(g[1])
    BY <1>1, <2>1, <2>2, LineageFacts
  <2>4. g = h
    BY <2>1, <2>2, <2>3
  <2> QED
    BY <1>5, <1>8, <2>4 DEF g, h
<1>10. Exclusive(new, << >>) /\ Once(<< >>)
  BY <1>9 DEF Exclusive, Once
<1>11. \A i \in DOMAIN new : new[i].do = "flatten" => new[i].fetch \in EntityFetches
  BY <1>7
<1> QED
  BY <1>1, <1>6, <1>8, <1>10, <1>11, CallsLater

LEMMA SelectStep ==
  ASSUME CallsInv, Select
  PROVE  CallsInv'
<1> USE DEF CallsInv
<1> DEFINE f == Head(todo).fetch
           o == Head(todo).at
           new == FlattensOf(f, o)
<1>1. /\ op \in Operations /\ op' = op /\ phase' = phase /\ calls' = calls /\ todo # << >>
      /\ Head(todo).do = "select" /\ todo' = new \o Tail(todo)
      /\ calls \in Seq(Requested)
  BY DEF Select, CallsTypeOK
<1>2. /\ todo \in Seq(Calls) /\ f \in Fetches /\ o \in {Root} \cup Positions
      /\ o[2] \in Seq(Nat) /\ phase' \in {"run", "done", "rejected"}
  BY <1>1, HeadFacts DEF Calls, CallsTypeOK
<1> HIDE DEF f, o
<1>3. /\ Flattens(f) \in Seq(EntityFetches)
      /\ \A i, j \in DOMAIN Flattens(f) : Flattens(f)[i] = Flattens(f)[j] => i = j
      /\ \A i \in DOMAIN Flattens(f) : f \in Lineage(Flattens(f)[i][1])
      /\ \A i, j \in DOMAIN Flattens(f) : Flattens(f)[j] \notin Lineage(Flattens(f)[i][1])
  BY <1>1, <1>2, FlattensFacts
<1>4. ASSUME NEW i \in DOMAIN new
      PROVE  /\ new[i] \in Calls /\ new[i].do = "flatten" /\ new[i].fetch = Flattens(f)[i]
             /\ new[i].at = o /\ Flattens(f)[i] \in EntityFetches /\ i \in DOMAIN Flattens(f)
  <2>1. i \in DOMAIN Flattens(f) /\ Flattens(f)[i] \in EntityFetches
    BY <1>3 DEF FlattensOf
  <2>2. Flattens(f)[i] \in Fetches
    BY <1>1, <2>1, EntityFetchFacts
  <2> QED
    BY <1>2, <2>1, <2>2 DEF FlattensOf, Call, Calls
<1>5. new \in Seq(Calls)
  <2>1. DOMAIN new = 1..Len(Flattens(f)) /\ Len(Flattens(f)) \in Nat
    BY <1>3 DEF FlattensOf
  <2>2. new = [i \in 1..Len(Flattens(f)) |-> new[i]]
    BY <2>1 DEF FlattensOf
  <2> QED
    BY <1>4, <2>1, <2>2
<1> HIDE DEF new
<1>6. ASSUME NEW h \in EntityFetches, NEW p \in ObjectsOf(h[1]), NEW i \in DOMAIN new,
             MayAsk(new[i], h, p)
      PROVE  MayAsk(Head(todo), h, p)
  <2>1. /\ Below(o, p) /\ f \in Lineage(Flattens(f)[i][1]) /\ h[1] \in 0..Len(op)
        /\ Flattens(f)[i] = h \/ Flattens(f)[i] \in Lineage(h[1])
    BY <1>1, <1>3, <1>4, <1>6, EntityFetchFacts DEF MayAsk
  <2>2. f \in Lineage(h[1])
    BY <1>1, <2>1, LineageFacts
  <2> QED
    BY <2>1, <2>2 DEF MayAsk, f, o
<1>7. ASSUME NEW h \in EntityFetches, NEW p \in ObjectsOf(h[1]), NEW i \in DOMAIN new,
             NEW j \in DOMAIN new, MayAsk(new[i], h, p), MayAsk(new[j], h, p)
      PROVE  i = j
  <2>1. /\ h[1] \in 0..Len(op)
        /\ Flattens(f)[i] = h \/ Flattens(f)[i] \in Lineage(h[1])
        /\ Flattens(f)[j] = h \/ Flattens(f)[j] \in Lineage(h[1])
    BY <1>1, <1>4, <1>7, EntityFetchFacts DEF MayAsk
  <2>2. /\ Flattens(f)[i] \notin Lineage(Flattens(f)[j][1])
        /\ Flattens(f)[j] \notin Lineage(Flattens(f)[i][1])
    BY <1>3, <1>4
  <2>3. Flattens(f)[i] = Flattens(f)[j]
    BY <1>1, <2>1, <2>2, LineageFacts
  <2> QED
    BY <1>3, <1>4, <2>3
<1>8. << >> \in Seq(Requested) /\ Once(<< >>) /\ Exclusive(todo, calls) /\ Once(calls)
  BY <1>1, ExclusiveLater DEF Once, EachFetchAsksOnce
<1>9. /\ Exclusive(todo', calls \o << >>) /\ todo' \in Seq(Calls)
  <2>1. \A i \in DOMAIN << >> : FALSE
    OBVIOUS
  <2> QED
    BY <1>1, <1>2, <1>5, <1>6, <1>7, <1>8, <2>1, HeadReplaced
<1>10. calls \o << >> = calls
  BY <1>1
<1>11. \A i \in DOMAIN todo' : todo'[i].do = "flatten" => todo'[i].fetch \in EntityFetches
  <2> SUFFICES ASSUME NEW i \in DOMAIN todo', todo'[i].do = "flatten"
               PROVE  todo'[i].fetch \in EntityFetches
    OBVIOUS
  <2>1. CASE i \in DOMAIN new /\ todo'[i] = new[i]
    BY <1>4, <2>1
  <2>2. CASE \E j \in DOMAIN todo : todo'[i] = todo[j]
    BY <2>2 DEF CallsTypeOK
  <2> QED
    BY <1>1, <1>2, <1>5, <2>1, <2>2, Joined
<1> QED
  BY <1>1, <1>2, <1>8, <1>9, <1>10, <1>11, CallsLater

\* A flatten asks for objects of its path, each at most once.
LEMMA RequestsFacts ==
  ASSUME op \in Operations, NEW f \in EntityFetches, NEW S \in SUBSET ObjectsOf(f[1]),
         NEW targets \in Seq(S),
         \A i, j \in DOMAIN targets : targets[i] = targets[j] => i = j
  PROVE  /\ Requests(f, targets) \in Seq(Requested)
         /\ \A i \in DOMAIN Requests(f, targets) :
              Requests(f, targets)[i].fetch = f /\ Requests(f, targets)[i].objects \subseteq S
         /\ Once(Requests(f, targets))
<1>1. S \in SUBSET Positions
  BY DEF ObjectsOf
<1>2. ToSet(targets) \subseteq S /\ Len(targets) \in Nat /\ DOMAIN targets = 1..Len(targets)
  BY DEF ToSet
<1>3. \A T \in SUBSET S : [fetch |-> f, objects |-> T] \in Requested
  BY <1>1 DEF Requested
<1>4. CASE targets = << >>
  BY <1>4 DEF Requests, Once
<1>5. CASE targets # << >> /\ <<f[2], TypeOf(f[1])>> \in Batched
  <2> DEFINE r == [fetch |-> f, objects |-> ToSet(targets)]
  <2>1. Requests(f, targets) = <<r>> /\ r \in Requested /\ r.fetch = f /\ r.objects \subseteq S
    BY <1>2, <1>3, <1>5 DEF Requests
  <2> HIDE DEF r
  <2> QED
    BY <2>1 DEF Once
<1>6. CASE targets # << >> /\ <<f[2], TypeOf(f[1])>> \notin Batched
  <2> DEFINE r == [i \in 1..Len(targets) |-> [fetch |-> f, objects |-> {targets[i]}]]
  <2>1. Requests(f, targets) = r
    BY <1>2, <1>6 DEF Requests
  <2>2. ASSUME NEW i \in 1..Len(targets)
        PROVE  /\ r[i] \in Requested /\ r[i].fetch = f /\ r[i].objects = {targets[i]}
               /\ r[i].objects \subseteq S
    <3>1. {targets[i]} \in SUBSET S
      BY <1>2
    <3> QED
      BY <1>3, <3>1
  <2>3. r \in Seq(Requested) /\ DOMAIN r = 1..Len(targets)
    BY <1>2, <2>2
  <2> HIDE DEF r
  <2>4. Once(r)
    BY <1>2, <2>2, <2>3 DEF Once
  <2> QED
    BY <2>1, <2>2, <2>3, <2>4
<1> QED
  BY <1>4, <1>5, <1>6

LEMMA FlattenStep ==
  ASSUME CallsInv, Flatten
  PROVE  CallsInv'
<1> USE DEF CallsInv
<1> DEFINE f == Head(todo).fetch
           o == Head(todo).at
           S == Represented(f, o)
           targets == Sorted(S, Earlier)
           T == {p \in ToSet(targets) : Resolves(f, p)}
           resolved == Sorted(T, Earlier)
           new == Selections(f, resolved)
           requests == Requests(f, targets)
<1>1. /\ op \in Operations /\ op' = op /\ phase' = phase /\ todo # << >>
      /\ Head(todo).do = "flatten" /\ todo' = new \o Tail(todo) /\ calls' = calls \o requests
      /\ calls \in Seq(Requested)
  BY DEF Flatten, CallsTypeOK
<1>2. /\ todo \in Seq(Calls) /\ f \in EntityFetches /\ f \in Fetches /\ o \in {Root} \cup Positions
      /\ o[2] \in Seq(Nat) /\ phase' \in {"run", "done", "rejected"} /\ f[1] \in 0..Len(op)
  BY <1>1, HeadFacts, EntityFetchFacts DEF Calls, CallsTypeOK
<1>3. S \in SUBSET ObjectsOf(f[1]) /\ \A p \in S : Below(o, p)
  BY DEF Represented, AtPath
<1>4. /\ targets \in Seq(S) /\ \A i, j \in DOMAIN targets : targets[i] = targets[j] => i = j
  <2> HIDE DEF f, o, S
  <2> QED
    BY <1>1, <1>3, SortedObjects
<1>5. T \in SUBSET S
  BY <1>4 DEF ToSet
<1>6. /\ resolved \in Seq(T) /\ \A i, j \in DOMAIN resolved : resolved[i] = resolved[j] => i = j
  <2>1. T \in SUBSET ObjectsOf(f[1])
    BY <1>3, <1>5
  <2> HIDE DEF f, T
  <2> QED
    BY <1>1, <2>1, SortedObjects
<1> HIDE DEF f, o, S, targets, T, resolved
<1>7. /\ requests \in Seq(Requested) /\ Once(requests)
      /\ \A i \in DOMAIN requests : requests[i].fetch = f /\ requests[i].objects \subseteq S
  BY <1>1, <1>2, <1>3, <1>4, RequestsFacts
<1> HIDE DEF requests
<1>8. ASSUME NEW i \in DOMAIN new
      PROVE  /\ new[i] \in Calls /\ new[i].do = "select" /\ new[i].fetch = f
             /\ new[i].at = resolved[i] /\ resolved[i] \in S /\ resolved[i] \in ObjectsOf(f[1])
             /\ i \in DOMAIN resolved /\ Below(o, resolved[i]) /\ resolved[i] \in Positions
  <2>1. i \in DOMAIN resolved /\ resolved[i] \in S /\ resolved[i] \in ObjectsOf(f[1])
    BY <1>3, <1>5, <1>6 DEF Selections
  <2>2. resolved[i] \in Positions
    BY <2>1 DEF ObjectsOf
  <2> QED
    BY <1>2, <1>3, <2>1, <2>2 DEF Selections, Call, Calls
<1>9. new \in Seq(Calls)
  <2>1. DOMAIN new = 1..Len(resolved) /\ Len(resolved) \in Nat
    BY <1>6 DEF Selections
  <2>2. new = [i \in 1..Len(resolved) |-> new[i]]
    BY <2>1 DEF Selections
  <2> QED
    BY <1>8, <2>1, <2>2
<1> HIDE DEF new
<1>10. ASSUME NEW h \in EntityFetches, NEW p \in ObjectsOf(h[1]), NEW i \in DOMAIN new,
              MayAsk(new[i], h, p)
       PROVE  /\ MayAsk(Head(todo), h, p) /\ h # f /\ Below(resolved[i], p)
  <2>1. Below(resolved[i], p) /\ f \in Lineage(h[1]) /\ h[1] \in 0..Len(op)
    BY <1>1, <1>8, <1>10, EntityFetchFacts DEF MayAsk
  <2>2. p \in Positions /\ p[1] \in 0..Len(op) /\ p[2] \in Seq(Nat) /\ resolved[i][2] \in Seq(Nat)
    BY <1>1, <1>8, PositionFacts, NodeFacts DEF ObjectsOf
  <2>3. Below(o, p)
    BY <1>1, <1>2, <1>8, <2>1, <2>2, BelowChain
  <2>4. h # f
    BY <1>1, <2>1, LineageFacts
  <2> QED
    BY <2>1, <2>3, <2>4 DEF MayAsk, f, o
<1>11. ASSUME NEW h \in EntityFetches, NEW p \in ObjectsOf(h[1]), NEW i \in DOMAIN new,
              NEW j \in DOMAIN new, MayAsk(new[i], h, p), MayAsk(new[j], h, p)
       PROVE  i = j
  <2>1. Below(resolved[i], p) /\ Below(resolved[j], p) /\ p \in Positions
    BY <1>10, <1>11 DEF ObjectsOf
  <2>2. resolved[i] = resolved[j]
    BY <1>1, <1>8, <2>1, OneAbove
  <2> QED
    BY <1>6, <1>8, <2>2
<1>12. ASSUME NEW h \in EntityFetches, NEW p \in ObjectsOf(h[1]), NEW i \in DOMAIN requests,
              requests[i].fetch = h, p \in requests[i].objects
       PROVE  MayAsk(Head(todo), h, p) /\ \A j \in DOMAIN new : ~MayAsk(new[j], h, p)
  <2>1. h = f /\ Below(o, p)
    BY <1>3, <1>7, <1>12
  <2>2. MayAsk(Head(todo), h, p)
    BY <1>1, <2>1 DEF MayAsk, f, o
  <2> QED
    BY <1>10, <2>1, <2>2
<1>13. Exclusive(todo, calls) /\ Once(calls)
  BY <1>1, ExclusiveLater DEF Once, EachFetchAsksOnce
<1>14. /\ Exclusive(todo', calls') /\ Once(calls') /\ todo' \in Seq(Calls) /\ calls' \in Seq(Requested)
  BY <1>1, <1>2, <1>7, <1>9, <1>10, <1>11, <1>12, <1>13, HeadReplaced
<1>15. \A i \in DOMAIN todo' : todo'[i].do = "flatten" => todo'[i].fetch \in EntityFetches
  <2> SUFFICES ASSUME NEW i \in DOMAIN todo', todo'[i].do = "flatten"
               PROVE  todo'[i].fetch \in EntityFetches
    OBVIOUS
  <2>1. CASE i \in DOMAIN new /\ todo'[i] = new[i]
    BY <1>2, <1>8, <2>1
  <2>2. CASE \E j \in DOMAIN todo : todo'[i] = todo[j]
    BY <2>2 DEF CallsTypeOK
  <2> QED
    BY <1>1, <1>2, <1>9, <2>1, <2>2, Joined
<1> QED
  BY <1>1, <1>2, <1>14, <1>15, CallsLater

\* The order of the calls of a plan, whatever response keys the operation
\* repeats: at most one call under way or to come leads to a fetch's request for
\* an object, and none once it was made.
THEOREM CallsInductive == Spec => []CallsInv
<1>1. Init => CallsInv
  <2> SUFFICES ASSUME Init PROVE CallsInv
    OBVIOUS
  <2>1. CallsTypeOK
    BY DEF Init, CallsTypeOK
  <2> QED
    BY <2>1 DEF Init, CallsInv, AskedByOne, EachFetchAsksOnce
<1>2. CallsInv /\ [Next]_vars => CallsInv'
  <2> SUFFICES ASSUME CallsInv, [Next]_vars PROVE CallsInv'
    OBVIOUS
  <2> DEFINE Kept == op' = op /\ todo' = todo /\ calls' = calls
  <2>1. ASSUME Kept, phase' \in {"run", "done", "rejected"} PROVE CallsInv'
    <3>1. Exclusive(todo', calls') /\ Once(calls')
      BY <2>1, ExclusiveLater DEF CallsInv, Once, EachFetchAsksOnce
    <3> QED
      BY <2>1, <3>1, CallsLater DEF CallsInv, CallsTypeOK
  <2>2. CASE Plan
    BY <2>2, PlanStep
  <2>3. CASE Reject
    BY <2>1, <2>3 DEF Reject
  <2>4. CASE Select
    BY <2>4, SelectStep
  <2>5. CASE Flatten
    BY <2>5, FlattenStep
  <2>6. CASE Shape
    BY <2>1, <2>6 DEF Shape
  <2>7. CASE UNCHANGED vars
    <3>1. Kept /\ phase' = phase
      BY <2>7 DEF vars
    <3>2. CASE phase # "plan"
      BY <2>1, <3>1, <3>2 DEF CallsInv, CallsTypeOK
    <3>3. CASE phase = "plan"
      <4>1. CallsTypeOK'
        BY <3>1, <3>3 DEF CallsInv, CallsTypeOK
      <4> QED
        BY <3>1, <3>3, <4>1 DEF CallsInv, CallsTypeOK, AskedByOne, EachFetchAsksOnce
    <3> QED
      BY <3>2, <3>3
  <2> QED
    BY <2>2, <2>3, <2>4, <2>5, <2>6, <2>7 DEF Next
<1> QED
  BY <1>1, <1>2, PTL DEF Spec

\* No fetch of the plan asks its reference resolver twice for an object, whatever
\* the operation and the answers (planner.go:525-602).  Fields that repeat a
\* response key have a fetch each (planner.go:180-187), and may ask for the same.
THEOREM AskedOnce == Spec => []EachFetchAsksOnce
<1>1. CallsInv => EachFetchAsksOnce
  BY DEF CallsInv
<1> QED
  BY <1>1, CallsInductive, PTL

----------------------------------------------------------------------------
(* The merged tree of an operation that repeats no response key.           *)

LEMMA PlainPlaces ==
  ASSUME op \in Operations, Unrepeated
  PROVE  /\ Places = Nodes /\ \A n \in 0..Len(op) : Place(n) = n
         /\ \A n \in Nodes : /\ Place(n) = n /\ Place(op[n].parent) = op[n].parent
                             /\ LeftOut(n) <=> Skipped(n)
         /\ \A n \in 0..Len(op) : PlacesAbove(n) = Above(n)
<1>1. Places = Nodes /\ \A n \in Nodes : Place(n) = n
  BY PlaceFacts DEF Unrepeated
<1>2. \A n \in 0..Len(op) : Place(n) = n
  BY <1>1, PlaceFacts, NodeFacts
<1>3. \A n \in Nodes : Place(op[n].parent) = op[n].parent
  BY <1>2, NodeFacts
<1>4. \A n \in Nodes : LeftOut(n) <=> Skipped(n)
  BY <1>1 DEF LeftOut
<1>5. \A n \in 0..Len(op) : PlacesAbove(n) = Above(n)
  BY <1>2, NodeFacts DEF PlacesAbove
<1> QED
  BY <1>1, <1>2, <1>3, <1>4, <1>5

LEMMA PlainBelow ==
  ASSUME op \in Operations, Unrepeated, NEW p, NEW q, q[1] \in 0..Len(op)
  PROVE  Below(p, q) <=> p[1] \in Above(q[1]) /\ IsPrefix(p[2], q[2])
BY PlainPlaces DEF Below, PlacesAbove

LEMMA PlainObjects ==
  ASSUME op \in Operations, Unrepeated, NEW m \in Nodes
  PROVE  ObjectsOf(m) = {p \in Positions : p[1] = m /\ Len(p[2]) = Lists(m)}
<1>1. Place(m) = m
  BY PlainPlaces
<1> QED
  BY <1>1 DEF ObjectsOf

LEMMA KidLists ==
  ASSUME op \in Operations, NEW m \in Nodes, NEW c \in Kids(m)
  PROVE  /\ c \in Nodes /\ op[c].parent = m /\ m < c /\ Above(c) = {c} \cup Above(m)
         /\ Lists(c) = IF op[c].list THEN Lists(m) + 1 ELSE Lists(m)
         /\ Lists(m) \in Nat
<1>1. c \in Nodes /\ op[c].parent = m /\ m < c /\ m # 0 /\ Above(c) = {c} \cup Above(m)
  BY NodeFacts DEF Kids
<1>2. m \in 0..Len(op) /\ c \in 0..Len(op)
  BY <1>1, NodeFacts
<1>3. c \notin Above(m)
  BY <1>1, <1>2, NodeFacts
<1> DEFINE L(n) == {a \in Above(n) \ {0} : op[a].list}
<1>4. IsFiniteSet(L(m))
  <2>1. IsFiniteSet(0..Len(op)) /\ L(m) \in SUBSET (0..Len(op))
    BY <1>2, NodeFacts, FS_Interval
  <2> QED
    BY <2>1, FS_Subset
<1>5. Cardinality(L(c)) = IF op[c].list THEN Cardinality(L(m)) + 1 ELSE Cardinality(L(m))
  <2>1. CASE op[c].list
    <3>1. L(c) = L(m) \cup {c} /\ c \notin L(m)
      BY <1>1, <1>3, <2>1, NodeFacts
    <3> HIDE DEF L
    <3> QED
      BY <1>4, <2>1, <3>1, FS_AddElement
  <2>2. CASE ~op[c].list
    <3>1. L(c) = L(m)
      BY <1>1, <2>2
    <3> QED
      BY <2>2, <3>1
  <2> QED
    BY <2>1, <2>2
<1>6. Lists(c) = Cardinality(L(c)) /\ Lists(m) = Cardinality(L(m))
  BY DEF Lists
<1> QED
  BY <1>1, <1>2, <1>5, <1>6, ListsType

\* The value of a field of an object, or the list around its values, is right
\* below the object.
LEMMA KidPlace ==
  ASSUME op \in Operations, Unrepeated, NEW m \in Nodes, NEW p \in ObjectsOf(m), NEW c \in Kids(m)
  PROVE  /\ <<c, p[2]>> \in Positions /\ Below(p, <<c, p[2]>>)
         /\ \A q \in Positions : Below(q, <<c, p[2]>>) => q = <<c, p[2]>> \/ Below(q, p)
<1>1. /\ p \in Positions /\ p = <<m, p[2]>> /\ p[2] \in Seq(Nat) /\ Len(p[2]) = Lists(m)
      /\ p[1] = m /\ p[2] \in Indices(m)
  BY PositionFacts, PlainObjects
<1>2. /\ c \in Nodes /\ Above(c) = {c} \cup Above(m) /\ Lists(m) \in Nat
      /\ Lists(c) = IF op[c].list THEN Lists(m) + 1 ELSE Lists(m)
  BY KidLists
<1>3. p[2] \in [1..Lists(m) -> 1..Items]
  <2>1. PICK k \in {Lists(m) - 1, Lists(m)} : p[2] \in [1..k -> 1..Items]
    BY <1>1 DEF Indices
  <2>2. CASE k = Lists(m)
    BY <2>1, <2>2
  <2>3. CASE k = Lists(m) - 1
    <3>1. DOMAIN p[2] = 1..(Lists(m) - 1) /\ DOMAIN p[2] = 1..Lists(m)
      BY <1>1, <2>1, <2>3
    <3>2. Lists(m) = 0
      BY <1>2, <3>1
    <3>3. 1..(Lists(m) - 1) = 1..Lists(m)
      BY <3>1
    <3> QED
      BY <2>1, <2>3, <3>3
  <2> QED
    BY <2>1, <2>2, <2>3
<1>4. p[2] \in Indices(c)
  <2>1. Lists(m) \in IF op[c].list THEN {Lists(c) - 1, Lists(c)} ELSE {Lists(c)}
    BY <1>2
  <2> QED
    BY <1>3, <2>1 DEF Indices
<1>5. <<c, p[2]>> \in Positions
  BY <1>2, <1>4, PlainPlaces DEF Positions
<1> DEFINE r == <<c, p[2]>>
<1>8. r[1] = c /\ r[2] = p[2] /\ c \in 0..Len(op) /\ m \in 0..Len(op)
  BY <1>2, NodeFacts
<1> HIDE DEF r
<1>6. Below(p, r)
  <2>1. p[1] \in Above(c)
    BY <1>1, <1>2, NodeFacts
  <2>2. IsPrefix(p[2], p[2])
    BY <1>1, PrefixIs
  <2> QED
    BY <1>8, <2>1, <2>2, PlainBelow
<1>7. ASSUME NEW q \in Positions, Below(q, r), q # r
      PROVE  Below(q, p)
  <2>1. /\ q = <<q[1], q[2]>> /\ q[1] \in Nodes /\ q[2] \in Seq(Nat) /\ q[2] \in Indices(q[1])
        /\ q[1] \in Above(c) /\ IsPrefix(q[2], p[2])
    BY <1>7, <1>8, PositionFacts, PlainBelow
  <2>2. CASE q[1] = c
    <3>1. PICK k \in {Lists(m), Lists(c)} : q[2] \in [1..k -> 1..Items]
      BY <1>2, <2>1, <2>2 DEF Indices
    <3>2. k \in Nat /\ Lists(m) <= k /\ Len(q[2]) = k
      BY <1>2, <2>1, <3>1
    <3>3. Len(q[2]) <= Len(p[2]) /\ \A i \in 1..Len(q[2]) : q[2][i] = p[2][i]
      BY <1>1, <2>1, PrefixIs
    <3>4. Len(q[2]) = Len(p[2])
      BY <1>1, <1>2, <3>2, <3>3
    <3>5. q[2] = p[2]
      BY <1>1, <2>1, <3>3, <3>4, SameTuple
    <3> QED
      BY <1>7, <2>1, <2>2, <3>5 DEF r
  <2>3. CASE q[1] # c
    BY <1>1, <1>2, <1>8, <2>1, <2>3, PlainBelow
  <2> QED
    BY <2>2, <2>3
<1> QED
  BY <1>5, <1>6, <1>7 DEF r

LEMMA CompletesIs ==
  ASSUME op \in Operations, Unrepeated, NEW f, NEW o, NEW p \in Positions
  PROVE  p \in Completes(f, o) <=>
           /\ Below(o, p) /\ p # o /\ FetchOf[p[1]] = f /\ ~SkippedIn(f, p[1])
           /\ \A q \in Between(o, p) : AnswerAt(q) = "ok"
<1>1. p[1] \in Nodes /\ \A c \in Nodes : Place(c) = c
  BY PositionFacts, PlainPlaces
<1> QED
  BY <1>1 DEF Completes, Collected

\* The executor that completes an object for a fetch completes the fields that
\* the same subgraph resolves on it.
LEMMA CompletesKids ==
  ASSUME op \in Operations, Unrepeated, NEW f \in Fetches, NEW o, o[2] \in Seq(Nat),
         NEW p \in Completes(f, o), AnswerAt(p) = "ok", p \in ObjectsOf(p[1]),
         NEW c \in Kids(p[1]), ~Crosses(c), ~op[c].skip
  PROVE  <<c, p[2]>> \in Completes(f, o)
<1> DEFINE m == p[1]
           r == <<c, p[2]>>
<1>1. /\ p \in Positions /\ Below(o, p) /\ p # o /\ FetchOf[m] = f /\ ~SkippedIn(f, m)
      /\ \A q \in Between(o, p) : AnswerAt(q) = "ok"
      /\ m \in Nodes /\ p[2] \in Seq(Nat)
  <2>1. p \in Positions
    BY DEF Completes
  <2> QED
    BY <2>1, CompletesIs, PositionFacts
<1>2. /\ r \in Positions /\ Below(p, r)
      /\ \A q \in Positions : Below(q, r) => q = r \/ Below(q, p)
  BY <1>1, KidPlace
<1>3. /\ c \in Nodes /\ op[c].parent = m /\ m < c /\ Above(c) = {c} \cup Above(m) /\ m # 0
      /\ m \in Nat /\ c \in Nat /\ c \in 0..Len(op)
  BY <1>1, KidLists, NodeFacts
<1> HIDE DEF m
<1>4. Below(o, r)
  BY <1>1, <1>2, <1>3, BelowChain
<1>5. r # o
  <2>1. o[1] <= m /\ o[1] \in Nat
    BY <1>1, NodeFacts, PlainBelow DEF m
  <2> QED
    BY <1>3, <2>1
<1>6. FetchOf[c] = f
  BY <1>1, <1>3, FetchDefined
<1>7. ~SkippedIn(f, c)
  BY <1>1, <1>3 DEF SkippedIn
<1>8. ASSUME NEW q \in Between(o, r) PROVE AnswerAt(q) = "ok"
  <2>1. q \in Positions /\ Below(o, q) /\ Below(q, p) /\ q # o
    BY <1>2 DEF Between
  <2>2. CASE q = p
    BY <2>2
  <2>3. CASE q # p
    BY <1>1, <2>1, <2>3 DEF Between
  <2> QED
    BY <2>2, <2>3
<1> QED
  BY <1>2, <1>3, <1>4, <1>5, <1>6, <1>7, <1>8, CompletesIs

\* The step of a select keeps the fields and the injected keys of every object.
LEMMA TreeSelect ==
  ASSUME CallsInv, TreeInv, Unrepeated, Select, op \in Operations, op' = op
  PROVE  /\ DOMAIN data' \subseteq Positions
         /\ \A p \in DOMAIN data' : data'[p] = "value" /\ p \in ObjectsOf(p[1]) =>
              /\ \A c \in Kids(p[1]) : ~Crosses(c) /\ ~op[c].skip => <<c, p[2]>> \in DOMAIN data'
              /\ \A k \in Injected(p[1]) : <<p[1], p[2], k>> \in added'
         /\ \A x \in added' : x[3] \in Injected(x[1])
<1> DEFINE f == Head(todo).fetch
           o == Head(todo).at
           new == Completes(f, o)
           kept == {p \in DOMAIN data : ~Lost(new, p)}
<1>1. /\ todo # << >>
      /\ data' = [p \in new \cup kept |-> IF p \in new THEN Completed(p) ELSE data[p]]
      /\ added' = AddsKeys(f, new) \cup {x \in added : ~Lost(new, <<x[1], x[2]>>)}
  BY DEF Select
<1>2. f \in Fetches /\ o[2] \in Seq(Nat)
  BY <1>1, HeadFacts DEF CallsInv, Calls
<1>3. /\ DOMAIN data \subseteq Positions
      /\ \A p \in DOMAIN data : data[p] = "value" /\ p \in ObjectsOf(p[1]) =>
           /\ \A c \in Kids(p[1]) : ~Crosses(c) /\ ~op[c].skip => <<c, p[2]>> \in DOMAIN data
           /\ \A k \in Injected(p[1]) : <<p[1], p[2], k>> \in added
      /\ \A x \in added : x[3] \in Injected(x[1])
  BY DEF TreeInv, Holds
<1>4. new \subseteq Positions
  BY DEF Completes
<1> HIDE DEF f, o
<1>5. DOMAIN data' = new \cup kept /\ DOMAIN data' \subseteq Positions
  BY <1>1, <1>3, <1>4
<1>6. ASSUME NEW p \in DOMAIN data', data'[p] = "value", p \in ObjectsOf(p[1]), p \in new
      PROVE  /\ \A c \in Kids(p[1]) : ~Crosses(c) /\ ~op[c].skip => <<c, p[2]>> \in DOMAIN data'
             /\ \A k \in Injected(p[1]) : <<p[1], p[2], k>> \in added'
  <2>1. AnswerAt(p) = "ok"
    BY <1>1, <1>6 DEF Completed
  <2>2. ASSUME NEW c \in Kids(p[1]), ~Crosses(c), ~op[c].skip PROVE <<c, p[2]>> \in new
    BY <1>2, <1>6, <2>1, <2>2, CompletesKids
  <2>3. p \in Positions /\ p[1] \in Nodes
    BY <1>4, <1>6, PositionFacts
  <2>4. p[1] \in Collected(f)
    BY <1>6, <2>3, CompletesIs DEF Collected
  <2>5. ASSUME NEW k \in Injected(p[1]) PROVE <<p[1], p[2], k>> \in AddsKeys(f, new)
    <3> DEFINE S(m) == {<<q[1], q[2], i>> : q \in {r \in ObjectsOf(m) \cap new : AnswerAt(r) = "ok"},
                                           i \in Injected(m)}
    <3>1. <<p[1], p[2], k>> \in S(p[1])
      BY <1>6, <2>1, <2>5
    <3>2. S(p[1]) \subseteq AddsKeys(f, new)
      BY <2>4 DEF AddsKeys
    <3> QED
      BY <3>1, <3>2
  <2> QED
    BY <1>1, <1>5, <2>2, <2>5
<1>7. ASSUME NEW p \in DOMAIN data', data'[p] = "value", p \in ObjectsOf(p[1]), p \notin new
      PROVE  /\ \A c \in Kids(p[1]) : ~Crosses(c) /\ ~op[c].skip => <<c, p[2]>> \in DOMAIN data'
             /\ \A k \in Injected(p[1]) : <<p[1], p[2], k>> \in added'
  <2>1. p \in DOMAIN data /\ data[p] = "value" /\ ~Lost(new, p)
    BY <1>1, <1>5, <1>7
  <2>2. p \in Positions /\ p[1] \in Nodes /\ p = <<p[1], p[2]>>
    BY <1>3, <2>1, PositionFacts
  <2>3. ASSUME NEW c \in Kids(p[1]), ~Crosses(c), ~op[c].skip
        PROVE  <<c, p[2]>> \in new \cup kept
    <3> DEFINE r == <<c, p[2]>>
    <3>1. r \in DOMAIN data
      BY <1>3, <1>7, <2>1, <2>3
    <3>2. \A q \in Positions : Below(q, r) => q = r \/ Below(q, p)
      BY <1>7, <2>2, KidPlace
    <3> HIDE DEF r
    <3>3. CASE Lost(new, r)
      <4>1. PICK q \in new : q \notin ObjectsOf(q[1]) /\ Below(q, r)
        BY <3>3 DEF Lost
      <4>2. ~Below(q, p)
        BY <2>1, <4>1 DEF Lost
      <4> QED
        BY <1>4, <3>2, <4>1, <4>2 DEF r
    <3>4. CASE ~Lost(new, r)
      BY <3>1, <3>4 DEF r
    <3> QED
      BY <3>3, <3>4
  <2>4. ASSUME NEW k \in Injected(p[1]) PROVE <<p[1], p[2], k>> \in added'
    <3> DEFINE x == <<p[1], p[2], k>>
    <3>1. x \in added /\ <<x[1], x[2]>> = p
      BY <1>3, <1>7, <2>1, <2>2, <2>4
    <3> QED
      BY <1>1, <2>1, <3>1
  <2> QED
    BY <1>5, <2>3, <2>4
<1>8. ASSUME NEW x \in AddsKeys(f, new) PROVE x[3] \in Injected(x[1])
  <2>1. PICK m \in Collected(f) : \E q \in ObjectsOf(m) : \E k \in Injected(m) : x = <<q[1], q[2], k>>
    BY <1>8 DEF AddsKeys
  <2>2. m \in Nodes
    BY DEF Collected
  <2> QED
    BY <2>1, <2>2, PlainObjects
<1>9. \A x \in added' : x[3] \in Injected(x[1])
  BY <1>1, <1>3, <1>8
<1> QED
  BY <1>5, <1>6, <1>7, <1>9

LEMMA TreeStep ==
  ASSUME CallsInv, TreeInv, Unrepeated, [Next]_vars
  PROVE  TreeInv'
<1>1. op' = op /\ op \in Operations
  BY DEF Next, Plan, Reject, Select, Flatten, Shape, vars, CallsInv, CallsTypeOK
<1>2. (Plannable' <=> Plannable) /\ (\A m : Injected(m)' = Injected(m)) /\ (\A c : Crosses(c)' <=> Crosses(c))
  BY <1>1, SameOperation DEF Plannable, Injected, Selected, KeysOf, Crosses
<1>3. todo' # << >> => Plannable
  BY <1>2 DEF Next, Plan, Reject, Select, Flatten, Shape, vars, TreeInv
<1> DEFINE Kept == /\ DOMAIN data' \subseteq Positions
                   /\ \A p \in DOMAIN data' : data'[p] = "value" /\ p \in ObjectsOf(p[1]) =>
                        /\ \A c \in Kids(p[1]) : ~Crosses(c) /\ ~op[c].skip => <<c, p[2]>> \in DOMAIN data'
                        /\ \A k \in Injected(p[1]) : <<p[1], p[2], k>> \in added'
                   /\ \A x \in added' : x[3] \in Injected(x[1])
<1>4. CASE Select
  <2>1. Kept
    BY <1>1, <1>4, TreeSelect
  <2> QED
    BY <1>1, <1>2, <1>3, <2>1, SameOperation DEF TreeInv, Holds
<1>5. CASE data' = data /\ added' = added
  <2>1. Kept
    <3>1. /\ DOMAIN data \subseteq Positions
          /\ \A p \in DOMAIN data : data[p] = "value" /\ p \in ObjectsOf(p[1]) =>
               /\ \A c \in Kids(p[1]) : ~Crosses(c) /\ ~op[c].skip => <<c, p[2]>> \in DOMAIN data
               /\ \A k \in Injected(p[1]) : <<p[1], p[2], k>> \in added
          /\ \A x \in added : x[3] \in Injected(x[1])
      BY DEF TreeInv, Holds
    <3> QED
      BY <1>5, <3>1
  <2> QED
    BY <1>1, <1>2, <1>3, <2>1, SameOperation DEF TreeInv, Holds
<1> QED
  BY <1>4, <1>5 DEF Next, Plan, Reject, Flatten, Shape, vars

\* Where no response key is repeated, the merged tree holds every field that an
\* object's own subgraph resolves and the keys injected there, whatever is merged
\* into it (planner.go:600-636).
THEOREM TreeInductive == Spec /\ Unrepeated => [](CallsInv /\ TreeInv)
<1>1. Init => TreeInv
  BY DEF Init, TreeInv
<1>2. CallsInv /\ TreeInv /\ Unrepeated /\ [Next]_vars => TreeInv'
  BY TreeStep
<1>3. Unrepeated /\ [Next]_vars => Unrepeated'
  <2> SUFFICES ASSUME Unrepeated, [Next]_vars PROVE Unrepeated'
    OBVIOUS
  <2>1. op' = op
    BY DEF Next, Plan, Reject, Select, Flatten, Shape, vars
  <2> QED
    BY <2>1, SameOperation
<1> QED
  BY <1>1, <1>2, <1>3, CallsInductive, PTL DEF Spec

LEMMA KeysHeld == CallsInv /\ TreeInv /\ PlainKeys => KeysInjected
<1> SUFFICES ASSUME CallsInv, TreeInv, PlainKeys, todo # << >>, Head(todo).do = "flatten",
                    ~Skipped(Head(todo).fetch[1]),
                    NEW p \in AtPath(Head(todo).fetch[1], Head(todo).at),
                    NEW k \in KeysOf(Head(todo).fetch)
             PROVE  HeldUnder(p, k) = {k}
  BY DEF KeysInjected
<1> DEFINE f == Head(todo).fetch
<1>1. op \in Operations /\ f \in EntityFetches /\ Plannable /\ Unrepeated
  BY HeadFacts DEF CallsInv, CallsTypeOK, TreeInv, PlainKeys
<1>2. PICK m \in Nodes : \E s \in Across(m) : f = <<m, s>>
  BY <1>1 DEF EntityFetches
<1>3. PICK s \in Across(m) : f = <<m, s>>
  BY <1>2
<1>4. p \in ObjectsOf(m) /\ p[1] = m /\ p \in DOMAIN data /\ data[p] = "value" /\ k \in KeysOf(<<m, s>>)
  BY <1>1, <1>3, PlainObjects DEF AtPath
<1> DEFINE fetched == {c \in Kids(m) : op[c].key = k /\ <<c, p[2]>> \in DOMAIN data}
<1>5. \A c \in Kids(m) : op[c].key = k => op[c].field = k /\ ~op[c].skip
  BY <1>1, <1>3, <1>4 DEF PlainKeys
<1>6. HeldUnder(p, k) = IF fetched # {} THEN {op[c].field : c \in fetched} ELSE {x \in {k} : Holds(p, x)}
  <2>1. fetched = {c \in Places : /\ Place(op[c].parent) = p[1] /\ op[c].key = k
                                  /\ <<c, p[2]>> \in DOMAIN data}
    BY <1>1, <1>4, PlainPlaces DEF Kids
  <2> HIDE DEF fetched
  <2> QED
    BY <2>1 DEF HeldUnder
<1>7. CASE fetched # {}
  BY <1>5, <1>6, <1>7
<1>8. CASE fetched = {}
  <2>1. k \notin Selected(m)
    <3> SUFFICES ASSUME k \in Selected(m) PROVE FALSE
      OBVIOUS
    <3>1. PICK c \in Kids(m) : ~Crosses(c) /\ op[c].key = k
      BY DEF Selected
    <3>2. <<c, p[2]>> \in DOMAIN data
      BY <1>4, <1>5, <3>1 DEF TreeInv
    <3> QED
      BY <1>8, <3>1, <3>2
  <2>2. k \in Injected(m)
    BY <1>4, <2>1 DEF Injected
  <2>3. Holds(p, k)
    BY <1>4, <2>2 DEF TreeInv
  <2> QED
    BY <1>6, <1>8, <2>3
<1> QED
  BY <1>7, <1>8

\* Where no response key is repeated, no other field takes a key's response key
\* and no directive may leave the key out, each object that a flatten finds holds its keys when the flatten
\* begins (README.md:198).
THEOREM HoldsItsKeys == Spec /\ PlainKeys => []KeysInjected
<1>1. PlainKeys /\ [Next]_vars => PlainKeys'
  <2> SUFFICES ASSUME PlainKeys, [Next]_vars PROVE PlainKeys'
    OBVIOUS
  <2>1. op' = op
    BY DEF Next, Plan, Reject, Select, Flatten, Shape, vars
  <2>2. Plannable' <=> Plannable
    BY <2>1, SameOperation DEF Plannable, Injected, Selected, KeysOf, Crosses
  <2> QED
    BY <2>1, <2>2, SameOperation DEF PlainKeys, KeysOf
<1> QED
  <2>1. PlainKeys => Unrepeated
    BY DEF PlainKeys
  <2> QED
    BY <1>1, <2>1, TreeInductive, KeysHeld, PTL DEF Spec

----------------------------------------------------------------------------
(* The objects over a position.                                            *)

LEMMA ListsGrow ==
  ASSUME op \in Operations, NEW n \in Nodes, NEW a \in Above(n)
  PROVE  /\ Lists(a) \in Nat /\ Lists(n) \in Nat /\ Lists(a) <= Lists(n)
         /\ a # n /\ op[n].list => Lists(a) + 1 <= Lists(n)
<1> DEFINE L(k) == {x \in Above(k) \ {0} : op[x].list}
<1>1. n \in 0..Len(op) /\ a \in 0..Len(op) /\ Above(a) \subseteq Above(n) /\ n \in Above(n) /\ n # 0
  BY NodeFacts
<1>2. L(a) \subseteq L(n)
  BY <1>1
<1>3. IsFiniteSet(L(n))
  <2>1. IsFiniteSet(0..Len(op))
    BY NodeFacts, FS_Interval
  <2>2. L(n) \in SUBSET (0..Len(op))
    BY <1>1, NodeFacts
  <2> HIDE DEF L
  <2> QED
    BY <2>1, <2>2, FS_Subset
<1>4. Cardinality(L(a)) <= Cardinality(L(n))
  <2> HIDE DEF L
  <2> QED
    BY <1>2, <1>3, FS_Subset
<1>5. ASSUME a # n, op[n].list PROVE Cardinality(L(a)) <= Cardinality(L(n)) - 1
  <2>1. n \notin Above(a)
    BY <1>1, <1>5, NodeFacts
  <2>2. L(a) \subseteq L(n) \ {n} /\ n \in L(n)
    BY <1>1, <1>2, <1>5, <2>1
  <2> HIDE DEF L
  <2>3. IsFiniteSet(L(n) \ {n}) /\ Cardinality(L(n) \ {n}) = Cardinality(L(n)) - 1
    BY <1>3, <2>2, FS_RemoveElement
  <2> QED
    BY <2>2, <2>3, FS_Subset
<1>6. Lists(a) = Cardinality(L(a)) /\ Lists(n) = Cardinality(L(n))
  BY DEF Lists
<1>7. Lists(a) \in Nat /\ Lists(n) \in Nat
  BY <1>1, ListsType
<1> QED
  BY <1>4, <1>5, <1>6, <1>7

\* A value has an index for each list that it is in.
LEMMA IndexFacts ==
  ASSUME op \in Operations, NEW p \in Positions
  PROVE  /\ p[2] \in [1..Len(p[2]) -> 1..Items] /\ p[2] \in Seq(Nat) /\ Len(p[2]) \in Nat
         /\ Len(p[2]) <= Lists(p[1]) /\ Lists(p[1]) \in Nat
         /\ \A a \in Above(p[1]) : a # p[1] => Lists(a) <= Len(p[2])
<1> DEFINE n == p[1]
<1>1. n \in Nodes /\ p[2] \in Seq(Nat) /\ p[2] \in Indices(n) /\ n \in 0..Len(op)
  BY PositionFacts, NodeFacts
<1>2. Lists(n) \in Nat
  BY <1>1, ListsType
<1>3. PICK k \in (IF op[n].list THEN {Lists(n) - 1, Lists(n)} ELSE {Lists(n)}) :
        p[2] \in [1..k -> 1..Items]
  BY <1>1 DEF Indices
<1> DEFINE l == Len(p[2])
<1>4. l \in Nat /\ DOMAIN p[2] = 1..l /\ DOMAIN p[2] = 1..k
  BY <1>1, <1>3
<1>5. 1..l = 1..k /\ k \in Int /\ k <= Lists(n)
  BY <1>2, <1>3, <1>4
<1>6. (k >= 0 => l = k) /\ (k < 0 => l = 0)
  BY <1>4, <1>5
<1>7. l <= Lists(n)
  BY <1>2, <1>5, <1>6
<1>8. ASSUME NEW a \in Above(n), a # n PROVE Lists(a) <= l
  <2>1. /\ Lists(a) \in Nat /\ Lists(a) <= Lists(n)
        /\ op[n].list => Lists(a) + 1 <= Lists(n)
    BY <1>1, <1>8, ListsGrow
  <2> QED
    BY <1>2, <1>3, <1>4, <1>6, <2>1
<1>9. p[2] \in [1..l -> 1..Items]
  BY <1>3, <1>5
<1> QED
  BY <1>1, <1>2, <1>4, <1>7, <1>8, <1>9

LEMMA PositionOf ==
  ASSUME NEW n \in Places, NEW i \in Indices(n)
  PROVE  <<n, i>> \in Positions
BY DEF Positions

\* The object of node a over p.
Over(a, p) == <<a, SubSeq(p[2], 1, Lists(a))>>

LEMMA OverFacts ==
  ASSUME op \in Operations, Unrepeated, NEW p \in Positions, NEW a \in Above(p[1]) \ {0}, a # p[1]
  PROVE  /\ Over(a, p) \in ObjectsOf(a) /\ Below(Over(a, p), p)
         /\ Over(a, p) \in Between(Root, p)
         /\ \A o \in ObjectsOf(a) : Below(o, p) => o = Over(a, p)
<1> DEFINE l == Lists(a)
           o == Over(a, p)
<1>1. /\ a \in Nodes /\ l \in Nat /\ l <= Len(p[2]) /\ p[2] \in [1..Len(p[2]) -> 1..Items]
      /\ p[2] \in Seq(Nat) /\ Len(p[2]) \in Nat /\ p[1] \in 0..Len(op)
  <2>1. p[1] \in Nodes /\ p[1] \in 0..Len(op)
    BY PositionFacts, NodeFacts
  <2>2. a \in Nodes /\ a \in 0..Len(op)
    BY <2>1, NodeFacts
  <2> QED
    BY <2>1, <2>2, ListsType, IndexFacts
<1>2. /\ SubSeq(p[2], 1, l) \in [1..l -> 1..Items] /\ SubSeq(p[2], 1, l) \in Seq(Nat)
      /\ Len(SubSeq(p[2], 1, l)) = l
      /\ \A i \in 1..l : SubSeq(p[2], 1, l)[i] = p[2][i]
  <2> DEFINE s == [i \in 1..l |-> p[2][i]]
  <2>1. SubSeq(p[2], 1, l) = s
    BY <1>1
  <2>2. \A i \in 1..l : i \in 1..Len(p[2]) /\ p[2][i] \in 1..Items
    BY <1>1
  <2>3. s \in [1..l -> 1..Items]
    BY <2>2
  <2>4. s \in Seq(Nat) /\ Len(s) = l
    BY <1>1, <2>2
  <2> QED
    BY <2>1, <2>3, <2>4
<1>3. o[1] = a /\ o[2] = SubSeq(p[2], 1, l) /\ o = <<a, o[2]>>
  BY DEF Over
<1> HIDE DEF o
<1>4. o \in ObjectsOf(a)
  <2>1. l \in IF op[a].list THEN {Lists(a) - 1, Lists(a)} ELSE {Lists(a)}
    OBVIOUS
  <2>2. o[2] \in Indices(a)
    BY <1>2, <1>3, <2>1 DEF Indices
  <2>3. o \in Positions
    BY <1>1, <1>3, <2>2, PlainPlaces, PositionOf
  <2> QED
    BY <1>1, <1>2, <1>3, <2>3, PlainObjects
<1>5. Below(o, p)
  <2>1. o[2] \in Seq(Nat) /\ Len(o[2]) = l /\ \A i \in 1..l : o[2][i] = p[2][i]
    BY <1>2, <1>3
  <2> HIDE DEF l
  <2>2. IsPrefix(o[2], p[2])
    BY <1>1, <2>1, PrefixIs
  <2> QED
    BY <1>1, <1>3, <2>2, PlainBelow
<1>6. o \in Between(Root, p)
  <2>1. o \in Positions
    BY <1>4 DEF ObjectsOf
  <2>2. Below(Root, o) /\ o # Root /\ o # p
    BY <1>3, <2>1, BelowRoot DEF Root
  <2> QED
    BY <1>5, <2>1, <2>2 DEF Between
<1>7. \A x \in ObjectsOf(a) : Below(x, p) => x = o
  BY <1>4, <1>5, OneAbove
<1> QED
  BY <1>4, <1>5, <1>6, <1>7 DEF o

\* The object that a node over a position, or the position's own, is a field of.
LEMMA ParentIsOver ==
  ASSUME op \in Operations, Unrepeated, NEW p \in Positions, NEW a \in Above(p[1]) \ {0}, op[a].parent # 0
  PROVE  /\ op[a].parent \in Above(p[1]) \ {0} /\ op[a].parent # p[1] /\ op[a].parent \in Nodes
         /\ Parent(<<a, p[2]>>) = Over(op[a].parent, p)
<1>1. /\ p[1] \in Nodes /\ p[1] \in 0..Len(op) /\ a \in Nodes /\ a <= p[1] /\ a \in Nat
      /\ Above(a) \subseteq Above(p[1])
  BY PositionFacts, NodeFacts
<1>2. /\ op[a].parent \in Above(a) /\ op[a].parent < a /\ op[a].parent \in Nat
      /\ op[a].parent \in Nodes
  BY <1>1, NodeFacts
<1>3. p[1] \in Nat
  BY <1>1, NodeFacts
<1> QED
  <2>1. Place(op[a].parent) = op[a].parent
    BY <1>1, PlainPlaces
  <2> QED
    BY <1>1, <1>2, <1>3, <2>1 DEF Parent, Over

\* What is over a place is over all that is below the place.
LEMMA SameOver ==
  ASSUME op \in Operations, Unrepeated, NEW p \in Positions, NEW q \in Positions, Below(q, p),
         NEW a \in Above(q[1]) \ {0}, a # q[1]
  PROVE  a \in Above(p[1]) \ {0} /\ a # p[1] /\ Over(a, q) = Over(a, p)
<1>1. /\ p[1] \in Nodes /\ p[1] \in 0..Len(op) /\ q[1] \in Above(p[1]) /\ q[1] \in Nodes
      /\ q[2] \in Seq(Nat) /\ p[2] \in Seq(Nat)
  <2>1. p[1] \in Nodes /\ p[1] \in 0..Len(op)
    BY PositionFacts, NodeFacts
  <2> QED
    BY <2>1, PositionFacts, PlainBelow
<1>2. a \in Above(p[1]) /\ a <= q[1] /\ q[1] <= p[1] /\ a \in Nat /\ q[1] \in Nat /\ p[1] \in Nat
  BY <1>1, NodeFacts
<1>3. a # p[1]
  BY <1>2
<1>4. Over(a, q) \in ObjectsOf(a) /\ Below(Over(a, q), q)
  BY OverFacts
<1>5. Over(a, q)[2] \in Seq(Nat)
  BY <1>4, PositionFacts DEF ObjectsOf
<1>6. Below(Over(a, q), p)
  BY <1>1, <1>4, <1>5, BelowChain
<1> QED
  BY <1>2, <1>3, <1>4, <1>6, OverFacts

\* Of an object and a place over the same position, one is over the other.
LEMMA OneOverOther ==
  ASSUME op \in Operations, Unrepeated, NEW m, NEW o \in ObjectsOf(m), NEW q \in Positions,
         NEW p \in Positions, Below(o, p), Below(q, p)
  PROVE  Below(o, q) \/ Below(q, o)
<1>1. /\ o \in Positions /\ Len(o[2]) = Lists(o[1])
      /\ o[2] \in Seq(Nat) /\ q[2] \in Seq(Nat) /\ p[2] \in Seq(Nat)
      /\ o[1] \in Nodes /\ q[1] \in Nodes /\ p[1] \in Nodes /\ p[1] \in 0..Len(op)
      /\ o[1] \in Nat /\ q[1] \in Nat /\ p[1] \in Nat
      /\ o[1] \in Above(p[1]) /\ q[1] \in Above(p[1])
      /\ o[1] <= p[1] /\ q[1] <= p[1]
      /\ o[1] \in 0..Len(op) /\ q[1] \in 0..Len(op)
  <2>1. o \in Positions /\ Len(o[2]) = Lists(o[1])
    BY DEF ObjectsOf
  <2>2. p[1] \in Nodes /\ p[1] \in 0..Len(op)
    BY PositionFacts, NodeFacts
  <2>3. o[1] \in Above(p[1]) /\ q[1] \in Above(p[1])
    BY <2>2, PlainBelow
  <2> QED
    BY <2>1, <2>2, <2>3, PositionFacts, NodeFacts
<1>2. /\ Len(o[2]) <= Len(p[2]) /\ \A i \in 1..Len(o[2]) : o[2][i] = p[2][i]
      /\ Len(q[2]) <= Len(p[2]) /\ \A i \in 1..Len(q[2]) : q[2][i] = p[2][i]
  BY <1>1, PrefixIs, PlainBelow
<1>3. Len(o[2]) \in Nat /\ Len(q[2]) \in Nat /\ Len(p[2]) \in Nat
  BY <1>1
<1>4. ASSUME Len(o[2]) <= Len(q[2]), o[1] \in Above(q[1]) PROVE Below(o, q)
  <2>1. IsPrefix(o[2], q[2])
    <3>1. Len(o[2]) <= Len(q[2]) /\ \A i \in 1..Len(o[2]) : o[2][i] = q[2][i]
      BY <1>1, <1>2, <1>3, <1>4
    <3> QED
      BY <1>1, <3>1, PrefixIs
  <2> QED
    BY <1>1, <1>4, <2>1, PlainBelow
<1>5. ASSUME Len(q[2]) <= Len(o[2]), q[1] \in Above(o[1]) PROVE Below(q, o)
  <2>1. IsPrefix(q[2], o[2])
    <3>1. Len(q[2]) <= Len(o[2]) /\ \A i \in 1..Len(q[2]) : q[2][i] = o[2][i]
      BY <1>1, <1>2, <1>3, <1>5
    <3> QED
      BY <1>1, <3>1, PrefixIs
  <2> QED
    BY <1>1, <1>5, <2>1, PlainBelow
<1>6. CASE o[1] < q[1]
  <2>1. o[1] \in Above(q[1])
    BY <1>1, <1>6, NodeFacts
  <2>2. Lists(o[1]) <= Len(q[2])
    BY <1>1, <1>6, <2>1, IndexFacts
  <2> QED
    BY <1>1, <1>4, <2>1, <2>2
<1>7. CASE q[1] < o[1]
  <2>1. q[1] \in Above(o[1])
    BY <1>1, <1>7, NodeFacts
  <2>2. Lists(q[1]) <= Lists(o[1]) /\ Lists(q[1]) \in Nat /\ Lists(o[1]) \in Nat
    BY <1>1, <2>1, ListsGrow
  <2>3. Len(q[2]) <= Lists(q[1])
    BY IndexFacts
  <2> QED
    BY <1>1, <1>3, <1>5, <2>1, <2>2, <2>3
<1>8. CASE q[1] = o[1]
  <2>1. q[1] \in Above(o[1]) /\ Len(q[2]) <= Lists(o[1])
    <3>1. o[1] \in Above(o[1])
      BY <1>1, NodeFacts
    <3> QED
      BY <1>1, <1>8, <3>1, IndexFacts
  <2> QED
    BY <1>1, <1>5, <2>1
<1> QED
  BY <1>1, <1>6, <1>7, <1>8

----------------------------------------------------------------------------
(* What is fetched.                                                        *)

\* Above a node is one whose parent is the object that the node's fetch is for.
LEMMA FetchBegins ==
  ASSUME op \in Operations, NEW n \in Nodes
  PROVE  \E b \in Above(n) \ {0} : /\ FetchOf[b] = FetchOf[n] /\ op[b].parent = FetchOf[n][1]
                                   /\ Home(b) = FetchOf[n][2]
                                   /\ op[b].parent = 0 \/ Crosses(b)
<1> DEFINE Sound(k) == \E b \in Above(k) \ {0} : /\ FetchOf[b] = FetchOf[k]
                                                 /\ op[b].parent = FetchOf[k][1]
                                                 /\ Home(b) = FetchOf[k][2]
                                                 /\ op[b].parent = 0 \/ Crosses(b)
           Fails == {k \in Nodes : ~Sound(k)}
<1> SUFFICES ASSUME Fails # {} PROVE FALSE
  OBVIOUS
<1>1. PICK k \in Fails : \A j \in Fails : k <= j
  <2>1. Fails \in SUBSET Nat
    BY NodeFacts
  <2> HIDE DEF Fails
  <2> QED
    BY <2>1, FirstOf
<1> DEFINE u == op[k].parent
<1>2. /\ k \in Nodes /\ k \in Nat /\ k # 0 /\ u \in 0..Len(op) /\ u \in Nat /\ u < k
      /\ Above(k) = {k} \cup Above(u) /\ ~Sound(k)
  BY <1>1, NodeFacts
<1>3. CASE u = 0 \/ Crosses(k)
  <2>1. FetchOf[k] = <<u, Home(k)>>
    BY <1>2, <1>3, FetchDefined
  <2> QED
    BY <1>2, <1>3, <2>1
<1>4. CASE ~(u = 0 \/ Crosses(k))
  <2>1. FetchOf[k] = FetchOf[u]
    BY <1>2, <1>4, FetchDefined
  <2>2. u \in Nodes
    BY <1>2, <1>4, NodeFacts
  <2>3. ~(k <= u)
    BY <1>2
  <2>4. Sound(u)
    BY <1>1, <2>2, <2>3
  <2> QED
    BY <1>2, <2>1, <2>4
<1> QED
  BY <1>3, <1>4

\* A fetch that leads to a node of a later fetch is followed by one that does.
LEMMA NextFetch ==
  ASSUME op \in Operations, NEW n \in Nodes, NEW f \in Lineage(n), FetchOf[n] # f
  PROVE  \E u \in Nodes : \E s \in Across(u) : FetchOf[u] = f /\ <<u, s>> \in Lineage(n)
<1> DEFINE S == {b \in Above(n) \ {0} : f \in Lineage(b) /\ FetchOf[b] # f}
<1>1. n \in 0..Len(op) /\ n \in Above(n) /\ n # 0
  BY NodeFacts
<1>2. PICK b \in S : \A j \in S : b <= j
  <2>1. S \in SUBSET Nat /\ n \in S
    BY <1>1, NodeFacts
  <2> HIDE DEF S
  <2> QED
    BY <2>1, FirstOf
<1> DEFINE u == op[b].parent
<1>3. /\ b \in Nodes /\ b \in Above(n) /\ u < b /\ u \in Nat /\ b \in Nat
      /\ Above(b) = {b} \cup Above(u) /\ Above(b) \subseteq Above(n) /\ u \in Above(u)
      /\ f \in Lineage(b) /\ FetchOf[b] # f
  BY <1>1, <1>2, NodeFacts
<1>4. PICK a \in Above(b) \ {0} : FetchOf[a] = f
  BY <1>3 DEF Lineage
<1>5. a \in Above(u) \ {0} /\ u # 0 /\ f \in Lineage(u) /\ u \in Nodes
  <2>1. a \in Above(u) \ {0}
    BY <1>3, <1>4
  <2>2. u # 0
    BY <2>1, NodeFacts
  <2>3. f \in Lineage(u)
    BY <1>4, <2>1 DEF Lineage
  <2> QED
    BY <1>3, <2>1, <2>2, <2>3, NodeFacts
<1>6. FetchOf[u] = f
  <2>1. ~(b <= u) /\ u \in Above(n) \ {0}
    BY <1>3, <1>5
  <2> HIDE DEF u
  <2> QED
    BY <1>2, <1>5, <2>1
<1>7. Crosses(b) /\ FetchOf[b] = <<u, Home(b)>>
  BY <1>3, <1>5, <1>6, FetchDefined
<1>8. Home(b) \in Across(u) /\ <<u, Home(b)>> \in Lineage(n)
  BY <1>2, <1>3, <1>7 DEF Across, Kids, Lineage
<1> QED
  BY <1>5, <1>6, <1>8

LEMMA FlattensAre ==
  ASSUME op \in Operations, NEW f \in Fetches
  PROVE  /\ \A i \in DOMAIN Flattens(f) :
              FetchOf[Flattens(f)[i][1]] = f /\ Flattens(f)[i] \in EntityFetches
         /\ \A u \in Nodes : \A s \in Across(u) :
              FetchOf[u] = f => \E i \in DOMAIN Flattens(f) : Flattens(f)[i] = <<u, s>>
<1> DEFINE S == UNION {{<<m, s>> : s \in Across(m)} : m \in {n \in Nodes : FetchOf[n] = f}}
<1>1. ASSUME NEW g \in S
      PROVE  g \in EntityFetches /\ FetchOf[g[1]] = f
  <2>1. PICK m \in Nodes : FetchOf[m] = f /\ \E s \in Across(m) : g = <<m, s>>
    OBVIOUS
  <2> QED
    BY <2>1, EntityFetchFacts
<1>2. S \in SUBSET Fetches
  BY <1>1, EntityFetchFacts
<1>3. Flattens(f) = Sorted(S, Precedes)
  BY DEF Flattens
<1>4. \A u \in Nodes : \A s \in Across(u) : FetchOf[u] = f => <<u, s>> \in S
  OBVIOUS
<1> HIDE DEF S
<1>5. /\ Flattens(f) \in Seq(S)
      /\ \A g \in S : \E i \in DOMAIN Flattens(f) : Flattens(f)[i] = g
  BY <1>2, <1>3, SortedFetches
<1>6. \A i \in DOMAIN Flattens(f) : Flattens(f)[i] \in S
  BY <1>5
<1> QED
  BY <1>1, <1>4, <1>5, <1>6

\* What leads to a position has led to every place over it.
LEMMA FetchedAbove ==
  ASSUME op \in Operations, Unrepeated, NEW p \in Positions, NEW q \in Positions, Below(q, p), q # p,
         Fetched(p)
  PROVE  Present(q)
<1>1. /\ p[1] \in Nodes /\ p[1] \in 0..Len(op) /\ q[1] \in Above(p[1]) /\ q[1] \in Nodes
      /\ Above(q[1]) \subseteq Above(p[1]) /\ p[2] \in Seq(Nat) /\ q[2] \in Seq(Nat)
      /\ q[1] \in 0..Len(op) /\ IsPrefix(q[2], p[2])
  <2>1. p[1] \in Nodes /\ p[1] \in 0..Len(op)
    BY PositionFacts, NodeFacts
  <2>2. q[1] \in Above(p[1]) /\ IsPrefix(q[2], p[2])
    BY <2>1, PlainBelow
  <2> QED
    BY <2>1, <2>2, PositionFacts, NodeFacts
<1>2. ~Skipped(q[1])
  BY <1>1 DEF Fetched, Skipped
<1>3. q \in Between(Root, p)
  <2>1. Below(Root, q) /\ q # Root
    BY <1>1, BelowRoot, NodeFacts DEF Root
  <2> QED
    BY <2>1 DEF Between
<1>4. ASSUME NEW x \in Between(Root, q) PROVE AnswerAt(x) = "ok"
  <2>1. x \in Positions /\ Below(x, q) /\ x # q /\ x # Root /\ Below(Root, x)
    BY <1>4 DEF Between
  <2>2. Below(x, p)
    BY <1>1, <2>1, PositionFacts, BelowChain
  <2>3. x # p
    <3> SUFFICES ASSUME x = p PROVE FALSE
      OBVIOUS
    <3>1. Below(p, q)
      BY <2>1
    <3>2. p[1] = q[1]
      <4>1. p[1] \in Above(q[1]) /\ p[1] <= q[1] /\ q[1] <= p[1] /\ p[1] \in Nat /\ q[1] \in Nat
        BY <1>1, <3>1, NodeFacts, PlainBelow
      <4> QED
        BY <4>1
    <3>3. p[2] = q[2]
      <4>1. /\ Len(p[2]) <= Len(q[2]) /\ \A i \in 1..Len(p[2]) : p[2][i] = q[2][i]
            /\ Len(q[2]) <= Len(p[2])
        BY <1>1, <3>1, PrefixIs, PlainBelow
      <4>2. Len(p[2]) = Len(q[2])
        BY <1>1, <4>1
      <4> QED
        BY <1>1, <4>1, <4>2, SameTuple
    <3> QED
      BY <3>2, <3>3, PositionFacts
  <2> QED
    BY <2>1, <2>2, <2>3 DEF Fetched, Between
<1>5. ASSUME NEW a \in Above(q[1]) \ {0}, Crosses(a)
      PROVE  EntityAnswer(Parent(<<a, q[2]>>), Home(a)) = "ok"
  <2>1. op[a].parent # 0 /\ a \in Above(p[1]) \ {0}
    BY <1>1, <1>5 DEF Crosses
  <2>2. /\ op[a].parent \in Above(q[1]) \ {0} /\ op[a].parent # q[1]
        /\ Parent(<<a, q[2]>>) = Over(op[a].parent, q)
    BY <2>1, ParentIsOver
  <2>3. Parent(<<a, p[2]>>) = Over(op[a].parent, p)
    BY <2>1, ParentIsOver
  <2>4. Over(op[a].parent, q) = Over(op[a].parent, p)
    BY <2>2, SameOver
  <2> QED
    BY <1>5, <2>1, <2>2, <2>3, <2>4 DEF Fetched
<1> QED
  BY <1>2, <1>3, <1>4, <1>5 DEF Present, Fetched

\* What leads to a position begins each of its fetches.
LEMMA FetchedBegins ==
  ASSUME op \in Operations, Unrepeated, NEW p \in Positions, Fetched(p), NEW f \in Lineage(p[1]), f[1] # 0
  PROVE  /\ f[1] \in Above(p[1]) \ {0} /\ f[1] # p[1]
         /\ Over(f[1], p) \in ObjectsOf(f[1]) /\ Below(Over(f[1], p), p)
         /\ Present(Over(f[1], p)) /\ EntityAnswer(Over(f[1], p), f[2]) = "ok"
<1>1. p[1] \in Nodes /\ p[1] \in 0..Len(op)
  BY PositionFacts, NodeFacts
<1>2. PICK a \in Above(p[1]) \ {0} : FetchOf[a] = f
  BY DEF Lineage
<1>3. a \in Nodes /\ Above(a) \subseteq Above(p[1])
  BY <1>1, <1>2, NodeFacts
<1>4. PICK b \in Above(a) \ {0} : op[b].parent = f[1] /\ Home(b) = f[2] /\ Crosses(b)
  BY <1>2, <1>3, FetchBegins
<1>5. b \in Above(p[1]) \ {0}
  BY <1>3, <1>4
<1>6. /\ f[1] \in Above(p[1]) \ {0} /\ f[1] # p[1]
      /\ Parent(<<b, p[2]>>) = Over(f[1], p)
  BY <1>4, <1>5, ParentIsOver
<1>7. Over(f[1], p) \in ObjectsOf(f[1]) /\ Below(Over(f[1], p), p)
      /\ Over(f[1], p) \in Between(Root, p)
  BY <1>6, OverFacts
<1>8. Present(Over(f[1], p))
  <2>1. Over(f[1], p) \in Positions /\ Over(f[1], p) # p
    BY <1>7 DEF Between
  <2> QED
    BY <1>7, <2>1, FetchedAbove
<1> QED
  BY <1>4, <1>5, <1>6, <1>7, <1>8 DEF Fetched

\* The object that a fetch was begun at is over any other fetched for it.
LEMMA BegunOver ==
  ASSUME op \in Operations, Unrepeated, NEW m \in Nodes, NEW o, Begun(FetchOf[m], o),
         NEW p \in Positions, Below(o, p), m \in Above(p[1]), m # p[1]
  PROVE  Below(o, Over(m, p))
<1>1. m \in Above(p[1]) \ {0}
  BY NodeFacts
<1>2. Over(m, p) \in ObjectsOf(m) /\ Over(m, p) \in Positions /\ Below(Over(m, p), p)
  BY <1>1, OverFacts DEF ObjectsOf
<1> DEFINE k == FetchOf[m][1]
<1>3. CASE k = 0
  <2>1. o = Root
    BY <1>3 DEF Begun
  <2> QED
    BY <1>2, <2>1, BelowRoot
<1>4. CASE k # 0
  <2>1. o \in ObjectsOf(k) /\ o[1] = k
    <3>1. o \in ObjectsOf(k)
      BY <1>4 DEF Begun
    <3>2. k \in Nodes
      <4>1. FetchOf[m][1] \in Above(op[m].parent) /\ op[m].parent \in 0..Len(op)
        BY FetchFacts, NodeFacts
      <4> QED
        BY <1>4, <4>1, NodeFacts
    <3> HIDE DEF k
    <3> QED
      BY <3>1, <3>2, PlainObjects
  <2>2. k < m /\ k \in Nat /\ m \in Nat
    <3>1. k \in Above(op[m].parent) /\ op[m].parent \in 0..Len(op) /\ op[m].parent < m
          /\ m \in Nat /\ op[m].parent \in Nat
      BY FetchFacts, NodeFacts
    <3> HIDE DEF k
    <3>2. k <= op[m].parent /\ k \in Nat
      BY <3>1, NodeFacts
    <3> QED
      BY <3>1, <3>2
  <2> HIDE DEF k
  <2>3. ~Below(Over(m, p), o)
    <3> SUFFICES ASSUME Below(Over(m, p), o) PROVE FALSE
      OBVIOUS
    <3>2. k \in 0..Len(op)
      BY <2>1, PositionFacts, NodeFacts DEF ObjectsOf
    <3>1. m \in Above(k)
      BY <2>1, <3>2, PlainBelow DEF Over
    <3>3. m <= k
      BY <3>1, <3>2, NodeFacts
    <3> QED
      BY <2>2, <3>3
  <2> QED
    BY <1>2, <2>1, <2>3, OneOverOther
<1> QED
  BY <1>3, <1>4

\* A fetch completes what its object leads to in it.
LEMMA CompletesFetched ==
  ASSUME op \in Operations, Unrepeated, NEW f \in Fetches, NEW o, Begun(f, o),
         NEW p \in Positions, FetchOf[p[1]] = f, Below(o, p)
  PROVE  p \in Completes(f, o) <=> Fetched(p)
<1>1. /\ p[1] \in Nodes /\ p[1] \in 0..Len(op) /\ p[1] \in Above(p[1]) \ {0}
      /\ f \in Lineage(p[1]) /\ p[2] \in Seq(Nat)
  BY PositionFacts, NodeFacts DEF Lineage
<1>2. p # o
  <2>1. o[1] = f[1]
    <3>1. f[1] \in 0..Len(op)
      BY <1>1, LineageFacts
    <3> QED
      BY <3>1, PlainPlaces DEF Begun, Root, ObjectsOf
  <2>2. f[1] < p[1] /\ f[1] \in Nat /\ p[1] \in Nat
    BY <1>1, LineageFacts, NodeFacts
  <2> QED
    BY <2>1, <2>2
<1>3. ASSUME Fetched(p) PROVE p \in Completes(f, o)
  <2>1. ASSUME NEW q \in Between(o, p) PROVE AnswerAt(q) = "ok"
    <3>1. q \in Positions /\ Below(q, p) /\ q # p
      BY <2>1 DEF Between
    <3> QED
      BY <1>3, <3>1, FetchedAbove DEF Present
  <2>2. ~SkippedIn(f, p[1])
    BY <1>3 DEF Fetched, Skipped, SkippedIn
  <2> QED
    BY <1>2, <2>1, <2>2, CompletesIs
<1>4. ASSUME p \in Completes(f, o) PROVE Fetched(p)
  <2>1. ~SkippedIn(f, p[1]) /\ \A q \in Between(o, p) : AnswerAt(q) = "ok"
    BY <1>4, CompletesIs
  <2>2. ASSUME f[1] # 0
        PROVE  /\ o \in ObjectsOf(f[1]) /\ Present(o) /\ EntityAnswer(o, f[2]) = "ok"
               /\ o \in Positions /\ o[1] = f[1] /\ o[2] \in Seq(Nat)
    <3>1. f[1] \in Nodes
      BY <1>1, <2>2, LineageFacts, NodeFacts
    <3> QED
      BY <2>2, <3>1, PositionFacts, PlainObjects DEF Begun
  <2>5. ~Skipped(p[1])
    <3> SUFFICES ASSUME NEW a \in Above(p[1]) \ {0}, op[a].skip PROVE FALSE
      BY DEF Skipped
    <3>1. FetchOf[a] # f
      BY <2>1 DEF SkippedIn
    <3>2. a \in Above(f[1])
      BY <1>1, <3>1, FetchFacts
    <3>3. f[1] # 0
      BY <3>2, NodeFacts
    <3>4. ~Skipped(f[1])
      BY <2>2, <3>3 DEF Present, Fetched
    <3> QED
      BY <3>2, <3>4 DEF Skipped
  <2>3. ASSUME NEW q \in Between(Root, p) PROVE AnswerAt(q) = "ok"
    <3>1. q \in Positions /\ Below(Root, q) /\ Below(q, p) /\ q # Root /\ q # p
      BY <2>3 DEF Between
    <3>2. CASE f[1] = 0
      BY <2>1, <2>3, <3>2 DEF Begun
    <3>3. CASE f[1] # 0
      <4>1. Below(o, q) \/ Below(q, o)
        BY <2>2, <3>1, <3>3, OneOverOther
      <4>2. CASE q = o
        BY <2>2, <3>3, <4>2 DEF Present
      <4>3. CASE q # o /\ Below(o, q)
        BY <2>1, <3>1, <4>3 DEF Between
      <4>4. CASE q # o /\ Below(q, o)
        BY <2>2, <3>1, <3>3, <4>4 DEF Present, Fetched, Between
      <4> QED
        BY <4>1, <4>2, <4>3, <4>4
    <3> QED
      BY <3>2, <3>3
  <2>4. ASSUME NEW a \in Above(p[1]) \ {0}, Crosses(a)
        PROVE  EntityAnswer(Parent(<<a, p[2]>>), Home(a)) = "ok"
    <3>1. op[a].parent # 0 /\ a \in Nodes
      BY <1>1, <2>4, NodeFacts DEF Crosses
    <3>2. /\ op[a].parent \in Above(p[1]) \ {0} /\ op[a].parent # p[1]
          /\ Parent(<<a, p[2]>>) = Over(op[a].parent, p)
      BY <3>1, ParentIsOver
    <3>3. CASE FetchOf[a] = f
      <4>1. f = <<op[a].parent, Home(a)>>
        BY <2>4, <3>1, <3>3, FetchDefined
      <4>2. o = Over(op[a].parent, p)
        BY <2>2, <3>1, <3>2, <4>1, OverFacts
      <4> QED
        BY <2>2, <3>1, <3>2, <4>1, <4>2
    <3>4. CASE FetchOf[a] # f
      <4>1. a \in Above(f[1])
        BY <1>1, <3>4, FetchFacts
      <4>2. f[1] # 0
        BY <4>1, NodeFacts
      <4>3. a \in Above(o[1]) \ {0}
        BY <2>2, <4>1, <4>2
      <4>4. /\ op[a].parent \in Above(o[1]) \ {0} /\ op[a].parent # o[1]
            /\ Parent(<<a, o[2]>>) = Over(op[a].parent, o)
        BY <2>2, <3>1, <4>2, <4>3, ParentIsOver
      <4>5. Over(op[a].parent, o) = Over(op[a].parent, p)
        BY <2>2, <4>2, <4>4, SameOver
      <4>6. EntityAnswer(Parent(<<a, o[2]>>), Home(a)) = "ok"
        BY <2>2, <2>4, <4>2, <4>3 DEF Present, Fetched
      <4> QED
        BY <3>2, <4>4, <4>5, <4>6
    <3> QED
      BY <3>3, <3>4
  <2> QED
    BY <2>3, <2>4, <2>5 DEF Fetched
<1> QED
  BY <1>3, <1>4

----------------------------------------------------------------------------
(* The merged tree and the errors.                                         *)

LEMMA SameAnswers ==
  ASSUME op' = op, answers' = answers
  PROVE  /\ \A p, q : (Below(p, q)' <=> Below(p, q)) /\ Between(p, q)' = Between(p, q)
         /\ \A p : /\ AnswerAt(p)' = AnswerAt(p) /\ Parent(p)' = Parent(p)
                   /\ (Fetched(p)' <=> Fetched(p)) /\ (Present(p)' <=> Present(p))
                   /\ Completed(p)' = Completed(p)
         /\ \A f, o : (Begun(f, o)' <=> Begun(f, o)) /\ EntityAnswer(f, o)' = EntityAnswer(f, o)
         /\ \A n : Crosses(n)' <=> Crosses(n)
         /\ EntityPlaces' = EntityPlaces /\ Faulty' = Faulty
         /\ Plannable' <=> Plannable
<1>1. \A p, q : Below(p, q)' <=> Below(p, q)
  BY SameOperation
<1>2. \A p, q : Between(p, q)' = Between(p, q)
  BY <1>1, SameOperation DEF Between
<1>3. \A p : AnswerAt(p)' = AnswerAt(p) /\ Parent(p)' = Parent(p) /\ Completed(p)' = Completed(p)
  BY SameOperation DEF AnswerAt, Completed
<1>4. \A f, o : EntityAnswer(f, o)' = EntityAnswer(f, o)
  BY <1>3 DEF EntityAnswer
<1>5. \A n : Crosses(n)' <=> Crosses(n)
  BY SameOperation DEF Crosses
<1>6. ASSUME NEW p PROVE Fetched(p)' <=> Fetched(p)
  <2>1. (\A q \in Between(Root, p) : AnswerAt(q) = "ok")'
          <=> \A q \in Between(Root, p) : AnswerAt(q) = "ok"
    BY <1>2, <1>3, SameOperation
  <2>2. (\A a \in Above(p[1]) \ {0} :
           Crosses(a) => EntityAnswer(Parent(<<a, p[2]>>), Home(a)) = "ok")'
          <=> \A a \in Above(p[1]) \ {0} :
                Crosses(a) => EntityAnswer(Parent(<<a, p[2]>>), Home(a)) = "ok"
    <3>1. \A a : /\ Parent(<<a, p[2]>>)' = Parent(<<a, p[2]>>) /\ Home(a)' = Home(a)
                 /\ (Crosses(a)' <=> Crosses(a))
      BY <1>3, <1>5, SameOperation
    <3>2. \A a : EntityAnswer(Parent(<<a, p[2]>>), Home(a))' = EntityAnswer(Parent(<<a, p[2]>>), Home(a))
      BY <1>3, <3>1 DEF EntityAnswer, AnswerAt
    <3> QED
      BY <3>1, <3>2, SameOperation
  <2> QED
    BY <2>1, <2>2, SameOperation DEF Fetched
<1>7. \A p : Present(p)' <=> Present(p)
  BY <1>3, <1>6 DEF Present
<1>8. \A f, o : Begun(f, o)' <=> Begun(f, o)
  BY <1>4, <1>7, SameOperation DEF Begun
<1>9. EntityPlaces' = EntityPlaces
  BY SameOperation DEF EntityPlaces
<1>10. Faulty' = Faulty
  <2>1. FieldPlaces' = FieldPlaces
    BY SameOperation DEF FieldPlaces, IsKey
  <2>2. FaultyPlaces' = FaultyPlaces
    BY <1>9, <2>1 DEF FaultyPlaces
  <2>3. \A x : FaultsAt(x)' = FaultsAt(x)
    BY SameOperation DEF FaultsAt
  <2> QED
    BY <2>2, <2>3 DEF Faulty
<1>11. Plannable' <=> Plannable
  BY SameOperation DEF Plannable, Injected, Selected, KeysOf, Crosses
<1> QED
  BY <1>1, <1>2, <1>3, <1>4, <1>5, <1>6, <1>7, <1>8, <1>9, <1>10, <1>11

LEMMA MergeLater ==
  ASSUME op' = op, answers' = answers, answers \in Faulty,
         phase' # "plan",
         phase' = "run" => Plannable /\ Rest(todo', data', errors'),
         Fresh(todo', data'), InTime(todo', data'), Merged(data', errors')
  PROVE  MergeInv'
<1>1. InTime(todo, data)' <=> InTime(todo', data')
  <2>1. \A i : /\ Begun(todo[i].fetch, todo[i].at)' <=> Begun(todo'[i].fetch, todo'[i].at)
               /\ Begun(FetchOf[todo[i].fetch[1]], todo[i].at)' <=> Begun(FetchOf[todo'[i].fetch[1]], todo'[i].at)
    BY SameAnswers, SameOperation DEF Begun
  <2>2. \A i, p : /\ Fetched(p)' <=> Fetched(p)
                  /\ Below(todo[i].at, p)' <=> Below(todo'[i].at, p)
    BY SameAnswers, SameOperation
  <2> QED
    BY <2>1, <2>2, SameOperation DEF InTime, Due
<1>2. Merged(data, errors)' <=> Merged(data', errors')
  <2>1. \A x : Present(<<x[1], x[2]>>)' <=> Present(<<x[1], x[2]>>)
    BY SameAnswers
  <2> QED
    BY <2>1, SameAnswers DEF Merged
<1>3. Rest(todo, data, errors)' <=> Rest(todo', data', errors')
  <2>1. \A i, p : MayBring(todo[i], p)' <=> MayBring(todo'[i], p)
    BY SameOperation DEF MayBring
  <2>2. \A i, f, p : MayAsk(todo[i], f, p)' <=> MayAsk(todo'[i], f, p)
    BY SameOperation DEF MayAsk
  <2>3. \A x : Present(<<x[1], x[2]>>)' <=> Present(<<x[1], x[2]>>)
    BY SameAnswers
  <2>4. Positions' = Positions /\ EntityPlaces' = EntityPlaces
    BY SameAnswers, SameOperation
  <2>5. \A p : (Fetched(p)' <=> Fetched(p)) /\ AnswerAt(p)' = AnswerAt(p)
    BY SameAnswers
  <2> QED
    BY <2>1, <2>2, <2>3, <2>4, <2>5 DEF Rest
<1>4. Fresh(todo, data)' <=> Fresh(todo', data')
  <2>1. \A i, p : MayBring(todo[i], p)' <=> MayBring(todo'[i], p)
    BY SameOperation DEF MayBring
  <2> QED
    BY <2>1, SameOperation DEF Fresh
<1> QED
  BY <1>1, <1>2, <1>3, <1>4, SameAnswers DEF MergeInv

LEMMA JoinedHas ==
  ASSUME NEW C, NEW t \in Seq(C), t # << >>, NEW new \in Seq(C)
  PROVE  /\ \A i \in DOMAIN new : \E k \in DOMAIN (new \o Tail(t)) : (new \o Tail(t))[k] = new[i]
         /\ \A j \in DOMAIN t : j # 1 => \E k \in DOMAIN (new \o Tail(t)) : (new \o Tail(t))[k] = t[j]
         /\ Head(t) = t[1] /\ 1 \in DOMAIN t
<1> DEFINE u == new \o Tail(t)
<1>1. Tail(t) \in Seq(C) /\ Len(Tail(t)) = Len(t) - 1 /\ Len(t) \in Nat /\ Len(t) # 0
      /\ \A j \in 1..(Len(t) - 1) : Tail(t)[j] = t[j + 1]
  OBVIOUS
<1>2. Len(new) \in Nat /\ u \in Seq(C) /\ Len(u) = Len(new) + Len(t) - 1
  BY <1>1
<1>3. ASSUME NEW i \in DOMAIN new PROVE i \in DOMAIN u /\ u[i] = new[i]
  BY <1>1, <1>2
<1>4. ASSUME NEW j \in DOMAIN t, j # 1 PROVE \E k \in DOMAIN u : u[k] = t[j]
  <2> DEFINE k == Len(new) + j - 1
  <2>1. j - 1 \in 1..(Len(t) - 1) /\ k \in 1..Len(u) /\ k > Len(new) /\ k - Len(new) = j - 1
    BY <1>1, <1>2, <1>4
  <2>2. u[k] = Tail(t)[j - 1]
    BY <1>1, <1>2, <2>1
  <2>3. u[k] = t[j]
    BY <1>1, <2>1, <2>2
  <2> QED
    BY <1>2, <2>1, <2>3
<1> QED
  BY <1>1, <1>3, <1>4

\* Calls that bring what one call may bring, less what is merged, may take its place.
LEMMA RestReplaced ==
  ASSUME NEW C, NEW t \in Seq(C), t # << >>, NEW new \in Seq(C),
         NEW d, NEW e, NEW dd, NEW ee, DOMAIN d \subseteq DOMAIN dd, e \subseteq ee,
         Rest(t, d, e),
         \A p \in Positions : Fetched(p) /\ MayBring(Head(t), p) =>
           p \in DOMAIN dd \/ \E i \in DOMAIN new : MayBring(new[i], p),
         \A x \in EntityPlaces :
           AnswerAt(x) = "error" /\ Present(<<x[1], x[2]>>)
             /\ MayAsk(Head(t), <<x[1], x[3]>>, <<x[1], x[2]>>) =>
                x \in ee \/ \E i \in DOMAIN new : MayAsk(new[i], <<x[1], x[3]>>, <<x[1], x[2]>>)
  PROVE  Rest(new \o Tail(t), dd, ee)
<1> DEFINE u == new \o Tail(t)
<1>1. /\ \A i \in DOMAIN new : \E k \in DOMAIN u : u[k] = new[i]
      /\ \A j \in DOMAIN t : j # 1 => \E k \in DOMAIN u : u[k] = t[j]
      /\ Head(t) = t[1]
  <2> HIDE DEF u
  <2>1. t \in Seq(C) /\ t # << >> /\ new \in Seq(C)
    OBVIOUS
  <2>2. /\ \A i \in DOMAIN new : \E k \in DOMAIN (new \o Tail(t)) : (new \o Tail(t))[k] = new[i]
        /\ \A j \in DOMAIN t : j # 1 => \E k \in DOMAIN (new \o Tail(t)) : (new \o Tail(t))[k] = t[j]
        /\ Head(t) = t[1] /\ 1 \in DOMAIN t
    BY <2>1, JoinedHas
  <2> QED
    BY <2>2 DEF u
<1> HIDE DEF u
<1>2. ASSUME NEW p \in Positions, Fetched(p), p \notin DOMAIN dd
      PROVE  \E k \in DOMAIN u : MayBring(u[k], p)
  <2>1. PICK j \in DOMAIN t : MayBring(t[j], p)
    BY <1>2 DEF Rest
  <2> QED
    BY <1>1, <1>2, <2>1
<1>3. ASSUME NEW x \in EntityPlaces, AnswerAt(x) = "error", Present(<<x[1], x[2]>>), x \notin ee
      PROVE  \E k \in DOMAIN u : MayAsk(u[k], <<x[1], x[3]>>, <<x[1], x[2]>>)
  <2>1. PICK j \in DOMAIN t : MayAsk(t[j], <<x[1], x[3]>>, <<x[1], x[2]>>)
    BY <1>3 DEF Rest
  <2> QED
    BY <1>1, <1>3, <2>1
<1> QED
  BY <1>2, <1>3 DEF Rest, u

LEMMA InTimeReplaced ==
  ASSUME NEW C, NEW t \in Seq(C), t # << >>, NEW new \in Seq(C),
         NEW d, NEW dd, DOMAIN d \subseteq DOMAIN dd,
         InTime(t, d), \A i \in DOMAIN new : Due(new[i], dd)
  PROVE  InTime(new \o Tail(t), dd)
<1>1. \A c : Due(c, d) => Due(c, dd)
  BY DEF Due
<1> DEFINE u == new \o Tail(t)
<1> SUFFICES ASSUME NEW i \in DOMAIN u PROVE Due(u[i], dd)
  BY DEF InTime
<1>2. \/ i \in DOMAIN new /\ u[i] = new[i]
      \/ \E j \in DOMAIN t : u[i] = t[j]
  BY Joined
<1> HIDE DEF u
<1> QED
  BY <1>1, <1>2 DEF InTime

\* Calls that share out what one call may bring, less what is merged, may take
\* its place.
LEMMA FreshReplaced ==
  ASSUME NEW C, NEW t \in Seq(C), t # << >>, NEW new \in Seq(C), NEW d, NEW dd,
         Fresh(t, d),
         \A p \in Positions : \A i \in DOMAIN new : MayBring(new[i], p) => MayBring(Head(t), p),
         \A p \in Positions : \A i, j \in DOMAIN new :
           MayBring(new[i], p) /\ MayBring(new[j], p) => i = j,
         \A p \in Positions : p \in DOMAIN dd =>
           \/ p \in DOMAIN d
           \/ MayBring(Head(t), p) /\ \A i \in DOMAIN new : ~MayBring(new[i], p)
  PROVE  Fresh(new \o Tail(t), dd)
<1> DEFINE u == new \o Tail(t)
<1>1. \A i \in DOMAIN u : \/ i \in DOMAIN new /\ u[i] = new[i]
                         \/ \E a \in DOMAIN t : u[i] = t[a] /\ a # 1 /\ a = i - Len(new) + 1
  BY Joined
<1>2. Head(t) = t[1] /\ 1 \in DOMAIN t /\ Len(new) \in Nat /\ DOMAIN u \subseteq Nat
  <2>1. Tail(t) \in Seq(C) /\ u \in Seq(C)
    OBVIOUS
  <2> HIDE DEF u
  <2> QED
    BY <2>1
<1>3. \A i, j : \A a \in DOMAIN t :
        i \in DOMAIN u /\ j \in DOMAIN u /\ a = i - Len(new) + 1 /\ a = j - Len(new) + 1 => i = j
  <2> HIDE DEF u
  <2> QED
    BY <1>2
<1> HIDE DEF u
<1>4. ASSUME NEW p \in Positions, NEW i \in DOMAIN u, NEW j \in DOMAIN u,
             MayBring(u[i], p), MayBring(u[j], p)
      PROVE  i = j
  <2>1. \A a, b \in DOMAIN t : MayBring(t[a], p) /\ MayBring(t[b], p) => a = b
    BY DEF Fresh
  <2>2. CASE (i \in DOMAIN new /\ u[i] = new[i]) /\ (j \in DOMAIN new /\ u[j] = new[j])
    BY <1>4, <2>2
  <2>3. ASSUME NEW a \in DOMAIN t, a # 1, MayBring(t[a], p) PROVE ~MayBring(Head(t), p)
    BY <1>2, <2>1, <2>3
  <2>4. CASE i \in DOMAIN new /\ u[i] = new[i] /\ ~(j \in DOMAIN new /\ u[j] = new[j])
    BY <1>1, <1>4, <2>3, <2>4
  <2>5. CASE j \in DOMAIN new /\ u[j] = new[j] /\ ~(i \in DOMAIN new /\ u[i] = new[i])
    BY <1>1, <1>4, <2>3, <2>5
  <2>6. CASE ~(i \in DOMAIN new /\ u[i] = new[i]) /\ ~(j \in DOMAIN new /\ u[j] = new[j])
    <3>1. PICK a \in DOMAIN t : u[i] = t[a] /\ a = i - Len(new) + 1
      BY <1>1, <2>6
    <3>2. PICK b \in DOMAIN t : u[j] = t[b] /\ b = j - Len(new) + 1
      BY <1>1, <2>6
    <3>3. a = b
      BY <1>4, <2>1, <3>1, <3>2
    <3> QED
      BY <1>3, <3>1, <3>2, <3>3
  <2> QED
    BY <2>2, <2>4, <2>5, <2>6
<1>5. ASSUME NEW p \in Positions, p \in DOMAIN dd, NEW i \in DOMAIN u, MayBring(u[i], p)
      PROVE  FALSE
  <2>1. /\ \A a, b \in DOMAIN t : MayBring(t[a], p) /\ MayBring(t[b], p) => a = b
        /\ p \in DOMAIN d => \A a \in DOMAIN t : ~MayBring(t[a], p)
    BY DEF Fresh
  <2>2. CASE i \in DOMAIN new /\ u[i] = new[i]
    BY <1>2, <1>5, <2>1, <2>2
  <2>3. CASE ~(i \in DOMAIN new /\ u[i] = new[i])
    <3>1. PICK a \in DOMAIN t : u[i] = t[a] /\ a # 1
      BY <1>1, <2>3
    <3> QED
      BY <1>2, <1>5, <2>1, <3>1
  <2> QED
    BY <2>2, <2>3
<1> QED
  BY <1>4, <1>5 DEF Fresh, u

LEMMA EntityPlaceFacts ==
  ASSUME op \in Operations, Unrepeated, NEW x \in EntityPlaces
  PROVE  /\ x[1] \in Nodes /\ x[3] \in Across(x[1]) /\ x = <<x[1], x[2], x[3]>>
         /\ <<x[1], x[2]>> \in ObjectsOf(x[1]) /\ <<x[1], x[2]>> \in Positions
         /\ <<x[1], x[3]>> \in EntityFetches
<1>1. PICK m \in Nodes : \E o \in ObjectsOf(m), s \in Across(m) : x = <<o[1], o[2], s>>
  BY DEF EntityPlaces
<1>2. PICK o \in ObjectsOf(m), s \in Across(m) : x = <<o[1], o[2], s>>
  BY <1>1
<1>3. o \in Positions /\ o[1] = m /\ o = <<o[1], o[2]>>
  BY PositionFacts, PlainObjects
<1>4. x[1] = m /\ x[2] = o[2] /\ x[3] = s
  BY <1>2, <1>3
<1>5. <<x[1], x[2]>> = o
  BY <1>3, <1>4
<1> QED
  BY <1>2, <1>3, <1>4, <1>5, EntityFetchFacts

LEMMA RootLeads ==
  ASSUME op \in Operations, NEW n \in Nodes
  PROVE  \E c \in Kids(0) : <<0, Home(c)>> \in Lineage(n)
<1> DEFINE S == Above(n) \ {0}
<1>1. n \in 0..Len(op) /\ n \in S
  BY NodeFacts
<1>2. PICK c \in S : \A j \in S : c <= j
  <2>1. S \in SUBSET Nat
    BY <1>1, NodeFacts
  <2> HIDE DEF S
  <2> QED
    BY <1>1, <2>1, FirstOf
<1>3. c \in Nodes /\ op[c].parent \in Above(n) /\ op[c].parent < c /\ op[c].parent \in Nat /\ c \in Nat
  BY <1>1, <1>2, NodeFacts
<1>4. op[c].parent = 0
  <2>1. ~(c <= op[c].parent)
    BY <1>3
  <2> QED
    BY <1>2, <1>3, <2>1
<1>5. FetchOf[c] = <<0, Home(c)>>
  BY <1>3, <1>4, FetchDefined
<1> QED
  BY <1>2, <1>3, <1>4, <1>5 DEF Lineage, Kids

LEMMA MergePlan ==
  ASSUME CallsInv, MergeInv, Unrepeated, Plan
  PROVE  MergeInv'
<1>1. /\ op \in Operations /\ op' = op /\ answers' = answers /\ answers \in Faulty
      /\ phase' = "run" /\ Plannable /\ data' = << >> /\ errors' = {}
  BY DEF Plan, CallsInv, CallsTypeOK, MergeInv
<1> DEFINE S == {<<0, Home(n)>> : n \in Kids(0)}
<1>2. S \in SUBSET Fetches
  BY DEF Fetches, Kids
<1>3. RootFetches = Sorted(S, Precedes)
  BY DEF RootFetches
<1>4. /\ \A f \in S : f[1] = 0
      /\ \A c \in Kids(0) : <<0, Home(c)>> \in S
  OBVIOUS
<1> HIDE DEF S
<1>5. /\ RootFetches \in Seq(S)
      /\ \A f \in S : \E i \in DOMAIN RootFetches : RootFetches[i] = f
      /\ \A i, j \in DOMAIN RootFetches : RootFetches[i] = RootFetches[j] => i = j
  BY <1>1, <1>2, <1>3, SortedFetches
<1>6. \A i \in DOMAIN RootFetches : RootFetches[i] \in S
  BY <1>5
<1> DEFINE new == [i \in DOMAIN RootFetches |-> Call("select", RootFetches[i], Root)]
<1>7. todo' = new
  BY DEF Plan
<1>8. /\ DOMAIN new = DOMAIN RootFetches
      /\ \A i \in DOMAIN new : /\ new[i].do = "select" /\ new[i].fetch = RootFetches[i]
                               /\ new[i].at = Root
  BY DEF Call
<1> HIDE DEF new
<1>13. ASSUME NEW p \in Positions, NEW i \in DOMAIN new, NEW j \in DOMAIN new,
              MayBring(new[i], p), MayBring(new[j], p)
       PROVE  i = j
  <2> DEFINE g == RootFetches[i]
             h == RootFetches[j]
  <2>1. g[1] = 0 /\ h[1] = 0 /\ g \in Lineage(p[1]) /\ h \in Lineage(p[1])
    BY <1>4, <1>6, <1>8, <1>13 DEF MayBring
  <2>2. p[1] \in 0..Len(op) /\ Lineage(0) = {}
    BY <1>1, PositionFacts, NodeFacts DEF Lineage
  <2> HIDE DEF g, h
  <2>3. g = h \/ g \in Lineage(h[1]) \/ h \in Lineage(g[1])
    BY <1>1, <2>1, <2>2, LineageFacts
  <2>4. g = h
    BY <2>1, <2>2, <2>3
  <2> QED
    BY <1>5, <1>8, <2>4 DEF g, h
<1>14. Fresh(new, << >>)
  BY <1>13 DEF Fresh
<1>9. InTime(new, << >>)
  BY <1>4, <1>6, <1>8 DEF InTime, Due, Begun
<1>10. Merged(<< >>, {})
  BY DEF Merged
<1>11. ASSUME NEW n \in Nodes PROVE \E i \in DOMAIN new : new[i].at = Root /\ new[i].fetch \in Lineage(n)
  <2>1. PICK c \in Kids(0) : <<0, Home(c)>> \in Lineage(n)
    BY <1>1, RootLeads
  <2>2. PICK i \in DOMAIN RootFetches : RootFetches[i] = <<0, Home(c)>>
    BY <1>4, <1>5
  <2> QED
    BY <1>8, <2>1, <2>2
<1>12. Rest(new, << >>, {})
  <2>1. ASSUME NEW p \in Positions PROVE \E i \in DOMAIN new : MayBring(new[i], p)
    <3>1. p[1] \in Nodes /\ Below(Root, p)
      BY <1>1, PositionFacts, BelowRoot
    <3> QED
      BY <1>11, <3>1 DEF MayBring
  <2>2. ASSUME NEW x \in EntityPlaces
        PROVE  \E i \in DOMAIN new : MayAsk(new[i], <<x[1], x[3]>>, <<x[1], x[2]>>)
    <3>1. x[1] \in Nodes /\ Below(Root, <<x[1], x[2]>>)
      BY <1>1, EntityPlaceFacts, BelowRoot
    <3> QED
      BY <1>11, <3>1 DEF MayAsk
  <2> QED
    BY <2>1, <2>2 DEF Rest
<1> QED
  BY <1>1, <1>7, <1>9, <1>10, <1>12, <1>14, MergeLater

LEMMA MergeSelect ==
  ASSUME CallsInv, MergeInv, Unrepeated, DOMAIN data \subseteq Positions, Select
  PROVE  MergeInv'
<1> DEFINE f == Head(todo).fetch
           o == Head(todo).at
           new == FlattensOf(f, o)
           got == Completes(f, o)
           fails == {p \in got : AnswerAt(p) = "error"}
           kept == {p \in DOMAIN data : ~Lost(got, p)}
<1>0. /\ op \in Operations /\ op' = op /\ answers' = answers /\ answers \in Faulty /\ phase' = phase
      /\ todo # << >> /\ Head(todo).do = "select" /\ todo' = new \o Tail(todo)
      /\ data' = [p \in got \cup kept |-> IF p \in got THEN Completed(p) ELSE data[p]]
      /\ errors' = errors \cup fails
  BY DEF Select, CallsInv, CallsTypeOK, MergeInv
<1>2. /\ todo \in Seq(Calls) /\ f \in Fetches /\ Head(todo) = todo[1] /\ 1 \in DOMAIN todo
      /\ phase # "plan" /\ f[1] \in 0..Len(op) /\ o[2] \in Seq(Nat)
  <2>1. todo \in Seq(Calls) /\ Head(todo) \in Calls /\ phase # "plan" /\ o[2] \in Seq(Nat)
    BY <1>0, HeadFacts DEF CallsInv
  <2>2. f \in Fetches
    BY <2>1 DEF Calls
  <2> HIDE DEF f
  <2> QED
    BY <1>0, <2>1, <2>2, FirstSeenType
<1>3. InTime(todo, data) /\ Merged(data, errors) /\ Fresh(todo, data)
  BY DEF MergeInv
<1>4. Begun(f, o)
  BY <1>0, <1>2, <1>3 DEF InTime, Due
<1>13. \A p : MayBring(Head(todo), p) <=> Below(o, p) /\ f \in Lineage(p[1])
  BY DEF MayBring
<1> HIDE DEF f, o
<1>5. \A p \in got : p \in Positions /\ FetchOf[p[1]] = f /\ Below(o, p)
  <2>1. got \subseteq Positions
    BY DEF Completes
  <2> QED
    BY <1>0, <2>1, CompletesIs
<1>6. \A p \in Positions : FetchOf[p[1]] = f /\ Below(o, p) => (p \in got <=> Fetched(p))
  BY <1>0, <1>2, <1>4, CompletesFetched
<1> HIDE DEF got
<1>14. ASSUME NEW p \in DOMAIN data, Lost(got, p) PROVE FALSE
  <2>1. PICK q \in got : Below(q, p)
    BY <1>14 DEF Lost
  <2>2. /\ p \in Positions /\ p[1] \in 0..Len(op) /\ p[2] \in Seq(Nat)
        /\ q \in Positions /\ q[2] \in Seq(Nat) /\ q[1] \in Nodes /\ q[1] # 0
    BY <1>0, <1>5, PositionFacts, NodeFacts
  <2>3. Below(o, p)
    BY <1>0, <1>2, <1>5, <2>1, <2>2, BelowChain
  <2>4. q[1] \in Above(p[1])
    BY <1>0, <2>1, <2>2, PlainBelow
  <2>5. MayBring(Head(todo), p)
    BY <1>5, <1>13, <2>2, <2>3, <2>4 DEF Lineage
  <2> QED
    BY <1>2, <1>3, <2>2, <2>5 DEF Fresh
<1>15. kept = DOMAIN data
  BY <1>14
<1> HIDE DEF kept
<1>1. /\ op \in Operations /\ op' = op /\ answers' = answers /\ answers \in Faulty /\ phase' = phase
      /\ todo # << >> /\ Head(todo).do = "select" /\ todo' = new \o Tail(todo)
      /\ data' = [p \in got \cup DOMAIN data |-> IF p \in got THEN Completed(p) ELSE data[p]]
      /\ errors' = errors \cup fails
  BY <1>0, <1>15
<1>7. Merged(data', errors')
  <2>1. ASSUME NEW p \in DOMAIN data'
        PROVE  Fetched(p) /\ data'[p] = Completed(p) /\ (AnswerAt(p) = "error" => p \in errors')
    <3>1. CASE p \in got
      BY <1>1, <1>5, <1>6, <3>1
    <3>2. CASE p \notin got
      BY <1>1, <1>3, <3>2 DEF Merged
    <3> QED
      BY <3>1, <3>2
  <2>2. ASSUME NEW x \in errors'
        PROVE  \/ x \in DOMAIN data' /\ AnswerAt(x) = "error"
               \/ x \in EntityPlaces /\ AnswerAt(x) = "error" /\ Present(<<x[1], x[2]>>)
    <3>1. CASE x \in errors
      BY <1>1, <1>3, <3>1 DEF Merged
    <3>2. CASE x \in fails
      BY <1>1, <3>2
    <3> QED
      BY <1>1, <3>1, <3>2
  <2> QED
    BY <2>1, <2>2 DEF Merged
<1> HIDE DEF fails
<1>8. /\ \A i \in DOMAIN new : /\ new[i].do = "flatten" /\ new[i].fetch = Flattens(f)[i]
                               /\ new[i].at = o /\ FetchOf[Flattens(f)[i][1]] = f
      /\ DOMAIN new = DOMAIN Flattens(f)
  <2>1. \A i \in DOMAIN Flattens(f) : /\ Call("flatten", Flattens(f)[i], o).do = "flatten"
                                      /\ Call("flatten", Flattens(f)[i], o).fetch = Flattens(f)[i]
                                      /\ Call("flatten", Flattens(f)[i], o).at = o
    BY DEF Call
  <2>2. \A i \in DOMAIN Flattens(f) : FetchOf[Flattens(f)[i][1]] = f
    BY <1>1, <1>2, FlattensAre
  <2>3. DOMAIN new = DOMAIN Flattens(f)
    BY DEF FlattensOf
  <2>4. \A i \in DOMAIN new : new[i] = Call("flatten", Flattens(f)[i], o)
    BY DEF FlattensOf
  <2> HIDE DEF new
  <2> QED
    BY <2>1, <2>2, <2>3, <2>4
<1>9. \A u \in Nodes : \A s \in Across(u) : FetchOf[u] = f =>
        \E i \in DOMAIN new : new[i].fetch = <<u, s>> /\ new[i].do = "flatten" /\ new[i].at = o
  <2> HIDE DEF new
  <2> SUFFICES ASSUME NEW u \in Nodes, NEW s \in Across(u), FetchOf[u] = f
               PROVE  \E i \in DOMAIN new :
                        new[i].fetch = <<u, s>> /\ new[i].do = "flatten" /\ new[i].at = o
    OBVIOUS
  <2>1. PICK i \in DOMAIN Flattens(f) : Flattens(f)[i] = <<u, s>>
    BY <1>1, <1>2, FlattensAre
  <2> QED
    BY <1>8, <2>1
<1>10. new \in Seq(Calls)
  <2>1. \A i \in DOMAIN Flattens(f) : Flattens(f)[i] \in Fetches
    BY <1>1, <1>2, FlattensAre, EntityFetchFacts
  <2>2. Flattens(f) \in Seq(EntityFetches) /\ o \in {Root} \cup Positions
    <3>1. Head(todo) \in Calls
      BY <1>1, HeadFacts DEF CallsInv
    <3> QED
      BY <1>1, <1>2, <3>1, FlattensFacts DEF Calls, o
  <2>3. \A i \in DOMAIN new : new[i] \in Calls
    BY <2>1, <2>2 DEF FlattensOf, Call, Calls
  <2>4. DOMAIN new = 1..Len(Flattens(f)) /\ Len(Flattens(f)) \in Nat
    BY <1>8, <2>2
  <2>5. new = [i \in 1..Len(Flattens(f)) |-> new[i]]
    BY <2>4 DEF FlattensOf
  <2> QED
    BY <2>3, <2>4, <2>5
<1> HIDE DEF new
<1>11. InTime(todo', data')
  <2>1. \A i \in DOMAIN new : Due(new[i], data')
    BY <1>1, <1>4, <1>6, <1>8 DEF Due
  <2>2. DOMAIN data \subseteq DOMAIN data'
    BY <1>1
  <2>3. InTime(new \o Tail(todo), data')
    BY <1>1, <1>2, <1>3, <1>10, <2>1, <2>2, InTimeReplaced
  <2> QED
    BY <1>1, <2>3
<1>16. Fresh(todo', data')
  <2>1. /\ \A i, j \in DOMAIN Flattens(f) : Flattens(f)[i] = Flattens(f)[j] => i = j
        /\ \A i \in DOMAIN Flattens(f) : f \in Lineage(Flattens(f)[i][1])
        /\ \A i, j \in DOMAIN Flattens(f) : Flattens(f)[j] \notin Lineage(Flattens(f)[i][1])
    BY <1>1, <1>2, FlattensFacts
  <2>2. ASSUME NEW p \in Positions, NEW i \in DOMAIN new, MayBring(new[i], p)
        PROVE  /\ MayBring(Head(todo), p) /\ FetchOf[p[1]] # f
               /\ Flattens(f)[i] \in Lineage(p[1]) /\ p[1] \in 0..Len(op)
    <3> DEFINE g == Flattens(f)[i]
    <3>1. /\ p[1] \in Nodes /\ p[1] \in 0..Len(op) /\ Below(o, p) /\ g \in Lineage(p[1])
          /\ f \in Lineage(g[1])
      BY <1>1, <1>8, <2>1, <2>2, PositionFacts, NodeFacts DEF MayBring
    <3> HIDE DEF g
    <3>2. g[1] \in 0..Len(op) /\ Lineage(g[1]) \subseteq Lineage(p[1])
      BY <1>1, <3>1, LineageFacts
    <3>3. f[1] < g[1] /\ f[1] \in Nat /\ g[1] \in Nat
      BY <1>1, <3>1, <3>2, LineageFacts
    <3>4. ASSUME FetchOf[p[1]] = f PROVE FALSE
      <4>1. PICK a \in Above(p[1]) \ {0} : g = FetchOf[a]
        BY <3>1 DEF Lineage
      <4>2. g = f \/ a \in Above(f[1]) \ {0}
        BY <1>1, <3>1, <3>4, <4>1, FetchFacts
      <4>3. g = f \/ g \in Lineage(f[1])
        BY <4>1, <4>2 DEF Lineage
      <4>4. g \in Lineage(f[1]) => g[1] < f[1]
        BY <1>1, <1>2, LineageFacts
      <4> QED
        BY <3>3, <4>3, <4>4
    <3> QED
      BY <1>13, <3>1, <3>2, <3>4 DEF g
  <2>3. ASSUME NEW p \in Positions, NEW i \in DOMAIN new, NEW j \in DOMAIN new,
               MayBring(new[i], p), MayBring(new[j], p)
        PROVE  i = j
    <3>1. /\ p[1] \in 0..Len(op)
          /\ Flattens(f)[i] \in Lineage(p[1]) /\ Flattens(f)[j] \in Lineage(p[1])
      BY <2>2, <2>3
    <3>2. /\ Flattens(f)[i] \notin Lineage(Flattens(f)[j][1])
          /\ Flattens(f)[j] \notin Lineage(Flattens(f)[i][1])
      BY <1>8, <2>1
    <3>3. Flattens(f)[i] = Flattens(f)[j]
      BY <1>1, <3>1, <3>2, LineageFacts
    <3> QED
      BY <1>8, <2>1, <3>3
  <2>4. ASSUME NEW p \in Positions, p \in DOMAIN data', p \notin DOMAIN data
        PROVE  MayBring(Head(todo), p) /\ \A i \in DOMAIN new : ~MayBring(new[i], p)
    <3>1. FetchOf[p[1]] = f /\ Below(o, p)
      BY <1>1, <1>5, <2>4
    <3>2. p[1] \in Above(p[1]) \ {0}
      BY <1>1, PositionFacts, NodeFacts
    <3> QED
      BY <1>13, <2>2, <3>1, <3>2 DEF Lineage
  <2>5. todo \in Seq(Calls) /\ todo # << >> /\ new \in Seq(Calls) /\ Fresh(todo, data)
    BY <1>1, <1>2, <1>3, <1>10
  <2>6. \A p \in Positions : \A i \in DOMAIN new : MayBring(new[i], p) => MayBring(Head(todo), p)
    BY <2>2
  <2>7. \A p \in Positions : \A i, j \in DOMAIN new :
          MayBring(new[i], p) /\ MayBring(new[j], p) => i = j
    BY <2>3
  <2>8. \A p \in Positions : p \in DOMAIN data' =>
          \/ p \in DOMAIN data
          \/ MayBring(Head(todo), p) /\ \A i \in DOMAIN new : ~MayBring(new[i], p)
    BY <2>4
  <2>9. Fresh(new \o Tail(todo), data')
    BY <2>5, <2>6, <2>7, <2>8, FreshReplaced
  <2> QED
    BY <1>1, <2>9
<1>12. ASSUME phase = "run" PROVE Plannable /\ Rest(todo', data', errors')
  <2>1. Plannable /\ Rest(todo, data, errors)
    BY <1>12 DEF MergeInv
  <2>2. ASSUME NEW n \in Nodes, f \in Lineage(n), FetchOf[n] # f
        PROVE  \E i \in DOMAIN new : new[i].at = o /\ new[i].fetch \in Lineage(n)
    <3>1. PICK u \in Nodes : \E s \in Across(u) : FetchOf[u] = f /\ <<u, s>> \in Lineage(n)
      BY <1>1, <2>2, NextFetch
    <3>2. PICK s \in Across(u) : FetchOf[u] = f /\ <<u, s>> \in Lineage(n)
      BY <3>1
    <3> QED
      BY <1>9, <3>2
  <2>3. ASSUME NEW p \in Positions, Fetched(p), MayBring(Head(todo), p), p \notin DOMAIN data'
        PROVE  \E i \in DOMAIN new : MayBring(new[i], p)
    <3>1. Below(o, p) /\ f \in Lineage(p[1]) /\ p[1] \in Nodes
      BY <1>1, <2>3, PositionFacts DEF MayBring, f, o
    <3>2. FetchOf[p[1]] # f
      BY <1>1, <1>6, <2>3, <3>1
    <3> QED
      BY <2>2, <3>1, <3>2 DEF MayBring
  <2>4. ASSUME NEW x \in EntityPlaces, MayAsk(Head(todo), <<x[1], x[3]>>, <<x[1], x[2]>>)
        PROVE  \E i \in DOMAIN new : MayAsk(new[i], <<x[1], x[3]>>, <<x[1], x[2]>>)
    <3>1. /\ x[1] \in Nodes /\ x[3] \in Across(x[1])
          /\ Below(o, <<x[1], x[2]>>) /\ f \in Lineage(x[1])
      BY <1>1, <2>4, EntityPlaceFacts DEF MayAsk, f, o
    <3>2. CASE FetchOf[x[1]] = f
      BY <1>9, <3>1, <3>2 DEF MayAsk
    <3>3. CASE FetchOf[x[1]] # f
      BY <2>2, <3>1, <3>3 DEF MayAsk
    <3> QED
      BY <3>2, <3>3
  <2>5. DOMAIN data \subseteq DOMAIN data' /\ errors \subseteq errors'
    BY <1>1
  <2>6. Rest(new \o Tail(todo), data', errors')
    BY <1>1, <1>2, <1>10, <2>1, <2>3, <2>4, <2>5, RestReplaced
  <2> QED
    BY <1>1, <2>1, <2>6
<1> QED
  BY <1>1, <1>2, <1>7, <1>11, <1>12, <1>16, MergeLater

\* The objects of a flatten's path are those that its fetch led to.
LEMMA AtPathIs ==
  ASSUME op \in Operations, Unrepeated, Merged(data, errors), NEW f \in EntityFetches, NEW o,
         \A p \in Positions :
           Fetched(p) /\ FetchOf[p[1]] = FetchOf[f[1]] /\ Below(o, p) => p \in DOMAIN data
  PROVE  \A p : p \in AtPath(f[1], o) <=> p \in ObjectsOf(f[1]) /\ Below(o, p) /\ Present(p)
<1>1. ASSUME NEW p \in AtPath(f[1], o)
      PROVE  p \in ObjectsOf(f[1]) /\ Below(o, p) /\ Present(p)
  <2>1. p \in ObjectsOf(f[1]) /\ Below(o, p) /\ p \in DOMAIN data /\ data[p] = "value"
    BY DEF AtPath
  <2>2. Fetched(p) /\ data[p] = Completed(p)
    BY <2>1 DEF Merged
  <2> QED
    BY <2>1, <2>2 DEF Completed, Present
<1>2. ASSUME NEW p \in ObjectsOf(f[1]), Below(o, p), Present(p)
      PROVE  p \in AtPath(f[1], o)
  <2>1. p \in Positions /\ p[1] = f[1] /\ Fetched(p) /\ AnswerAt(p) = "ok"
    BY <1>2, EntityFetchFacts, PlainObjects DEF Present
  <2>2. p \in DOMAIN data
    BY <1>2, <2>1
  <2>3. data[p] = "value"
    BY <2>1, <2>2 DEF Merged, Completed
  <2> QED
    BY <1>2, <2>2, <2>3 DEF AtPath
<1> QED
  BY <1>1, <1>2

LEMMA MergeFlatten ==
  ASSUME CallsInv, KeysInjected, MergeInv, Unrepeated, Flatten
  PROVE  MergeInv'
<1> DEFINE f == Head(todo).fetch
           o == Head(todo).at
           S == Represented(f, o)
           targets == Sorted(S, Earlier)
           T == {p \in ToSet(targets) : Resolves(f, p)}
           resolved == Sorted(T, Earlier)
           new == Selections(f, resolved)
           fails == {<<p[1], p[2], f[2]>> : p \in
                       {t \in ToSet(targets) : EntityAnswer(t, f[2]) = "error"}}
<1>1. /\ op \in Operations /\ op' = op /\ answers' = answers /\ answers \in Faulty /\ phase' = phase
      /\ todo # << >> /\ Head(todo).do = "flatten" /\ todo' = new \o Tail(todo)
      /\ data' = data /\ errors' = errors \cup fails
  BY DEF Flatten, CallsInv, CallsTypeOK, MergeInv
<1>2. /\ todo \in Seq(Calls) /\ f \in Fetches /\ f \in EntityFetches
      /\ Head(todo) = todo[1] /\ 1 \in DOMAIN todo /\ phase # "plan"
      /\ f[1] \in Nodes /\ f[1] # 0 /\ f = <<f[1], f[2]>> /\ f[2] \in Across(f[1])
      /\ o[2] \in Seq(Nat)
  <2>1. todo \in Seq(Calls) /\ phase # "plan" /\ f \in EntityFetches /\ o[2] \in Seq(Nat)
    BY <1>1, HeadFacts DEF CallsInv
  <2>2. f[1] \in Nodes /\ f \in Fetches
    BY <1>1, <2>1, EntityFetchFacts
  <2>3. f = <<f[1], f[2]>> /\ f[2] \in Across(f[1])
    BY <2>1 DEF EntityFetches
  <2>4. f[1] # 0
    BY <1>1, <2>2, NodeFacts
  <2> HIDE DEF f
  <2> QED
    BY <1>1, <2>1, <2>2, <2>3, <2>4
<1> DEFINE m == f[1]
<1>3. InTime(todo, data) /\ Merged(data, errors) /\ Fresh(todo, data)
  BY DEF MergeInv
<1>4. /\ Begun(FetchOf[m], o)
      /\ \A p \in Positions : Fetched(p) /\ FetchOf[p[1]] = FetchOf[m] /\ Below(o, p) =>
           p \in DOMAIN data
  BY <1>1, <1>2, <1>3 DEF InTime, Due
<1>6. \A p : p \in AtPath(m, o) <=> p \in ObjectsOf(m) /\ Below(o, p) /\ Present(p)
  <2> HIDE DEF f, o
  <2> QED
    BY <1>1, <1>2, <1>3, <1>4, AtPathIs
<1>5. \A p \in AtPath(m, o) : \A k \in KeysOf(f) : HeldUnder(p, k) = {k}
  <2> SUFFICES ASSUME NEW p \in AtPath(m, o) PROVE \A k \in KeysOf(f) : HeldUnder(p, k) = {k}
    OBVIOUS
  <2>1. p \in ObjectsOf(m) /\ Present(p)
    BY <1>6
  <2>2. p[1] = m
    BY <1>1, <1>2, <2>1, PlainObjects
  <2>3. ~Skipped(m)
    BY <2>1, <2>2 DEF Present, Fetched
  <2> QED
    BY <1>1, <2>3 DEF KeysInjected
<1>20. \A p : MayBring(Head(todo), p) <=> Below(o, p) /\ f \in Lineage(p[1])
  BY DEF MayBring
<1> HIDE DEF f, o
<1>7. S = AtPath(m, o)
  BY <1>5 DEF Represented
<1> HIDE DEF S
<1>8. S \in SUBSET ObjectsOf(m)
  BY <1>6, <1>7
<1>9. ToSet(targets) = S
  <2>1. targets \in Seq(S) /\ \A p \in S : \E i \in DOMAIN targets : targets[i] = p
    BY <1>1, <1>8, SortedObjects
  <2> HIDE DEF targets
  <2> QED
    BY <2>1 DEF ToSet
<1>10. T = {p \in S : EntityAnswer(p, f[2]) = "ok"}
  BY <1>5, <1>7, <1>9 DEF Resolves
<1> HIDE DEF T, targets
<1>11. /\ resolved \in Seq(T)
       /\ \A p \in T : \E i \in DOMAIN resolved : resolved[i] = p
       /\ \A i, j \in DOMAIN resolved : resolved[i] = resolved[j] => i = j
  <2>1. T \in SUBSET ObjectsOf(m)
    BY <1>8, <1>10
  <2> HIDE DEF m
  <2> QED
    BY <1>1, <2>1, SortedObjects
<1> HIDE DEF resolved
<1>12. /\ DOMAIN new = DOMAIN resolved
       /\ \A i \in DOMAIN new : /\ new[i] = Call("select", f, resolved[i])
                                /\ new[i].do = "select" /\ new[i].fetch = f /\ new[i].at = resolved[i]
                                /\ resolved[i] \in T /\ resolved[i] \in Positions
                                /\ resolved[i] \in ObjectsOf(m) /\ Below(o, resolved[i])
                                /\ Present(resolved[i]) /\ EntityAnswer(resolved[i], f[2]) = "ok"
  <2>1. DOMAIN new = DOMAIN resolved
    BY DEF Selections
  <2>2. ASSUME NEW i \in DOMAIN new
        PROVE  /\ new[i] = Call("select", f, resolved[i]) /\ resolved[i] \in T
    BY <1>11, <2>1 DEF Selections
  <2> HIDE DEF new
  <2>3. \A p : /\ Call("select", f, p).do = "select" /\ Call("select", f, p).fetch = f
               /\ Call("select", f, p).at = p
    BY DEF Call
  <2>4. ASSUME NEW i \in DOMAIN new
        PROVE  /\ resolved[i] \in Positions /\ resolved[i] \in ObjectsOf(m) /\ Below(o, resolved[i])
               /\ Present(resolved[i]) /\ EntityAnswer(resolved[i], f[2]) = "ok"
    <3>1. resolved[i] \in S /\ EntityAnswer(resolved[i], f[2]) = "ok"
      BY <1>10, <2>2
    <3> QED
      BY <1>6, <1>7, <3>1 DEF ObjectsOf
  <2> QED
    BY <2>1, <2>2, <2>3, <2>4
<1>13. new \in Seq(Calls)
  <2> HIDE DEF new
  <2>1. \A i \in DOMAIN new : new[i] \in Calls
    BY <1>2, <1>12 DEF Call, Calls
  <2>2. DOMAIN new = 1..Len(resolved) /\ Len(resolved) \in Nat
    BY <1>11, <1>12
  <2>3. new = [i \in 1..Len(resolved) |-> new[i]]
    BY <2>2 DEF new, Selections
  <2> QED
    BY <2>1, <2>2, <2>3
<1> HIDE DEF new
<1>14. InTime(todo', data')
  <2>1. \A i \in DOMAIN new : Due(new[i], data')
    BY <1>2, <1>12 DEF Due, Begun
  <2>2. InTime(new \o Tail(todo), data')
    BY <1>1, <1>2, <1>3, <1>13, <2>1, InTimeReplaced
  <2> QED
    BY <1>1, <2>2
<1>19. Fresh(todo', data')
  <2>1. ASSUME NEW p \in Positions, NEW i \in DOMAIN new, MayBring(new[i], p)
        PROVE  Below(resolved[i], p) /\ MayBring(Head(todo), p)
    <3>1. Below(resolved[i], p) /\ f \in Lineage(p[1]) /\ Below(o, resolved[i]) /\ resolved[i] \in Positions
      BY <1>12, <2>1 DEF MayBring
    <3>2. p[1] \in 0..Len(op) /\ p[2] \in Seq(Nat) /\ resolved[i][2] \in Seq(Nat)
      BY <1>1, <3>1, PositionFacts, NodeFacts
    <3>3. Below(o, p)
      BY <1>1, <1>2, <3>1, <3>2, BelowChain
    <3> QED
      BY <1>20, <3>1, <3>3
  <2>2. ASSUME NEW p \in Positions, NEW i \in DOMAIN new, NEW j \in DOMAIN new,
               MayBring(new[i], p), MayBring(new[j], p)
        PROVE  i = j
    <3>1. Below(resolved[i], p) /\ Below(resolved[j], p)
      BY <2>1, <2>2
    <3>2. resolved[i] = resolved[j]
      BY <1>1, <1>12, <3>1, OneAbove
    <3> QED
      BY <1>11, <1>12, <3>2
  <2>3. /\ todo \in Seq(Calls) /\ todo # << >> /\ new \in Seq(Calls)
        /\ Fresh(todo, data) /\ data' = data
    BY <1>1, <1>2, <1>3, <1>13
  <2>4. \A p \in Positions : \A i \in DOMAIN new : MayBring(new[i], p) => MayBring(Head(todo), p)
    BY <2>1
  <2>5. \A p \in Positions : \A i, j \in DOMAIN new :
          MayBring(new[i], p) /\ MayBring(new[j], p) => i = j
    BY <2>2
  <2>6. Fresh(new \o Tail(todo), data')
    BY <2>3, <2>4, <2>5, FreshReplaced
  <2> QED
    BY <1>1, <2>6
<1>15. \A p \in Positions :
         Fetched(p) /\ Below(o, p) /\ f \in Lineage(p[1]) =>
           \E i \in DOMAIN new : new[i].do = "select" /\ new[i].fetch = f /\ Below(new[i].at, p)
  <2> SUFFICES ASSUME NEW p \in Positions, Fetched(p), Below(o, p), f \in Lineage(p[1])
               PROVE  \E i \in DOMAIN new :
                        new[i].do = "select" /\ new[i].fetch = f /\ Below(new[i].at, p)
    OBVIOUS
  <2>1. /\ m \in Above(p[1]) \ {0} /\ m # p[1]
        /\ Over(m, p) \in ObjectsOf(m) /\ Below(Over(m, p), p)
        /\ Present(Over(m, p)) /\ EntityAnswer(Over(m, p), f[2]) = "ok"
    BY <1>1, <1>2, FetchedBegins
  <2>2. Below(o, Over(m, p))
    BY <1>1, <1>2, <1>4, <2>1, BegunOver
  <2>3. Over(m, p) \in T
    BY <1>6, <1>7, <1>10, <2>1, <2>2
  <2>4. PICK i \in DOMAIN resolved : resolved[i] = Over(m, p)
    BY <1>11, <2>3
  <2> QED
    BY <1>12, <2>1, <2>4
<1>16. ASSUME NEW x \in EntityPlaces, AnswerAt(x) = "error", Present(<<x[1], x[2]>>),
              MayAsk(Head(todo), <<x[1], x[3]>>, <<x[1], x[2]>>), x \notin errors'
       PROVE  \E i \in DOMAIN new : MayAsk(new[i], <<x[1], x[3]>>, <<x[1], x[2]>>)
  <2> DEFINE q == <<x[1], x[2]>>
  <2>1. /\ q \in ObjectsOf(x[1]) /\ q \in Positions /\ q[1] = x[1] /\ q[2] = x[2]
        /\ x = <<x[1], x[2], x[3]>> /\ Fetched(q)
    BY <1>1, <1>16, EntityPlaceFacts DEF Present
  <2>2. Below(o, q) /\ (f = <<x[1], x[3]>> \/ f \in Lineage(x[1]))
    BY <1>16 DEF MayAsk, f, o
  <2>3. f # <<x[1], x[3]>>
    <3> SUFFICES ASSUME f = <<x[1], x[3]>> PROVE FALSE
      OBVIOUS
    <3>1. f[1] = x[1] /\ f[2] = x[3]
      OBVIOUS
    <3>2. q \in S
      BY <1>6, <1>7, <1>16, <2>1, <2>2, <3>1
    <3>3. EntityAnswer(q, f[2]) = "error"
      BY <1>16, <2>1, <3>1 DEF EntityAnswer
    <3>4. <<q[1], q[2], f[2]>> \in fails
      BY <1>9, <3>2, <3>3
    <3> QED
      BY <1>1, <1>16, <2>1, <3>1, <3>4
  <2>4. \E i \in DOMAIN new : new[i].do = "select" /\ new[i].fetch = f /\ Below(new[i].at, q)
    BY <1>15, <2>1, <2>2, <2>3
  <2> QED
    BY <2>1, <2>2, <2>3, <2>4 DEF MayAsk
<1>17. Merged(data', errors')
  <2>1. ASSUME NEW x \in fails
        PROVE  x \in EntityPlaces /\ AnswerAt(x) = "error" /\ Present(<<x[1], x[2]>>)
    <3>1. PICK p \in S : x = <<p[1], p[2], f[2]>> /\ EntityAnswer(p, f[2]) = "error"
      BY <1>9
    <3>2. p \in ObjectsOf(m) /\ Present(p) /\ p \in Positions
      BY <1>6, <1>7 DEF ObjectsOf
    <3>3. p = <<p[1], p[2]>>
      BY <1>1, <3>2, PositionFacts
    <3>4. x \in EntityPlaces
      BY <1>2, <3>1, <3>2 DEF EntityPlaces
    <3>5. <<x[1], x[2]>> = p
      BY <3>1, <3>3
    <3> QED
      BY <3>1, <3>2, <3>4, <3>5 DEF EntityAnswer
  <2> QED
    BY <1>1, <1>3, <2>1 DEF Merged
<1> HIDE DEF fails, m
<1>18. ASSUME phase = "run" PROVE Plannable /\ Rest(todo', data', errors')
  <2>1. Plannable /\ Rest(todo, data, errors)
    BY <1>18 DEF MergeInv
  <2>2. ASSUME NEW p \in Positions, Fetched(p), MayBring(Head(todo), p)
        PROVE  \E i \in DOMAIN new : MayBring(new[i], p)
    <3>1. Below(o, p) /\ f \in Lineage(p[1])
      BY <2>2 DEF MayBring, f, o
    <3> QED
      BY <1>15, <2>2, <3>1 DEF MayBring
  <2>3. DOMAIN data \subseteq DOMAIN data' /\ errors \subseteq errors'
    BY <1>1
  <2>4. Rest(new \o Tail(todo), data', errors')
    BY <1>1, <1>2, <1>13, <1>16, <2>1, <2>2, <2>3, RestReplaced
  <2> QED
    BY <1>1, <2>1, <2>4
<1> QED
  BY <1>1, <1>2, <1>14, <1>17, <1>18, <1>19, MergeLater

\* Where no response key is repeated and keys are plain fields, the merged tree
\* and the errors are of what was fetched, and the calls under way and to come
\* bring the rest and replace nothing (planner.go:525-636).
THEOREM MergeInductive == Spec /\ PlainKeys => [](PlainKeys /\ MergeInv)
<1>1. Init => MergeInv
  BY DEF Init, MergeInv, Fresh, InTime, Merged
<1>2. PlainKeys /\ CallsInv /\ TreeInv /\ MergeInv /\ [Next]_vars => PlainKeys' /\ MergeInv'
  <2> SUFFICES ASSUME PlainKeys, CallsInv, TreeInv, MergeInv, [Next]_vars
               PROVE  PlainKeys' /\ MergeInv'
    OBVIOUS
  <2>1. op' = op /\ answers' = answers /\ answers \in Faulty /\ op \in Operations
    BY DEF Next, Plan, Reject, Select, Flatten, Shape, vars, MergeInv, CallsInv, CallsTypeOK
  <2>2. PlainKeys'
    BY <2>1, SameAnswers, SameOperation DEF PlainKeys, KeysOf
  <2> SUFFICES MergeInv'
    BY <2>2
  <2>3. KeysInjected /\ Unrepeated /\ DOMAIN data \subseteq Positions
    BY KeysHeld DEF PlainKeys, TreeInv
  <2>4. ASSUME UNCHANGED <<todo, data, errors>>, phase' # "plan", phase' = "run" => phase = "run"
        PROVE  MergeInv'
    BY <2>1, <2>4, MergeLater DEF MergeInv
  <2>5. CASE Plan
    BY <2>3, <2>5, MergePlan
  <2>6. CASE Reject
    BY <2>4, <2>6 DEF Reject
  <2>7. CASE Select
    BY <2>3, <2>7, MergeSelect
  <2>8. CASE Flatten
    BY <2>3, <2>8, MergeFlatten
  <2>9. CASE Shape
    BY <2>4, <2>9 DEF Shape
  <2>10. CASE UNCHANGED vars
    <3>1. CASE phase # "plan"
      BY <2>4, <2>10, <3>1 DEF vars
    <3>2. CASE phase = "plan"
      <4>1. todo = << >> /\ data = << >> /\ errors = {}
        BY <3>2 DEF CallsInv, CallsTypeOK, MergeInv
      <4>2. UNCHANGED <<todo, data, errors, phase>>
        BY <2>10 DEF vars
      <4> QED
        BY <2>1, <3>2, <4>1, <4>2, SameAnswers DEF MergeInv, Fresh, InTime, Merged
    <3> QED
      BY <3>1, <3>2
  <2> QED
    BY <2>5, <2>6, <2>7, <2>8, <2>9, <2>10 DEF Next
<1>3. PlainKeys => Unrepeated
  BY DEF PlainKeys
<1> QED
  BY <1>1, <1>2, <1>3, TreeInductive, PTL DEF Spec

----------------------------------------------------------------------------
(* Direct execution.                                                       *)

\* Both modules speak of the same operation and answers.
LEMMA SameQuery ==
  /\ Direct!Nodes = Nodes /\ Direct!Root = Root
  /\ \A n : /\ Direct!Above(n) = Above(n) /\ Direct!Kids(n) = Kids(n)
            /\ Direct!TypeOf(n) = TypeOf(n) /\ Direct!Home(n) = Home(n)
            /\ (Direct!Crosses(n) <=> Crosses(n)) /\ Direct!Across(n) = Across(n)
            /\ (Direct!Skipped(n) <=> Skipped(n)) /\ Direct!Lists(n) = Lists(n)
            /\ Direct!ObjectsOf(n) = ObjectsOf(n) /\ (Direct!LeftOut(n) <=> LeftOut(n))
  /\ (Direct!Federated <=> Federated)
  /\ Direct!Positions = Positions
  /\ \A p, q : (Direct!Below(p, q) <=> Below(p, q)) /\ Direct!Between(p, q) = Between(p, q)
  /\ \A p : Direct!Parent(p) = Parent(p) /\ Direct!AnswerAt(p) = AnswerAt(p)
  /\ \A o, s : Direct!EntityAnswer(o, s) = EntityAnswer(o, s)
  /\ Direct!EntityPlaces = EntityPlaces /\ Direct!Faulty = Faulty
<1>1. Direct!Nodes = Nodes /\ Direct!Root = Root
  BY DEF Direct!Nodes, Nodes, Direct!Root, Root
<1>2. \A n : /\ Direct!Above(n) = Above(n) /\ Direct!Kids(n) = Kids(n)
             /\ Direct!TypeOf(n) = TypeOf(n) /\ Direct!Home(n) = Home(n)
  BY <1>1 DEF Direct!Above, Above, Direct!Ancestors, Ancestors, Direct!Kids, Kids,
    Direct!TypeOf, TypeOf, Direct!Home, Home
<1>3. \A n : (Direct!Crosses(n) <=> Crosses(n)) /\ (Direct!Skipped(n) <=> Skipped(n))
  BY <1>2 DEF Direct!Crosses, Crosses, Direct!Skipped, Skipped
<1>4. \A n : Direct!Across(n) = Across(n) /\ Direct!Lists(n) = Lists(n)
  BY <1>2, <1>3 DEF Direct!Across, Across, Direct!Lists, Lists, Direct!Cardinality, Cardinality
<1>5. Direct!Federated <=> Federated
  BY <1>1, <1>2, <1>3 DEF Direct!Federated, Federated
<1>6. \A n : Direct!Indices(n) = Indices(n)
  BY <1>4 DEF Direct!Indices, Indices
<1>18. \A n : Direct!Place(n) = Place(n)
  BY DEF Direct!Place, Place
<1>19. Direct!Places = Places
  BY <1>1, <1>18 DEF Direct!Places, Places
<1>20. \A n : Direct!LeftOut(n) <=> LeftOut(n)
  BY <1>1, <1>3, <1>18 DEF Direct!LeftOut, LeftOut
<1>7. Direct!Positions = Positions
  BY <1>6, <1>19 DEF Direct!Positions, Positions
<1>8. \A n : Direct!ObjectsOf(n) = ObjectsOf(n)
  BY <1>4, <1>7, <1>18 DEF Direct!ObjectsOf, ObjectsOf
<1>9. \A p, q : Direct!Below(p, q) <=> Below(p, q)
  BY <1>2, <1>18 DEF Direct!Below, Below, Direct!IsPrefix, IsPrefix
<1>10. \A p, q : Direct!Between(p, q) = Between(p, q)
  BY <1>7, <1>9 DEF Direct!Between, Between
<1>11. \A p : Direct!Parent(p) = Parent(p) /\ Direct!AnswerAt(p) = AnswerAt(p)
  BY <1>1, <1>4, <1>18 DEF Direct!Parent, Parent, Direct!AnswerAt, AnswerAt
<1>12. \A o, s : Direct!EntityAnswer(o, s) = EntityAnswer(o, s)
  BY <1>11 DEF Direct!EntityAnswer, EntityAnswer
<1>13. Direct!EntityPlaces = EntityPlaces
  BY <1>1, <1>4, <1>8 DEF Direct!EntityPlaces, EntityPlaces
<1>14. Direct!FieldPlaces = FieldPlaces
  BY <1>7 DEF Direct!FieldPlaces, FieldPlaces, Direct!IsKey, IsKey
<1>15. \A x : Direct!FaultsAt(x) = FaultsAt(x)
  BY <1>2 DEF Direct!FaultsAt, FaultsAt
<1>16. Direct!FaultyPlaces = FaultyPlaces
  BY <1>13, <1>14 DEF Direct!FaultyPlaces, FaultyPlaces, Direct!ToSet, ToSet
<1>17. Direct!Faulty = Faulty
  BY <1>15, <1>16 DEF Direct!Faulty, Faulty
<1> QED
  BY <1>1, <1>2, <1>3, <1>4, <1>5, <1>7, <1>8, <1>9, <1>10, <1>11, <1>12, <1>13, <1>17,
     <1>20

\* The operation's fields as direct execution answers them.
ReachedAt(p) ==
  ~Crosses(p[1]) \/ CarriedAcross(p[1]) \/ EntityAnswer(Parent(p), Home(p[1])) = "ok"
LiveAt(p) == ReachedAt(p) /\ AnswerAt(p) = "ok"
VisibleAt(p) == ~Skipped(p[1]) /\ \A q \in Between(Root, p) : LiveAt(q)

LEMMA SameVisible ==
  ASSUME op \in Operations, Unrepeated
  PROVE  /\ \A p : /\ (Direct!Carried(p[1]) <=> ~Crosses(p[1]) \/ CarriedAcross(p[1]))
                   /\ (Direct!Reached(p) <=> ReachedAt(p)) /\ (Direct!Live(p) <=> LiveAt(p))
         /\ \A p \in Positions : Direct!Visible(p) <=> VisibleAt(p)
<1>1. \A n : Direct!Carried(n) <=> ~Crosses(n) \/ CarriedAcross(n)
  BY SameQuery DEF Direct!Carried, CarriedAcross
<1>2. \A q : Direct!Reached(q) <=> ReachedAt(q)
  BY <1>1, SameQuery DEF Direct!Reached, ReachedAt
<1>3. \A q : Direct!Live(q) <=> LiveAt(q)
  BY <1>2, SameQuery DEF Direct!Live, LiveAt
<1>4. ASSUME NEW p \in Positions PROVE Direct!Visible(p) <=> VisibleAt(p)
  <2>1. LeftOut(p[1]) <=> Skipped(p[1])
    BY PositionFacts, PlainPlaces
  <2> QED
    BY <1>3, <2>1, SameQuery DEF Direct!Visible, VisibleAt
<1> QED
  BY <1>1, <1>2, <1>3, <1>4

\* Keys never fail: they identify the object.
LEMMA KeyAnswers ==
  ASSUME op \in Operations, Unrepeated, answers \in Faulty, NEW q \in Positions, IsKey(q[1])
  PROVE  AnswerAt(q) = "ok"
<1>1. DOMAIN answers \subseteq FieldPlaces \cup EntityPlaces
  <2>1. PICK D \in FaultyPlaces : answers \in [D -> {"null", "error"}]
    BY DEF Faulty
  <2>2. CASE D = {}
    BY <2>1, <2>2
  <2>3. CASE D # {}
    <3>1. PICK t \in [1..MaxFaults -> FieldPlaces \cup EntityPlaces] : D = ToSet(t)
      BY <2>3 DEF FaultyPlaces
    <3> QED
      BY <2>1, <3>1 DEF ToSet
  <2> QED
    BY <2>2, <2>3
<1>2. q \notin FieldPlaces
  BY DEF FieldPlaces
<1>3. q \notin EntityPlaces
  <2>1. q = <<q[1], q[2]>>
    BY PositionFacts
  <2>2. \A x \in EntityPlaces : x = <<x[1], x[2], x[3]>>
    BY EntityPlaceFacts
  <2>3. Len(q) = 2 /\ \A x \in EntityPlaces : Len(x) = 3
    BY <2>1, <2>2
  <2> QED
    BY <2>3
<1> QED
  BY <1>1, <1>2, <1>3 DEF AnswerAt

\* What lies between the root and a position over another.
LEMMA BetweenChain ==
  ASSUME op \in Operations, Unrepeated, NEW q \in Positions, NEW a \in Between(Root, q)
  PROVE  /\ a \in Positions /\ Below(a, q) /\ a # q
         /\ Skipped(a[1]) => Skipped(q[1])
         /\ \A b \in Between(Root, a) :
              b \in Between(Root, q) /\ b[1] + Len(b[2]) < a[1] + Len(a[2])
<1>1. a \in Positions /\ Below(a, q) /\ a # q
  BY DEF Between
<1>2. /\ q[1] \in Nodes /\ q[1] \in 0..Len(op) /\ a[1] \in Above(q[1]) /\ a[1] \in 0..Len(op)
      /\ Above(a[1]) \subseteq Above(q[1]) /\ q[2] \in Seq(Nat) /\ a[2] \in Seq(Nat)
      /\ IsPrefix(a[2], q[2])
  <2>1. q[1] \in Nodes /\ q[1] \in 0..Len(op) /\ q[2] \in Seq(Nat) /\ a[2] \in Seq(Nat)
    BY <1>1, PositionFacts, NodeFacts
  <2>2. a[1] \in Above(q[1]) /\ IsPrefix(a[2], q[2])
    BY <1>1, <2>1, PlainBelow
  <2> QED
    BY <2>1, <2>2, NodeFacts
<1>3. Skipped(a[1]) => Skipped(q[1])
  BY <1>2 DEF Skipped
<1>4. ASSUME NEW b \in Between(Root, a)
      PROVE  b \in Between(Root, q) /\ b[1] + Len(b[2]) < a[1] + Len(a[2])
  <2>1. b \in Positions /\ Below(b, a) /\ b # a /\ b # Root /\ Below(Root, b)
    BY DEF Between
  <2>2. /\ b[1] \in Above(a[1]) /\ b[1] <= a[1] /\ b[1] \in Nat /\ a[1] \in Nat
        /\ b[2] \in Seq(Nat) /\ Len(b[2]) \in Nat /\ Len(a[2]) \in Nat
    BY <1>2, <2>1, PositionFacts, NodeFacts, PlainBelow
  <2>3. Len(b[2]) <= Len(a[2]) /\ \A i \in 1..Len(b[2]) : b[2][i] = a[2][i]
    BY <1>2, <2>1, <2>2, PrefixIs, PlainBelow
  <2>4. b[1] # a[1] \/ Len(b[2]) # Len(a[2])
    <3> SUFFICES ASSUME b[1] = a[1], Len(b[2]) = Len(a[2]) PROVE FALSE
      OBVIOUS
    <3>1. b[2] = a[2]
      BY <1>2, <2>2, <2>3, SameTuple
    <3> QED
      BY <1>1, <2>1, <3>1, PositionFacts
  <2>5. b[1] + Len(b[2]) < a[1] + Len(a[2])
    BY <2>2, <2>3, <2>4
  <2>6. Below(b, q)
    BY <1>1, <1>2, <2>1, <2>2, BelowChain
  <2>7. b # q
    <3> SUFFICES ASSUME b = q PROVE FALSE
      OBVIOUS
    <3>1. q[1] <= a[1] /\ a[1] <= q[1] /\ q[1] \in Nat /\ Len(q[2]) \in Nat
      BY <1>2, <2>2, NodeFacts
    <3>2. Len(a[2]) <= Len(q[2])
      BY <1>2, PrefixIs
    <3> QED
      BY <2>2, <2>3, <2>4, <3>1, <3>2
  <2> QED
    BY <2>1, <2>5, <2>6, <2>7 DEF Between
<1> QED
  BY <1>1, <1>3, <1>4

LEMMA VisibleAbove ==
  ASSUME op \in Operations, Unrepeated, NEW q \in Positions, NEW a \in Between(Root, q), VisibleAt(q)
  PROVE  a \in Positions /\ VisibleAt(a) /\ LiveAt(a)
BY BetweenChain DEF VisibleAt

\* What is fetched shows in the response of direct execution.
LEMMA FetchedReached ==
  ASSUME op \in Operations, NEW q \in Positions, Fetched(q)
  PROVE  ReachedAt(q)
<1>1. q = <<q[1], q[2]>> /\ q[1] \in Nodes /\ q[1] \in Above(q[1]) \ {0}
  BY PositionFacts, NodeFacts
<1> QED
  BY <1>1 DEF Fetched, ReachedAt

LEMMA FetchedVisible ==
  ASSUME op \in Operations, Unrepeated, NEW p \in Positions, Fetched(p)
  PROVE  VisibleAt(p) /\ ReachedAt(p)
<1>1. ASSUME NEW q \in Between(Root, p) PROVE LiveAt(q)
  <2>1. q \in Positions /\ Below(q, p) /\ q # p
    BY DEF Between
  <2>2. Present(q)
    BY <2>1, FetchedAbove
  <2> QED
    BY <2>1, <2>2, FetchedReached DEF LiveAt, Present
<1> QED
  BY <1>1, FetchedReached DEF VisibleAt, Fetched

\* What shows there was fetched, unless it is carried or out of reach.
LEMMA VisibleFetched ==
  ASSUME op \in Operations, Comparable, Plannable, NEW q \in Positions,
         VisibleAt(q), ReachedAt(q), ~CarriedAcross(q[1])
  PROVE  Fetched(q)
<1>1. q[1] \in Nodes /\ q[1] \in 0..Len(op) /\ q = <<q[1], q[2]>> /\ Unrepeated
  BY PositionFacts, NodeFacts DEF Comparable, PlainKeys
<1>2. \A p \in Between(Root, q) : AnswerAt(p) = "ok"
  BY DEF VisibleAt, LiveAt
<1>3. ASSUME NEW a \in Above(q[1]) \ {0}, Crosses(a)
      PROVE  EntityAnswer(Parent(<<a, q[2]>>), Home(a)) = "ok"
  <2>1. CASE a = q[1]
    BY <1>1, <1>3, <2>1 DEF ReachedAt
  <2>2. CASE a # q[1]
    <3>1. a \in Nodes /\ op[a].parent # 0
      BY <1>1, <1>3, NodeFacts DEF Crosses
    <3>2. /\ Over(a, q) \in ObjectsOf(a) /\ Below(Over(a, q), q)
          /\ Over(a, q) \in Between(Root, q)
      BY <1>1, <2>2, OverFacts
    <3>3. Over(a, q) \in Positions /\ Over(a, q)[1] = a /\ LiveAt(Over(a, q))
      BY <3>2 DEF ObjectsOf, VisibleAt, Over
    <3>4. ~CarriedAcross(a)
      <4>1. \E c \in Nodes : op[c].parent = a
        <5> DEFINE C == {c \in Above(q[1]) : a \in Above(c) /\ c # a}
        <5>1. C \in SUBSET Nat /\ q[1] \in C
          BY <1>1, <1>3, <2>2, NodeFacts
        <5>2. PICK c \in C : \A d \in C : c <= d
          <6> HIDE DEF C
          <6> QED
            BY <5>1, FirstOf
        <5>3. c \in Nodes /\ a \in Above(op[c].parent) /\ op[c].parent \in Above(c)
          <6>1. c \in 0..Len(op) /\ a \in Above(c) /\ c # a /\ a # 0
            BY <1>1, <5>2, NodeFacts
          <6>2. c # 0
            BY <6>1, NodeFacts
          <6>3. c \in Nodes
            BY <6>1, <6>2, NodeFacts
          <6> QED
            BY <6>1, <6>3, NodeFacts
        <5>4. op[c].parent \in Above(q[1]) /\ op[c].parent < c /\ op[c].parent \in Nat /\ c \in Nat
          BY <1>1, <5>2, <5>3, NodeFacts
        <5>5. op[c].parent = a
          <6>1. ~(c <= op[c].parent)
            BY <5>4
          <6> QED
            BY <5>2, <5>3, <5>4, <6>1
        <5> QED
          BY <5>3, <5>5
      <4> QED
        BY <3>1, <4>1 DEF Comparable, Kids
    <3>5. EntityAnswer(Parent(Over(a, q)), Home(a)) = "ok"
      BY <1>3, <3>3, <3>4 DEF LiveAt, ReachedAt
    <3>6. a \in Above(Over(a, q)[1]) \ {0} /\ Over(a, q) = <<a, Over(a, q)[2]>>
      BY <3>1, <3>3, NodeFacts, PositionFacts
    <3>7. /\ op[a].parent \in Above(Over(a, q)[1]) \ {0} /\ op[a].parent # Over(a, q)[1]
          /\ Parent(Over(a, q)) = Over(op[a].parent, Over(a, q))
      BY <1>1, <3>1, <3>3, <3>6, ParentIsOver
    <3>8. Parent(<<a, q[2]>>) = Over(op[a].parent, q)
      BY <1>1, <1>3, <3>1, ParentIsOver
    <3>9. Over(op[a].parent, Over(a, q)) = Over(op[a].parent, q)
      BY <1>1, <3>2, <3>3, <3>7, SameOver
    <3> QED
      BY <3>5, <3>7, <3>8, <3>9
  <2> QED
    BY <2>1, <2>2
<1> QED
  BY <1>2, <1>3 DEF Fetched, VisibleAt

\* Where planner and direct execution agree, the planner refuses what cannot
\* be reached.
LEMMA PlannableFederated ==
  ASSUME op \in Operations, Comparable
  PROVE  Plannable <=> Federated
<1>1. ASSUME Plannable PROVE Federated
  <2> SUFFICES ASSUME NEW n \in Nodes, Crosses(n)
               PROVE  /\ TypeOf(op[n].parent) \in DOMAIN Keys[Home(n)]
                      /\ Keys[Home(n)][TypeOf(op[n].parent)]
                           \subseteq Has[Home(op[n].parent)][TypeOf(op[n].parent)]
    BY DEF Federated
  <2> DEFINE m == op[n].parent
             s == Home(n)
  <2>1. m \in Nodes /\ n \in Kids(m) /\ s \in Across(m)
    BY NodeFacts DEF Crosses, Kids, Across
  <2>2. TypeOf(m) \in DOMAIN Keys[s] /\ Injected(m) \subseteq Has[Home(m)][TypeOf(m)]
    BY <1>1, <2>1 DEF Plannable
  <2>3. <<m, s>> \in EntityFetches
    BY <2>1 DEF EntityFetches
  <2>4. KeysOf(<<m, s>>) \cap Selected(m) \subseteq Has[Home(m)][TypeOf(m)]
    <3>1. KeysOf(<<m, s>>) \cap Selected(<<m, s>>[1])
            \subseteq Has[Home(<<m, s>>[1])][TypeOf(<<m, s>>[1])]
      BY <1>1, <2>3 DEF Comparable
    <3> QED
      BY <3>1
  <2>5. KeysOf(<<m, s>>) \subseteq Injected(m) \cup Selected(m)
    BY <2>1 DEF Injected
  <2>6. KeysOf(<<m, s>>) = Keys[s][TypeOf(m)]
    BY DEF KeysOf
  <2> QED
    BY <2>2, <2>4, <2>5, <2>6
<1>2. ASSUME Federated PROVE Plannable
  <2> SUFFICES ASSUME NEW m \in Nodes
               PROVE  /\ \A s \in Across(m) : TypeOf(m) \in DOMAIN Keys[s]
                      /\ Injected(m) \subseteq Has[Home(m)][TypeOf(m)]
    BY DEF Plannable
  <2>1. ASSUME NEW s \in Across(m)
        PROVE  /\ TypeOf(m) \in DOMAIN Keys[s]
               /\ KeysOf(<<m, s>>) \subseteq Has[Home(m)][TypeOf(m)]
    <3>1. PICK n \in Kids(m) : Crosses(n) /\ s = Home(n)
      BY DEF Across
    <3>2. n \in Nodes /\ op[n].parent = m
      BY DEF Kids
    <3> QED
      BY <1>2, <3>1, <3>2 DEF Federated, KeysOf
  <2> QED
    BY <2>1 DEF Injected
<1> QED
  BY <1>1, <1>2

\* What the finished tree holds.
Finished ==
  /\ op \in Operations /\ answers \in Faulty
  /\ Comparable /\ Plannable /\ Unrepeated
  /\ TreeInv
  /\ todo = << >>
  /\ Merged(data, errors) /\ Rest(todo, data, errors)

LEMMA TreeIsFetched ==
  ASSUME Finished
  PROVE  /\ \A p \in Positions : p \in DOMAIN data <=> Fetched(p)
         /\ \A p \in DOMAIN data : data[p] = Completed(p)
         /\ \A x \in EntityPlaces :
              AnswerAt(x) = "error" /\ Present(<<x[1], x[2]>>) => x \in errors
<1>1. DOMAIN todo = {}
  BY DEF Finished
<1> QED
  BY <1>1 DEF Finished, Merged, Rest

\* The object holds what direct execution completes.
LEMMA ShownIs ==
  ASSUME Finished, NEW q \in Positions, VisibleAt(q)
  PROVE  Shown(q) = IF LiveAt(q) THEN "value" ELSE "null"
<1> DEFINE n == q[1]
           m == op[n].parent
<1>1. op \in Operations /\ Unrepeated /\ n \in Nodes /\ n \in Above(n) \ {0} /\ q = <<n, q[2]>>
  BY PositionFacts, NodeFacts DEF Finished
<1>5. ASSUME Crosses(n)
      PROVE  m # 0 /\ m \in Nodes /\ n \in Kids(m) /\ Parent(q) = Over(m, q) /\ Parent(q)[1] = m
  <2>1. m # 0
    BY <1>5 DEF Crosses
  <2> QED
    BY <1>1, <2>1, NodeFacts, ParentIsOver DEF Kids, Over
<1>2. CASE Fetched(q)
  <2>1. q \in DOMAIN data /\ data[q] = Completed(q)
    BY <1>2, TreeIsFetched
  <2>2. ReachedAt(q)
    BY <1>1, <1>2, FetchedReached
  <2> QED
    BY <2>1, <2>2 DEF Shown, Completed, LiveAt
<1>3. CASE ~Fetched(q) /\ CarriedAcross(n)
  <2>1. q \notin DOMAIN data
    BY <1>3, TreeIsFetched
  <2>2. op[n].key \in Injected(m) /\ op[n].field = op[n].key /\ IsKey(n)
    BY <1>1, <1>3 DEF Finished, Comparable
  <2>3. AnswerAt(q) = "ok"
    BY <1>1, <2>2, KeyAnswers DEF Finished
  <2>4. LiveAt(q)
    BY <1>3, <2>3 DEF LiveAt, ReachedAt
  <2>6. Crosses(n)
    BY <1>3 DEF CarriedAcross
  <2>7. /\ m \in Above(n) \ {0} /\ m # n
        /\ Over(m, q) \in ObjectsOf(m) /\ Over(m, q) \in Between(Root, q) /\ Over(m, q)[1] = m
    <3>1. m \in Above(n) \ {0} /\ m # n
      BY <1>1, <1>5, <2>6, ParentIsOver
    <3> QED
      BY <1>1, <3>1, OverFacts DEF Over
  <2>8. Over(m, q) \in Positions /\ VisibleAt(Over(m, q)) /\ LiveAt(Over(m, q))
    BY <1>1, <2>7, VisibleAbove
  <2>9. ~CarriedAcross(m)
    BY <1>1, <1>5, <2>6 DEF Finished, Comparable
  <2>10. Fetched(Over(m, q))
    BY <1>1, <2>7, <2>8, <2>9, VisibleFetched DEF Finished, LiveAt
  <2>11. Over(m, q) \in DOMAIN data /\ data[Over(m, q)] = "value"
    BY <2>8, <2>10, TreeIsFetched DEF Completed, LiveAt
  <2>12. Holds(Parent(q), op[n].key)
    BY <1>5, <2>2, <2>6, <2>7, <2>11 DEF Finished, TreeInv
  <2>5. Shown(q) = "value"
    BY <2>1, <2>2, <2>12 DEF Shown
  <2> QED
    BY <2>4, <2>5
<1>4. CASE ~Fetched(q) /\ ~CarriedAcross(n)
  <2>1. q \notin DOMAIN data
    BY <1>4, TreeIsFetched
  <2>2. ~ReachedAt(q)
    BY <1>1, <1>4, VisibleFetched DEF Finished
  <2>3. Crosses(n) /\ m \in Nodes /\ n \in Kids(m) /\ op[n].field \notin Has[Home(m)][TypeOf(m)]
    <3>1. Crosses(n) /\ op[n].field \notin Has[Home(m)][TypeOf(m)]
      BY <1>4, <2>2 DEF ReachedAt, CarriedAcross
    <3> QED
      BY <1>1, <3>1, NodeFacts DEF Crosses, Kids
  <2>4. op[n].key \notin Injected(m)
    <3> SUFFICES ASSUME op[n].key \in Injected(m) PROVE FALSE
      OBVIOUS
    <3>1. PICK s \in Across(m) : op[n].key \in KeysOf(<<m, s>>)
      BY DEF Injected
    <3>2. <<m, s>> \in EntityFetches /\ <<m, s>>[1] = m
      BY <2>3 DEF EntityFetches
    <3>3. PlainKeys /\ Plannable
      BY DEF Finished, Comparable
    <3>4. op[n].field = op[n].key
      BY <2>3, <3>1, <3>2, <3>3 DEF PlainKeys
    <3>5. Injected(m) \subseteq Has[Home(m)][TypeOf(m)]
      BY <2>3, <3>1, <3>3 DEF Plannable
    <3> QED
      BY <2>3, <3>4, <3>5
  <2>5. ~Holds(Parent(q), op[n].key)
    <3> SUFFICES ASSUME Holds(Parent(q), op[n].key) PROVE FALSE
      OBVIOUS
    <3> DEFINE x == <<Parent(q)[1], Parent(q)[2], op[n].key>>
    <3>1. x \in added
      BY DEF Holds
    <3>2. x[3] \in Injected(x[1])
      BY <3>1 DEF Finished, TreeInv
    <3> QED
      BY <1>5, <2>3, <2>4, <3>2
  <2> QED
    BY <2>1, <2>2, <2>5 DEF Shown, LiveAt
<1> QED
  BY <1>2, <1>3, <1>4

\* Both show a position for the same reason.
LEMMA ShowsVisible ==
  ASSUME Finished, NEW q \in Positions
  PROVE  (~Skipped(q[1]) /\ \A a \in Between(Root, q) : Shown(a) = "value") <=> VisibleAt(q)
<1>1. op \in Operations /\ Unrepeated
  BY DEF Finished
<1>2. ASSUME VisibleAt(q), NEW a \in Between(Root, q) PROVE Shown(a) = "value"
  BY <1>1, <1>2, VisibleAbove, ShownIs
<1>3. ASSUME ~Skipped(q[1]), \A a \in Between(Root, q) : Shown(a) = "value"
      PROVE  VisibleAt(q)
  <2> DEFINE Dead == {a \in Between(Root, q) : ~LiveAt(a)}
             Sizes == {a[1] + Len(a[2]) : a \in Dead}
  <2> SUFFICES ASSUME Dead # {} PROVE FALSE
    BY <1>3 DEF VisibleAt
  <2>1. Sizes \in SUBSET Nat /\ Sizes # {}
    <3>1. \A a \in Dead : a[1] \in Nat /\ Len(a[2]) \in Nat
      BY <1>1, PositionFacts, NodeFacts DEF Between
    <3> QED
      BY <3>1
  <2>2. PICK k \in Sizes : \A l \in Sizes : k <= l
    <3> HIDE DEF Sizes
    <3> QED
      BY <2>1, FirstOf
  <2>3. PICK a \in Dead : k = a[1] + Len(a[2])
    OBVIOUS
  <2>4. a \in Positions /\ ~Skipped(a[1])
    BY <1>1, <1>3, BetweenChain
  <2>5. ASSUME NEW b \in Between(Root, a) PROVE LiveAt(b)
    <3>1. b \in Between(Root, q) /\ b[1] + Len(b[2]) < k
      BY <1>1, <2>3, BetweenChain
    <3>2. b[1] + Len(b[2]) \in Nat /\ k \in Nat
      BY <1>1, <2>1, <2>2, PositionFacts, NodeFacts DEF Between
    <3> DEFINE l == b[1] + Len(b[2])
    <3>3. ~LiveAt(b) => l \in Sizes
      BY <3>1
    <3>4. l < k /\ l \in Nat /\ k \in Nat
      BY <3>1, <3>2
    <3> HIDE DEF l, Sizes
    <3> QED
      BY <2>2, <3>3, <3>4
  <2>6. VisibleAt(a)
    BY <2>4, <2>5 DEF VisibleAt
  <2>7. Shown(a) = "null"
    BY <2>3, <2>4, <2>6, ShownIs
  <2> QED
    BY <1>3, <2>3, <2>7
<1> QED
  BY <1>2, <1>3 DEF VisibleAt

\* Where no response key is repeated every field that is not skipped is shaped.
LEMMA AllWin ==
  ASSUME op \in Operations, Unrepeated, NEW q \in Positions
  PROVE  (\E n \in Nodes : Place(n) = q[1] /\ Wins(n)) <=> ~Skipped(q[1])
<1>1. q[1] \in Nodes /\ q[1] \in 0..Len(op) /\ \A n \in Nodes : Place(n) = n
  BY PositionFacts, NodeFacts, PlainPlaces
<1>2. ASSUME NEW m \in Nodes, NEW c \in Kids(op[m].parent), op[c].key = op[m].key PROVE c = m
  <2>1. c \in Nodes /\ op[c].parent = op[m].parent
    BY DEF Kids
  <2>2. c \in DOMAIN op /\ m \in DOMAIN op /\ ParentPlace(op, c) = ParentPlace(op, m)
    BY <2>1, OperationFacts DEF Nodes, ParentPlace
  <2>3. op[c].place = op[m].place
    BY <1>2, <2>2, QueryAssumption
  <2>4. Place(c) = Place(m)
    BY <2>1, <2>3, NodeFacts DEF Place
  <2> QED
    BY <1>1, <2>1, <2>4
<1>3. \A m \in Above(q[1]) \ {0} : m \in Nodes /\ m \in Nat
  BY <1>1, NodeFacts
<1>4. Wins(q[1]) <=> ~Skipped(q[1])
  <2>1. ASSUME NEW m \in Above(q[1]) \ {0}
        PROVE  \A c \in Kids(op[m].parent) : op[c].key = op[m].key /\ c > m => op[c].skip
    BY <1>2, <1>3
  <2> QED
    BY <2>1 DEF Wins, Skipped
<1> QED
  BY <1>1, <1>4

\* Both answer the same data.
LEMMA SameData ==
  ASSUME Finished
  PROVE  [p \in {q \in Positions : /\ \E n \in Nodes : Place(n) = q[1] /\ Wins(n)
                                   /\ \A a \in Between(Root, q) : Shown(a) = "value"} |-> Shown(p)]
           = Direct!Data
<1> DEFINE V == {q \in Positions : VisibleAt(q)}
<1>0. op \in Operations /\ Unrepeated
  BY DEF Finished
<1>1. {q \in Positions : /\ \E n \in Nodes : Place(n) = q[1] /\ Wins(n)
                         /\ \A a \in Between(Root, q) : Shown(a) = "value"} = V
  <2>1. \A q \in Positions : (\E n \in Nodes : Place(n) = q[1] /\ Wins(n)) <=> ~Skipped(q[1])
    BY <1>0, AllWin
  <2> QED
    BY <2>1, ShowsVisible
<1>2. \A p \in V : Shown(p) = IF LiveAt(p) THEN "value" ELSE "null"
  BY ShownIs
<1>3. Direct!Data = [p \in V |-> IF LiveAt(p) THEN "value" ELSE "null"]
  <2>1. {q \in Direct!Positions : Direct!Visible(q)} = V
    BY <1>0, SameQuery, SameVisible
  <2> HIDE DEF V
  <2> QED
    BY <1>0, <2>1, SameVisible DEF Direct!Data
<1> HIDE DEF V
<1> QED
  BY <1>1, <1>2, <1>3

\* Both report the same errors.
LEMMA ErrorsHere ==
  ASSUME Finished, NEW x \in errors
  PROVE  x \in Direct!Errors
<1>1. op \in Operations /\ Comparable /\ Plannable /\ Unrepeated
  BY DEF Finished
<1>2. CASE x \in DOMAIN data /\ AnswerAt(x) = "error"
  <2>1. x \in Positions /\ Fetched(x)
    BY <1>2, TreeIsFetched DEF Finished, TreeInv
  <2> QED
    BY <1>1, <1>2, <2>1, FetchedVisible, SameQuery, SameVisible DEF Direct!Errors
<1>3. CASE x \in EntityPlaces /\ AnswerAt(x) = "error" /\ Present(<<x[1], x[2]>>)
  <2> DEFINE m == x[1]
             o == <<x[1], x[2]>>
  <2>1. /\ m \in Nodes /\ o \in ObjectsOf(m) /\ o \in Positions /\ o[1] = m /\ o[2] = x[2]
        /\ <<m, x[3]>> \in EntityFetches
    BY <1>1, <1>3, EntityPlaceFacts
  <2>2. \E c \in Kids(m) : Crosses(c) /\ Home(c) = x[3] /\ ~CarriedAcross(c) /\ ~op[c].skip
    <3>1. <<m, x[3]>>[1] = m /\ <<m, x[3]>>[2] = x[3]
      OBVIOUS
    <3> QED
      BY <1>1, <2>1, <3>1 DEF Comparable
  <2>3. PICK c \in Kids(m) : Crosses(c) /\ Home(c) = x[3] /\ ~CarriedAcross(c) /\ ~op[c].skip
    BY <2>2
  <2> DEFINE p == <<c, o[2]>>
  <2>4. /\ p \in Positions /\ p[1] = c
        /\ \A q \in Positions : Below(q, p) => q = p \/ Below(q, o)
    BY <1>1, <2>1, KidPlace
  <2>5. VisibleAt(o) /\ LiveAt(o) /\ ~Skipped(m)
    BY <1>1, <1>3, <2>1, FetchedVisible DEF Present, LiveAt, Fetched
  <2>6. ~Skipped(c)
    BY <1>1, <2>1, <2>3, <2>5, KidLists DEF Skipped
  <2>7. ASSUME NEW q \in Between(Root, p) PROVE LiveAt(q)
    <3>1. q \in Positions /\ Below(Root, q) /\ q # Root /\ (q = o \/ Below(q, o))
      BY <2>4 DEF Between
    <3> QED
      BY <2>5, <3>1 DEF Between, VisibleAt
  <2>8. Parent(p) = o
    <3>1. op[c].parent = m /\ m # 0 /\ Place(m) = m
      BY <1>1, <2>1, NodeFacts, PlainPlaces DEF Kids
    <3>2. Len(o[2]) = Lists(m) /\ o[2] \in Seq(Nat)
      BY <1>1, <2>1, PositionFacts, PlainObjects
    <3>3. SubSeq(o[2], 1, Lists(m)) = o[2]
      BY <3>2
    <3> QED
      BY <2>1, <3>1, <3>3 DEF Parent
  <2>9. VisibleAt(p)
    BY <2>4, <2>6, <2>7 DEF VisibleAt
  <2>10. /\ x \in Direct!EntityPlaces /\ Direct!AnswerAt(x) = "error"
         /\ p \in Direct!Positions /\ Direct!Visible(p) /\ ~Direct!Carried(p[1])
         /\ Direct!Parent(p) = <<x[1], x[2]>> /\ Direct!Home(p[1]) = x[3]
    BY <1>1, <1>3, <2>3, <2>4, <2>8, <2>9, SameQuery, SameVisible
  <2> HIDE DEF p
  <2> QED
    BY <2>10 DEF Direct!Errors
<1> QED
  BY <1>2, <1>3 DEF Finished, Merged

LEMMA ErrorsThere ==
  ASSUME Finished, NEW x \in Direct!Errors
  PROVE  x \in errors
<1>1. op \in Operations /\ Comparable /\ Plannable /\ answers \in Faulty /\ Unrepeated
  BY DEF Finished
<1>2. \/ x \in Positions /\ VisibleAt(x) /\ ReachedAt(x) /\ AnswerAt(x) = "error"
      \/ /\ x \in EntityPlaces /\ AnswerAt(x) = "error"
         /\ \E p \in Positions : /\ VisibleAt(p) /\ Crosses(p[1]) /\ ~CarriedAcross(p[1])
                                 /\ Parent(p) = <<x[1], x[2]>>
  BY <1>1, SameQuery, SameVisible DEF Direct!Errors
<1>3. CASE x \in Positions /\ VisibleAt(x) /\ ReachedAt(x) /\ AnswerAt(x) = "error"
  <2>1. ~CarriedAcross(x[1])
    <3> SUFFICES ASSUME CarriedAcross(x[1]) PROVE FALSE
      OBVIOUS
    <3>1. IsKey(x[1])
      BY <1>1, <1>3, PositionFacts DEF Comparable
    <3> QED
      BY <1>1, <1>3, <3>1, KeyAnswers
  <2>2. Fetched(x)
    BY <1>1, <1>3, <2>1, VisibleFetched
  <2>3. x \in DOMAIN data
    BY <1>3, <2>2, TreeIsFetched
  <2> QED
    BY <1>3, <2>3 DEF Finished, Merged
<1>4. CASE /\ x \in EntityPlaces /\ AnswerAt(x) = "error"
           /\ \E p \in Positions : /\ VisibleAt(p) /\ Crosses(p[1]) /\ ~CarriedAcross(p[1])
                                   /\ Parent(p) = <<x[1], x[2]>>
  <2>1. PICK p \in Positions : /\ VisibleAt(p) /\ Crosses(p[1]) /\ ~CarriedAcross(p[1])
                               /\ Parent(p) = <<x[1], x[2]>>
    BY <1>4
  <2> DEFINE n == p[1]
             m == op[n].parent
  <2>2. n \in Nodes /\ m # 0 /\ p = <<n, p[2]>> /\ n \in Above(n) \ {0}
    BY <1>1, <2>1, PositionFacts, NodeFacts DEF Crosses
  <2>3. m \in Above(n) \ {0} /\ m # n /\ m \in Nodes /\ Parent(p) = Over(m, p)
    BY <1>1, <2>2, ParentIsOver
  <2>4. Over(m, p) \in Between(Root, p)
    BY <1>1, <2>3, OverFacts
  <2>5. VisibleAt(Over(m, p)) /\ LiveAt(Over(m, p)) /\ Over(m, p) \in Positions
    BY <1>1, <2>1, <2>4, VisibleAbove
  <2>6. ~CarriedAcross(m)
    BY <1>1, <2>2, <2>3 DEF Comparable, Kids
  <2>7. Over(m, p)[1] = m
    BY DEF Over
  <2>8. Present(Over(m, p))
    BY <1>1, <2>5, <2>6, <2>7, VisibleFetched DEF Present, LiveAt
  <2> QED
    BY <1>4, <2>1, <2>3, <2>8, TreeIsFetched
<1> QED
  BY <1>2, <1>3, <1>4

\* Calls are made while the plan runs, and nothing is shown before it ends.
Running == (todo # << >> => phase = "run") /\ phase \in {"plan", "run", "done", "rejected"}

\* A planned operation answers what direct execution answers for it, data and
\* errors, and is refused when some entity cannot be reached, for every
\* supergraph, answers and operation that satisfy Comparable: it repeats no
\* response key, and keys are plain fields (planner_test.go:65-90,
\* planner.go:259, 340).
THEOREM AnswersAsDirect == Spec /\ Comparable => MatchesDirect
<1>1. Init => Running /\ Direct!Init
  BY SameQuery DEF Init, Running, Direct!Init
<1>2. Running /\ [Next]_vars => Running'
  BY DEF Running, Next, Plan, Reject, Select, Flatten, Shape, vars
<1>3. Comparable /\ [Next]_vars => Comparable'
  <2> SUFFICES ASSUME Comparable, [Next]_vars PROVE Comparable'
    OBVIOUS
  <2>1. op' = op /\ answers' = answers
    BY DEF Next, Plan, Reject, Select, Flatten, Shape, vars
  <2>2. /\ PlainKeys' <=> PlainKeys
        /\ \A n : /\ CarriedAcross(n)' <=> CarriedAcross(n)
                  /\ Selected(n)' = Selected(n) /\ Injected(n)' = Injected(n)
                  /\ IsKey(n)' <=> IsKey(n)
        /\ \A f : KeysOf(f)' = KeysOf(f)
    <3>1. \A f : KeysOf(f)' = KeysOf(f)
      BY <2>1, SameOperation DEF KeysOf
    <3>2. \A n : Selected(n)' = Selected(n)
      BY <2>1, SameOperation, SameAnswers DEF Selected
    <3>3. \A n : Injected(n)' = Injected(n)
      BY <2>1, <3>1, <3>2, SameOperation DEF Injected
    <3>4. \A n : (CarriedAcross(n)' <=> CarriedAcross(n)) /\ (IsKey(n)' <=> IsKey(n))
      BY <2>1, SameOperation, SameAnswers DEF CarriedAcross, IsKey
    <3>5. PlainKeys' <=> PlainKeys
      BY <2>1, <3>1, SameOperation, SameAnswers DEF PlainKeys
    <3> QED
      BY <3>1, <3>2, <3>3, <3>4, <3>5
  <2> QED
    BY <2>1, <2>2, SameOperation, SameAnswers DEF Comparable
<1>4. (Comparable => PlainKeys) /\ (PlainKeys => Unrepeated)
  BY DEF Comparable, PlainKeys
<1>5. /\ CallsInv /\ TreeInv /\ MergeInv /\ Comparable /\ Running /\ [Next]_vars
      => [Direct!Answer \/ Direct!Refuse]_(Direct!vars)
  <2> SUFFICES ASSUME CallsInv, TreeInv, MergeInv, Comparable, Running, [Next]_vars
               PROVE  [Direct!Answer \/ Direct!Refuse]_(Direct!vars)
    OBVIOUS
  <2>1. op \in Operations /\ answers \in Faulty /\ Unrepeated
    BY DEF CallsInv, CallsTypeOK, MergeInv, Comparable, PlainKeys
  <2>9. op' = op /\ Unrepeated'
    <3>1. op' = op
      BY DEF Next, Plan, Reject, Select, Flatten, Shape, vars
    <3> QED
      BY <2>1, <3>1, SameOperation
  <2>2. ASSUME UNCHANGED <<op, answers, response>>, phase \in {"plan", "run"}, phase' = "run"
        PROVE  UNCHANGED Direct!vars
    BY <2>1, <2>2, <2>9 DEF Direct!vars
  <2>3. CASE Plan
    BY <2>2, <2>3 DEF Plan
  <2>4. CASE Reject
    <3>1. ~Direct!Federated
      BY <2>1, <2>4, PlannableFederated, SameQuery DEF Reject
    <3> QED
      BY <2>1, <2>4, <2>9, <3>1 DEF Reject, Direct!Refuse
  <2>5. CASE Select
    BY <2>2, <2>5 DEF Select, Running
  <2>6. CASE Flatten
    BY <2>2, <2>6 DEF Flatten, Running
  <2>7. CASE Shape
    <3>1. Finished
      BY <2>1, <2>7 DEF Shape, Finished, MergeInv
    <3>2. Direct!Federated
      BY <2>1, <3>1, PlannableFederated, SameQuery DEF Finished
    <3>3. response' = Direct!Data
      BY <2>7, <3>1, SameData DEF Shape
    <3>4. errors' = Direct!Errors
      BY <2>7, <3>1, ErrorsHere, ErrorsThere DEF Shape
    <3> QED
      BY <2>1, <2>7, <2>9, <3>2, <3>3, <3>4 DEF Shape, Direct!Answer
  <2>8. CASE UNCHANGED vars
    BY <2>1, <2>8, <2>9 DEF vars, Direct!vars
  <2> QED
    BY <2>3, <2>4, <2>5, <2>6, <2>7, <2>8 DEF Next
<1> QED
  BY <1>1, <1>2, <1>3, <1>4, <1>5, TreeInductive, MergeInductive, PTL DEF Spec, MatchesDirect, Direct!Spec
====
