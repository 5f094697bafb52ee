---- MODULE ExecutorProofs ----
(* Proofs about Executor, for any response tree, any answers of user code, *)
(* serial or concurrent.                                                   *)
EXTENDS Executor, TLAPS, WellFoundedInduction

\* A nonempty set of positions has a first one.
LEMMA First ==
  ASSUME NEW S \in SUBSET Nat, S # {}
  PROVE  \E p \in S : \A q \in S : p <= q
<1>1. \E p \in S : \A q \in S : ~(<<q, p>> \in OpToRel(<, Nat))
  BY NatLessThanWellFounded, WFMin
<1>2. \A p, q \in Nat : p < q => <<p, q>> \in OpToRel(<, Nat)
  BY DEF OpToRel
<1>3. PICK p \in S : \A q \in S : ~(q < p)
  BY <1>1, <1>2
<1> QED
  BY <1>3

\* Parents precede their children, and the root is nobody's child.
LEMMA TreeFacts ==
  /\ N \in Nat /\ Root \in Pos /\ Root = 0
  /\ \A c \in 1..N : Parent[c] \in Pos /\ Parent[c] # c /\ c \in Pos /\ c # Root
  /\ \A p \in Pos : \A c \in Children(p) : c \in 1..N /\ Parent[c] = p
  /\ \A p \in Pos : p # Root => p \in 1..N
  BY TreeAssumption DEF Pos, Root, Children

\* A position at fault is not opened, and what it hands up is a value's place.
LEMMA ValueFacts ==
  ASSUME NEW p \in Pos
  PROVE  /\ Opens(plan, p) => ~Blamed(plan, p) /\ plan[p] = "ok"
         /\ FailedValue(p) \in {"null", "violation"}
  BY DEF Opens, FailedValue

\* Under the mutex an error goes after all the errors recorded before it.
LEMMA AppendEffect ==
  ASSUME NEW p \in Pos, TypeOK, MutexInv, AppendError(p)
  PROVE  errors' = Append(errors, p)
<1>1. slot = Len(errors)
  BY DEF AppendError, MutexInv
<1>2. SubSeq(errors, 1, Len(errors)) = errors
  BY DEF TypeOK
<1> QED
  BY <1>1, <1>2 DEF AppendError

\* Every step keeps the variables in their ranges.
LEMMA TypeStep == TypeOK /\ MutexInv /\ [Next]_vars => TypeOK'
<1> SUFFICES ASSUME TypeOK, MutexInv, [Next]_vars PROVE TypeOK'
  OBVIOUS
<1> USE DEF TypeOK, request
<1>1. CASE Reject
  BY <1>1 DEF Reject
<1>2. CASE Accept
  BY <1>2, TreeFacts DEF Accept
<1>3. ASSUME NEW p \in Pos, Start(p) PROVE TypeOK'
  BY <1>3 DEF Start
<1>4. ASSUME NEW p \in Pos, Resolve(p) PROVE TypeOK'
  <2>1. \A v \in Values : [val EXCEPT ![p] = v] \in [Pos -> Values \cup {"none"}]
    OBVIOUS
  <2>2. val' \in [Pos -> Values \cup {"none"}]
    BY <1>4, <2>1 DEF Resolve, LeafValue, Values
  <2>3. st' \in [Pos -> {"idle", "resolve", "lock", "append", "wait", "done"}]
    BY <1>4 DEF Resolve
  <2> QED
    BY <1>4, <2>2, <2>3 DEF Resolve
<1>5. ASSUME NEW p \in Pos, LockErrors(p) PROVE TypeOK'
  BY <1>5 DEF LockErrors
<1>6. ASSUME NEW p \in Pos, AppendError(p) PROVE TypeOK'
  <2>2. errors' \in Seq(Pos)
    BY <1>6, AppendEffect
  <2>3. val' \in [Pos -> Values \cup {"none"}]
    BY <1>6 DEF AppendError, FailedValue, Values
  <2> QED
    BY <1>6, <2>2, <2>3 DEF AppendError, Unlock
<1>7. ASSUME NEW p \in Pos, Join(p) PROVE TypeOK'
  BY <1>7 DEF Join, AnyViolated, FailedValue, Values
<1>8. CASE UNCHANGED vars
  BY <1>8 DEF vars
<1> QED
  BY <1>1, <1>2, <1>3, <1>4, <1>5, <1>6, <1>7, <1>8 DEF Next, Step

\* Every step keeps one holder of the mutex, which knows where the list ends.
LEMMA MutexStep == TypeOK /\ OrderInv /\ MutexInv /\ [Next]_vars => MutexInv'
<1> SUFFICES ASSUME TypeOK, OrderInv, MutexInv, [Next]_vars PROVE MutexInv'
  OBVIOUS
<1> USE DEF TypeOK, MutexInv, request
<1>1. CASE Reject
  BY <1>1 DEF Reject
<1>2. CASE Accept
  BY <1>2, TreeFacts DEF Accept, OrderInv
<1>3. ASSUME NEW p \in Pos, Start(p) PROVE MutexInv'
  BY <1>3 DEF Start
<1>4. ASSUME NEW p \in Pos, Resolve(p) PROVE MutexInv'
  BY <1>4 DEF Resolve
<1>5. ASSUME NEW p \in Pos, LockErrors(p) PROVE MutexInv'
  BY <1>5 DEF LockErrors, Unlocked
<1>6. ASSUME NEW p \in Pos, AppendError(p) PROVE MutexInv'
  <2>1. mu = {p} /\ mu' = {}
    BY <1>6 DEF AppendError, Unlock
  <2>2. \A q \in Pos : st'[q] # "append"
    BY <1>6, <2>1 DEF AppendError
  <2> QED
    BY <2>1, <2>2
<1>7. ASSUME NEW p \in Pos, Join(p) PROVE MutexInv'
  BY <1>7 DEF Join
<1>8. CASE UNCHANGED vars
  BY <1>8 DEF vars
<1> QED
  BY <1>1, <1>2, <1>3, <1>4, <1>5, <1>6, <1>7, <1>8 DEF Next, Step

\* Every step keeps the error list equal to the finished positions at fault.
LEMMA ErrorsStep ==
  TypeOK /\ OrderInv /\ MutexInv /\ ErrorsOnce /\ [Next]_vars => ErrorsOnce'
<1> SUFFICES ASSUME TypeOK, OrderInv, MutexInv, ErrorsOnce, [Next]_vars
             PROVE  ErrorsOnce'
  OBVIOUS
<1>0. ASSUME UNCHANGED <<plan, errors>>,
             \A q \in Pos : Blamed(plan, q) =>
               (st'[q] = "done" <=> st[q] = "done")
      PROVE  ErrorsOnce'
  BY <1>0 DEF ErrorsOnce, Blamed
<1> USE DEF TypeOK, request
<1>1. CASE Reject
  BY <1>0, <1>1 DEF Reject
<1>2. CASE Accept
  BY <1>0, <1>2, TreeFacts DEF Accept, OrderInv, Checks
<1>3. ASSUME NEW p \in Pos, Start(p) PROVE ErrorsOnce'
  BY <1>0, <1>3 DEF Start
<1>4. ASSUME NEW p \in Pos, Resolve(p) PROVE ErrorsOnce'
  BY <1>0, <1>4 DEF Resolve
<1>5. ASSUME NEW p \in Pos, LockErrors(p) PROVE ErrorsOnce'
  BY <1>0, <1>5 DEF LockErrors
<1>6. ASSUME NEW p \in Pos, AppendError(p) PROVE ErrorsOnce'
  <2>1. errors' = Append(errors, p) /\ UNCHANGED plan
    BY <1>6, AppendEffect DEF AppendError
  <2>2. /\ st[p] = "append" /\ Blamed(plan, p)
        /\ st' = [st EXCEPT ![p] = "done"]
    BY <1>6 DEF AppendError, OrderInv
  <2>3. \A i \in DOMAIN errors : errors[i] # p
    BY <2>2 DEF ErrorsOnce
  <2>4. /\ DOMAIN errors' = 1..(Len(errors) + 1) /\ DOMAIN errors = 1..Len(errors)
        /\ Len(errors) \in Nat
        /\ \A i \in DOMAIN errors : errors'[i] = errors[i]
        /\ errors'[Len(errors) + 1] = p
    BY <2>1
  <2>5. \A i, j \in DOMAIN errors' : errors'[i] = errors'[j] => i = j
    BY <2>3, <2>4 DEF ErrorsOnce
  <2>6. \A q \in Pos : (st'[q] = "done" /\ Blamed(plan, q))
                         <=> \E i \in DOMAIN errors' : errors'[i] = q
    <3> TAKE q \in Pos
    <3>1. CASE q = p
      BY <3>1, <2>2, <2>4
    <3>2. CASE q # p
      <4>1. st'[q] = st[q]
        BY <2>2, <3>2
      <4>2. (\E i \in DOMAIN errors' : errors'[i] = q)
              <=> \E i \in DOMAIN errors : errors[i] = q
        BY <2>4, <3>2
      <4> QED
        BY <4>1, <4>2 DEF ErrorsOnce
    <3> QED
      BY <3>1, <3>2
  <2> QED
    BY <2>1, <2>5, <2>6 DEF ErrorsOnce, Blamed
<1>7. ASSUME NEW p \in Pos, Join(p) PROVE ErrorsOnce'
  <2>1. ~Blamed(plan, p)
    BY <1>7, ValueFacts DEF Join, OrderInv
  <2> QED
    BY <1>0, <1>7, <2>1 DEF Join
<1>8. CASE UNCHANGED vars
  BY <1>0, <1>8 DEF vars
<1> QED
  BY <1>1, <1>2, <1>3, <1>4, <1>5, <1>6, <1>7, <1>8 DEF Next, Step

\* Once a position has settled none of its children runs.
LEMMA JoinSettles ==
  ASSUME TypeOK, OrderInv, NEW p \in Pos, Join(p), NEW c \in Children(p)
  PROVE  ~Active(c)
<1>1. CASE \A d \in Children(p) : st[d] = "done"
  BY <1>1 DEF Active
<1>2. CASE GivesUp(p)
  <2>1. PICK v \in Children(p) : val[v] = "violation"
    BY <1>2 DEF GivesUp
  <2>2. /\ c \in 1..N /\ v \in 1..N /\ Parent[c] = p /\ Parent[v] = p
        /\ c \in Pos /\ v \in Pos /\ ~Parallel(p) /\ Kind[p] = "list"
    BY <1>2, TreeFacts DEF GivesUp, Parallel
  <2>3. st[v] = "done"
    BY <2>1, <2>2 DEF OrderInv
  <2>4. CASE c < v
    BY <2>2, <2>3, <2>4 DEF OrderInv, Active
  <2>5. CASE v < c
    BY <2>1, <2>2, <2>5 DEF OrderInv, Active
  <2>6. CASE c = v
    BY <2>3, <2>6 DEF Active
  <2> QED
    BY <2>2, <2>4, <2>5, <2>6
<1> QED
  BY <1>1, <1>2 DEF Join, Settled

\* Every step keeps parents waiting for what runs below them.
LEMMA StructuredStep ==
  TypeOK /\ OrderInv /\ Structured /\ [Next]_vars => Structured'
<1> SUFFICES ASSUME TypeOK, OrderInv, Structured, [Next]_vars
             PROVE  Structured'
  OBVIOUS
<1> USE TreeFacts DEF TypeOK, request, Structured, Active
<1>1. CASE Reject
  BY <1>1 DEF Reject, Checks
<1>2. CASE Accept
  BY <1>2 DEF Accept, OrderInv
<1>3. ASSUME NEW p \in Pos, Start(p) PROVE Structured'
  BY <1>3 DEF Start
<1>4. ASSUME NEW p \in Pos, Resolve(p) PROVE Structured'
  <2>1. p # Root /\ st[p] = "resolve" /\ UNCHANGED phase
    BY <1>4 DEF Resolve, OrderInv, Checks
  <2>2. PICK x \in {"lock", "wait", "done"} : st' = [st EXCEPT ![p] = x]
    BY <1>4 DEF Resolve
  <2> QED
    BY <2>1, <2>2
<1>5. ASSUME NEW p \in Pos, LockErrors(p) PROVE Structured'
  BY <1>5 DEF LockErrors
<1>6. ASSUME NEW p \in Pos, AppendError(p) PROVE Structured'
  <2>1. p # Root
    BY <1>6 DEF AppendError, OrderInv
  <2> QED
    BY <1>6, <2>1 DEF AppendError
<1>7. ASSUME NEW p \in Pos, Join(p) PROVE Structured'
  <2>1. st' = [st EXCEPT ![p] = "done"] /\ st[p] = "wait"
    BY <1>7 DEF Join
  <2>2. \A c \in 1..N : Active(c)' => st'[Parent[c]] = "wait"
    <3> SUFFICES ASSUME NEW c \in 1..N, Active(c)' PROVE st'[Parent[c]] = "wait"
      OBVIOUS
    <3>1. Active(c) /\ c # p
      BY <2>1
    <3>2. Parent[c] # p
      BY <1>7, <3>1, JoinSettles DEF Children
    <3> QED
      BY <2>1, <3>1, <3>2
  <2>3. Active(Root)' <=> phase' = "running"
    BY <1>7, <2>1 DEF Join, OrderInv
  <2> QED
    BY <2>2, <2>3
<1>8. CASE UNCHANGED vars
  BY <1>8 DEF vars
<1> QED
  BY <1>1, <1>2, <1>3, <1>4, <1>5, <1>6, <1>7, <1>8 DEF Next, Step

\* Every step keeps siblings in order and positions below opened ones.
LEMMA OrderStep == TypeOK /\ OrderInv /\ [Next]_vars => OrderInv'
<1> SUFFICES ASSUME TypeOK, OrderInv, [Next]_vars PROVE OrderInv'
  OBVIOUS
<1> USE TreeFacts DEF TypeOK, request
<1>a. ASSUME NEW p \in Pos, p # Root, UNCHANGED <<phase, request, val>>,
             st[p] \notin {"idle", "done"},
             NEW x \in {"lock", "append", "wait"}, st' = [st EXCEPT ![p] = x],
             x = "wait" => Opens(plan, p), x \in {"lock", "append"} => Blamed(plan, p)
      PROVE  OrderInv'
  <2>1. \A q \in Pos : st'[q] = (IF q = p THEN x ELSE st[q])
    BY <1>a
  <2>2. \A q \in 1..N : st'[q] # "idle" =>
          Opens(plan, Parent[q]) /\ st'[Parent[q]] \in {"wait", "done"}
    <3> SUFFICES ASSUME NEW q \in 1..N, st'[q] # "idle"
                 PROVE  Opens(plan, Parent[q]) /\ st'[Parent[q]] \in {"wait", "done"}
      OBVIOUS
    <3>1. st[q] # "idle"
      BY <1>a, <2>1
    <3>2. Opens(plan, Parent[q]) /\ st[Parent[q]] \in {"wait", "done"}
      BY <3>1 DEF OrderInv
    <3>3. CASE Parent[q] = p
      <4>1. ~Blamed(plan, p)
        BY <3>2, <3>3, ValueFacts
      <4> QED
        BY <1>a, <2>1, <3>2, <3>3, <4>1
    <3>4. CASE Parent[q] # p
      BY <2>1, <3>2, <3>4
    <3> QED
      BY <3>3, <3>4
  <2>3. \A q, r \in 1..N :
          Parent[q] = Parent[r] /\ q < r /\ ~Parallel(Parent[q]) /\ st'[r] # "idle"
          => /\ st'[q] = "done"
             /\ Kind[Parent[q]] = "list" => val[q] # "violation"
    BY <1>a, <2>1 DEF OrderInv
  <2>4. /\ \A q \in Pos : st'[q] = "wait" => Opens(plan, q)
        /\ \A q \in Pos : st'[q] \in {"lock", "append"} => Blamed(plan, q)
    BY <1>a, <2>1 DEF OrderInv
  <2>5. \A q \in Pos : val[q] = "none" <=> st'[q] # "done"
    BY <1>a, <2>1 DEF OrderInv
  <2>6. st'[Root] = st[Root]
    BY <1>a, <2>1
  <2> QED
    BY <1>a, <2>2, <2>3, <2>4, <2>5, <2>6 DEF OrderInv, Opens, Blamed, Parallel
<1>1. CASE Reject
  <2>1. /\ phase = "new" /\ phase' \in Checks
        /\ UNCHANGED <<request, st, val>>
    BY <1>1 DEF Reject
  <2>2. st[Root] = "idle"
    BY <2>1 DEF OrderInv
  <2>3. \A p \in 1..N : st[p] # "idle" =>
          Opens(plan, Parent[p]) /\ st[Parent[p]] \in {"wait", "done"}
    BY DEF OrderInv
  <2> QED
    BY <2>1, <2>2, <2>3 DEF OrderInv, Opens, Blamed, Parallel, Checks
<1>2. CASE Accept
  <2>1. Opens(plan, Root)
    BY TreeAssumption DEF Plans, Opens, Blamed, TooDeep
  <2> QED
    BY <1>2, <2>1 DEF Accept, OrderInv, Opens, Blamed, Parallel, Checks
<1>3. ASSUME NEW p \in Pos, Start(p) PROVE OrderInv'
  <2>1. /\ p \in 1..N /\ p # Root /\ st[p] = "idle" /\ st[Parent[p]] = "wait"
        /\ st' = [st EXCEPT ![p] = "resolve"]
        /\ UNCHANGED <<phase, request, val>>
    BY <1>3 DEF Start
  <2>2. ~Parallel(Parent[p]) =>
          \A q \in 1..N : Parent[q] = Parent[p] /\ q < p =>
            /\ st[q] = "done"
            /\ Kind[Parent[p]] = "list" => val[q] # "violation"
    BY <1>3, <2>1 DEF Start, Ready, GivesUp, Children
  <2>3. \A q \in Pos : st'[q] = (IF q = p THEN "resolve" ELSE st[q])
    BY <2>1
  <2>4. \A q \in 1..N : st'[q] # "idle" =>
          Opens(plan, Parent[q]) /\ st'[Parent[q]] \in {"wait", "done"}
    BY <2>1, <2>3 DEF OrderInv
  <2>5. \A q, r \in 1..N :
          Parent[q] = Parent[r] /\ q < r /\ ~Parallel(Parent[q]) /\ st'[r] # "idle"
          => /\ st'[q] = "done"
             /\ Kind[Parent[q]] = "list" => val[q] # "violation"
    BY <2>1, <2>2, <2>3 DEF OrderInv
  <2>6. /\ \A q \in Pos : st'[q] = "wait" => Opens(plan, q)
        /\ \A q \in Pos : st'[q] \in {"lock", "append"} => Blamed(plan, q)
        /\ \A q \in Pos : val[q] = "none" <=> st'[q] # "done"
    BY <2>1, <2>3 DEF OrderInv
  <2>7. st'[Root] = st[Root]
    BY <2>1, <2>3
  <2> QED
    BY <2>1, <2>4, <2>5, <2>6, <2>7 DEF OrderInv, Opens, Blamed, Parallel
<1>b. ASSUME NEW p \in Pos, NEW v \in Values, UNCHANGED request,
             st[p] \in {"resolve", "append", "wait"},
             st' = [st EXCEPT ![p] = "done"], val' = [val EXCEPT ![p] = v],
             phase' = IF p = Root THEN "answered" ELSE phase,
             p = Root => phase = "running"
      PROVE  OrderInv'
  <2>1. \A q \in Pos : /\ st'[q] = (IF q = p THEN "done" ELSE st[q])
                       /\ val'[q] = (IF q = p THEN v ELSE val[q])
    BY <1>b
  <2>2. \A q \in 1..N : st'[q] # "idle" =>
          Opens(plan, Parent[q]) /\ st'[Parent[q]] \in {"wait", "done"}
    BY <1>b, <2>1 DEF OrderInv
  <2>3. \A q, r \in 1..N :
          Parent[q] = Parent[r] /\ q < r /\ ~Parallel(Parent[q]) /\ st'[r] # "idle"
          => /\ st'[q] = "done"
             /\ Kind[Parent[q]] = "list" => val'[q] # "violation"
    BY <1>b, <2>1 DEF OrderInv
  <2>4. \A q \in Pos : val'[q] = "none" <=> st'[q] # "done"
    BY <1>b, <2>1 DEF OrderInv, Values
  <2>5. phase' \in {"new"} \cup Checks <=> st'[Root] = "idle"
    BY <1>b, <2>1 DEF OrderInv, Checks
  <2>6. phase' = "running" <=> st'[Root] = "wait"
    BY <1>b, <2>1 DEF OrderInv, Checks
  <2>8. phase' = "answered" <=> st'[Root] = "done"
    BY <1>b, <2>1 DEF OrderInv, Checks
  <2>7. /\ \A q \in Pos : st'[q] = "wait" => Opens(plan, q)
        /\ \A q \in Pos : st'[q] \in {"lock", "append"} => Blamed(plan, q)
    BY <1>b, <2>1 DEF OrderInv
  <2> QED
    BY <1>b, <2>2, <2>3, <2>4, <2>5, <2>6, <2>7, <2>8
       DEF OrderInv, Opens, Blamed, Parallel
<1>4. ASSUME NEW p \in Pos, Resolve(p) PROVE OrderInv'
  <2>1. p # Root /\ st[p] = "resolve" /\ UNCHANGED <<phase, request>>
    BY <1>4 DEF Resolve, OrderInv, Checks
  <2>2. CASE Blamed(plan, p) /\ st' = [st EXCEPT ![p] = "lock"] /\ UNCHANGED val
    BY <1>a, <2>1, <2>2
  <2>3. CASE Opens(plan, p) /\ st' = [st EXCEPT ![p] = "wait"] /\ UNCHANGED val
    BY <1>a, <2>1, <2>3
  <2>4. CASE \E v \in {"value", "null"} :
               /\ st' = [st EXCEPT ![p] = "done"]
               /\ val' = [val EXCEPT ![p] = v]
    BY <1>b, <2>1, <2>4 DEF Values
  <2> QED
    BY <1>4, <2>2, <2>3, <2>4 DEF Resolve, LeafValue
<1>5. ASSUME NEW p \in Pos, LockErrors(p) PROVE OrderInv'
  <2>1. p # Root /\ Blamed(plan, p)
    BY <1>5 DEF LockErrors, OrderInv, Checks
  <2> QED
    BY <1>a, <1>5, <2>1 DEF LockErrors
<1>6. ASSUME NEW p \in Pos, AppendError(p) PROVE OrderInv'
  <2>1. p # Root
    BY <1>6 DEF AppendError, OrderInv, Checks
  <2> QED
    BY <1>b, <1>6, <2>1, ValueFacts DEF AppendError, Values
<1>7. ASSUME NEW p \in Pos, Join(p) PROVE OrderInv'
  <2>1. PICK v \in Values : val' = [val EXCEPT ![p] = v]
    BY <1>7, ValueFacts DEF Join, AnyViolated, Values
  <2>2. p = Root => phase = "running"
    BY <1>7 DEF Join, OrderInv
  <2> QED
    BY <1>b, <1>7, <2>1, <2>2 DEF Join
<1>8. CASE UNCHANGED vars
  BY <1>8 DEF vars, OrderInv, Opens, Blamed, Parallel
<1> QED
  BY <1>1, <1>2, <1>3, <1>4, <1>5, <1>6, <1>7, <1>8 DEF Next, Step

\* Every step keeps the value of each finished position the one its children's
\* values give it.
LEMMA PropagatedStep ==
  TypeOK /\ OrderInv /\ Structured /\ Propagated /\ [Next]_vars => Propagated'
<1> SUFFICES ASSUME TypeOK, OrderInv, Structured, Propagated, [Next]_vars
             PROVE  Propagated'
  OBVIOUS
<1> USE TreeFacts DEF TypeOK, request
<1>0. ASSUME UNCHANGED <<plan, val>>, \A q \in Pos : st'[q] = "done" => st[q] = "done"
      PROVE  Propagated'
  BY <1>0 DEF Propagated
<1>1. ASSUME NEW p \in Pos, UNCHANGED plan, Active(p), NEW v \in Values,
             st' = [st EXCEPT ![p] = "done"], val' = [val EXCEPT ![p] = v],
             v = Completed(plan, val, p)
      PROVE  Propagated'
  <2>1. ASSUME NEW q \in Pos, st'[q] = "done"
        PROVE  val'[q] = Completed(plan, val', q)
    <3>1. \A c \in Children(q) : val'[c] = "violation" <=> val[c] = "violation"
      <4>1. CASE p \in Children(q)
        <5>1. st[q] = "wait" /\ q # p
          BY <4>1, <1>1 DEF Structured
        <5> QED
          BY <5>1, <1>1, <2>1
      <4>2. CASE p \notin Children(q)
        BY <4>2, <1>1
      <4> QED
        BY <4>1, <4>2
    <3>2. Completed(plan, val', q) = Completed(plan, val, q)
      BY <3>1 DEF Completed
    <3>3. CASE q = p
      BY <1>1, <3>2, <3>3
    <3>4. CASE q # p
      BY <1>1, <2>1, <3>2, <3>4 DEF Propagated
    <3> QED
      BY <3>3, <3>4
  <2> QED
    BY <1>1, <2>1 DEF Propagated
<1>2. CASE Reject
  BY <1>0, <1>2 DEF Reject
<1>3. CASE Accept
  BY <1>0, <1>3 DEF Accept
<1>4. ASSUME NEW p \in Pos, Start(p) PROVE Propagated'
  BY <1>0, <1>4 DEF Start
<1>5. ASSUME NEW p \in Pos, Resolve(p) PROVE Propagated'
  <2>1. CASE UNCHANGED val /\ \E x \in {"lock", "wait"} : st' = [st EXCEPT ![p] = x]
    BY <1>0, <1>5, <2>1 DEF Resolve
  <2>2. CASE ~Blamed(plan, p) /\ ~Opens(plan, p) /\ st' = [st EXCEPT ![p] = "done"]
    <3>1. plan[p] = "null" \/ (plan[p] = "ok" /\ Kind[p] = "leaf")
      BY <2>2 DEF Plans, Answers, Opens, Blamed
    <3>2. Kind[p] = "leaf" => Children(p) = {}
      BY TreeAssumption DEF Children
    <3>3. (IF plan[p] = "ok" THEN "value" ELSE "null") = Completed(plan, val, p)
      BY <2>2, <3>1, <3>2 DEF Completed
    <3> QED
      BY <1>1, <1>5, <2>2, <3>3 DEF Resolve, LeafValue, Active, Values
  <2> QED
    BY <1>5, <2>1, <2>2 DEF Resolve
<1>6. ASSUME NEW p \in Pos, LockErrors(p) PROVE Propagated'
  BY <1>0, <1>6 DEF LockErrors
<1>7. ASSUME NEW p \in Pos, AppendError(p) PROVE Propagated'
  <2>1. FailedValue(p) = Completed(plan, val, p)
    BY <1>7 DEF AppendError, OrderInv, Completed
  <2> QED
    BY <1>1, <1>7, <2>1, ValueFacts DEF AppendError, Active, Values
<1>8. ASSUME NEW p \in Pos, Join(p) PROVE Propagated'
  <2>1. ~Blamed(plan, p) /\ plan[p] = "ok"
    BY <1>8, ValueFacts DEF Join, OrderInv
  <2>2. (IF \E c \in Children(p) : val[c] = "violation" THEN FailedValue(p) ELSE "value")
          = Completed(plan, val, p)
    BY <2>1 DEF Completed
  <2> QED
    BY <1>1, <1>8, <2>2, ValueFacts DEF Join, AnyViolated, Active, Values
<1>9. CASE UNCHANGED vars
  BY <1>0, <1>9 DEF vars
<1> QED
  BY <1>2, <1>3, <1>4, <1>5, <1>6, <1>7, <1>8, <1>9 DEF Next, Step

\* What a step leaves alone: what is over, with its value, and the answers; and
\* how a position comes to be over.
LEMMA DoneStays ==
  ASSUME TypeOK, OrderInv, [Next]_vars
  PROVE  /\ plan' = plan
         /\ \A p \in Pos : st[p] = "done" => st'[p] = "done" /\ val'[p] = val[p]
         /\ \A p \in Pos : st[p] # "done" /\ st'[p] = "done" =>
              Resolve(p) \/ AppendError(p) \/ Join(p)
<1>1. plan' = plan
  BY DEF Next, Step, Reject, Accept, Start, Resolve, LockErrors, AppendError,
         Join, vars, request
<1> SUFFICES ASSUME NEW p \in Pos
             PROVE  /\ st[p] = "done" => st'[p] = "done" /\ val'[p] = val[p]
                    /\ st[p] # "done" /\ st'[p] = "done" =>
                         Resolve(p) \/ AppendError(p) \/ Join(p)
  BY <1>1
<1> USE DEF TypeOK
<1>2. CASE Reject \/ UNCHANGED vars
  BY <1>2 DEF Reject, vars
<1>3. CASE Accept
  BY <1>3, TreeFacts DEF Accept, OrderInv
<1>4. ASSUME NEW q \in Pos, Start(q) \/ LockErrors(q)
      PROVE  /\ st[p] = "done" => st'[p] = "done" /\ val'[p] = val[p]
             /\ ~(st[p] # "done" /\ st'[p] = "done")
  BY <1>4 DEF Start, LockErrors
<1>5. ASSUME NEW q \in Pos, Resolve(q) \/ AppendError(q) \/ Join(q)
      PROVE  /\ st[p] = "done" => st'[p] = "done" /\ val'[p] = val[p]
             /\ st[p] # "done" /\ st'[p] = "done" => q = p
  BY <1>5 DEF Resolve, AppendError, Join
<1> QED
  BY <1>2, <1>3, <1>4, <1>5 DEF Next, Step

\* Every step keeps what is over settled.
LEMMA SettledStep ==
  TypeOK /\ OrderInv /\ SettledInv /\ [Next]_vars => SettledInv'
<1> SUFFICES ASSUME TypeOK, OrderInv, SettledInv, [Next]_vars,
                    NEW p \in Pos, st'[p] = "done", Opens(plan, p)'
             PROVE  Settled(p)'
  BY DEF SettledInv
<1>1. plan' = plan /\ Opens(plan, p)
  BY DoneStays DEF Opens, Blamed
<1>2. ASSUME Settled(p) PROVE Settled(p)'
  <2>1. \A c \in Children(p) : c \in Pos
    BY TreeFacts
  <2>2. \A c \in Children(p) : val[c] = "violation" => st[c] = "done"
    BY <2>1 DEF OrderInv
  <2> QED
    BY <1>2, <2>1, <2>2, DoneStays DEF Settled, GivesUp
<1>3. CASE st[p] = "done"
  BY <1>1, <1>2, <1>3 DEF SettledInv
<1>4. CASE st[p] # "done"
  <2>1. Resolve(p) \/ AppendError(p) \/ Join(p)
    BY <1>4, DoneStays
  <2>2. ~Resolve(p)
    BY <1>1, ValueFacts DEF Resolve, TypeOK
  <2>3. ~AppendError(p)
    BY <1>1, ValueFacts DEF AppendError, OrderInv
  <2> QED
    BY <1>2, <2>1, <2>2, <2>3 DEF Join
<1> QED
  BY <1>3, <1>4

\* The initial states satisfy the inductive invariant.
LEMMA InitInd == Init => IndInv
<1> SUFFICES ASSUME Init PROVE IndInv
  OBVIOUS
<1> USE TreeFacts DEF Init
<1>1. TypeOK
  BY DEF TypeOK
<1>2. OrderInv
  BY DEF OrderInv, Checks
<1>3. MutexInv
  BY DEF MutexInv
<1>4. Structured
  BY DEF Structured, Active
<1>5. Propagated /\ ErrorsOnce /\ SettledInv
  BY DEF Propagated, ErrorsOnce, SettledInv
<1> QED
  BY <1>1, <1>2, <1>3, <1>4, <1>5 DEF IndInv

\* Every reachable state of an execution satisfies the inductive invariant.
THEOREM Inductive == Spec => []IndInv
<1>1. IndInv /\ [Next]_vars => IndInv'
  BY TypeStep, OrderStep, MutexStep, StructuredStep, PropagatedStep, ErrorsStep,
     SettledStep DEF IndInv
<1> QED
  BY InitInd, <1>1, PTL DEF Spec

\* Every variable of an execution stays in its range.
THEOREM TypeCorrect == Spec => []TypeOK
<1>1. IndInv => TypeOK
  BY DEF IndInv
<1> QED
  BY Inductive, <1>1, PTL

\* Whatever runs, the call that started it waits for it; when Execute has
\* returned nothing runs.
THEOREM StructuredConcurrency == Spec => []Structured
<1>1. IndInv => Structured
  BY DEF IndInv
<1> QED
  BY Inductive, <1>1, PTL

\* A failure reaches the nearest nullable position under every schedule.
THEOREM NullPropagation == Spec => []Propagated
<1>1. IndInv => Propagated
  BY DEF IndInv
<1> QED
  BY Inductive, <1>1, PTL

\* The shared error list loses and repeats nothing.
THEOREM NoLostError == Spec => []ErrorsOnce
<1>1. IndInv => ErrorsOnce
  BY DEF IndInv
<1> QED
  BY Inductive, <1>1, PTL

\* The root fields of a mutation never overlap and run in document order.
THEOREM MutationsSerial == Spec => []SerialMutation
<1>1. IndInv => SerialMutation
  <2> SUFFICES ASSUME IndInv, opKind = "mutation",
                      NEW p \in Children(Root), NEW q \in Children(Root),
                      p < q, st[q] # "idle"
               PROVE  st[p] = "done"
    BY DEF SerialMutation
  <2>1. /\ p \in 1..N /\ q \in 1..N /\ Parent[p] = Root /\ Parent[q] = Root
        /\ ~Parallel(Root)
    BY TreeFacts DEF Parallel
  <2> QED
    BY <2>1 DEF IndInv, OrderInv
<1> QED
  BY Inductive, <1>1, PTL

\* In serial execution, what lies between a position that has begun and its
\* parent is over or never begins.
LEMMA EarlierSettled ==
  ASSUME IndInv, ~concurrent,
         NEW q \in 1..N, NEW p \in 1..N, Parent[q] < p, p < q,
         \A s \in 1..N : Parent[s] = Parent[q] /\ s < q => st[s] = "done"
  PROVE  st[p] \in {"idle", "done"}
<1> DEFINE T == {r \in 1..N : Parent[q] < r /\ r < q /\ st[r] \notin {"idle", "done"}}
<1> SUFFICES ASSUME T # {} PROVE FALSE
  OBVIOUS
<1>1. T \in SUBSET Nat
  OBVIOUS
<1>2. PICK m \in T : \A n \in T : m <= n
  BY <1>1, First
<1> HIDE DEF T
<1>3. /\ m \in 1..N /\ Parent[q] < m /\ m < q /\ st[m] \notin {"idle", "done"}
      /\ Parent[m] \in Pos /\ Parent[m] < m /\ Parent[q] <= Parent[m]
      /\ Parent[q] \in Pos
  BY <1>2, TreeAssumption, TreeFacts DEF T
<1>4. Parent[m] # Parent[q]
  BY <1>3
<1>5. Parent[m] \in 1..N /\ Parent[q] < Parent[m] /\ Parent[m] < q
  BY <1>3, <1>4 DEF Pos
<1>6. Parent[m] \notin T
  <2>1. m \in Nat /\ Parent[m] \in Nat
    BY <1>3, <1>5
  <2> QED
    BY <2>1, <1>2, <1>3
<1>7. st[Parent[m]] \in {"idle", "done"}
  BY <1>5, <1>6 DEF T
<1>8. st[Parent[m]] = "wait"
  <2>1. Active(m)
    BY <1>3, TreeFacts DEF Active, IndInv, TypeOK
  <2> QED
    BY <1>3, <2>1 DEF IndInv, Structured
<1> QED
  BY <1>7, <1>8

\* In serial execution no position runs while a later one has begun: those
\* before it are over, wait for it, or never begin.
LEMMA EarlierNotRunning ==
  ASSUME IndInv, ~concurrent, NEW p \in 1..N, NEW d \in 1..N, p < d, st[d] # "idle"
  PROVE  st[p] \in {"idle", "wait", "done"}
<1> DEFINE T == {r \in 1..N : p < r /\ st[r] # "idle"}
<1>1. T \in SUBSET Nat /\ d \in T
  OBVIOUS
<1>2. PICK q \in T : \A n \in T : q <= n
  BY <1>1, First
<1>3. /\ q \in 1..N /\ p < q /\ st[q] # "idle" /\ Parent[q] \in Pos
      /\ st[Parent[q]] \in {"wait", "done"}
  BY <1>2, TreeFacts DEF IndInv, OrderInv
<1>4. ~(p < Parent[q])
  <2>1. SUFFICES ASSUME p < Parent[q] PROVE FALSE
    OBVIOUS
  <2>2. Parent[q] \in T
    BY <1>3, <2>1 DEF Pos
  <2>3. Parent[q] < q
    BY <1>3, TreeAssumption
  <2> QED
    BY <2>2, <2>3, <1>2, <1>3 DEF Pos
<1>5. CASE p = Parent[q]
  BY <1>3, <1>5
<1>6. CASE Parent[q] < p
  <2>1. \A s \in 1..N : Parent[s] = Parent[q] /\ s < q => st[s] = "done"
    BY <1>3 DEF IndInv, OrderInv, Parallel
  <2> QED
    BY <1>3, <1>6, <2>1, EarlierSettled
<1> QED
  BY <1>3, <1>4, <1>5, <1>6 DEF Pos

LEMMA OrderedStep ==
  IndInv /\ OrderedErrors /\ [Next]_vars => OrderedErrors'
<1> SUFFICES ASSUME IndInv, OrderedErrors, [Next]_vars PROVE OrderedErrors'
  OBVIOUS
<1>1. ASSUME NEW p \in Pos, AppendError(p), ~concurrent PROVE OrderedErrors'
  <2>1. errors' = Append(errors, p) /\ errors \in Seq(Pos)
    BY <1>1, AppendEffect DEF IndInv, TypeOK
  <2>2. st[p] = "append" /\ Blamed(plan, p)
    BY <1>1 DEF AppendError, IndInv, OrderInv
  <2>3. ASSUME NEW i \in DOMAIN errors PROVE errors[i] < p
    <3>1. errors[i] \in Pos /\ st[errors[i]] = "done"
      BY <2>1 DEF IndInv, ErrorsOnce
    <3>2. p # Root /\ errors[i] # p
      <4>1. ~Blamed(plan, Root)
        BY TreeAssumption DEF Blamed, IndInv, TypeOK, Plans, TooDeep, Root
      <4> QED
        BY <4>1, <2>2, <3>1
    <3>3. ~(p < errors[i])
      BY <1>1, <2>2, <3>1, <3>2, EarlierNotRunning, TreeFacts DEF Pos
    <3> QED
      BY <3>1, <3>2, <3>3, TreeFacts DEF Pos
  <2>4. /\ DOMAIN errors' = 1..(Len(errors) + 1) /\ DOMAIN errors = 1..Len(errors)
        /\ Len(errors) \in Nat
        /\ \A i \in DOMAIN errors : errors'[i] = errors[i]
        /\ errors'[Len(errors) + 1] = p
    BY <2>1
  <2> SUFFICES ASSUME NEW i \in DOMAIN errors', NEW j \in DOMAIN errors', i < j
               PROVE  errors'[i] < errors'[j]
    BY DEF OrderedErrors
  <2>5. i \in DOMAIN errors
    BY <2>4
  <2>6. CASE j \in DOMAIN errors
    BY <1>1, <2>4, <2>5, <2>6 DEF OrderedErrors
  <2>7. CASE j = Len(errors) + 1
    BY <2>3, <2>4, <2>5, <2>7
  <2> QED
    BY <2>4, <2>6, <2>7
<1>2. CASE concurrent
  BY <1>2 DEF OrderedErrors, Next, Step, Reject, Accept, Start, Resolve, LockErrors,
     AppendError, Join, vars, request
<1>3. CASE UNCHANGED <<errors, concurrent>>
  BY <1>3 DEF OrderedErrors
<1> QED
  BY <1>1, <1>2, <1>3 DEF Next, Step, Reject, Accept, Start, Resolve, LockErrors,
     AppendError, Join, vars, request

\* In serial execution errors are recorded in document order, whatever fails
\* and however deep (executor.go:174-188).
THEOREM ErrorsInOrder == Spec => []OrderedErrors
<1>1. Init => OrderedErrors
  BY DEF Init, OrderedErrors
<1> QED
  BY Inductive, <1>1, OrderedStep, PTL DEF Spec

\* No resolver is called below the fields of the deepest object allowed.
THEOREM DepthBounded == Spec => []DepthLimit
<1>1. Init => DepthLimit
  <2>1. Depth[Root] = 0 /\ MaxDepth \in Nat
    BY TreeAssumption
  <2> QED
    BY <2>1 DEF Init, DepthLimit
<1>2. IndInv /\ DepthLimit /\ [Next]_vars => DepthLimit'
  <2> SUFFICES ASSUME IndInv, DepthLimit, [Next]_vars PROVE DepthLimit'
    OBVIOUS
  <2>0. ASSUME \A p \in Pos : st'[p] # "idle" => st[p] # "idle" PROVE DepthLimit'
    BY <2>0 DEF DepthLimit
  <2> USE DEF IndInv, TypeOK
  <2>1. CASE Reject
    BY <2>0, <2>1 DEF Reject
  <2>2. CASE Accept
    <3>1. Depth[Root] = 0 /\ MaxDepth \in Nat
      BY TreeAssumption
    <3>2. \A p \in Pos : st'[p] # "idle" => p = Root \/ st[p] # "idle"
      BY <2>2 DEF Accept
    <3> QED
      BY <3>1, <3>2 DEF DepthLimit
  <2>3. ASSUME NEW p \in Pos, Start(p) PROVE DepthLimit'
    <3>1. /\ p \in 1..N /\ Parent[p] \in Pos /\ st[Parent[p]] = "wait"
          /\ \A q \in Pos : st'[q] # "idle" => q = p \/ st[q] # "idle"
      BY <2>3, TreeFacts DEF Start
    <3>2. Depth[p] = Depth[Parent[p]] + (IF Kind[Parent[p]] = "list" THEN 0 ELSE 1)
      BY <3>1, TreeAssumption
    <3>3. /\ MaxDepth > 0 => Depth[Parent[p]] <= MaxDepth + 1
          /\ Depth[Parent[p]] \in Nat /\ MaxDepth \in Nat
      BY <3>1, TreeAssumption DEF DepthLimit, Pos
    <3>4. MaxDepth > 0 /\ Kind[Parent[p]] = "object" => Depth[Parent[p]] <= MaxDepth
      <4>1. Opens(plan, Parent[p])
        BY <3>1 DEF OrderInv
      <4> QED
        BY <4>1, <3>3 DEF Opens, Blamed, TooDeep
    <3>5. Kind[Parent[p]] \in {"object", "list"}
      BY <3>1, TreeAssumption DEF Pos
    <3>6. MaxDepth > 0 => Depth[p] <= MaxDepth + 1
      BY <3>2, <3>3, <3>4, <3>5
    <3> QED
      BY <3>1, <3>6 DEF DepthLimit
  <2>4. ASSUME NEW p \in Pos, Resolve(p) PROVE DepthLimit'
    BY <2>0, <2>4 DEF Resolve
  <2>5. ASSUME NEW p \in Pos, LockErrors(p) PROVE DepthLimit'
    BY <2>0, <2>5 DEF LockErrors
  <2>6. ASSUME NEW p \in Pos, AppendError(p) PROVE DepthLimit'
    BY <2>0, <2>6 DEF AppendError
  <2>7. ASSUME NEW p \in Pos, Join(p) PROVE DepthLimit'
    BY <2>0, <2>7 DEF Join
  <2>8. CASE UNCHANGED vars
    BY <2>0, <2>8 DEF vars
  <2> QED
    BY <2>1, <2>2, <2>3, <2>4, <2>5, <2>6, <2>7, <2>8 DEF Next, Step
<1> QED
  BY <1>1, <1>2, Inductive, PTL DEF Spec

----------------------------------------------------------------------------
(* The values do not depend on the schedule.                               *)

\* R assigns each position the value the algorithm gives it, for the answers
\* of this execution.
IsResponse(R) == R \in [Pos -> Values] /\ \A p \in Pos : R[p] = Completed(plan, R, p)

\* What has been computed agrees with every such assignment.
Agrees(R) == IsResponse(R) => \A p \in Pos : st[p] = "done" => val[p] = R[p]

\* Every step keeps what has been computed in agreement with the algorithm.
LEMMA AgreesStep ==
  ASSUME NEW R PROVE IndInv /\ IndInv' /\ Agrees(R) /\ [Next]_vars => Agrees(R)'
<1> SUFFICES ASSUME IndInv, IndInv', Agrees(R), [Next]_vars, IsResponse(R)',
                    NEW p \in Pos, st'[p] = "done"
             PROVE  val'[p] = R[p]
  BY DEF Agrees
<1>1. plan' = plan /\ plan \in Plans
  BY DEF IndInv, TypeOK, Next, Step, Reject, Accept, Start, Resolve, LockErrors,
         AppendError, Join, vars, request
<1>2. IsResponse(R)
  BY <1>1 DEF IsResponse
<1>3. CASE st[p] = "done"
  <2>1. val[p] = R[p]
    BY <1>2, <1>3 DEF Agrees
  <2>2. val'[p] = val[p]
    BY <1>3 DEF IndInv, TypeOK, Next, Step, Reject, Accept, Start, Resolve,
                LockErrors, AppendError, Join, vars, request
  <2> QED
    BY <2>1, <2>2
<1>4. CASE st[p] # "done"
  <2>1. Resolve(p) \/ AppendError(p) \/ Join(p)
    BY <1>4 DEF IndInv, TypeOK, Next, Step, Reject, Accept, Start, Resolve,
                LockErrors, AppendError, Join, vars, request
  <2>2. val'[p] = Completed(plan, val', p)
    BY <1>1 DEF IndInv, Propagated
  <2>3. R[p] = Completed(plan, R, p)
    BY <1>2 DEF IsResponse
  <2>4. CASE Resolve(p) \/ AppendError(p)
    <3>1. Blamed(plan, p) \/ plan[p] = "null" \/ Children(p) = {}
      BY <1>4, <2>4, TreeAssumption
         DEF IndInv, OrderInv, TypeOK, Resolve, AppendError, Opens, Blamed, Plans,
             Answers, Children, Pos
    <3> QED
      BY <2>2, <2>3, <3>1 DEF Completed
  <2>5. CASE Join(p)
    <3>1. \A c \in Children(p) : c \in Pos /\ c # p
      BY TreeFacts
    <3>2. \A c \in Children(p) : val'[c] = val[c]
      BY <2>5, <3>1 DEF Join, IndInv, TypeOK
    <3>3. \A c \in Children(p) : val[c] # "none" => val[c] = R[c]
      BY <1>2, <3>1 DEF Agrees, IndInv, OrderInv
    <3>4. \/ \A c \in Children(p) : val[c] # "none"
          \/ \E c \in Children(p) : val[c] = "violation"
      BY <2>5, <3>1 DEF Join, Settled, GivesUp, IndInv, OrderInv
    <3>5. (\E c \in Children(p) : val'[c] = "violation")
            <=> (\E c \in Children(p) : R[c] = "violation")
      BY <3>2, <3>3, <3>4
    <3> QED
      BY <2>2, <2>3, <3>5 DEF Completed
  <2> QED
    BY <2>1, <2>4, <2>5
<1> QED
  BY <1>3, <1>4

\* Whatever the interleaving and the mode, each finished position has the one
\* value the algorithm defines: any assignment that satisfies its equations
\* agrees with what was computed.
THEOREM ScheduleIndependent == ASSUME NEW CONSTANT R PROVE Spec => []Agrees(R)
<1>1. Init => Agrees(R)
  BY DEF Init, Agrees
<1> QED
  BY <1>1, AgreesStep, Inductive, PTL DEF Spec

----------------------------------------------------------------------------
(* The response that Execute returns is the one the algorithm defines.     *)

\* The tree of the abstract specification is the same.
LEMMA SameTree ==
  /\ Result!Pos = Pos /\ Result!Root = Root /\ Result!Plans = Plans
  /\ \A p : Result!Children(p) = Children(p)
  /\ \A a, p : Result!Blamed(a, p) = Blamed(a, p) /\ Result!Opens(a, p) = Opens(a, p)
  /\ \A a, v, p : Result!Completed(a, v, p) = Completed(a, v, p)
  BY DEF Result!Pos, Pos, Result!Root, Root, Result!Plans, Plans, Result!Answers, Answers,
    Result!Children, Children, Result!Blamed, Blamed, Result!Opens, Opens, Result!TooDeep,
    TooDeep, Result!Completed, Completed, Result!FailedValue, FailedValue

\* Every choice of answers gives each position one of the values.
LEMMA CompletedType ==
  ASSUME NEW a \in Plans, NEW v, NEW p \in Pos
  PROVE  Completed(a, v, p) \in Values
<1>1. a[p] \in Answers
  BY DEF Plans
<1>2. FailedValue(p) \in Values
  BY DEF FailedValue, Values
<1> QED
  BY <1>1, <1>2 DEF Completed, Values, Answers, Blamed

\* There is an assignment of values that satisfies the algorithm's equations:
\* it is built from the last position up, as children follow their parents.
LEMMA ValuesExist ==
  ASSUME NEW a \in Plans
  PROVE  \E v \in [Pos -> Values] :
           \A p \in Pos : v[p] = Completed(a, v, p)
<1> DEFINE From(k) == \E v \in [Pos -> Values] :
                        \A p \in Pos : k <= p => v[p] = Completed(a, v, p)
           S == {k \in 0..(N + 1) : From(k)}
<1>1. N + 1 \in S
  <2>1. [p \in Pos |-> "null"] \in [Pos -> Values]
    BY DEF Values
  <2>2. \A p \in Pos : ~(N + 1 <= p)
    BY TreeAssumption DEF Pos
  <2>3. N + 1 \in 0..(N + 1)
    BY TreeAssumption
  <2> QED
    BY <2>1, <2>2, <2>3
<1>2. PICK k \in S : \A j \in S : k <= j
  <2>1. S \in SUBSET Nat
    OBVIOUS
  <2> HIDE DEF S
  <2> QED
    BY <1>1, <2>1, First
<1>3. CASE k = 0
  BY <1>2, <1>3 DEF Pos
<1>4. CASE k # 0
  <2>1. k - 1 \in Pos /\ k \in Nat
    BY <1>2, <1>4, TreeAssumption DEF Pos
  <2>2. PICK v \in [Pos -> Values] :
          \A p \in Pos : k <= p => v[p] = Completed(a, v, p)
    BY <1>2
  <2> DEFINE w == [v EXCEPT ![k - 1] = Completed(a, v, k - 1)]
  <2>3. w \in [Pos -> Values]
    BY <2>1, CompletedType
  <2>4. ASSUME NEW p \in Pos, k - 1 <= p PROVE Completed(a, w, p) = Completed(a, v, p)
    <3>1. \A c \in Children(p) : c \in Pos /\ c # k - 1
      BY <2>1, <2>4, TreeAssumption DEF Children, Pos
    <3>2. \A c \in Children(p) : w[c] = v[c]
      BY <3>1
    <3> HIDE DEF w
    <3> QED
      BY <3>2 DEF Completed
  <2>5. \A p \in Pos : k - 1 <= p => w[p] = Completed(a, w, p)
    <3> SUFFICES ASSUME NEW p \in Pos, k - 1 <= p PROVE w[p] = Completed(a, v, p)
      BY <2>4
    <3>1. CASE p = k - 1
      BY <2>1, <3>1
    <3>2. CASE p # k - 1
      <4>1. k <= p
        BY <2>1, <3>2 DEF Pos
      <4> QED
        BY <2>2, <3>2, <4>1
    <3> QED
      BY <3>1, <3>2
  <2>6. k - 1 \in S
    <3> HIDE DEF w
    <3>1. From(k - 1)
      BY <2>3, <2>5
    <3>2. k - 1 \in 0..(N + 1)
      BY <2>1, TreeAssumption DEF Pos
    <3> QED
      BY <3>1, <3>2
  <2> QED
    BY <1>2, <2>1, <2>6
<1> QED
  BY <1>3, <1>4

\* The response's values are such an assignment.
LEMMA ValueDefined ==
  ASSUME NEW a \in Plans
  PROVE  /\ Result!ValueOf(a) \in [Pos -> Values]
         /\ \A p \in Pos : Result!ValueOf(a)[p] = Completed(a, Result!ValueOf(a), p)
<1> DEFINE Eq(v, p) == Result!Completed(a, [c \in Result!Children(p) |-> v[c]], p)
           V == CHOOSE v : v = [p \in Result!Pos |-> Eq(v, p)]
<1>1. Result!ValueOf(a) = V
  BY DEF Result!ValueOf
<1>2. \A v, p : Eq(v, p) = Completed(a, v, p)
  <2> TAKE v, p
  <2>1. Eq(v, p) = Completed(a, [c \in Children(p) |-> v[c]], p)
    BY SameTree
  <2> QED
    BY <2>1 DEF Completed
<1> HIDE DEF Eq
<1>3. \E v : v = [p \in Result!Pos |-> Eq(v, p)]
  <2>1. PICK v \in [Pos -> Values] : \A p \in Pos : v[p] = Completed(a, v, p)
    BY ValuesExist
  <2>2. v = [p \in Pos |-> Eq(v, p)]
    BY <1>2, <2>1
  <2> QED
    BY <2>2, SameTree
<1>4. V = [p \in Pos |-> Completed(a, V, p)]
  <2>1. V = [p \in Result!Pos |-> Eq(V, p)]
    BY <1>3
  <2> HIDE DEF V
  <2> QED
    BY <1>2, <2>1, SameTree
<1> HIDE DEF V
<1> QED
  BY <1>1, <1>4, CompletedType

\* A property that a position of A has when its parent does is defined for every
\* position: from the root down.
LEMMA DownwardExists ==
  ASSUME NEW A
  PROVE  \E R \in SUBSET Pos :
           \A p \in Pos : p \in R <=> p \in A /\ (p = Root \/ Parent[p] \in R)
<1> DEFINE Upto(k) == \E R \in SUBSET Pos : \A p \in Pos : p < k =>
                        (p \in R <=> p \in A /\ (p = Root \/ Parent[p] \in R))
           S == {k \in 0..(N + 1) : ~Upto(k)}
<1>1. CASE S = {}
  <2>1. N + 1 \in 0..(N + 1) /\ \A p \in Pos : p < N + 1
    BY TreeAssumption DEF Pos
  <2>2. Upto(N + 1)
    BY <1>1, <2>1
  <2> QED
    BY <2>1, <2>2
<1>2. CASE S # {}
  <2>1. PICK k \in S : \A j \in S : k <= j
    <3>1. S \in SUBSET Nat
      OBVIOUS
    <3> HIDE DEF S
    <3> QED
      BY <1>2, <3>1, First
  <2>2. k # 0
    <3>1. {} \in SUBSET Pos /\ \A p \in Pos : ~(p < 0)
      BY TreeAssumption DEF Pos
    <3>2. Upto(0)
      BY <3>1
    <3> QED
      BY <2>1, <3>2
  <2>3. k \in Nat /\ k - 1 \in Pos /\ k - 1 \in 0..(N + 1)
    BY <2>1, <2>2, TreeAssumption DEF Pos
  <2>4. k - 1 \notin S
    BY <2>1, <2>3
  <2>5. PICK R \in SUBSET Pos : \A p \in Pos : p < k - 1 =>
          (p \in R <=> p \in A /\ (p = Root \/ Parent[p] \in R))
    BY <2>3, <2>4
  <2> DEFINE T == {p \in Pos : IF p = k - 1
                               THEN p \in A /\ (p = Root \/ Parent[p] \in R)
                               ELSE p \in R}
  <2>6. ASSUME NEW p \in Pos, p < k
        PROVE  p \in T <=> p \in A /\ (p = Root \/ Parent[p] \in T)
    <3>1. p # Root => (Parent[p] \in T <=> Parent[p] \in R)
      <4> SUFFICES ASSUME p # Root PROVE Parent[p] \in T <=> Parent[p] \in R
        OBVIOUS
      <4>1. p \in 1..N /\ Parent[p] \in Pos /\ Parent[p] < p
        BY TreeFacts, TreeAssumption
      <4>2. Parent[p] # k - 1
        BY <2>3, <2>6, <4>1 DEF Pos
      <4> QED
        BY <4>1, <4>2
    <3>2. p # k - 1 => p < k - 1
      BY <2>3, <2>6 DEF Pos
    <3> QED
      BY <2>5, <3>1, <3>2
  <2>7. Upto(k)
    <3>1. T \in SUBSET Pos
      OBVIOUS
    <3> HIDE DEF T
    <3> QED
      BY <2>6, <3>1
  <2> QED
    BY <2>1, <2>7
<1> QED
  BY <1>1, <1>2

\* The positions execution comes to satisfy the equation that defines them.
LEMMA ReachedDefined ==
  ASSUME NEW a \in Plans
  PROVE  LET V == Result!ValueOf(a)
             R == Result!ReachedBy(a)
         IN  /\ R \subseteq Pos
             /\ \A p \in Pos : p \in R <=>
                  \/ p = Root
                  \/ /\ Parent[p] \in R
                     /\ Opens(a, Parent[p])
                     /\ Kind[Parent[p]] = "list" =>
                          \A c \in Children(Parent[p]) : c < p => V[c] # "violation"
<1> DEFINE V == Result!ValueOf(a)
           Comes(p) == /\ Result!Opens(a, Parent[p])
                       /\ Kind[Parent[p]] = "list" =>
                            \A c \in Result!Children(Parent[p]) : c < p => V[c] # "violation"
           Eqn(f) == f = [p \in Result!Pos |-> p = Result!Root \/ (f[Parent[p]] /\ Comes(p))]
           F == CHOOSE f : Eqn(f)
<1>1. Result!ReachedBy(a) = {p \in Result!Pos : F[p]}
  BY DEF Result!ReachedBy
<1> HIDE DEF V
<1>2. \A p : Comes(p) <=> /\ Opens(a, Parent[p])
                          /\ Kind[Parent[p]] = "list" =>
                               \A c \in Children(Parent[p]) : c < p => V[c] # "violation"
  BY SameTree
<1> HIDE DEF Comes
<1>3. F = [p \in Pos |-> p = Root \/ (F[Parent[p]] /\ Comes(p))]
  <2>1. PICK R \in SUBSET Pos : \A p \in Pos : p \in R <=>
          p \in {q \in Pos : q = Root \/ Comes(q)} /\ (p = Root \/ Parent[p] \in R)
    BY DownwardExists
  <2> DEFINE g == [p \in Pos |-> p \in R]
  <2>2. \A p \in Pos : p \in R <=> (p = Root \/ (g[Parent[p]] /\ Comes(p)))
    BY <2>1, TreeFacts
  <2>3. g = [p \in Pos |-> p = Root \/ (g[Parent[p]] /\ Comes(p))]
    BY <2>2
  <2>4. Eqn(g)
    <3> HIDE DEF g
    <3> QED
      BY <2>3, SameTree
  <2>5. \E f : Eqn(f)
    BY <2>4
  <2>6. Eqn(F)
    <3> HIDE DEF Eqn
    <3> QED
      BY <2>5
  <2> HIDE DEF F
  <2> QED
    BY <2>6, SameTree
<1> HIDE DEF F
<1>4. \A p \in Pos : F[p] <=> p = Root \/ (F[Parent[p]] /\ Comes(p))
  BY <1>3
<1>5. Result!ReachedBy(a) = {p \in Pos : F[p]}
  BY <1>1, SameTree
<1>6. \A p \in Pos : p # Root => Parent[p] \in Pos
  BY TreeFacts
<1> QED
  BY <1>2, <1>4, <1>5, <1>6 DEF V

\* The positions shown satisfy the equation that defines them.
LEMMA ShownDefined ==
  ASSUME NEW v
  PROVE  /\ Shown(v) \subseteq Pos
         /\ \A p \in Pos : p \in Shown(v) <=>
              v[p] = "value" /\ (p = Root \/ Parent[p] \in Shown(v))
         /\ Result!Shown(v) = Shown(v)
<1> DEFINE Eqn(f) == f = [p \in Pos |-> v[p] = "value" /\ (p = Root \/ f[Parent[p]])]
           F == CHOOSE f : Eqn(f)
<1>1. Shown(v) = {p \in Pos : F[p]}
  BY DEF Shown
<1>2. \E f : Eqn(f)
  <2>1. PICK R \in SUBSET Pos : \A p \in Pos : p \in R <=>
          p \in {q \in Pos : v[q] = "value"} /\ (p = Root \/ Parent[p] \in R)
    BY DownwardExists
  <2> DEFINE g == [p \in Pos |-> p \in R]
  <2>2. \A p \in Pos : p \in R <=> (v[p] = "value" /\ (p = Root \/ g[Parent[p]]))
    BY <2>1, TreeFacts
  <2>3. Eqn(g)
    BY <2>2
  <2> QED
    BY <2>3
<1>3. Eqn(F)
  <2> HIDE DEF Eqn
  <2> QED
    BY <1>2
<1>4. \A p \in Pos : F[p] <=> v[p] = "value" /\ (p = Root \/ F[Parent[p]])
  <2> HIDE DEF F
  <2> QED
    BY <1>3
<1>5. Result!Shown(v) = Shown(v)
  BY DEF Result!Shown, Shown, Result!Pos, Pos, Result!Root, Root
<1> HIDE DEF F, Eqn
<1>6. \A p \in Pos : p # Root => Parent[p] \in Pos
  BY TreeFacts
<1> QED
  BY <1>1, <1>4, <1>5, <1>6

\* What is over has the value the algorithm defines.
LEMMA DoneAgrees ==
  ASSUME IndInv, NEW p \in Pos, st[p] = "done"
  PROVE  val[p] = Result!ValueOf(plan)[p]
<1> DEFINE V == Result!ValueOf(plan)
           S == {N - q : q \in {r \in Pos : st[r] = "done" /\ val[r] # V[r]}}
<1> SUFFICES ASSUME S # {} PROVE FALSE
  BY TreeAssumption DEF Pos
<1>1. PICK k \in S : \A j \in S : k <= j
  <2>1. S \in SUBSET Nat
    BY TreeAssumption DEF Pos
  <2> HIDE DEF S
  <2> QED
    BY <2>1, First
<1>2. PICK q \in Pos : k = N - q /\ st[q] = "done" /\ val[q] # V[q]
  BY <1>1
<1> HIDE DEF V
<1>3. ASSUME NEW c \in Children(q), st[c] = "done" PROVE val[c] = V[c]
  <2>1. c \in Pos /\ q < c /\ N \in Nat
    BY TreeAssumption DEF Children, Pos
  <2>2. N - c \in Int /\ N - q \in Int /\ N - c < N - q
    BY <2>1 DEF Pos
  <2>3. N - c \notin S
    <3> HIDE DEF S
    <3> QED
      BY <1>1, <1>2, <2>2
  <2> QED
    BY <1>3, <2>1, <2>3
<1>4. /\ val[q] = Completed(plan, val, q) /\ V[q] = Completed(plan, V, q)
      /\ plan[q] \in Answers
  BY <1>2, ValueDefined DEF V, IndInv, TypeOK, Propagated, Plans
<1>5. \A c \in Children(q) : c \in Pos
  BY TreeFacts
<1>6. CASE Blamed(plan, q) \/ plan[q] = "null"
  BY <1>2, <1>4, <1>6 DEF Completed
<1>7. CASE ~Blamed(plan, q) /\ plan[q] = "ok" /\ Kind[q] = "leaf"
  <2>1. Children(q) = {}
    BY <1>7, TreeAssumption DEF Children
  <2> QED
    BY <1>2, <1>4, <2>1 DEF Completed
<1>8. CASE Opens(plan, q)
  <2>1. \/ \A c \in Children(q) : st[c] = "done"
        \/ \E c \in Children(q) : val[c] = "violation"
    BY <1>2, <1>8 DEF IndInv, SettledInv, Settled, GivesUp
  <2>2. \A c \in Children(q) : val[c] = "violation" => st[c] = "done"
    BY <1>5 DEF IndInv, OrderInv
  <2>3. (\E c \in Children(q) : val[c] = "violation")
          <=> \E c \in Children(q) : V[c] = "violation"
    BY <1>3, <2>1, <2>2
  <2> QED
    BY <1>2, <1>4, <2>3 DEF Completed
<1>9. plan[q] = "error" => Blamed(plan, q)
  BY DEF Blamed
<1> QED
  BY <1>4, <1>6, <1>7, <1>8, <1>9 DEF Opens, Answers

\* While a position runs, Execute has not returned: the calls above it wait.
LEMMA RunsBelowRoot ==
  ASSUME IndInv, NEW p \in Pos, Active(p)
  PROVE  phase = "running"
<1> DEFINE S == {q \in Pos : Active(q)}
<1>1. S \in SUBSET Nat /\ p \in S
  BY DEF Pos
<1>2. PICK q \in S : \A r \in S : q <= r
  BY <1>1, First
<1>3. CASE q = Root
  BY <1>2, <1>3 DEF IndInv, Structured
<1>4. CASE q # Root
  <2>1. q \in 1..N /\ Parent[q] \in Pos /\ Parent[q] < q
    BY <1>4, TreeFacts, TreeAssumption
  <2>2. Active(Parent[q])
    BY <1>2, <2>1 DEF IndInv, Structured, Active
  <2> QED
    BY <1>2, <2>1, <2>2 DEF Pos
<1> QED
  BY <1>3, <1>4

\* When Execute has returned, no position is under way.
LEMMA AllOver ==
  ASSUME IndInv, phase = "answered", NEW p \in Pos
  PROVE  st[p] \in {"idle", "done"}
<1>1. ~Active(p)
  BY RunsBelowRoot
<1> QED
  BY <1>1 DEF Active, IndInv, TypeOK

\* When Execute has returned, what is over is what the algorithm comes to.
LEMMA OverIsReached ==
  ASSUME IndInv, phase = "answered"
  PROVE  Result!ReachedBy(plan) = {p \in Pos : st[p] = "done"}
<1> DEFINE V == Result!ValueOf(plan)
           R == Result!ReachedBy(plan)
           S == {p \in Pos : ~(p \in R <=> st[p] = "done")}
<1>1. R \subseteq Pos
  BY ReachedDefined DEF IndInv, TypeOK
<1> SUFFICES ASSUME S # {} PROVE FALSE
  BY <1>1
<1>2. PICK p \in S : \A q \in S : p <= q
  <2>1. S \in SUBSET Nat
    BY DEF Pos
  <2> HIDE DEF S
  <2> QED
    BY <2>1, First
<1>0. plan \in Plans
  BY DEF IndInv, TypeOK
<1>a. \A q \in Pos : q \in R <=>
        \/ q = Root
        \/ /\ Parent[q] \in R
           /\ Opens(plan, Parent[q])
           /\ Kind[Parent[q]] = "list" =>
                \A c \in Children(Parent[q]) : c < q => V[c] # "violation"
  BY <1>0, ReachedDefined
<1>b. \A q \in Pos : st[q] = "done" => val[q] = V[q]
  BY DoneAgrees
<1> HIDE DEF V, R
<1>3. Root \in Pos /\ Root \in R
  BY <1>a, TreeFacts
<1>4. p # Root
  BY <1>2, <1>3 DEF IndInv, OrderInv
<1>5. p \in 1..N /\ Parent[p] \in Pos /\ Parent[p] < p /\ p \in Children(Parent[p])
  BY <1>2, <1>4, TreeFacts, TreeAssumption DEF Children
<1>6. Parent[p] \in R <=> st[Parent[p]] = "done"
  BY <1>2, <1>5 DEF Pos
<1>7. \A c \in Children(Parent[p]) : c \in 1..N /\ c \in Pos /\ Parent[c] = Parent[p]
  BY <1>5, TreeFacts
<1>8. \A c \in Children(Parent[p]) : st[c] = "done" => val[c] = V[c]
  BY <1>7, <1>b
<1>9. CASE st[p] = "done"
  <2>1. Opens(plan, Parent[p]) /\ st[Parent[p]] = "done"
    BY <1>5, <1>9, AllOver DEF IndInv, OrderInv
  <2>2. ASSUME Kind[Parent[p]] = "list", NEW c \in Children(Parent[p]), c < p
        PROVE  V[c] # "violation"
    <3>1. st[c] = "done" /\ val[c] # "violation"
      BY <1>5, <1>7, <1>9, <2>2 DEF IndInv, OrderInv, Parallel
    <3> QED
      BY <1>8, <3>1
  <2> QED
    BY <1>2, <1>a, <1>6, <1>9, <2>1, <2>2
<1>10. CASE st[p] # "done"
  <2>1. p \in R
    BY <1>2, <1>10
  <2>2. Settled(Parent[p])
    BY <1>2, <1>4, <1>a, <1>5, <1>6, <2>1 DEF IndInv, SettledInv
  <2>3. GivesUp(Parent[p])
    BY <1>5, <1>10, <2>2 DEF Settled
  <2>4. PICK c \in Children(Parent[p]) : val[c] = "violation"
    BY <2>3 DEF GivesUp
  <2>5. st[c] = "done" /\ V[c] = "violation"
    BY <1>7, <1>8, <2>4 DEF IndInv, OrderInv
  <2>6. ~(c < p)
    BY <1>2, <1>4, <1>a, <2>1, <2>3, <2>5 DEF GivesUp
  <2>7. p < c
    BY <1>5, <1>7, <1>10, <2>5, <2>6
  <2> QED
    BY <1>5, <1>7, <1>10, <2>3, <2>5, <2>7 DEF GivesUp, IndInv, OrderInv, Parallel
<1> QED
  BY <1>9, <1>10

\* When Execute has returned, the data is the algorithm's: what was never
\* reached is below a null.
LEMMA DataIsShown ==
  ASSUME IndInv, phase = "answered"
  PROVE  Shown(val) = Shown(Result!ValueOf(plan))
<1> DEFINE V == Result!ValueOf(plan)
           S == {p \in Pos : ~(p \in Shown(val) <=> p \in Shown(V))}
<1>1. Shown(val) \subseteq Pos /\ Shown(V) \subseteq Pos
  BY ShownDefined
<1> SUFFICES ASSUME S # {} PROVE FALSE
  BY <1>1
<1>2. PICK p \in S : \A q \in S : p <= q
  <2>1. S \in SUBSET Nat
    BY DEF Pos
  <2> HIDE DEF S
  <2> QED
    BY <2>1, First
<1>a. \A q \in Pos : st[q] = "done" => val[q] = V[q]
  BY DoneAgrees
<1>b. \A q \in Pos : V[q] = Completed(plan, V, q)
  BY ValueDefined DEF IndInv, TypeOK
<1> HIDE DEF V
<1>3. p \in Pos /\ p # Root => Parent[p] \in Pos /\ Parent[p] < p
  BY <1>2, TreeFacts, TreeAssumption
<1>4. p # Root => (Parent[p] \in Shown(val) <=> Parent[p] \in Shown(V))
  BY <1>2, <1>3 DEF Pos
<1>5. st[p] = "idle"
  <2>1. st[p] # "done"
    BY <1>2, <1>4, <1>a, ShownDefined
  <2> QED
    BY <1>2, <2>1, AllOver
<1>6. p # Root /\ p \notin Shown(val)
  BY <1>2, <1>5, ShownDefined DEF IndInv, OrderInv, Checks
<1>7. Parent[p] \in Shown(val) /\ Parent[p] \in Shown(V)
  BY <1>2, <1>4, <1>6, ShownDefined
<1>8. val[Parent[p]] = "value" /\ V[Parent[p]] = "value"
  BY <1>3, <1>6, <1>7, ShownDefined
<1>9. st[Parent[p]] = "done" /\ p \in Children(Parent[p]) /\ Parent[p] \in Pos
  BY <1>2, <1>3, <1>6, <1>8, TreeFacts DEF IndInv, OrderInv, Children
<1>10. ~Blamed(plan, Parent[p]) /\ plan[Parent[p]] = "ok"
       /\ \A c \in Children(Parent[p]) : V[c] # "violation"
  <2>1. V[Parent[p]] = Completed(plan, V, Parent[p]) /\ plan[Parent[p]] \in Answers
    BY <1>9, <1>b DEF IndInv, TypeOK, Plans
  <2> QED
    BY <1>8, <2>1 DEF Completed, FailedValue, Answers, Blamed
<1>11. Opens(plan, Parent[p])
  BY <1>2, <1>6, <1>10, TreeFacts, TreeAssumption DEF Opens
<1>12. PICK c \in Children(Parent[p]) : val[c] = "violation"
  BY <1>5, <1>9, <1>11 DEF IndInv, SettledInv, Settled, GivesUp
<1>13. c \in Pos /\ st[c] = "done"
  BY <1>9, <1>12, TreeFacts DEF IndInv, OrderInv
<1> QED
  BY <1>10, <1>12, <1>13, <1>a

\* When Execute has returned, the data and the errors are the algorithm's.
AnswerDefined ==
  phase = "answered" =>
    /\ Shown(val) = Result!Shown(Result!ValueOf(plan))
    /\ {errors[i] : i \in DOMAIN errors}
         = {p \in Result!ReachedBy(plan) : Result!Blamed(plan, p)}

LEMMA AnswerIsResponse == IndInv => AnswerDefined
<1> SUFFICES ASSUME IndInv, phase = "answered"
             PROVE  {errors[i] : i \in DOMAIN errors}
                      = {p \in Result!ReachedBy(plan) : Result!Blamed(plan, p)}
  BY DataIsShown, ShownDefined DEF AnswerDefined
<1>1. \A i \in DOMAIN errors : errors[i] \in Pos
  BY DEF IndInv, TypeOK
<1> QED
  BY <1>1, OverIsReached, SameTree DEF IndInv, ErrorsOnce

\* The initial states are the abstract specification's.
LEMMA InitMaps == Init => Result!ResponseInit
  BY SameTree DEF Init, Result!ResponseInit, Checks

\* A step of one position is a step of the abstract specification when it ends
\* the execution of the root selection set, and none otherwise.
LEMMA StepMaps ==
  ASSUME IndInv, AnswerDefined', NEW p \in Pos, Step(p)
  PROVE  Result!Respond \/ UNCHANGED Result!responseVars
<1>1. phase = "running"
  <2>1. Active(p) \/ (p \in 1..N /\ Active(Parent[p]))
    BY TreeFacts DEF Step, Start, Resolve, LockErrors, AppendError, Join, Active
  <2> QED
    BY <2>1, RunsBelowRoot, TreeFacts
<1>2. plan' = plan /\ phase' \in {"running", "answered"}
  BY <1>1 DEF Step, Start, Resolve, LockErrors, AppendError, Join, request
<1>3. CASE phase' = "running"
  BY <1>1, <1>2, <1>3 DEF Result!responseVars, Checks
<1>4. CASE phase' = "answered"
  <2>1. /\ Shown(val') = Result!Shown(Result!ValueOf(plan))
        /\ {errors'[i] : i \in DOMAIN errors'}
             = {q \in Result!ReachedBy(plan) : Result!Blamed(plan, q)}
    BY <1>2, <1>4 DEF AnswerDefined
  <2> QED
    BY <1>1, <1>2, <1>4, <2>1 DEF Result!Respond, Checks
<1> QED
  BY <1>2, <1>3, <1>4

\* Every step is one of the abstract specification or none.
LEMMA NextMaps ==
  IndInv /\ AnswerDefined' /\ [Next]_vars =>
    [Result!Refuse \/ Result!Respond]_Result!responseVars
<1> SUFFICES ASSUME IndInv, AnswerDefined', [Next]_vars
             PROVE  Result!Refuse \/ Result!Respond \/ UNCHANGED Result!responseVars
  OBVIOUS
<1>1. CASE Reject
  BY <1>1 DEF Reject, Result!Refuse, Checks, request
<1>2. CASE Accept
  BY <1>2 DEF Accept, Result!responseVars, Checks, request
<1>3. CASE UNCHANGED vars
  BY <1>3 DEF vars, Result!responseVars
<1> QED
  BY <1>1, <1>2, <1>3, StepMaps DEF Next

\* Execute implements the response that the algorithm defines: the data and the
\* errors of the answer are those of ValueOf and ReachedBy for any response
\* tree, any answers of user code, serial or concurrent, and under every
\* schedule (executor.go:37-93).
THEOREM Implements == Spec => ImplementsResponse
<1>1. Spec => []IndInv
  BY Inductive
<1> QED
  BY <1>1, InitMaps, NextMaps, AnswerIsResponse, PTL DEF Spec, ImplementsResponse, Result!ResponseSpec
====
