---- MODULE ResponseTree ----
(***************************************************************************)
(* The positions of one response and what the GraphQL algorithm of         *)
(* executor.go makes of each of them: fields, list items, and the operation's *)
(* root selection set as position 0.                                       *)
(*                                                                         *)
(* Positions are numbered in document order: a parent before its children, *)
(* siblings left to right, and below a position before what follows it.    *)
(***************************************************************************)
EXTENDS Naturals

CONSTANTS
  N,          \* positions are 0..N
  Parent,     \* the enclosing object or list of a position other than 0
  Kind,       \* "object", "list" or "leaf", after unwrapping non-null
  NonNull,    \* the position's type is wrapped in non-null
  Depth,      \* string elements in the position's path
  MaxDepth    \* ExecuteParams.MaxDepth; 0 means no limit

Pos == 0..N
Root == 0
Children(p) == {c \in 1..N : Parent[c] = p}

ASSUME TreeAssumption ==
  /\ N \in Nat /\ MaxDepth \in Nat
  /\ Parent \in [1..N -> 0..N]
  /\ \A c \in 1..N : Parent[c] < c /\ Kind[Parent[c]] # "leaf"
  /\ \A c, d \in 1..N : Parent[d] < c /\ c < d => Parent[d] <= Parent[c]
  /\ Kind \in [0..N -> {"object", "list", "leaf"}] /\ Kind[Root] = "object"
  /\ NonNull \in [0..N -> BOOLEAN] /\ ~NonNull[Root]
  /\ \A c, d \in 1..N : Parent[c] = Parent[d] /\ Kind[Parent[c]] = "list"
                          => NonNull[c] = NonNull[d]
  /\ Depth \in [0..N -> Nat] /\ Depth[Root] = 0
  /\ \A c \in 1..N :
       Depth[c] = Depth[Parent[c]] + (IF Kind[Parent[c]] = "list" THEN 0 ELSE 1)

\* What user code answers at a position: a value of the right shape, null, or
\* an error (of argument coercion, the resolver, Serialize, a value that is no
\* list, an abstract type without a runtime type).
Answers == {"ok", "null", "error"}
Plans == {plan \in [Pos -> Answers] : plan[Root] = "ok"}

\* A position completes to a value or null, or tells its parent that a
\* non-null position has none (errNonNullViolation).
Values == {"value", "null", "violation"}

TooDeepByOne(p) == MaxDepth > 0 /\ Depth[p] > MaxDepth + 1
TooDeep(p) == MaxDepth > 0 /\ Depth[p] > MaxDepth

\* The position itself is at fault: an error is recorded with its path.
Blamed(plan, p) ==
  \/ plan[p] = "error"
  \/ plan[p] = "null" /\ NonNull[p]
  \/ plan[p] = "ok" /\ Kind[p] = "object" /\ TooDeep(p)

\* fieldError, and completeListValue for an item: a nullable position swallows
\* the failure.
FailedValue(p) == IF NonNull[p] THEN "violation" ELSE "null"

\* The position has a selection set or items to complete.
Opens(plan, p) == plan[p] = "ok" /\ Kind[p] # "leaf" /\ ~Blamed(plan, p)

\* The value of p, given those of its children.
Completed(plan, val, p) ==
  CASE Blamed(plan, p) -> FailedValue(p)
    [] ~Blamed(plan, p) /\ plan[p] = "null" -> "null"
    [] ~Blamed(plan, p) /\ plan[p] = "ok" ->
         IF \E c \in Children(p) : val[c] = "violation"
         THEN FailedValue(p) ELSE "value"

\* The positions whose value the response shows: no ancestor is null.
Shown(val) ==
  LET shows[p \in Pos] == val[p] = "value" /\ (p = Root \/ shows[Parent[p]])
  IN  {p \in Pos : shows[p]}
====
