---- MODULE EntityCycles ----
(***************************************************************************)
(* Gateway.detectEntityCycles (gateway.go:258-343): the depth-first search *)
(* for a cycle of references among entity types, over Go maps, which a     *)
(* range visits in any order, and the path it reports.                     *)
(***************************************************************************)
EXTENDS Naturals, Sequences

CONSTANTS
  Types,            \* the entity types of all subgraphs
  Schemas           \* the reference graphs that merged schemas may have

\* A type's references to itself are left out (gateway.go:279).
ASSUME CyclesAssumption ==
  \A adj \in Schemas :
    /\ adj \in [Types -> SUBSET Types]
    /\ \A t \in Types : t \notin adj[t]

VARIABLES
  adj,              \* adj[t]: the entity types that fields of t refer to
  phase,            \* "search", "trace", "rejected" or "accepted"
  todo,             \* the types the outer range has not visited yet
  color,            \* white, gray or black
  left,             \* left[t]: neighbors dfs(t)'s range has not visited yet
  parent,           \* parent[t]: the type t was reached from, a set of <= 1
  stack,            \* the calls of dfs under way, outermost first
  cycle,            \* the path under reconstruction
  finished          \* history: the types in the order they became black

vars == <<adj, phase, todo, color, left, parent, stack, cycle, finished>>

Top == stack[Len(stack)]

Init ==
  /\ adj \in Schemas
  /\ phase = "search"
  /\ todo = Types
  /\ color = [t \in Types |-> "white"]
  /\ left = [t \in Types |-> {}]
  /\ parent = [t \in Types |-> {}]
  /\ stack = << >>
  /\ cycle = << >>
  /\ finished = << >>

\* A call of dfs(t) begins.
Enter(t) ==
  /\ color' = [color EXCEPT ![t] = "gray"]
  /\ left' = [left EXCEPT ![t] = adj[t]]
  /\ stack' = Append(stack, t)

\* The outer range visits t.
VisitRoot(t) ==
  /\ phase = "search"
  /\ stack = << >>
  /\ t \in todo
  /\ todo' = todo \ {t}
  /\ \/ color[t] = "white" /\ Enter(t)
     \/ color[t] # "white" /\ UNCHANGED <<color, left, stack>>
  /\ UNCHANGED <<adj, phase, parent, cycle, finished>>

\* The range of the innermost call visits one of its neighbors.
VisitWhite(t) ==
  /\ phase = "search"
  /\ stack # << >>
  /\ t \in left[Top]
  /\ color[t] = "white"
  /\ parent' = [parent EXCEPT ![t] = {Top}]
  /\ color' = [color EXCEPT ![t] = "gray"]
  /\ left' = [left EXCEPT ![Top] = @ \ {t}, ![t] = adj[t]]
  /\ stack' = Append(stack, t)
  /\ UNCHANGED <<adj, phase, todo, cycle, finished>>

\* A neighbor that is done with is passed over.
SkipsVisited(t) == color[t] # "white"
Skips(t) == color[t] = "black"

StaysAt(t) == left[Top]
Rest(t) == left[Top] \ {t}

VisitBlack(t) ==
  /\ phase = "search"
  /\ stack # << >>
  /\ t \in left[Top]
  /\ Skips(t)
  /\ left' = [left EXCEPT ![Top] = Rest(t)]
  /\ UNCHANGED <<adj, phase, todo, color, parent, stack, cycle, finished>>

\* A neighbor in the current path: its reconstruction begins.
ClosesOnNonWhite(t) == color[t] # "white"
Closes(t) == color[t] = "gray"

VisitGray(t) ==
  /\ phase = "search"
  /\ stack # << >>
  /\ t \in left[Top]
  /\ Closes(t)
  /\ phase' = "trace"
  /\ cycle' = <<t, Top>>
  /\ UNCHANGED <<adj, todo, color, left, parent, stack, finished>>

\* The innermost call has visited all its neighbors and returns nil.
Blackened(t) == [color EXCEPT ![t] = "black"]

Retreat ==
  /\ phase = "search"
  /\ stack # << >>
  /\ left[Top] = {}
  /\ color' = Blackened(Top)
  /\ finished' = Append(finished, Top)
  /\ stack' = SubSeq(stack, 1, Len(stack) - 1)
  /\ UNCHANGED <<adj, phase, todo, left, parent, cycle>>

Accept ==
  /\ phase = "search"
  /\ stack = << >>
  /\ todo = {}
  /\ phase' = "accepted"
  /\ UNCHANGED <<adj, todo, color, left, parent, stack, cycle, finished>>

----------------------------------------------------------------------------
(* The reconstruction: from the type where the path closed back along the  *)
(* parents, until the neighbor that closed it comes round.                 *)

Neighbor == cycle[1]
Current == cycle[Len(cycle)]

RoundTrip == Current = Neighbor

TraceBack ==
  /\ phase = "trace"
  /\ ~RoundTrip
  /\ \E t \in parent[Current] : cycle' = Append(cycle, t)
  /\ UNCHANGED <<adj, phase, todo, color, left, parent, stack, finished>>

Backwards(s) == [i \in 1..Len(s) |-> s[Len(s) + 1 - i]]

\* The readable order, returned through every call under way.
Reject ==
  /\ phase = "trace"
  /\ RoundTrip \/ parent[Current] = {}
  /\ phase' = "rejected"
  /\ cycle' = Backwards(cycle)
  /\ UNCHANGED <<adj, todo, color, left, parent, stack, finished>>

Next ==
  \/ \E t \in Types : VisitRoot(t) \/ VisitWhite(t) \/ VisitBlack(t) \/ VisitGray(t)
  \/ Retreat
  \/ Accept
  \/ TraceBack
  \/ Reject

Spec == Init /\ [][Next]_vars

\* detectEntityCycles is one sequential call.
FairSpec == Spec /\ WF_vars(Next)

----------------------------------------------------------------------------

\* Every variable of the search stays in its range (gateway.go:288-336).
TypeOK ==
  /\ adj \in Schemas
  /\ phase \in {"search", "trace", "rejected", "accepted"}
  /\ todo \in SUBSET Types
  /\ color \in [Types -> {"white", "gray", "black"}]
  /\ left \in [Types -> SUBSET Types]
  /\ parent \in [Types -> SUBSET Types]
  /\ stack \in Seq(Types)
  /\ cycle \in Seq(Types)
  /\ finished \in Seq(Types)

\* Acyclic: in every set of types, one refers to none of the set.
Acyclic ==
  \A S \in SUBSET Types : S # {} => \E t \in S : adj[t] \cap S = {}

\* A schema is composed only when its entities' references have no cycle
\* (gateway.go:197-200, 329-335), in whatever order the maps are visited.
AcceptsOnlyAcyclic == phase = "accepted" => Acyclic

IsWalk(s) == \A i \in 1..(Len(s) - 1) : s[i + 1] \in adj[s[i]]

\* A rejection shows a cycle that exists: each type of the reported path
\* refers to the next, and the last one is the first (gateway.go:302-316).
ReportsCycle ==
  phase = "rejected" =>
    Len(cycle) > 2 /\ IsWalk(cycle) /\ cycle[1] = cycle[Len(cycle)]

\* The search ends, whatever the graph (gateway.go:297-327).
Decides == <>(phase \in {"accepted", "rejected"})

----------------------------------------------------------------------------
(* The inductive strengthening.                                            *)

OnStack(t) == \E i \in 1..Len(stack) : stack[i] = t
Finished(t) == \E i \in 1..Len(finished) : finished[i] = t

\* The stack is a path of distinct gray types, each the parent of the next.
GrayOnStack == \A t \in Types : color[t] = "gray" <=> OnStack(t)
OnStackOnce == \A i, j \in 1..Len(stack) : stack[i] = stack[j] => i = j
StackIsPath ==
  \A i \in 1..(Len(stack) - 1) :
    /\ parent[stack[i + 1]] = {stack[i]}
    /\ stack[i + 1] \in adj[stack[i]]

\* What a finished type refers to was finished before it.
BlackFinished == \A t \in Types : color[t] = "black" <=> Finished(t)
FinishOrder ==
  \A i \in 1..Len(finished) : \A u \in adj[finished[i]] :
    \E j \in 1..(i - 1) : finished[j] = u

\* A range visits neighbors only.
LeftInside == \A i \in 1..Len(stack) : left[stack[i]] \subseteq adj[stack[i]]

\* A neighbor that a call under way has visited is finished, or is the next
\* call.
VisitedFinished ==
  \A i \in 1..Len(stack) : \A u \in adj[stack[i]] \ left[stack[i]] :
    \/ color[u] = "black"
    \/ i < Len(stack) /\ stack[i + 1] = u

\* No type is forgotten by the outer range.
NoneForgotten ==
  /\ \A t \in Types : color[t] = "white" => t \in todo
  /\ phase = "accepted" => stack = << >> /\ todo = {}

\* The path under reconstruction runs down the stack from its top.
TraceInv ==
  /\ phase = "trace" =>
       /\ Len(cycle) \in 2..(Len(stack) + 1)
       /\ Neighbor \in adj[Top]
       /\ \A i \in 2..Len(cycle) : cycle[i] = stack[Len(stack) + 2 - i]
       /\ \E k \in 1..(Len(stack) + 2 - Len(cycle)) : stack[k] = Neighbor
  /\ ReportsCycle

IndInv ==
  /\ TypeOK
  /\ GrayOnStack
  /\ OnStackOnce
  /\ StackIsPath
  /\ BlackFinished
  /\ FinishOrder
  /\ LeftInside
  /\ VisitedFinished
  /\ NoneForgotten
  /\ TraceInv
====
