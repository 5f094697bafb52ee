---- MODULE Response ----
(***************************************************************************)
(* The response the GraphQL algorithm defines for a request, as a function *)
(* of what user code answers at each position and of nothing else: no      *)
(* goroutine, no order.  Executor.tla implements it.                       *)
(***************************************************************************)
EXTENDS ResponseTree

VARIABLES
  answers,       \* what user code answers at each position
  state,         \* "pending", "answered" or "rejected"
  shown,         \* the response's data: the positions with a value
  blamed         \* the response's errors: the positions at fault

responseVars == <<answers, state, shown, blamed>>

\* The value of every position, from the leaves up.
ValueOf(plan) ==
  LET value[p \in Pos] == Completed(plan, [c \in Children(p) |-> value[c]], p)
  IN  value

\* The positions execution comes to: those of an object all, those of a list
\* up to the first item that fails the list.
ReachedBy(plan) ==
  LET value == ValueOf(plan)
      reached[p \in Pos] ==
        \/ p = Root
        \/ /\ reached[Parent[p]]
           /\ Opens(plan, Parent[p])
           /\ Kind[Parent[p]] = "list" =>
                \A c \in Children(Parent[p]) : c < p => value[c] # "violation"
  IN  {p \in Pos : reached[p]}

ResponseInit ==
  /\ answers \in Plans
  /\ state = "pending"
  /\ shown = {} /\ blamed = {}

Refuse ==
  /\ state = "pending"
  /\ state' = "rejected"
  /\ UNCHANGED <<answers, shown, blamed>>

Respond ==
  /\ state = "pending"
  /\ state' = "answered"
  /\ shown' = Shown(ValueOf(answers))
  /\ blamed' = {p \in ReachedBy(answers) : Blamed(answers, p)}
  /\ UNCHANGED answers

ResponseSpec == ResponseInit /\ [][Refuse \/ Respond]_responseVars
====
