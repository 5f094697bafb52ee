---- MODULE FederatedResponse ----
(***************************************************************************)
(* What a federated request answers, as a function of what the subgraphs   *)
(* answer: Gateway.Execute with its on-demand entities (gateway.go:60-82,  *)
(* 374-430), without order and cache.  The planner is to answer the same,  *)
(* and to refuse the operations whose entities cannot be reached.  Types   *)
(* are nullable here.                                                      *)
(***************************************************************************)
EXTENDS FederatedQuery

VARIABLES
  state,            \* "pending", "answered" or "refused"
  shown,            \* the data: each visible position's "value" or "null"
  failed            \* the errors: the places that they report

vars == <<op, answers, state, shown, failed>>

\* The parent object carries the field, or its entity is resolved.
Carried(n) ==
  \/ ~Crosses(n)
  \/ op[n].field \in Has[Home(op[n].parent)][TypeOf(op[n].parent)]
Reached(p) == Carried(p[1]) \/ EntityAnswer(Parent(p), Home(p[1])) = "ok"

Live(p) == Reached(p) /\ AnswerAt(p) = "ok"

\* A selected field of an object that the response shows.
Visible(p) == ~LeftOut(p[1]) /\ \A q \in Between(Root, p) : Live(q)

Data ==
  [p \in {q \in Positions : Visible(q)} |-> IF Live(p) THEN "value" ELSE "null"]

Errors ==
  {p \in Positions : Visible(p) /\ Reached(p) /\ AnswerAt(p) = "error"}
  \cup {x \in EntityPlaces :
          /\ AnswerAt(x) = "error"
          /\ \E p \in Positions : /\ Visible(p) /\ ~Carried(p[1])
                                  /\ Parent(p) = <<x[1], x[2]>> /\ Home(p[1]) = x[3]}

Init ==
  /\ op \in Operations
  /\ answers \in Faulty
  /\ state = "pending"
  /\ shown = << >>
  /\ failed = {}

Answer ==
  /\ state = "pending"
  /\ Federated
  /\ state' = "answered"
  /\ shown' = Data
  /\ failed' = Errors
  /\ UNCHANGED <<op, answers>>

Refuse ==
  /\ state = "pending"
  /\ ~Federated
  /\ state' = "refused"
  /\ UNCHANGED <<op, answers, shown, failed>>

Spec == Init /\ [][Answer \/ Refuse]_vars
====
