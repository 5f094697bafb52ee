---- MODULE MCExecutor ----
(* Instances of Executor for TLC: response shapes small enough to explore  *)
(* with every answer of user code and every schedule.                      *)
EXTENDS Executor

\* Depth of each position of a tree, as completeObjectValue counts it.
DepthsOf(n, parent, kind) ==
  LET depth[p \in 0..n] ==
        IF p = 0 THEN 0
        ELSE depth[parent[p]] + (IF kind[parent[p]] = "list" THEN 0 ELSE 1)
  IN  depth

\* { nodes: [Node!] { ... on User { id! friend { id } } }  total! } with a user
\* and a node that is none: friend is deeper than MaxDepth 1 allows.
NodesN == 7
NodesParent == <<0, 1, 2, 2, 4, 1, 0>>
NodesKind == [p \in 0..7 |-> IF p \in {0, 2, 4, 6} THEN "object"
                             ELSE IF p = 1 THEN "list" ELSE "leaf"]
NodesNonNull == [p \in 0..7 |-> p \in {2, 3, 6, 7}]
NodesDepth == DepthsOf(7, NodesParent, NodesKind)
====
