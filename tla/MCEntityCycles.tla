---- MODULE MCEntityCycles ----
(* An instance of EntityCycles for TLC: every graph of references among     *)
(* four entity types.                                                       *)
EXTENDS EntityCycles

CONSTANTS A, B, C, D

Four == {A, B, C, D}

Graphs(T) == {g \in [T -> SUBSET T] : \A t \in T : t \notin g[t]}
Graphs4 == Graphs(Four)
====
