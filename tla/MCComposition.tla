---- MODULE MCComposition ----
(* Three subgraphs with a query type, a type and two fields; then two of   *)
(* which one declares metadata and entities, for TLC.                      *)
EXTENDS Composition, TLC

CONSTANTS Query, User, Order, Other, a, b

Plain(ext) == [external |-> ext, requires |-> {}, provides |-> {},
               returns |-> Leaf, resolve |-> FALSE]
Own == Plain(FALSE)
External == Plain(TRUE)

Blank == [f \in Fields |-> None]
Root(d) == [f \in Fields |-> IF f = a THEN d ELSE None]

\* Every way to declare the fields of User, as an entity of the second
\* subgraph.
Merging ==
  {[s \in 1..N |-> [fields |-> [t \in Types |->
                                  IF t = User THEN u[s]
                                  ELSE IF t = Query /\ s # 2
                                       THEN Root([Own EXCEPT !.resolve = TRUE])
                                  ELSE IF t = Query THEN Root(Own)
                                  ELSE Blank],
                    entities |-> IF s = 2 THEN {User} ELSE {},
                    query |-> Query,
                    mutation |-> None]] :
     u \in [1..N -> [Fields -> {None, Own, External}]]}

\* User and Order refer to each other or not, are entities or not, and
\* require or provide what there may not be.
Metadata ==
  {[s \in 1..N |-> [fields |-> [t \in Types |->
                                  IF t = Query THEN Root([Own EXCEPT !.returns = User, !.provides = p])
                                  ELSE IF t = User THEN
                                    [f \in Fields |->
                                       IF f = b /\ s = 1 THEN [Own EXCEPT !.returns = u, !.requires = r]
                                       ELSE IF f = a /\ s = 2 THEN Own ELSE None]
                                  ELSE IF s = 2
                                       THEN Root([Own EXCEPT !.returns = v, !.resolve = TRUE])
                                       ELSE Blank],
                    entities |-> IF s = 1 THEN e ELSE IF s = 2 THEN {Order} ELSE {},
                    query |-> Query,
                    mutation |-> IF s = 2 THEN m ELSE None]] :
     p \in {{}, {a}}, u \in {Order, Leaf}, v \in {User, Leaf},
     r \in SUBSET Fields, e \in {{}, {User}}, m \in {None, Order}}

Three == Merging \cup Metadata

====
