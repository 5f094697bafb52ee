---- MODULE MCEntityResolver ----
(* Instances of EntityResolver for TLC: a shipping subgraph that serves two *)
(* fields of a product, one of which requires the price, and a reviews      *)
(* subgraph that serves a third.                                            *)
EXTENDS EntityResolver, TLC

MCFields == {"cost", "weight", "stars"}
MCNames == MCFields \cup {"id", "sku", "price"}
MCSubgraphs == {"shipping", "reviews"}
MCOwner == [f \in MCFields |-> IF f = "stars" THEN "reviews" ELSE "shipping"]
MCKeys == [s \in MCSubgraphs |-> IF s = "reviews" THEN {"sku"} ELSE {"id"}]
MCRequires == [f \in MCFields |-> IF f = "cost" THEN {"price"} ELSE {}]
MCSources == {{"id", "sku", "price"}, {"id", "weight"}}

CONSTANTS r1, r2
Two == {r1, r2}
One == {r1}
Symmetric == Permutations(Two)
====
