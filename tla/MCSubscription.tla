---- MODULE MCSubscription ----
(* Instances of Subscription for TLC: who may cancel, and both adapters.   *)
EXTENDS Subscription

CONSTANTS c1, c2

Two == {c1, c2}
Both == {"chan", "iter"}
====
