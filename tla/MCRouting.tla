------------------------------ MODULE MCRouting ------------------------------
(* Instances of Routing for TLC: a primary, and another model of the same  *)
(* provider as its failover target.                                        *)
EXTENDS Routing

CONSTANTS r1, r2

TwoRequests == {r1, r2}

TwoModels == <<[provider |-> "p1", model |-> "m1"],
               [provider |-> "p1", model |-> "m2"]>>

=============================================================================
