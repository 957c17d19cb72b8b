------------------------ MODULE MCPublicModelBudget ------------------------
(* Three requests of two visitors, one of which reserves two attempts. *)
EXTENDS PublicModelBudget

CONSTANTS r1, r2, r3, v1, v2

MCVisitorOf == [r \in Requests |-> IF r = r3 THEN v2 ELSE v1]
MCCallsOf == [r \in Requests |-> IF r = r3 THEN 2 ELSE 1]
=============================================================================
