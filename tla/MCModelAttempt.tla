-------------------------- MODULE MCModelAttempt --------------------------
(* Two rounds of one work item. x and y are two replies of one provider    *)
(* request with different usage, z a reply without a provider identity.    *)
EXTENDS ModelAttempt

CONSTANTS w1, q1, q2, x, y, z, id1

MCWork == {w1}
MCRequest == {q1, q2}
MCDirective == {x, y, z}
MCIdentity == [d \in MCDirective |-> IF d = z THEN None ELSE id1]
MCUsage == [d \in MCDirective |-> IF d = y THEN 2 ELSE 1]
=============================================================================
