--------------------------- MODULE MCProvisioning ---------------------------
(* Two people and one or two grants of one resource.                       *)
EXTENDS Provisioning, TLC

CONSTANTS alice, bob, g1, g2

MCRoles == (alice :> {"admin", "operator"}) @@ (bob :> {"admin"})
MCDecider == [g \in Grants |-> alice]

\* One grant under every pair of disturbances, or two grants that compete
\* for the broker's book and the idempotency key with none.
MCScenarios == {[grants |-> {g1}, faults |-> 2], [grants |-> {g1, g2}, faults |-> 0]}
=============================================================================
