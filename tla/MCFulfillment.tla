--------------------------- MODULE MCFulfillment ---------------------------
(***************************************************************************)
(* Two fulfillments to one destination, the second replacing the first.    *)
(***************************************************************************)
EXTENDS Fulfillment

Rule(named, decision) == [named |-> named, decision |-> decision]

\* A policy that allows the pair, one that asks for approval behind a rule for other
\* workloads, and one whose rules are all about others.
Allowing == <<Rule(TRUE, "allow"), Rule(TRUE, "deny")>>
Asking == <<Rule(FALSE, "allow"), Rule(TRUE, "pending_approval")>>
Silent == <<Rule(FALSE, "allow")>>

MCDocuments == {Allowing, Asking, Silent}

Scene(rules, ids, faults) == [rules |-> rules, ids |-> ids, faults |-> faults]

MCScenes ==
  {\* One fulfillment under losses, restarts and a full queue.
   Scene(Allowing, {1}, {"lost", "broker", "relay", "lifetime", "full"}),
   \* A request that waits for its approval, and grounds that change at any time.
   Scene(Asking, {1}, {"policy", "party", "disable"}),
   Scene(Silent, {1}, {"policy"}),
   \* A replacement, and root provisions the destination at any time.
   Scene(Allowing, {1, 2}, {"provision"})}
=============================================================================
