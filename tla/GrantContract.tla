--------------------------- MODULE GrantContract ---------------------------
(***************************************************************************)
(* What a broker promises about one-use grants, whatever happens to its    *)
(* process and its disk: a grant is spent at most once and acted on at     *)
(* most once, and one whose revocation the broker has acknowledged is never*)
(* spent afterwards.  The contract is stated by the comments of            *)
(* crates/blindpass-broker/src/grants.rs ("durable one-use consumption     *)
(* records") and relied upon by the controller (module Operations).        *)
(***************************************************************************)
EXTENDS Naturals

CONSTANT Grants  \* grant identifiers

VARIABLES
  state,  \* "none", "held", "spent" or "dead"
  acts    \* how often the broker acted on each grant

contractVars == <<state, acts>>

ContractInit ==
  /\ state = [g \in Grants |-> "none"]
  /\ acts = [g \in Grants |-> 0]

\* A held grant may be lost again (a restart, an expiry, a newer policy) and come back.
Move(g, from, to) ==
  /\ state[g] \in from
  /\ state' = [state EXCEPT ![g] = to]
  /\ UNCHANGED acts

Act(g) ==
  /\ state[g] = "spent" /\ acts[g] = 0
  /\ acts' = [acts EXCEPT ![g] = 1]
  /\ UNCHANGED state

\* A restart or a newer policy takes several held grants at once.
DropSome ==
  /\ \E S \in SUBSET {g \in Grants : state[g] = "held"} :
       state' = [g \in Grants |-> IF g \in S THEN "none" ELSE state[g]]
  /\ UNCHANGED acts

ContractNext ==
  \/ DropSome
  \/ \E g \in Grants :
       \/ Move(g, {"none"}, "held")
       \/ Move(g, {"held"}, "spent")
       \/ Move(g, {"none", "held"}, "dead")
       \/ Act(g)

ContractSpec == ContractInit /\ [][ContractNext]_contractVars
=============================================================================
