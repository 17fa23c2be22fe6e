--------------------------- MODULE ExchangePolicy ---------------------------
(***************************************************************************)
(* Evaluation of an exchange policy document: PolicyDocument::evaluate of  *)
(* crates/blindpass-core/src/policy.rs.  A document has a registry, a      *)
(* function from the secrets it knows to their classification, and a       *)
(* sequence of rules; the first rule that matches decides.                 *)
(*                                                                         *)
(* Strings are compared, never inspected, except for the ring embedded in  *)
(* an agent identifier, which the constant RingOf gives.  Requester and    *)
(* fulfiller are always of the controller's one workspace here.            *)
(***************************************************************************)
EXTENDS Integers, Sequences

CONSTANTS
  NoOne,      \* an absent optional field
  RingOf(_)   \* the /ring/<name> part of an agent identifier, or NoOne

\* validate_policy: rules are told apart by their ids, speak of registered secrets, and
\* ask for approval only of operators they name.
ValidPolicy(doc) ==
  /\ \A n \in DOMAIN doc.rules :
       LET rule == doc.rules[n] IN
         /\ \A k \in DOMAIN doc.rules : doc.rules[k].id = rule.id => k = n
         /\ rule.secret \in DOMAIN doc.registry
         /\ rule.mode \in {"allow", "pending_approval", "deny"}
         /\ rule.mode = "pending_approval" => rule.approvers # {}
         /\ rule.approverRings = {}

\* A missing or empty list restricts nothing.
Includes(list, candidate) == list = {} \/ candidate \in list

\* `same_ring` asks for one ring shared by both parties, and an allowed one.
RingsAgree(rule, terms) ==
  rule.sameRing =>
    /\ RingOf(terms.requester) # NoOne
    /\ RingOf(terms.requester) = RingOf(terms.fulfiller)
    /\ Includes(rule.allowedRings, RingOf(terms.requester))

Matches(rule, terms) ==
  /\ rule.secret = terms.secret
  /\ Includes(rule.requesters, terms.requester)
  /\ Includes(rule.fulfillers, terms.fulfiller)
  /\ Includes(rule.purposes, terms.purpose)
  /\ Includes(rule.requesterRings, RingOf(terms.requester))
  /\ Includes(rule.fulfillerRings, RingOf(terms.fulfiller))
  /\ RingsAgree(rule, terms)

NoDecision ==
  [mode |-> "none", rule |-> NoOne, reason |-> <<"none", NoOne>>, reference |-> NoOne,
   rings |-> <<NoOne, NoOne>>, secret |-> NoOne, allowed |-> NoOne,
   approvers |-> {}, approverRings |-> {}]

\* `allowed` is the fulfiller an "allow" admits; the approvers are not part of
\* the hash.  A rule without a reason gets one naming mode and classification; the
\* first part of a reason says where its text comes from.
Decision(rule, doc, terms) ==
  [mode |-> rule.mode, rule |-> rule.id,
   reason |-> IF rule.reason = NoOne
                THEN <<"classified", <<rule.mode, doc.registry[terms.secret]>>>>
                ELSE <<"stated", rule.reason>>,
   reference |-> rule.reference,
   rings |-> <<RingOf(terms.requester), RingOf(terms.fulfiller)>>,
   secret |-> terms.secret,
   allowed |-> IF rule.mode = "allow" THEN terms.fulfiller ELSE NoOne,
   approvers |-> rule.approvers, approverRings |-> rule.approverRings]

MatchIndices(doc, terms) == {n \in DOMAIN doc.rules : Matches(doc.rules[n], terms)}

\* Registry first, then the first matching rule.
Evaluate(doc, terms) ==
  IF terms.secret \notin DOMAIN doc.registry \/ MatchIndices(doc, terms) = {}
    THEN NoDecision
    ELSE LET first == CHOOSE n \in MatchIndices(doc, terms) :
                        \A m \in MatchIndices(doc, terms) : n <= m
         IN  Decision(doc.rules[first], doc, terms)

\* hash_policy_decision is injective in the fields it covers, so a hash is
\* modelled as those fields.
PolicyHash(decision) ==
  [mode |-> decision.mode, rule |-> decision.rule, reason |-> decision.reason,
   reference |-> decision.reference, rings |-> decision.rings,
   secret |-> decision.secret, allowed |-> decision.allowed]
=============================================================================
