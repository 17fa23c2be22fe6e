----------------------------- MODULE MCExchange -----------------------------
(* Finite instances of Exchange for TLC. *)
EXTENDS Exchange, TLC

CONSTANTS r1, r2, f1, op1, op2, v1, v2, c1, c2, c3, shared

MCRingOf(agent) == IF agent \in {r1, f1} THEN "north" ELSE NoOne

ExchangeTerms(r) == [requester |-> r, fulfiller |-> f1, secret |-> "db", purpose |-> "ci"]

Rule(id, mode) ==
  [id |-> id, secret |-> "db", requesters |-> {}, fulfillers |-> {f1}, purposes |-> {},
   requesterRings |-> {}, fulfillerRings |-> {}, sameRing |-> FALSE, allowedRings |-> {},
   mode |-> mode, reason |-> NoOne, reference |-> NoOne, approvers |-> {},
   approverRings |-> {}]

Document(rules) == [registry |-> [db |-> "restricted"], rules |-> rules]

AllowAll == Document(<<Rule("standing", "allow")>>)

\* Two rules that name one shared reference and different approvers, a document that
\* allows r1's ring outright, and one that validation refuses.
Ask(id, op) == [Rule(id, "pending_approval") EXCEPT !.approvers = {op}, !.reference = shared]
SameRing == [Rule("ring", "allow") EXCEPT !.sameRing = TRUE, !.allowedRings = {"north"}]
AskAll == Document(<<Ask("ask", op1)>>)
AskOther == Document(<<Ask("other", op2)>>)
RingFirst == Document(<<SameRing, Ask("ask", op1)>>)
AskNobody == Document(<<[Ask("ask", op1) EXCEPT !.approvers = {}]>>)

MCDocuments == {AllowAll, AskAll, AskOther, RingFirst, AskNobody}

MCTerms == {ExchangeTerms(r1)}

\* One standing rule and three handlers, of the requester, the fulfiller and an
\* administrator.
Delivery ==
  [agents |-> {r1, r2, f1}, values |-> {v1, v2}, conns |-> {c1, c2, c3},
   documents |-> {AllowAll}, first |-> AllowAll, ttl |-> 1, versions |-> 1]

\* Approvals, decided by two operators while the document is replaced.
Approval ==
  [agents |-> {r1, f1}, values |-> {}, conns |-> {c1, c2},
   documents |-> MCDocuments \ {AllowAll}, first |-> AskAll, ttl |-> 3, versions |-> 2]

MCScenarios == {Delivery, Approval}

\* c3 is not exchangeable: one scenario does without it.
Symmetry == Permutations({c1, c2})
=============================================================================
