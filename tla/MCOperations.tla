---------------------------- MODULE MCOperations ----------------------------
(* Small fleets: up to two requests of one workload, two operators, two handlers. *)
EXTENDS Operations, TLC

CONSTANTS op1, op2, o1, o2, c1, c2

Allow == [decision |-> "allow", approvers |-> {}]
Ask == [decision |-> "pending_approval", approvers |-> {op1, op2}]
Deny == [decision |-> "deny", approvers |-> {}]

\* Two requests that await approval, in one group or, when groups hold one, in two,
\* of one requester or of two who may each decide what the other asked for.
Asking(second, limit) ==
  [ops |-> {o1, o2}, conns |-> {c1, c2}, requester |-> o1 :> op1 @@ o2 :> second,
   operators |-> {op1, op2}, browser |-> FALSE, rules |-> {Ask}, first |-> Ask,
   ceilings |-> {1}, limit |-> limit, acts |-> {}, online |-> FALSE, versions |-> 1]

\* A native operation under any rule, while the policy, the registration and the
\* clock change.
Native ==
  [ops |-> {o1}, conns |-> {c1}, requester |-> o1 :> op1, operators |-> {op1, op2},
   browser |-> FALSE, rules |-> {Allow, Ask, Deny}, first |-> Ask, ceilings |-> {1, 2},
   limit |-> 2, acts |-> {"workload", "fence", "policy"}, online |-> TRUE, versions |-> 2]

\* A native operation while the node's key is rotated.
Rotating == [Native EXCEPT !.rules = {Allow}, !.first = Allow, !.ceilings = {1},
                           !.acts = {"rotate"}, !.versions = 1]

\* A browser request in one or two handlers at once while authority is withdrawn.
Browser(conns, acts) ==
  [ops |-> {o1}, conns |-> conns, requester |-> o1 :> op1, operators |-> {op1},
   browser |-> TRUE, rules |-> {Allow}, first |-> Allow, ceilings |-> {1}, limit |-> 2,
   acts |-> acts, online |-> TRUE, versions |-> 1]

MCScenarios ==
  {Asking(op1, 2), Asking(op2, 2), Asking(op1, 1), Native, Rotating,
   Browser({c1, c2}, {"fence"}), Browser({c1}, {"workload", "node", "rotate"})}
=============================================================================
