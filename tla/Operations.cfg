SPECIFICATION FairSpec
CONSTANTS
  op1 = op1  op2 = op2
  o1 = o1  o2 = o2
  c1 = c1  c2 = c2
  Ops = {o1, o2}
  Operators = {op1, op2}
  Workload = Workload
  Conns = {c1, c2}
  NoOne = NoOne
  RequestedTtl = 1
  ApprovalTtl = 1
  Scenarios <- MCScenarios
INVARIANTS Authorised TablesAgree NotExecutedIsTrue
PROPERTIES WorkEnds
