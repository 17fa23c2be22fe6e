SPECIFICATION Spec
CONSTANTS
  r1 = r1  r2 = r2  f1 = f1  op1 = op1  op2 = op2  v1 = v1  v2 = v2
  c1 = c1  c2 = c2  c3 = c3  shared = shared
  NoOne = NoOne
  RingOf <- MCRingOf
  Ids = {e1}
  Agents = {r1, r2, f1}
  Admins = {r2}
  Terms <- MCTerms
  Values = {v1, v2}
  Operators = {op1, op2}
  Keys = {k1}
  Conns = {c1, c2, c3}
  Documents <- MCDocuments
  SubmittedTtl = 1
  RevokedTtl = 1
  ApprovalTtl = 1
  KeyTtl = 3
  Grace = 1
  RequestTimeout = 1
  Scenarios <- MCScenarios
SYMMETRY Symmetry
INVARIANTS DeliveredAsPromised ApprovedByAssigned
PROPERTIES RetryDecidesNothing ReservedInForce
