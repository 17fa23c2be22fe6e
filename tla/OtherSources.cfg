SPECIFICATION Spec
CONSTANTS
  Other = Other
  Ids = {1, 2}
  Fresh = {1}
  Requesters = {op1}
  Approvers = {op1, op2}
  Documents <- MCDocuments
  ApprovalTtl = 1
  TermsTtl = 2
  OfferTtl = 1
  MaxEntries = 2
  MaxFaults = 1
  Scenes <- MCScenes
PROPERTY OtherSourcesKept
CHECK_DEADLOCK FALSE
