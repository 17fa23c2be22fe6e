SPECIFICATION MCFairSpec
CONSTANTS
  Parts = {"database"}
  Ids = {r1}
  Agents = {a1}
  Browsers = {b1}
  Conns = {c1}
  NoOne = NoOne
  RequestTtl = 2
  SubmittedTtl = 2
  Grace = 1
  Procs = {p1, p2}
  Source = "src"
  Destinations = {"d1", "d2"}
  Restored = "rst"
  Nodes = {"n1", "n2"}
  Pages = 1
INVARIANT HoldersApart
CHECK_DEADLOCK FALSE
