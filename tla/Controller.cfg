SPECIFICATION MCFairSpec
CONSTANTS
  Parts = {"requests", "database"}
  Ids = {r1}
  Agents = {a1, a2}
  Browsers = {b1, b2}
  Conns = {c1, c2, c3}
  NoOne = NoOne
  RequestTtl = 2
  SubmittedTtl = 2
  Grace = 1
  Procs = {p1, p2}
  Source = "src"
  Destinations = {"d1", "d2"}
  Restored = "rst"
  Nodes = {"n1", "n2"}
  Pages = 1
INVARIANTS DeliveredAsPromised LifetimeBounded OneLineage
PROPERTIES NoResurrection EventuallyErased RestoredSafely GuardFreed
CHECK_DEADLOCK FALSE
