SPECIFICATION MCFairSpec
CONSTANTS
  Broker = broker
  Other = other
  Enrolments = {1, 2}
  Requests = {1}
  Audits = {2}
  QueueMax = 1
  Batch = 2
  MaxVersion = 2
  Scenes <- MCScenes
  w1 = w1
  Workloads = {w1, w2}
  Units = {u1, u2}
  RuleSets = {r1, r2}
  Conns = {c1, c2}
  None = None
INVARIANTS
  EnrolledOnce
  AckedIsApplied
  EventsKept
  KeysAgree
  SettingsSound
PROPERTIES
  ChangesComplete
  SettingsDrain
CHECK_DEADLOCK FALSE
