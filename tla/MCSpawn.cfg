SPECIFICATION SpawnSpec
CONSTANTS
  s1 = s1
  s2 = s2
  a1 = a1
  a2 = a2
  a3 = a3
  t1 = t1
  Components = {s1, s2, a1, a2, a3, t1}
  Methods = {"Start", "Stop", "Run"}
  Anonymous = Anonymous
  Nobody = Nobody
  Services <- TwoServices
  Applications <- ThreeApplications
  Tests <- OneTest
  Settings <- TheSettings
INVARIANTS SpawnTypeOK QueueExact AnswersAwaited UsedWhileThere NoDeadlock
PROPERTIES SpawnEnds KeepsQueueSpec
CHECK_DEADLOCK FALSE
