\* Two loops whose tasks post in one order, with room in the pipes.
CONSTANTS
  l1 = l1  l2 = l2  p1 = p1  p2 = p2
  t1 = t1  t2 = t2  t3 = t3  t4 = t4  t5 = t5
  Loop <- MCLoop
  Poster <- MCPoster
  Task <- MCTask
  Origin <- MCOrigin
  Target <- MCTarget
  PipeCap = 3
  NoOwner = NoOwner
  NoTask = NoTask
SPECIFICATION FairSpec
INVARIANTS NoLostWakeup NoCircularWait RunsAtMostOnce
PROPERTY QueuedRuns
