\* Tasks of two loops that post to one another.
CONSTANTS
  l1 = l1  l2 = l2  p1 = p1  p2 = p2
  t1 = t1  t2 = t2  t3 = t3  t4 = t4  t5 = t5
  Loop <- MCLoop
  Poster <- MCPoster
  Task <- MCCrossTask
  Origin <- MCCrossOrigin
  Target <- MCCrossTarget
  PipeCap = 4
  NoOwner = NoOwner
  NoTask = NoTask
SPECIFICATION Spec
INVARIANT NoCircularWait
