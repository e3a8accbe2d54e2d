\* One loop and two posters: more posts than the wake-up pipe holds, and the first
\* post to a loop that is dispatching.  Run it with -continue to see both.
CONSTANTS
  l1 = l1  l2 = l2  p1 = p1  p2 = p2
  t1 = t1  t2 = t2  t3 = t3  t4 = t4  t5 = t5
  Loop <- MCOneLoop
  Poster <- MCPoster
  Task <- MCBusyTask
  Origin <- MCBusyOrigin
  Target <- MCBusyTarget
  PipeCap = 1
  NoOwner = NoOwner
  NoTask = NoTask
SPECIFICATION Spec
INVARIANTS NoCircularWait EventsTouchedByOneThread
