SPECIFICATION FairSpec
CONSTANTS
  t1 = t1
  t2 = t2
  Nobody = Nobody
  Tasks <- TwoTasks
  Directions <- LeftRight
INVARIANT NeverLeftUnattended
INVARIANT MovesDoNotOverlap
PROPERTY MoveReturns
CHECK_DEADLOCK FALSE
