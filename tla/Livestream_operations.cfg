SPECIFICATION FairSpec
CONSTANTS
  t1 = t1
  t2 = t2
  Nobody = Nobody
  Tasks <- TwoTasks
  MaxSession = 2
INVARIANT NothingLeftBehind
INVARIANT CancelledIsNotSuccess
PROPERTY StopFollowsStart
PROPERTY OperationEnds
CHECK_DEADLOCK FALSE
