SPECIFICATION FairSpec
CONSTANTS
  t1 = t1
  t2 = t2
  NoTask = NoTask
  Tasks <- TwoTasks
  Calls <- LifecycleCalls
  MaxSession = 2
  MaxFrame = 2
  MaxStatus = 0
INVARIANT NoSlotLeak
INVARIANT ConnectedIsUsable
PROPERTY LeaseKeepsSession
PROPERTY DisconnectedByItsOwnEnd
PROPERTY EveryCallReturns
CHECK_DEADLOCK FALSE
