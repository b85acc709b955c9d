SPECIFICATION Spec
CONSTANTS
  t1 = t1
  t2 = t2
  NoTask = NoTask
  Tasks <- TwoTasks
  Calls <- LoginCalls
  MaxSession = 2
  MaxFrame = 2
  MaxStatus = 0
SYMMETRY TaskSymmetry
INVARIANT ProtectedCommandsFollowLogin
CHECK_DEADLOCK FALSE
