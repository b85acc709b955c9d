SPECIFICATION Spec
CONSTANTS
  t1 = t1
  t2 = t2
  NoTask = NoTask
  Tasks <- TwoTasks
  Calls <- CorrelationCalls
  MaxSession = 2
  MaxFrame = 3
  MaxStatus = 1
SYMMETRY TaskSymmetry
INVARIANT AnswersItsOwnRequest
CHECK_DEADLOCK FALSE
