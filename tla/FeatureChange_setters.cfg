SPECIFICATION FairSpec
CONSTANTS
  t1 = t1
  t2 = t2
  Nobody = Nobody
  Keep = Keep
  Tasks <- TwoTasks
  Values <- OnOff
  LampFirst <- Off
  MaxCalls = 2
INVARIANT AdjacentFieldsArePreserved
INVARIANT PartialChangeIsUncertain
PROPERTY SuccessIsApplied
PROPERTY SetterReturns
CHECK_DEADLOCK FALSE
