SPECIFICATION Spec
CONSTANTS
  t1 = t1
  t2 = t2
  Nobody = Nobody
  Keep = Keep
  Tasks <- TwoTasks
  Values <- OnOff
  LampFirst <- Off
  MaxCalls = 1
SYMMETRY TaskSymmetry
INVARIANT CancelledWifiChangeIsUncertain
CHECK_DEADLOCK FALSE
