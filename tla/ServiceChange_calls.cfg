SPECIFICATION FairSpec
CONSTANTS
  t1 = t1
  t2 = t2
  Nobody = Nobody
  Tasks <- TwoTasks
  Retries = 1
  MaxSession = 4
  MaxCalls = 2
INVARIANT SentIsNeverDenied
INVARIANT RepeatsOnNewSessions
PROPERTY CallEnds
CHECK_DEADLOCK FALSE
