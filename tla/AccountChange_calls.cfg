SPECIFICATION FairSpec
CONSTANTS
  t1 = t1
  t2 = t2
  p1 = p1
  p2 = p2
  Nobody = Nobody
  Empty = Empty
  Tasks <- TwoTasks
  Passwords <- TwoPasswords
  MaxSession = 2
INVARIANT EachStepOnceInTurn
INVARIANT EnableStaysOnItsSession
PROPERTY SuccessIsVerified
PROPERTY SentIsNotDenied
PROPERTY ChangeEnds
CHECK_DEADLOCK FALSE
