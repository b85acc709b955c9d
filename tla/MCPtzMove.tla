------------------------------ MODULE MCPtzMove ------------------------------
EXTENDS PtzMove, TLC

CONSTANTS t1, t2

TwoTasks      == {t1, t2}
LeftRight     == {"left", "right"}
TaskSymmetry  == Permutations(TwoTasks)
=============================================================================
