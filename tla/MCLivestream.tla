---------------------------- MODULE MCLivestream ----------------------------
EXTENDS Livestream, TLC

CONSTANTS t1, t2

TwoTasks     == {t1, t2}
TaskSymmetry == Permutations(TwoTasks)
=============================================================================
