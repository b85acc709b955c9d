--------------------------- MODULE MCFeatureChange ---------------------------
EXTENDS FeatureChange, TLC

CONSTANTS t1, t2

TwoTasks     == {t1, t2}
OnOff        == {0, 1}
Off          == {0}
TaskSymmetry == Permutations(TwoTasks)
=============================================================================
