--------------------------- MODULE MCAccountChange ---------------------------
EXTENDS AccountChange

CONSTANTS t1, t2, p1, p2

TwoTasks     == {t1, t2}
TwoPasswords == {p1, p2}
=============================================================================
