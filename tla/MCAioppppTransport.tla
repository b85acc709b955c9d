------------------------- MODULE MCAioppppTransport -------------------------
EXTENDS AioppppTransport

CONSTANTS t1, t2

TwoTasks     == {t1, t2}
TaskSymmetry == Permutations(TwoTasks)

LifecycleCalls   == {"connect", "close", "lease", "channel", "get_params"}
CorrelationCalls == {"connect", "get_status", "raw"}
LoginCalls       == {"connect", "get_params"}
=============================================================================
