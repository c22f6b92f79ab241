------------------------ MODULE MCSchedPolicyReuse -------------------------
(* SchedPolicyReuse for TLC: the threads and requests of MCSchedPolicy.   *)
EXTENDS SchedPolicyReuse

t1 == 1
t2 == 2
t3 == 10

MCTids == {t1, t2, t3}
MCCallers == {t1, t2}
\* t1 sets t3, t2 sets itself: no thread has two callers.
MCTargetsOwn == [c \in MCCallers |-> IF c = t1 THEN {t3} ELSE {0}]
MCRequests == {"SP_DEFAULT", "SP_BACKGROUND", "SP_SYSTEM", "SP_REALTIME"}
=============================================================================
