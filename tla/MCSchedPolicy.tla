--------------------------- MODULE MCSchedPolicy ---------------------------
(* SchedPolicy instantiated for TLC: three threads, two of them callers.   *)
(* The third has a two-digit id, so that itoa produces more than one      *)
(* digit.                                                                 *)
EXTENDS SchedPolicy

t1 == 1
t2 == 2
t3 == 10

MCTids == {t1, t2, t3}
MCCallers == {t1, t2}
\* t1 sets t3, t2 sets itself: no thread has two callers.
MCTargetsOwn == [c \in MCCallers |-> IF c = t1 THEN {t3} ELSE {0}]
\* As MCTargetsOwn, and t1 may also pass the negative tid -1.
MCTargetsNegative == [c \in MCCallers |-> IF c = t1 THEN {t3, -1} ELSE {0}]
\* Only t1 calls, on itself and on t3.
MCTargetsSingle == [c \in MCCallers |-> IF c = t1 THEN {0, t3} ELSE {}]
\* t1 and t2 both set t3.
MCTargetsShared == [c \in MCCallers |-> {t3}]
\* The requests other than SP_REALTIME, whose class sticks (RealtimeOnlyWhenAsked).
MCRequestsNoRt == {"SP_DEFAULT", "SP_BACKGROUND", "SP_SYSTEM"}
\* SP_FOREGROUND, SP_AUDIO_APP and SP_AUDIO_SYS take the same paths as
\* SP_DEFAULT.
MCRequests == {"SP_DEFAULT", "SP_BACKGROUND", "SP_SYSTEM", "SP_REALTIME"}
=============================================================================
