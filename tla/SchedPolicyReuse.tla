-------------------------- MODULE SchedPolicyReuse --------------------------
(***************************************************************************)
(* SchedPolicy with thread ids reused by the kernel.  A tid names a thread *)
(* only while it lives: once its thread has exited, the kernel may give    *)
(* the number to a new thread.  set_sched_policy (lines 358-461) resolves  *)
(* nothing about the thread behind a tid; each of its kernel calls acts    *)
(* on whatever thread holds the number at that moment.                     *)
(***************************************************************************)
EXTENDS SchedPolicy

(* A thread that makes no library calls creates a thread, and the kernel   *)
(* gives it the number of a thread that has exited.  The creator runs in   *)
(* the default state (root cpu cgroup and cpuset, SCHED_NORMAL, the        *)
(* foreground slack), which the new thread inherits; nothing has set its   *)
(* policy.                                                                 *)
ThreadSpawn(t) ==
  /\ t \notin Callers /\ ~alive[t]
  /\ alive' = [alive EXCEPT ![t] = TRUE]
  /\ cgroup' = [cgroup EXCEPT ![t] = ""]
  /\ cpuset' = [cpuset EXCEPT ![t] = ""]
  /\ posix' = [posix EXCEPT ![t] = "SCHED_NORMAL"]
  /\ slack' = [slack EXCEPT ![t] = "TIMER_SLACK_FG"]
  /\ lastSet' = [lastSet EXCEPT ![t] = "SP_FOREGROUND"]
  /\ UNCHANGED <<libVars, pc, call, rv>>

ReuseNext == Next \/ \E t \in Tids : ThreadSpawn(t)

ReuseSpec == Init /\ [][ReuseNext]_vars
=============================================================================
