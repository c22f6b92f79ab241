------------------------- MODULE AtomicSchedPolicy -------------------------
(***************************************************************************)
(* What set_sched_policy and set_cpuset_policy promise a caller, with no   *)
(* system calls: each call moves its thread into a policy class, with the  *)
(* timer slack of that class, in one indivisible step, or does nothing.    *)
(* A thread's class is what get_sched_policy reports for it; a thread      *)
(* that has exited has none.  The cpuset of a thread is moved in one step  *)
(* by set_cpuset_policy.                                                   *)
(***************************************************************************)
CONSTANTS
  Tids,        \* the threads
  Cpusets      \* the cpuset directories a thread may be in

VARIABLES
  class,       \* the class get_sched_policy reports, or "none"
  slack,       \* the timer slack
  cpuset       \* the cpuset directory

Classes == {"SP_FOREGROUND", "SP_BACKGROUND"}

\* The slack that goes with a class.
SlackFor(k) == IF k = "SP_BACKGROUND" THEN "TIMER_SLACK_BG" ELSE "TIMER_SLACK_FG"

Init ==
  /\ class = [t \in Tids |-> "SP_FOREGROUND"]
  /\ slack = [t \in Tids |-> "TIMER_SLACK_FG"]
  /\ cpuset \in [Tids -> Cpusets]

\* A set moves a live thread to a class and its slack together.
Set(t) ==
  /\ class[t] # "none"
  /\ \E k \in Classes :
       /\ class' = [class EXCEPT ![t] = k]
       /\ slack' = [slack EXCEPT ![t] = SlackFor(k)]
  /\ UNCHANGED cpuset

\* A cpuset set moves a live thread to a cpuset.
SetCpuset(t) ==
  /\ class[t] # "none"
  /\ \E d \in Cpusets : cpuset' = [cpuset EXCEPT ![t] = d]
  /\ UNCHANGED <<class, slack>>

\* The thread exits.
Exit(t) ==
  /\ class[t] # "none"
  /\ class' = [class EXCEPT ![t] = "none"]
  /\ UNCHANGED <<slack, cpuset>>

Next == \E t \in Tids : Set(t) \/ SetCpuset(t) \/ Exit(t)

Spec == Init /\ [][Next]_<<class, slack, cpuset>>
=============================================================================
