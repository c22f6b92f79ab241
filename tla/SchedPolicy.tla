---------------------------- MODULE SchedPolicy ----------------------------
(***************************************************************************)
(* libcutils sched_policy.c (src/libcutils/sched_policy.c lines 1-495),    *)
(* Android build: threads of a process calling set_sched_policy,           *)
(* set_cpuset_policy and get_sched_policy concurrently, on themselves      *)
(* (tid 0) or on other threads.  The library state is the pthread_once     *)
(* initialisation and the file descriptors it opens; the kernel state of   *)
(* every thread is its cpu cgroup, its cpuset, its POSIX scheduling        *)
(* policy and its timer slack.  Each system call is one atomic step; a     *)
(* call of the library is the sequence of its system calls, so calls of    *)
(* different threads interleave between them.                              *)
(***************************************************************************)
EXTENDS Integers, Sequences, FiniteSets
LOCAL INSTANCE SequencesExt

CONSTANTS
  Tids,           \* the threads of the process
  Callers,        \* the threads that call the library
  Targets,        \* Targets[c]: the tids caller c passes (0 is itself)
  UseCpusets,     \* the build defines USE_CPUSETS
  CpuctlPresent,  \* access("/dev/cpuctl/tasks") succeeds
  CpusetPresent,  \* access("/dev/cpuset/tasks") succeeds
  Requests,       \* the SchedPolicy values callers pass
  RtPermitted,    \* the process may use SCHED_RR (CAP_SYS_NICE or RLIMIT_RTPRIO)
  SlackPrctl,     \* the kernel has PR_SET_TIMERSLACK_PID (Android kernels only)
  SlackCapable    \* the caller may set another thread's slack (CAP_SYS_NICE)

\* A thread id is a positive int; a caller may also pass 0 (itself) or a
\* negative number.
ASSUME /\ Tids \subseteq Nat \ {0} /\ Callers \subseteq Tids
       /\ Targets \in [Callers -> SUBSET Int]
       /\ {UseCpusets, CpuctlPresent, CpusetPresent, RtPermitted,
           SlackPrctl, SlackCapable} \subseteq BOOLEAN

\* SchedPolicy (cutils/sched_policy.h); SP_SYSTEM_DEFAULT is SP_FOREGROUND.
Policies == {"SP_DEFAULT", "SP_BACKGROUND", "SP_FOREGROUND", "SP_SYSTEM",
             "SP_AUDIO_APP", "SP_AUDIO_SYS", "SP_REALTIME"}
ASSUME Requests \subseteq Policies

CgroupFds == {"fg", "bg"}             \* /dev/cpuctl/tasks, .../bg_non_interactive/tasks
CpusetFds == {"fg", "bg", "sysbg"}    \* /dev/cpuset/{foreground,background,system-background}/tasks
\* The directory of a thread's cpu cgroup: "" is the root cgroup.
CgroupDirs == {"", "bg_non_interactive"}
CpusetDirs == {"", "foreground", "background", "system-background"}
PosixPolicies == {"SCHED_NORMAL", "SCHED_BATCH", "SCHED_RR"}
Slacks == {"TIMER_SLACK_BG", "TIMER_SLACK_FG"}
EINVAL == 22    \* errno.h on Linux
ESRCH == 3

VARIABLES
  schedOnce,      \* sched_once has run __init_sched
  cpusetOnce,     \* cpuset_once has run __init_cpuset
  schedgroups,    \* __sys_supports_schedgroups
  cpusets,        \* __sys_supports_cpusets
  cgroupFd,       \* cgroupFd[f]: fg_cgroup_fd / bg_cgroup_fd is open (not -1)
  cpusetFd,       \* cpusetFd[f]: fg/bg/system_bg_cpuset_fd is open (not -1)
  alive,          \* the kernel still has the thread
  cgroup,         \* the thread's cpu cgroup directory
  cpuset,         \* the thread's cpuset directory
  posix,          \* the thread's POSIX scheduling policy
  slack,          \* the thread's timer slack
  pc,             \* where each caller is
  call,           \* the call each caller is making: [fn, tid, policy]
  rv,             \* the value each caller's last call returned
  lastSet         \* history: the policy of the last set_sched_policy on a
                  \* thread that returned 0

libVars == <<schedOnce, cpusetOnce, schedgroups, cpusets, cgroupFd, cpusetFd>>
kernelVars == <<alive, cgroup, cpuset, posix, slack>>
callerVars == <<pc, call, rv, lastSet>>
vars == <<libVars, kernelVars, callerVars>>

-----------------------------------------------------------------------------
(* _policy(p): SP_DEFAULT means SP_SYSTEM_DEFAULT.                         *)
Resolve(p) == IF p = "SP_DEFAULT" THEN "SP_FOREGROUND" ELSE p

\* The cgroup file add_tid_to_cgroup writes for a policy in set_sched_policy.
SchedFdOf(p) ==
  CASE p = "SP_BACKGROUND" -> "bg"
    [] p \in {"SP_FOREGROUND", "SP_AUDIO_APP", "SP_AUDIO_SYS"} -> "fg"
    [] OTHER -> "none"

\* The cpuset file set_cpuset_policy writes for a policy.
CpusetFdOf(p) ==
  CASE p = "SP_BACKGROUND" -> "bg"
    [] p \in {"SP_FOREGROUND", "SP_AUDIO_APP", "SP_AUDIO_SYS"} -> "fg"
    [] p = "SP_SYSTEM" -> "sysbg"
    [] OTHER -> "none"

CgroupDirOf(f) == IF f = "bg" THEN "bg_non_interactive" ELSE ""
CpusetDirOf(f) ==
  CASE f = "fg" -> "foreground" [] f = "bg" -> "background" [] f = "sysbg" -> "system-background"

\* Mutant: SCHED_NORMAL asked for the background.
PosixOfSwapped(p) ==
  CASE p = "SP_REALTIME" -> "SCHED_RR"
    [] OTHER -> "SCHED_NORMAL"

\* The POSIX policy set_sched_policy asks for without schedgroups.
PosixOf(p) ==
  CASE p = "SP_BACKGROUND" -> "SCHED_BATCH"
    [] p = "SP_REALTIME" -> "SCHED_RR"
    [] OTHER -> "SCHED_NORMAL"

\* Mutant: the background slack for SP_SYSTEM too.
SlackOfSystemBg(p) ==
  IF p \in {"SP_BACKGROUND", "SP_SYSTEM"} THEN "TIMER_SLACK_BG" ELSE "TIMER_SLACK_FG"

SlackOf(p) == IF p = "SP_BACKGROUND" THEN "TIMER_SLACK_BG" ELSE "TIMER_SLACK_FG"

NoCall == [fn |-> "none", tid |-> 0, policy |-> "SP_DEFAULT"]

\* The tid a call acts on: 0 means gettid(), the caller itself.
TidOf(c) == IF call[c].tid = 0 THEN c ELSE call[c].tid

\* The kernel has a thread with this id.
Live(t) == t \in Tids /\ alive[t]

-----------------------------------------------------------------------------
(* The caller leaves the library with a return value.                      *)
Return(c, v) ==
  /\ pc' = [pc EXCEPT ![c] = "idle"]
  /\ call' = [call EXCEPT ![c] = NoCall]
  /\ rv' = [rv EXCEPT ![c] = v]

\* A caller starts a call of one of the library functions.
Call(c) ==
  /\ pc[c] = "idle"
  /\ \E fn \in {"set_sched_policy", "set_cpuset_policy", "get_sched_policy"},
        tid \in Targets[c], p \in Requests :
       /\ call' = [call EXCEPT ![c] = [fn |-> fn, tid |-> tid, policy |-> p]]
       /\ pc' = [pc EXCEPT ![c] = IF fn = "set_cpuset_policy" THEN "cs_once"
                                  ELSE IF fn = "set_sched_policy" THEN "ss_once"
                                  ELSE "gs_once"]
  /\ UNCHANGED <<libVars, kernelVars, rv, lastSet>>

\* pthread_once(&sched_once, __init_sched): the first caller opens the two
\* cpuctl tasks files when /dev/cpuctl/tasks exists; schedgroups are used
\* only if both opens succeed, else both descriptors are closed and -1.
\* Other callers wait inside pthread_once until it is done.
SchedOnce(c) ==
  /\ pc[c] \in {"ss_once", "gs_once"}
  /\ IF schedOnce
       THEN UNCHANGED <<schedOnce, schedgroups, cgroupFd>>
       ELSE \E fgOpens, bgOpens \in BOOLEAN :
              LET ok == CpuctlPresent /\ fgOpens /\ bgOpens
              IN /\ schedOnce' = TRUE
                 /\ schedgroups' = IF ok THEN 1 ELSE 0
                 /\ cgroupFd' = [f \in CgroupFds |-> ok]
  /\ pc' = [pc EXCEPT ![c] = IF pc[c] = "ss_once" THEN "ss_apply" ELSE "gs_read"]
  /\ UNCHANGED <<cpusetOnce, cpusets, cpusetFd, kernelVars, call, rv, lastSet>>

\* set_cpuset_policy up to its write: without USE_CPUSETS, or when
\* __init_cpuset (run once) found no usable cpusets, it is set_sched_policy.
CpusetOnce(c) ==
  /\ pc[c] = "cs_once"
  /\ IF ~UseCpusets
       THEN /\ pc' = [pc EXCEPT ![c] = "ss_once"]
            /\ UNCHANGED <<cpusetOnce, cpusets, cpusetFd>>
       ELSE /\ IF cpusetOnce
                 THEN UNCHANGED <<cpusetOnce, cpusets, cpusetFd>>
                 ELSE \E opens \in [CpusetFds -> BOOLEAN] :
                        LET ok == CpusetPresent /\ \A f \in CpusetFds : opens[f]
                        IN /\ cpusetOnce' = TRUE
                           /\ cpusets' = IF ok THEN 1 ELSE 0
                           /\ cpusetFd' = [f \in CpusetFds |-> ok]
            /\ pc' = [pc EXCEPT ![c] = IF cpusets' # 0 THEN "cs_apply" ELSE "ss_once"]
  /\ UNCHANGED <<schedOnce, schedgroups, cgroupFd, kernelVars, call, rv, lastSet>>

\* Mutant: the digits in the order the loop computes them, least first.
RECURSIVE ItoaLowFirst(_)
ItoaLowFirst(tid) ==
  IF tid > 0 THEN << tid % 10 >> \o ItoaLowFirst(tid \div 10) ELSE << >>

(* The specialised itoa of add_tid_to_cgroup: the decimal digits of tid,  *)
(* most significant first; nothing at all for a tid that is not positive. *)
RECURSIVE Itoa(_)
Itoa(tid) == IF tid > 0 THEN Itoa(tid \div 10) \o << tid % 10 >> ELSE << >>

\* The kernel's write handler of a tasks file: the text is read as a
\* decimal pid, 0 meaning the writer; an empty text is no number (EINVAL).
\* A live thread is moved, or the kernel refuses it (EINVAL); a pid with
\* no thread is ESRCH.
TasksWrite(c, text) ==
  LET pid == FoldLeft(LAMBDA n, d : 10 * n + d, 0, text)
      p == IF pid = 0 THEN c ELSE pid
  IN IF text = << >>
       THEN {[ok |-> FALSE, errno |-> EINVAL, moved |-> {}]}
     ELSE IF Live(p)
       THEN {[ok |-> TRUE, errno |-> 0, moved |-> {p}],
             [ok |-> FALSE, errno |-> EINVAL, moved |-> {}]}
     ELSE {[ok |-> FALSE, errno |-> ESRCH, moved |-> {}]}

\* Mutant: errno set to -EINVAL instead of EINVAL.
AddTidToCgroupNegErrno(c, t, fdOpen) ==
  IF ~fdOpen THEN {[rc |-> -1, errno |-> -EINVAL, moved |-> {}]}
  ELSE {IF w.ok \/ w.errno = ESRCH
          THEN [rc |-> 0, errno |-> 0, moved |-> w.moved]
          ELSE [rc |-> -1, errno |-> -EINVAL, moved |-> {}]
        : w \in TasksWrite(c, Itoa(t))}

\* add_tid_to_cgroup(tid, fd), called by thread c, its possible outcomes:
\* no descriptor is -1 with EINVAL; otherwise the write of Itoa(tid) either
\* succeeds, or fails with ESRCH, which passes as 0, or fails and is -1
\* with EINVAL.  errno is never ESRCH or ENOENT after a -1, so the
\* callers' test of it always returns -errno.
AddTidToCgroup(c, t, fdOpen) ==
  IF ~fdOpen THEN {[rc |-> -1, errno |-> EINVAL, moved |-> {}]}
  ELSE {IF w.ok \/ w.errno = ESRCH
          THEN [rc |-> 0, errno |-> 0, moved |-> w.moved]
          ELSE [rc |-> -1, errno |-> EINVAL, moved |-> {}]
        : w \in TasksWrite(c, Itoa(t))}

\* set_cpuset_policy with cpusets: write the tid to the policy's cpuset.
CpusetApply(c) ==
  LET t == TidOf(c)
      f == CpusetFdOf(Resolve(call[c].policy))
  IN /\ pc[c] = "cs_apply"
     /\ \E r \in AddTidToCgroup(c, t, f # "none" /\ cpusetFd[f]) :
          /\ cpuset' = [x \in Tids |-> IF x \in r.moved THEN CpusetDirOf(f)
                                                    ELSE cpuset[x]]
          /\ Return(c, IF r.rc # 0 THEN -r.errno ELSE 0)
     /\ UNCHANGED <<libVars, alive, cgroup, posix, slack, lastSet>>

\* Mutant: a failed cgroup write goes on to the timer slack.
SchedApplyIgnoresFailure(c) ==
  LET t == TidOf(c)
      p == Resolve(call[c].policy)
      f == SchedFdOf(p)
  IN /\ pc[c] = "ss_apply"
     /\ pc' = [pc EXCEPT ![c] = "ss_slack"]
     /\ IF schedgroups # 0 /\ p # "SP_REALTIME"
          THEN /\ IF f # "none" /\ cgroupFd[f] /\ Live(t)
                    THEN cgroup' = [cgroup EXCEPT ![t] = CgroupDirOf(f)]
                    ELSE UNCHANGED cgroup
               /\ UNCHANGED posix
          ELSE /\ posix' = IF Live(t) /\ (p = "SP_REALTIME" => RtPermitted)
                              THEN [posix EXCEPT ![t] = PosixOf(p)] ELSE posix
               /\ UNCHANGED cgroup
     /\ UNCHANGED <<libVars, alive, cpuset, slack, call, rv, lastSet>>

\* set_sched_policy after the once: with schedgroups and a policy other
\* than SP_REALTIME, write the tid to the policy's cpu cgroup; otherwise
\* sched_setscheduler (its failure only logged), the RT policy at
\* priority 1.
SchedApply(c) ==
  LET t == TidOf(c)
      p == Resolve(call[c].policy)
      f == SchedFdOf(p)
  IN /\ pc[c] = "ss_apply"
     /\ IF schedgroups # 0 /\ p # "SP_REALTIME"
          THEN \E r \in AddTidToCgroup(c, t, f # "none" /\ cgroupFd[f]) :
                 /\ cgroup' = [x \in Tids |-> IF x \in r.moved THEN CgroupDirOf(f)
                                                          ELSE cgroup[x]]
                 /\ IF r.rc # 0
                      THEN Return(c, -r.errno)
                      ELSE pc' = [pc EXCEPT ![c] = "ss_slack"] /\ UNCHANGED <<rv, call>>
                 /\ UNCHANGED <<posix, cpuset>>
          ELSE /\ posix' = IF Live(t) /\ (p = "SP_REALTIME" => RtPermitted)
                              THEN [posix EXCEPT ![t] = PosixOf(p)] ELSE posix
               /\ pc' = [pc EXCEPT ![c] = "ss_slack"]
               /\ UNCHANGED <<cgroup, cpuset, rv, call>>
     /\ UNCHANGED <<libVars, alive, slack, lastSet>>

\* prctl(PR_SET_TIMERSLACK_PID, ...), its failure ignored; return 0.  The
\* kernel sets the slack of a live thread; it refuses the call (EINVAL)
\* when it has no such prctl, and for another thread (EPERM) when the
\* caller lacks CAP_SYS_NICE.
SlackSet(c, t) == SlackPrctl /\ Live(t) /\ (t = c \/ SlackCapable)

SchedSlack(c) ==
  LET t == TidOf(c)
      p == Resolve(call[c].policy)
  IN /\ pc[c] = "ss_slack"
     /\ slack' = IF SlackSet(c, t) THEN [slack EXCEPT ![t] = SlackOf(p)] ELSE slack
     /\ lastSet' = IF t \in Tids THEN [lastSet EXCEPT ![t] = p] ELSE lastSet
     /\ Return(c, 0)
     /\ UNCHANGED <<libVars, alive, cgroup, cpuset, posix>>

(* getSchedulerGroup: the lines of /proc/<tid>/cgroup as sequences of      *)
(* ':'-separated fields; the group field is "/", the directory and the     *)
(* newline.  The first line whose second field is "cpu" gives its third    *)
(* field without its first and last character; a line with too few        *)
(* fields is bad data.                                                     *)
CgroupFile(t) ==
  << <<"2", "cpu", IF cgroup[t] = "" THEN <<"/", "\n">>
                   ELSE <<"/", cgroup[t], "\n">> >>,
     <<"1", "cpuacct", <<"/", "\n">> >> >>

\* Mutant: the group field kept with its leading '/'.
RECURSIVE SchedulerGroupKeepsSlash(_)
SchedulerGroupKeepsSlash(lines) ==
  IF lines = << >> THEN "not found"
  ELSE LET l == Head(lines)
       IN IF Len(l) < 2 THEN "bad data"
          ELSE IF l[2] # "cpu" THEN SchedulerGroupKeepsSlash(Tail(lines))
          ELSE IF Len(l) < 3 THEN "bad data"
          ELSE SubSeq(l[3], 1, Len(l[3]) - 1)

RECURSIVE SchedulerGroup(_)
SchedulerGroup(lines) ==
  IF lines = << >> THEN "not found"
  ELSE LET l == Head(lines)
       IN IF Len(l) < 2 THEN "bad data"
          ELSE IF l[2] # "cpu" THEN SchedulerGroup(Tail(lines))
          ELSE IF Len(l) < 3 THEN "bad data"
          ELSE SubSeq(l[3], 2, Len(l[3]) - 1)

\* get_sched_policy(t) after the once: the cpu cgroup with schedgroups,
\* the POSIX policy without; an exited thread is an error (-1).
GetSchedPolicy(t) ==
  LET grp == SchedulerGroup(CgroupFile(t))
      Ok(p) == [rc |-> 0, policy |-> p]
      Err == [rc |-> -1, policy |-> "SP_DEFAULT"]
  IN IF ~Live(t) THEN Err
     ELSE IF schedgroups # 0
     THEN CASE grp = << >> -> Ok("SP_FOREGROUND")
            [] grp = <<"bg_non_interactive">> -> Ok("SP_BACKGROUND")
            [] OTHER -> Err
     ELSE CASE posix[t] = "SCHED_NORMAL" -> Ok("SP_FOREGROUND")
            [] posix[t] = "SCHED_BATCH" -> Ok("SP_BACKGROUND")
            [] posix[t] = "SCHED_RR" -> Ok("SP_REALTIME")

GetRead(c) ==
  /\ pc[c] = "gs_read"
  /\ Return(c, GetSchedPolicy(TidOf(c)).rc)
  /\ UNCHANGED <<libVars, kernelVars, lastSet>>

\* A thread that makes no calls exits; the kernel forgets it.
ThreadExit(t) ==
  /\ t \notin Callers /\ alive[t]
  /\ alive' = [alive EXCEPT ![t] = FALSE]
  /\ UNCHANGED <<libVars, cgroup, cpuset, posix, slack, callerVars>>

-----------------------------------------------------------------------------
Init ==
  /\ schedOnce = FALSE /\ cpusetOnce = FALSE
  /\ schedgroups = -1 /\ cpusets = -1
  /\ cgroupFd = [f \in CgroupFds |-> FALSE]
  /\ cpusetFd = [f \in CpusetFds |-> FALSE]
  /\ alive = [t \in Tids |-> TRUE]
  /\ cgroup = [t \in Tids |-> ""]
  /\ cpuset = [t \in Tids |-> ""]
  /\ posix = [t \in Tids |-> "SCHED_NORMAL"]
  /\ slack = [t \in Tids |-> "TIMER_SLACK_FG"]
  /\ pc = [c \in Callers |-> "idle"]
  /\ call = [c \in Callers |-> NoCall]
  /\ rv = [c \in Callers |-> 0]
  /\ lastSet = [t \in Tids |-> "SP_FOREGROUND"]

Next ==
  \/ \E c \in Callers :
       \/ Call(c) \/ SchedOnce(c) \/ CpusetOnce(c) \/ CpusetApply(c)
       \/ SchedApply(c) \/ SchedSlack(c) \/ GetRead(c)
  \/ \E t \in Tids : ThreadExit(t)

Spec == Init /\ [][Next]_vars

-----------------------------------------------------------------------------
TypeOK ==
  /\ schedOnce \in BOOLEAN /\ cpusetOnce \in BOOLEAN
  /\ schedgroups \in {-1, 0, 1} /\ cpusets \in {-1, 0, 1}
  /\ cgroupFd \in [CgroupFds -> BOOLEAN]
  /\ cpusetFd \in [CpusetFds -> BOOLEAN]
  /\ alive \in [Tids -> BOOLEAN]
  /\ cgroup \in [Tids -> CgroupDirs]
  /\ cpuset \in [Tids -> CpusetDirs]
  /\ posix \in [Tids -> PosixPolicies]
  /\ slack \in [Tids -> Slacks]
  /\ pc \in [Callers -> {"idle", "ss_once", "cs_once", "gs_once", "cs_apply",
                         "ss_apply", "ss_slack", "gs_read"}]
  /\ rv \in [Callers -> {0, -1, -EINVAL}]
  /\ lastSet \in [Tids -> Policies]

\* The policy class get_sched_policy reports for a policy set.
ClassOf(p) ==
  CASE p = "SP_BACKGROUND" -> "SP_BACKGROUND"
    [] p = "SP_REALTIME" -> "SP_REALTIME"
    [] OTHER -> "SP_FOREGROUND"

\* Some caller is inside set_sched_policy on t, past its once.
SetInProgress(t) ==
  \E d \in Callers : pc[d] \in {"ss_apply", "ss_slack"} /\ TidOf(d) = t

(* get_sched_policy on a live thread reports the class of the policy the   *)
(* last successful set_sched_policy on it asked for, whichever of the      *)
(* cgroup or the POSIX scheduler the library found at its one-time         *)
(* initialisation; SP_REALTIME, which leaves the cgroup alone, excepted.   *)
GetReportsLastSet ==
  \A c \in Callers :
    LET t == TidOf(c) IN
      /\ pc[c] = "gs_read" /\ Live(t) /\ ~SetInProgress(t)
      /\ lastSet[t] # "SP_REALTIME"
      => GetSchedPolicy(t) = [rc |-> 0, policy |-> ClassOf(lastSet[t])]

(* Between calls, a live thread's timer slack agrees with the class        *)
(* get_sched_policy reports for it: background slack exactly when it is    *)
(* reported in the background ("timer slack value enforced when the        *)
(* thread moves to background").  A thread whose last policy was           *)
(* SP_REALTIME is left out, as for GetReportsLastSet.                      *)
SlackMatchesReportedClass ==
  \A t \in Tids :
    LET g == GetSchedPolicy(t) IN
      /\ alive[t] /\ schedOnce /\ ~SetInProgress(t)
      /\ lastSet[t] # "SP_REALTIME"
      => slack[t] = SlackOf(g.policy)

(* Between calls, a live thread runs SCHED_RR only if the last successful  *)
(* set_sched_policy on it asked for SP_REALTIME.                           *)
RealtimeOnlyWhenAsked ==
  \A t \in Tids :
    alive[t] /\ ~SetInProgress(t) /\ posix[t] = "SCHED_RR"
      => lastSet[t] = "SP_REALTIME"

\* The scheduling state the library changes on a thread.
Sched(t) == <<cgroup[t], cpuset[t], posix[t], slack[t]>>

(* A call changes the scheduling state of no thread but the one its tid   *)
(* names: every step that moves a thread's cgroup, cpuset, POSIX class or *)
(* slack is a step of a caller whose call names that thread.  This is     *)
(* about add_tid_to_cgroup's itoa, which writes nothing for a tid that is *)
(* not positive, and the kernel's reading of what it writes.              *)
SetMovesOnlyItsTarget ==
  [][\A x \in Tids :
       Sched(x)' # Sched(x) => \E d \in Callers : pc'[d] # pc[d] /\ TidOf(d) = x]_vars

-----------------------------------------------------------------------------
(* The refinement mapping to AtomicSchedPolicy.  A set takes effect at its *)
(* prctl: from its cgroup or sched_setscheduler write until then, the      *)
(* thread's class is still the one its slack shows.                        *)
SlackClass(s) == IF s = "TIMER_SLACK_BG" THEN "SP_BACKGROUND" ELSE "SP_FOREGROUND"

SetCommitting(t) == \E d \in Callers : pc[d] = "ss_slack" /\ TidOf(d) = t

AbsClass ==
  [t \in Tids |-> IF ~alive[t] THEN "none"
                  ELSE IF SetCommitting(t) THEN SlackClass(slack[t])
                  ELSE GetSchedPolicy(t).policy]

ATOM == INSTANCE AtomicSchedPolicy WITH class <- AbsClass, Cpusets <- CpusetDirs

(* Every set_sched_policy and set_cpuset_policy call, as the kernel and    *)
(* get_sched_policy see it, takes effect in one step: a thread's reported  *)
(* class and its timer slack change together (at the prctl), its cpuset   *)
(* in the one write, and nothing else changes them.                        *)
AtomicSetSpec == ATOM!Spec

=============================================================================
