\* As MCSchedPolicy.cfg, but the caller lacks CAP_SYS_NICE: the prctl of t1
\* on t3 fails with EPERM, and set_sched_policy returns 0 regardless.
CONSTANTS
  Tids <- MCTids
  Callers <- MCCallers
  Targets <- MCTargetsNegative
  Requests <- MCRequests
  UseCpusets = FALSE
  CpuctlPresent = TRUE
  CpusetPresent = TRUE
  RtPermitted = TRUE
  SlackPrctl = TRUE
  SlackCapable = FALSE

SPECIFICATION Spec

INVARIANT SlackMatchesReportedClass
