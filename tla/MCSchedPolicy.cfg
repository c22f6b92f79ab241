\* Every thread set by one caller at a time, t1 passing a negative tid as
\* well; both opens of __init_sched may fail; no cpusets in the build; an
\* Android kernel and a caller with CAP_SYS_NICE, so the prctl succeeds.
CONSTANTS
  Tids <- MCTids
  Callers <- MCCallers
  Targets <- MCTargetsNegative
  Requests <- MCRequests
  UseCpusets = FALSE
  CpuctlPresent = TRUE
  CpusetPresent = TRUE
  RtPermitted = TRUE
  SlackPrctl = TRUE
  SlackCapable = TRUE

SPECIFICATION Spec

INVARIANT TypeOK
INVARIANT GetReportsLastSet
INVARIANT SlackMatchesReportedClass

PROPERTY SetMovesOnlyItsTarget
