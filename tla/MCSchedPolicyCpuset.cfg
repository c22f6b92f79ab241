\* A build with USE_CPUSETS; the opens of both inits may fail.
CONSTANTS
  Tids <- MCTids
  Callers <- MCCallers
  Targets <- MCTargetsSingle
  Requests <- MCRequests
  UseCpusets = TRUE
  CpuctlPresent = TRUE
  CpusetPresent = TRUE
  RtPermitted = TRUE
  SlackPrctl = TRUE
  SlackCapable = TRUE

SPECIFICATION Spec

INVARIANT GetReportsLastSet
INVARIANT SlackMatchesReportedClass
