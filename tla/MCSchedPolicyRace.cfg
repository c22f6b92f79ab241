\* Two callers set the same thread t3 concurrently.
CONSTANTS
  Tids <- MCTids
  Callers <- MCCallers
  Targets <- MCTargetsShared
  Requests <- MCRequests
  UseCpusets = FALSE
  CpuctlPresent = TRUE
  CpusetPresent = TRUE
  RtPermitted = TRUE
  SlackPrctl = TRUE
  SlackCapable = TRUE

SPECIFICATION Spec

INVARIANT SlackMatchesReportedClass
